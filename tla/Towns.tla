-------------------------------- MODULE Towns --------------------------------
(***************************************************************************)
(* Small road networks for model checking the searches: every choice of    *)
(* the optional streets of a four-node town, with some turn restrictions.  *)
(***************************************************************************)
EXTENDS Naturals, Sequences

(* The streets, in the order of the edge array (sorted by from).  0-1-2-3  *)
(* is a main road; 4 is a detour 1-3; 5 a second carriageway 1-2; street 6 *)
(* is class 2, twice as slow; 7 is class 0, closed; 8 leads back.          *)
Street(f, t, w, d, c) ==
    [from |-> f, to |-> t, way |-> w, distance |-> d, road_class |-> c]

NoStreet == Street(9, 9, 0, 0, 0)

Streets == <<
    Street(0, 1, 1, 1, 1),
    Street(0, 2, 6, 2, 2),
    Street(0, 3, 7, 3, 0),
    Street(1, 0, 1, 1, 1),
    Street(1, 2, 2, 1, 1),
    Street(1, 2, 5, 3, 1),
    Street(1, 3, 4, 4, 1),
    Street(2, 1, 2, 1, 1),
    Street(2, 3, 3, 1, 1) >>

(* The same town from an extract that lost the inner nodes of street 2:    *)
(* the importer leaves out what it has no coordinates for, so the street   *)
(* comes out shorter than the straight line.                               *)
ClippedStreets == [Streets EXCEPT ![2].distance = 0, ![6].distance = 2]

(* The same town with a ring road: street 6 belongs to the way of street 2, *)
(* so that 2 is entered by one way along two roads, the dearer one first.  *)
RingStreets == [Streets EXCEPT ![6] = Street(1, 2, 6, 2, 1)]

(* The same town with nodes 1 and 2 at one place, as an extract may have    *)
(* them: the road between them, there and back, has no length.             *)
FreeStreets ==
    [Streets EXCEPT ![2].distance = 1, ![5].distance = 0, ![6].distance = 1,
                    ![7].distance = 2, ![8].distance = 0]

Town(streets, kept, bans) ==
    [n |-> 4,
     pos |-> [u \in 0 .. 3 |-> u],
     edges |-> SelectSeq([j \in 1 .. Len(streets) |->
                             IF j \in kept THEN streets[j] ELSE NoStreet],
                         LAMBDA e : e # NoStreet),
     restrictions |-> bans]

Ban(v, f, t, k) == [via |-> v, from_way |-> f, to_way |-> t, kind |-> k]

BanSets == { {},
             {Ban(1, 1, 2, "no")},
             {Ban(2, 2, 3, "no")},
             {Ban(1, 1, 4, "only")},
             {Ban(1, 1, 2, "no"), Ban(2, 5, 3, "no"), Ban(1, 1, 1, "only"),
              Ban(1, 1, 5, "only")},
             {Ban(2, 6, 2, "only"), Ban(1, 2, 2, "no")} }

Car == [c \in 0 .. 2 |-> c]     \* pace by class: closed, fast, half as fast

Request(g, s, t, a) ==
    [graph |-> g, profile |-> Car, source |-> s, target |-> t, astar |-> a]

Nowhere == [n |-> 0, pos |-> <<>>, edges |-> <<>>, restrictions |-> {}]

(* Streets 1, 5, 9 are always there: without them little can be reached.   *)
Kept == {{1, 5, 9} \cup k : k \in SUBSET {2, 4, 6, 7, 8}}

Towns == {Town(Streets, k \cup {3}, b) : k \in Kept, b \in BanSets}

FreeTown(kept, bans) ==
    [Town(FreeStreets, kept, bans) EXCEPT !.pos = [u \in 0 .. 3 |-> IF u < 2 THEN u ELSE u - 1]]

MCRequests ==
    {Request(g, 0, 3, a) : g \in Towns, a \in BOOLEAN}
    \cup {Request(g, 2, 0, a) : g \in Towns, a \in BOOLEAN}
    \cup {Request(g, 1, 3, TRUE) : g \in Towns}
    \cup {Request(Town(RingStreets, {1, 2, 5, 6, 9} \cup k, b), 0, 3, a) :
              k \in SUBSET {4, 7, 8}, b \in BanSets, a \in BOOLEAN}
    \cup {Request(FreeTown({1, 4, 5, 8, 9} \cup k, b), x[1], x[2], a) :
              k \in SUBSET {2, 6, 7}, b \in BanSets, x \in {<<0, 3>>, <<2, 0>>}, a \in BOOLEAN}
    \cup {Request(Nowhere, 0, 0, TRUE),
          Request(Town(Streets, {1}, {}), 0, 4, FALSE),
          Request(Town(Streets, {1}, {}), 9, 4, FALSE),
          Request(Town(Streets, {1}, {}), 1, 1, TRUE),
          Request([Town(Streets, {1}, {}) EXCEPT !.edges =
                      Append(@, Street(1, 7, 2, 1, 1))], 0, 3, FALSE)}

ClippedRequests ==
    {Request(Town(ClippedStreets, {2, 4, 6, 9} \cup k, {}), 1, 2, TRUE) :
        k \in SUBSET {1, 5, 7, 8}}
=============================================================================
