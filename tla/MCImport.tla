------------------------------- MODULE MCImport -------------------------------
(* Extracts of up to five ways around a crossing.                              *)
EXTENDS Import

Way(id, refs, c, o) ==
    [way_id |-> id, node_refs |-> refs, road_class |-> c, oneway |-> o]

Relation(a, v, b, k) == [from_way |-> a, via |-> v, to_way |-> b, kind |-> k]

(* 10 is the main road; 11 crosses it, 12 is a shortcut between its ends, one  *)
(* way of 13 is a loop and one leads around a block, 14 is a footpath, 15 a    *)
(* way cut down to a single node; two ways that join the same nodes have no id.*)
Main == Way(10, <<1, 2, 3>>, 1, FALSE)

Others == {
    <<>>,
    <<Way(11, <<4, 2>>, 2, FALSE)>>,
    <<Way(12, <<1, 5, 3>>, 2, FALSE)>>,
    <<Way(12, <<3, 5, 1>>, 2, TRUE), Way(14, <<4, 5>>, 0, FALSE)>>,
    <<Way(11, <<4, 2, 5>>, 2, TRUE), Way(15, <<4>>, 1, FALSE)>>,
    <<Way(11, <<4, 2>>, 1, TRUE), Way(12, <<3, 5, 4>>, 1, FALSE)>>,
    <<Way(13, <<3, 4, 5, 3>>, 1, TRUE)>>,
    <<Way(13, <<3, 4, 2, 5, 3>>, 1, FALSE)>>,
    <<Way(0, <<1, 5, 3>>, 1, FALSE), Way(0, <<3, 4, 1>>, 2, FALSE)>> }

RelationSets == {
    <<>>,
    <<Relation(10, 2, 11, "no"), Relation(11, 2, 10, "other"), Relation(10, 1, 0, "no")>>,
    <<Relation(11, 2, 10, "only"), Relation(10, 3, 12, "no"), Relation(12, 3, 10, "only"),
      Relation(10, 3, 13, "only")>> }

Places == [o \in 1 .. 5 |-> <<0, 2, 3, 5, 4>>[o]]

(* All nodes are located, or the file leaves out one of them.                  *)
LocatedSets == {1 .. 5} \cup {(1 .. 5) \ {o} : o \in {1, 2, 5}}

MCExtracts ==
    {[ways |-> <<Main>> \o others, relations |-> r,
      located |-> [o \in at |-> Places[o]]] :
        others \in Others, r \in RelationSets, at \in LocatedSets}
================================================================================
