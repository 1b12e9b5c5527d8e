---------------------------- MODULE MCRouteOptimizer ----------------------------
(* RouteOptimizer for depots and stops on a small grid (haversine distances  *)
(* are symmetric and metric, as these are).                                  *)
EXTENDS RouteOptimizer

Grid == (0 .. 2) \X (0 .. 1)
Square == (0 .. 2) \X (0 .. 2)

Gap(x, y) == IF x < y THEN y - x ELSE x - y

Along(a, b) == Gap(a[1], b[1]) + Gap(a[2], b[2])

(* All ways to put k stops on a grid, the depot in the corner.               *)
OnGrid(grid, k, closed) ==
    {[stops |-> k, closed |-> closed,
      dist |-> [a \in 0 .. k |-> [b \in 0 .. k |-> Along(p[a], p[b])]]] :
        p \in {q \in [0 .. k -> grid] : q[0] = <<0, 0>>}}

(* Stop 2 is out of reach.                                                   *)
Stranded ==
    [stops |-> 3, closed |-> TRUE,
     dist |-> [a \in 0 .. 3 |-> [b \in 0 .. 3 |->
                  IF a = b THEN 0 ELSE IF 2 \in {a, b} THEN Far ELSE a + b]]]

Around(places) ==
    LET p == <<<<0, 0>>>> \o places
    IN  [stops |-> Len(places), closed |-> TRUE,
         dist |-> [a \in 0 .. Len(places) |-> [b \in 0 .. Len(places) |->
                      Along(p[a + 1], p[b + 1])]]]

(* Places a first sweep over the nearest-neighbour tour leaves unsettled.    *)
Scattered ==
    {Around(<<p[1], p[2], p[3], p[4]>>) :
        p \in {q \in [1 .. 4 -> {<<3, 2>>, <<3, 0>>, <<0, 2>>, <<2, 3>>}] :
                  Cardinality({q[k] : k \in 1 .. 4}) = 4}}
    \cup {Around(<< <<2, 2>>, <<3, 1>>, <<2, 0>>, <<1, 2>>, <<3, 3>> >>),
          Around(<< <<2, 0>>, <<0, 2>>, <<2, 2>>, <<0, 1>>, <<1, 3>>, <<2, 0>> >>)}

ClosedJobs == {Stranded} \cup Scattered \cup UNION {OnGrid(Grid, k, TRUE) : k \in {0, 1, 2, 4}}

OpenJobs == OnGrid(Square, 3, FALSE)

=================================================================================
