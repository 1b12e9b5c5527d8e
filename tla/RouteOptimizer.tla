---------------------------- MODULE RouteOptimizer ----------------------------
(***************************************************************************)
(* optimize_route and optimize_route_matrix (crates/itinera-core/vrp.rs):  *)
(* the order in which a driver visits all stops, by the nearest-neighbour  *)
(* heuristic and then 2-opt sweeps until one changes nothing.              *)
(***************************************************************************)
EXTENDS Integers, Sequences, FiniteSets

CONSTANTS
    Jobs,       \* the jobs a driver may be given
    Far         \* f64::MAX: no stop at this distance or beyond is ever nearest

(* dist[a][b] is the distance from a to b; 0 is the depot, 1 .. stops are  *)
(* the stops; closed: the driver returns to the depot.                     *)
IsJob(job) ==
    /\ job.stops \in Nat
    /\ job.dist \in [0 .. job.stops -> [0 .. job.stops -> Nat]]
    /\ job.closed \in BOOLEAN

ASSUME JobsAssumption == Far \in Nat /\ \A job \in Jobs : IsJob(job)

VARIABLES
    job,
    pc,         \* "start", "visit", "sweep", "done" or "panic"
    tour,       \* the stops in the order of the visit
    at,         \* the pair of positions <<i, j>> the sweep looks at
    improved,   \* whether this sweep has changed the tour
    total       \* total_distance of the answer

vars == <<job, pc, tour, at, improved, total>>

d(a, b) == job.dist[a][b]
Depot == 0
Stops == 1 .. job.stops

Init ==
    /\ job \in Jobs
    /\ pc = "start"
    /\ tour = <<>>
    /\ at = <<1, 2>>
    /\ improved = FALSE
    /\ total = 0

-----------------------------------------------------------------------------
StopAt(t, i) == IF i \in DOMAIN t THEN t[i] ELSE Depot

Last(t) == StopAt(t, Len(t))

(* route_distance: from stop to stop, and the way home of a closed tour.   *)
route_distance(t) ==
    LET upto[n \in Nat] == IF n = 0 THEN 0
                           ELSE upto[n - 1] + d(StopAt(t, n - 1), StopAt(t, n))
    IN  IF t = <<>> THEN 0 ELSE upto[Len(t) + (IF job.closed THEN 1 ELSE 0)]

(* No stop, or one: nothing to order.  The way back is taken to be as long *)
(* as the way out.                                                         *)
AnswerTrivially ==
    /\ pc = "start"
    /\ job.stops <= 1
    /\ pc' = "done"
    /\ tour' = [i \in Stops |-> i]
    /\ total' = IF job.stops = 0 THEN 0
                ELSE IF job.closed THEN 2 * d(Depot, 1) ELSE d(Depot, 1)
    /\ UNCHANGED <<job, at, improved>>

Start ==
    /\ pc = "start"
    /\ job.stops > 1
    /\ pc' = "visit"
    /\ UNCHANGED <<job, tour, at, improved, total>>

StopsOn(t) == {t[i] : i \in DOMAIN t}

Unvisited == Stops \ StopsOn(tour)

Near == {s \in Unvisited : d(Last(tour), s) < Far}

(* One turn of nearest_neighbor: the first of the nearest.                 *)
Visit(s) ==
    /\ pc = "visit"
    /\ s \in Near
    /\ \A x \in Near : \/ d(Last(tour), s) < d(Last(tour), x)
                       \/ d(Last(tour), s) = d(Last(tour), x) /\ s <= x
    /\ tour' = Append(tour, s)
    /\ pc' = IF Unvisited = {s} THEN "sweep" ELSE "visit"
    /\ UNCHANGED <<job, at, improved, total>>

(* Nothing is near: the placeholder usize::MAX is used as an index.        *)
Panic ==
    /\ pc = "visit"
    /\ Near = {}
    /\ pc' = "panic"
    /\ UNCHANGED <<job, tour, at, improved, total>>

-----------------------------------------------------------------------------
(* Faulty: the leg before the reversed part is left as it was.             *)
GainAfter(t, i, j) == d(t[j], StopAt(t, j + 1)) - d(t[i], StopAt(t, j + 1))

(* What reversing positions i .. j saves, by its two outer legs.  After    *)
(* the last stop comes the depot, on an open tour too.                     *)
two_opt_gain(t, i, j) ==
    LET before == StopAt(t, i - 1)
        after  == StopAt(t, j + 1)
    IN  d(before, t[i]) + d(t[j], after) - d(before, t[j]) - d(t[i], after)

(* Faulty: the half-open range i .. j-1 is reversed with the bounds of i .. j. *)
ReverseShort(t, i, j) ==
    [k \in DOMAIN t |-> IF k \in i .. (j - 1) THEN t[i + j - k] ELSE t[k]]

Reverse(t, i, j) ==
    [k \in DOMAIN t |-> IF k \in i .. j THEN t[i + j - k] ELSE t[k]]

(* Faulty: a reversal that saves nothing is made too.                      *)
PaysOrTies(i, j) == two_opt_gain(tour, i, j) >= 0

Pays(i, j) == two_opt_gain(tour, i, j) > 0

(* Faulty: j starts at i.                                                  *)
OnwardFromSame ==
    at' = IF at[2] < Len(tour) THEN <<at[1], at[2] + 1>>
                               ELSE <<at[1] + 1, at[1] + 1>>

(* The loops over i < j.                                                   *)
Onward ==
    at' = IF at[2] < Len(tour) THEN <<at[1], at[2] + 1>>
                               ELSE <<at[1] + 1, at[1] + 2>>

InSweep == pc = "sweep" /\ at[1] < Len(tour)

Improve ==
    /\ InSweep
    /\ Pays(at[1], at[2])
    /\ tour' = Reverse(tour, at[1], at[2])
    /\ improved' = TRUE
    /\ Onward
    /\ UNCHANGED <<job, pc, total>>

Keep ==
    /\ InSweep
    /\ ~Pays(at[1], at[2])
    /\ Onward
    /\ UNCHANGED <<job, pc, tour, improved, total>>

SweepAgain ==
    /\ pc = "sweep"
    /\ at[1] = Len(tour)
    /\ improved
    /\ at' = <<1, 2>>
    /\ improved' = FALSE
    /\ UNCHANGED <<job, pc, tour, total>>

(* Faulty: answers after the first sweep whatever it did.                  *)
AnswerEarly ==
    /\ pc = "sweep"
    /\ at[1] = Len(tour)
    /\ pc' = "done"
    /\ total' = route_distance(tour)
    /\ UNCHANGED <<job, tour, at, improved>>

Answer ==
    /\ pc = "sweep"
    /\ at[1] = Len(tour)
    /\ ~improved
    /\ pc' = "done"
    /\ total' = route_distance(tour)
    /\ UNCHANGED <<job, tour, at, improved>>

Next ==
    \/ AnswerTrivially
    \/ Start
    \/ \E s \in Stops : Visit(s)
    \/ Panic
    \/ Improve
    \/ Keep
    \/ SweepAgain
    \/ Answer

Spec == Init /\ [][Next]_vars
FairSpec == Spec /\ WF_vars(Next)

-----------------------------------------------------------------------------
(* The state is one optimize_route can be in.                              *)
TypeOK ==
    /\ pc \in {"start", "visit", "sweep", "done", "panic"}
    /\ tour \in Seq(Stops)
    /\ pc = "sweep" => /\ at[1] \in 1 .. Len(tour)
                       /\ at[2] \in at[1] + 1 .. Len(tour) + 1
    /\ improved \in BOOLEAN
    /\ total \in Nat

(* Once there is a tour every stop is on it exactly once, whatever has     *)
(* been reversed; and there comes to be one unless a stop is out of reach  *)
(* from where the driver is or may be.                                     *)
EveryStopOnce ==
    /\ pc \in {"sweep", "done"} =>
          /\ Len(tour) = job.stops
          /\ StopsOn(tour) = Stops
    /\ pc = "panic" => \E a \in {Depot} \cup Stops, s \in Stops : d(a, s) >= Far

(* No reversal of a part of the tour answered with makes it shorter: the   *)
(* last sweep looked at every pair of one and the same tour.               *)
NoReversalHelps ==
    pc = "done" =>
        \A i, j \in DOMAIN tour :
            i < j => route_distance(Reverse(tour, i, j)) >= total

(* A step of a sweep never makes the tour longer.                          *)
NeverLonger ==
    [][pc = "sweep" => route_distance(tour') <= route_distance(tour)]_tour

(* Every job is answered.                                                  *)
Terminates == <>(pc \in {"done", "panic"})
===============================================================================
