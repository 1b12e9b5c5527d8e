-------------------------- MODULE RouteOptimizerProofs --------------------------
(***************************************************************************)
(* For every job, symmetric or not, closed or open: once there is a tour   *)
(* it visits every stop exactly once, and no reversal loses or doubles one.*)
(* For every round trip: no step of a sweep makes the tour longer, and no  *)
(* reversal makes the one answered with shorter.                           *)
(***************************************************************************)
EXTENDS RouteOptimizer, FiniteSetTheorems, TLAPS

Over == INSTANCE OperatorTheorems

(* The sweep stands on a pair of positions of the tour, or past the last.  *)
OnPair ==
    /\ at \in Int \X Int
    /\ 1 <= at[1] /\ at[1] < at[2] /\ at[2] <= Len(tour) + 1
    /\ at[1] < Len(tour) => at[2] <= Len(tour)
    /\ at[1] <= Len(tour)

(* Visiting takes the stops one by one off those that are left.            *)
TourInv ==
    /\ job \in Jobs
    /\ pc \in {"start", "visit", "sweep", "done", "panic"}
    /\ tour \in Seq(Stops)
    /\ pc = "start" => tour = <<>>
    /\ pc \in {"start", "visit"} =>
          at = <<1, 2>> /\ Cardinality(Unvisited) = job.stops - Len(tour)
    /\ pc = "visit" => job.stops > 1 /\ Unvisited # {}
    /\ pc = "sweep" => OnPair
    /\ EveryStopOnce

LEMMA JobFacts == ASSUME job \in Jobs
                  PROVE  /\ job.stops \in Nat
                         /\ IsFiniteSet(Stops)
                         /\ Cardinality(Stops) = job.stops
<1>1. job.stops \in Nat
  BY JobsAssumption DEF IsJob
<1>. QED
  BY <1>1, FS_Interval DEF Stops

(* Reversing a part of a tour keeps its length and its stops.              *)
LEMMA ReverseKeepsStops ==
    ASSUME NEW S, NEW t \in Seq(S), NEW i \in 1 .. Len(t), NEW j \in i .. Len(t),
           NEW r, r = Reverse(t, i, j)
    PROVE  /\ r \in Seq(S)
           /\ Len(r) = Len(t)
           /\ StopsOn(r) = StopsOn(t)
<1>. DEFINE Mirror(k) == IF k \in i .. j THEN i + j - k ELSE k
<1>1. DOMAIN t = 1 .. Len(t) /\ Len(t) \in Nat
  OBVIOUS
<1>2. \A k \in 1 .. Len(t) : Mirror(k) \in 1 .. Len(t) /\ Mirror(Mirror(k)) = k
  OBVIOUS
<1>3. DOMAIN r = 1 .. Len(t) /\ \A k \in 1 .. Len(t) : r[k] = t[Mirror(k)]
  BY <1>1 DEF Reverse
<1>4. r \in [1 .. Len(t) -> S]
  <2>1. r = [k \in 1 .. Len(t) |-> r[k]]
    BY <1>1 DEF Reverse
  <2>2. \A k \in 1 .. Len(t) : r[k] \in S
    BY <1>2, <1>3
  <2>. QED
    BY <2>1, <2>2
<1>5. r \in Seq(S) /\ Len(r) = Len(t)
  BY <1>1, <1>4
<1>6. StopsOn(r) = StopsOn(t)
  <2>1. ASSUME NEW k \in DOMAIN r PROVE r[k] \in {t[l] : l \in DOMAIN t}
    BY <1>1, <1>2, <1>3
  <2>2. ASSUME NEW k \in DOMAIN t PROVE t[k] \in {r[l] : l \in DOMAIN r}
    <3>1. Mirror(k) \in DOMAIN r /\ r[Mirror(k)] = t[k]
      BY <1>1, <1>2, <1>3
    <3>. QED
      BY <3>1
  <2>. QED
    BY <2>1, <2>2 DEF StopsOn
<1>. QED
  BY <1>5, <1>6

LEMMA TourInit == Init => TourInv
<1>. SUFFICES ASSUME Init PROVE TourInv
  OBVIOUS
<1>1. tour = <<>> /\ pc = "start" /\ job \in Jobs /\ at = <<1, 2>>
  BY DEF Init
<1>2. Unvisited = Stops
  BY <1>1 DEF Unvisited, StopsOn
<1>. QED
  BY <1>1, <1>2, JobFacts DEF TourInv, EveryStopOnce

(* The loops stay on pairs of the tour, whose length does not change.      *)
LEMMA OnwardStays ==
    ASSUME OnPair, InSweep, Onward, tour' \in Seq(Stops), tour \in Seq(Stops),
           Len(tour') = Len(tour)
    PROVE  OnPair'
<1>1. Len(tour) \in Nat /\ at[1] \in Int /\ at[2] \in Int
  BY DEF OnPair
<1>2. CASE at[2] < Len(tour)
  <2>1. at' = <<at[1], at[2] + 1>>
    BY <1>2 DEF Onward
  <2>. QED
    BY <1>1, <1>2, <2>1 DEF OnPair, InSweep
<1>3. CASE ~(at[2] < Len(tour))
  <2>1. at' = <<at[1] + 1, at[1] + 2>>
    BY <1>3 DEF Onward
  <2>. QED
    BY <1>1, <1>3, <2>1 DEF OnPair, InSweep
<1>. QED
  BY <1>2, <1>3

LEMMA VisitKeeps ==
    ASSUME TourInv, NEW s \in Stops, Visit(s)
    PROVE  TourInv'
<1>1. /\ job' = job /\ at' = at /\ pc = "visit" /\ s \in Unvisited
      /\ tour' = Append(tour, s) /\ tour \in Seq(Stops)
      /\ pc' = IF Unvisited = {s} THEN "sweep" ELSE "visit"
  BY DEF Visit, Near, TourInv
<1>2. Stops' = Stops
  BY <1>1 DEF Stops
<1>3. tour' \in Seq(Stops) /\ Len(tour') = Len(tour) + 1 /\ Len(tour) \in Nat
  BY <1>1
<1>4. StopsOn(tour') = StopsOn(tour) \cup {s}
  <2>1. DOMAIN tour' = DOMAIN tour \cup {Len(tour) + 1}
    BY <1>1
  <2>2. \A k \in DOMAIN tour : tour'[k] = tour[k]
    BY <1>1
  <2>3. tour'[Len(tour) + 1] = s
    BY <1>1
  <2>. QED
    BY <2>1, <2>2, <2>3 DEF StopsOn
<1>5. Unvisited' = Unvisited \ {s}
  BY <1>2, <1>4 DEF Unvisited
<1>6. IsFiniteSet(Unvisited)
  BY JobFacts, FS_Subset DEF Unvisited, TourInv
<1>7. Cardinality(Unvisited') = Cardinality(Unvisited) - 1
  BY <1>1, <1>5, <1>6, FS_RemoveElement
<1>8. Cardinality(Unvisited) = job.stops - Len(tour) /\ at = <<1, 2>> /\ job.stops > 1
  BY <1>1 DEF TourInv
<1>9. job.stops \in Nat
  BY JobFacts DEF TourInv
<1>10. CASE Unvisited = {s}
  <2>1. pc' = "sweep"
    BY <1>1, <1>10
  <2>2. Len(tour') = job.stops
    <3>1. Cardinality({s}) = 1
      BY FS_Singleton
    <3>2. Cardinality(Unvisited) = 1
      BY <1>10, <3>1
    <3>. QED
      BY <1>3, <1>8, <1>9, <3>2
  <2>3. StopsOn(tour') = Stops
    <3>1. StopsOn(tour) \subseteq Stops
      BY <1>1 DEF StopsOn
    <3>. QED
      BY <1>4, <1>10, <3>1 DEF Unvisited
  <2>4. OnPair'
    BY <1>1, <1>3, <1>8, <1>9, <2>2 DEF OnPair
  <2>. QED
    BY <1>1, <1>2, <1>3, <2>1, <2>2, <2>3, <2>4 DEF TourInv, EveryStopOnce
<1>11. CASE Unvisited # {s}
  <2>1. pc' = "visit"
    BY <1>1, <1>11
  <2>2. Cardinality(Unvisited') = job'.stops - Len(tour')
    <3>1. job'.stops = job.stops
      BY <1>1
    <3>. QED
      BY <1>3, <1>7, <1>8, <1>9, <3>1
  <2>. QED
    BY <1>1, <1>2, <1>3, <1>5, <1>8, <1>11, <2>1, <2>2 DEF TourInv, EveryStopOnce
<1>. QED
  BY <1>10, <1>11

LEMMA TourNext == TourInv /\ [Next]_vars => TourInv'
<1>. SUFFICES ASSUME TourInv, [Next]_vars PROVE TourInv'
  OBVIOUS
<1>1. job' = job /\ Stops' = Stops
  BY DEF Next, vars, AnswerTrivially, Start, Visit, Panic, Improve, Keep,
         SweepAgain, Answer, Stops
<1>2. job.stops \in Nat /\ tour \in Seq(Stops) /\ job \in Jobs
  BY JobFacts DEF TourInv
<1>3. CASE AnswerTrivially
  <2>1. tour' = [i \in 1 .. job.stops |-> i] /\ pc' = "done" /\ job.stops <= 1
    BY <1>3 DEF AnswerTrivially, Stops
  <2>2. tour' \in [1 .. job.stops -> Stops]
    BY <2>1 DEF Stops
  <2>3. tour' \in Seq(Stops) /\ Len(tour') = job.stops
    BY <1>2, <2>2
  <2>4. StopsOn(tour') = Stops
    BY <2>1 DEF Stops, StopsOn
  <2>. QED
    BY <1>1, <1>2, <2>1, <2>3, <2>4 DEF TourInv, EveryStopOnce
<1>4. CASE Start
  <2>1. pc = "start" /\ pc' = "visit" /\ job.stops > 1 /\ UNCHANGED <<job, tour, at>>
    BY <1>4 DEF Start
  <2>2. tour = <<>> /\ Unvisited' = Unvisited
    BY <1>1, <2>1 DEF TourInv, Unvisited, StopsOn
  <2>3. 1 \in Unvisited
    BY <1>2, <2>1, <2>2 DEF Unvisited, StopsOn, Stops
  <2>. QED
    BY <1>1, <2>1, <2>2, <2>3 DEF TourInv, EveryStopOnce
<1>5. ASSUME NEW s \in Stops, Visit(s) PROVE TourInv'
  BY <1>5, VisitKeeps
<1>6. CASE Panic
  <2>1. pc = "visit" /\ pc' = "panic" /\ Near = {} /\ tour' = tour
    BY <1>6 DEF Panic
  <2>2. PICK s : s \in Unvisited
    BY <2>1 DEF TourInv
  <2>3. s \in Stops /\ ~(d(Last(tour), s) < Far)
    BY <2>1, <2>2 DEF Near, Unvisited
  <2>4. PICK a \in {Depot} \cup Stops : a = Last(tour)
    BY <1>2 DEF Last, StopAt
  <2>5. d(a, s) \in Nat /\ Far \in Nat
    <3>1. a \in 0 .. job.stops /\ s \in 0 .. job.stops
      BY <1>2, <2>3 DEF Stops, Depot
    <3>. QED
      BY <1>2, <3>1, JobsAssumption DEF IsJob, d
  <2>6. d(a, s) >= Far
    BY <2>3, <2>4, <2>5
  <2>7. d(a, s)' >= Far
    BY <1>1, <2>6 DEF d
  <2>8. EveryStopOnce'
    BY <1>1, <2>1, <2>3, <2>7 DEF EveryStopOnce, Depot
  <2>. QED
    BY <1>1, <2>1, <2>8 DEF TourInv
<1>7. CASE Improve
  <2>1. /\ OnPair /\ InSweep /\ Onward /\ EveryStopOnce /\ pc = "sweep" /\ pc' = pc
        /\ tour' = Reverse(tour, at[1], at[2])
    BY <1>7 DEF Improve, InSweep, TourInv
  <2>2. at[1] \in 1 .. Len(tour) /\ at[2] \in at[1] .. Len(tour)
    BY <1>2, <2>1 DEF OnPair, InSweep
  <2>3. /\ tour' \in Seq(Stops) /\ Len(tour') = Len(tour)
        /\ StopsOn(tour') = StopsOn(tour)
    BY <1>2, <2>1, <2>2, ReverseKeepsStops
  <2>4. OnPair'
    BY <1>2, <2>1, <2>3, OnwardStays
  <2>. QED
    BY <1>1, <1>2, <2>1, <2>3, <2>4 DEF TourInv, EveryStopOnce
<1>8. CASE Keep
  <2>1. OnPair /\ InSweep /\ Onward /\ pc = "sweep" /\ pc' = pc /\ tour' = tour
    BY <1>8 DEF Keep, InSweep, TourInv
  <2>2. OnPair'
    BY <1>2, <2>1, OnwardStays
  <2>. QED
    BY <1>1, <1>2, <2>1, <2>2 DEF TourInv, EveryStopOnce
<1>9. CASE SweepAgain
  <2>1. /\ OnPair /\ at' = <<1, 2>> /\ pc = "sweep" /\ pc' = pc /\ tour' = tour
        /\ at[1] = Len(tour)
    BY <1>9 DEF SweepAgain, TourInv
  <2>2. OnPair'
    BY <1>2, <2>1 DEF OnPair
  <2>. QED
    BY <1>1, <1>2, <2>1, <2>2 DEF TourInv, EveryStopOnce
<1>10. CASE Answer
  BY <1>1, <1>10 DEF Answer, TourInv, EveryStopOnce
<1>11. CASE UNCHANGED vars
  BY <1>1, <1>11 DEF vars, TourInv, EveryStopOnce, OnPair, Unvisited, StopsOn, d, Depot
<1>. QED
  BY <1>3, <1>4, <1>5, <1>6, <1>7, <1>8, <1>9, <1>10, <1>11 DEF Next

(* Every answer of optimize_route, and every tour a sweep works on, visits *)
(* every stop exactly once; it panics only if some stop is at or beyond    *)
(* the greatest distance.                                                  *)
THEOREM VisitsEveryStopOnce == Spec => []EveryStopOnce
<1>1. TourInv => EveryStopOnce
  BY DEF TourInv
<1>. QED
  BY TourInit, TourNext, <1>1, PTL DEF Spec

-----------------------------------------------------------------------------
(* How long a tour is.                                                     *)

Hop(t, n) == d(StopAt(t, n), StopAt(t, n + 1))

(* f[n] is the length of the first n legs of the tour t.                   *)
AreLengths(f, t) ==
    f \in [Nat -> Nat] /\ f[0] = 0 /\ \A n \in Nat : f[n + 1] = f[n] + Hop(t, n)

Legs(t) == Len(t) + (IF job.closed THEN 1 ELSE 0)

LEMMA HopIsNat ==
    ASSUME job \in Jobs, NEW t \in Seq(Stops), NEW n \in Nat PROVE Hop(t, n) \in Nat
<1>1. job.stops \in Nat /\ job.dist \in [0 .. job.stops -> [0 .. job.stops -> Nat]]
  BY JobsAssumption DEF IsJob
<1>2. ASSUME NEW k \in Nat PROVE StopAt(t, k) \in 0 .. job.stops
  <2>1. CASE k \in DOMAIN t
    <3>1. t[k] \in Stops
      BY <2>1
    <3>. QED
      BY <1>1, <2>1, <3>1 DEF StopAt, Stops
  <2>2. CASE k \notin DOMAIN t
    BY <1>1, <2>2 DEF StopAt, Depot
  <2>. QED
    BY <2>1, <2>2
<1>3. StopAt(t, n) \in 0 .. job.stops /\ StopAt(t, n + 1) \in 0 .. job.stops
  BY <1>2
<1>. QED
  BY <1>1, <1>3 DEF Hop, d

LEMMA LengthsExist ==
    ASSUME job \in Jobs, NEW t \in Seq(Stops)
    PROVE  \E f : /\ AreLengths(f, t)
                  /\ route_distance(t) = IF t = <<>> THEN 0 ELSE f[Legs(t)]
<1>. DEFINE step == [n \in Nat |-> [x \in Nat |-> x + Hop(t, n)]]
            Sum(a) == [n \in Nat |-> IF n = 0 THEN 0
                                     ELSE a[n - 1] + d(StopAt(t, n - 1), StopAt(t, n))]
            f == CHOOSE a : a = Sum(a)
<1>1. step \in [Nat -> [Nat -> Nat]]
  BY HopIsNat
<1>2. \A n \in Nat : \A x \in Nat : step[n][x] = x + Hop(t, n)
  OBVIOUS
<1>. HIDE DEF step, Sum
<1>3. PICK h : Over!Recurs(h, Nat, 0, step)
  BY <1>1, Over!RecursionOverNat DEF Over!IsRecursion
<1>4. h \in [Nat -> Nat] /\ h[0] = 0 /\ \A n \in Nat : h[n + 1] = h[n] + Hop(t, n)
  BY <1>2, <1>3 DEF Over!Recurs
<1>5. h = Sum(h)
  <2>1. ASSUME NEW n \in Nat, n # 0
        PROVE  h[n] = h[n - 1] + d(StopAt(t, n - 1), StopAt(t, n))
    <3>1. PICK m \in Nat : n = m + 1
      BY <2>1
    <3>2. n - 1 = m
      BY <3>1
    <3>. QED
      BY <1>4, <3>1, <3>2 DEF Hop
  <2>. QED
    BY <1>4, <2>1 DEF Sum
<1>6. f = Sum(f)
  BY <1>5
<1>. HIDE DEF f
<1>7. f = [n \in Nat |-> IF n = 0 THEN 0
                         ELSE f[n - 1] + d(StopAt(t, n - 1), StopAt(t, n))]
  BY <1>6 DEF Sum
<1>8. f[0] = 0
  BY <1>7
<1>9. ASSUME NEW n \in Nat PROVE f[n + 1] = f[n] + Hop(t, n)
  <2>1. n + 1 \in Nat /\ n + 1 # 0 /\ (n + 1) - 1 = n
    OBVIOUS
  <2>2. f[n + 1] = f[(n + 1) - 1] + d(StopAt(t, (n + 1) - 1), StopAt(t, n + 1))
    BY <1>7, <2>1
  <2>. QED
    BY <2>1, <2>2 DEF Hop
<1>10. \A n \in Nat : f[n] \in Nat
  <2>. DEFINE T == {n \in Nat : f[n] \in Nat}
  <2>1. 0 \in T
    BY <1>8
  <2>2. ASSUME NEW n \in Nat, n \in T PROVE n + 1 \in T
    <3>1. Hop(t, n) \in Nat /\ f[n] \in Nat
      BY <2>2, HopIsNat
    <3>2. f[n + 1] = f[n] + Hop(t, n)
      BY <1>9
    <3>. HIDE DEF T
    <3>3. f[n + 1] \in Nat
      BY <3>1, <3>2
    <3>. QED
      BY <3>3 DEF T
  <2>3. Nat \subseteq T
    <3>. HIDE DEF T
    <3>. QED
      BY <2>1, <2>2, Over!InductionOverNat
  <2>. QED
    BY <2>3
<1>11. AreLengths(f, t)
  BY <1>7, <1>8, <1>9, <1>10 DEF AreLengths
<1>12. route_distance(t) = IF t = <<>> THEN 0 ELSE f[Legs(t)]
  BY DEF route_distance, f, Sum, Legs
<1>. QED
  BY <1>11, <1>12

LEMMA LengthIsNat ==
    ASSUME job \in Jobs, NEW t \in Seq(Stops) PROVE route_distance(t) \in Nat
<1>1. PICK f : AreLengths(f, t) /\ route_distance(t) = IF t = <<>> THEN 0 ELSE f[Legs(t)]
  BY LengthsExist
<1>2. Legs(t) \in Nat
  BY DEF Legs
<1>. QED
  BY <1>1, <1>2 DEF AreLengths

-----------------------------------------------------------------------------
(* A round trip takes as long either way round.                            *)
RoundTrip ==
    /\ job.closed
    /\ \A a, b \in 0 .. job.stops : d(a, b) = d(b, a)

(* Where the tour that has positions i .. j reversed has what t has at k.  *)
Mirror(i, j, k) == IF i <= k /\ k <= j THEN i + j - k ELSE k

LEMMA StopsAreStops ==
    ASSUME job \in Jobs, NEW t \in Seq(Stops), NEW k \in Nat
    PROVE  StopAt(t, k) \in 0 .. job.stops
<1>1. job.stops \in Nat
  BY JobsAssumption DEF IsJob
<1>2. CASE k \in DOMAIN t
  <2>1. t[k] \in Stops
    BY <1>2
  <2>. QED
    BY <1>1, <1>2, <2>1 DEF StopAt, Stops
<1>3. CASE k \notin DOMAIN t
  BY <1>1, <1>3 DEF StopAt, Depot
<1>. QED
  BY <1>2, <1>3

LEMMA StopsMirrored ==
    ASSUME NEW t \in Seq(Stops), NEW i \in 1 .. Len(t), NEW j \in i .. Len(t), NEW k \in Nat
    PROVE  StopAt(Reverse(t, i, j), k) = StopAt(t, Mirror(i, j, k))
<1>1. DOMAIN t = 1 .. Len(t) /\ Len(t) \in Nat
  OBVIOUS
<1>2. DOMAIN Reverse(t, i, j) = 1 .. Len(t)
  BY <1>1 DEF Reverse
<1>3. k \in 1 .. Len(t) <=> Mirror(i, j, k) \in 1 .. Len(t)
  BY <1>1 DEF Mirror
<1>4. CASE k \in 1 .. Len(t)
  <2>1. Reverse(t, i, j)[k] = t[Mirror(i, j, k)]
    BY <1>1, <1>4 DEF Reverse, Mirror
  <2>. QED
    BY <1>1, <1>2, <1>3, <1>4, <2>1 DEF StopAt
<1>5. CASE k \notin 1 .. Len(t)
  BY <1>1, <1>2, <1>3, <1>5 DEF StopAt
<1>. QED
  BY <1>4, <1>5

(* What reversing a part of a round trip saves is what two_opt_gain says:  *)
(* g is the lengths of the reversed tour, compared leg by leg with those   *)
(* of t, up to the part, within it and after it.                           *)
LEMMA ReversalSaves ==
    ASSUME job \in Jobs, RoundTrip, NEW t \in Seq(Stops),
           NEW i \in 1 .. Len(t), NEW j \in i .. Len(t)
    PROVE  /\ route_distance(Reverse(t, i, j)) = route_distance(t) - two_opt_gain(t, i, j)
           /\ two_opt_gain(t, i, j) \in Int
<1>. DEFINE r == Reverse(t, i, j)
            N == Len(t)
            S(k) == StopAt(t, k)
            M(k) == Mirror(i, j, k)
<1>1. r \in Seq(Stops) /\ Len(r) = N /\ N \in Nat /\ N # 0 /\ t # <<>> /\ r # <<>>
  BY ReverseKeepsStops
<1>. HIDE DEF r
<1>2. PICK f : AreLengths(f, t) /\ route_distance(t) = IF t = <<>> THEN 0 ELSE f[Legs(t)]
  BY LengthsExist
<1>3. PICK g : AreLengths(g, r) /\ route_distance(r) = IF r = <<>> THEN 0 ELSE g[Legs(r)]
  BY <1>1, LengthsExist
<1>4. route_distance(t) = f[N + 1] /\ route_distance(r) = g[N + 1]
  BY <1>1, <1>2, <1>3 DEF Legs, RoundTrip
<1>5. /\ f \in [Nat -> Nat] /\ g \in [Nat -> Nat] /\ f[0] = 0 /\ g[0] = 0
      /\ \A n \in Nat : f[n + 1] = f[n] + d(S(n), S(n + 1))
      /\ \A n \in Nat : g[n + 1] = g[n] + d(S(M(n)), S(M(n + 1)))
  <2>1. \A n \in Nat : Hop(r, n) = d(S(M(n)), S(M(n + 1)))
    BY StopsMirrored DEF Hop, r
  <2>2. \A n \in Nat : Hop(t, n) = d(S(n), S(n + 1))
    BY DEF Hop
  <2>. HIDE DEF S, M
  <2>. QED
    BY <1>2, <1>3, <2>1, <2>2 DEF AreLengths
<1>6. \A n \in Nat : S(n) \in 0 .. job.stops
  BY StopsAreStops
<1>7. \A a, b \in Nat : d(S(a), S(b)) = d(S(b), S(a)) /\ d(S(a), S(b)) \in Nat
  <2>1. job.dist \in [0 .. job.stops -> [0 .. job.stops -> Nat]]
    BY JobsAssumption DEF IsJob
  <2>. QED
    BY <1>6, <2>1 DEF RoundTrip, d
<1>8. /\ \A k \in Nat : k < i \/ j < k => M(k) = k
      /\ \A k \in Nat : i <= k /\ k <= j => M(k) = i + j - k
      /\ i \in Nat /\ j \in Nat /\ 1 <= i /\ i <= j /\ j <= N
  BY <1>1 DEF Mirror
<1>. HIDE DEF S, M
<1>9. g[i - 1] = f[i - 1]
  <2>. DEFINE T == {n \in Nat : n <= i - 1 => g[n] = f[n]}
  <2>1. 0 \in T
    BY <1>5
  <2>2. ASSUME NEW n \in Nat, n \in T PROVE n + 1 \in T
    <3>. SUFFICES ASSUME n + 1 <= i - 1 PROVE g[n + 1] = f[n + 1]
      OBVIOUS
    <3>1. M(n) = n /\ M(n + 1) = n + 1
      BY <1>8
    <3>. QED
      BY <1>5, <1>8, <2>2, <3>1
  <2>3. Nat \subseteq T
    <3>. HIDE DEF T
    <3>. QED
      BY <2>1, <2>2, Over!InductionOverNat
  <2>. QED
    BY <1>8, <2>3
<1>10. g[i] = f[i - 1] + d(S(i - 1), S(j))
  <2>1. PICK n \in Nat : n = i - 1 /\ n + 1 = i
    BY <1>8
  <2>2. M(n) = i - 1 /\ M(n + 1) = j
    BY <1>8, <2>1
  <2>. QED
    BY <1>5, <1>9, <2>1, <2>2
<1>11. g[j] = g[i] + f[j] - f[i]
  <2>. DEFINE T == {n \in Nat : n <= j - i => g[i + n] = g[i] + f[j] - f[j - n]}
  <2>1. 0 \in T
    BY <1>5, <1>8
  <2>2. ASSUME NEW n \in Nat, n \in T PROVE n + 1 \in T
    <3>. SUFFICES ASSUME n + 1 <= j - i PROVE g[i + (n + 1)] = g[i] + f[j] - f[j - (n + 1)]
      OBVIOUS
    <3>1. PICK a \in Nat, b \in Nat : /\ a = i + n /\ b = j - (n + 1)
                                      /\ a + 1 = i + (n + 1) /\ b + 1 = j - n
      BY <1>8
    <3>2. M(a) = b + 1 /\ M(a + 1) = b
      BY <1>8, <3>1
    <3>3. g[a + 1] = g[a] + d(S(b + 1), S(b)) /\ f[b + 1] = f[b] + d(S(b), S(b + 1))
      BY <1>5, <3>2
    <3>4. d(S(b + 1), S(b)) = d(S(b), S(b + 1)) /\ d(S(b), S(b + 1)) \in Nat
      <4>1. b + 1 \in Nat
        OBVIOUS
      <4>. QED
        BY <1>7, <4>1, Zenon
    <3>5. g[a] = g[i] + f[j] - f[b + 1]
      BY <1>8, <2>2, <3>1
    <3>6. g[i] \in Nat /\ f[j] \in Nat /\ f[b] \in Nat /\ f[b + 1] \in Nat
      <4>1. b + 1 \in Nat
        OBVIOUS
      <4>. QED
        BY <1>5, <1>8, <4>1, Zenon
    <3>7. g[a + 1] = g[i] + f[j] - f[b]
      <4>1. PICK leg \in Nat : leg = d(S(b), S(b + 1)) /\ leg = d(S(b + 1), S(b))
        BY <3>4
      <4>2. g[a + 1] = g[a] + leg /\ f[b + 1] = f[b] + leg
        BY <3>3, <4>1
      <4>3. PICK x \in Nat, y \in Nat, z \in Nat : x = g[i] /\ y = f[j] /\ z = f[b]
        BY <3>6
      <4>4. f[b + 1] = z + leg
        BY <4>2, <4>3
      <4>5. g[a] = x + y - (z + leg)
        BY <3>5, <4>3, <4>4
      <4>6. g[a + 1] = (x + y - (z + leg)) + leg
        BY <4>2, <4>5
      <4>7. (x + y - (z + leg)) + leg = x + y - z
        OBVIOUS
      <4>. QED
        BY <4>3, <4>6, <4>7
    <3>. QED
      BY <3>1, <3>7
  <2>3. Nat \subseteq T
    <3>. HIDE DEF T
    <3>. QED
      BY <2>1, <2>2, Over!InductionOverNat
  <2>4. PICK n \in Nat : n = j - i
    BY <1>8
  <2>5. i + n = j /\ j - n = i /\ n <= j - i
    BY <1>8, <2>4
  <2>6. n \in T
    BY <2>3
  <2>. QED
    BY <2>5, <2>6
<1>12. /\ g[j + 1] = g[j] + d(S(i), S(j + 1))
       /\ f[j + 1] = f[j] + d(S(j), S(j + 1))
       /\ f[i] = f[i - 1] + d(S(i - 1), S(i))
  <2>1. M(j) = i /\ M(j + 1) = j + 1
    BY <1>8
  <2>2. PICK n \in Nat : n = i - 1 /\ n + 1 = i
    BY <1>8
  <2>. QED
    BY <1>5, <1>8, <2>1, <2>2
<1>13. g[N + 1] - f[N + 1] = g[j + 1] - f[j + 1]
  <2>. DEFINE T == {n \in Nat : g[(j + 1) + n] - f[(j + 1) + n] = g[j + 1] - f[j + 1]}
  <2>1. 0 \in T
    BY <1>8
  <2>2. ASSUME NEW n \in Nat, n \in T PROVE n + 1 \in T
    <3>1. PICK a \in Nat : a = (j + 1) + n /\ a + 1 = (j + 1) + (n + 1)
      BY <1>8
    <3>2. M(a) = a /\ M(a + 1) = a + 1
      BY <1>8, <3>1
    <3>3. g[a + 1] = g[a] + d(S(a), S(a + 1)) /\ f[a + 1] = f[a] + d(S(a), S(a + 1))
      BY <1>5, <3>2
    <3>4. d(S(a), S(a + 1)) \in Nat /\ g[a] \in Nat /\ f[a] \in Nat
      <4>1. a + 1 \in Nat
        OBVIOUS
      <4>. QED
        BY <1>5, <1>7, <4>1, Zenon
    <3>5. g[a] - f[a] = g[j + 1] - f[j + 1]
      BY <2>2, <3>1
    <3>6. g[a + 1] - f[a + 1] = g[j + 1] - f[j + 1]
      BY <3>3, <3>4, <3>5
    <3>. QED
      BY <3>1, <3>6
  <2>3. Nat \subseteq T
    <3>. HIDE DEF T
    <3>. QED
      BY <2>1, <2>2, Over!InductionOverNat
  <2>4. PICK n \in Nat : n = N - j /\ (j + 1) + n = N + 1
    BY <1>1, <1>8
  <2>5. n \in T
    BY <2>3
  <2>. QED
    BY <2>4, <2>5
<1>14. two_opt_gain(t, i, j) = d(S(i - 1), S(i)) + d(S(j), S(j + 1))
                                 - d(S(i - 1), S(j)) - d(S(i), S(j + 1))
  <2>1. t[i] = S(i) /\ t[j] = S(j)
    BY <1>1, <1>8 DEF S, StopAt
  <2>. QED
    BY <2>1 DEF two_opt_gain, S
<1>15. /\ d(S(i - 1), S(i)) \in Nat /\ d(S(j), S(j + 1)) \in Nat
       /\ d(S(i - 1), S(j)) \in Nat /\ d(S(i), S(j + 1)) \in Nat
       /\ g[i] \in Nat /\ g[j] \in Nat /\ g[j + 1] \in Nat /\ g[N + 1] \in Nat
       /\ f[i - 1] \in Nat /\ f[i] \in Nat /\ f[j] \in Nat /\ f[j + 1] \in Nat
       /\ f[N + 1] \in Nat
  <2>1. i - 1 \in Nat /\ j + 1 \in Nat /\ N + 1 \in Nat
    BY <1>1, <1>8
  <2>. QED
    BY <1>5, <1>7, <1>8, <2>1, Zenon
<1>16. /\ g[N + 1] = f[N + 1] - two_opt_gain(t, i, j)
       /\ two_opt_gain(t, i, j) \in Int
  <2>. DEFINE a == d(S(i - 1), S(i))
              b == d(S(j), S(j + 1))
              c == d(S(i - 1), S(j))
              e == d(S(i), S(j + 1))
              f0 == f[i - 1]
              f1 == f[i]
              f2 == f[j]
              f3 == f[j + 1]
              f4 == f[N + 1]
              g1 == g[i]
              g2 == g[j]
              g3 == g[j + 1]
              g4 == g[N + 1]
              gain == two_opt_gain(t, i, j)
  <2>1. /\ f1 = f0 + a /\ g1 = f0 + c /\ g2 = g1 + f2 - f1 /\ f3 = f2 + b /\ g3 = g2 + e
        /\ g4 - f4 = g3 - f3 /\ gain = a + b - c - e
    BY <1>10, <1>11, <1>12, <1>13, <1>14, Zenon
  <2>2. /\ a \in Nat /\ b \in Nat /\ c \in Nat /\ e \in Nat
        /\ f0 \in Nat /\ f1 \in Nat /\ f2 \in Nat /\ f3 \in Nat /\ f4 \in Nat
        /\ g1 \in Nat /\ g2 \in Nat /\ g3 \in Nat /\ g4 \in Nat
    BY <1>15
  <2>. HIDE DEF a, b, c, e, f0, f1, f2, f3, f4, g1, g2, g3, g4, gain
  <2>3. g4 = f4 - gain /\ gain \in Int
    BY <2>1, <2>2
  <2>. QED
    BY <2>3 DEF g4, f4, gain
<1>. QED
  BY <1>4, <1>16 DEF r

-----------------------------------------------------------------------------
(* The sweeps.                                                             *)

Passed(i, j) == i < at[1] \/ (i = at[1] /\ j < at[2])

(* A sweep that has changed nothing has seen one and the same tour.        *)
SweepInv ==
    /\ TourInv
    /\ pc = "sweep" /\ ~improved =>
          \A i, j \in DOMAIN tour : i < j /\ Passed(i, j) => ~Pays(i, j)
    /\ pc = "done" =>
          \A i, j \in DOMAIN tour :
              i < j => ~Pays(i, j) /\ total = route_distance(tour)

LEMMA SweepInit == Init => SweepInv
BY TourInit DEF Init, SweepInv

(* The pair looked at last is the only one that has passed since.          *)
LEMMA OnePairPassed ==
    ASSUME OnPair, InSweep, Onward, tour \in Seq(Stops), NEW i \in DOMAIN tour,
           NEW j \in DOMAIN tour, i < j, Passed(i, j)'
    PROVE  Passed(i, j) \/ (i = at[1] /\ j = at[2])
<1>1. Len(tour) \in Nat /\ at[1] \in Int /\ at[2] \in Int /\ DOMAIN tour = 1 .. Len(tour)
  BY DEF OnPair
<1>2. CASE at[2] < Len(tour)
  <2>1. at' = <<at[1], at[2] + 1>>
    BY <1>2 DEF Onward
  <2>. QED
    BY <1>1, <2>1 DEF Passed
<1>3. CASE ~(at[2] < Len(tour))
  <2>1. at' = <<at[1] + 1, at[1] + 2>>
    BY <1>3 DEF Onward
  <2>. QED
    BY <1>1, <1>3, <2>1 DEF Passed, OnPair, InSweep
<1>. QED
  BY <1>2, <1>3

LEMMA SweepNext == SweepInv /\ [Next]_vars => SweepInv'
<1>. SUFFICES ASSUME SweepInv, [Next]_vars PROVE SweepInv'
  OBVIOUS
<1>1. TourInv /\ TourInv' /\ tour \in Seq(Stops)
  BY TourNext DEF SweepInv, TourInv
<1>2. CASE AnswerTrivially
  <2>1. DOMAIN tour' = 1 .. job.stops /\ job.stops <= 1 /\ pc' = "done" /\ job.stops \in Nat
    BY <1>1, <1>2, JobFacts DEF AnswerTrivially, Stops, TourInv
  <2>. QED
    BY <1>1, <2>1 DEF SweepInv
<1>3. CASE Start \/ Panic
  BY <1>1, <1>3 DEF Start, Panic, SweepInv
<1>4. ASSUME NEW s \in Stops, Visit(s) PROVE SweepInv'
  <2>1. at' = <<1, 2>> /\ pc' # "done" /\ tour' \in Seq(Stops')
    BY <1>1, <1>4 DEF Visit, TourInv
  <2>2. \A i, j \in DOMAIN tour' : i < j => ~Passed(i, j)'
    BY <2>1 DEF Passed
  <2>. QED
    BY <1>1, <2>1, <2>2 DEF SweepInv
<1>5. CASE Improve
  BY <1>1, <1>5 DEF Improve, InSweep, SweepInv
<1>6. CASE Keep
  <2>1. /\ OnPair /\ InSweep /\ Onward /\ pc = "sweep" /\ pc' = pc /\ tour' = tour
        /\ improved' = improved /\ job' = job /\ ~Pays(at[1], at[2])
    BY <1>1, <1>6 DEF Keep, InSweep, TourInv
  <2>2. \A i, j : Pays(i, j)' = Pays(i, j)
    BY <2>1 DEF Pays, two_opt_gain, StopAt, d
  <2>3. ASSUME ~improved, NEW i \in DOMAIN tour, NEW j \in DOMAIN tour, i < j, Passed(i, j)'
        PROVE  ~Pays(i, j)
    BY <1>1, <2>1, <2>3, OnePairPassed DEF SweepInv
  <2>. QED
    BY <1>1, <2>1, <2>2, <2>3 DEF SweepInv
<1>7. CASE SweepAgain
  <2>1. at' = <<1, 2>> /\ pc' = "sweep" /\ tour' = tour
    BY <1>7 DEF SweepAgain
  <2>2. \A i, j \in DOMAIN tour' : i < j => ~Passed(i, j)'
    BY <1>1, <2>1 DEF Passed
  <2>. QED
    BY <1>1, <2>1, <2>2 DEF SweepInv
<1>8. CASE Answer
  <2>1. /\ pc = "sweep" /\ at[1] = Len(tour) /\ ~improved /\ tour' = tour /\ job' = job
        /\ total' = route_distance(tour) /\ pc' = "done"
    BY <1>8 DEF Answer
  <2>2. \A i, j : Pays(i, j)' = Pays(i, j)
    BY <2>1 DEF Pays, two_opt_gain, StopAt, d
  <2>3. route_distance(tour)' = route_distance(tour)
    BY <2>1 DEF route_distance, StopAt, d
  <2>4. \A i, j \in DOMAIN tour : i < j => Passed(i, j)
    BY <1>1, <2>1 DEF Passed
  <2>. QED
    BY <1>1, <2>1, <2>2, <2>3, <2>4 DEF SweepInv
<1>9. CASE UNCHANGED vars
  <2>1. \A i, j : Pays(i, j)' = Pays(i, j) /\ Passed(i, j)' = Passed(i, j)
    BY <1>9 DEF vars, Pays, two_opt_gain, StopAt, d, Passed
  <2>2. route_distance(tour)' = route_distance(tour)
    BY <1>9 DEF vars, route_distance, StopAt, d
  <2>. QED
    BY <1>1, <1>9, <2>1, <2>2 DEF vars, SweepInv
<1>. QED
  BY <1>2, <1>3, <1>4, <1>5, <1>6, <1>7, <1>8, <1>9 DEF Next

(* A round trip that a sweep works on never gets longer, whatever job it   *)
(* is for.                                                                 *)
THEOREM SweepsNeverLengthen == Spec /\ RoundTrip => NeverLonger
<1>1. SweepInv /\ RoundTrip /\ [Next]_vars
        => [pc = "sweep" => route_distance(tour') <= route_distance(tour)]_tour
  <2>. SUFFICES ASSUME SweepInv, RoundTrip, Next, tour' # tour, pc = "sweep"
                PROVE  route_distance(tour') <= route_distance(tour)
    BY DEF vars
  <2>1. Improve
    BY DEF Next, AnswerTrivially, Start, Visit, Panic, Keep, SweepAgain, Answer
  <2>2. OnPair /\ InSweep /\ tour \in Seq(Stops) /\ job \in Jobs
    BY <2>1 DEF SweepInv, TourInv, Improve, InSweep
  <2>3. at[1] \in 1 .. Len(tour) /\ at[2] \in at[1] .. Len(tour)
    BY <2>2 DEF OnPair, InSweep
  <2>4. /\ tour' = Reverse(tour, at[1], at[2])
        /\ two_opt_gain(tour, at[1], at[2]) > 0
    BY <2>1 DEF Improve, Pays
  <2>5. tour' \in Seq(Stops)
    BY <2>2, <2>3, <2>4, ReverseKeepsStops
  <2>6. /\ route_distance(tour') = route_distance(tour) - two_opt_gain(tour, at[1], at[2])
        /\ two_opt_gain(tour, at[1], at[2]) \in Int
    BY <2>2, <2>3, <2>4, ReversalSaves
  <2>7. route_distance(tour') \in Nat /\ route_distance(tour) \in Nat
    BY <2>2, <2>5, LengthIsNat
  <2>. QED
    BY <2>4, <2>6, <2>7
<1>2. RoundTrip /\ [Next]_vars => RoundTrip'
  BY DEF RoundTrip, d, Next, AnswerTrivially, Start, Visit, Panic, Improve, Keep,
         SweepAgain, Answer, vars
<1>. QED
  BY <1>1, <1>2, SweepInit, SweepNext, PTL DEF Spec, NeverLonger

(* No reversal of a part of the round trip answered with makes it shorter: *)
(* two_opt stops at what no move of its own improves.                      *)
THEOREM NothingLeftToReverse == Spec /\ RoundTrip => []NoReversalHelps
<1>1. ASSUME SweepInv, RoundTrip PROVE NoReversalHelps
  <2>. SUFFICES ASSUME pc = "done", NEW i \in DOMAIN tour, NEW j \in DOMAIN tour, i < j
                PROVE  route_distance(Reverse(tour, i, j)) >= total
    BY DEF NoReversalHelps
  <2>1. tour \in Seq(Stops) /\ job \in Jobs
    BY <1>1 DEF SweepInv, TourInv
  <2>2. i \in 1 .. Len(tour) /\ j \in i .. Len(tour)
    BY <2>1
  <2>3. ~(two_opt_gain(tour, i, j) > 0) /\ total = route_distance(tour)
    BY <1>1 DEF SweepInv, Pays
  <2>4. /\ route_distance(Reverse(tour, i, j)) = route_distance(tour) - two_opt_gain(tour, i, j)
        /\ two_opt_gain(tour, i, j) \in Int
    BY <1>1, <2>1, <2>2, ReversalSaves
  <2>5. route_distance(tour) \in Nat
    BY <2>1, LengthIsNat
  <2>. QED
    BY <2>3, <2>4, <2>5
<1>2. RoundTrip /\ [Next]_vars => RoundTrip'
  BY DEF RoundTrip, d, Next, AnswerTrivially, Start, Visit, Panic, Improve, Keep,
         SweepAgain, Answer, vars
<1>. QED
  BY <1>1, <1>2, SweepInit, SweepNext, PTL DEF Spec

(* Of every job: the types of optimize_route's locals.                     *)
THEOREM OptimizerTypes == Spec => []TypeOK
<1>1. Init => total \in Nat /\ improved \in BOOLEAN
  <2>1. Init => total = 0 /\ improved = FALSE
    BY DEF Init
  <2>2. 0 \in Nat
    OBVIOUS
  <2>. QED
    BY <2>1, <2>2
<1>2. TourInv /\ total \in Nat /\ improved \in BOOLEAN /\ [Next]_vars
        => (total \in Nat /\ improved \in BOOLEAN)'
  <2>. SUFFICES ASSUME TourInv, total \in Nat, improved \in BOOLEAN, [Next]_vars
                PROVE  total' \in Nat /\ improved' \in BOOLEAN
    OBVIOUS
  <2>1. job \in Jobs /\ tour \in Seq(Stops)
    BY DEF TourInv
  <2>2. CASE AnswerTrivially
    <3>1. job.dist \in [0 .. job.stops -> [0 .. job.stops -> Nat]] /\ job.stops \in Nat
      BY <2>1, JobsAssumption DEF IsJob
    <3>2. job.stops = 1 => d(Depot, 1) \in Nat
      BY <3>1 DEF d, Depot
    <3>3. job.stops = 0 \/ job.stops = 1
      BY <2>2, <3>1 DEF AnswerTrivially
    <3>4. total' \in Nat
      <4>1. CASE job.stops = 0
        BY <2>2, <4>1 DEF AnswerTrivially
      <4>2. CASE job.stops = 1
        BY <2>2, <3>2, <4>2 DEF AnswerTrivially
      <4>. QED
        BY <3>3, <4>1, <4>2
    <3>. QED
      BY <2>2, <3>4 DEF AnswerTrivially
  <2>3. CASE Answer
    BY <2>1, <2>3, LengthIsNat DEF Answer
  <2>. QED
    BY <2>2, <2>3 DEF Next, Start, Visit, Panic, Improve, Keep, SweepAgain, vars
<1>3. TourInv /\ total \in Nat /\ improved \in BOOLEAN => TypeOK
  <2>. SUFFICES ASSUME TourInv, pc = "sweep"
                PROVE  at[1] \in 1 .. Len(tour) /\ at[2] \in at[1] + 1 .. Len(tour) + 1
    BY DEF TypeOK, TourInv
  <2>. QED
    BY DEF TourInv, OnPair
<1>. QED
  BY <1>1, <1>2, <1>3, TourInit, TourNext, PTL DEF Spec
================================================================================
