------------------------------ MODULE MapMatching ------------------------------
(***************************************************************************)
(* match_trace (crates/itinera-match/src/hmm.rs): the Viterbi algorithm    *)
(* that snaps a GPS trace to the roads near it.  Points and roads lie on a *)
(* strip: a point is <<x, 0>>, a road is a stretch from .. to at some      *)
(* offset, and distances are Manhattan.  The unit of length is the         *)
(* standard deviation of the GPS noise; scores are four times the          *)
(* log-probabilities, rounded, without the terms all candidates share.     *)
(***************************************************************************)
EXTENDS Ordering, Sequences, FiniteSetsExt

CONSTANTS
    Requests,      \* trace, roads, search_radius; served: asked by POST /match
    MaxTrace,      \* MAX_MATCH_TRACE_POINTS
    MaxRadius      \* MAX_MATCH_SEARCH_RADIUS_M

IsRequest(r) ==
    /\ r.trace \in Seq(Int)
    /\ r.roads \in Seq([from : Int, to : Int, offset : Nat])
    /\ r.search_radius \in Nat
    /\ r.served \in BOOLEAN

VARIABLES
    req,
    pc,         \* "start", "recur", "end", "back", "result" or "done"
    t,          \* the point the loop is at
    prob,       \* viterbi_prob: for each point, the scores of its candidates;
                \* a candidate without one is impossible (minus infinity)
    prev,       \* viterbi_prev: for each point, the predecessor of each candidate
    j,          \* the candidate the backtrack is at
    chosen,     \* best_sequence: for each point a candidate, or Nobody
    reply

vars == <<req, pc, t, prob, prev, j, chosen, reply>>

Nobody == 0
NoReply == [kind |-> "none"]

n_points == Len(req.trace)

Init ==
    /\ req \in Requests
    /\ pc = "start"
    /\ t = 0
    /\ prob = <<>>
    /\ prev = <<>>
    /\ j = 1
    /\ chosen = [i \in 1 .. n_points |-> Nobody]
    /\ reply = NoReply

-----------------------------------------------------------------------------
Abs(x) == IF x < 0 THEN -x ELSE x

Apart(a, b) == Abs(a[1] - b[1]) + Abs(a[2] - b[2])

Snap(x, road) ==
    << IF x < road.from THEN road.from ELSE IF x > road.to THEN road.to ELSE x,
       road.offset >>

(* RoadNetwork::candidates: the roads within the radius, by index.         *)
candidates(i) ==
    LET x       == req.trace[i]
        Of(s)   == LET at == Snap(x, req.roads[s])
                   IN  [seg |-> s, dist |-> Apart(<<x, 0>>, at), snap |-> at]
        near    == {s \in DOMAIN req.roads : Of(s).dist <= req.search_radius}
        listed  == InOrder(near, {p \in near \X near : p[1] < p[2]})
    IN  [c \in DOMAIN listed |-> Of(listed[c])]

all_candidates == [i \in 1 .. n_points |-> candidates(i)]

emission(c) == -(2 * c.dist * c.dist)

transition(i, a, b) ==
    -(8 * Abs(Apart(a.snap, b.snap) - Abs(req.trace[i] - req.trace[i - 1])))

(* ln(0.5), so staying on a road costs something.                          *)
connectivity_bonus(a, b) == IF a.seg = b.seg THEN -3 ELSE 0

Step(i, a, b) == transition(i, a, b) + emission(b) + connectivity_bonus(a, b)

-----------------------------------------------------------------------------
(* The handler's checks; match_trace has none but for the empty trace.     *)
Acceptable ==
    req.served => /\ req.search_radius \in 1 .. MaxRadius
                  /\ n_points \in 1 .. MaxTrace

Reject ==
    /\ pc = "start"
    /\ ~Acceptable
    /\ pc' = "done"
    /\ reply' = [kind |-> "bad_request"]
    /\ UNCHANGED <<req, t, prob, prev, j, chosen>>

AnswerEmpty ==
    /\ pc = "start"
    /\ Acceptable
    /\ n_points = 0
    /\ pc' = "done"
    /\ reply' = [kind |-> "matched", points |-> <<>>, total |-> 0]
    /\ UNCHANGED <<req, t, prob, prev, j, chosen>>

Unmatched(i) == [snapped |-> <<req.trace[i], 0>>, road |-> Nobody]

(* build_fallback_result: nothing is matched if the first point has no     *)
(* candidate.                                                              *)
AnswerFallback ==
    /\ pc = "start"
    /\ Acceptable
    /\ n_points > 0
    /\ all_candidates[1] = <<>>
    /\ pc' = "done"
    /\ reply' = [kind |-> "fallback",
                 points |-> [i \in 1 .. n_points |-> Unmatched(i)], total |-> 0]
    /\ UNCHANGED <<req, t, prob, prev, j, chosen>>

Begin ==
    /\ pc = "start"
    /\ Acceptable
    /\ n_points > 0
    /\ all_candidates[1] # <<>>
    /\ pc' = "recur"
    /\ t' = 2
    /\ prob' = << [c \in DOMAIN all_candidates[1] |-> emission(all_candidates[1][c])] >>
    /\ prev' = << [c \in DOMAIN all_candidates[1] |-> 1] >>
    /\ UNCHANGED <<req, j, chosen, reply>>

(* The score of candidate c of point t by way of each possible one of the  *)
(* point before, and the first of the best.                                *)
Scores(c) ==
    [i \in DOMAIN prob[t - 1] |->
        prob[t - 1][i] + Step(t, all_candidates[t - 1][i], all_candidates[t][c])]

(* Faulty: the first is as good as any.                                    *)
FirstOfAll(score) == Min(DOMAIN score)

FirstBest(score) ==
    Min({i \in DOMAIN score : \A k \in DOMAIN score : score[k] <= score[i]})

Possible == {c \in DOMAIN all_candidates[t] : Scores(c) # <<>>}

ScoreColumn == [c \in Possible |-> Scores(c)[FirstBest(Scores(c))]]

PrevColumn ==
    [c \in DOMAIN all_candidates[t] |->
        IF c \in Possible THEN FirstBest(Scores(c)) ELSE 1]

(* Faulty: a point without candidates gets no column.                      *)
RecurSkippingGaps ==
    /\ pc = "recur"
    /\ t <= n_points
    /\ IF all_candidates[t] = <<>> THEN UNCHANGED <<prob, prev>>
       ELSE prob' = Append(prob, ScoreColumn) /\ prev' = Append(prev, PrevColumn)
    /\ t' = t + 1
    /\ UNCHANGED <<req, pc, j, chosen, reply>>

(* One turn of the recursion.  A point without candidates gets an empty    *)
(* column; after it no candidate has a predecessor, nor ever again.        *)
Recur ==
    /\ pc = "recur"
    /\ t <= n_points
    /\ prob' = Append(prob, ScoreColumn)
    /\ prev' = Append(prev, PrevColumn)
    /\ t' = t + 1
    /\ UNCHANGED <<req, pc, j, chosen, reply>>

(* The last point with candidates ends at the first of its best ones, or   *)
(* at its first one when all are impossible.                               *)
ChooseEnd ==
    /\ pc = "recur"
    /\ t > n_points
    /\ LET last == Max({i \in 1 .. n_points : all_candidates[i] # <<>>})
           end  == IF prob[last] = <<>> THEN 1 ELSE FirstBest(prob[last])
       IN  /\ t' = last
           /\ j' = end
           /\ chosen' = [chosen EXCEPT ![last] = end]
    /\ pc' = "back"
    /\ UNCHANGED <<req, prob, prev, reply>>

Mark(k) == IF all_candidates[t - 1] = <<>> THEN chosen
                                           ELSE [chosen EXCEPT ![t - 1] = k]

(* Faulty: a point without candidates is where the trace begins.           *)
BackOneToGap ==
    /\ pc = "back"
    /\ t > 1
    /\ IF prev[t] = <<>> THEN UNCHANGED <<j, chosen>>
                         ELSE j' = prev[t][j] /\ chosen' = Mark(j')
    /\ t' = IF prev[t] = <<>> THEN 1 ELSE t - 1
    /\ UNCHANGED <<req, pc, prob, prev, reply>>

(* One step back.  At a point without candidates nothing is looked up and  *)
(* the point before it is not marked.                                      *)
BackOne ==
    /\ pc = "back"
    /\ t > 1
    /\ IF prev[t] = <<>> THEN UNCHANGED <<j, chosen>>
                         ELSE j' = prev[t][j] /\ chosen' = Mark(j')
    /\ t' = t - 1
    /\ UNCHANGED <<req, pc, prob, prev, reply>>

(* The answer: where each point is snapped to, and the length of the legs  *)
(* that lead to a matched point.                                           *)
Result ==
    /\ pc = "back"
    /\ t = 1
    /\ pc' = "done"
    /\ LET points == [i \in 1 .. n_points |->
                         IF chosen[i] = Nobody THEN Unmatched(i)
                         ELSE [snapped |-> all_candidates[i][chosen[i]].snap,
                               road    |-> all_candidates[i][chosen[i]].seg]]
           Leg(i) == Apart(points[i - 1].snapped, points[i].snapped)
       IN  reply' = [kind |-> "matched", points |-> points,
                     total |-> MapThenSumSet(Leg,
                                  {i \in 2 .. n_points : chosen[i] # Nobody})]
    /\ UNCHANGED <<req, t, prob, prev, j, chosen>>

Next ==
    \/ Reject
    \/ AnswerEmpty
    \/ AnswerFallback
    \/ Begin
    \/ Recur
    \/ ChooseEnd
    \/ BackOne
    \/ Result

Spec == Init /\ [][Next]_vars

-----------------------------------------------------------------------------
(* The state is one match_trace can be in: a column for every point yet,   *)
(* and the backtrack, which walks over columns that are empty too, never   *)
(* looks up a candidate that a column does not have.                       *)
TypeOK ==
    /\ pc \in {"start", "recur", "back", "done"}
    /\ t \in 0 .. n_points + 1
    /\ Len(prob) = Len(prev)
    /\ pc = "recur" => Len(prob) = t - 1
    /\ \A i \in DOMAIN prob :
          /\ DOMAIN prob[i] \subseteq DOMAIN all_candidates[i]
          /\ DOMAIN prev[i] = DOMAIN all_candidates[i]
          /\ \A c \in DOMAIN prob[i] : prob[i][c] \in Int
    /\ DOMAIN chosen = 1 .. n_points
    /\ pc = "back" /\ prev[t] # <<>> => j \in DOMAIN prev[t]
    /\ \A i \in DOMAIN chosen :
          chosen[i] # Nobody => chosen[i] \in DOMAIN all_candidates[i]
    /\ reply.kind \in {"none", "bad_request", "matched", "fallback"}

HasGap == \E i \in 1 .. n_points : all_candidates[i] = <<>>

(* The score of choosing candidate path[i] of each point i.                *)
Score(path) ==
    LET C(i) == all_candidates[i][path[i]]
        upto[i \in 1 .. n_points] ==
            IF i = 1 THEN emission(C(1)) ELSE upto[i - 1] + Step(i, C(i - 1), C(i))
    IN  upto[n_points]

Paths ==
    {p \in [1 .. n_points -> 1 .. Len(req.roads)] :
        \A i \in 1 .. n_points : p[i] \in DOMAIN all_candidates[i]}

(* On a trace without gaps no other choice of candidates scores higher.    *)
BestSequence ==
    (reply.kind = "matched" /\ ~HasGap /\ n_points > 0) =>
        \A p \in Paths : Score(p) <= Score(chosen)

NoRoad(i) == all_candidates[i] = <<>>

(* A gap follows, and roads are found again beyond it.                     *)
BeforeGap(i) == \E k \in i + 1 .. n_points : NoRoad(i + 1) /\ ~NoRoad(k)

(* Which points stay unmatched, exactly: those without a road in reach,    *)
(* all of them when the first has none, and the last one before a gap that *)
(* the backtrack crosses, whatever roads it is near to; not one before the *)
(* gap the trace ends in.  Any other is matched to a road in reach.  The   *)
(* answer is documented as null where no road was in reach.                *)
UnmatchedExactly ==
    reply.kind \in {"matched", "fallback"} =>
        \A i \in 1 .. n_points :
            /\ reply.points[i].road = Nobody <=> NoRoad(1) \/ NoRoad(i) \/ BeforeGap(i)
            /\ reply.points[i].road # Nobody =>
                  \E c \in DOMAIN all_candidates[i] :
                      /\ all_candidates[i][c].seg = reply.points[i].road
                      /\ all_candidates[i][c].snap = reply.points[i].snapped

===============================================================================
