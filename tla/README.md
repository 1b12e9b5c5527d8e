# Itinera: specifications

TLA+ modules, TLC configurations and TLAPS proofs for itinera, a route planner over OpenStreetMap data: an importer that
builds a road graph, searches over the graph (Dijkstra, A*, a contraction hierarchy), analyses of it (isochrones, components,
matrices), a map matcher, a tour optimiser, and an HTTP server in front of them. File names below are relative to `src/`;
`graph.rs` and so on stand for the file of that name under `src/crates/`.

Run anything from this directory: `tlc -config MCImport.cfg MCImport`, `tlapm AStarProofs.tla`.

## 1. The system

A call is a single thread over a graph that nothing writes once the server is up (`AppState`, `state.rs:22-39`, is built before
the listener and shared by `Arc`). So there are no races between requests. What is hard inside each component is the order in
which a heap, a hash map or an in-place sweep gives things out; state written at one time and trusted at another; edges of
input (incomplete extracts, points that share a node, nothing in reach). What is hard around them is how the graph gets into a
server at all: the container's entrypoint, the commands and an operator share files on a volume, and any of them may be stopped.

| Component | State it keeps | Operations | What makes it correct |
|---|---|---|---|
| Routing graph (`itinera-graph`) | nodes, edges sorted by source, two edge indices, restrictions | build, outgoing/incoming edges, weight, `turn_is_banned`, coverage, snap | the indices list exactly each node's edges; the tables mean what the extract said |
| OSM import (`itinera-osm`) | node usage counts, node numbering, edges so far | parse (XML, PBF), count, number, split, restrictions | distances and turns of the extract survive the split at crossings |
| Dijkstra / A* (`astar.rs`, `dijkstra.rs`) | best costs, predecessors, settled labels, heap | pop, relax, backtrack | the quickest legal drive, or NoRoute only if there is none |
| Contraction hierarchy (`ch.rs`) | contraction order and levels, arcs and shortcuts; per query two of everything a search keeps, and the best meeting | build; query; unpack | the answers of Dijkstra |
| Isochrone (`isochrone.rs`) | costs, visited, heap, nodes answered | one bounded search, hull | exactly the nodes within the budget |
| Network analysis (`network_analysis.rs`) | component numbers and sizes; results | components, OD matrix, closest facility, betweenness | components are what roads join; durations are those of quickest drives |
| Delivery tours (`vrp.rs`) | the tour, whether this sweep has changed it | nearest neighbour, 2-opt sweeps | each stop once, never longer, no reversal left that pays |
| Route assembly (`route.rs`, `maneuver.rs`) | none | steps, durations and maneuvers of a path | the steps are the drive that was found |
| Map matcher (`itinera-match`) | a column of scores and predecessors for each point | candidates, recursion, backtrack, fallback | the sequence of roads that fits best; unmatched only where there is no road |
| HTTP handlers (`itinera-server`) | none between calls | check, snap, call, index results | results attributed to the right points |
| Command line, entrypoint, deployment | `graph.bin` and a hierarchy file on a volume that pods share; what a server has loaded | import, preprocess, serve; enter, restart | what is served was built completely, and the hierarchy from this graph |
| Token gate, metrics, tracing, health | external counters; none | | not modelled |

Interactions are calls: the CLI imports and hands the graph to `AppState::new`, which also makes the matcher's road network
from it; the handlers snap coordinates to nodes and call one search; `od_matrix` and `closest_facility` call `dijkstra` for each
pair; the hierarchy copies the graph when it is built and reads only its copy afterwards; every search hands its path to
`route_from_path`. Nothing persists but the files of the CLI, which the entrypoint and the server find on the volume. The list of hazards, each at its line, is in `PROJECT.json`.

## 2. Modules

`RoadGraph` is under everything: a graph is a record, edges are named by their index, a profile gives each road class a pace
(time per unit of distance, 0 = closed) where the code has a speed. Coordinates are places on a line: what the code asks of the
haversine distance is that it is a metric, and the line gives one whose values TLC can enumerate. `RoadGraph` also holds the
reference definitions the searches are compared with, `LeastCosts` (Bellman-Ford over labels) and `DrivesAlong`.

| Module | Code | State and actions |
|---|---|---|
| `RoutePlanner` | the promise of `dijkstra`, `astar`, `ch.query` | abstract: one step, `Answer`, with any correct reply |
| `AStar` | `astar_search`, `astar.rs:49-168` | `g_scores`, `prev`, `settled`, `heap` as in the code, over labels (node, incoming way); `RejectEmptyGraph`, `RejectNode`, `Begin`, `PopStale`, `PopTarget`, `Expand`, `Relax` (one edge), `NoRoute`, `Backtrack`, `Return`. Entries of equal key pop in any order, as `BinaryHeap` promises no other. `req.astar` chooses between the heuristic and 0 (`dijkstra`) |
| `RouteAssembly`, `RouteReply` | `route.rs:60-119`, `maneuver.rs:5-94`, `coord.rs:31-42` | pure: `route_from_path`, `edge_between`, `annotate_maneuvers`; and the route told by the search of `AStar`, as a function of its state |
| `DriveAudit` | none | a driver, next to `AStar`, who starts when the search has answered: optimality as an invariant |
| `AStarInvariants`, `AStarProofs` | | the inductive invariant; the proofs |
| `Contraction` | `ContractionHierarchy::build`, `ch.rs:68-226`, `needs_shortcut` 559-624 | `arcs`, `order`, `pairs`; `Contract` takes the next node by priority, `Bridge` is one turn of the double loop. With `MayGiveUp` any witness search may fail (its settle limit) and any node may be next |
| `ChQuery`, `HierarchyProofs` | `query` 250-454, `unpack_*` 456-514 | both searches: `dist`, `prev`, `heap`, `settled` by side, `best`, `meeting`; `Ask`, `Drop`, `Settle` (meet and expand), `Rest`, `Check`, `Answer`. The profile asked for may be another than that of the build: shortcuts keep their costs, edges take those of the request |
| `RouteOptimizer`, `RouteOptimizerProofs` | `vrp.rs:42-206` | `tour`, `at` (the pair i, j), `improved`; `Visit`, `Improve`, `Keep`, `SweepAgain`, `Answer`, `Panic` (the index `usize::MAX`) |
| `MapMatching` | `match_trace`, `hmm.rs:18-262` | `prob`, `prev`, `chosen`; `Begin`, `Recur`, `ChooseEnd`, `BackOne`, `Result`, `AnswerFallback`. Scores are integers, in quarters of a log-probability |
| `Isochrone`, `IsochroneProofs` | `isochrone.rs:53-125` | `dist`, `visited`, `heap`, `reachable`; `Skip`, `Stop`, `Reach` (one pop with all its edges) |
| `Components` | the handler of `network/components`; `network_analysis.rs:47-96` | `component_id`, `queue`, `size`; `Reject`, `Open`, `Expand`, `Close`, `Finish` |
| `Betweenness` | the handler of `network/betweenness`; `network_analysis.rs:167-304` (Brandes) | per sampled source `dist`, `predecessors`, `heap`, then `order`, `sigma`, `dependency`; `centrality`. Scores are numbers of `Scale`-ths |
| `PairQueries` | handlers of `od-matrix` and `closest-facility`, `network_analysis.rs:101-159` | `Reject`, `Snap`, `AskPair`, `AskFacility`, `NextSource`, `Answer`; of `dijkstra` it uses what `RoutePlanner` promises |
| `Analyses`, `AnalysesProofs` | the router, `handlers.rs:25-54` | composition of the five modules above: one call of one of them |
| `Import`, `ImportProofs` | `parser.rs:153-308` and, the same from parsed elements on, `pbf.rs:101-240`; `Graph::build`; `road_network_from_graph` | `Count`, `Number` (any order of a hash map), `Split` (one node of a way), `NextWay`, `Build`, `Serve` |
| `Deployment`, `DeploymentProofs` | `docker-entrypoint.sh`, `main.rs` (import, preprocess, serve), restart policy and probes of the compose file and the chart | `disk`: each file as the parts written of it and by which import; per process `pc`, the file it writes, what it has loaded. Pods `Enter`, `Parse`, `ParseFails`, `Open`, `Write`, `CheckGraph`, `Read` (one part), `Load`, `LoadHierarchy`, `StartAgain`; the operator `PlaceExtract`, `ImportByHand`, `Preprocess`, `BuildHierarchy`, `RestartPods`; anyone may `Crash` |

`Ordering` states the sorts, filters and sums of the code by what they return (`InOrder`, `Picked`, `Total`), `OperatorTheorems` proves what the
definitions every component is built from compute: `LeastCosts`, `DrivesAlong`, `InOrder`, `Total`. Neither has state.

`Towns` is the town the searches are checked on; the `MC...` modules give the constants their values. Definitions under
a comment "Faulty:" are plausible mistakes in the code, not part of any specification: each property is broken by one of them,
put in the place of the definition it follows.

## 3. What the runs show

Passing runs:

| Run | Shows | Size |
|---|---|---|
| `search` | `AnswersCorrectly`: `AStar` implements `RoutePlanner` (mapping: `req` and `reply` as they are). `NoFasterDrive`: no driver beats the route. `SettledIsFinal`, `TreeIsTight`: costs acted upon are not revised, and the chain the backtrack follows is a drive of that cost. `StepsTellTheDrive`: the steps told are that drive, leg by leg, with the maneuver each node calls for. `Terminates`: it answers, between nodes at one place too, where roads cost nothing there and back | 81 000 states |
| `hierarchy` | `DistancesKept`: contracting a node with all its pairs bridged keeps the distances of the others. `ShortcutsBridge`: a shortcut is a legal turn at a node contracted earlier, so unpacking ends. `NeverQuickerThanRoads`: no duration below that of a legal drive, with another profile than that of the build too. `AnswersCorrectly`: without turn restrictions, and for the profile of the build, the query implements `RoutePlanner` (otherwise `Promised` maps to no reply) | 79 000 |
| `tours` | each stop once, and a panic only where a stop is out of reach; no step of a sweep lengthens a closed tour, no reversal of the answer pays, sweeps end | 10 600 |
| `analyses` | the isochrone is exact and what it has answered stands; components are closed, joined and counted; betweenness is the number of quickest drives through a node, shared among ties, and the list holds the highest; the match fits best on traces without gaps, and the points it leaves unmatched are exactly those without a road, the last before a gap, and all of them if the first has no road; matrix and facilities are of quickest legal drives; the calls end | 45 000 |
| `import` | distances between crossings survive the import, restrictions arrive where they belong, both edge indices are exact for complete extracts, the matcher gets each road once, of the two halves of a loop one | 22 000 |
| `deployment` | `ServesOneNetwork`: whatever stops and whenever, a server that is up answers from the whole of one network, unless two imports wrote at once or the file was emptied while this server read it; its hierarchy is of that network, unless a whole graph was written over as well, or emptied while `preprocess` read it. `WrittenOnce`: a pod alone never writes a whole graph over. `ServesUnlessTorn`: it ends up serving what is on the volume, or a stop or a second import has left a file that is not whole, or the extract cannot be parsed | 138 000 |

Runs that find the code at odds with what the repository says of it; `PROJECT.json` quotes the lines:

| Run | What happens |
|---|---|
| `astar_clipped` | an edge imported from an extract that lacks its inner nodes is shorter than the straight line, the heuristic overestimates, and A* returns a slower route than Dijkstra |
| `ch_misses_route` | with turn restrictions, a witness arriving by another way suppresses a shortcut that is needed: the query answers None where Dijkstra has a route |
| `ch_banned_turn` | with turn restrictions, the path unpacked takes a banned turn, for unpacking looks for the cheapest arc and not for the one searched |
| `open_tour` | 2-opt lengthens a tour that does not return to the depot |
| `sparse_ids` | a crossing without coordinates leaves a hole in the node ids, and edges lie beyond the indices |
| `torn_graph` | a stop while the entrypoint's import writes leaves a `graph.bin` that is not whole; every start after it takes the file for a built graph, fails to read it and exits: the extract that is there is never imported |

### Bounds

- `Towns`: four nodes, any choice of the optional ones among nine directed edges with a closed class, a parallel edge, a way
  back, a slow shortcut; six sets of restrictions, with "no", "only", two at one node and a ban of the U-turn. A label has to be
  settled twice at a node, a dearer arrival has to win over a cheaper one, a route has to pass a node twice, for a turn to matter;
  all happen with four nodes. Requests for nodes that do not exist, the empty graph, an edge to a node that does not exist and
  source = target are among them. In the town with the ring road one way enters node 2 by two roads, the dearer one first, so that
  a label already queued is improved. In the town `FreeTown` two nodes are at one place, so that the streets between them are free in both directions.
- `GoesRound` ends the walk back of `Backtrack` when it has pushed more nodes than there are predecessors: it is then in a ring, where the code
  would push for ever, and `Terminates` fails.
- `MaxSpent = 7` for the driver: beyond the dearest simple drive in these towns.
- Routes told: nodes lie on a line, so that a run sees departures, arrivals, straight drives and turns back, not the words for the angles
  between. Durations of steps are compared where no two roads join the ends of a leg: of parallel roads the code tells the first.
- Hierarchy: without restrictions all towns of up to seven edges, in every order of contraction and with every choice of abandoned
  witness searches; with restrictions up to six. Asked for are the car the hierarchy is built for, one on foot, for whom the paces are the other way round and the closed class is
  open, and a lorry to which all classes but one are closed. `LevelMod = 16` stands for the 2^16 of `ch_level` and is not reached.
  The two violations use the code's own order and exact witnesses.
- Tours: none, one, two or four stops anywhere on a 3 by 2 grid, and four to six scattered stops chosen because one sweep does
  not settle them; all pairs of positions (i, j); one job with a stop out of reach (`Far = 9` is `f64::MAX`). Open tours are
  checked with three stops on a 3 by 3 grid, by `open_tour`.
- Analyses: budgets that cover nothing, an exact cost, all; node 4 does not exist; every subset of the nine edges for components. For
  betweenness a square with two equal ways across, twin carriageways, a shortcut as long as the way round and a free road, samples that take
  every node, some or one; `Scale = 1728` holds every quotient that occurs there (products of the numbers of drives, and the sample sizes);
  `MaxSample = 6`, `MaxTopK = 5` so that requests lie on both sides. Traces of up to four points over four roads, with and without a hole;
  `MaxTrace = 4` and `MaxRadius = 3` cut and refuse some of those that come by `POST /match`. `MaxPoints = 3`, `MaxPairs = 6` so that lists
  are rejected for either, points outside the coverage (that of the nodes, and one
  the extract declares, wider or narrower than the nodes), two points at one node.
- Import: extracts of up to three ways over five nodes: a crossing, a parallel way, loops with one or two crossings on them, a way of a single
  node, a footpath, one-way or not, each with one node missing or none; three lists of relations.
- Deployment: thirteen recipes of the README and the entrypoint (extract there or placed later, import by hand, preprocess, restart, a graph that is
  built already, an extract that cannot be parsed, one or two pods, with `--ch` and without). `Parts = 2` is the least with a file that is neither empty nor whole, and lets two
  writers interleave and a reader see some of the old file and some of the new; `MaxCrashes = 2` lets a start that repairs be stopped as well; the proofs need neither bound.

### Fairness

`WF_vars(Next)` (in `search` only of the search, nothing is expected of the driver; in `analyses` only of the calls whose loops
have no bound known beforehand). Every operation is a synchronous function on its own call stack: it waits for no lock, channel or
peer, and the scheduler runs a thread that can run. Weak fairness of the whole next-state relation says no more than that.

In `deployment` and `torn_graph` it is `WF_vars(Container(p))` of each pod and `WF_vars(ByHand)`: a container that can go on does, one
that has stopped is started again (`restart: unless-stopped`, the kubelet), and the operator follows the recipe. No crash has to happen, and
none has to end the recipe: `MaxCrashes` bounds them.

## 4. What is proved

Each theorem holds for every value of the constants that satisfies the assumption named.

`AStarProofs` (`RequestsAssumption`, that requests are well formed; `MaxSpentAssumption`):

- `TypeCorrect`: `Spec => []TypeOK`, from `TypeInv`, which adds that nothing is recorded before the request is checked, and that a heap
  entry carries a known label at no better than its best cost.
- `SearchInvariant`: `Spec => []IInv`. `IInv` is `TypeInv` and, for requests with a consistent heuristic, `SearchInv`. The properties
  are not inductive: that a settled cost is final needs that settled labels come before open ones by estimate (`SettledFirst`),
  that holds after a pop only if every open label has its best cost in the heap (`OpenCovered`), and after a relaxation only if the label
  being expanded is the last one settled (`CurrentLast`); optimality needs that every exit of a settled label was offered to its head
  (`Offered`) and where the search stands when it stops (`Arrived`).
- `TreeCorrect`, `SettledStays`: `TreeIsTight` and `SettledIsFinal` follow.
- `Optimal`: `AuditSpec => []NoFasterDrive`. The driver is always at a settled label that the search reached no later, or out of reach
  of the target (`DriverBehind`): an induction over the drive as steps of a behaviour, which spares summing up paths.

- `RouteIsTold`: `Spec => []StepsTellTheDrive`. Whatever the heuristic, `prev` has an exit for each entry (`Entered`), so that the backtrack has come back over exits
  (`Traced`) and the path answered has a road for every leg (`Walked`); `edge_between` then finds one for each, none is passed over, and on a line the angle
  between two legs is nothing or half a turn (`WordsOnALine`). With a consistent heuristic costs rise along the path by what each leg takes (`PathIsDriven`), and
  that adds up to the duration (`TotalOfSteps`).
- `SearchImplementsPlanner`: `Spec => AnswersCorrectly`, the search implements `RoutePlanner`, where every request's heuristic is consistent
  (`ConsistentRequests`); `DijkstraImplementsPlanner` needs no such assumption. `PlanInv` adds what the backtrack has put together: what is left of the
  chain of `prev` and what is already in the path are a drive of the best cost. With `OperatorTheorems` costs of `g_scores` are then
  at most the least ones (every drive is covered) and at least (each has a drive), and the path answered can be driven for just that.

Consistency of the heuristic is what `astar.rs:42` claims. It holds for `dijkstra` always, for `astar` when no edge is
shorter than the straight line between its ends; `astar_clipped` shows what happens otherwise.

`HierarchyProofs` (`BuildAssumption`), for every road graph with any turn restrictions, whatever node is contracted next and whatever a witness
search finds:

- `ShortcutsAreDrives`: `Spec => []ShortcutsBridge`. A shortcut is made after its node, so the property says nothing of what is about
  to be made; `IInv` adds that a pair waiting to be bridged leads into and out of the node contracted last, from and to nodes that are not
  contracted (`Waiting`), that `order` has no node twice (`Shape`), and which two arcs of smaller numbers a
  shortcut stands for, with its middle before its ends in `order` (`Bridged`). So unpacking ends, in whatever order nodes are contracted.
- `Typed`: build and query, for both profiles.
- `ContractionKeepsDistances`: `Spec => []DistancesKept`, for graphs without turn restrictions. The property speaks of moments when nothing is
  waiting; `KeptInv` says what holds between them: without the node being contracted distances are those of all nodes (`Kept`), and every pair of arcs through that
  node that has had its turn has a way round over the nodes left, no dearer (`WayRound`), which is a witness or the shortcut. A search
  given up only adds shortcuts. `DoneWithout` is the step that closes a node.
- `DurationIsOfADrive`: the duration a query reports is that of a legal drive from source to target, each of whose roads takes the time of
  the build's profile or of the one asked for. So `algorithm=ch` may miss a drive (`ch_misses_route`), may be slower than Dijkstra under another profile and
  may tell another path (`ch_banned_turn`), but it never reports a time no drive takes. A drive is a sequence of roads next to the sequence of what it
  has cost so far (`IsDrive`), so that costs are compared step by step and nothing is summed up. The invariant `DriveInv`: each arc is a drive of its
  weight, from its first way to its last (`ArcsDriven`), each label of a side is joined to that side's root by a drive of its cost, and the best
  meeting is a drive (`SearchDriven`); `Joined` puts two drives together where the turn between them is legal.
- `PromisesAreKept`: `Spec => []NeverQuickerThanRoads`, from the same invariant: a drive costs at least what `LeastCosts` says of its end.
- `QueryImplementsPlanner`: `Spec => AnswersCorrectly`, where no graph has more nodes than `ch_level` can number (`LevelsFit`; 65 536 in the code). Without turn
  restrictions and for the profile of the build a query implements `RoutePlanner`: it answers once, `NoRoute` exactly where there is no drive, and otherwise the
  least cost, with nodes that can be driven for just that. `PlanInv` has five parts more than `DriveInv`, and the argument as many steps:
  1. When a node is contracted distances between the others are kept, and stay so, since a shortcut never brings nodes nearer (`KeptBefore`). Hence a quickest
     drive can climb from each end over arcs to nodes contracted later, until both ways meet (`UpAndDown`, `WaysClimbAndFall`).
  2. A label that is not expanded has its best cost open unless a cheaper meeting is known (`Covered`); expanded ones are no dearer than what is open
     (`Ordered`), and their arcs have been followed (`Offered`); where both sides expanded a node they have met (`Met`). So when both heaps are hopeless the
     best meeting is no dearer than any drive (`BestIsLeast`), although the sides take turns, prune by it and meet tentative costs.
  3. Labels go back one to the other, for just what they cost more, and come to the root within as many steps as labels are expanded (`Traced`): so `Trace` ends at the source
     and at the target, with arcs in between that cost no more than the best meeting (`PackedOverArcs`).
  4. An arc without a middle is a road (`RoadsWhole`), and a middle comes before its ends, so that `unpack_edge` is a recursion that ends
     (`UnpackingExists`). It may unpack another arc than the one searched by, between the same nodes; that one is no dearer (`UnpackGoes`).
  5. What is unpacked can be driven, for no more than the best meeting, and no drive is cheaper: both are the least cost (`AnswerIsRight`).

`RouteOptimizerProofs` (`JobsAssumption`):

- `VisitsEveryStopOnce`, for every matrix, closed or open; `nearest_neighbor` indexes out of range only where some distance is `Far`. `TourInv` adds where the sweep stands (`OnPair`) and that visiting uses up the stops one by
  one, a count that makes the tour as long as there are stops; `ReverseKeepsStops` is the lemma on reversing a part of a sequence. `OptimizerTypes`
  adds the bound on the total.
- `SweepsNeverLengthen`, `NothingLeftToReverse`: `NeverLonger` and `NoReversalHelps`, for round trips (`RoundTrip`: closed, and as long either way, which is
  what haversine distances are). The length of a tour is a sum of legs; a reversal keeps all of them but two, the inner ones the other way round, so
  that it changes the length by just what `vrp.rs:168` computes (that lemma is where symmetry is used). For a sweep that has changed nothing,
  every pair it has passed was no gain. Open tours are left out because it is false of them (`open_tour`).

`IsochroneProofs` is about the search alone (`RequestsOK`, that requests are well formed); `AnalysesProofs` takes its theorems to the composition
(`CallsAssumption`), where the properties of the run `analyses` are stated, and proves those of the other analyses there: a call of the server moves
as the module alone, or the module rests.

- `SettledStays`, `AnswersLeastCosts`: the cost of a node expanded is never revised, and the answer solves the equations of least costs: it
  lists the source at no cost, every road out of a listed node leads to one that is listed no dearer than that (or beyond the budget), every other
  node is listed at the cost of a road from one listed before, each once and nearest first. `IInv`: expanded nodes are nearer than open entries,
  and what is known and not expanded has its entry (`Settled`); roads out of expanded nodes have been followed (`Taken`); each cost has a road it comes
  from (`Reasons`); nothing beyond the budget is ever open (`InBudget`), so that stopping early leaves nothing out (`AllListed`).
- `AnswersExactly`: these equations have `LeastCosts` for their only solution, so that the answer lists exactly the nodes within the budget.
- `ExpandedStays`, `IsochroneExact`: `ReachedIsFinal` and `ReachableExactly` of every call of the composition.
- `ComponentsSeparated`, `ComponentsTogether`, `ComponentsCounted`: `ComponentsClosed`, `ComponentsJoined`, `SizesCount`. No street leaves a component that
  is closed, its nodes are joined, and when the answer is there each node has a component and the sizes are theirs, largest first. `Graphwise` says
  where the scan stands: outside a search the queue is empty and what is labelled belongs to closed components, within one the queue is part of the
  one begun at `start` (`NetworkPhases`), and every neighbour of a node that was taken from the queue has its label (`NoStreetOut`).
  `NetworkCounts` holds of the nodes expanded.
- `PairDurations`, `NoFacilityQuicker`, `MatrixComplete`: `DurationsRight`, `ClosestChosen`, `MatrixCompleteOneEach`. The invariant relates the results so far to the
  loops: each is about a pair the loops have passed, in their order, with a duration some quickest legal drive takes, and each pair passed has one unless
  there is no drive; the answer is a permutation of them.
- `NoBetterMatch`: `BestSequence`. The scores of a column are the best of any choice of roads up to that point that ends at the candidate (`ScoresAre`,
  `RecurFills`), `EndIsBest` picks the best of the last, and going back along `prev` the roads told score what the column says (`MarksScore`). Any other choice
  scores, point by point, at most its column (`ColumnsBound`); so nothing beats the roads told. A score is a sum along the points, given as a function of the
  point reached (`ScoreIs`), so that sums are compared point by point.
- `UnmatchedAtGaps`: `UnmatchedExactly`. Going back loses the trail at a point without candidates and at the one before it (`BeforeGap`), and takes it up again after that
  (`MatchRight`, `Traced`, `Skipped`, `BackKeeps`); what is marked is what is told (`Told`, `GapsFollow`).
- `AnalysesTyped`: `TypeOK` of the composition. For betweenness that takes an invariant of its own (`Measuring`): the predecessors of a node have been reached
  like the node itself, a source always has, so that counting never begins with an empty list, and counts and scores stay naturals through sums, products and
  rounded quotients. `SampleTyped` bounds the evenly spread sample by the nodes.

`ImportProofs` (`ExtractsAssumption`, that extracts are well formed), for every extract, with ways of any length, loops and holes in the coordinates,
and every order a hash map can give the nodes. `IInv` follows the passes of `build_graph`:

- `Used`: after the ways counted so far each node has a use for each position it is at, and one more where a way begins or ends. Thus a node two ways share, or one way
  passes twice, has at least two (`SharedNodes`).
- `Numbered`: the graph nodes are the nodes used twice, in some order, numbered as they come, with gaps where coordinates are missing.
- `Placed`, `EdgesListed`: the splitting stands at `i` with the last graph node at `segment_start`, and the edges so far are the lanes so far, each
  once. A lane is a stretch of a way between two graph nodes with none in between (`Strip`), in a direction the way can be driven. `SplitSplits` is the step.
- `BuiltRight`, `Served`: the two indices, the restrictions and the segments are what `Graph::build` and `road_network_from_graph` make of these edges.

From it follow `ImportTyped` and:

- `IndicesAreRight`: `Spec => []IndicesRight`. Edges are sorted by source, so that those before a node's are as many as have smaller sources, which is what the
  offsets add up (`CountsTheFirst`, `OffsetsIndex`, `ReverseIndexes`); without gaps every source is a position.
- `RestrictionsAreKept`: where two ways meet is a graph node, and the numbers of two nodes differ: so a restriction of the graph speaks of that crossing alone.
- `MatcherKnowsEach`: `MatcherKnowsEachRoadOnce`, for every complete extract, with loops and ways without ids. A road is a stretch of a way between two graph nodes; two-way
  stretches of one way id between the same nodes are one road (`RoadWith`), which is what `Dropped` makes of the edges: it leaves one edge of each road (`StretchesAreStrips`, `StreetsAreRoads`,
  `SegmentsAreRoads`), so that there are as many segments as roads. Where each stretch is a road of its own the lengths add up to those of the ways:
  a strip is as long as its pieces (`StretchIsItsPieces`), and the pieces of all strips are those of all ways (`PiecesByStrip`, `PiecesByWay`, which rest on `TotalByParts`).
- `DistancesDoSurvive`: `LeastCosts` over the edges and over the legs of the ways agree. Costs over the legs solve the equations of the graph: an edge is its legs, one
  after the other (`LanesAreSolved`). The other way round a leg may start inside a strip, where the graph has no node: what the graph knows of such a node
  is by what it comes to past an end of its strip, `Knows` and `Near`, which a leg in either direction keeps (`NearMoves`, `KnowsMoves`). Neither is dearer than the other, by
  `LeastCostsAreDriven` and `LeastCostsSolve`.

`OperatorTheorems` holds for all graphs, with no assumption but that they are graphs: `LeastCostsSolve` and `LeastCostsAreDriven` (the rounds of `LeastCosts` end in the least
solution of its equations, whatever the costs), `LeastCostsOfDrives` (the least cost of a label is the cost of a legal drive to it, and no drive there is cheaper), `LeastCostsByDriving`, `DrivesCostAtLeast` and `ChainsAreDrivable` (the same of roads and turns, and of a path of nodes),
`InOrderSorts` (a sort lists each element once, smaller ones first), `TotalWithout`, `TotalByParts`, `TotalMoved`, `TotalOfSteps` (a sum is one member and the rest,
the sum of its parts, the same however its members are named, and what its steps come to); `PickedFacts`, `PickedAll` (a filter keeps the order). The induction theorems of the library take an operator as a parameter, which the
provers cannot instantiate: `InductionOverNat` and `RecursionOverNat` say the same of sets and functions.

`DeploymentProofs` (`DeploymentAssumption`: any number of pods, parts of a file and stops):

- `OneNetworkServed`: `Spec => []ServesOneNetwork`. Files are read part by part while others write them, and what a server holds was read long before; `IInv`
  has to say what was true of the file when it was read. It is `TypeOK`; that only the operator writes a hierarchy (`JobsRight`); that, as long as no two
  imports have met, `graph.bin` is the beginning of one network, as far as its one writer has come (`OneWriter`); that whoever reads it and has not seen it
  emptied has read how it begins, so that a server, who has read to the end of what parses, has the whole of it (`CopiesRight`); and that, as long as no
  whole graph has been written over either, nor emptied under `preprocess`, the hierarchy on the volume, the one being written and what servers hold are of
  the network that is on the volume (`OneNetwork`). `straddled` names those whose copy may be of before and after the file was emptied: with those,
  the property is false, for `std::fs::read` and `std::fs::write` do not exclude each other.
- `Typed`: `TypeOK`, with it that a server has read the whole length of what it was told to serve.
- `NeverWrittenAgain`: `Spec => WrittenOnce`, from the same invariant and, for one pod without imports by hand, that it parses only where there is no graph
  yet (`LoneImport`).

Only model-checked: liveness, which is out of reach of the provers; that the scores of betweenness are shares of quickest drives (`CentralityExact`: scores are in
`Scale`-ths, which are exact only for a `Scale` that all quotients of a network divide, so the property is not one of every value of the constants).

## 5. Not modelled, and known limits

- Costs are integers. Rounding of `f64` sums, NaN and infinities are left out, but for stops that are infinitely far.
- A query under another profile than that of the build is modelled, and never answers quicker than the roads allow; how much slower than
  Dijkstra it answers is the choice of `ch.rs:239`, and nothing is promised of it. The wrap of `ch_level` (`ch.rs:129`) can be seen by
  setting `LevelMod = 2`.
- Isochrones and betweenness ignore turn restrictions, in the code and in the reference they are compared with.
- With free roads path counts of betweenness depend on the order of the heap (`network_analysis.rs:293`): `CentralityExact` is stated of
  networks without them, though the runs contain one.
- Between nodes joined by parallel roads the route tells the first of them (`route.rs:113`), and a bearing between nodes at one place is 0 (`coord.rs:31`), so that the word for such a
  leg says nothing of the drive: `StepsTellTheDrive` compares the others. With an inconsistent heuristic the costs of the path may no longer be those
  the search answered by: durations are compared where it is consistent.
- With an asymmetric matrix the 2-opt gain of `vrp.rs:168` is not the change in length and sweeps may not end; the handler only ever passes
  haversine distances, so the runs keep to symmetric ones (`VisitsEveryStopOnce` does not).
- After a point without candidates the later points of a trace are matched to their first candidate (`hmm.rs:88`), and the last point before a gap is
  left unmatched although there is a road, as are all points when the first has none; `docs/openapi.yaml:222` explains a null by no road in reach, which is
  not what the code does: `UnmatchedExactly` says what it does do. The connectivity bonus is a penalty (`hmm.rs:101`). The module has all three;
  `BestSequence` is stated of traces without gaps.
- Two points of a matrix at one node share it: one of them is left out of the answer: `MatrixCompleteOneEach` is stated of lists of points at nodes of their own.
- A loop road between two crossings loses one half in the matcher's network (`state.rs:48`), and so do two-way ways of one id, 0 included, between the same
  nodes: `MatcherKnowsEachRoadOnce` counts them as one road and says that nothing else is lost.
- A way without an id gets 0, which in a restriction stands for no way: `RestrictionsKept` is about ways with ids.
- Deployment: a file is written, and read, in parts, which reach the disk in order; loss of power with data still in the page cache
  is left out. A crash stops one process. With `MaxCrashes` stops an import that a probe stops for ever (`deployment.yaml:45`) does not occur.
- Names and geometry of routes, hulls, R-trees, parsing of bytes, HTTP, auth, metrics, arguments and printing: see the notes in `PROJECT.json`.

## 6. Plan

Done: search, hierarchy with any profile, tours, matcher, isochrone, components, pair queries, betweenness and their composition; import; routes
told; deployment with crashes. Theorems of the search and of the hierarchy's query with their refinement, of the routes told, the build, tours, components,
isochrones, pair queries, the matcher, the import and deployment.

What is left: that `sigma` of `Betweenness` counts the quickest drives of a network without free roads, for every such network. The scores would need exact
quotients first.
