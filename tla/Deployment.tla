------------------------------ MODULE Deployment ------------------------------
(***************************************************************************)
(* How a network gets from a map extract into the servers: the entrypoint  *)
(* of the image (docker-entrypoint.sh), itinera import, preprocess and     *)
(* serve (crates/itinera-cli/src/main.rs), and the operator who follows    *)
(* the README, all of them on one volume, /data.                           *)
(*                                                                         *)
(* A pod is a container that its orchestrator starts again whenever it     *)
(* stops.  It may stop at any step: a crash, a full disk, a probe that     *)
(* gives up on a long import.  Memory is lost then, the volume is kept.    *)
(* A file is written in place, part by part, by fs::write, and read part   *)
(* by part to its end by fs::read, whatever others do to it in between.    *)
(* Node ids come out of a hash map, so that two imports, of one extract    *)
(* even, are different networks: each has an id of its own.                *)
(***************************************************************************)
EXTENDS Naturals, Sequences, FiniteSets

CONSTANTS
    Setups,         \* the deployments looked at
    Parts,          \* the pieces in which a file is written
    MaxCrashes      \* bounds how often pods and commands are stopped halfway

Graph == "graph.bin"
Hierarchy == "ch.bin"
Operator == "operator"

(* pods: the replicas; ch: they serve with --ch; extract: region.osm.pbf is *)
(* there; sound: it can be parsed; built: both files are there, of network  *)
(* 1; plan: what the operator does.                                         *)
IsSetup(s) ==
    /\ IsFiniteSet(s.pods) /\ s.pods # {} /\ Operator \notin s.pods
    /\ s.ch \in BOOLEAN /\ s.extract \in BOOLEAN /\ s.built \in BOOLEAN
    /\ s.sound \in BOOLEAN
    /\ s.plan \in Seq({"place", "import", "preprocess", "restart"})

ASSUME DeploymentAssumption ==
    /\ \A s \in Setups : IsSetup(s)
    /\ Parts \in Nat /\ Parts > 1 /\ MaxCrashes \in Nat

VARIABLES
    setup,
    extract,    \* whether /data/region.osm.pbf exists
    disk,       \* the files on the volume
    imports,    \* imports begun so far
    pc, job,    \* where a process is, and the file it writes
    loaded,     \* what a process has read of the files, in memory
    plan,       \* what the operator has left to do
    crashes,
    overlapped, \* two imports have written graph.bin at once
    replaced,   \* a whole graph.bin has been written over
    straddled   \* those whose copy of graph.bin may be of before and after
                \* it was emptied: pods by their memory, the operator by ch.bin

ghosts == <<overlapped, replaced, straddled>>
vars == <<setup, extract, disk, imports, pc, job, loaded, plan, crashes, ghosts>>

-----------------------------------------------------------------------------
(* A file is whatever was written of it: at each place the id of a network *)
(* or, where one writer went on after another had emptied the file, Hole.  *)
Hole == 0
Absent == [exists |-> FALSE, parts |-> <<>>]
Empty == [exists |-> TRUE, parts |-> <<>>]
Complete(id) == [exists |-> TRUE, parts |-> [i \in 1 .. Parts |-> id]]

Written(f, i, id) ==
    LET At(k) == IF k = i THEN id ELSE IF k <= Len(f.parts) THEN f.parts[k] ELSE Hole
        end == IF i > Len(f.parts) THEN i ELSE Len(f.parts)
    IN  [exists |-> TRUE, parts |-> [k \in 1 .. end |-> At(k)]]

(* A single writer has written all of it.                                  *)
Whole(f) == \E id \in 0 .. imports : f = Complete(id)

(* Faulty: what has been read so far will do.                              *)
MayParsePrefix(f) == f.parts # <<>>

(* f is what has been read.  bincode needs every field, down to the last:  *)
(* what is cut off does not parse.  Bytes of two writers may or may not.   *)
MayParse(f) == f.exists /\ Len(f.parts) = Parts
MustParse(f) == Whole(f)

(* What parses of two writers is the network of neither.                   *)
NetworkOf(f) == IF Whole(f) THEN f.parts[1] ELSE Hole

NoJob == [file |-> Graph, id |-> Hole, part |-> 0]
Nothing == [f \in {Graph, Hierarchy} |-> Absent]

Pods == setup.pods
Importing(p) == pc[p] \in {"parse", "open", "write"}
Writing(p) == pc[p] = "write" /\ job[p].file = Graph

Init ==
    /\ setup \in Setups
    /\ extract = setup.extract
    /\ disk = [f \in {Graph, Hierarchy} |-> IF setup.built THEN Complete(1) ELSE Absent]
    /\ imports = IF setup.built THEN 1 ELSE 0
    /\ pc = [p \in setup.pods \cup {Operator} |-> "start"]
    /\ job = [p \in setup.pods \cup {Operator} |-> NoJob]
    /\ loaded = [p \in setup.pods \cup {Operator} |-> Nothing]
    /\ plan = setup.plan
    /\ crashes = 0
    /\ overlapped = FALSE /\ replaced = FALSE /\ straddled = {}

-----------------------------------------------------------------------------
(* Those in the middle of reading graph.bin.                               *)
Reading == {p \in DOMAIN pc : pc[p] = "load" /\ loaded[p][Graph].parts # <<>>}

(* std::fs::write, called by process p: the file is emptied ...            *)
Open(p) ==
    /\ pc[p] = "open"
    /\ disk' = [disk EXCEPT ![job[p].file] = Empty]
    /\ pc' = [pc EXCEPT ![p] = "write"]
    /\ overlapped' = (overlapped \/ (job[p].file = Graph /\ \E q \in DOMAIN pc : Writing(q)))
    /\ replaced' = (replaced \/ (job[p].file = Graph /\ Whole(disk[Graph])))
    /\ straddled' = IF job[p].file = Graph THEN straddled \cup Reading ELSE straddled
    /\ UNCHANGED <<setup, extract, imports, job, loaded, plan, crashes>>

(* ... and then written, each writer at an offset of its own.  After the   *)
(* last part the command is done.                                          *)
Write(p) ==
    LET part == job[p].part + 1
        last == part = Parts
    IN  /\ pc[p] = "write"
        /\ disk' = [disk EXCEPT ![job[p].file] = Written(@, part, job[p].id)]
        /\ job' = [job EXCEPT ![p] = IF last THEN NoJob ELSE [@ EXCEPT !.part = part]]
        /\ pc' = [pc EXCEPT ![p] = CASE ~last -> "write"
                                     [] last /\ p = Operator -> "start"
                                     [] OTHER -> "check"]
        /\ plan' = IF last /\ p = Operator THEN Tail(plan) ELSE plan
        /\ UNCHANGED <<setup, extract, imports, loaded, crashes, ghosts>>

(* The extract on the volume can be parsed; the operator's can in any case. *)
Parses(p) == setup.sound \/ p = Operator

(* itinera import has parsed the extract and holds a graph of its own.     *)
Parse(p) ==
    /\ pc[p] = "parse"
    /\ Parses(p)
    /\ imports' = imports + 1
    /\ job' = [job EXCEPT ![p] = [file |-> Graph, id |-> imports + 1, part |-> 0]]
    /\ pc' = [pc EXCEPT ![p] = "open"]
    /\ UNCHANGED <<setup, extract, disk, loaded, plan, crashes, ghosts>>

(* Or it has not: nothing is written, and set -e ends the container.       *)
ParseFails(p) ==
    /\ pc[p] = "parse"
    /\ ~Parses(p)
    /\ pc' = [pc EXCEPT ![p] = "exited"]
    /\ UNCHANGED <<setup, extract, disk, imports, job, loaded, plan, crashes, ghosts>>

-----------------------------------------------------------------------------
(* Faulty: imports whenever there is an extract.                           *)
EnterImporting(p) ==
    /\ pc[p] = "start"
    /\ pc' = [pc EXCEPT ![p] = IF extract THEN "parse" ELSE "check"]
    /\ UNCHANGED <<setup, extract, disk, imports, job, loaded, plan, crashes, ghosts>>

(* The entrypoint: import if there is an extract and no graph file ...     *)
Enter(p) ==
    /\ pc[p] = "start"
    /\ pc' = [pc EXCEPT ![p] = IF extract /\ ~disk[Graph].exists THEN "parse" ELSE "check"]
    /\ UNCHANGED <<setup, extract, disk, imports, job, loaded, plan, crashes, ghosts>>

(* Faulty: looks for the extract again, not for the graph.                 *)
CheckExtract(p) ==
    /\ pc[p] = "check"
    /\ pc' = [pc EXCEPT ![p] = IF extract THEN "load" ELSE "asleep"]
    /\ UNCHANGED <<setup, extract, disk, imports, job, loaded, plan, crashes, ghosts>>

(* ... warn and sleep for good if there is no graph file, else serve.      *)
CheckGraph(p) ==
    /\ pc[p] = "check"
    /\ pc' = [pc EXCEPT ![p] = IF disk[Graph].exists THEN "load" ELSE "asleep"]
    /\ UNCHANGED <<setup, extract, disk, imports, job, loaded, plan, crashes, ghosts>>

(* std::fs::read: the next part of what is there now of the file wanted ... *)
Wanted(p) == IF pc[p] = "load" THEN Graph ELSE Hierarchy

AtEnd(p) == Len(loaded[p][Wanted(p)].parts) >= Len(disk[Wanted(p)].parts)

With(f, part) == [exists |-> TRUE, parts |-> Append(f.parts, part)]

Read(p) ==
    LET f    == Wanted(p)
        next == Len(loaded[p][f].parts) + 1
    IN  /\ pc[p] \in {"load", "load_ch"}
        /\ ~AtEnd(p)
        /\ loaded' = [loaded EXCEPT ![p][f] = With(@, disk[f].parts[next])]
        /\ UNCHANGED <<setup, extract, disk, imports, pc, job, plan, crashes, ghosts>>

(* A process of a pod ends, and what it had in memory with it.             *)
Exit(p) ==
    /\ pc' = [pc EXCEPT ![p] = "exited"]
    /\ loaded' = [loaded EXCEPT ![p] = Nothing]
    /\ straddled' = straddled \ {p}

(* ... up to its end.  serve parses the graph, and goes on to the hierarchy *)
(* if it is given one; either that is missing or does not parse ends it.    *)
Load(p) ==
    /\ pc[p] = "load"
    /\ AtEnd(p)
    /\ \/ /\ MayParse(loaded[p][Graph])
          /\ pc' = [pc EXCEPT ![p] = IF setup.ch THEN "load_ch" ELSE "serving"]
          /\ UNCHANGED <<loaded, straddled>>
       \/ /\ ~MustParse(loaded[p][Graph])
          /\ Exit(p)
    /\ UNCHANGED <<setup, extract, disk, imports, job, plan, crashes, overlapped, replaced>>

(* Faulty: serves without the hierarchy if that does not parse.            *)
LoadHierarchyIfAny(p) ==
    /\ pc[p] = "load_ch"
    /\ AtEnd(p)
    /\ pc' = [pc EXCEPT ![p] = "serving"]
    /\ UNCHANGED <<setup, extract, disk, imports, job, loaded, plan, crashes, ghosts>>

LoadHierarchy(p) ==
    /\ pc[p] = "load_ch"
    /\ AtEnd(p)
    /\ \/ /\ MayParse(loaded[p][Hierarchy])
          /\ pc' = [pc EXCEPT ![p] = "serving"]
          /\ UNCHANGED <<loaded, straddled>>
       \/ /\ ~MustParse(loaded[p][Hierarchy])
          /\ Exit(p)
    /\ UNCHANGED <<setup, extract, disk, imports, job, plan, crashes, overlapped, replaced>>

(* restart: unless-stopped, and the same of a pod.                         *)
StartAgain(p) ==
    /\ pc[p] = "exited"
    /\ pc' = [pc EXCEPT ![p] = "start"]
    /\ UNCHANGED <<setup, extract, disk, imports, job, loaded, plan, crashes, ghosts>>

Container(p) ==
    /\ p \in Pods
    /\ \/ Enter(p) \/ Parse(p) \/ ParseFails(p) \/ Open(p) \/ Write(p)
       \/ CheckGraph(p) \/ Read(p) \/ Load(p) \/ LoadHierarchy(p) \/ StartAgain(p)

-----------------------------------------------------------------------------
Doing(command) == pc[Operator] = "start" /\ plan # <<>> /\ Head(plan) = command

(* The warning has been read: every pod sleeps.                            *)
PlaceExtract ==
    /\ Doing("place") /\ \A p \in Pods : pc[p] = "asleep"
    /\ extract' = TRUE
    /\ plan' = Tail(plan)
    /\ UNCHANGED <<setup, disk, imports, pc, job, loaded, crashes, ghosts>>

(* itinera import by hand, of an extract that may be anywhere.             *)
ImportByHand ==
    /\ Doing("import")
    /\ pc' = [pc EXCEPT ![Operator] = "parse"]
    /\ UNCHANGED <<setup, extract, disk, imports, job, loaded, plan, crashes, ghosts>>

(* itinera preprocess reads the graph ...                                  *)
Preprocess ==
    /\ Doing("preprocess")
    /\ pc' = [pc EXCEPT ![Operator] = "load"]
    /\ UNCHANGED <<setup, extract, disk, imports, job, loaded, plan, crashes, ghosts>>

(* ... to its end, and builds a hierarchy of what it has read; if that     *)
(* does not parse the operator tries again.                                *)
BuildHierarchy ==
    LET graph == loaded[Operator][Graph]
    IN  /\ pc[Operator] = "load"
        /\ AtEnd(Operator)
        /\ \/ /\ MayParse(graph)
              /\ job' = [job EXCEPT ![Operator] =
                            [file |-> Hierarchy, id |-> NetworkOf(graph), part |-> 0]]
              /\ pc' = [pc EXCEPT ![Operator] = "open"]
           \/ /\ ~MustParse(graph)
              /\ pc' = [pc EXCEPT ![Operator] = "start"]
              /\ UNCHANGED job
        /\ loaded' = [loaded EXCEPT ![Operator] = Nothing]
        /\ UNCHANGED <<setup, extract, disk, imports, plan, crashes, ghosts>>

(* The pods are restarted, though not while one of them imports.           *)
RestartPods ==
    /\ Doing("restart") /\ \A p \in Pods : ~Importing(p)
    /\ pc' = [p \in DOMAIN pc |-> IF p = Operator THEN pc[p] ELSE "start"]
    /\ loaded' = [p \in DOMAIN pc |-> Nothing]
    /\ straddled' = straddled \ Pods
    /\ plan' = Tail(plan)
    /\ UNCHANGED <<setup, extract, disk, imports, job, crashes, overlapped, replaced>>

ByHand ==
    \/ PlaceExtract \/ ImportByHand \/ Preprocess \/ BuildHierarchy \/ RestartPods
    \/ Parse(Operator) \/ Open(Operator) \/ Write(Operator) \/ Read(Operator)

-----------------------------------------------------------------------------
(* A process stops where it is.  What the operator ran is run again.       *)
Crash(p) ==
    /\ crashes < MaxCrashes
    /\ pc[p] \notin (IF p = Operator THEN {"start"} ELSE {"exited"})
    /\ crashes' = crashes + 1
    /\ pc' = [pc EXCEPT ![p] = IF p = Operator THEN "start" ELSE "exited"]
    /\ job' = [job EXCEPT ![p] = NoJob]
    /\ loaded' = [loaded EXCEPT ![p] = Nothing]
    /\ straddled' = straddled \ ({p} \cap Pods)
    /\ UNCHANGED <<setup, extract, disk, imports, plan, overlapped, replaced>>

Next ==
    \/ \E p \in Pods : Container(p)
    \/ ByHand
    \/ \E p \in DOMAIN pc : Crash(p)

Spec == Init /\ [][Next]_vars

(* Containers run and are started again, and the operator follows the plan. *)
(* Nothing makes a crash happen.                                           *)
FairSpec ==
    /\ Spec
    /\ WF_vars(ByHand)
    /\ \A p \in UNION {s.pods : s \in Setups} : WF_vars(Container(p))

-----------------------------------------------------------------------------
FileState == {f \in [exists : BOOLEAN, parts : Seq(0 .. imports)] :
                 Len(f.parts) <= Parts /\ (~f.exists => f.parts = <<>>)}

(* What the processes keep is what they can keep: a job only while a file  *)
(* is written, memory only while files are read or served, and a server    *)
(* the whole length of what it was told to serve.                          *)
TypeOK ==
    /\ setup \in Setups /\ extract \in BOOLEAN /\ crashes \in 0 .. MaxCrashes
    /\ imports \in Nat
    /\ DOMAIN disk = {Graph, Hierarchy} /\ \A f \in DOMAIN disk : disk[f] \in FileState
    /\ DOMAIN pc = Pods \cup {Operator} /\ DOMAIN job = DOMAIN pc
    /\ DOMAIN loaded = DOMAIN pc /\ straddled \subseteq DOMAIN pc
    /\ \A p \in DOMAIN pc :
          /\ pc[p] \in {"start", "parse", "open", "write", "check", "asleep", "load",
                        "load_ch", "serving", "exited"}
          /\ job[p] \in [file : {Graph, Hierarchy}, id : 0 .. imports, part : 0 .. Parts - 1]
          /\ pc[p] \notin {"open", "write"} => job[p] = NoJob
          /\ loaded[p] \in [{Graph, Hierarchy} -> FileState]
          /\ pc[p] \notin {"load", "load_ch", "serving"} => loaded[p] = Nothing
          /\ pc[p] \in {"load_ch", "serving"} => MayParse(loaded[p][Graph])
          /\ pc[p] = "serving" /\ setup.ch => MayParse(loaded[p][Hierarchy])

(* Whatever stops and whenever, a server that is up answers from the whole *)
(* of one network, unless two imports wrote graph.bin at once or it was    *)
(* emptied while this server read it.  Its hierarchy is one of that        *)
(* network, unless in addition a graph was written over, or emptied while  *)
(* it was read to build the hierarchy.                                     *)
ServesOneNetwork ==
    \A p \in Pods : pc[p] = "serving" /\ ~overlapped /\ p \notin straddled =>
        /\ Whole(loaded[p][Graph])
        /\ setup.ch /\ ~replaced /\ Operator \notin straddled =>
              loaded[p][Hierarchy] = loaded[p][Graph]

Commands == {setup.plan[i] : i \in DOMAIN setup.plan}

(* Where nobody imports by hand a single pod writes its graph once:        *)
(* whatever stops, and however often it starts again, it never touches a   *)
(* graph.bin that is whole.                                                *)
WrittenOnce ==
    [][Cardinality(Pods) = 1 /\ "import" \notin Commands /\ Whole(disk[Graph])
          => disk'[Graph] = disk[Graph]]_vars

(* With one pod the deployment ends up serving what is on the volume, the  *)
(* hierarchy of that network included ...                                  *)
InService(p) ==
    /\ pc[p] = "serving"
    /\ Cardinality(Pods) = 1 =>
          /\ loaded[p][Graph] = disk[Graph]
          /\ setup.ch => loaded[p][Hierarchy] = disk[Graph]

(* ... unless an import of the entrypoint was stopped halfway, or met      *)
(* another one, and left a graph.bin that is not whole, or the extract     *)
(* cannot be parsed.                                                       *)
ServesUnlessTorn ==
    \/ <>[](\A p \in Pods : InService(p))
    \/ /\ "import" \notin Commands
       /\ \/ <>[](~Whole(disk[Graph]) /\ (crashes > 0 \/ overlapped))
          \/ ~setup.sound /\ [](~disk[Graph].exists)

(* "If OSM file exists and graph hasn't been built yet, import it": a pod  *)
(* that has an extract comes to serve it.                                  *)
ServesInTheEnd == <>[](\A p \in Pods : pc[p] = "serving")
=================================================================================
