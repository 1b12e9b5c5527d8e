---------------------------- MODULE DeploymentProofs ----------------------------
(***************************************************************************)
(* For every number of pods, parts of a file and stops: a server that is   *)
(* up answers from the whole of one network and its own hierarchy, unless  *)
(* two imports overlapped, a file was emptied under its reader or a graph  *)
(* was written over; and a single pod never writes a whole graph over by   *)
(* itself.                                                                 *)
(***************************************************************************)
EXTENDS Deployment, FiniteSetTheorems, TLAPS

Files == {Graph, Hierarchy}
States == {"start", "parse", "open", "write", "check", "asleep", "load", "load_ch",
           "serving", "exited"}

(* FileState, of n imports.                                                *)
FileOf(n) ==
    {f \in [exists : BOOLEAN, parts : Seq(0 .. n)] :
        Len(f.parts) <= Parts /\ (~f.exists => f.parts = <<>>)}

JobOf(n) == [file : Files, id : 0 .. n, part : 0 .. Parts - 1]

(* All of f is of one import.                                              *)
Pure(f, id) == \A k \in DOMAIN f.parts : f.parts[k] = id

(* f is how g begins.                                                      *)
Begins(f, g) ==
    /\ Len(f.parts) <= Len(g.parts)
    /\ \A k \in DOMAIN f.parts : f.parts[k] = g.parts[k]

-----------------------------------------------------------------------------
(* Files.                                                                  *)

LEMMA FilesDiffer == Graph # Hierarchy
BY DEF Graph, Hierarchy

LEMMA OperatorApart == ASSUME setup \in Setups PROVE Operator \notin Pods
BY DeploymentAssumption DEF IsSetup, Pods

LEMMA MoreImports ==
    ASSUME NEW n \in Nat, NEW f \in FileOf(n) PROVE f \in FileOf(n + 1)
<1>1. f.parts \in Seq(0 .. n + 1)
  BY DEF FileOf
<1>. QED
  BY <1>1 DEF FileOf

LEMMA EmptyFiles ==
    ASSUME NEW n \in Nat PROVE Absent \in FileOf(n) /\ Empty \in FileOf(n)
BY DeploymentAssumption DEF FileOf, Absent, Empty

LEMMA CompleteFiles ==
    ASSUME NEW n \in Nat, NEW id \in 0 .. n
    PROVE  /\ Complete(id) \in FileOf(n)
           /\ Complete(id).exists /\ Len(Complete(id).parts) = Parts
           /\ Complete(id).parts[1] = id /\ Pure(Complete(id), id)
<1>1. Parts \in Nat /\ Parts > 1
  BY DeploymentAssumption
<1>2. [i \in 1 .. Parts |-> id] \in Seq(0 .. n)
  BY <1>1
<1>3. Len([i \in 1 .. Parts |-> id]) = Parts
  BY <1>1
<1>. QED
  BY <1>1, <1>2, <1>3 DEF Complete, FileOf, Pure

(* A file all of one import and as long as it gets is whole.               *)
LEMMA PureAndLong ==
    ASSUME NEW n \in Nat, NEW f \in FileOf(n), NEW id, Pure(f, id),
           f.exists, Len(f.parts) = Parts
    PROVE  f = Complete(id)
<1>1. Parts \in Nat /\ f.parts \in Seq(0 .. n)
  BY DeploymentAssumption DEF FileOf
<1>2. f.parts = [i \in 1 .. Parts |-> id]
  BY <1>1 DEF Pure
<1>3. f = [exists |-> TRUE, parts |-> f.parts]
  BY DEF FileOf
<1>. QED
  BY <1>2, <1>3 DEF Complete

(* What is whole parses, begins with the id of its import and is all of it. *)
LEMMA WholeFacts ==
    ASSUME imports \in Nat, NEW f, Whole(f)
    PROVE  /\ f.exists /\ Len(f.parts) = Parts
           /\ f.parts[1] \in 0 .. imports /\ f = Complete(f.parts[1])
           /\ Pure(f, f.parts[1])
<1>1. PICK id \in 0 .. imports : f = Complete(id)
  BY DEF Whole
<1>. QED
  BY <1>1, CompleteFiles

LEMMA WrittenType ==
    ASSUME NEW n \in Nat, NEW f \in FileOf(n), NEW i \in 1 .. Parts, NEW id \in 0 .. n
    PROVE  Written(f, i, id) \in FileOf(n)
<1>1. Parts \in Nat /\ f.parts \in Seq(0 .. n) /\ Len(f.parts) \in Nat
      /\ Len(f.parts) <= Parts
  BY DeploymentAssumption DEF FileOf
<1>. DEFINE At(k) == IF k = i THEN id ELSE IF k <= Len(f.parts) THEN f.parts[k] ELSE Hole
            end == IF i > Len(f.parts) THEN i ELSE Len(f.parts)
<1>2. end \in 0 .. Parts
  BY <1>1
<1>3. \A k \in 1 .. end : At(k) \in 0 .. n
  BY <1>1 DEF Hole
<1>. HIDE DEF At, end
<1>4. [k \in 1 .. end |-> At(k)] \in Seq(0 .. n) /\ Len([k \in 1 .. end |-> At(k)]) = end
  BY <1>1, <1>2, <1>3
<1>5. Written(f, i, id) = [exists |-> TRUE, parts |-> [k \in 1 .. end |-> At(k)]]
  BY DEF Written, At, end
<1>. QED
  BY <1>1, <1>2, <1>4, <1>5 DEF FileOf

(* A writer that has written all there is goes on with the next part.      *)
LEMMA WrittenOnward ==
    ASSUME NEW n \in Nat, NEW f \in FileOf(n), NEW i \in 1 .. Parts, NEW id \in 0 .. n,
           Pure(f, id), Len(f.parts) = i - 1
    PROVE  LET w == Written(f, i, id)
           IN  w.exists /\ Len(w.parts) = i /\ Pure(w, id) /\ Begins(f, w)
<1>1. Parts \in Nat /\ f.parts \in Seq(0 .. n)
  BY DeploymentAssumption DEF FileOf
<1>2. \A k \in 1 .. i : k # i => k \in DOMAIN f.parts /\ f.parts[k] = id
  BY <1>1 DEF Pure
<1>. DEFINE At(k) == IF k = i THEN id ELSE IF k <= Len(f.parts) THEN f.parts[k] ELSE Hole
            end == IF i > Len(f.parts) THEN i ELSE Len(f.parts)
<1>3. end = i
  BY <1>1
<1>4. \A k \in 1 .. i : At(k) = id
  BY <1>1, <1>2
<1>. HIDE DEF At, end
<1>5. Written(f, i, id) = [exists |-> TRUE, parts |-> [k \in 1 .. end |-> At(k)]]
  BY DEF Written, At, end
<1>6. [k \in 1 .. i |-> At(k)] \in Seq(0 .. n) /\ Len([k \in 1 .. i |-> At(k)]) = i
  BY <1>1, <1>4
<1>7. Begins(f, Written(f, i, id))
  BY <1>1, <1>2, <1>3, <1>4, <1>5, <1>6 DEF Begins, Pure
<1>. QED
  BY <1>3, <1>4, <1>5, <1>6, <1>7 DEF Pure

(* A part more has been read.                                              *)
LEMMA WithFacts ==
    ASSUME NEW n \in Nat, NEW f \in FileOf(n), NEW g \in FileOf(n),
           Len(f.parts) < Len(g.parts)
    PROVE  LET w == With(f, g.parts[Len(f.parts) + 1])
           IN  /\ w \in FileOf(n) /\ w.exists /\ w.parts # <<>>
               /\ Begins(f, g) => Begins(w, g)
               /\ \A id : Pure(f, id) /\ Pure(g, id) => Pure(w, id)
<1>. DEFINE next == Len(f.parts) + 1
            part == g.parts[next]
            w == With(f, part)
<1>1. /\ f.parts \in Seq(0 .. n) /\ g.parts \in Seq(0 .. n) /\ Parts \in Nat
      /\ Len(g.parts) <= Parts /\ next \in DOMAIN g.parts /\ part \in 0 .. n
  BY DeploymentAssumption DEF FileOf
<1>2. w = [exists |-> TRUE, parts |-> Append(f.parts, part)]
  BY DEF With
<1>3. /\ w.parts \in Seq(0 .. n) /\ Len(w.parts) = next /\ DOMAIN w.parts = 1 .. next
      /\ w.parts[next] = part /\ \A k \in 1 .. Len(f.parts) : w.parts[k] = f.parts[k]
  BY <1>1, <1>2
<1>4. w \in FileOf(n) /\ w.exists /\ w.parts # <<>>
  BY <1>1, <1>2, <1>3 DEF FileOf
<1>5. /\ DOMAIN f.parts = 1 .. Len(f.parts) /\ DOMAIN g.parts = 1 .. Len(g.parts)
      /\ Len(f.parts) \in Nat /\ Len(g.parts) \in Nat
  BY <1>1
<1>. HIDE DEF w, part
<1>6. \A k \in DOMAIN w.parts : k = next \/ k \in DOMAIN f.parts
  BY <1>3, <1>5
<1>7. \A k \in DOMAIN f.parts : w.parts[k] = f.parts[k]
  BY <1>3, <1>5
<1>8. Len(w.parts) <= Len(g.parts) /\ next \in DOMAIN g.parts
  BY <1>1, <1>3, <1>5
<1>9. ASSUME Begins(f, g) PROVE Begins(w, g)
  <2>1. \A k \in DOMAIN w.parts : w.parts[k] = g.parts[k]
    BY <1>3, <1>6, <1>7, <1>9 DEF Begins, part
  <2>. QED
    BY <1>8, <2>1 DEF Begins
<1>10. ASSUME NEW id, Pure(f, id), Pure(g, id) PROVE Pure(w, id)
  BY <1>3, <1>6, <1>7, <1>8, <1>10 DEF Pure, part
<1>. QED
  BY <1>4, <1>9, <1>10 DEF w, part

(* Who has read as much as there is has all of it.                         *)
LEMMA ReadToTheEnd ==
    ASSUME NEW n \in Nat, NEW f \in FileOf(n), NEW g \in FileOf(n), NEW id,
           Pure(g, id), Begins(f, g), f.exists, Len(f.parts) = Parts
    PROVE  f = Complete(id) /\ g = Complete(id)
<1>1. Parts \in Nat /\ Parts > 1 /\ f.parts \in Seq(0 .. n) /\ g.parts \in Seq(0 .. n)
      /\ Len(g.parts) = Parts
  BY DeploymentAssumption DEF FileOf, Begins
<1>2. g.exists
  BY <1>1 DEF FileOf
<1>3. Pure(f, id)
  BY <1>1 DEF Pure, Begins
<1>. QED
  BY <1>1, <1>2, <1>3, PureAndLong

-----------------------------------------------------------------------------
(* The inductive invariant.                                                *)

(* Only the operator runs preprocess, and only pods serve; nothing is      *)
(* written before Open.                                                    *)
JobsRight ==
    /\ pc[Operator] \notin {"load_ch", "serving"}
    /\ \A p \in DOMAIN pc :
          /\ pc[p] = "open" => job[p].part = 0
          /\ pc[p] \in {"open", "write"} /\ job[p].file = Hierarchy => p = Operator

HasGraph(p) == pc[p] \in {"load_ch", "serving"}

(* As long as no two imports have met, graph.bin is the beginning of one   *)
(* network, as much of it as its one writer, if it still runs, has written. *)
OneWriter ==
    ~overlapped =>
        /\ \A p, q \in DOMAIN pc : Writing(p) /\ Writing(q) => p = q
        /\ \E id \in 0 .. imports : Pure(disk[Graph], id)
        /\ \A p \in DOMAIN pc : Writing(p) =>
              /\ disk[Graph].exists /\ Len(disk[Graph].parts) = job[p].part
              /\ Pure(disk[Graph], job[p].id)

(* Who reads it, and has not seen it emptied, has read how it begins, and  *)
(* a server has the whole of one network.                                  *)
CopiesRight ==
    ~overlapped =>
        \A p \in DOMAIN pc \ straddled :
            /\ pc[p] = "load" => Begins(loaded[p][Graph], disk[Graph])
            /\ HasGraph(p) => Whole(loaded[p][Graph])

(* All there is of f is of the network that is on the volume.              *)
OfNetwork(f) == f.parts # <<>> => Whole(disk[Graph]) /\ Pure(f, disk[Graph].parts[1])

(* As long as no whole graph has been written over either, nor emptied     *)
(* while it was read for the hierarchy, what is on the volume, what        *)
(* preprocess writes and what is loaded are of one network.                *)
OneNetwork ==
    ~overlapped /\ ~replaced /\ Operator \notin straddled =>
        /\ OfNetwork(disk[Hierarchy])
        /\ pc[Operator] \in {"open", "write"} /\ job[Operator].file = Hierarchy =>
              Whole(disk[Graph]) /\ job[Operator].id = disk[Graph].parts[1]
        /\ pc[Operator] = "write" /\ job[Operator].file = Hierarchy =>
              disk[Hierarchy].exists /\ Len(disk[Hierarchy].parts) = job[Operator].part
        /\ \A p \in DOMAIN pc : OfNetwork(loaded[p][Hierarchy])
        /\ \A p \in DOMAIN pc \ straddled : HasGraph(p) => loaded[p][Graph] = disk[Graph]

IInv == TypeOK /\ JobsRight /\ OneWriter /\ CopiesRight /\ OneNetwork

-----------------------------------------------------------------------------
(* Types.                                                                  *)

LEMMA FileStateIs == FileState = FileOf(imports)
BY DEF FileState, FileOf

LEMMA JobsHaveType ==
    ASSUME NEW n \in Nat PROVE NoJob \in JobOf(n) /\ \A j \in JobOf(n) : j \in JobOf(n + 1)
BY DeploymentAssumption DEF NoJob, JobOf, Files, Hole

LEMMA NetworkOfType ==
    ASSUME imports \in Nat, NEW f PROVE NetworkOf(f) \in 0 .. imports
BY WholeFacts DEF NetworkOf, Hole

LEMMA NothingType ==
    ASSUME imports \in Nat
    PROVE  Nothing \in [Files -> FileState] /\ \A f \in Files : Nothing[f].parts = <<>>
BY EmptyFiles, FileStateIs DEF Nothing, Files, Absent

(* What TypeOK says of one process.                                        *)
ProcessOK(p) ==
    /\ pc[p] \in States
    /\ job[p] \in JobOf(imports)
    /\ pc[p] \notin {"open", "write"} => job[p] = NoJob
    /\ loaded[p] \in [Files -> FileState]
    /\ pc[p] \notin {"load", "load_ch", "serving"} => loaded[p] = Nothing
    /\ pc[p] \in {"load_ch", "serving"} => MayParse(loaded[p][Graph])
    /\ pc[p] = "serving" /\ setup.ch => MayParse(loaded[p][Hierarchy])

LEMMA ProcessTypes == ASSUME TypeOK PROVE \A p \in DOMAIN pc : ProcessOK(p)
BY DEF TypeOK, ProcessOK, States, JobOf, Files

(* A step of one process, with no import.                                  *)
LEMMA StepType ==
    ASSUME TypeOK, NEW p \in DOMAIN pc, UNCHANGED <<setup, imports>>,
           extract' \in BOOLEAN, crashes' \in 0 .. MaxCrashes,
           DOMAIN disk' = Files, \A f \in Files : disk'[f] \in FileState,
           DOMAIN pc' = DOMAIN pc, DOMAIN job' = DOMAIN job, DOMAIN loaded' = DOMAIN loaded,
           straddled' \subseteq DOMAIN pc,
           \A q \in DOMAIN pc : q # p =>
               pc'[q] = pc[q] /\ job'[q] = job[q] /\ loaded'[q] = loaded[q],
           ProcessOK(p)'
    PROVE  TypeOK'
<1>1. FileState' = FileState /\ Pods' = Pods
  BY DEF FileState, Pods
<1>2. \A q \in DOMAIN pc : ProcessOK(q)'
  BY <1>1, ProcessTypes DEF ProcessOK
<1>3. \A q \in DOMAIN pc' :
          /\ pc'[q] \in States
          /\ job'[q] \in JobOf(imports')
          /\ pc'[q] \notin {"open", "write"} => job'[q] = NoJob
          /\ loaded'[q] \in [Files -> FileState']
          /\ pc'[q] \notin {"load", "load_ch", "serving"} => loaded'[q] = Nothing
          /\ pc'[q] \in {"load_ch", "serving"} => MayParse(loaded'[q][Graph])
          /\ pc'[q] = "serving" /\ setup'.ch => MayParse(loaded'[q][Hierarchy])
  BY <1>2 DEF ProcessOK
<1>. QED
  BY <1>1, <1>3 DEF TypeOK, States, JobOf, Files

(* A process goes to where it has neither a job nor anything in memory.    *)
LEMMA MoveType ==
    ASSUME TypeOK, NEW p \in DOMAIN pc, NEW state \in States,
           state \notin {"open", "write", "load_ch", "serving"},
           pc' = [pc EXCEPT ![p] = state],
           job' = job \/ job' = [job EXCEPT ![p] = NoJob],
           pc[p] \notin {"open", "write"} \/ job' = [job EXCEPT ![p] = NoJob],
           loaded' = loaded \/ loaded' = [loaded EXCEPT ![p] = Nothing],
           pc[p] \notin {"load", "load_ch", "serving"} \/ loaded' = [loaded EXCEPT ![p] = Nothing],
           straddled' \subseteq straddled,
           crashes' \in 0 .. MaxCrashes, UNCHANGED <<setup, extract, disk, imports>>
    PROVE  TypeOK'
<1>1. ProcessOK(p) /\ FileState' = FileState /\ imports \in Nat
  BY ProcessTypes DEF TypeOK, FileState
<1>2. pc'[p] = state /\ job'[p] = NoJob /\ loaded'[p] = Nothing
  BY <1>1 DEF TypeOK, ProcessOK
<1>3. ProcessOK(p)'
  BY <1>1, <1>2, JobsHaveType, NothingType DEF ProcessOK
<1>. QED
  BY <1>3, StepType DEF TypeOK, Files

LEMMA OpenType == ASSUME TypeOK, NEW p \in DOMAIN pc, Open(p) PROVE TypeOK'
<1>1. Empty \in FileState /\ ProcessOK(p) /\ FileState' = FileState
  BY EmptyFiles, FileStateIs, ProcessTypes DEF TypeOK, FileState, Open
<1>2. job[p].file \in Files
  BY <1>1 DEF ProcessOK, JobOf
<1>3. DOMAIN disk' = Files /\ \A f \in Files : disk'[f] \in FileState
  BY <1>1, <1>2 DEF TypeOK, Open, Files
<1>4. ProcessOK(p)'
  BY <1>1 DEF ProcessOK, Open, TypeOK, States
<1>. QED
  BY <1>3, <1>4, StepType DEF TypeOK, Open, Reading

LEMMA WriteType == ASSUME TypeOK, NEW p \in DOMAIN pc, Write(p) PROVE TypeOK'
<1>. DEFINE j == job[p]
            part == j.part + 1
            w == Written(disk[j.file], part, j.id)
<1>1. /\ Parts \in Nat /\ imports \in Nat /\ part \in 1 .. Parts /\ j.file \in Files
      /\ j.id \in 0 .. imports /\ ProcessOK(p)
  <2>1. ProcessOK(p)
    BY ProcessTypes
  <2>. QED
    BY <2>1, DeploymentAssumption DEF TypeOK, ProcessOK, JobOf
<1>2. w \in FileOf(imports)
  BY <1>1, WrittenType, FileStateIs DEF TypeOK, Files
<1>3. disk' = [disk EXCEPT ![j.file] = w]
  BY DEF Write
<1>4. FileState' = FileState /\ DOMAIN disk' = Files /\ \A f \in Files : disk'[f] \in FileState
  <2>1. FileState' = FileState
    BY DEF FileState, Write
  <2>. HIDE DEF w
  <2>. QED
    BY <1>1, <1>2, <1>3, <2>1, FileStateIs DEF TypeOK, Files
<1>5. pc'[p] \in {"write", "start", "check"}
  BY DEF Write, TypeOK
<1>6. job'[p] \in JobOf(imports) /\ (pc'[p] # "write" => job'[p] = NoJob)
  <2>1. CASE part = Parts
    BY <1>1, <2>1, JobsHaveType DEF Write, TypeOK
  <2>2. CASE part # Parts
    <3>1. [j EXCEPT !.part = part] \in JobOf(imports)
      BY <1>1, <2>2 DEF JobOf, ProcessOK
    <3>2. pc'[p] = "write" /\ job'[p] = [j EXCEPT !.part = part]
      BY <2>2 DEF Write, TypeOK
    <3>. QED
      BY <3>1, <3>2
  <2>. QED
    BY <2>1, <2>2
<1>7. ProcessOK(p)'
  BY <1>1, <1>4, <1>5, <1>6 DEF ProcessOK, Write, States
<1>. QED
  BY <1>4, <1>7, StepType DEF TypeOK, Write, ghosts

LEMMA ParseType == ASSUME TypeOK, NEW p \in DOMAIN pc, Parse(p) PROVE TypeOK'
<1>1. \A f \in FileState : f \in FileState'
  BY MoreImports DEF TypeOK, Parse, FileState, FileOf
<1>2. job'[p] \in JobOf(imports') /\ \A q \in DOMAIN job : job[q] \in JobOf(imports')
  BY DeploymentAssumption, JobsHaveType DEF TypeOK, Parse, JobOf, Files
<1>3. ASSUME NEW q \in DOMAIN pc PROVE loaded[q] \in [Files -> FileState']
  <2>1. loaded[q] \in [Files -> FileState]
    BY DEF TypeOK, Files
  <2>. QED
    BY <1>1, <2>1
<1>4. /\ UNCHANGED <<setup, extract, disk, loaded, crashes, straddled>>
      /\ DOMAIN pc' = DOMAIN pc /\ DOMAIN job' = DOMAIN job /\ imports' \in Nat
      /\ Pods' = Pods
  BY DEF Parse, ghosts, TypeOK, Pods
<1>5. \A q \in DOMAIN pc : ProcessOK(q)'
  <2>. SUFFICES ASSUME NEW q \in DOMAIN pc PROVE ProcessOK(q)'
    OBVIOUS
  <2>1. ProcessOK(q)
    BY ProcessTypes
  <2>2. q # p => pc'[q] = pc[q] /\ job'[q] = job[q]
    BY DEF Parse, TypeOK
  <2>3. pc[p] = "parse" /\ pc'[p] = "open"
    BY DEF Parse, TypeOK
  <2>4. job'[q] \in JobOf(imports')
    BY <1>2, <2>2 DEF TypeOK
  <2>. QED
    BY <1>3, <1>4, <2>1, <2>2, <2>3, <2>4 DEF ProcessOK, States
<1>6. \A f \in Files : disk'[f] \in FileState'
  BY <1>1, <1>4 DEF TypeOK, Files
<1>7. \A q \in DOMAIN pc' :
          /\ pc'[q] \in States
          /\ job'[q] \in JobOf(imports')
          /\ pc'[q] \notin {"open", "write"} => job'[q] = NoJob
          /\ loaded'[q] \in [Files -> FileState']
          /\ pc'[q] \notin {"load", "load_ch", "serving"} => loaded'[q] = Nothing
          /\ pc'[q] \in {"load_ch", "serving"} => MayParse(loaded'[q][Graph])
          /\ pc'[q] = "serving" /\ setup'.ch => MayParse(loaded'[q][Hierarchy])
  BY <1>4, <1>5 DEF ProcessOK
<1>. QED
  BY <1>4, <1>6, <1>7 DEF TypeOK, States, JobOf, Files

(* A part more in memory.                                                  *)
LEMMA ReadFacts ==
    ASSUME TypeOK, NEW p \in DOMAIN pc, Read(p)
    PROVE  LET f == Wanted(p)
               w == With(loaded[p][f], disk[f].parts[Len(loaded[p][f].parts) + 1])
           IN  /\ loaded'[p][f] = w /\ w \in FileState
               /\ loaded'[p] \in [Files -> FileState]
               /\ \A g \in Files : g # f => loaded'[p][g] = loaded[p][g]
               /\ Begins(loaded[p][f], disk[f]) => Begins(w, disk[f])
               /\ \A id : Pure(loaded[p][f], id) /\ Pure(disk[f], id) => Pure(w, id)
<1>. DEFINE f == Wanted(p)
            w == With(loaded[p][f], disk[f].parts[Len(loaded[p][f].parts) + 1])
<1>1. /\ f \in Files /\ imports \in Nat /\ loaded[p] \in [Files -> FileState]
      /\ loaded[p][f] \in FileOf(imports) /\ disk[f] \in FileOf(imports)
  BY FileStateIs, ProcessTypes DEF TypeOK, Wanted, Files, ProcessOK
<1>2. Len(loaded[p][f].parts) < Len(disk[f].parts)
  BY <1>1 DEF Read, AtEnd, FileOf
<1>3. /\ w \in FileState
      /\ Begins(loaded[p][f], disk[f]) => Begins(w, disk[f])
      /\ \A id : Pure(loaded[p][f], id) /\ Pure(disk[f], id) => Pure(w, id)
  BY <1>1, <1>2, WithFacts, FileStateIs
<1>4. loaded'[p] = [loaded[p] EXCEPT ![f] = w]
  BY DEF Read, TypeOK
<1>. HIDE DEF w, f
<1>5. /\ loaded'[p][f] = w /\ loaded'[p] \in [Files -> FileState]
      /\ \A g \in Files : g # f => loaded'[p][g] = loaded[p][g]
  BY <1>1, <1>3, <1>4
<1>. QED
  BY <1>3, <1>5 DEF w, f

LEMMA ReadType == ASSUME TypeOK, NEW p \in DOMAIN pc, Read(p) PROVE TypeOK'
<1>1. ProcessOK(p) /\ FileState' = FileState /\ pc[p] \in {"load", "load_ch"}
  BY ProcessTypes DEF FileState, Read
<1>2. loaded'[p] \in [Files -> FileState]
      /\ \A g \in Files : g # Wanted(p) => loaded'[p][g] = loaded[p][g]
  BY ReadFacts
<1>3. pc[p] = "load_ch" => loaded'[p][Graph] = loaded[p][Graph]
  BY <1>2, FilesDiffer DEF Wanted, Files
<1>4. ProcessOK(p)'
  BY <1>1, <1>2, <1>3 DEF ProcessOK, Read
<1>. QED
  BY <1>4, StepType DEF TypeOK, Read, Files, ghosts

LEMMA LoadType == ASSUME TypeOK, NEW p \in Pods, Load(p) PROVE TypeOK'
<1>1. p \in DOMAIN pc /\ ProcessOK(p) /\ FileState' = FileState /\ imports \in Nat
  BY ProcessTypes DEF TypeOK, FileState, Load
<1>2. CASE Exit(p)
  BY <1>1, <1>2, MoveType DEF Load, Exit, TypeOK, States
<1>3. CASE MayParse(loaded[p][Graph]) /\ UNCHANGED <<loaded, straddled>>
           /\ pc' = [pc EXCEPT ![p] = IF setup.ch THEN "load_ch" ELSE "serving"]
  <2>1. ProcessOK(p)'
    BY <1>1, <1>3 DEF ProcessOK, Load, TypeOK, States
  <2>. QED
    BY <1>1, <1>3, <2>1, StepType DEF TypeOK, Load, Files
<1>. QED
  BY <1>2, <1>3 DEF Load

LEMMA LoadHierarchyType == ASSUME TypeOK, NEW p \in Pods, LoadHierarchy(p) PROVE TypeOK'
<1>1. p \in DOMAIN pc /\ ProcessOK(p) /\ FileState' = FileState /\ imports \in Nat
  BY ProcessTypes DEF TypeOK, FileState, LoadHierarchy
<1>2. CASE Exit(p)
  BY <1>1, <1>2, MoveType DEF LoadHierarchy, Exit, TypeOK, States
<1>3. CASE MayParse(loaded[p][Hierarchy]) /\ UNCHANGED <<loaded, straddled>>
           /\ pc' = [pc EXCEPT ![p] = "serving"]
  <2>1. ProcessOK(p)'
    BY <1>1, <1>3 DEF ProcessOK, LoadHierarchy, TypeOK, States
  <2>. QED
    BY <1>1, <1>3, <2>1, StepType DEF TypeOK, LoadHierarchy, Files
<1>. QED
  BY <1>2, <1>3 DEF LoadHierarchy

LEMMA BuildType == ASSUME TypeOK, BuildHierarchy PROVE TypeOK'
<1>1. /\ Operator \in DOMAIN pc /\ ProcessOK(Operator) /\ FileState' = FileState
      /\ imports \in Nat
  BY ProcessTypes DEF TypeOK, FileState, BuildHierarchy
<1>2. loaded'[Operator] = Nothing /\ Nothing \in [Files -> FileState]
  BY <1>1, NothingType DEF BuildHierarchy, TypeOK
<1>3. CASE pc' = [pc EXCEPT ![Operator] = "start"] /\ UNCHANGED job
  BY <1>1, <1>3, MoveType DEF BuildHierarchy, TypeOK, States, ghosts
<1>4. CASE pc' = [pc EXCEPT ![Operator] = "open"]
           /\ job' = [job EXCEPT ![Operator] =
                  [file |-> Hierarchy, id |-> NetworkOf(loaded[Operator][Graph]), part |-> 0]]
  <2>1. job'[Operator] \in JobOf(imports)
    BY <1>1, <1>4, NetworkOfType, DeploymentAssumption DEF TypeOK, JobOf, Files
  <2>2. pc'[Operator] = "open"
    BY <1>1, <1>4
  <2>3. ProcessOK(Operator)'
    BY <1>1, <1>2, <2>1, <2>2 DEF ProcessOK, BuildHierarchy, States
  <2>. QED
    BY <1>1, <1>4, <2>3, StepType DEF TypeOK, BuildHierarchy, Files, ghosts
<1>. QED
  BY <1>3, <1>4 DEF BuildHierarchy

LEMMA RestartType == ASSUME TypeOK, RestartPods PROVE TypeOK'
<1>1. FileState' = FileState /\ Pods' = Pods /\ imports \in Nat
  BY DEF RestartPods, FileState, Pods, TypeOK
<1>2. Nothing \in [Files -> FileState]
  BY <1>1, NothingType
<1>3. \A p \in DOMAIN pc : loaded'[p] = Nothing
      /\ (pc[p] \in {"open", "write"} => pc'[p] = pc[p] /\ p = Operator)
      /\ pc'[p] \in States \ {"load_ch", "serving", "load"}
  BY DEF RestartPods, Doing, Importing, TypeOK, Pods, States
<1>4. \A p \in DOMAIN pc : job'[p] = NoJob
  BY <1>3 DEF RestartPods, Doing, Importing, TypeOK
<1>5. NoJob \in JobOf(imports)
  BY <1>1, JobsHaveType
<1>. QED
  BY <1>1, <1>2, <1>3, <1>4, <1>5
  DEF TypeOK, RestartPods, States, Files, JobOf

LEMMA CrashType == ASSUME TypeOK, NEW p \in DOMAIN pc, Crash(p) PROVE TypeOK'
<1>1. crashes' \in 0 .. MaxCrashes
  BY DeploymentAssumption DEF Crash, TypeOK
<1>2. straddled' \subseteq straddled
  BY DEF Crash
<1>. QED
  BY <1>1, <1>2, MoveType DEF Crash, States

(* No step of any process leaves the types.                                *)
LEMMA TypeStep == ASSUME TypeOK, [Next]_vars PROVE TypeOK'
<1>1. Pods \subseteq DOMAIN pc /\ Operator \in DOMAIN pc
  BY DEF TypeOK
<1>2. ASSUME NEW p \in Pods, Enter(p) PROVE TypeOK'
  BY <1>1, <1>2, MoveType DEF Enter, States, TypeOK, ghosts
<1>3. ASSUME NEW p \in Pods, CheckGraph(p) PROVE TypeOK'
  BY <1>1, <1>3, MoveType DEF CheckGraph, States, TypeOK, ghosts
<1>4. ASSUME NEW p \in Pods, StartAgain(p) PROVE TypeOK'
  BY <1>1, <1>4, MoveType DEF StartAgain, States, TypeOK, ghosts
<1>5. ASSUME NEW p \in Pods, ParseFails(p) PROVE TypeOK'
  BY <1>1, <1>5, MoveType DEF ParseFails, States, TypeOK, ghosts
<1>6. CASE PlaceExtract
  BY <1>6 DEF TypeOK, PlaceExtract, Pods, FileState, ghosts
<1>7. CASE ImportByHand
  BY <1>1, <1>7, MoveType DEF ImportByHand, Doing, States, TypeOK, ghosts
<1>8. CASE Preprocess
  BY <1>1, <1>8, MoveType DEF Preprocess, Doing, States, TypeOK, ghosts
<1>9. CASE UNCHANGED vars
  BY <1>9 DEF TypeOK, vars, Pods, FileState, ghosts
<1>. QED
  BY <1>1, <1>2, <1>3, <1>4, <1>5, <1>6, <1>7, <1>8, <1>9, OpenType, WriteType, ParseType,
     ReadType, LoadType, LoadHierarchyType, BuildType, RestartType, CrashType
  DEF Next, Container, ByHand

LEMMA TypeInit == ASSUME Init PROVE TypeOK
<1>1. /\ imports \in Nat /\ Absent \in FileState /\ Nothing \in [Files -> FileState]
      /\ imports = 1 => Complete(1) \in FileState
  BY EmptyFiles, CompleteFiles, FileStateIs, NothingType DEF Init
<1>2. NoJob \in [file : {Graph, Hierarchy}, id : 0 .. imports, part : 0 .. Parts - 1]
  BY <1>1, JobsHaveType DEF JobOf, Files
<1>3. extract \in BOOLEAN /\ crashes \in 0 .. MaxCrashes
  BY DeploymentAssumption DEF Init, IsSetup
<1>. QED
  BY <1>1, <1>2, <1>3 DEF Init, TypeOK, Pods, Files

(* Whoever crashes and whenever: files, jobs and memory stay what they can *)
(* be, only a process that writes has a job, and a server has read the     *)
(* whole length of what it was told to serve.                              *)
THEOREM Typed == Spec => []TypeOK
<1>1. Init => TypeOK
  BY TypeInit
<1>2. TypeOK /\ [Next]_vars => TypeOK'
  BY TypeStep
<1>. QED
  BY <1>1, <1>2, PTL DEF Spec

-----------------------------------------------------------------------------
(* One writer, and one network.                                            *)

Rest == JobsRight /\ OneWriter /\ CopiesRight /\ OneNetwork

LEMMA FilesHaveType ==
    ASSUME TypeOK
    PROVE  /\ imports \in Nat /\ Operator \in DOMAIN pc /\ Operator \notin Pods
           /\ Pods \subseteq DOMAIN pc
           /\ \A f \in Files : disk[f] \in FileOf(imports) /\ disk[f].parts \in Seq(0 .. imports)
           /\ \A p \in DOMAIN pc, f \in Files :
                loaded[p][f] \in FileOf(imports) /\ loaded[p][f].parts \in Seq(0 .. imports)
<1>1. \A p \in DOMAIN pc : loaded[p] \in [Files -> FileState]
  BY DEF TypeOK, Files
<1>. QED
  BY <1>1, FileStateIs, OperatorApart DEF TypeOK, Files, FileOf

(* Nothing read is how any file begins, and of any network.                *)
LEMMA NothingRead ==
    ASSUME TypeOK
    PROVE  Begins(Nothing[Graph], disk[Graph]) /\ Nothing[Hierarchy].parts = <<>>
<1>1. disk[Graph].parts \in Seq(0 .. imports)
  BY FilesHaveType DEF Files
<1>2. Nothing[Graph].parts = <<>> /\ Nothing[Hierarchy].parts = <<>>
  BY NothingType DEF TypeOK, Files
<1>. QED
  BY <1>1, <1>2 DEF Begins

LEMMA BeginsOnward ==
    ASSUME NEW n \in Nat, NEW f \in FileOf(n), NEW g \in FileOf(n), NEW h \in FileOf(n),
           Begins(f, g), Begins(g, h)
    PROVE  Begins(f, h)
<1>1. f.parts \in Seq(0 .. n) /\ g.parts \in Seq(0 .. n) /\ h.parts \in Seq(0 .. n)
  BY DEF FileOf
<1>2. Len(f.parts) \in Nat /\ Len(g.parts) \in Nat /\ Len(h.parts) \in Nat
      /\ DOMAIN f.parts = 1 .. Len(f.parts) /\ DOMAIN g.parts = 1 .. Len(g.parts)
  BY <1>1
<1>3. \A k \in DOMAIN f.parts : k \in DOMAIN g.parts
  BY <1>2 DEF Begins
<1>. QED
  BY <1>2, <1>3 DEF Begins

(* As long as no two imports have met, a copy that parses and has not seen *)
(* graph.bin emptied is all of it, and whole.                              *)
LEMMA CopyIsWhole ==
    ASSUME IInv, ~overlapped, NEW p \in DOMAIN pc \ straddled, pc[p] = "load",
           MayParse(loaded[p][Graph])
    PROVE  /\ Whole(disk[Graph]) /\ loaded[p][Graph] = disk[Graph]
           /\ NetworkOf(loaded[p][Graph]) = disk[Graph].parts[1]
<1>1. PICK id \in 0 .. imports : Pure(disk[Graph], id)
  BY DEF IInv, OneWriter
<1>2. Begins(loaded[p][Graph], disk[Graph])
  BY DEF IInv, CopiesRight
<1>3. loaded[p][Graph] = Complete(id) /\ disk[Graph] = Complete(id)
  BY <1>1, <1>2, FilesHaveType, ReadToTheEnd DEF IInv, MayParse, Files
<1>. QED
  BY <1>3 DEF Whole, NetworkOf

(* While graph.bin is not whole there is nothing of its network yet.       *)
LEMMA NoNetworkYet ==
    ASSUME IInv, ~overlapped, ~replaced, Operator \notin straddled, ~Whole(disk[Graph])
    PROVE  /\ disk[Hierarchy].parts = <<>>
           /\ ~(pc[Operator] \in {"open", "write"} /\ job[Operator].file = Hierarchy)
           /\ \A p \in DOMAIN pc : loaded[p][Hierarchy].parts = <<>>
           /\ \A p \in DOMAIN pc \ straddled : ~HasGraph(p)
<1>1. \A p \in DOMAIN pc \ straddled : HasGraph(p) => Whole(loaded[p][Graph])
  BY DEF IInv, CopiesRight
<1>. QED
  BY <1>1 DEF IInv, OneNetwork, OfNetwork

(* A step after which nobody opens, writes or holds what it did not before. *)
LEMMA QuietStep ==
    ASSUME IInv, UNCHANGED <<setup, disk, imports, overlapped, replaced>>,
           DOMAIN pc' = DOMAIN pc,
           Operator \in straddled => Operator \in straddled',
           \A q \in DOMAIN pc : pc'[q] \in {"open", "write"} =>
               pc'[q] = pc[q] /\ job'[q] = job[q],
           \A q \in DOMAIN pc :
               \/ loaded'[q] = Nothing /\ pc'[q] \notin {"load_ch", "serving"}
               \/ /\ loaded'[q] = loaded[q] /\ pc'[q] = pc[q]
                  /\ q \in straddled => q \in straddled'
    PROVE  Rest'
<1>1. Operator \in DOMAIN pc /\ Begins(Nothing[Graph], disk[Graph])
      /\ Nothing[Hierarchy].parts = <<>>
  BY NothingRead DEF IInv, TypeOK
<1>2. \A f : (Whole(f)' <=> Whole(f)) /\ (OfNetwork(f)' <=> OfNetwork(f))
  BY DEF Whole, OfNetwork
<1>3. JobsRight'
  BY <1>1 DEF IInv, JobsRight
<1>4. OneWriter'
  BY <1>1, <1>2 DEF IInv, OneWriter, Writing
<1>5. CopiesRight'
  <2>. SUFFICES ASSUME ~overlapped', NEW q \in DOMAIN pc, q \notin straddled'
                PROVE  /\ pc'[q] = "load" => Begins(loaded'[q][Graph], disk'[Graph])
                       /\ HasGraph(q)' => Whole(loaded[q][Graph])'
    BY DEF CopiesRight
  <2>1. CASE loaded'[q] = Nothing /\ pc'[q] \notin {"load_ch", "serving"}
    BY <1>1, <2>1 DEF HasGraph
  <2>2. CASE loaded'[q] = loaded[q] /\ pc'[q] = pc[q] /\ q \notin straddled
    <3>1. /\ pc[q] = "load" => Begins(loaded[q][Graph], disk[Graph])
          /\ HasGraph(q) => Whole(loaded[q][Graph])
      BY <2>2 DEF IInv, CopiesRight
    <3>2. HasGraph(q)' <=> HasGraph(q)
      BY <2>2 DEF HasGraph
    <3>. QED
      BY <1>2, <2>2, <3>1, <3>2 DEF Whole
  <2>. QED
    BY <2>1, <2>2
<1>6. OneNetwork'
  <2>. SUFFICES ASSUME ~overlapped', ~replaced', Operator \notin straddled' PROVE OneNetwork'
    BY DEF OneNetwork
  <2>1. ~overlapped /\ ~replaced /\ Operator \notin straddled
    OBVIOUS
  <2>2. /\ OfNetwork(disk[Hierarchy])'
        /\ pc'[Operator] \in {"open", "write"} /\ job'[Operator].file = Hierarchy =>
              Whole(disk[Graph])' /\ job'[Operator].id = disk'[Graph].parts[1]
        /\ pc'[Operator] = "write" /\ job'[Operator].file = Hierarchy =>
              disk'[Hierarchy].exists /\ Len(disk'[Hierarchy].parts) = job'[Operator].part
    BY <1>1, <2>1 DEF IInv, OneNetwork, OfNetwork, Whole
  <2>3. ASSUME NEW q \in DOMAIN pc PROVE OfNetwork(loaded[q][Hierarchy])'
    BY <1>1, <2>1 DEF IInv, OneNetwork, OfNetwork, Whole
  <2>4. ASSUME NEW q \in DOMAIN pc, q \notin straddled', HasGraph(q)'
        PROVE  loaded'[q][Graph] = disk'[Graph]
    <3>1. loaded'[q] = loaded[q] /\ HasGraph(q) /\ q \notin straddled
      BY <2>4 DEF HasGraph
    <3>. QED
      BY <2>1, <3>1 DEF IInv, OneNetwork
  <2>. QED
    BY <2>2, <2>3, <2>4 DEF OneNetwork
<1>. QED
  BY <1>3, <1>4, <1>5, <1>6 DEF Rest

(* What is ended in the middle leaves nothing behind.                      *)
LEMMA ExitKeeps ==
    ASSUME IInv, NEW p \in Pods, Exit(p),
           UNCHANGED <<setup, disk, imports, job, overlapped, replaced>>
    PROVE  Rest'
<1>1. p \in DOMAIN pc /\ Operator \in DOMAIN pc /\ Operator # p /\ DOMAIN loaded = DOMAIN pc
  BY FilesHaveType DEF IInv, TypeOK
<1>2. DOMAIN pc' = DOMAIN pc
      /\ \A q \in DOMAIN pc : pc'[q] = (IF q = p THEN "exited" ELSE pc[q])
                           /\ loaded'[q] = (IF q = p THEN Nothing ELSE loaded[q])
                           /\ (q # p /\ q \in straddled => q \in straddled')
  BY <1>1 DEF Exit
<1>3. \A q \in DOMAIN pc : pc'[q] \in {"open", "write"} => pc'[q] = pc[q] /\ job'[q] = job[q]
  BY <1>2
<1>4. \A q \in DOMAIN pc :
          \/ loaded'[q] = Nothing /\ pc'[q] \notin {"load_ch", "serving"}
          \/ /\ loaded'[q] = loaded[q] /\ pc'[q] = pc[q]
             /\ q \in straddled => q \in straddled'
  BY <1>2
<1>. QED
  BY <1>1, <1>2, <1>3, <1>4, QuietStep

LEMMA ReadKeeps == ASSUME IInv, NEW p \in DOMAIN pc, Read(p) PROVE Rest'
<1>. DEFINE f == Wanted(p)
            w == With(loaded[p][f], disk[f].parts[Len(loaded[p][f].parts) + 1])
<1>1. /\ UNCHANGED <<setup, disk, imports, pc, job, overlapped, replaced, straddled>>
      /\ pc[p] \in {"load", "load_ch"} /\ ~AtEnd(p)
      /\ \A q \in DOMAIN pc : q # p => loaded'[q] = loaded[q]
  BY DEF Read, ghosts, IInv, TypeOK
<1>2. /\ loaded'[p][f] = w
      /\ \A g \in Files : g # f => loaded'[p][g] = loaded[p][g]
      /\ Begins(loaded[p][f], disk[f]) => Begins(w, disk[f])
      /\ \A id : Pure(loaded[p][f], id) /\ Pure(disk[f], id) => Pure(w, id)
  BY ReadFacts DEF IInv
<1>. HIDE DEF w
<1>3. /\ pc[p] = "load" => f = Graph
      /\ pc[p] = "load_ch" => f = Hierarchy
  BY DEF Wanted
<1>4. /\ pc[p] = "load" => loaded'[p][Hierarchy] = loaded[p][Hierarchy]
      /\ pc[p] = "load_ch" => loaded'[p][Graph] = loaded[p][Graph]
  BY <1>2, <1>3, FilesDiffer DEF Files
<1>. HIDE DEF f
<1>5. JobsRight'
  BY <1>1 DEF IInv, JobsRight
<1>6. OneWriter'
  BY <1>1 DEF IInv, OneWriter, Writing
<1>7. CopiesRight'
  <2>. SUFFICES ASSUME ~overlapped', NEW q \in DOMAIN pc, q \notin straddled
                PROVE  /\ pc[q] = "load" => Begins(loaded'[q][Graph], disk[Graph])
                       /\ HasGraph(q) => Whole(loaded[q][Graph])'
    BY <1>1 DEF CopiesRight, HasGraph
  <2>1. /\ pc[q] = "load" => Begins(loaded[q][Graph], disk[Graph])
        /\ HasGraph(q) => Whole(loaded[q][Graph])
    BY <1>1 DEF IInv, CopiesRight
  <2>2. CASE q # p
    BY <1>1, <2>1, <2>2 DEF Whole
  <2>3. CASE q = p
    BY <1>1, <1>2, <1>3, <1>4, <2>1, <2>3 DEF Whole, HasGraph
  <2>. QED
    BY <2>2, <2>3
<1>8. OneNetwork'
  <2>. SUFFICES ASSUME ~overlapped', ~replaced', Operator \notin straddled' PROVE OneNetwork'
    BY DEF OneNetwork
  <2>1. ~overlapped /\ ~replaced /\ Operator \notin straddled
    BY <1>1
  <2>2. ASSUME NEW q \in DOMAIN pc PROVE OfNetwork(loaded[q][Hierarchy])'
    <3>1. CASE q # p \/ pc[p] = "load"
      BY <1>1, <1>4, <2>1, <3>1 DEF IInv, OneNetwork, OfNetwork, Whole
    <3>2. CASE q = p /\ pc[p] = "load_ch"
      <4>1. disk[Hierarchy].parts # <<>>
        <5>1. /\ loaded[p][Hierarchy].parts \in Seq(0 .. imports)
              /\ Len(loaded[p][Hierarchy].parts) < Len(disk[Hierarchy].parts)
              /\ disk[Hierarchy].parts \in Seq(0 .. imports)
          BY <1>1, <3>2, FilesHaveType DEF IInv, AtEnd, Wanted, Files
        <5>. QED
          BY <5>1
      <4>2. Whole(disk[Graph]) /\ Pure(disk[Hierarchy], disk[Graph].parts[1])
        BY <2>1, <4>1 DEF IInv, OneNetwork, OfNetwork
      <4>3. Pure(loaded[p][Hierarchy], disk[Graph].parts[1])
        <5>1. OfNetwork(loaded[p][Hierarchy])
          BY <2>1 DEF IInv, OneNetwork
        <5>2. CASE loaded[p][Hierarchy].parts = <<>>
          BY <5>2 DEF Pure
        <5>. QED
          BY <5>1, <5>2 DEF OfNetwork
      <4>4. Pure(loaded'[p][Hierarchy], disk[Graph].parts[1])
        BY <1>2, <1>3, <3>2, <4>2, <4>3
      <4>. QED
        BY <1>1, <3>2, <4>2, <4>4 DEF OfNetwork, Whole
    <3>. QED
      BY <1>1, <3>1, <3>2
  <2>3. ASSUME NEW q \in DOMAIN pc, q \notin straddled, HasGraph(q)
        PROVE  loaded'[q][Graph] = disk[Graph]
    <3>1. loaded[q][Graph] = disk[Graph]
      BY <2>1, <2>3 DEF IInv, OneNetwork
    <3>. QED
      BY <1>1, <1>4, <2>3, <3>1 DEF HasGraph
  <2>4. OfNetwork(disk[Hierarchy])'
    BY <1>1, <2>1 DEF IInv, OneNetwork, OfNetwork, Whole
  <2>. QED
    BY <1>1, <2>1, <2>2, <2>3, <2>4 DEF IInv, OneNetwork, HasGraph, Whole
<1>. QED
  BY <1>5, <1>6, <1>7, <1>8 DEF Rest

(* A pod that has parsed what it has read goes on; nothing else changes.   *)
LEMMA ServerKeeps ==
    ASSUME IInv, NEW p \in Pods, NEW state \in {"load_ch", "serving"},
           pc' = [pc EXCEPT ![p] = state],
           UNCHANGED <<setup, disk, imports, job, loaded, overlapped, replaced, straddled>>,
           ~overlapped /\ p \notin straddled =>
               /\ Whole(loaded[p][Graph])
               /\ ~replaced /\ Operator \notin straddled => loaded[p][Graph] = disk[Graph]
    PROVE  Rest'
<1>1. Operator \in DOMAIN pc /\ p \in DOMAIN pc /\ p # Operator
  BY FilesHaveType DEF IInv
<1>2. /\ DOMAIN pc' = DOMAIN pc /\ pc'[p] = state
      /\ \A q \in DOMAIN pc : q # p => pc'[q] = pc[q]
  BY <1>1
<1>3. JobsRight'
  BY <1>1, <1>2 DEF IInv, JobsRight
<1>4. OneWriter'
  BY <1>2 DEF IInv, OneWriter, Writing
<1>5. CopiesRight'
  BY <1>2 DEF IInv, CopiesRight, HasGraph, Whole
<1>6. OneNetwork'
  BY <1>1, <1>2 DEF IInv, OneNetwork, HasGraph, Whole, OfNetwork
<1>. QED
  BY <1>3, <1>4, <1>5, <1>6 DEF Rest

LEMMA LoadKeeps == ASSUME IInv, NEW p \in Pods, Load(p) PROVE Rest'
<1>1. p \in DOMAIN pc /\ pc[p] = "load"
      /\ UNCHANGED <<setup, disk, imports, job, overlapped, replaced>>
  BY FilesHaveType DEF IInv, Load
<1>2. CASE Exit(p)
  BY <1>1, <1>2, ExitKeeps
<1>3. CASE MayParse(loaded[p][Graph]) /\ UNCHANGED <<loaded, straddled>>
           /\ pc' = [pc EXCEPT ![p] = IF setup.ch THEN "load_ch" ELSE "serving"]
  BY <1>1, <1>3, CopyIsWhole, ServerKeeps
<1>. QED
  BY <1>2, <1>3 DEF Load

LEMMA LoadHierarchyKeeps == ASSUME IInv, NEW p \in Pods, LoadHierarchy(p) PROVE Rest'
<1>1. p \in DOMAIN pc /\ pc[p] = "load_ch"
      /\ UNCHANGED <<setup, disk, imports, job, overlapped, replaced>>
  BY FilesHaveType DEF IInv, LoadHierarchy
<1>2. CASE Exit(p)
  BY <1>1, <1>2, ExitKeeps
<1>3. CASE pc' = [pc EXCEPT ![p] = "serving"] /\ UNCHANGED <<loaded, straddled>>
  <2>1. ~overlapped /\ p \notin straddled =>
          /\ Whole(loaded[p][Graph])
          /\ ~replaced /\ Operator \notin straddled => loaded[p][Graph] = disk[Graph]
    BY <1>1 DEF IInv, CopiesRight, OneNetwork, HasGraph
  <2>. QED
    BY <1>1, <1>3, <2>1, ServerKeeps
<1>. QED
  BY <1>2, <1>3 DEF LoadHierarchy

LEMMA ParseKeeps == ASSUME IInv, NEW p \in DOMAIN pc, Parse(p) PROVE Rest'
<1>1. /\ Operator \in DOMAIN pc /\ DOMAIN pc' = DOMAIN pc /\ DOMAIN job = DOMAIN pc
      /\ imports \in Nat /\ imports' = imports + 1
  BY DEF IInv, TypeOK, Parse
<1>2. \A f : Whole(f) => Whole(f)'
  BY <1>1 DEF Whole
<1>3. /\ \A q \in DOMAIN pc : q # p => pc'[q] = pc[q] /\ job'[q] = job[q]
      /\ pc[p] = "parse" /\ pc'[p] = "open" /\ job'[p].part = 0 /\ job'[p].file = Graph
      /\ UNCHANGED <<setup, disk, loaded, overlapped, replaced, straddled>>
  BY <1>1 DEF Parse, ghosts
<1>4. JobsRight'
  BY <1>1, <1>3, FilesDiffer DEF IInv, JobsRight
<1>5. OneWriter'
  BY <1>1, <1>3 DEF IInv, OneWriter, Writing
<1>6. CopiesRight'
  BY <1>1, <1>2, <1>3 DEF IInv, CopiesRight, HasGraph, Whole
<1>7. OneNetwork'
  BY <1>1, <1>2, <1>3, FilesDiffer DEF IInv, OneNetwork, HasGraph, Whole, OfNetwork
<1>. QED
  BY <1>4, <1>5, <1>6, <1>7 DEF Rest

LEMMA BuildHierarchyKeeps == ASSUME IInv, BuildHierarchy PROVE Rest'
<1>1. /\ Operator \in DOMAIN pc /\ pc[Operator] = "load"
      /\ DOMAIN job = DOMAIN pc /\ DOMAIN loaded = DOMAIN pc
      /\ UNCHANGED <<setup, disk, imports, overlapped, replaced, straddled>>
      /\ loaded' = [loaded EXCEPT ![Operator] = Nothing]
  BY DEF IInv, TypeOK, BuildHierarchy, ghosts
<1>2. CASE pc' = [pc EXCEPT ![Operator] = "start"] /\ UNCHANGED job
  BY <1>1, <1>2, QuietStep
<1>3. CASE MayParse(loaded[Operator][Graph])
           /\ pc' = [pc EXCEPT ![Operator] = "open"]
           /\ job' = [job EXCEPT ![Operator] =
                  [file |-> Hierarchy, id |-> NetworkOf(loaded[Operator][Graph]), part |-> 0]]
  <2>1. /\ DOMAIN pc' = DOMAIN pc /\ pc'[Operator] = "open" /\ loaded'[Operator] = Nothing
        /\ job'[Operator].file = Hierarchy /\ job'[Operator].part = 0
        /\ job'[Operator].id = NetworkOf(loaded[Operator][Graph])
        /\ \A q \in DOMAIN pc : q # Operator =>
               pc'[q] = pc[q] /\ job'[q] = job[q] /\ loaded'[q] = loaded[q]
    BY <1>1, <1>3
  <2>2. Nothing[Hierarchy].parts = <<>>
    BY NothingRead DEF IInv
  <2>3. JobsRight'
    BY <1>1, <2>1 DEF IInv, JobsRight
  <2>4. OneWriter'
    BY <1>1, <2>1, FilesDiffer DEF IInv, OneWriter, Writing
  <2>5. CopiesRight'
    BY <1>1, <2>1 DEF IInv, CopiesRight, HasGraph, Whole
  <2>6. OneNetwork'
    <3>. SUFFICES ASSUME ~overlapped', ~replaced', Operator \notin straddled' PROVE OneNetwork'
      BY DEF OneNetwork
    <3>1. ~overlapped /\ ~replaced /\ Operator \notin straddled
      BY <1>1
    <3>2. Whole(disk[Graph]) /\ job'[Operator].id = disk[Graph].parts[1]
      BY <1>1, <1>3, <2>1, <3>1, CopyIsWhole
    <3>. QED
      BY <1>1, <2>1, <2>2, <3>1, <3>2 DEF IInv, OneNetwork, HasGraph, Whole, OfNetwork
  <2>. QED
    BY <2>3, <2>4, <2>5, <2>6 DEF Rest
<1>. QED
  BY <1>2, <1>3 DEF BuildHierarchy

LEMMA OpenKeeps == ASSUME IInv, NEW p \in DOMAIN pc, Open(p) PROVE Rest'
<1>1. /\ Operator \in DOMAIN pc /\ DOMAIN pc' = DOMAIN pc /\ imports \in Nat
      /\ DOMAIN disk = Files /\ job[p].file \in Files
  BY DEF IInv, TypeOK, Open, Files
<1>2. /\ \A q \in DOMAIN pc : q # p => pc'[q] = pc[q]
      /\ pc[p] = "open" /\ pc'[p] = "write" /\ job[p].part = 0
      /\ disk'[job[p].file] = Empty
      /\ \A f \in Files : f # job[p].file => disk'[f] = disk[f]
      /\ UNCHANGED <<setup, imports, job, loaded>>
  BY <1>1 DEF Open, IInv, JobsRight
<1>3. Empty.exists /\ Empty.parts = <<>> /\ Len(Empty.parts) = 0 /\ \A id : Pure(Empty, id)
  BY DEF Empty, Pure
<1>4. JobsRight'
  BY <1>1, <1>2 DEF IInv, JobsRight
<1>5. \A q \in DOMAIN pc : HasGraph(q)' <=> HasGraph(q)
  BY <1>1, <1>2 DEF HasGraph
<1>6. CASE job[p].file = Graph
  <2>1. disk'[Graph] = Empty /\ disk'[Hierarchy] = disk[Hierarchy]
        /\ straddled' = straddled \cup Reading
    BY <1>1, <1>2, <1>6, FilesDiffer DEF Files, Open
  <2>2. ~overlapped' => ~overlapped /\ \A q \in DOMAIN pc : ~Writing(q)
    BY <1>6 DEF Open
  <2>3. ~replaced' => ~replaced /\ ~Whole(disk[Graph])
    BY <1>6 DEF Open
  <2>4. OneWriter'
    <3>. SUFFICES ASSUME ~overlapped' PROVE OneWriter'
      BY DEF OneWriter
    <3>1. \A q \in DOMAIN pc : Writing(q)' => q = p
      BY <1>2, <2>2 DEF Writing
    <3>2. Pure(disk'[Graph], 0) /\ 0 \in 0 .. imports
      BY <1>1, <1>3, <2>1
    <3>3. \A q \in DOMAIN pc : Writing(q)' =>
            /\ disk'[Graph].exists /\ Len(disk'[Graph].parts) = job'[q].part
            /\ Pure(disk'[Graph], job'[q].id)
      BY <1>2, <1>3, <2>1, <3>1
    <3>. QED
      BY <1>1, <1>2, <3>1, <3>2, <3>3 DEF OneWriter
  <2>5. CopiesRight'
    <3>. SUFFICES ASSUME ~overlapped', NEW q \in DOMAIN pc, q \notin straddled'
                  PROVE  /\ pc'[q] = "load" => Begins(loaded[q][Graph], Empty)
                         /\ HasGraph(q) => Whole(loaded[q][Graph])
      BY <1>1, <1>2, <1>5, <2>1 DEF CopiesRight, Whole
    <3>1. q \notin straddled /\ q \notin Reading /\ ~overlapped
      BY <2>1, <2>2
    <3>2. pc'[q] = "load" => loaded[q][Graph].parts = <<>>
      BY <1>2, <3>1 DEF Reading
    <3>3. HasGraph(q) => Whole(loaded[q][Graph])
      BY <3>1 DEF IInv, CopiesRight
    <3>. QED
      BY <1>3, <3>2, <3>3 DEF Begins
  <2>6. OneNetwork'
    <3>. SUFFICES ASSUME ~overlapped', ~replaced', Operator \notin straddled' PROVE OneNetwork'
      BY DEF OneNetwork
    <3>1. ~overlapped /\ ~replaced /\ Operator \notin straddled /\ ~Whole(disk[Graph])
      BY <2>1, <2>2, <2>3
    <3>2. /\ disk'[Hierarchy].parts = <<>>
          /\ ~(pc[Operator] \in {"open", "write"} /\ job[Operator].file = Hierarchy)
          /\ \A q \in DOMAIN pc : loaded'[q][Hierarchy].parts = <<>>
          /\ \A q \in DOMAIN pc \ straddled : ~HasGraph(q)
      BY <1>2, <2>1, <3>1, NoNetworkYet
    <3>3. ~(pc'[Operator] \in {"open", "write"} /\ job'[Operator].file = Hierarchy)
      BY <1>1, <1>2, <1>6, <3>2, FilesDiffer
    <3>. QED
      BY <1>1, <1>5, <2>1, <3>2, <3>3 DEF OneNetwork, OfNetwork
  <2>. QED
    BY <1>4, <2>4, <2>5, <2>6 DEF Rest
<1>7. CASE job[p].file = Hierarchy
  <2>1. /\ p = Operator /\ disk'[Graph] = disk[Graph] /\ disk'[Hierarchy] = Empty
        /\ (~overlapped' => ~overlapped) /\ (~replaced' => ~replaced) /\ straddled' = straddled
    BY <1>1, <1>2, <1>7, FilesDiffer DEF Files, IInv, JobsRight, TypeOK, Open
  <2>2. \A q \in DOMAIN pc : Writing(q)' <=> Writing(q)
    BY <1>1, <1>2, <1>7, FilesDiffer DEF Writing
  <2>3. OneWriter'
    BY <1>1, <1>2, <2>1, <2>2 DEF IInv, OneWriter
  <2>4. CopiesRight'
    BY <1>1, <1>2, <1>5, <2>1 DEF IInv, CopiesRight, Whole
  <2>5. OneNetwork'
    BY <1>1, <1>2, <1>3, <1>5, <2>1 DEF IInv, OneNetwork, OfNetwork, Whole
  <2>. QED
    BY <1>4, <2>3, <2>4, <2>5 DEF Rest
<1>. QED
  BY <1>1, <1>6, <1>7 DEF Files

(* A writer has not written the whole of its file yet.                     *)
LEMMA NotYetWhole ==
    ASSUME IInv, ~overlapped, NEW p \in DOMAIN pc, Writing(p) PROVE ~Whole(disk[Graph])
<1>1. Len(disk[Graph].parts) = job[p].part /\ job[p].part \in 0 .. Parts - 1
  BY DEF IInv, OneWriter, TypeOK
<1>. QED
  BY <1>1, WholeFacts, DeploymentAssumption DEF IInv, TypeOK

LEMMA WriteKeeps == ASSUME IInv, NEW p \in DOMAIN pc, Write(p) PROVE Rest'
<1>. DEFINE j == job[p]
            part == j.part + 1
            w == Written(disk[j.file], part, j.id)
<1>1. /\ Operator \in DOMAIN pc /\ DOMAIN pc' = DOMAIN pc /\ DOMAIN job = DOMAIN pc
      /\ imports \in Nat /\ DOMAIN disk = Files /\ j.file \in Files /\ j.id \in 0 .. imports
      /\ part \in 1 .. Parts /\ disk[j.file] \in FileOf(imports)
  BY DeploymentAssumption, FileStateIs DEF IInv, TypeOK, Write, Files
<1>2. pc[p] = "write" /\ UNCHANGED <<setup, imports, loaded, overlapped, replaced, straddled>>
      /\ \A q \in DOMAIN pc : q # p => pc'[q] = pc[q] /\ job'[q] = job[q]
  BY <1>1 DEF Write, ghosts
<1>3. /\ pc'[p] \in {"write", "start", "check"}
      /\ pc'[p] = "write" => job'[p] = [j EXCEPT !.part = part]
  BY <1>1 DEF Write
<1>4. disk'[j.file] = w /\ \A f \in Files : f # j.file => disk'[f] = disk[f]
  BY <1>1 DEF Write
<1>5. pc'[p] = "write" =>
        /\ job'[p].part = part /\ job'[p].id = j.id /\ job'[p].file = j.file
  BY <1>1, <1>3 DEF IInv, TypeOK
<1>6. JobsRight'
  BY <1>1, <1>2, <1>3, <1>5 DEF IInv, JobsRight
<1>7. ASSUME Pure(disk[j.file], j.id), Len(disk[j.file].parts) = j.part
      PROVE  w.exists /\ Len(w.parts) = part /\ Pure(w, j.id) /\ Begins(disk[j.file], w)
  <2>1. Len(disk[j.file].parts) = part - 1
    BY <1>1, <1>7 DEF IInv, TypeOK
  <2>. QED
    BY <1>1, <1>7, <2>1, WrittenOnward
<1>8. w \in FileOf(imports)
  BY <1>1, WrittenType
<1>. HIDE DEF w
<1>9. \A q \in DOMAIN pc : (HasGraph(q)' <=> HasGraph(q)) /\ (pc'[q] = "load" <=> pc[q] = "load")
  BY <1>2, <1>3 DEF HasGraph
<1>10. CASE j.file = Graph
  <2>1. Writing(p) /\ disk'[Graph] = w /\ disk'[Hierarchy] = disk[Hierarchy]
    BY <1>1, <1>2, <1>4, <1>10, FilesDiffer DEF Files, Writing
  <2>2. ~overlapped =>
          /\ w.exists /\ Len(w.parts) = part /\ Pure(w, j.id) /\ Begins(disk[Graph], w)
          /\ ~Whole(disk[Graph])
    BY <1>7, <1>10, <2>1, NotYetWhole DEF IInv, OneWriter
  <2>3. OneWriter'
    <3>. SUFFICES ASSUME ~overlapped' PROVE OneWriter'
      BY DEF OneWriter
    <3>1. \A q \in DOMAIN pc : Writing(q)' => q = p
      BY <1>2, <2>1 DEF IInv, OneWriter, Writing
    <3>2. Writing(p)' =>
            /\ disk'[Graph].exists /\ Len(disk'[Graph].parts) = job'[p].part
            /\ Pure(disk'[Graph], job'[p].id)
      BY <1>2, <1>5, <2>1, <2>2 DEF Writing
    <3>. QED
      BY <1>1, <1>2, <2>1, <2>2, <3>1, <3>2 DEF OneWriter
  <2>4. CopiesRight'
    <3>. SUFFICES ASSUME ~overlapped, NEW q \in DOMAIN pc, q \notin straddled
                  PROVE  /\ pc[q] = "load" => Begins(loaded[q][Graph], w)
                         /\ HasGraph(q) => Whole(loaded[q][Graph])
      BY <1>1, <1>2, <1>9, <2>1 DEF CopiesRight, Whole
    <3>1. /\ pc[q] = "load" => Begins(loaded[q][Graph], disk[Graph])
          /\ HasGraph(q) => Whole(loaded[q][Graph])
      BY DEF IInv, CopiesRight
    <3>2. loaded[q][Graph] \in FileOf(imports) /\ disk[Graph] \in FileOf(imports)
      BY FilesHaveType DEF IInv, Files
    <3>. QED
      BY <1>1, <1>8, <2>2, <3>1, <3>2, BeginsOnward
  <2>5. OneNetwork'
    <3>. SUFFICES ASSUME ~overlapped', ~replaced', Operator \notin straddled' PROVE OneNetwork'
      BY DEF OneNetwork
    <3>1. ~overlapped /\ ~replaced /\ Operator \notin straddled /\ ~Whole(disk[Graph])
      BY <1>2, <2>2
    <3>2. /\ disk'[Hierarchy].parts = <<>>
          /\ ~(pc[Operator] \in {"open", "write"} /\ job[Operator].file = Hierarchy)
          /\ \A q \in DOMAIN pc : loaded'[q][Hierarchy].parts = <<>>
          /\ \A q \in DOMAIN pc \ straddled : ~HasGraph(q)
      BY <1>2, <2>1, <3>1, NoNetworkYet
    <3>3. ~(pc'[Operator] \in {"open", "write"} /\ job'[Operator].file = Hierarchy)
      BY <1>1, <1>2, <1>3, <1>5, <1>10, <3>2, FilesDiffer
    <3>. QED
      BY <1>1, <1>2, <1>9, <3>2, <3>3 DEF OneNetwork, OfNetwork
  <2>. QED
    BY <1>6, <2>3, <2>4, <2>5 DEF Rest
<1>11. CASE j.file = Hierarchy
  <2>1. p = Operator /\ disk'[Graph] = disk[Graph] /\ disk'[Hierarchy] = w
    BY <1>1, <1>2, <1>4, <1>11, FilesDiffer DEF Files, IInv, JobsRight
  <2>2. \A q \in DOMAIN pc : Writing(q)' => Writing(q) /\ q # p
    BY <1>1, <1>2, <1>5, <1>11, FilesDiffer DEF Writing
  <2>3. OneWriter'
    BY <1>1, <1>2, <2>1, <2>2 DEF IInv, OneWriter
  <2>4. CopiesRight'
    BY <1>1, <1>2, <1>9, <2>1 DEF IInv, CopiesRight, Whole
  <2>5. OneNetwork'
    <3>. SUFFICES ASSUME ~overlapped', ~replaced', Operator \notin straddled' PROVE OneNetwork'
      BY DEF OneNetwork
    <3>1. ~overlapped /\ ~replaced /\ Operator \notin straddled
          /\ pc[Operator] = "write" /\ job[Operator].file = Hierarchy
      BY <1>2, <1>11, <2>1
    <3>2. Whole(disk[Graph]) /\ j.id = disk[Graph].parts[1]
          /\ Len(disk[Hierarchy].parts) = j.part
      BY <2>1, <3>1 DEF IInv, OneNetwork
    <3>3. Pure(disk[Hierarchy], j.id)
      BY <1>1, <1>11, <3>1, <3>2 DEF IInv, OneNetwork, OfNetwork, Pure, FileOf
    <3>4. w.exists /\ Len(w.parts) = part /\ Pure(w, j.id)
      BY <1>7, <1>11, <3>2, <3>3
    <3>5. (Whole(disk[Graph]))'
      BY <1>2, <2>1, <3>2 DEF Whole
    <3>6. OfNetwork(disk[Hierarchy])'
      BY <2>1, <3>2, <3>4, <3>5 DEF OfNetwork
    <3>7. \A q \in DOMAIN pc : OfNetwork(loaded[q][Hierarchy])'
      BY <1>2, <2>1, <3>1, <3>5 DEF IInv, OneNetwork, OfNetwork
    <3>8. \A q \in DOMAIN pc \ straddled : HasGraph(q) => loaded[q][Graph] = disk[Graph]
      BY <3>1 DEF IInv, OneNetwork
    <3>. QED
      BY <1>1, <1>2, <1>3, <1>5, <1>9, <2>1, <3>2, <3>4, <3>5, <3>6, <3>7, <3>8 DEF OneNetwork
  <2>. QED
    BY <1>6, <2>3, <2>4, <2>5 DEF Rest
<1>. QED
  BY <1>1, <1>10, <1>11 DEF Files

LEMMA IInvStep == ASSUME IInv, [Next]_vars PROVE IInv'
<1>1. TypeOK'
  BY TypeStep DEF IInv
<1>2. /\ Pods \subseteq DOMAIN pc /\ Operator \in DOMAIN pc /\ Operator \notin Pods
      /\ DOMAIN job = DOMAIN pc /\ DOMAIN loaded = DOMAIN pc
      /\ \A p \in DOMAIN pc : pc[p] \notin {"load", "load_ch", "serving"} => loaded[p] = Nothing
  BY OperatorApart DEF IInv, TypeOK
<1>3. ASSUME NEW p \in Pods, Enter(p) PROVE Rest'
  BY <1>2, <1>3, QuietStep DEF Enter, ghosts
<1>4. ASSUME NEW p \in Pods, CheckGraph(p) PROVE Rest'
  BY <1>2, <1>4, QuietStep DEF CheckGraph, ghosts
<1>5. ASSUME NEW p \in Pods, StartAgain(p) \/ ParseFails(p) PROVE Rest'
  BY <1>2, <1>5, QuietStep DEF StartAgain, ParseFails, ghosts
<1>6. ASSUME PlaceExtract PROVE Rest'
  BY <1>6, QuietStep DEF PlaceExtract, ghosts
<1>7. ASSUME ImportByHand \/ Preprocess PROVE Rest'
  BY <1>2, <1>7, QuietStep DEF ImportByHand, Preprocess, Doing, ghosts
<1>8. ASSUME RestartPods PROVE Rest'
  <2>1. /\ \A q \in DOMAIN pc : loaded'[q] = Nothing /\ pc'[q] \notin {"load_ch", "serving"}
        /\ \A q \in DOMAIN pc : pc'[q] \in {"open", "write"} => q = Operator
        /\ UNCHANGED job /\ pc'[Operator] = pc[Operator]
    BY <1>2, <1>8 DEF RestartPods, Doing
  <2>2. DOMAIN pc' = DOMAIN pc /\ UNCHANGED <<setup, disk, imports, overlapped, replaced>>
        /\ straddled' = straddled \ Pods
    BY <1>8 DEF RestartPods
  <2>. QED
    BY <1>2, <2>1, <2>2, QuietStep
<1>9. ASSUME NEW p \in DOMAIN pc, Crash(p) PROVE Rest'
  <2>1. \A q \in DOMAIN pc : pc'[q] \in {"open", "write"} => pc'[q] = pc[q] /\ job'[q] = job[q]
    BY <1>2, <1>9 DEF Crash
  <2>2. \A q \in DOMAIN pc :
          \/ loaded'[q] = Nothing /\ pc'[q] \notin {"load_ch", "serving"}
          \/ /\ loaded'[q] = loaded[q] /\ pc'[q] = pc[q]
             /\ q \in straddled => q \in straddled'
    BY <1>2, <1>9 DEF Crash
  <2>3. DOMAIN pc' = DOMAIN pc /\ UNCHANGED <<setup, disk, imports, overlapped, replaced>>
        /\ (Operator \in straddled => Operator \in straddled')
    BY <1>2, <1>9 DEF Crash
  <2>. QED
    BY <2>1, <2>2, <2>3, QuietStep
<1>10. ASSUME UNCHANGED vars PROVE Rest'
  BY <1>10, QuietStep DEF vars, ghosts
<1>11. Rest'
  BY <1>2, <1>3, <1>4, <1>5, <1>6, <1>7, <1>8, <1>9, <1>10, ParseKeeps, OpenKeeps, WriteKeeps,
     ReadKeeps, LoadKeeps, LoadHierarchyKeeps, BuildHierarchyKeeps
  DEF Next, Container, ByHand
<1>. QED
  BY <1>1, <1>11 DEF IInv, Rest

LEMMA IInvInit == ASSUME Init PROVE IInv
<1>1. TypeOK
  BY TypeInit
<1>2. \A p \in DOMAIN pc : pc[p] = "start" /\ loaded[p] = Nothing
  BY DEF Init
<1>3. Operator \in DOMAIN pc /\ Nothing[Hierarchy].parts = <<>>
  BY <1>1, NothingRead DEF TypeOK
<1>4. JobsRight
  BY <1>2, <1>3 DEF JobsRight
<1>5. imports \in Nat /\ disk[Graph] = disk[Hierarchy]
      /\ (disk[Graph] = Absent \/ (disk[Graph] = Complete(1) /\ imports = 1))
  BY DEF Init
<1>6. Pure(Absent, 0) /\ Absent.parts = <<>>
  BY DEF Pure, Absent
<1>7. imports = 1 => Pure(Complete(1), 1) /\ Complete(1).parts[1] = 1 /\ Whole(Complete(1))
  BY CompleteFiles DEF Whole
<1>8. OneWriter
  BY <1>2, <1>5, <1>6, <1>7 DEF OneWriter, Writing
<1>9. CopiesRight
  BY <1>2 DEF CopiesRight, HasGraph
<1>10. OneNetwork
  BY <1>2, <1>3, <1>5, <1>6, <1>7 DEF OneNetwork, HasGraph, OfNetwork
<1>. QED
  BY <1>1, <1>4, <1>8, <1>9, <1>10 DEF IInv

(* Who may write a file when, and what is in it and in memory: at every    *)
(* step of the entrypoint, of import, preprocess and serve, and after      *)
(* every crash.                                                            *)
THEOREM InductiveInvariant == Spec => []IInv
<1>1. Init => IInv
  BY IInvInit
<1>2. IInv /\ [Next]_vars => IInv'
  BY IInvStep
<1>. QED
  BY <1>1, <1>2, PTL DEF Spec

(* However many pods there are, however many parts a file has, whatever    *)
(* stops and whenever, a server that is up answers from the whole of one   *)
(* network, though it reads a file that others may be writing: unless two  *)
(* imports wrote graph.bin at once, or it was emptied while this server    *)
(* read it.  With --ch it answers from the hierarchy of that network,      *)
(* unless a whole graph was written over, or emptied while preprocess read *)
(* it.                                                                     *)
THEOREM OneNetworkServed == Spec => []ServesOneNetwork
<1>1. ASSUME IInv PROVE ServesOneNetwork
  <2>. SUFFICES ASSUME NEW p \in Pods, pc[p] = "serving", ~overlapped, p \notin straddled
                PROVE  /\ Whole(loaded[p][Graph])
                       /\ setup.ch /\ ~replaced /\ Operator \notin straddled =>
                             loaded[p][Hierarchy] = loaded[p][Graph]
    BY DEF ServesOneNetwork
  <2>1. p \in DOMAIN pc
    BY <1>1, FilesHaveType DEF IInv
  <2>2. Whole(loaded[p][Graph])
    BY <1>1, <2>1 DEF IInv, CopiesRight, HasGraph
  <2>3. ASSUME setup.ch, ~replaced, Operator \notin straddled
        PROVE  loaded[p][Hierarchy] = loaded[p][Graph]
    <3>1. loaded[p][Graph] = disk[Graph] /\ OfNetwork(loaded[p][Hierarchy])
      BY <1>1, <2>1, <2>3 DEF IInv, OneNetwork, HasGraph
    <3>2. MayParse(loaded[p][Hierarchy]) /\ Parts > 1
      BY <1>1, <2>1, <2>3, DeploymentAssumption DEF IInv, TypeOK
    <3>3. loaded[p][Hierarchy].parts # <<>>
      BY <3>2 DEF MayParse
    <3>4. Pure(loaded[p][Hierarchy], disk[Graph].parts[1])
      BY <3>1, <3>3 DEF OfNetwork
    <3>5. loaded[p][Hierarchy] = Complete(disk[Graph].parts[1])
      BY <1>1, <2>1, <3>2, <3>4, FilesHaveType, PureAndLong DEF IInv, MayParse, Files
    <3>. QED
      BY <1>1, <2>2, <3>1, <3>5, FilesHaveType, WholeFacts DEF IInv
  <2>. QED
    BY <2>2, <2>3
<1>. QED
  BY <1>1, InductiveInvariant, PTL

-----------------------------------------------------------------------------
(* A graph is written once.                                                *)

Alone == Cardinality(Pods) = 1 /\ "import" \notin Commands

(* Then the operator never imports, and the pod does so only where there   *)
(* is no graph.bin.                                                        *)
LoneImport ==
    Alone =>
        /\ plan \in Seq(Commands) /\ ~overlapped
        /\ pc[Operator] # "parse"
        /\ pc[Operator] \in {"load", "open", "write"} => plan # <<>>
        /\ pc[Operator] \in {"open", "write"} => job[Operator].file = Hierarchy
        /\ \A p \in Pods : pc[p] \in {"parse", "open"} => ~disk[Graph].exists

LEMMA LonePod ==
    ASSUME TypeOK, Alone, NEW p \in Pods, NEW q \in Pods PROVE p = q
<1>1. IsFiniteSet(Pods)
  BY DeploymentAssumption DEF TypeOK, IsSetup, Pods
<1>. QED
  BY <1>1, FS_Singleton DEF Alone

LEMMA LoneInit == ASSUME Init PROVE LoneImport
<1>1. setup.plan \in Seq({"place", "import", "preprocess", "restart"})
  BY DeploymentAssumption DEF Init, IsSetup
<1>2. setup.plan \in Seq(Commands)
  BY <1>1 DEF Commands
<1>3. Operator \in DOMAIN pc /\ Pods \subseteq DOMAIN pc /\ \A p \in DOMAIN pc : pc[p] = "start"
  BY DEF Init, Pods
<1>. QED
  BY <1>2, <1>3 DEF Init, LoneImport

LEMMA PlanShrinks == ASSUME NEW S, NEW s \in Seq(S), s # <<>> PROVE Head(s) \in S /\ Tail(s) \in Seq(S)
OBVIOUS

LEMMA LoneStep == ASSUME IInv, LoneImport, [Next]_vars PROVE LoneImport'
<1>. SUFFICES ASSUME Alone' PROVE LoneImport'
  BY DEF LoneImport
<1>1. UNCHANGED setup
  BY DEF Next, vars, Container, ByHand, Enter, Parse, ParseFails, Open, Write, CheckGraph, Read,
     Load, LoadHierarchy, StartAgain, PlaceExtract, ImportByHand, Preprocess, BuildHierarchy,
     RestartPods, Crash
<1>2. /\ Alone /\ Pods' = Pods /\ Commands' = Commands
      /\ Operator \in DOMAIN pc /\ Operator \notin Pods /\ DOMAIN pc = Pods \cup {Operator}
      /\ DOMAIN job = DOMAIN pc /\ DOMAIN disk = Files
  BY <1>1, OperatorApart DEF Alone, Pods, Commands, IInv, TypeOK, Files
<1>3. /\ plan \in Seq(Commands) /\ ~overlapped /\ pc[Operator] # "parse"
      /\ pc[Operator] \in {"load", "open", "write"} => plan # <<>>
      /\ pc[Operator] \in {"open", "write"} => job[Operator].file = Hierarchy
      /\ \A p \in Pods : pc[p] \in {"parse", "open"} => ~disk[Graph].exists
  BY <1>2 DEF LoneImport
<1>4. ASSUME NEW p \in Pods, Enter(p) PROVE LoneImport'
  BY <1>2, <1>3, <1>4 DEF Enter, LoneImport, ghosts
<1>5. ASSUME NEW p \in Pods, Parse(p) PROVE LoneImport'
  BY <1>2, <1>3, <1>5 DEF Parse, LoneImport, ghosts
<1>6. ASSUME NEW p \in Pods, Open(p) PROVE LoneImport'
  <2>1. job[p].file = Graph
    BY <1>2, <1>6 DEF Open, IInv, JobsRight, TypeOK
  <2>2. \A q \in DOMAIN pc : ~Writing(q)
    BY <1>2, <1>3, <1>6, LonePod, FilesDiffer DEF Open, Writing, IInv
  <2>3. \A q \in Pods : pc'[q] \notin {"parse", "open"}
    BY <1>2, <1>6, LonePod DEF Open, IInv
  <2>. QED
    BY <1>2, <1>3, <1>6, <2>2, <2>3 DEF Open, LoneImport
<1>7. ASSUME NEW p \in Pods, Write(p) PROVE LoneImport'
  <2>1. \A q \in Pods : pc'[q] \notin {"parse", "open"}
    BY <1>2, <1>7, LonePod DEF Write, IInv
  <2>2. pc'[Operator] = pc[Operator] /\ job'[Operator] = job[Operator] /\ UNCHANGED <<plan, overlapped>>
    BY <1>2, <1>7 DEF Write, ghosts
  <2>. QED
    BY <1>2, <1>3, <2>1, <2>2 DEF LoneImport
<1>8. ASSUME NEW p \in Pods, CheckGraph(p) \/ StartAgain(p) \/ ParseFails(p) PROVE LoneImport'
  BY <1>2, <1>3, <1>8 DEF CheckGraph, StartAgain, ParseFails, LoneImport, ghosts
<1>9. ASSUME NEW p \in Pods, Load(p) \/ LoadHierarchy(p) PROVE LoneImport'
  BY <1>2, <1>3, <1>9 DEF Load, LoadHierarchy, Exit, LoneImport
<1>10. ASSUME NEW p \in DOMAIN pc, Read(p) PROVE LoneImport'
  BY <1>2, <1>3, <1>10 DEF Read, LoneImport, ghosts
<1>11. ASSUME BuildHierarchy PROVE LoneImport'
  BY <1>2, <1>3, <1>11 DEF BuildHierarchy, LoneImport, ghosts
<1>12. ASSUME PlaceExtract \/ RestartPods PROVE LoneImport'
  BY <1>2, <1>3, <1>12, PlanShrinks DEF PlaceExtract, RestartPods, Doing, LoneImport, ghosts
<1>13. ~ImportByHand
  BY <1>2, <1>3, PlanShrinks DEF ImportByHand, Doing, Alone
<1>14. ASSUME Preprocess PROVE LoneImport'
  BY <1>2, <1>3, <1>14 DEF Preprocess, Doing, LoneImport, ghosts
<1>15. ASSUME Open(Operator) PROVE LoneImport'
  BY <1>2, <1>3, <1>15, FilesDiffer DEF Open, LoneImport, Files, ghosts
<1>16. ASSUME Write(Operator) PROVE LoneImport'
  <2>1. disk'[Graph] = disk[Graph] /\ plan' \in Seq(Commands)
    BY <1>2, <1>3, <1>16, FilesDiffer, PlanShrinks DEF Write, Files
  <2>2. pc'[Operator] = "write" => plan' = plan /\ job'[Operator].file = Hierarchy
    BY <1>2, <1>3, <1>16 DEF Write, IInv, TypeOK
  <2>3. \A q \in Pods : pc'[q] = pc[q]
    BY <1>2, <1>16 DEF Write
  <2>4. pc'[Operator] \in {"write", "start"} /\ UNCHANGED overlapped
    BY <1>2, <1>16 DEF Write, ghosts
  <2>. QED
    BY <1>2, <1>3, <1>16, <2>1, <2>2, <2>3, <2>4 DEF Write, LoneImport
<1>17. ASSUME NEW p \in DOMAIN pc, Crash(p) PROVE LoneImport'
  BY <1>2, <1>3, <1>17 DEF Crash, LoneImport
<1>18. ASSUME UNCHANGED vars PROVE LoneImport'
  BY <1>2, <1>3, <1>18 DEF vars, LoneImport, ghosts
<1>19. ~Parse(Operator)
  BY <1>3 DEF Parse
<1>. QED
  BY <1>2, <1>4, <1>5, <1>6, <1>7, <1>8, <1>9, <1>10, <1>11, <1>12, <1>13, <1>14, <1>15, <1>16,
     <1>17, <1>18, <1>19
  DEF Next, Container, ByHand

(* No step touches a graph that is whole.                                  *)
LEMMA GraphStays ==
    ASSUME IInv, LoneImport, [Next]_vars, Alone, Whole(disk[Graph])
    PROVE  disk'[Graph] = disk[Graph]
<1>1. /\ Operator \in DOMAIN pc /\ Pods \subseteq DOMAIN pc /\ DOMAIN disk = Files
      /\ imports \in Nat /\ \A p \in DOMAIN pc : job[p].file \in Files
  BY DEF IInv, TypeOK, Files
<1>2. disk[Graph].exists /\ ~overlapped
  BY <1>1, WholeFacts DEF LoneImport
<1>3. ASSUME NEW p \in DOMAIN pc, Open(p) PROVE disk'[Graph] = disk[Graph]
  <2>1. job[p].file # Graph
    BY <1>1, <1>2, <1>3, FilesDiffer DEF Open, LoneImport, IInv, TypeOK
  <2>. QED
    BY <1>1, <1>3, <2>1 DEF Open
<1>4. ASSUME NEW p \in DOMAIN pc, Write(p) PROVE disk'[Graph] = disk[Graph]
  <2>1. job[p].file # Graph
    BY <1>2, <1>4, NotYetWhole DEF Write, Writing
  <2>. QED
    BY <1>1, <1>4, <2>1 DEF Write
<1>. QED
  BY <1>1, <1>3, <1>4
  DEF Next, vars, Container, ByHand, Enter, Parse, ParseFails, CheckGraph, Read, Load,
      LoadHierarchy, StartAgain, PlaceExtract, ImportByHand, Preprocess, BuildHierarchy,
      RestartPods, Crash

(* Where a single pod serves and nobody imports by hand, a graph.bin that  *)
(* is whole is never touched, whatever crashes and however often.          *)
THEOREM NeverWrittenAgain == Spec => WrittenOnce
<1>1. Init => LoneImport
  BY LoneInit
<1>2. IInv /\ LoneImport /\ [Next]_vars => LoneImport'
  BY LoneStep
<1>3. IInv /\ LoneImport /\ [Next]_vars =>
        [Cardinality(Pods) = 1 /\ "import" \notin Commands /\ Whole(disk[Graph])
            => disk'[Graph] = disk[Graph]]_vars
  BY GraphStays DEF Alone
<1>. QED
  BY <1>1, <1>2, <1>3, InductiveInvariant, PTL DEF Spec, WrittenOnce
=================================================================================
