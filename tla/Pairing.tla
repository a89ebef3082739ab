------------------------------- MODULE Pairing -------------------------------
(***************************************************************************)
(* pkg/studypipeline/pipeline.go and inventory.go: what kind of material a *)
(* resource is, and which solution belongs to which task.  The plan (Build)*)
(* and the inventory (BuildInventory) pair the same resources each in its  *)
(* own way: the plan gives a task the first solution that fits and is      *)
(* still free, the inventory pairs a sheet only if one solution fits.      *)
(*                                                                         *)
(* A pass over the sorted resources is one step per resource.  Abstracted: *)
(* a text is the set of the markers it contains; a name's number is 0 if   *)
(* it has none or one of zeros only, as both are the empty string after    *)
(* the zeros are trimmed; identifiers, titles, reasons and confidence of a *)
(* group are left out.                                                     *)
(***************************************************************************)
EXTENDS Integers, Sequences

CONSTANTS Ids, Sections, NoSection,
          Materials,  \* the resources by section and name, as the plan sorts them
          Nodes       \* the resources by section, name and id, as the inventory does

VARIABLES linked,  \* materials the plan has passed
          link,    \* the position of a task's solution, 0 without
          used,    \* usedSolutions of linkTasks
          grouped, \* nodes the inventory has passed
          group,   \* positions of a sheet's candidates; of its solution, if it is one
          paired   \* usedSolutions of buildInventoryTaskGroups

vars == <<linked, link, used, grouped, group, paired>>

(* What normalize leaves of a text is searched for.                        *)
Markers == {"solution", "not a task", "task", "script", "slide", "reference", "interaction"}
Resource == [id : Ids, number : Nat, section : Sections \cup {NoSection}, pdf : BOOLEAN,
             marks : SUBSET Markers,   \* of its name, section and file type
             typed : SUBSET Markers]   \* of the same with the resource's type

TaskLike(r) == "task" \in r.marks /\ "not a task" \notin r.marks

Kind(r) ==
    IF "solution" \in r.marks THEN "solution"
    ELSE IF TaskLike(r) THEN "task"
    ELSE IF "script" \in r.marks THEN "script"
    ELSE IF "slide" \in r.marks \/ r.pdf THEN "slide"
    ELSE "other"

Bucket(r) ==
    IF Kind(r) \in {"task", "solution"} THEN "task_group"
    ELSE IF "reference" \in r.typed THEN "reference"
    ELSE IF "interaction" \in r.typed THEN "interaction"
    ELSE IF Kind(r) \in {"script", "slide"} THEN "lecture_material"
    ELSE "unknown"

IsSheet(r) == Bucket(r) = "task_group" /\ Kind(r) # "solution"

SameSection(t, s) == s.section # NoSection /\ s.section = t.section

(* bestSolution, matchingSolutionCandidates: a task with a number takes a  *)
(* solution with this number, of whichever section; one without takes a    *)
(* solution of its section, whatever number that has.                      *)
Fits(t, s) == Kind(s) = "solution" /\ IF t.number # 0 THEN s.number = t.number ELSE SameSection(t, s)

Free(list, i, taken) == {j \in 1..Len(list) : Fits(list[i], list[j]) /\ list[j].id \notin taken}

Init ==
    /\ linked = 0 /\ link = [i \in 1..Len(Materials) |-> 0] /\ used = {}
    /\ grouped = 0 /\ group = [i \in 1..Len(Nodes) |-> {}] /\ paired = {}

SkipMaterial ==
    /\ linked < Len(Materials) /\ Kind(Materials[linked + 1]) # "task"
    /\ linked' = linked + 1
    /\ UNCHANGED <<link, used, grouped, group, paired>>

LinkTask ==
    LET i == linked + 1
        free == Free(Materials, i, used)
    IN  /\ linked < Len(Materials) /\ Kind(Materials[i]) = "task"
        /\ linked' = i
        /\ \/ free = {} /\ UNCHANGED <<link, used>>
           \/ \E j \in free :
                  /\ \A k \in free : j <= k
                  /\ link' = [link EXCEPT ![i] = j]
                  /\ used' = used \cup {Materials[j].id}
        /\ UNCHANGED <<grouped, group, paired>>

SkipNode ==
    /\ grouped < Len(Nodes) /\ ~IsSheet(Nodes[grouped + 1])
    /\ grouped' = grouped + 1
    /\ UNCHANGED <<linked, link, used, group, paired>>

(* Of several solutions of its section a sheet without a number takes none.*)
Candidates(i) ==
    LET free == Free(Nodes, i, paired)
    IN  IF Nodes[i].number # 0 \/ \E j \in free : free = {j} THEN free ELSE {}

GroupSheet ==
    LET i == grouped + 1
    IN  /\ grouped < Len(Nodes) /\ IsSheet(Nodes[i])
        /\ grouped' = i
        /\ group' = [group EXCEPT ![i] = Candidates(i)]
        /\ paired' = paired \cup {Nodes[j].id : j \in {k \in Candidates(i) : Candidates(i) = {k}}}
        /\ UNCHANGED <<linked, link, used>>

Next == SkipMaterial \/ LinkTask \/ SkipNode \/ GroupSheet

Spec == Init /\ [][Next]_vars

-----------------------------------------------------------------------------
(* What is told of a finished pass *)

Linked == {i \in 1..linked : link[i] # 0}
TaskLinks == {i \in 1..linked : Kind(Materials[i]) = "task"}

Pairs(i) == \E j \in group[i] : group[i] = {j}
PairedGroups == {i \in 1..grouped : Pairs(i)}
TaskGroups == {i \in 1..grouped : IsSheet(Nodes[i])}

-----------------------------------------------------------------------------
(* Properties *)

(* A solution belongs to one task only: no two links, and no two paired    *)
(* groups, have a solution of the same identifier.                         *)
SolutionsAreLinkedOnce ==
    /\ \A i, k \in Linked : Materials[link[i]].id = Materials[link[k]].id => i = k
    /\ \A i, k \in PairedGroups : \A j \in group[i], l \in group[k] : Nodes[j].id = Nodes[l].id => i = k

Taken(i, id) == \E k \in 1..(i - 1) : link[k] # 0 /\ Materials[link[k]].id = id
TakenOfGroups(i, id) == \E k \in 1..(i - 1), j \in 1..Len(Nodes) : group[k] = {j} /\ Nodes[j].id = id

(* The plan is greedy: a task has the first solution that fits and that no *)
(* earlier task has, and misses one only if earlier tasks have all that    *)
(* fit.                                                                    *)
PlanIsGreedy ==
    \A i \in TaskLinks :
        /\ link[i] # 0 => Fits(Materials[i], Materials[link[i]]) /\ ~Taken(i, Materials[link[i]].id)
        /\ \A j \in 1..Len(Materials) :
               Fits(Materials[i], Materials[j]) /\ (link[i] = 0 \/ j < link[i]) => Taken(i, Materials[j].id)

Fitting(i) == {j \in 1..Len(Nodes) : Fits(Nodes[i], Nodes[j]) /\ ~TakenOfGroups(i, Nodes[j].id)}
AllOrNone(i, candidates, fitting) ==
    \/ candidates = fitting
    \/ candidates = {} /\ Nodes[i].number = 0 /\ ~\E j \in fitting : fitting = {j}

(* The inventory leaves no choice to chance: a paired solution is the only *)
(* one that fits and is in no earlier pair; an ambiguous group has all     *)
(* such solutions, and takes none of them from a later sheet; only a sheet *)
(* without a number misses one although several fit.                       *)
InventoryIsCareful == \A i \in TaskGroups : AllOrNone(i, group[i], Fitting(i))
=============================================================================
