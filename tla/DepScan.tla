------------------------------ MODULE DepScan ------------------------------
(***************************************************************************)
(* The compilation order of a multi-file build                             *)
(* (src/driver/dep_scan.rs: resolve_compilation_order): a table from       *)
(* modules to the files that define them, the in-degrees of the file graph *)
(* and Kahn's algorithm with a first-in first-out queue.  Names are        *)
(* compared in lower case before they get here.                            *)
(***************************************************************************)
EXTENDS Integers, Sequences, FiniteSets, Functions

CONSTANTS
  N,         \* files, numbered as on the command line from 0
  Modules,
  Projects   \* [defines, uses]: what scan_file found in each file

Files == 0..(N - 1)

ASSUME ProjectsAssumption ==
  /\ N \in Nat
  /\ Projects \subseteq [defines : [Files -> SUBSET Modules],
                         uses : [Files -> SUBSET Modules]]
  /\ \A p \in Projects, i \in Files : IsFiniteSet(p.uses[i])

VARIABLES
  project,
  module_to_file,
  in_degree,
  queue, order,
  next,        \* the file whose definitions are entered next
  result       \* "scanning", then "none" while at work

vars == <<project, module_to_file, in_degree, queue, order, next, result>>

Init ==
  /\ project = [defines |-> [i \in Files |-> {}], uses |-> [i \in Files |-> {}]]
  /\ module_to_file = [m \in {} |-> 0]
  /\ in_degree = [i \in Files |-> 0]
  /\ queue = << >> /\ order = << >>
  /\ next = 0
  /\ result = "scanning"

-----------------------------------------------------------------------------
\* Every file was scanned: resolve_compilation_order begins.
Resolve(p) ==
  /\ result = "scanning"
  /\ project' = p /\ result' = "none"
  /\ UNCHANGED <<module_to_file, in_degree, queue, order, next>>

\* The definitions of file i, none of which an earlier file may have.
Define(i) ==
  LET new == project.defines[i] IN
  /\ result = "none" /\ next = i
  /\ IF new \cap DOMAIN module_to_file # {}
     THEN result' = "duplicate" /\ UNCHANGED <<module_to_file, next>>
     ELSE /\ module_to_file' =
               [m \in DOMAIN module_to_file \cup new |->
                  IF m \in new THEN i ELSE module_to_file[m]]
          /\ next' = i + 1
          /\ UNCHANGED result
  /\ UNCHANGED <<project, in_degree, queue, order>>

\* How often file i stands in dependents[j]: once for each module of j that it
\* uses, and never in its own list.
Edges(i, j) ==
  IF i = j THEN 0
  ELSE Cardinality({m \in project.uses[i] \cap DOMAIN module_to_file :
                      module_to_file[m] = j})

\* Mutant: several modules of one file count once.
InDegreeOnce(i) == Cardinality({j \in Files : Edges(i, j) > 0})

InDegree(i) == Cardinality({m \in project.uses[i] \cap DOMAIN module_to_file :
                              module_to_file[m] # i})

\* The files of s by their numbers: k-th comes the one with k files up to it.
Ascending(s) ==
  [k \in 1..Cardinality(s) |-> CHOOSE i \in s : Cardinality({j \in s : j <= i}) = k]

\* In-degrees from the complete table, and the files without dependences.
Count ==
  /\ result = "none" /\ next = N
  /\ in_degree' = [i \in Files |-> InDegree(i)]
  /\ queue' = Ascending({i \in Files : in_degree'[i] = 0})
  /\ next' = N + 1
  /\ UNCHANGED <<project, module_to_file, order, result>>

\* Mutant: a dependent is queued at the first of its dependences.
PopEager ==
  LET j == Head(queue) IN
  /\ result = "none" /\ next = N + 1 /\ queue # << >>
  /\ order' = Append(order, j)
  /\ in_degree' = [i \in Files |-> IF Edges(i, j) > 0 THEN 0 ELSE in_degree[i]]
  /\ queue' = Tail(queue) \o Ascending({i \in Files : Edges(i, j) > 0 /\ in_degree[i] > 0})
  /\ UNCHANGED <<project, module_to_file, next, result>>

\* The front file goes into the order; dependents it was the last dependence
\* of join the queue, in the order of the files.
Pop ==
  LET j == Head(queue) IN
  /\ result = "none" /\ next = N + 1 /\ queue # << >>
  /\ order' = Append(order, j)
  /\ in_degree' = [i \in Files |-> in_degree[i] - Edges(i, j)]
  /\ queue' = Tail(queue) \o
                Ascending({i \in Files : Edges(i, j) > 0 /\ in_degree'[i] = 0})
  /\ UNCHANGED <<project, module_to_file, next, result>>

Finish ==
  /\ result = "none" /\ next = N + 1 /\ queue = << >>
  /\ result' = IF Len(order) = N THEN "ordered" ELSE "cycle"
  /\ UNCHANGED <<project, module_to_file, in_degree, queue, order, next>>

Order == (\E i \in Files : Define(i)) \/ Count \/ Pop \/ Finish

-----------------------------------------------------------------------------
(* What the order is for *)

\* File i needs a module that file j defines.
Needs(i, j) == i # j /\ project.uses[i] \cap project.defines[j] # {}

Duplicated ==
  \E i, j \in Files : i # j /\ project.defines[i] \cap project.defines[j] # {}

\* A set of files that all wait for one another.
Knot(S) == S # {} /\ \A i \in S : \E j \in S : Needs(i, j)

\* No file is placed before a file whose module interfaces it reads, none is
\* placed twice, and an order that is returned holds every file.
DependencesFirst ==
  /\ \A k \in 1..Len(order) : \A j \in Files :
       Needs(order[k], j) => \E l \in 1..(k - 1) : order[l] = j
  /\ IsInjective(order \o queue)
  /\ result = "ordered" => Len(order) = N

\* The build is refused exactly when two files define a module, or when some
\* files wait for one another; then every file of such a set has a positive
\* in-degree, so the message names it.
RefusedRightly ==
  /\ result = "duplicate" => Duplicated
  /\ result \in {"ordered", "cycle"} => ~Duplicated
  /\ result = "ordered" => \A S \in SUBSET Files : ~Knot(S)
  /\ result = "cycle" =>
       /\ \E S \in SUBSET Files : Knot(S)
       /\ \A S \in SUBSET Files : Knot(S) => \A i \in S : in_degree[i] > 0
=============================================================================
