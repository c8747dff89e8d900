-------------------------- MODULE DependencyGraph --------------------------
(***************************************************************************)
(* DependencyGraph of src/module/dependency.rs: the calls that build the   *)
(* graph, in any order, and the three walks over it, step by step: Kahn's  *)
(* algorithm (topological_order, load_order and, reversed, unload_order)   *)
(* and the two depth-first closures (find_all_dependencies,                *)
(* find_all_dependents).  An edge from a to b says that a comes before b.  *)
(*                                                                         *)
(* The hash maps have no order of their own: where the code iterates over  *)
(* one, the model takes any order.                                         *)
(***************************************************************************)
EXTENDS Sublists, Integers, SequencesExt, FiniteSetsExt

CONSTANTS
  Name,            \* names of modules
  Kernel,          \* the one dependency parse_module_dependencies looks for
  UsizeMax,        \* usize::MAX, where a decrement below 0 ends in a release
  MaxAdds,         \* bound: calls of add_dependency
  MaxReAdds,       \* bound: calls of add_module for a name it knows
  FileLists        \* arguments of build_dependency_graph

ASSUME GraphAssumption ==
  /\ Kernel \in Name /\ UsizeMax \in Nat /\ MaxAdds \in Nat /\ MaxReAdds \in Nat
  /\ FileLists \subseteq Seq([name : Name, kernel : BOOLEAN])
  \* A Vec has fewer than usize::MAX entries.
  /\ \A files \in FileLists \union {<<>>} : Len(files) + MaxAdds < UsizeMax

VARIABLES
  checked,   \* are decrements below 0 caught (a debug build)?
  modules,   \* the names in the graph
  adjacency, reverse_adjacency,
  asked,     \* the edges asked for since their ends were added (history)
  declared,  \* the edges build_dependency_graph found in files (history)
  adds, readds,  \* calls of add_dependency, and of add_module for a known name
  phase,     \* what the current call does, or how the last one ended
  in_degree, queue, result, dependents,  \* topological_order
  root, visited, stack                   \* the closures

graph == <<checked, modules, adjacency, reverse_adjacency, asked, declared, adds, readds>>
kahn == <<in_degree, queue, result, dependents>>
dfs == <<root, visited, stack>>
vars == <<graph, phase, kahn, dfs>>

Ends == {"ordered", "cyclic", "dependencies", "dependents"}
Idle == phase = "idle"

NoEdges == [n \in Name |-> <<>>]
NoDegrees == [n \in Name |-> 0]

Init ==
  /\ checked \in BOOLEAN
  /\ modules = {} /\ adjacency = NoEdges /\ reverse_adjacency = NoEdges
  /\ asked = {} /\ declared = {} /\ adds = 0 /\ readds = 0 /\ phase = "idle"
  /\ in_degree = NoDegrees /\ queue = <<>> /\ result = <<>> /\ dependents = <<>>
  /\ root = Kernel /\ visited = {} /\ stack = <<>>
---------------------------------------------------------------------------
(* Building the graph. *)

\* Adding a name again drops its own lists, not its place in the others'.
AddModule(n) ==
  /\ Idle
  /\ IF n \in modules THEN readds < MaxReAdds /\ readds' = readds + 1 ELSE UNCHANGED readds
  /\ modules' = modules \union {n}
  /\ adjacency' = [adjacency EXCEPT ![n] = <<>>]
  /\ reverse_adjacency' = [reverse_adjacency EXCEPT ![n] = <<>>]
  /\ asked' = {e \in asked : n \notin {e[1], e[2]}}
  /\ UNCHANGED <<checked, declared, adds, phase, kahn, dfs>>

AddDependencyUnchecked(from, to) ==
  /\ Idle /\ adds < MaxAdds
  /\ adjacency' = [adjacency EXCEPT ![from] = Append(@, to)]
  /\ reverse_adjacency' = [reverse_adjacency EXCEPT ![to] = Append(@, from)]
  /\ asked' = asked \union {<<from, to>>}
  /\ adds' = adds + 1
  /\ UNCHANGED <<checked, modules, declared, readds, phase, kahn, dfs>>

AddDependencyOnce(from, to) ==
  /\ Idle /\ adds < MaxAdds /\ {from, to} \subseteq modules
  /\ adjacency' = [adjacency EXCEPT ![from] = IF to \in Range(@) THEN @ ELSE Append(@, to)]
  /\ reverse_adjacency' = [reverse_adjacency EXCEPT ![to] = Append(@, from)]
  /\ asked' = asked \union {<<from, to>>}
  /\ adds' = adds + 1
  /\ UNCHANGED <<checked, modules, declared, readds, phase, kahn, dfs>>

\* An edge may be added twice; both ends must be known (else: an error and
\* no change).
AddDependency(from, to) ==
  /\ Idle /\ adds < MaxAdds /\ {from, to} \subseteq modules
  /\ adjacency' = [adjacency EXCEPT ![from] = Append(@, to)]
  /\ reverse_adjacency' = [reverse_adjacency EXCEPT ![to] = Append(@, from)]
  /\ asked' = asked \union {<<from, to>>}
  /\ adds' = adds + 1
  /\ UNCHANGED <<checked, modules, declared, readds, phase, kahn, dfs>>

\* build_dependency_graph: a fresh graph, and an edge from every listed module
\* whose file, the last one listed for it, mentions the kernel, if that is listed.
Listings(files, n) == {i \in DOMAIN files : files[i].name = n}
Users(files) ==
  {i \in DOMAIN files : Listings(files, Kernel) # {} /\ files[Max(Listings(files, files[i].name))].kernel}
BuildGraph(files) ==
  LET names == [i \in DOMAIN files |-> files[i].name]
      users == Users(files)
  IN
  /\ Idle /\ modules = {}
  /\ modules' = Range(names)
  /\ adjacency' = [n \in Name |-> [i \in 1 .. Cardinality(users \intersect Listings(files, n)) |-> Kernel]]
  /\ reverse_adjacency' = [NoEdges EXCEPT ![Kernel] = Picked(names, users)]
  /\ asked' = {<<names[i], Kernel>> : i \in users}
  /\ declared' = asked'
  /\ UNCHANGED <<checked, adds, readds, phase, kahn, dfs>>
---------------------------------------------------------------------------
(* topological_order *)

InDegreeUniqueEdges(n) == Cardinality(Range(reverse_adjacency[n]))
InDegree0(n) == Len(reverse_adjacency[n])

StartOrder ==
  /\ Idle
  /\ in_degree' = [n \in Name |-> InDegree0(n)]
  /\ queue' \in SetToSeqs({n \in modules : InDegree0(n) = 0})
  /\ phase' = "order" /\ UNCHANGED <<graph, result, dependents, dfs>>

Pop ==
  /\ phase = "order" /\ dependents = <<>> /\ queue # <<>>
  /\ result' = Append(result, Head(queue))
  /\ queue' = Tail(queue)
  /\ dependents' = adjacency[Head(queue)]
  /\ UNCHANGED <<graph, phase, in_degree, dfs>>

Ready(degree) == degree = 0

Decrement ==
  LET n == Head(dependents) IN
  /\ phase = "order" /\ dependents # <<>>
  /\ \/ /\ in_degree[n] > 0
        /\ in_degree' = [in_degree EXCEPT ![n] = @ - 1]
        /\ queue' = IF Ready(in_degree[n] - 1) THEN Append(queue, n) ELSE queue
        /\ dependents' = Tail(dependents) /\ UNCHANGED phase
     \/ /\ in_degree[n] = 0 /\ ~checked
        /\ in_degree' = [in_degree EXCEPT ![n] = UsizeMax]
        /\ dependents' = Tail(dependents) /\ UNCHANGED <<queue, phase>>
     \/ /\ in_degree[n] = 0 /\ checked
        /\ phase' = "panic" /\ UNCHANGED <<in_degree, queue, dependents>>
  /\ UNCHANGED <<graph, result, dfs>>

EndOrder ==
  /\ phase = "order" /\ dependents = <<>> /\ queue = <<>>
  /\ phase' = IF Len(result) = Cardinality(modules) THEN "ordered" ELSE "cyclic"
  /\ UNCHANGED <<graph, kahn, dfs>>
---------------------------------------------------------------------------
(* find_all_dependencies and find_all_dependents *)

StartClosure(n, walk) ==
  /\ Idle
  /\ root' = n /\ stack' = <<n>>
  /\ phase' = walk /\ UNCHANGED <<graph, visited, kahn>>

Walks == {"to_dependencies", "to_dependents"}
EdgesFromSwapped(n) ==
  IF phase = "to_dependents" THEN reverse_adjacency[n] ELSE adjacency[n]
EdgesFrom(n) ==
  IF phase = "to_dependencies" THEN reverse_adjacency[n] ELSE adjacency[n]

VisitKeepSeen ==
  /\ phase \in Walks /\ stack # <<>>
  /\ LET n == Last(stack)
         seen == visited \union {n}
     IN  \/ n \in visited /\ UNCHANGED <<stack, visited>>
         \/ /\ n \notin visited /\ visited' = seen
            /\ stack' = Front(stack)
                 \o Picked(EdgesFrom(n), {i \in DOMAIN EdgesFrom(n) : EdgesFrom(n)[i] \notin seen})
  /\ UNCHANGED <<graph, phase, kahn, root>>

Visit ==
  /\ phase \in Walks /\ stack # <<>>
  /\ LET n == Last(stack)
         seen == visited \union {n}
     IN  \/ n \in visited /\ stack' = Front(stack) /\ UNCHANGED visited
         \/ /\ n \notin visited /\ visited' = seen
            /\ stack' = Front(stack)
                 \o Picked(EdgesFrom(n), {i \in DOMAIN EdgesFrom(n) : EdgesFrom(n)[i] \notin seen})
  /\ UNCHANGED <<graph, phase, kahn, root>>

EndClosure ==
  /\ phase \in Walks /\ stack = <<>>
  /\ visited' = visited \ {root}
  /\ phase' = IF phase = "to_dependencies" THEN "dependencies" ELSE "dependents"
  /\ UNCHANGED <<graph, kahn, root, stack>>

\* The call returns its result to the caller.
Return ==
  /\ phase \in Ends
  /\ phase' = "idle"
  /\ in_degree' = NoDegrees /\ queue' = <<>> /\ result' = <<>> /\ dependents' = <<>>
  /\ root' = Kernel /\ visited' = {} /\ stack' = <<>>
  /\ UNCHANGED graph

Walk == Pop \/ Decrement \/ EndOrder \/ Visit \/ EndClosure \/ Return

Next ==
  \/ \E n \in Name : AddModule(n)
  \/ \E from, to \in Name : AddDependency(from, to)
  \/ \E files \in FileLists : BuildGraph(files)
  \/ StartOrder
  \/ \E n \in Name, walk \in Walks : StartClosure(n, walk)
  \/ Walk

Spec == Init /\ [][Next]_vars

\* A call that was started is carried out.
FairSpec == Spec /\ WF_vars(Walk)
---------------------------------------------------------------------------
\* Where edges lead from n: the least set that holds n and, with the start of an
\* edge, its end.
Closed(edges, S) == \A e \in edges : e[1] \in S => e[2] \in S
Reached(edges, n) ==
  {m \in modules : \A S \in SUBSET modules : n \in S /\ Closed(edges, S) => m \in S}
HasCycle(edges) == \E e \in edges : e[1] \in Reached(edges, e[2])

\* Type invariant.
TypeOK ==
  /\ checked \in BOOLEAN
  /\ modules \subseteq Name /\ adds \in 0 .. MaxAdds /\ readds \in 0 .. MaxReAdds
  /\ \A n \in Name : Range(adjacency[n]) \union Range(reverse_adjacency[n]) \subseteq modules
  /\ asked \subseteq Name \X Name /\ declared \subseteq Name \X Name
  /\ phase \in Ends \union Walks \union {"idle", "order", "panic"}
  /\ in_degree \in [Name -> 0 .. UsizeMax] /\ Range(queue) \subseteq modules
  /\ Range(result) \subseteq modules /\ Range(dependents) \subseteq modules
  /\ root \in Name /\ visited \subseteq Name /\ Range(stack) \subseteq Name

Before(a, b) == \E i, j \in DOMAIN result : i < j /\ result[i] = a /\ result[j] = b

\* The two maps hold the same edges, each as often. A module that is added
\* again drops its own lists and not its places in the others', which may
\* leave them different until the others are added again, too.
Places(list, n) == {i \in DOMAIN list : list[i] = n}
Occurrences(list, n) == Cardinality(Places(list, n))
Mirror ==
  \A a, b \in Name : Occurrences(adjacency[a], b) = Occurrences(reverse_adjacency[b], a)

\* topological_order: an order it returns lists every module once, whatever
\* was added again. While the maps agree, every edge the caller asked for,
\* duplicates included, points forward in it, a cycle is reported only for a
\* graph that has one, and no in-degree is taken below 0.
OrderRespectsEdges ==
  /\ phase = "ordered" => Range(result) = modules /\ Len(result) = Cardinality(modules)
  /\ Mirror =>
       /\ phase = "ordered" => \A e \in asked : Before(e[1], e[2])
       /\ phase = "cyclic" => HasCycle(asked)
       /\ phase # "panic" /\ \A n \in Name : in_degree[n] < UsizeMax

\* The closures are exactly the modules reachable against or along the edges,
\* without the start, cycles or not.
ClosuresExact ==
  Mirror =>
    /\ phase = "dependencies" /\ root \in modules =>
         visited = {m \in modules : root \in Reached(asked, m)} \ {root}
    /\ phase = "dependents" /\ root \in modules =>
         visited = Reached(asked, root) \ {root}

\* An edge is in both maps exactly if it was asked for since both its ends were
\* added, however often modules were added again; and as long as none was, the
\* maps hold the same edges, each as often, whether calls or files made them.
MapsAgree ==
  /\ \A m, n \in Name :
       <<m, n>> \in asked <=> m \in Range(reverse_adjacency[n]) /\ n \in Range(adjacency[m])
  /\ readds = 0 => Mirror

\* Every walk ends, on cyclic graphs, with duplicate edges and with maps that
\* disagree, too: in a result or, where decrements are checked, a panic.
WalksEnd == []<>(Idle \/ phase = "panic")
---------------------------------------------------------------------------
(* The inductive invariant behind the safety properties.                   *)

\* The entries of these modules' lists that name n, each with its place.
Entries(lists, ms, n) == UNION {{<<m, i>> : i \in Places(lists[m], n)} : m \in ms}
InDegree(n) == Len(reverse_adjacency[n])
Few(list) ==
  \A n \in Name : InDegree(n) <= list /\ Cardinality(Entries(adjacency, modules, n)) <= list

\* What was asked for is what both maps hold.
GraphInv ==
  /\ IsFiniteSet(modules)
  /\ adjacency \in [Name -> Seq(modules)] /\ reverse_adjacency \in [Name -> Seq(modules)]
  /\ \A m, n \in Name :
       <<m, n>> \in asked <=> m \in Range(reverse_adjacency[n]) /\ n \in Range(adjacency[m])
  /\ \E files \in FileLists \union {<<>>} : Few(Len(files) + adds)

\* Outside their walks, the variables of a walk are empty.
RestInv ==
  /\ phase \notin {"order", "ordered", "cyclic", "panic"} =>
       in_degree = NoDegrees /\ queue = <<>> /\ result = <<>> /\ dependents = <<>>
  /\ phase \notin Walks \union {"dependencies", "dependents"} => visited = {} /\ stack = <<>>
  /\ in_degree \in [Name -> 0 .. UsizeMax]
  /\ queue \in Seq(modules) /\ result \in Seq(modules) /\ dependents \in Seq(modules)
  /\ visited \subseteq Name /\ stack \in Seq(Name)

\* Decrements of n still to come if all modules are taken out, and those done.
Left(n) ==
  Cardinality(Entries(adjacency, modules \ Range(result), n)) + Occurrences(dependents, n)
Done(n) == Cardinality(Entries(adjacency, modules, n)) - Left(n)

\* A name enters the queue when its decrements reach its in-degree, and they do so
\* once: a decrement below 0 leaves too much to reach 0 again.
QueueInv ==
  phase = "order" =>
    /\ \A n \in modules :
         /\ Done(n) >= 0
         /\ in_degree[n] = InDegree(n) - Done(n) + (IF Done(n) <= InDegree(n) THEN 0 ELSE UsizeMax + 1)
         /\ n \in Range(queue) \union Range(result) <=> Done(n) >= InDegree(n)
    /\ IsInjective(result \o queue)

\* While the maps agree, the in-degree of n counts the edges from modules that are
\* not taken out, and those of the last one that are not done.
Waiting(n) == {i \in DOMAIN reverse_adjacency[n] : reverse_adjacency[n][i] \notin Range(result)}
OrderInv ==
  phase = "order" /\ Mirror =>
    /\ \A n \in modules : in_degree[n] = Cardinality(Waiting(n)) + Occurrences(dependents, n)
                          /\ in_degree[n] <= InDegree(n)
    /\ \A j \in DOMAIN result : \A i \in DOMAIN reverse_adjacency[result[j]] :
         \E k \in 1 .. j - 1 : result[k] = reverse_adjacency[result[j]][i]

\* What has been visited leads to what has been or will be, and all of it is sought.
Sought ==
  IF phase = "to_dependents" THEN Reached(asked, root) ELSE {m \in modules : root \in Reached(asked, m)}
WalkInv ==
  phase \in Walks =>
    /\ root \in visited \union Range(stack)
    /\ \A n \in visited : Range(EdgesFrom(n)) \subseteq visited \union Range(stack)
    /\ Mirror /\ root \in modules => visited \union Range(stack) \subseteq Sought
---------------------------------------------------------------------------
(* Why every walk ends: Kahn's algorithm takes a module out of those that  *)
(* are left or the last one's list gets shorter; a closure sees a name for *)
(* the first time or its stack gets shorter.                               *)
SeenInv == phase \in Walks => visited \union Range(stack) \subseteq modules \union {root}

Unplaced == Cardinality(modules \ Range(result))
Unseen == Cardinality((modules \union {root}) \ visited)

WalkShortens ==
  /\ Unplaced \in Nat /\ Unseen \in Nat
  /\ Pop => Unplaced' < Unplaced
  /\ Decrement =>
       Unplaced' = Unplaced /\ (Len(dependents)' < Len(dependents) \/ phase' = "panic")
  /\ Visit => Unseen' < Unseen \/ (Unseen' = Unseen /\ Len(stack)' < Len(stack))
EachStepShortens == [][WalkShortens]_vars
---------------------------------------------------------------------------
\* Comment on load_order: "Get modules in load order (dependencies first)".
DependenciesFirst ==
  phase = "ordered" => \A e \in declared : Before(e[2], e[1])
============================================================================
