------------------------------ MODULE Manifest ------------------------------
(***************************************************************************)
(* validate of manifest.rs on the parts of a manifest that relate entries  *)
(* to each other: mounts, host ports, dependsOn and the start order, which *)
(* topological_order computes by repeatedly taking the first service (in   *)
(* the order of names, a BTreeSet) none of whose dependencies is left.     *)
(* Modules Store and Runtime assume of a definition what is shown here.    *)
(*                                                                         *)
(* Service names are numbers in the order in which the names sort; a mount *)
(* target is the sequence of its components, so that "/" is << >>.  The    *)
(* checks of single fields (images, commands, names, paths) are left out.  *)
(***************************************************************************)
EXTENDS Naturals, Sequences, FiniteSets

CONSTANTS
    Names,        \* names that may occur, as services or as dependencies
    Volumes,      \* the volumes the manifest declares
    Bind,         \* the source of a bind mount
    Components,   \* path components
    Entries       \* the service entries considered

Path == Seq(Components)
Entry == [dependsOn : Seq(Names), ports : Seq(Nat),
          mounts : Seq([source : STRING, target : Path])]

ASSUME NamesAssumption == IsFiniteSet(Names) /\ Names \subseteq Nat
ASSUME VolumesAssumption == Volumes \subseteq STRING /\ Bind \in STRING \ Volumes
ASSUME EntriesAssumption == Entries \subseteq Entry

VARIABLES
    services,   \* the manifest: a service entry for each of some names
    pc,
    left,       \* service entries not yet parsed
    claimed,    \* claimed_ports
    incoming,   \* dependencies of each service that are not yet ordered
    ready,      \* services without any, not yet ordered
    order,      \* the order so far
    cyclic      \* the services named in the error about a cycle

vars == <<services, pc, left, claimed, incoming, ready, order, cyclic>>

Service == DOMAIN services
elements(list) == {list[k] : k \in 1..Len(list)}
duplicate(list) == \E j, k \in 1..Len(list) : j # k /\ list[j] = list[k]
deps(n) == elements(services[n].dependsOn)
placed == elements(order)

first(S) == CHOOSE n \in S : \A m \in S : n <= m

Init ==
    /\ services \in UNION {[S -> Entries] : S \in (SUBSET Names) \ {{}}}
    /\ pc = "parse"
    /\ left = Service
    /\ claimed = {}
    /\ incoming = [n \in Service |-> 0]
    /\ ready = {}
    /\ order = <<>>
    /\ cyclic = {}

fail(kind) ==
    /\ pc' = kind
    /\ UNCHANGED <<services, left, claimed, incoming, ready, order, cyclic>>

isPrefix(p, q) == Len(p) <= Len(q) /\ SubSeq(q, 1, Len(p)) = p
mount_targets_overlap(p, q) ==
    \/ p = << >> \/ q = << >> \/ p = q
    \/ isPrefix(p, q) \/ isPrefix(q, p)

\* A volume must be declared, a target must not overlap an earlier one.
parse_mounts(list) ==
    \A k \in 1..Len(list) :
        /\ list[k].source \in Volumes \cup {Bind}
        /\ \A j \in 1..(k - 1) :
              ~mount_targets_overlap(list[j].target, list[k].target)

\* Mutant: a port is compared with those of other services only.
MutParsePorts(list) ==
    /\ \A k \in 1..Len(list) : list[k] >= 1024 /\ list[k] <= 65535
    /\ elements(list) \cap claimed = {}

parse_ports(list) ==
    /\ \A k \in 1..Len(list) : list[k] >= 1024 /\ list[k] <= 65535
    /\ elements(list) \cap claimed = {}
    /\ ~duplicate(list)

\* Mutant: a repeated dependency is accepted.
MutParseDependencies(list) == TRUE

parse_dependencies(list) == ~duplicate(list)

ParseService ==
    /\ pc = "parse"
    /\ left # {}
    /\ LET n == first(left)
           s == services[n]
       IN  \/ /\ parse_mounts(s.mounts) /\ parse_ports(s.ports)
              /\ parse_dependencies(s.dependsOn)
              /\ claimed' = claimed \cup elements(s.ports)
              /\ left' = left \ {n}
              /\ UNCHANGED <<services, pc, incoming, ready, order, cyclic>>
           \/ ~parse_mounts(s.mounts) /\ fail("bad_mount")
           \/ /\ parse_mounts(s.mounts) /\ ~parse_ports(s.ports)
              /\ fail("bad_port")
           \/ /\ parse_mounts(s.mounts) /\ parse_ports(s.ports)
              /\ ~parse_dependencies(s.dependsOn)
              /\ fail("bad_dependency")

\* Mutant: one dependency less is waited for.
MutIndegree(n) == IF deps(n) = {} THEN 0 ELSE Len(services[n].dependsOn) - 1

indegree(n) == Len(services[n].dependsOn)

CheckDependencies ==
    /\ pc = "parse"
    /\ left = {}
    /\ \/ (\E n \in Service : ~ deps(n) \subseteq Service) /\ fail("unknown")
       \/ /\ \A n \in Service : deps(n) \subseteq Service
          /\ pc' = "order"
          /\ incoming' = [n \in Service |-> indegree(n)]
          /\ ready' = {n \in Service : indegree(n) = 0}
          /\ UNCHANGED <<services, left, claimed, order, cyclic>>

\* Mutant: the last ready service is taken.
MutPopFirst(S) == CHOOSE n \in S : \A m \in S : m <= n

pop_first(S) == first(S)

\* One round of the loop of topological_order.
Pop ==
    /\ pc = "order"
    /\ ready # {}
    /\ LET n == pop_first(ready)
           dependents == {m \in Service : n \in deps(m)}
       IN  /\ order' = Append(order, n)
           /\ incoming' = [m \in Service |-> IF m \in dependents
                                             THEN incoming[m] - 1
                                             ELSE incoming[m]]
           /\ ready' = (ready \ {n}) \cup
                       {m \in dependents : incoming'[m] = 0}
    /\ UNCHANGED <<services, pc, left, claimed, cyclic>>

Done ==
    /\ pc = "order"
    /\ ready = {}
    /\ IF Len(order) = Cardinality(Service)
       THEN pc' = "valid" /\ UNCHANGED cyclic
       ELSE /\ pc' = "cycle"
            /\ cyclic' = {n \in Service : incoming[n] # 0}
    /\ UNCHANGED <<services, left, claimed, incoming, ready, order>>

Decided == pc \notin {"parse", "order"}
Next == ParseService \/ CheckDependencies \/ Pop \/ Done
Spec == Init /\ [][Next]_vars

-----------------------------------------------------------------------------
(* Reference: what a manifest and an order should be *)

\* Every service in S waits for another one in S.
Stuck(S) == \A n \in S : deps(n) \cap S # {}

\* No file can be reached through two mounts: below no two targets there is
\* a common path.  (Paths as long as the longest target are enough.)
Separate(list) ==
    \A j, k \in 1..Len(list) :
        j # k => LET p == list[j].target
                     q == list[k].target
                     longer == IF Len(p) > Len(q) THEN p ELSE q
                 IN  ~(isPrefix(p, longer) /\ isPrefix(q, longer))

\* The ports that need no privilege.
Port == {p \in Nat : p >= 1024 /\ p <= 65535}

Acceptable ==
    /\ \A n \in Service :
          /\ deps(n) \subseteq Service
          /\ ~duplicate(services[n].dependsOn)
          /\ Separate(services[n].mounts)
          /\ \A k \in 1..Len(services[n].mounts) :
                services[n].mounts[k].source \in Volumes \cup {Bind}
          /\ ~duplicate(services[n].ports)
          /\ elements(services[n].ports) \subseteq Port
          /\ \A m \in Service \ {n} :
                elements(services[n].ports) \cap elements(services[m].ports) = {}
    /\ \A S \in SUBSET Service : Stuck(S) => S = {}

StartOrder(o) ==
    /\ Len(o) = Cardinality(Service)
    /\ elements(o) = Service
    /\ \A k \in 1..Len(o) : deps(o[k]) \subseteq {o[j] : j \in 1..(k - 1)}

Before(o, p) ==
    \E k \in 1..Len(o) : o[k] < p[k] /\ \A j \in 1..(k - 1) : o[j] = p[j]

\* A manifest is accepted exactly if no two mounts of a service reach the same
\* file, volumes are declared, ports are in range and distinct over all
\* services, dependencies are known and listed once, and no services wait for
\* each other.
AcceptsExactly == Decided => (pc = "valid" <=> Acceptable)

\* The start order of an accepted manifest starts every dependency first, so
\* that its reverse, stop_order, stops every dependent first.
DependenciesStartFirst == pc = "valid" => StartOrder(order)

\* MANIFEST_SPEC.md calls the order stable: it depends on nothing but the
\* names, being the first of all start orders.
StableOrder ==
    pc = "valid" =>
        \A p \in [1..Cardinality(Service) -> Service] :
            StartOrder(p) /\ p # order => Before(order, p)

\* The error names exactly the services that can never start: those in a
\* cycle and those that wait for one.
CycleReport ==
    pc = "cycle" => cyclic = UNION {S \in SUBSET Service : Stuck(S)}
=============================================================================
