--------------------------- MODULE ManifestProofs ---------------------------
(***************************************************************************)
(* The four properties of module Manifest, for any finite set of names and *)
(* any service entries: what validate accepts, and the order it computes.  *)
(*                                                                         *)
(* The invariant has three parts: what the parsed entries are known to     *)
(* satisfy, why a manifest was refused, and the invariant of the loop of   *)
(* topological_order, where incoming counts the positions of a dependency  *)
(* list that are not yet ordered.                                          *)
(***************************************************************************)
EXTENDS Manifest, FiniteSetTheorems, WellFoundedInduction, TLAPS

\* The dependencies of n that are not yet ordered, as positions in its list.
Waiting(n) == {k \in 1..Len(services[n].dependsOn) :
                  services[n].dependsOn[k] \notin placed}

\* The services ordered before the k-th.
Pre(k) == {order[j] : j \in 1..(k - 1)}

BaseInv ==
    /\ Service \subseteq Names
    /\ services \in [Service -> Entry]
    /\ left \subseteq Service

\* What is known of the entries that have been parsed.
Sound(e) ==
    /\ parse_mounts(e.mounts)
    /\ parse_dependencies(e.dependsOn)
    /\ ~duplicate(e.ports)
    /\ elements(e.ports) \subseteq Port
Apart(e, f) == elements(e.ports) \cap elements(f.ports) = {}

ParsedInv ==
    /\ \A port : port \in claimed <=>
          \E n \in Service \ left : port \in elements(services[n].ports)
    /\ \A n \in Service \ left :
          /\ Sound(services[n])
          /\ \A m \in Service \ left : m # n => Apart(services[n], services[m])

\* Why a manifest was refused.
RefusedInv ==
    pc \in {"bad_mount", "bad_port", "bad_dependency", "unknown"} =>
        \E n \in Service :
            \/ ~Sound(services[n])
            \/ \E m \in Service \ {n} : ~Apart(services[n], services[m])
            \/ ~ deps(n) \subseteq Service

\* The order so far: dependencies first, and always the first name possible.
OrderInv ==
    /\ order \in Seq(Service)
    /\ IsFiniteSet(placed) /\ Cardinality(placed) = Len(order)
    /\ \A k \in 1..Len(order) :
          /\ deps(order[k]) \subseteq Pre(k)
          /\ \A n \in Service \ Pre(k) :
                deps(n) \subseteq Pre(k) => order[k] <= n

\* The counters and the ready set are what is left of the dependencies.
CountInv ==
    pc \in {"order", "valid", "cycle"} =>
        /\ left = {}
        /\ \A n \in Service : deps(n) \subseteq Service
        /\ incoming \in [Service -> Nat]
        /\ \A n \in Service : incoming[n] = Cardinality(Waiting(n))
        /\ ready = {n \in Service \ placed : deps(n) \subseteq placed}

EndInv ==
    /\ pc = "parse" => order = <<>>
    /\ pc = "valid" => placed = Service /\ Len(order) = Cardinality(Service)
    /\ pc = "cycle" => /\ cyclic = Service \ placed
                       /\ cyclic # {} /\ ready = {}

PCInv == pc \in {"parse", "order", "valid", "cycle", "bad_mount", "bad_port",
                 "bad_dependency", "unknown"}

Inv == BaseInv /\ ParsedInv /\ RefusedInv /\ OrderInv /\ CountInv /\ EndInv
       /\ PCInv

-----------------------------------------------------------------------------
(* Lemmas about the model's operators *)

\* A set of names has a first one.
LEMMA First ==
    ASSUME NEW S \in SUBSET Nat, S # {}
    PROVE  first(S) \in S /\ \A m \in S : first(S) <= m
<1> DEFINE R == {ss \in Nat \X Nat : ss[1] < ss[2]}
<1>1. IsWellFoundedOn(R, Nat)
  <2>1. OpToRel(<, Nat) = R
    BY Zenon DEF OpToRel
  <2> QED BY <2>1, NatLessThanWellFounded, Zenon
<1>2. PICK n \in S : \A m \in S : ~ (<<m, n>> \in R)
  <2> HIDE DEF R
  <2> QED BY <1>1, WFMin
<1>3. ASSUME NEW m \in S PROVE n <= m
  <2>1. m \in Nat /\ n \in Nat /\ <<m, n>> \in Nat \X Nat
    OBVIOUS
  <2>2. <<m, n>>[1] = m /\ <<m, n>>[2] = n
    OBVIOUS
  <2>3. ~ (<<m, n>>[1] < <<m, n>>[2])
    BY <1>2, <2>1, Zenon
  <2> QED BY <2>1, <2>2, <2>3
<1> QED BY <1>3 DEF first

\* What a sequence over S holds is in S.
LEMMA ElementOfSeq ==
    ASSUME NEW S, NEW s \in Seq(S), NEW k \in 1..Len(s)
    PROVE  s[k] \in S
OBVIOUS

\* A path is a prefix of itself, and the root of every path.
LEMMA PrefixFacts ==
    ASSUME NEW p \in Path, NEW q \in Path
    PROVE  /\ isPrefix(p, p)
           /\ p = << >> => isPrefix(p, q)
           /\ Len(p) = Len(q) /\ isPrefix(p, q) => p = q
BY DEF isPrefix, Path

\* parse_mounts compares each target with the earlier ones only, and by three
\* cases of which one subsumes the others; that is what Separate asks for.
LEMMA MountsSeparate ==
    ASSUME NEW list \in Seq([source : STRING, target : Path])
    PROVE  parse_mounts(list) <=>
             /\ Separate(list)
             /\ \A k \in 1..Len(list) : list[k].source \in Volumes \cup {Bind}
<1> DEFINE T(k) == list[k].target
           longer(p, q) == IF Len(p) > Len(q) THEN p ELSE q
           reach(p, q) == isPrefix(p, longer(p, q)) /\ isPrefix(q, longer(p, q))
<1>1. \A k \in 1..Len(list) : T(k) \in Path
  <2>1. \A k \in 1..Len(list) : list[k] \in [source : STRING, target : Path]
    BY ElementOfSeq
  <2> QED BY <2>1
<1>2. ASSUME NEW p \in Path, NEW q \in Path
      PROVE  /\ mount_targets_overlap(p, q) <=> reach(p, q)
             /\ reach(p, q) <=> reach(q, p)
  <2>1. Len(p) \in Nat /\ Len(q) \in Nat
    BY DEF Path
  <2>2. /\ isPrefix(p, p) /\ isPrefix(q, q)
        /\ p = << >> => isPrefix(p, q)
        /\ q = << >> => isPrefix(q, p)
        /\ Len(p) = Len(q) /\ isPrefix(p, q) => p = q
        /\ Len(p) = Len(q) /\ isPrefix(q, p) => p = q
        /\ isPrefix(p, q) => Len(p) <= Len(q)
        /\ isPrefix(q, p) => Len(q) <= Len(p)
    BY PrefixFacts DEF isPrefix
  <2> QED BY <2>1, <2>2 DEF mount_targets_overlap
<1>3. Separate(list) <=>
        \A j, k \in 1..Len(list) : j # k => ~reach(T(j), T(k))
  BY DEF Separate
<1>4. parse_mounts(list) <=>
        \A k \in 1..Len(list) :
            /\ list[k].source \in Volumes \cup {Bind}
            /\ \A j \in 1..(k - 1) : ~mount_targets_overlap(T(j), T(k))
  BY DEF parse_mounts
<1> HIDE DEF T, reach
<1>5. \A k \in 1..Len(list) : \A j \in 1..(k - 1) : j \in 1..Len(list) /\ j # k
  OBVIOUS
<1>6. \A j, k \in 1..Len(list) : j # k => j \in 1..(k - 1) \/ k \in 1..(j - 1)
  <2>1. \A l \in Nat : \A j, k \in 1..l :
            j # k => j \in 1..(k - 1) \/ k \in 1..(j - 1)
    OBVIOUS
  <2>2. Len(list) \in Nat
    OBVIOUS
  <2> QED
    BY <2>1, <2>2
<1> QED BY <1>1, <1>2, <1>3, <1>4, <1>5, <1>6

\* parse_ports asks for ports in range that are neither repeated nor claimed.
LEMMA PortsParsed ==
    ASSUME NEW list \in Seq(Nat)
    PROVE  parse_ports(list) <=>
             /\ elements(list) \subseteq Port
             /\ elements(list) \cap claimed = {}
             /\ ~duplicate(list)
<1> DEFINE InRange == \A k \in 1..Len(list) : list[k] >= 1024 /\ list[k] <= 65535
<1>1. \A k \in 1..Len(list) : list[k] \in Nat
  BY ElementOfSeq
<1>2. InRange <=> \A k \in 1..Len(list) : list[k] \in Port
  BY <1>1 DEF Port
<1>3. elements(list) \subseteq Port <=> \A k \in 1..Len(list) : list[k] \in Port
  BY DEF elements
<1>4. parse_ports(list) <=> /\ InRange /\ elements(list) \cap claimed = {}
                            /\ ~duplicate(list)
  BY DEF parse_ports
<1> HIDE DEF InRange
<1> QED BY <1>2, <1>3, <1>4

\* Len of a dependency list counts its positions.
LEMMA WaitingFinite ==
    ASSUME BaseInv, NEW n \in Service
    PROVE  /\ IsFiniteSet(Waiting(n)) /\ Cardinality(Waiting(n)) \in Nat
           /\ Cardinality(Waiting(n)) = 0 <=> deps(n) \subseteq placed
           /\ Len(services[n].dependsOn) \in Nat
           /\ placed = {} => Cardinality(Waiting(n)) = Len(services[n].dependsOn)
<1> DEFINE L == Len(services[n].dependsOn)
<1>1. L \in Nat
  BY DEF BaseInv, Entry
<1>2. IsFiniteSet(1..L) /\ Cardinality(1..L) = L
  <2>1. /\ IsFiniteSet(1..L)
        /\ Cardinality(1..L) = IF 1 > L THEN 0 ELSE L - 1 + 1
    <3>1. L \in Int /\ 1 \in Int
      BY <1>1
    <3> HIDE DEF L
    <3> QED
      BY <3>1, FS_Interval
  <2> QED
    BY <1>1, <2>1
<1>3. IsFiniteSet(Waiting(n)) /\ Cardinality(Waiting(n)) \in Nat
  BY <1>2, FS_Subset, FS_CardinalityType DEF Waiting
<1>4. Cardinality(Waiting(n)) = 0 <=> Waiting(n) = {}
  BY <1>3, FS_EmptySet
<1>5. Waiting(n) = {} <=> deps(n) \subseteq placed
  BY DEF Waiting, deps, elements
<1>6. placed = {} => Waiting(n) = 1..L
  BY DEF Waiting
<1> QED BY <1>1, <1>2, <1>3, <1>4, <1>5, <1>6

-----------------------------------------------------------------------------
(* The steps *)

\* Names are naturals, so every non-empty set of services has a first.
LEMMA ServiceFacts ==
    ASSUME BaseInv
    PROVE  /\ Service \subseteq Nat /\ IsFiniteSet(Service)
           /\ Cardinality(Service) \in Nat
           /\ \A n \in Service : /\ services[n] \in Entry
                                 /\ deps(n) \subseteq Names
<1>1. Service \subseteq Nat /\ IsFiniteSet(Service)
  BY NamesAssumption, FS_Subset DEF BaseInv
<1>2. \A n \in Service : services[n] \in Entry
  BY DEF BaseInv
<1>3. ASSUME NEW n \in Service PROVE deps(n) \subseteq Names
  <2>1. services[n].dependsOn \in Seq(Names)
    BY <1>2 DEF Entry
  <2> QED BY <2>1, ElementOfSeq DEF deps, elements
<1> QED BY <1>1, <1>2, <1>3, FS_CardinalityType

\* Nothing is parsed or ordered at first.
LEMMA InitInv == ASSUME Init PROVE Inv
<1>1. PICK S \in (SUBSET Names) \ {{}} : services \in [S -> Entries]
  BY DEF Init
<1>2. BaseInv
  BY <1>1, EntriesAssumption DEF Init, BaseInv, Service
<1>3. ParsedInv
  BY DEF Init, ParsedInv
<1>4. OrderInv
  <2>1. placed = {}
    BY DEF Init, placed, elements
  <2> QED BY <2>1, FS_EmptySet DEF Init, OrderInv
<1> QED
  BY <1>2, <1>3, <1>4 DEF Init, Inv, RefusedInv, CountInv, EndInv, PCInv

\* What is derived from the manifest and the order changes with them only.
LEMMA ManifestKept ==
    ASSUME UNCHANGED services
    PROVE  /\ Service' = Service
           /\ \A n : deps(n)' = deps(n)
BY DEF Service, deps, elements

\* While the order stays, so do the services it places and what they leave.
LEMMA OrderSame ==
    ASSUME UNCHANGED <<services, order>>
    PROVE  /\ placed' = placed
           /\ \A k : Pre(k)' = Pre(k)
           /\ \A n : Waiting(n)' = Waiting(n)
BY DEF placed, Pre, Waiting, elements

\* A step that leaves the order alone keeps what was said of it.
LEMMA OrderKept ==
    ASSUME OrderInv, UNCHANGED <<services, order>>
    PROVE  OrderInv'
BY ManifestKept, OrderSame DEF OrderInv

\* So does what is known of the entries, if no other is parsed.
LEMMA ParsedKept ==
    ASSUME Inv, UNCHANGED <<services, left, claimed>>
    PROVE  BaseInv' /\ ParsedInv'
<1>1. BaseInv'
  BY ManifestKept DEF Inv, BaseInv
<1>2. ParsedInv'
  BY ManifestKept DEF Inv, ParsedInv
<1> QED BY <1>1, <1>2

\* One service entry is accepted or refuses the manifest.
LEMMA ParseServiceInv == ASSUME Inv, ParseService PROVE Inv'
<1>1. PICK n \in left : n = first(left)
  <2>1. left \in SUBSET Nat /\ left # {}
    BY ServiceFacts DEF Inv, BaseInv, ParseService
  <2> QED BY <2>1, First
<1>2. n \in Service /\ services[n] \in Entry
  BY <1>1, ServiceFacts DEF Inv, BaseInv
<1> DEFINE s == services[n]
<1>3. UNCHANGED <<services, order, cyclic, ready>> /\ pc = "parse"
  BY DEF ParseService, fail
<1>4. OrderInv'
  BY <1>3, OrderKept DEF Inv
<1>5. s.ports \in Seq(Nat)
  BY <1>2 DEF Entry
<1>6. \/ /\ parse_mounts(s.mounts) /\ parse_ports(s.ports)
         /\ parse_dependencies(s.dependsOn)
         /\ claimed' = claimed \cup elements(s.ports)
         /\ left' = left \ {n} /\ pc' = pc
      \/ /\ ~(/\ parse_mounts(s.mounts) /\ parse_ports(s.ports)
              /\ parse_dependencies(s.dependsOn))
         /\ pc' \in {"bad_mount", "bad_port", "bad_dependency"}
         /\ UNCHANGED <<left, claimed>>
  BY <1>1 DEF ParseService, fail
<1>7. parse_ports(s.ports) <=>
        /\ elements(s.ports) \subseteq Port
        /\ elements(s.ports) \cap claimed = {} /\ ~duplicate(s.ports)
  BY <1>5, PortsParsed
<1>8. CountInv' /\ EndInv' /\ PCInv'
  BY <1>3, <1>6 DEF Inv, CountInv, EndInv, PCInv
<1>9. CASE /\ parse_mounts(s.mounts) /\ parse_ports(s.ports)
           /\ parse_dependencies(s.dependsOn)
           /\ claimed' = claimed \cup elements(s.ports)
           /\ left' = left \ {n} /\ pc' = pc
  <2>1. BaseInv'
    BY <1>3, <1>9, ManifestKept DEF Inv, BaseInv
  <2>2. RefusedInv'
    BY <1>3, <1>9 DEF RefusedInv
  <2>3. Sound(services[n])
    BY <1>7, <1>9, Zenon DEF Sound
  <2>4. \A m \in Service \ left :
           Apart(services[m], services[n]) /\ Apart(services[n], services[m])
    BY <1>7, <1>9 DEF Apart, Inv, ParsedInv
  <2>5. /\ Service' = Service /\ Service' \ left' = (Service \ left) \cup {n}
    BY <1>2, <1>3, <1>9, ManifestKept
  <2>6. ParsedInv'
    BY <1>3, <1>9, <2>3, <2>4, <2>5 DEF Inv, ParsedInv
  <2> QED BY <1>4, <1>8, <2>1, <2>2, <2>6 DEF Inv
<1>10. CASE /\ ~(/\ parse_mounts(s.mounts) /\ parse_ports(s.ports)
                 /\ parse_dependencies(s.dependsOn))
            /\ pc' \in {"bad_mount", "bad_port", "bad_dependency"}
            /\ UNCHANGED <<left, claimed>>
  <2>1. BaseInv' /\ ParsedInv'
    BY <1>3, <1>10, ParsedKept
  <2>2. \/ ~Sound(services[n])
        \/ \E m \in Service \ {n} : ~Apart(services[n], services[m])
    <3>1. CASE elements(s.ports) \cap claimed # {}
      <4>1. PICK port \in elements(s.ports) : port \in claimed
        BY <3>1
      <4>2. PICK m \in Service \ left : port \in elements(services[m].ports)
        BY <4>1 DEF Inv, ParsedInv
      <4>3. m # n /\ ~Apart(services[n], services[m])
        BY <1>1, <4>1, <4>2 DEF Apart
      <4> QED BY <4>3
    <3>2. CASE elements(s.ports) \cap claimed = {}
      BY <3>2, <1>7, <1>10, Zenon DEF Sound
    <3> QED BY <3>1, <3>2
  <2>3. RefusedInv'
    BY <1>2, <1>3, <2>2, ManifestKept DEF RefusedInv
  <2> QED BY <1>4, <1>8, <2>1, <2>3 DEF Inv
<1> QED BY <1>6, <1>9, <1>10

\* Unknown dependencies refuse the manifest; otherwise the counters start.
LEMMA CheckDependenciesInv == ASSUME Inv, CheckDependencies PROVE Inv'
<1>1. UNCHANGED <<services, left, claimed, order, cyclic>> /\ pc = "parse"
  BY DEF CheckDependencies, fail
<1>2. OrderInv' /\ BaseInv' /\ ParsedInv'
  BY <1>1, OrderKept, ParsedKept DEF Inv
<1>3. PCInv' /\ EndInv'
  BY <1>1 DEF Inv, PCInv, EndInv, CheckDependencies, fail
<1>4. RefusedInv'
  BY <1>1, ManifestKept DEF RefusedInv, CheckDependencies, fail
<1>5. CountInv'
  <2>1. placed = {}
    BY DEF Inv, EndInv, CheckDependencies, placed, elements
  <2>2. \A n \in Service : /\ indegree(n) \in Nat
                           /\ indegree(n) = Cardinality(Waiting(n))
                           /\ indegree(n) = 0 <=> deps(n) \subseteq placed
    BY <2>1, WaitingFinite DEF Inv, indegree
  <2>3. CASE pc' = "unknown"
    BY <2>3 DEF CountInv
  <2>4. CASE /\ \A n \in Service : deps(n) \subseteq Service
             /\ left = {} /\ incoming' = [n \in Service |-> indegree(n)]
             /\ ready' = {n \in Service : indegree(n) = 0}
    <3>1. ready' = {n \in Service \ placed : deps(n) \subseteq placed}
      BY <2>1, <2>2, <2>4
    <3>2. /\ incoming' \in [Service -> Nat]
          /\ \A n \in Service : incoming'[n] = Cardinality(Waiting(n))
      BY <2>2, <2>4
    <3> QED
      BY <1>1, <2>4, <3>1, <3>2, ManifestKept, OrderSame DEF CountInv
  <2> QED BY <2>3, <2>4 DEF CheckDependencies, fail
<1> QED BY <1>2, <1>3, <1>4, <1>5 DEF Inv

\* The dependencies of what is ordered are ordered.
LEMMA PlacedClosed ==
    ASSUME OrderInv, NEW m \in placed
    PROVE  deps(m) \subseteq placed
<1>1. PICK k \in 1..Len(order) : m = order[k]
  BY DEF placed, elements
<1>2. Pre(k) \subseteq placed
  <2>1. Len(order) \in Nat
    BY DEF OrderInv
  <2>2. \A j \in 1..(k - 1) : j \in 1..Len(order)
    BY <2>1
  <2> QED BY <2>2 DEF Pre, placed, elements
<1> QED BY <1>1, <1>2 DEF OrderInv

\* Appending n to the order places n and leaves the earlier positions alone.
LEMMA AppendFacts ==
    ASSUME BaseInv, OrderInv, NEW n \in Service \ placed,
           order' = Append(order, n), UNCHANGED services
    PROVE  /\ order' \in Seq(Service) /\ Len(order') = Len(order) + 1
           /\ placed' = placed \cup {n}
           /\ IsFiniteSet(placed') /\ Cardinality(placed') = Len(order')
           /\ \A k \in 1..Len(order) : order'[k] = order[k] /\ Pre(k)' = Pre(k)
           /\ order'[Len(order')] = n
           /\ \A k : k = Len(order) + 1 => Pre(k)' = placed
<1>1. order \in Seq(Service) /\ Len(order) \in Nat
  BY DEF OrderInv
<1>2. /\ order' \in Seq(Service) /\ Len(order') = Len(order) + 1
      /\ \A k \in 1..Len(order) : order'[k] = order[k]
      /\ order'[Len(order')] = n
  BY <1>1
<1>3. 1..Len(order') = (1..Len(order)) \cup {Len(order')}
  BY <1>1, <1>2
<1>4. placed' = placed \cup {n}
  BY <1>2, <1>3 DEF placed, elements
<1>5. IsFiniteSet(placed') /\ Cardinality(placed') = Len(order')
  BY <1>2, <1>4, FS_AddElement DEF OrderInv
<1>6. ASSUME NEW k \in 1..(Len(order) + 1) PROVE Pre(k)' = Pre(k)
  <2>1. \A j \in 1..(k - 1) : j \in 1..Len(order)
    BY <1>1
  <2> QED BY <1>2, <2>1 DEF Pre
<1>7. \A k : k = Len(order) + 1 => Pre(k) = placed
  BY <1>1 DEF Pre, placed, elements
<1> QED BY <1>1, <1>2, <1>4, <1>5, <1>6, <1>7

\* Placing n takes its position from every list that names it, exactly one as
\* no dependency is repeated, and no other.
LEMMA WaitingStep ==
    ASSUME Inv, pc = "order", NEW n \in Service \ placed,
           placed' = placed \cup {n}, UNCHANGED services, NEW m \in Service
    PROVE  /\ Cardinality(Waiting(m)') =
                IF n \in deps(m) THEN Cardinality(Waiting(m)) - 1
                ELSE Cardinality(Waiting(m))
           /\ Cardinality(Waiting(m)') \in Nat
           /\ Cardinality(Waiting(m)') = 0 <=> deps(m) \subseteq placed'
<1> DEFINE L == services[m].dependsOn
<1>1. IsFiniteSet(Waiting(m))
  BY WaitingFinite DEF Inv
<1>2. ASSUME n \in deps(m)
      PROVE  Cardinality(Waiting(m)') = Cardinality(Waiting(m)) - 1
  <2>1. PICK k \in 1..Len(L) : L[k] = n
    BY <1>2 DEF deps, elements
  <2>2. \A j \in 1..Len(L) : L[j] = n => j = k
    <3>1. ~duplicate(L)
      BY DEF Inv, CountInv, ParsedInv, Sound, parse_dependencies
    <3> QED BY <2>1, <3>1 DEF duplicate
  <2>3. Waiting(m)' = Waiting(m) \ {k}
    BY <2>1, <2>2 DEF Waiting
  <2>4. k \in Waiting(m)
    BY <2>1 DEF Waiting
  <2> QED BY <1>1, <1>2, <2>3, <2>4, FS_RemoveElement
<1>3. ASSUME n \notin deps(m)
      PROVE  Cardinality(Waiting(m)') = Cardinality(Waiting(m))
  <2>1. \A j \in 1..Len(L) : L[j] # n
    BY <1>3 DEF deps, elements
  <2>2. Waiting(m)' = Waiting(m)
    BY <2>1 DEF Waiting
  <2> QED BY <1>3, <2>2
<1>4. IsFiniteSet(Waiting(m)')
  <2>1. Waiting(m)' \subseteq Waiting(m)
    BY DEF Waiting
  <2> QED BY <1>1, <2>1, FS_Subset
<1>5. Waiting(m)' = {} <=> deps(m) \subseteq placed'
  BY DEF Waiting, deps, elements
<1>6. /\ Cardinality(Waiting(m)') \in Nat
      /\ Cardinality(Waiting(m)') = 0 <=> deps(m) \subseteq placed'
  BY <1>4, <1>5, FS_CardinalityType, FS_EmptySet
<1> QED BY <1>2, <1>3, <1>6

\* One round of the loop of topological_order.
LEMMA PopInv == ASSUME Inv, Pop PROVE Inv'
<1>1. PICK n \in ready : n = first(ready) /\ \A m \in ready : n <= m
  <2>1. ready \in SUBSET Nat /\ ready # {}
    BY ServiceFacts DEF Inv, CountInv, Pop
  <2> QED BY <2>1, First
<1>2. /\ n \in Service \ placed /\ deps(n) \subseteq placed
      /\ ready = {m \in Service \ placed : deps(m) \subseteq placed}
      /\ pc = "order" /\ pc' = pc
      /\ UNCHANGED <<services, left, claimed, cyclic>>
      /\ order' = Append(order, n)
  BY <1>1 DEF Inv, CountInv, Pop, pop_first
<1>3. BaseInv' /\ ParsedInv' /\ RefusedInv' /\ EndInv' /\ PCInv'
  BY <1>2, ParsedKept DEF RefusedInv, EndInv, PCInv
<1>4. /\ order' \in Seq(Service) /\ Len(order') = Len(order) + 1
      /\ placed' = placed \cup {n}
      /\ IsFiniteSet(placed') /\ Cardinality(placed') = Len(order')
      /\ \A k \in 1..Len(order) : order'[k] = order[k] /\ Pre(k)' = Pre(k)
      /\ order'[Len(order')] = n
      /\ \A k : k = Len(order) + 1 => Pre(k)' = placed
  BY <1>2, AppendFacts DEF Inv
<1>5. OrderInv'
  <2>1. ASSUME NEW k \in 1..Len(order')
        PROVE  /\ deps(order'[k]) \subseteq Pre(k)'
               /\ \A m \in Service \ Pre(k)' :
                     deps(m) \subseteq Pre(k)' => order'[k] <= m
    <3>1. CASE k = Len(order) + 1
      BY <1>1, <1>2, <1>4, <3>1
    <3>2. CASE k \in 1..Len(order)
      BY <1>4, <3>2 DEF Inv, OrderInv
    <3>3. Len(order) \in Nat
      BY DEF Inv, OrderInv
    <3> QED BY <1>4, <3>1, <3>2, <3>3
  <2>2. Service' = Service /\ \A m : deps(m)' = deps(m)
    BY <1>2, ManifestKept
  <2>3. \A k : deps(order[k])' = deps(order'[k])
    BY <1>2 DEF deps, elements
  <2> QED BY <1>4, <2>1, <2>2, <2>3 DEF OrderInv
<1>6. CountInv'
  <2> DEFINE dependents == {m \in Service : n \in deps(m)}
  <2>1. /\ incoming' = [m \in Service |-> IF m \in dependents THEN incoming[m] - 1
                                          ELSE incoming[m]]
        /\ ready' = (ready \ {n}) \cup {m \in dependents : incoming'[m] = 0}
    BY <1>1 DEF Pop, pop_first
  <2>2. \A m \in Service : /\ incoming'[m] = Cardinality(Waiting(m)')
                           /\ incoming'[m] \in Nat
                           /\ incoming'[m] = 0 <=> deps(m) \subseteq placed'
    <3> TAKE m \in Service
    <3>1. /\ Cardinality(Waiting(m)') =
                IF n \in deps(m) THEN Cardinality(Waiting(m)) - 1
                ELSE Cardinality(Waiting(m))
          /\ Cardinality(Waiting(m)') \in Nat
          /\ Cardinality(Waiting(m)') = 0 <=> deps(m) \subseteq placed'
      BY <1>2, <1>4, WaitingStep
    <3>2. incoming[m] = Cardinality(Waiting(m))
      BY <1>2 DEF Inv, CountInv
    <3> QED BY <2>1, <3>1, <3>2
  <2>3. \A m \in placed : deps(m) \subseteq placed
    BY PlacedClosed DEF Inv
  <2>4. ready' = {m \in Service \ placed' : deps(m) \subseteq placed'}
    <3>1. ASSUME NEW m \in ready'
          PROVE  m \in Service \ placed' /\ deps(m) \subseteq placed'
      BY <1>2, <1>4, <2>1, <2>2, <2>3
    <3>2. ASSUME NEW m \in Service \ placed', deps(m) \subseteq placed'
          PROVE  m \in ready'
      <4>1. CASE n \in deps(m)
        BY <2>1, <2>2, <3>2, <4>1
      <4>2. CASE n \notin deps(m)
        BY <1>2, <1>4, <2>1, <3>2, <4>2
      <4> QED BY <4>1, <4>2
    <3> QED BY <3>1, <3>2
  <2>5. incoming' \in [Service -> Nat]
    BY <2>1, <2>2
  <2>6. left' = {} /\ \A m \in Service : deps(m) \subseteq Service
    BY <1>2 DEF Inv, CountInv
  <2>7. Service' = Service /\ \A m : deps(m)' = deps(m)
    BY <1>2, ManifestKept
  <2> HIDE DEF dependents
  <2> QED BY <2>2, <2>4, <2>5, <2>6, <2>7 DEF CountInv
<1> QED BY <1>3, <1>5, <1>6 DEF Inv

\* The loop ends: every service is ordered, or the rest is reported.
LEMMA DoneInv == ASSUME Inv, Done PROVE Inv'
<1>1. /\ UNCHANGED <<services, left, claimed, incoming, ready, order>>
      /\ pc = "order" /\ ready = {} /\ pc' \in {"valid", "cycle"}
  BY DEF Done
<1>2. OrderInv' /\ BaseInv' /\ ParsedInv'
  BY <1>1, OrderKept, ParsedKept DEF Inv
<1>3. RefusedInv' /\ PCInv'
  BY <1>1 DEF RefusedInv, PCInv
<1>4. /\ Service' = Service /\ \A n : deps(n)' = deps(n)
      /\ placed' = placed /\ \A n : Waiting(n)' = Waiting(n)
  BY <1>1, ManifestKept, OrderSame
<1>5. CountInv'
  BY <1>1, <1>4 DEF Inv, CountInv
<1>6. /\ placed \subseteq Service /\ IsFiniteSet(Service)
      /\ Cardinality(placed) = Len(order)
  <2>1. order \in Seq(Service)
    BY DEF Inv, OrderInv
  <2> QED BY <2>1, ServiceFacts, ElementOfSeq
             DEF Inv, OrderInv, placed, elements
<1>7. EndInv'
  <2>1. CASE Len(order) = Cardinality(Service)
    <3>1. placed = Service
      BY <1>6, <2>1, FS_Subset
    <3> QED BY <1>1, <1>4, <2>1, <3>1 DEF Done, EndInv
  <2>2. CASE Len(order) # Cardinality(Service)
    <3>1. placed # Service
      BY <1>6, <2>2
    <3>2. ASSUME NEW n \in Service PROVE incoming[n] # 0 <=> n \notin placed
      <4>1. incoming[n] = 0 <=> deps(n) \subseteq placed
        BY <1>1, WaitingFinite DEF Inv, CountInv
      <4>2. n \notin placed => ~ deps(n) \subseteq placed
        BY <1>1 DEF Inv, CountInv
      <4>3. n \in placed => deps(n) \subseteq placed
        BY PlacedClosed DEF Inv
      <4> QED BY <4>1, <4>2, <4>3
    <3>3. pc' = "cycle" /\ cyclic' = {n \in Service : incoming[n] # 0}
      BY <2>2 DEF Done
    <3>4. cyclic' = Service \ placed
      BY <3>2, <3>3
    <3>5. cyclic' # {}
      BY <1>6, <3>1, <3>4
    <3> QED BY <1>1, <1>4, <3>3, <3>4, <3>5 DEF EndInv
  <2> QED BY <2>1, <2>2
<1> QED BY <1>2, <1>3, <1>5, <1>7 DEF Inv

\* The invariant of validate.
LEMMA ManifestInv == Spec => []Inv
<1>1. Init => Inv
  BY InitInv
<1>2. Inv /\ [Next]_vars => Inv'
  <2> SUFFICES ASSUME Inv, [Next]_vars PROVE Inv'
    OBVIOUS
  <2>1. CASE UNCHANGED vars
    <3>1. /\ UNCHANGED <<services, pc, left, claimed>>
          /\ UNCHANGED <<incoming, ready, order, cyclic>>
      BY <2>1 DEF vars
    <3>2. OrderInv' /\ BaseInv' /\ ParsedInv'
      BY <3>1, OrderKept, ParsedKept DEF Inv
    <3>3. RefusedInv' /\ PCInv'
      BY <3>1, ManifestKept DEF Inv, RefusedInv, PCInv
    <3>4. CountInv'
      BY <3>1, ManifestKept, OrderSame DEF Inv, CountInv
    <3>5. EndInv'
      BY <3>1, ManifestKept, OrderSame DEF Inv, EndInv
    <3> QED BY <3>2, <3>3, <3>4, <3>5 DEF Inv
  <2> QED
    BY <2>1, ParseServiceInv, CheckDependenciesInv, PopInv, DoneInv DEF Next
<1> QED BY <1>1, <1>2, PTL DEF Spec

-----------------------------------------------------------------------------
(* What the order means *)

\* Services that wait for each other are never ordered: the first of them to
\* be ordered would have a dependency among them ordered before it.
LEMMA StuckNotPlaced ==
    ASSUME Inv, NEW S \in SUBSET Service, Stuck(S)
    PROVE  S \cap placed = {}
<1> SUFFICES ASSUME S \cap placed # {} PROVE FALSE
  OBVIOUS
<1> DEFINE K == {k \in 1..Len(order) : order[k] \in S}
<1>1. K \in SUBSET Nat /\ K # {}
  BY DEF placed, elements
<1>2. PICK k \in K : \A j \in K : k <= j
  <2> HIDE DEF K
  <2> QED BY <1>1, First
<1>3. PICK m \in deps(order[k]) : m \in S
  BY <1>2 DEF Stuck
<1>4. m \in Pre(k)
  BY <1>2, <1>3 DEF Inv, OrderInv
<1>5. PICK j \in 1..(k - 1) : order[j] = m
  BY <1>4 DEF Pre
<1>6. j \in K /\ j < k
  BY <1>2, <1>3, <1>5 DEF Inv, OrderInv
<1> QED BY <1>2, <1>6

\* When the loop ends with services left, these wait for each other.
LEMMA RestIsStuck ==
    ASSUME Inv, pc = "cycle"
    PROVE  cyclic \in SUBSET Service /\ cyclic # {} /\ Stuck(cyclic)
<1>1. cyclic = Service \ placed /\ cyclic # {}
  BY DEF Inv, EndInv
<1>2. ASSUME NEW n \in cyclic PROVE deps(n) \cap cyclic # {}
  <2>1. ~ deps(n) \subseteq placed
    BY <1>1 DEF Inv, CountInv, EndInv
  <2>2. deps(n) \subseteq Service
    BY <1>1 DEF Inv, CountInv
  <2> QED BY <1>1, <2>1, <2>2
<1> QED BY <1>1, <1>2 DEF Stuck

\* The two forms of "no fault in the parsed entries".
LEMMA SoundEntry ==
    ASSUME BaseInv, NEW n \in Service
    PROVE  Sound(services[n]) <=>
             /\ ~duplicate(services[n].dependsOn)
             /\ Separate(services[n].mounts)
             /\ \A k \in 1..Len(services[n].mounts) :
                   services[n].mounts[k].source \in Volumes \cup {Bind}
             /\ ~duplicate(services[n].ports)
             /\ elements(services[n].ports) \subseteq Port
<1>1. services[n].mounts \in Seq([source : STRING, target : Path])
  BY ServiceFacts DEF Entry
<1>2. parse_mounts(services[n].mounts) <=>
         /\ Separate(services[n].mounts)
         /\ \A k \in 1..Len(services[n].mounts) :
               services[n].mounts[k].source \in Volumes \cup {Bind}
  BY <1>1, MountsSeparate
<1> QED BY <1>2, Zenon DEF Sound, parse_dependencies

\* An acceptable manifest, in terms of the invariant.
LEMMA AcceptableEntries ==
    ASSUME BaseInv
    PROVE  Acceptable <=>
             /\ \A n \in Service :
                   /\ deps(n) \subseteq Service
                   /\ Sound(services[n])
                   /\ \A m \in Service \ {n} : Apart(services[n], services[m])
             /\ \A S \in SUBSET Service : Stuck(S) => S = {}
<1> DEFINE Fine(n) ==
      /\ deps(n) \subseteq Service
      /\ ~duplicate(services[n].dependsOn)
      /\ Separate(services[n].mounts)
      /\ \A k \in 1..Len(services[n].mounts) :
            services[n].mounts[k].source \in Volumes \cup {Bind}
      /\ ~duplicate(services[n].ports)
      /\ elements(services[n].ports) \subseteq Port
      /\ \A m \in Service \ {n} :
            elements(services[n].ports) \cap elements(services[m].ports) = {}
<1>1. Acceptable <=> /\ \A n \in Service : Fine(n)
                     /\ \A S \in SUBSET Service : Stuck(S) => S = {}
  BY Zenon DEF Acceptable
<1>2. ASSUME NEW n \in Service
      PROVE  Fine(n) <=>
               /\ deps(n) \subseteq Service
               /\ Sound(services[n])
               /\ \A m \in Service \ {n} : Apart(services[n], services[m])
  BY SoundEntry, Zenon DEF Apart
<1> HIDE DEF Fine
<1> QED BY <1>1, <1>2

-----------------------------------------------------------------------------
(* The theorems *)

\* A manifest that validate accepts has a start order in which every
\* dependency comes before its dependents.
THEOREM OrderStartsDependenciesFirst == Spec => []DependenciesStartFirst
<1>1. Inv => DependenciesStartFirst
  BY DEF Inv, EndInv, OrderInv, DependenciesStartFirst, StartOrder, placed, Pre
<1> QED BY <1>1, ManifestInv, PTL

\* The error about a cycle names every service that can never start, and no
\* other.
THEOREM CycleReportExact == Spec => []CycleReport
<1>1. ASSUME Inv PROVE CycleReport
  <2> SUFFICES ASSUME pc = "cycle"
               PROVE  cyclic = UNION {S \in SUBSET Service : Stuck(S)}
    BY DEF CycleReport
  <2>1. cyclic \in {S \in SUBSET Service : Stuck(S)}
    BY <1>1, RestIsStuck
  <2>2. \A S \in SUBSET Service : Stuck(S) => S \subseteq cyclic
    BY <1>1, StuckNotPlaced DEF Inv, EndInv
  <2> QED BY <2>1, <2>2
<1> QED BY <1>1, ManifestInv, PTL

\* validate accepts exactly the manifests that the reference accepts: nothing
\* is refused without a fault, and no fault is accepted.
THEOREM ValidateExact == Spec => []AcceptsExactly
<1>1. ASSUME Inv PROVE AcceptsExactly
  <2> SUFFICES ASSUME Decided PROVE pc = "valid" <=> Acceptable
    BY DEF AcceptsExactly
  <2> USE <1>1
  <2>1. BaseInv
    BY DEF Inv
  <2>2. CASE pc = "valid"
    <3>1. \A n \in Service : /\ deps(n) \subseteq Service
                             /\ Sound(services[n])
                             /\ \A m \in Service \ {n} :
                                   Apart(services[n], services[m])
      BY <2>2 DEF Inv, CountInv, ParsedInv
    <3>2. \A S \in SUBSET Service : Stuck(S) => S = {}
      BY <2>2, StuckNotPlaced DEF Inv, EndInv
    <3> QED BY <2>1, <2>2, <3>1, <3>2, AcceptableEntries
  <2>3. CASE pc = "cycle"
    BY <2>1, <2>3, RestIsStuck, AcceptableEntries
  <2>4. CASE pc \in {"bad_mount", "bad_port", "bad_dependency", "unknown"}
    BY <2>1, <2>4, AcceptableEntries DEF Inv, RefusedInv
  <2> QED BY <2>2, <2>3, <2>4 DEF Inv, PCInv, Decided
<1> QED BY <1>1, ManifestInv, PTL

\* No start order is before the computed one: at the first difference, the
\* other order takes a service that was ready as well, and the loop took the
\* first of those.
THEOREM OrderIsFirst == Spec => []StableOrder
<1>1. ASSUME Inv PROVE StableOrder
  <2> SUFFICES ASSUME pc = "valid",
                      NEW p \in [1..Cardinality(Service) -> Service],
                      StartOrder(p), p # order
               PROVE  Before(order, p)
    BY DEF StableOrder
  <2> USE <1>1
  <2> DEFINE N == Cardinality(Service)
             D == {k \in 1..N : p[k] # order[k]}
  <2>1. N \in Nat /\ IsFiniteSet(Service) /\ Service \subseteq Nat
    BY ServiceFacts DEF Inv
  <2>2. order \in [1..N -> Service] /\ Len(order) = N
    BY <2>1 DEF Inv, OrderInv, EndInv
  <2>3. p \in Seq(Service) /\ Len(p) = N
    BY <2>1
  <2>4. D \in SUBSET Nat /\ D # {}
    BY <2>1, <2>2
  <2>5. PICK k \in D : \A j \in D : k <= j
    <3> HIDE DEF D
    <3> QED BY <2>4, First
  <2>6. k \in 1..N /\ p[k] # order[k] /\ p[k] \in Service /\ order[k] \in Service
    BY <2>2, <2>5
  <2>7. \A j \in 1..(k - 1) : j \in 1..N /\ order[j] = p[j]
    BY <2>1, <2>5, <2>6
  <2>8. Pre(k) = {p[j] : j \in 1..(k - 1)}
    BY <2>7 DEF Pre
  <2>9. deps(p[k]) \subseteq Pre(k)
    BY <2>3, <2>6, <2>8 DEF StartOrder
  <2>10. p[k] \notin Pre(k)
    <3>1. \A x \in Service : \E j \in 1..N : p[j] = x
      BY <2>3 DEF StartOrder, elements
    <3>2. p \in Surjection(1..N, Service)
      BY <3>1 DEF Surjection
    <3>3. IsFiniteSet(1..N) /\ Cardinality(1..N) = N
      BY <2>1, FS_Interval
    <3>4. p \in Injection(1..N, Service)
      BY <3>2, <3>3, FS_SurjSameCardinalityImpliesInj
    <3>5. \A i, j \in 1..N : p[i] = p[j] => i = j
      BY <3>4 DEF Injection, IsInjective
    <3>6. \A j \in 1..(k - 1) : p[j] # p[k]
      <4> HIDE DEF N
      <4> QED BY <2>1, <2>6, <2>7, <3>5
    <3> QED BY <2>8, <3>6
  <2>11. order[k] <= p[k]
    BY <2>2, <2>6, <2>9, <2>10 DEF Inv, OrderInv
  <2>12. order[k] < p[k]
    <3>1. order[k] \in Nat /\ p[k] \in Nat
      BY <2>1, <2>6
    <3> QED BY <2>6, <2>11, <3>1
  <2> HIDE DEF N
  <2> QED BY <2>2, <2>6, <2>7, <2>12 DEF Before
<1> QED BY <1>1, ManifestInv, PTL
=============================================================================
