---------------------------- MODULE FleetProofs ----------------------------
(***************************************************************************)
(* The safety properties of module Fleet, for any number of stacks and     *)
(* services and every set of faults.  The inductive invariant says at each *)
(* position of initialize and shutdown which stacks have been dealt with,  *)
(* and what state that leaves an unharmed one in.                          *)
(***************************************************************************)
EXTENDS Fleet, WellFoundedInduction, TLAPS

RowState == {"stopped", "failed", "proven", "intent", "starting", "running",
             "backoff", "unknown"}

TypeInv ==
    /\ desired \in [Stacks -> {"stopped", "running"}]
    /\ svc \in [Stacks -> [Services -> RowState]]
    /\ handle \in [Stacks -> [Services -> {"none", "child", "uncertain"}]]
    /\ d \in [pc : {"dead", "cold_start", "resume", "start", "spawn",
                    "shutdown", "serve"}, at : 1..(N + 1)]
    /\ d.pc \in {"start", "spawn"} => d.at \in Stacks
    /\ harmed \in SUBSET Stacks

\* Every service of stack k has row r and handle h.
Is(k, r, h) == \A s \in Services : svc[k][s] = r /\ handle[k][s] = h

Active(k) == Is(k, "running", "child")
Parked(k) == Is(k, "proven", "none")

\* Handles belong to a daemon, and while it resumes only to the stacks that
\* it has come to.
HandleInv ==
    \A k \in Stacks :
        \/ d.pc \in {"dead", "cold_start"}
        \/ d.pc = "resume" /\ k >= d.at
        \/ d.pc \in {"start", "spawn"} /\ k > d.at
        => \A s \in Services : handle[k][s] = "none"

\* The stack that is being started: services wait, one may be on its way, the
\* others run.
StartInv ==
    d.pc \in {"start", "spawn"} =>
        /\ \A s \in Services :
              \/ svc[d.at][s] = "running" /\ handle[d.at][s] = "child"
              \/ svc[d.at][s] = "intent" /\ handle[d.at][s] = "none"
              \/ /\ svc[d.at][s] = "starting" /\ handle[d.at][s] = "none"
                 /\ d.pc = "spawn"
        /\ d.pc = "spawn" =>
              \E s \in Services : \A t \in Services :
                 svc[d.at][t] = "starting" <=> t = s

\* Only the stack that is being started is in the middle of a start, and the
\* stacks that resume has passed are not resumable.
HalfInv ==
    \A k \in Stacks :
        /\ \/ d.pc \in {"resume", "shutdown", "serve"}
           \/ d.pc \in {"start", "spawn"} /\ k # d.at
           => \A s \in Services : svc[k][s] \notin {"intent", "starting"}
        /\ \/ d.pc = "serve"
           \/ d.pc \in {"resume", "start", "spawn"} /\ k < d.at
           => ~resumable(k)

\* What an unharmed stack that should run looks like.
UnharmedInv ==
    \A k \in Stacks \ harmed : desired[k] = "running" =>
        /\ d.pc = "serve" => Active(k)
        /\ d.pc = "shutdown" => Parked(k) \/ (k >= d.at /\ Active(k))
        /\ d.pc \in {"dead", "cold_start"} => Parked(k) \/ Is(k, "intent", "none")
        /\ d.pc \in {"resume", "start", "spawn"} =>
              /\ k < d.at => Active(k)
              /\ k > d.at => Parked(k)
        /\ d.pc = "resume" /\ k = d.at => Parked(k)

Inv == TypeInv /\ HandleInv /\ StartInv /\ HalfInv /\ UnharmedInv

-----------------------------------------------------------------------------
(* Lemmas *)

\* A non-empty set of services has a first one.
LEMMA FirstService ==
    ASSUME NEW S \in SUBSET Services, S # {}
    PROVE  \E n \in S : \A m \in S : n <= m
<1> DEFINE R == {ss \in Nat \X Nat : ss[1] < ss[2]}
<1>1. IsWellFoundedOn(R, Nat)
  <2>1. OpToRel(<, Nat) = R
    BY Zenon DEF OpToRel
  <2> QED BY <2>1, NatLessThanWellFounded, Zenon
<1>2. S \subseteq Nat
  BY SizeAssumption DEF Services
<1>3. PICK n \in S : \A m \in S : ~ (<<m, n>> \in R)
  <2> HIDE DEF R
  <2> QED BY <1>1, <1>2, WFMin
<1>4. ASSUME NEW m \in S PROVE n <= m
  <2>1. m \in Nat /\ n \in Nat /\ <<m, n>> \in Nat \X Nat
    BY <1>2
  <2>2. <<m, n>>[1] = m /\ <<m, n>>[2] = n
    OBVIOUS
  <2>3. ~ (<<m, n>>[1] < <<m, n>>[2])
    BY <1>3, <2>1, Zenon
  <2> QED BY <2>1, <2>2, <2>3
<1> QED BY <1>4

\* The service that StartNext takes waits to be started.
LEMMA NextWaits == ASSUME todo # {} PROVE next \in todo
<1>1. todo \in SUBSET Services
  BY DEF todo
<1> QED BY <1>1, FirstService DEF next

\* There is a service, so a resumable stack has a parked one.
LEMMA Resumable ==
    ASSUME TypeInv, NEW k \in Stacks
    PROVE  resumable(k) <=> /\ desired[k] = "running"
                            /\ \A s \in Services : svc[k][s] = "proven"
BY DEF TypeInv, resumable, all

\* A stack has a service.
LEMMA SomeService == 1 \in Services /\ Services # {}
BY SizeAssumption DEF Services

-----------------------------------------------------------------------------
(* initialize *)

\* runit starts a daemon.
LEMMA BootInv == ASSUME Inv, Boot PROVE Inv'
<1> USE SizeAssumption
<1>1. TypeInv'
  BY DEF Inv, TypeInv, Boot, Stacks
<1>2. HandleInv' /\ StartInv' /\ HalfInv'
  BY DEF Inv, TypeInv, HandleInv, StartInv, HalfInv, Boot
<1>3. UnharmedInv'
  BY DEF Inv, TypeInv, UnharmedInv, Boot, Parked, Active, Is
<1> QED BY <1>1, <1>2, <1>3 DEF Inv

\* Interrupted starts are reclassified and handles are gone.
LEMMA ColdStartInv == ASSUME Inv, ColdStart PROVE Inv'
<1> USE SizeAssumption
<1>1. \A k \in Stacks, s \in Services :
         /\ svc'[k][s] = cold_row(svc[k][s]) /\ handle'[k][s] = "none"
         /\ svc'[k][s] \in RowState \ {"intent", "starting"}
         /\ svc[k][s] \in {"intent", "proven"} => svc'[k][s] = "proven"
  BY DEF Inv, TypeInv, ColdStart, cold_row, all, RowState
<1>2. TypeInv'
  <2>1. svc' \in [Stacks -> [Services -> RowState]]
    BY <1>1 DEF ColdStart
  <2> QED BY <2>1 DEF Inv, TypeInv, ColdStart, all, Stacks
<1>3. HandleInv' /\ StartInv'
  BY <1>1 DEF HandleInv, StartInv, ColdStart
<1>4. HalfInv'
  BY <1>1 DEF HalfInv, ColdStart, Stacks
<1>5. UnharmedInv'
  <2> SUFFICES ASSUME NEW k \in Stacks \ harmed, desired[k] = "running"
               PROVE  Parked(k)' /\ k >= 1
    BY DEF UnharmedInv, ColdStart, Stacks
  <2>1. Parked(k) \/ Is(k, "intent", "none")
    BY DEF Inv, UnharmedInv, ColdStart
  <2> QED BY <1>1, <2>1 DEF Parked, Is, Stacks
<1> QED BY <1>2, <1>3, <1>4, <1>5 DEF Inv

\* A resumable stack is taken up, another one is passed.
LEMMA ResumeInv == ASSUME Inv, Resume PROVE Inv'
<1> USE SizeAssumption
<1>1. PICK a \in Stacks : a = d.at
  BY DEF Inv, TypeInv, Resume, Stacks
<1>2. CASE resumable(a)
  <2>1. /\ svc' = [svc EXCEPT ![a] = all("intent")]
        /\ d' = [d EXCEPT !.pc = "start"] /\ UNCHANGED <<desired, handle, harmed>>
        /\ d'.pc = "start" /\ d'.at = a /\ d.pc = "resume"
    BY <1>1, <1>2 DEF Resume, Inv, TypeInv
  <2>2. /\ \A s \in Services : svc'[a][s] = "intent"
        /\ \A k \in Stacks : k # a => svc'[k] = svc[k]
    BY <2>1 DEF Inv, TypeInv, all
  <2>3. TypeInv'
    BY <1>1, <2>1 DEF Inv, TypeInv, all, RowState, Stacks
  <2>4. HandleInv'
    BY <1>1, <2>1 DEF Inv, HandleInv, Stacks
  <2>5. StartInv'
    BY <1>1, <2>1, <2>2 DEF Inv, HandleInv, StartInv, Stacks
  <2>6. HalfInv'
    BY <1>1, <2>1, <2>2 DEF Inv, HalfInv, resumable, Stacks, all
  <2>7. UnharmedInv'
    BY <1>1, <2>1, <2>2 DEF Inv, UnharmedInv, Active, Parked, Is, Stacks
  <2> QED BY <2>3, <2>4, <2>5, <2>6, <2>7 DEF Inv
<1>3. CASE ~resumable(a)
  <2>1. /\ UNCHANGED <<desired, svc, handle, harmed>>
        /\ d' = [d EXCEPT !.at = a + 1]
        /\ d'.pc = "resume" /\ d'.at = a + 1 /\ d.pc = "resume"
    BY <1>1, <1>3 DEF Resume, Inv, TypeInv
  <2>2. TypeInv'
    BY <1>1, <2>1 DEF Inv, TypeInv, Stacks
  <2>3. HandleInv' /\ StartInv'
    BY <1>1, <2>1 DEF Inv, HandleInv, StartInv, Stacks
  <2>4. HalfInv'
    BY <1>1, <1>3, <2>1 DEF Inv, HalfInv, resumable, Stacks, all
  <2>5. UnharmedInv'
    <3>1. a \in harmed \/ desired[a] # "running"
      BY <1>1, <1>3, <2>1, Resumable DEF Inv, UnharmedInv, Parked, Is
    <3> QED
      BY <1>1, <2>1, <3>1 DEF Inv, UnharmedInv, Active, Parked, Is, Stacks
  <2> QED BY <2>2, <2>3, <2>4, <2>5 DEF Inv
<1> QED BY <1>2, <1>3

\* The next service of the stack at hand is begun, or all have been.
LEMMA StartNextInv == ASSUME Inv, StartNext PROVE Inv'
<1> USE SizeAssumption
<1>1. PICK a \in Stacks : a = d.at
  BY DEF Inv, TypeInv, StartNext
<1>2. /\ d.pc = "start" /\ UNCHANGED <<desired, handle, harmed>>
      /\ \A s \in Services :
            \/ svc[a][s] = "running" /\ handle[a][s] = "child"
            \/ svc[a][s] = "intent" /\ handle[a][s] = "none"
  BY <1>1 DEF Inv, StartInv, StartNext
<1>3. CASE todo = {}
  <2>1. UNCHANGED svc /\ d' = [pc |-> "resume", at |-> a + 1]
    BY <1>1, <1>3 DEF StartNext
  <2>2. \A s \in Services : svc[a][s] = "running" /\ handle[a][s] = "child"
    BY <1>1, <1>2, <1>3 DEF todo
  <2>3. TypeInv'
    BY <1>1, <1>2, <2>1 DEF Inv, TypeInv, Stacks
  <2>4. HandleInv' /\ StartInv'
    BY <1>1, <1>2, <2>1 DEF Inv, HandleInv, StartInv, Stacks
  <2>5. ~resumable(a)
    BY <2>2, SomeService, Resumable DEF Inv
  <2>6. HalfInv'
    BY <1>1, <1>2, <2>1, <2>2, <2>5 DEF Inv, HalfInv, resumable, all, Stacks
  <2>7. UnharmedInv'
    BY <1>1, <1>2, <2>1, <2>2 DEF Inv, UnharmedInv, Active, Parked, Is, Stacks
  <2> QED BY <2>3, <2>4, <2>6, <2>7 DEF Inv
<1>4. CASE todo # {}
  <2>1. PICK n \in Services : n = next /\ svc[a][n] = "intent"
    BY <1>1, <1>4, NextWaits DEF todo
  <2>2. /\ svc' = [svc EXCEPT ![a][n] = "starting"]
        /\ d' = [d EXCEPT !.pc = "spawn"] /\ d'.pc = "spawn" /\ d'.at = a
    BY <1>1, <1>4, <2>1 DEF StartNext, Inv, TypeInv
  <2>3. /\ svc'[a][n] = "starting"
        /\ \A s \in Services : s # n => svc'[a][s] = svc[a][s]
        /\ \A k \in Stacks : k # a => svc'[k] = svc[k]
    BY <2>2 DEF Inv, TypeInv
  <2>4. TypeInv'
    BY <1>1, <1>2, <2>2 DEF Inv, TypeInv, RowState
  <2>5. HandleInv'
    BY <1>1, <1>2, <2>2 DEF Inv, HandleInv
  <2>6. StartInv'
    BY <1>1, <1>2, <2>1, <2>2, <2>3 DEF StartInv
  <2>7. HalfInv'
    BY <1>1, <1>2, <2>2, <2>3 DEF Inv, HalfInv, resumable, all, Stacks
  <2>8. UnharmedInv'
    BY <1>1, <1>2, <2>2, <2>3 DEF Inv, UnharmedInv, Active, Parked, Is, Stacks
  <2> QED BY <2>4, <2>5, <2>6, <2>7, <2>8 DEF Inv
<1> QED BY <1>3, <1>4

\* The service on its way is the one that `current` names.
LEMMA CurrentStarts ==
    ASSUME Inv, d.pc = "spawn"
    PROVE  /\ current \in Services
           /\ \A t \in Services : svc[d.at][t] = "starting" <=> t = current
BY DEF Inv, StartInv, current

\* The service on its way runs.
LEMMA SpawnInv == ASSUME Inv, Spawn PROVE Inv'
<1> USE SizeAssumption
<1>1. PICK a \in Stacks : a = d.at
  BY DEF Inv, TypeInv, Spawn
<1>2. PICK c \in Services : /\ c = current
                            /\ \A t \in Services : svc[a][t] = "starting" <=> t = c
  BY <1>1, CurrentStarts DEF Spawn
<1>3. /\ svc' = [svc EXCEPT ![a][c] = "running"]
      /\ handle' = [handle EXCEPT ![a][c] = "child"]
      /\ d' = [d EXCEPT !.pc = "start"] /\ d'.pc = "start" /\ d'.at = a
      /\ d.pc = "spawn" /\ UNCHANGED <<desired, harmed>>
  BY <1>1, <1>2 DEF Spawn, Inv, TypeInv
<1>4. /\ svc'[a][c] = "running" /\ handle'[a][c] = "child"
      /\ \A s \in Services : s # c => svc'[a][s] = svc[a][s]
                                      /\ handle'[a][s] = handle[a][s]
      /\ \A k \in Stacks : k # a => svc'[k] = svc[k] /\ handle'[k] = handle[k]
  BY <1>3 DEF Inv, TypeInv
<1>5. TypeInv'
  BY <1>1, <1>3 DEF Inv, TypeInv, RowState
<1>6. HandleInv'
  BY <1>1, <1>3, <1>4 DEF Inv, HandleInv, Stacks
<1>7. StartInv'
  BY <1>1, <1>2, <1>3, <1>4 DEF Inv, StartInv
<1>8. HalfInv'
  BY <1>1, <1>3, <1>4 DEF Inv, HalfInv, resumable, all, Stacks
<1>9. UnharmedInv'
  BY <1>1, <1>3, <1>4 DEF Inv, UnharmedInv, Active, Parked, Is, Stacks
<1> QED BY <1>5, <1>6, <1>7, <1>8, <1>9 DEF Inv

\* What an abort leaves of a service.
Fate == [row : {"failed", "backoff", "unknown"}, handle : {"none", "uncertain"}]

LEMMA AbortFates ==
    ASSUME NEW s, NEW failed, NEW bad, NEW gone,
           NEW f \in abort_fates(s, failed, bad, gone)
    PROVE  f \in Fate
BY DEF abort_fates, start_fates, gone_fates, Fate

\* A failed start: the stack is aborted and harmed, and the runtime dropped.
LEMMA AbortStartInv ==
    ASSUME Inv, d.pc \in {"start", "spawn"}, NEW failed, NEW gone,
           abort_start(failed, gone)
    PROVE  Inv'
<1> USE SizeAssumption
<1>1. PICK a \in Stacks : a = d.at
  BY DEF Inv, TypeInv
<1>2. PICK fate :
         /\ \A s \in Services : fate[s] \in Fate
         /\ svc' = [svc EXCEPT ![a] = [s \in Services |-> fate[s].row]]
         /\ handle' = [handle EXCEPT ![a] = [s \in Services |-> fate[s].handle]]
  <2>1. PICK bad \in (gone + 1)..failed :
           \E fate \in [Services -> UNION {abort_fates(s, failed, bad, gone) :
                                             s \in Services}] :
              /\ \A s \in Services : fate[s] \in abort_fates(s, failed, bad, gone)
              /\ svc' = [svc EXCEPT ![d.at] =
                           [s \in Services |-> fate[s].row]]
              /\ handle' = [handle EXCEPT ![d.at] =
                              [s \in Services |-> fate[s].handle]]
    BY Zenon DEF abort_start
  <2> QED BY <1>1, <2>1, AbortFates, Zenon
<1>3. /\ harmed' = harmed \cup {a} /\ UNCHANGED desired
      /\ d' = [pc |-> "shutdown", at |-> IF drop_shuts(handle') THEN 1 ELSE N + 1]
  BY <1>1 DEF abort_start
<1>4. \A s \in Services : /\ fate[s].row \in {"failed", "backoff", "unknown"}
                          /\ fate[s].handle \in {"none", "uncertain"}
  BY <1>2 DEF Fate
<1>5. /\ \A s \in Services : /\ svc'[a][s] \in {"failed", "backoff", "unknown"}
                             /\ handle'[a][s] \in {"none", "uncertain"}
      /\ \A k \in Stacks : k # a => svc'[k] = svc[k] /\ handle'[k] = handle[k]
  BY <1>1, <1>2, <1>4 DEF Inv, TypeInv
<1>6. TypeInv'
  <2>1. /\ svc' \in [Stacks -> [Services -> RowState]]
        /\ handle' \in [Stacks -> [Services -> {"none", "child", "uncertain"}]]
    BY <1>2, <1>4 DEF Inv, TypeInv, RowState
  <2> QED BY <1>3, <2>1 DEF Inv, TypeInv
<1>7. HandleInv' /\ StartInv'
  BY <1>3 DEF HandleInv, StartInv
<1>8. HalfInv'
  BY <1>1, <1>3, <1>5 DEF Inv, HalfInv
<1>9. UnharmedInv'
  <2> SUFFICES ASSUME NEW k \in Stacks \ harmed', desired[k] = "running"
               PROVE  Parked(k)' \/ (k >= d'.at /\ Active(k)')
    BY <1>3 DEF UnharmedInv
  <2>1. k # a
    BY <1>3
  <2>2. CASE k < a
    <3>1. Active(k)'
      BY <1>1, <1>3, <1>5, <2>1, <2>2 DEF Inv, UnharmedInv, Active, Is
    <3>2. drop_shuts(handle')
      BY <3>1, SomeService DEF drop_shuts, Active, Is
    <3> QED BY <1>3, <3>1, <3>2 DEF Stacks
  <2>3. CASE k > a
    BY <1>1, <1>3, <1>5, <2>1, <2>3 DEF Inv, UnharmedInv, Parked, Is
  <2> QED BY <2>1, <2>2, <2>3 DEF Stacks
<1> QED BY <1>6, <1>7, <1>8, <1>9 DEF Inv

\* A start fails, or what it depends on.
LEMMA StartFailsInv == ASSUME Inv, DependencyFails \/ SpawnFails PROVE Inv'
BY AbortStartInv DEF DependencyFails, SpawnFails

\* All stacks have been dealt with: the daemon serves, or shuts down at once.
LEMMA InitializedInv == ASSUME Inv, Initialized \/ Interrupted PROVE Inv'
<1> USE SizeAssumption
<1>1. /\ d.pc = "resume" /\ d.at = N + 1
      /\ UNCHANGED <<desired, svc, handle, harmed>>
      /\ \/ d' = [pc |-> "serve", at |-> 1]
         \/ d' = [pc |-> "shutdown", at |-> 1]
  BY DEF Initialized, Interrupted, all_resumed
<1>2. \A k \in Stacks : k < N + 1 /\ k >= 1
  BY DEF Stacks
<1>3. TypeInv'
  BY <1>1 DEF Inv, TypeInv
<1>4. HandleInv' /\ StartInv'
  BY <1>1 DEF HandleInv, StartInv
<1>5. HalfInv'
  BY <1>1, <1>2 DEF Inv, HalfInv, resumable, all
<1>6. UnharmedInv'
  BY <1>1, <1>2 DEF Inv, UnharmedInv, Active, Parked, Is
<1> QED BY <1>3, <1>4, <1>5, <1>6 DEF Inv

-----------------------------------------------------------------------------
(* shutdown *)

\* What the shutdown of stack k writes, whatever faults there are.
ShutDown(k) ==
    LET stops == {s \in Services : blocks(k, s)}
        last == IF stops = {} THEN 0
                ELSE CHOOSE s \in stops : \A t \in stops : t <= s
        fails == {s \in Services : s > last /\ handle[k][s] = "child"}
    IN  \/ ~shuts(k) /\ UNCHANGED <<svc, handle, harmed>>
        \/ \E halt \in {last} \cup fails :
              /\ svc' = [svc EXCEPT ![k] =
                           [s \in Services |-> shutdown_row(k, s, halt)]]
              /\ handle' = [handle EXCEPT ![k] =
                   [s \in Services |->
                      IF s > halt THEN "none"
                      ELSE IF s = halt /\ handle[k][s] = "child"
                      THEN "uncertain" ELSE handle[k][s]]]
              /\ harmed' = IF halt = 0 THEN harmed ELSE harmed \cup {k}

\* One stack is shut down.  An unharmed stack that runs has nothing that
\* blocks, so all its services are parked, unless a stop fails and harms it.
LEMMA ShutdownStackInv == ASSUME Inv, ShutdownStack PROVE Inv'
<1> USE SizeAssumption
<1>1. PICK a \in Stacks : a = d.at
  BY DEF Inv, TypeInv, ShutdownStack, Stacks
<1>2. /\ d.pc = "shutdown" /\ d' = [d EXCEPT !.at = a + 1]
      /\ d'.pc = "shutdown" /\ d'.at = a + 1 /\ UNCHANGED desired
  BY <1>1 DEF ShutdownStack, Inv, TypeInv
<1> DEFINE stops == {s \in Services : blocks(a, s)}
           last == IF stops = {} THEN 0
                   ELSE CHOOSE s \in stops : \A t \in stops : t <= s
           fails == {s \in Services : s > last /\ handle[a][s] = "child"}
           After(halt) ==
             /\ svc' = [svc EXCEPT ![a] =
                          [s \in Services |-> shutdown_row(a, s, halt)]]
             /\ handle' = [handle EXCEPT ![a] =
                  [s \in Services |->
                     IF s > halt THEN "none"
                     ELSE IF s = halt /\ handle[a][s] = "child"
                     THEN "uncertain" ELSE handle[a][s]]]
             /\ harmed' = IF halt = 0 THEN harmed ELSE harmed \cup {a}
<1>3. \/ ~shuts(a) /\ UNCHANGED <<svc, handle, harmed>>
      \/ \E halt \in {last} \cup fails : After(halt)
  <2>1. ShutDown(d.at)
    BY Zenon DEF ShutdownStack, ShutDown
  <2>2. ShutDown(a)
    BY <1>1, <2>1
  <2> QED
    BY <2>2, Zenon DEF ShutDown
<1>4. HandleInv' /\ StartInv'
  BY <1>2 DEF HandleInv, StartInv
<1>5. CASE ~shuts(a) /\ UNCHANGED <<svc, handle, harmed>>
  <2>1. TypeInv'
    BY <1>1, <1>2, <1>5 DEF Inv, TypeInv, Stacks
  <2>2. HalfInv'
    BY <1>2, <1>5 DEF Inv, HalfInv
  <2>3. ~Active(a)
    BY <1>5, SomeService DEF shuts, Active, Is
  <2>4. UnharmedInv'
    BY <1>1, <1>2, <1>5, <2>3 DEF Inv, UnharmedInv, Active, Parked, Is, Stacks
  <2> QED BY <1>4, <2>1, <2>2, <2>4 DEF Inv
<1>6. CASE \E halt \in {last} \cup fails : After(halt)
  <2>1. PICK halt \in {last} \cup fails : After(halt)
    BY <1>6
  <2>2. \A s \in Services : shutdown_row(a, s, halt) \in
                              {svc[a][s], "unknown", "proven"}
    BY DEF shutdown_row
  <2>3. /\ svc' \in [Stacks -> [Services -> RowState]]
        /\ handle' \in [Stacks -> [Services -> {"none", "child", "uncertain"}]]
    <3> HIDE DEF last, fails
    <3>1. \A s \in Services : shutdown_row(a, s, halt) \in RowState
      BY <2>2 DEF Inv, TypeInv, RowState
    <3> QED BY <2>1, <3>1 DEF Inv, TypeInv
  <2>4. TypeInv'
    <3> HIDE DEF last, fails
    <3> QED BY <1>1, <1>2, <2>1, <2>3 DEF Inv, TypeInv, Stacks
  <2>5. HalfInv'
    <3> HIDE DEF last, fails
    <3> QED BY <1>2, <2>1, <2>2 DEF Inv, TypeInv, HalfInv
  <2>6. UnharmedInv'
    <3> SUFFICES ASSUME NEW k \in Stacks \ harmed', desired[k] = "running"
                 PROVE  Parked(k)' \/ (k >= a + 1 /\ Active(k)')
      BY <1>2 DEF UnharmedInv
    <3>1. k \in Stacks \ harmed
      BY <2>1
    <3>2. Parked(k) \/ (k >= a /\ Active(k))
      BY <1>1, <1>2, <3>1 DEF Inv, UnharmedInv
    <3>3. CASE k # a
      <4>1. svc'[k] = svc[k] /\ handle'[k] = handle[k]
        BY <2>1, <3>3 DEF Inv, TypeInv
      <4> QED BY <3>2, <3>3, <4>1 DEF Parked, Active, Is, Stacks
    <3>4. CASE k = a
      <4>1. halt = 0
        BY <2>1, <3>4
      <4>2. \A s \in Services : s > 0 /\ ~(s < 0) /\ s # 0
        BY DEF Services
      <4>3. \A s \in Services :
               /\ handle'[a][s] = "none"
               /\ svc'[a][s] = IF handle[a][s] = "child" \/ svc[a][s] = "backoff"
                               THEN "proven" ELSE svc[a][s]
        <5> HIDE DEF last, fails
        <5> QED BY <2>1, <4>1, <4>2 DEF shutdown_row, Inv, TypeInv
      <4> QED BY <3>2, <3>4, <4>3 DEF Parked, Active, Is
    <3> QED BY <3>3, <3>4
  <2> QED BY <1>4, <2>4, <2>5, <2>6 DEF Inv
<1> QED BY <1>3, <1>5, <1>6

\* The daemon ends after it shut everything down.
LEMMA ExitInv == ASSUME Inv, Exit PROVE Inv'
<1> USE SizeAssumption
<1>1. TypeInv'
  BY DEF Inv, TypeInv, Exit, all
<1>2. HandleInv' /\ StartInv' /\ HalfInv'
  BY DEF HandleInv, StartInv, HalfInv, Exit, all
<1>3. UnharmedInv'
  <2> SUFFICES ASSUME NEW k \in Stacks \ harmed, desired[k] = "running"
               PROVE  Parked(k)'
    BY DEF UnharmedInv, Exit
  <2>1. Parked(k)
    BY DEF Inv, UnharmedInv, Exit, Stacks
  <2> QED BY <2>1 DEF Parked, Is, Exit, all
<1> QED BY <1>1, <1>2, <1>3 DEF Inv

\* The daemon is killed, which harms every stack that had begun to run.
LEMMA CrashInv == ASSUME Inv, Crash PROVE Inv'
<1> USE SizeAssumption
<1>1. TypeInv'
  BY DEF Inv, TypeInv, Crash, all
<1>2. HandleInv' /\ StartInv' /\ HalfInv'
  BY DEF HandleInv, StartInv, HalfInv, Crash, all
<1>3. UnharmedInv'
  <2> SUFFICES ASSUME NEW k \in Stacks \ harmed', desired[k] = "running"
               PROVE  \/ \A s \in Services : svc[k][s] = "proven"
                      \/ \A s \in Services : svc[k][s] = "intent"
    BY DEF UnharmedInv, Crash, all, Parked, Is
  <2>1. /\ k \in Stacks \ harmed
        /\ \A s \in Services : svc[k][s] \notin {"starting", "running"}
    BY DEF Crash
  <2>2. ~Active(k)
    BY <2>1, SomeService DEF Active, Is
  <2>3. CASE d.pc \in {"start", "spawn"} /\ k = d.at
    BY <2>1, <2>3 DEF Inv, StartInv
  <2>4. CASE ~(d.pc \in {"start", "spawn"} /\ k = d.at)
    <3>1. k \in Nat /\ d.at \in Nat
      BY DEF Inv, TypeInv, Stacks
    <3>2. d.pc \in {"cold_start", "resume", "start", "spawn", "shutdown", "serve"}
      BY DEF Inv, TypeInv, Crash
    <3>3. Parked(k) \/ Is(k, "intent", "none")
      BY <2>1, <2>2, <2>4, <3>1, <3>2 DEF Inv, UnharmedInv
    <3> QED BY <3>3 DEF Parked, Is
  <2> QED BY <2>3, <2>4
<1> QED BY <1>1, <1>2, <1>3 DEF Inv

-----------------------------------------------------------------------------
(* The serve loop *)

\* The daemon is told to stop.
LEMMA SigTermInv == ASSUME Inv, SigTerm PROVE Inv'
<1> USE SizeAssumption
<1>1. TypeInv'
  BY DEF Inv, TypeInv, SigTerm
<1>2. HandleInv' /\ StartInv' /\ HalfInv'
  BY DEF Inv, HandleInv, StartInv, HalfInv, SigTerm
<1>3. UnharmedInv'
  BY DEF Inv, UnharmedInv, SigTerm, Active, Is, Stacks
<1> QED BY <1>1, <1>2, <1>3 DEF Inv

\* While the daemon serves, only the first two parts of the invariant and the
\* state of the stack at hand can change.
LEMMA ServeInv ==
    ASSUME Inv, d.pc = "serve", UNCHANGED d, TypeInv', NEW a \in Stacks,
           \A k \in Stacks : k # a =>
              /\ desired'[k] = desired[k] /\ svc'[k] = svc[k]
              /\ handle'[k] = handle[k] /\ (k \in harmed <=> k \in harmed'),
           \A s \in Services : svc'[a][s] \notin {"intent", "starting"},
           ~resumable(a)',
           a \notin harmed' /\ desired'[a] = "running" => Active(a)'
    PROVE  Inv'
<1>1. HandleInv' /\ StartInv'
  BY DEF HandleInv, StartInv
<1>2. HalfInv'
  BY DEF Inv, HalfInv, resumable, all
<1>3. UnharmedInv'
  BY DEF Inv, UnharmedInv, Active, Is
<1> QED BY <1>1, <1>2, <1>3 DEF Inv

\* A stack comes up.
LEMMA UpInv == ASSUME Inv, NEW a \in Stacks, Up(a) PROVE Inv'
<1>1. TypeInv'
  BY DEF Inv, TypeInv, Up, all, RowState
<1>2. \A s \in Services : svc'[a][s] = "running" /\ handle'[a][s] = "child"
  BY DEF Inv, TypeInv, Up, all
<1>3. ~resumable(a)'
  BY <1>2, SomeService DEF resumable, all
<1> QED BY <1>1, <1>2, <1>3, ServeInv DEF Inv, TypeInv, Up, Active, Is

\* A stack goes down.
LEMMA DownInv == ASSUME Inv, NEW a \in Stacks, Down(a) PROVE Inv'
<1>1. TypeInv'
  BY DEF Inv, TypeInv, Down, all, RowState
<1>2. desired'[a] = "stopped" /\ \A s \in Services : svc'[a][s] = "stopped"
  BY DEF Inv, TypeInv, Down, all
<1>3. ~resumable(a)'
  BY <1>2 DEF resumable
<1> QED BY <1>1, <1>2, <1>3, ServeInv DEF Inv, TypeInv, Down

\* A workload ends by itself.
LEMMA WorkloadExitsInv ==
    ASSUME Inv, NEW a \in Stacks, NEW s \in Services, WorkloadExits(a, s)
    PROVE  Inv'
<1>1. PICK r \in {"failed", "backoff", "unknown"} :
         svc' = [svc EXCEPT ![a][s] = r]
  BY DEF WorkloadExits
<1>2. TypeInv'
  BY <1>1 DEF Inv, TypeInv, WorkloadExits, RowState
<1>3. /\ svc'[a][s] = r
      /\ \A t \in Services : svc'[a][t] \notin {"intent", "starting"}
  BY <1>1 DEF Inv, TypeInv, HalfInv, WorkloadExits
<1>4. ~resumable(a)'
  BY <1>3 DEF resumable, all
<1>5. \A k \in Stacks : k # a =>
         /\ desired'[k] = desired[k] /\ svc'[k] = svc[k]
         /\ handle'[k] = handle[k] /\ (k \in harmed <=> k \in harmed')
  BY <1>1 DEF Inv, TypeInv, WorkloadExits
<1>6. d.pc = "serve" /\ UNCHANGED d /\ a \in harmed'
  BY DEF WorkloadExits
<1> QED BY <1>2, <1>3, <1>4, <1>5, <1>6, ServeInv

\* A due restart is done.
LEMMA RestartInv ==
    ASSUME Inv, NEW a \in Stacks, NEW s \in Services, Restart(a, s)
    PROVE  Inv'
<1>1. TypeInv'
  BY DEF Inv, TypeInv, Restart, RowState
<1>2. /\ svc'[a][s] = "running"
      /\ \A t \in Services : svc'[a][t] \notin {"intent", "starting"}
  BY DEF Inv, TypeInv, HalfInv, Restart
<1>3. ~resumable(a)'
  BY <1>2 DEF resumable, all
<1>4. \A k \in Stacks : k # a =>
         /\ desired'[k] = desired[k] /\ svc'[k] = svc[k]
         /\ handle'[k] = handle[k] /\ (k \in harmed <=> k \in harmed')
  BY DEF Inv, TypeInv, Restart
<1>5. a \in harmed /\ d.pc = "serve" /\ UNCHANGED <<d, harmed>>
  BY DEF Inv, UnharmedInv, Restart, Active, Is
<1> QED BY <1>1, <1>2, <1>3, <1>4, <1>5, ServeInv

-----------------------------------------------------------------------------
(* The theorems *)

\* The inductive invariant of initialize, the serve loop and shutdown.
LEMMA FleetInv == Spec => []Inv
<1>1. Init => Inv
  BY SizeAssumption
     DEF Init, Inv, TypeInv, HandleInv, StartInv, HalfInv, UnharmedInv, all,
         RowState, resumable
<1>2. Inv /\ [Next]_vars => Inv'
  <2> SUFFICES ASSUME Inv, [Next]_vars PROVE Inv'
    OBVIOUS
  <2>1. CASE UNCHANGED vars
    BY <2>1 DEF vars, Inv, TypeInv, HandleInv, StartInv, HalfInv, UnharmedInv,
                Active, Parked, Is, resumable, all
  <2>2. CASE Next
    BY <2>2, BootInv, ColdStartInv, ResumeInv, StartNextInv, SpawnInv,
       StartFailsInv, InitializedInv, ShutdownStackInv, ExitInv, CrashInv,
       SigTermInv, UpInv, DownInv, WorkloadExitsInv, RestartInv
       DEF Next, Daemon
  <2> QED BY <2>1, <2>2
<1> QED BY <1>1, <1>2, PTL DEF Spec

\* With any number of stacks, one that should run and had no failure of its
\* own runs whenever a daemon serves, whatever the other stacks did.
THEOREM StacksAreIndependent == Spec => []UnharmedStacksRun
<1>1. Inv => UnharmedStacksRun
  BY DEF Inv, TypeInv, UnharmedInv, UnharmedStacksRun, Active, Is, all
<1> QED BY <1>1, FleetInv, PTL

\* A daemon that serves has left no stack in the middle of a start and none
\* that it could have resumed.
THEOREM ResumesAreComplete == Spec => []NothingHalfResumed
<1>1. Inv => NothingHalfResumed
  BY DEF Inv, HalfInv, NothingHalfResumed
<1> QED BY <1>1, FleetInv, PTL
=============================================================================
