-------------------------- MODULE CandidatesProofs --------------------------
(***************************************************************************)
(* The five invariants of module Candidates, for every set of services, of *)
(* request ids and of definitions, and every set of faults.                *)
(*                                                                         *)
(* None of them is inductive: each rests on what the whole history of a    *)
(* stack looks like.  Inv says what a failed `up` leaves behind: which     *)
(* generation each of its rows names and what that generation can still    *)
(* be (RowInv), when two operations may name the same one (Sharing), which *)
(* operation is the newest (NewestInv), that only the newest generation    *)
(* of an active service can be partial (ActiveInv), and what is already    *)
(* done at each position of prepare_candidate (Position).                  *)
(***************************************************************************)
EXTENDS Candidates, SequenceTheorems, TLAPS

Disk == {"none", "empty", "partial", "complete", "twice"}

\* Inside prepare_candidate; the positions with a service at hand.
SubjectPC == {"logs", "invoke", "install", "mark_installed",
              "mark_rootfs_unknown", "mark_unknown", "start", "spawn",
              "commit", "record_failed"}
WorkPC == SubjectPC \cup {"next", "abort_others", "finalize"}

Stack == [desired : {"running", "stopped"}, revision : Nat,
          def : Defs \cup {NoDef}]
Daemon == [pc : WorkPC \cup {"idle", "dead"}, id : Ids \cup {0},
           cur : Services, todo : SUBSET Services,
           err : {"none", "failed", "unknown"}]

TypeOK ==
    /\ stack \in Stack
    /\ active \subseteq Services
    /\ svc \in [Services -> {"quiet", "busy", "backoff", "unknown"}]
    /\ gen \in [Services -> Seq(Generation)]
    /\ disk \in [Services -> Seq(Disk)]
    /\ \A s \in Services : Len(disk[s]) = Len(gen[s])
    /\ ops \in [Ids -> Operation]
    /\ d \in Daemon
    /\ cand \in Ids \cup {0}

\* What an operation names: its definition's services, at generations that
\* exist, for the next revision at most.
Shape ==
    \A i \in Ids :
        /\ ops[i].outcome = "none" =>
              \A s \in Services : ops[i].row[s] = NoRow
        /\ ops[i].outcome # "none" =>
              /\ ops[i].def \in Defs
              /\ names(i) = ServicesOf[ops[i].def]
        /\ ops[i].revision <= stack.revision + 1
        /\ \A s \in Services :
              /\ ops[i].row[s].gen <= latest(s)
              /\ ops[i].row[s].gen = 0 => ops[i].row[s] = NoRow

\* The generations part of RootfsTruth.
Trees ==
    \A s \in Services : \A g \in 1..latest(s) :
        /\ disk[s][g] # "twice"
        /\ gen[s][g].state = "installed" => disk[s][g] = "complete"
        /\ gen[s][g].state = "absent" => disk[s][g] = "none"

\* What the row r of operation i for service s says of its generation g and
\* of the tree k under that generation's alias.
Early == {"intent", "logs_prepared"}
OfRow(i, s, r, g, k) ==
    /\ r.phase \in Early =>
          /\ r.outcome = "null"
          /\ ops[i].outcome = "null"
          /\ g = [state |-> "preparing", role |-> "candidate"]
          /\ k = "none"
    /\ r.phase = "failed_pre_effect" => r.outcome = "failure" /\ k = "none"
    /\ r.phase \in {"installed", "start_invoked", "running"} => k = "complete"
    /\ r.outcome = "success" => r.phase = "running"
    /\ g.state = "preparing" /\ k = "none" =>
          \/ r.phase \in Early \cup {"failed_pre_effect"}
          \/ d.pc = "install" /\ i = d.id /\ s = d.cur
    /\ ops[i].outcome = "null" => g.role = "candidate"
    /\ ops[i].revision = stack.revision + 1 => g.role # "current"
    /\ k = "partial" => /\ ops[i].revision = stack.revision + 1
                        /\ ops[i].outcome \in {"null", "failure"}
RowAt(i, s) ==
    ops[i].row[s].gen # 0 =>
        OfRow(i, s, ops[i].row[s], gen[s][ops[i].row[s].gen],
              disk[s][ops[i].row[s].gen])
RowInv == \A i \in Ids, s \in Services : RowAt(i, s)

\* Only an installed candidate is named by a second operation, and only by
\* one of the same definition.
Sharing ==
    \A i, j \in Ids, s \in Services :
        /\ i # j
        /\ ops[i].row[s].gen # 0
        /\ ops[i].row[s].gen = ops[j].row[s].gen
        => /\ disk[s][ops[i].row[s].gen] = "complete"
           /\ ops[i].def = ops[j].def

\* The operation names the newest generation of every active service.
Newest(i) ==
    /\ names(i) = active
    /\ \A s \in active : ops[i].row[s].gen = latest(s)
NewestInv ==
    /\ \A i, j \in Ids :
          ops[i].outcome = "null" /\ ops[j].outcome = "null" => i = j
    /\ \A i \in Ids : ops[i].outcome = "null" =>
          Newest(i) /\ ops[i].revision = stack.revision + 1
    /\ cand # 0 => /\ ops[cand].outcome = "failure"
                   /\ ops[cand].revision = stack.revision + 1
                   /\ ~unfinished => Newest(cand)
    /\ cand = 0 => failed_candidates = {}
    /\ stack.revision = 0 /\ active # {} => unfinished \/ cand # 0

Partial ==
    \A s \in Services : \A g \in 1..latest(s) :
        disk[s][g] = "partial" => /\ s \in active
                                  /\ g = latest(s)
                                  /\ \E i \in Ids : ops[i].row[s].gen = g
ActiveInv ==
    /\ \A s \in active :
          /\ latest(s) > 0
          /\ gen[s][latest(s)].role = "retired"
             => gen[s][latest(s)].state = "absent"
    /\ Partial
    /\ stack.revision > 0 => stack.def \in Defs
    /\ CommittedSurvives

\* What is already done at each position of prepare_candidate.
AtHand ==
    /\ d.pc \in SubjectPC => d.cur \in names(d.id) \ d.todo
    /\ d.pc = "logs" => row.phase = "intent"
    /\ d.pc = "invoke" => row.phase = "logs_prepared"
    /\ d.pc = "install" =>
          /\ row.phase = "install_invoked"
          /\ gen[d.cur][row.gen] = [state |-> "preparing",
                                    role |-> "candidate"]
          /\ disk[d.cur][row.gen] = "none"
    /\ d.pc = "mark_installed" =>
          row.phase = "install_invoked" /\ disk[d.cur][row.gen] = "complete"
    /\ d.pc \in {"mark_rootfs_unknown", "mark_unknown"} =>
          row.phase = "install_invoked" /\ disk[d.cur][row.gen] # "none"
    /\ d.pc = "start" => row.phase = "installed"
    /\ d.pc = "spawn" => row.phase = "start_invoked"
    /\ d.pc = "commit" => row.phase = "running"
    /\ d.pc = "record_failed" =>
          /\ row.phase # "failed_pre_effect"
          /\ d.err = "unknown" => row.phase \notin Early
Position ==
    d.pc \in WorkPC =>
        /\ d.id \in Ids
        /\ ops[d.id].outcome = "null"
        /\ d.todo \subseteq names(d.id)
        /\ \A s \in d.todo : rows[s].phase \in {"intent", "installed"}
        /\ AtHand

Inv == /\ TypeOK /\ Shape /\ Trees /\ RowInv /\ Sharing /\ NewestInv
       /\ ActiveInv /\ Position

-----------------------------------------------------------------------------
(* The frame: steps that neither make nor decide a candidate *)

SameStack == /\ stack' \in Stack
             /\ stack'.revision = stack.revision
             /\ stack'.def = stack.def
             /\ UNCHANGED <<active, cand>>

\* Only phases and outcomes of rows that exist may change.
SameOps ==
    /\ ops' \in [Ids -> Operation]
    /\ \A i \in Ids :
          /\ ops'[i].def = ops[i].def
          /\ ops'[i].revision = ops[i].revision
          /\ ops'[i].outcome = ops[i].outcome
          /\ \A s \in Services :
                /\ ops'[i].row[s].gen = ops[i].row[s].gen
                /\ ops[i].row[s].gen = 0 => ops'[i].row[s] = ops[i].row[s]

\* Only the state of a candidate may change.
SameGen ==
    /\ gen' \in [Services -> Seq(Generation)]
    /\ \A s \in Services :
          /\ Len(gen'[s]) = Len(gen[s])
          /\ \A g \in 1..Len(gen[s]) :
                \/ gen'[s][g] = gen[s][g]
                \/ /\ gen[s][g].role = "candidate"
                   /\ gen'[s][g].role = "candidate"

\* Only an install writes, under the newest alias of an active service.
SameDisk ==
    /\ disk' \in [Services -> Seq(Disk)]
    /\ \A s \in Services :
          /\ Len(disk'[s]) = Len(disk[s])
          /\ \A g \in 1..Len(disk[s]) :
                \/ disk'[s][g] = disk[s][g]
                \/ /\ disk[s][g] = "none"
                   /\ s \in active /\ g = latest(s)
                   /\ \E i \in Ids : ops[i].row[s].gen = g

Same == SameStack /\ SameOps /\ SameGen /\ SameDisk

\* The journal facts a step leaves alone when it leaves the tables alone.
LEMMA SameTables ==
    ASSUME TypeOK
    PROVE  /\ UNCHANGED stack /\ UNCHANGED active /\ UNCHANGED cand
              => SameStack
           /\ UNCHANGED ops => SameOps
           /\ UNCHANGED gen => SameGen
           /\ UNCHANGED disk => SameDisk
BY DEF TypeOK, SameStack, SameOps, SameGen, SameDisk

\* A row's generation exists, and lengths are natural numbers.
LEMMA RowRange ==
    ASSUME TypeOK, Shape, NEW i \in Ids, NEW s \in Services
    PROVE  /\ latest(s) \in Nat
           /\ Len(disk[s]) = latest(s)
           /\ ops[i].row[s].gen \in 0..latest(s)
           /\ ops[i].row[s] \in Row
           /\ ops[i].revision \in Nat
           /\ stack.revision \in Nat
<1>1. gen[s] \in Seq(Generation)
  BY DEF TypeOK
<1>2. latest(s) \in Nat
  BY <1>1, LenProperties DEF latest
<1>3. ops[i] \in Operation
  BY DEF TypeOK
<1>4. ops[i].row[s] \in Row /\ ops[i].revision \in Nat
  BY <1>3 DEF Operation
<1>5. ops[i].row[s].gen \in Nat
  BY <1>4 DEF Row
<1>6. stack.revision \in Nat
  BY DEF TypeOK, Stack
<1> QED
  BY <1>2, <1>4, <1>5, <1>6 DEF TypeOK, Shape, latest

\* An operation names a service exactly if its row names a generation, before
\* and after a step that keeps the operations.
LEMMA SameNames ==
    ASSUME SameOps, NEW i \in Ids
    PROVE  names(i)' = names(i)
BY DEF SameOps, names

\* Operations name what they named: Shape survives such a step.
LEMMA SameShape ==
    ASSUME Inv, Same
    PROVE  Shape'
<1> SUFFICES ASSUME NEW i \in Ids
             PROVE  /\ ops'[i].outcome = "none" =>
                          \A s \in Services : ops'[i].row[s] = NoRow
                    /\ ops'[i].outcome # "none" =>
                          /\ ops'[i].def \in Defs
                          /\ names(i)' = ServicesOf[ops'[i].def]
                    /\ ops'[i].revision <= stack'.revision + 1
                    /\ \A s \in Services :
                          /\ ops'[i].row[s].gen <= latest(s)'
                          /\ ops'[i].row[s].gen = 0 => ops'[i].row[s] = NoRow
  BY DEF Shape
<1>1. Shape
  BY DEF Inv
<1>2. names(i)' = names(i)
  BY SameNames DEF Same
<1>3. ops'[i].outcome = "none" => \A s \in Services : ops'[i].row[s] = NoRow
  BY <1>1 DEF Same, SameOps, Shape, NoRow
<1>4. ops'[i].outcome # "none" =>
          /\ ops'[i].def \in Defs
          /\ names(i)' = ServicesOf[ops'[i].def]
  BY <1>1, <1>2 DEF Same, SameOps, Shape
<1>5. ops'[i].revision <= stack'.revision + 1
  BY <1>1 DEF Same, SameOps, SameStack, Shape
<1>6. ASSUME NEW s \in Services
      PROVE  /\ ops'[i].row[s].gen <= latest(s)'
             /\ ops'[i].row[s].gen = 0 => ops'[i].row[s] = NoRow
  BY <1>1 DEF Same, SameOps, SameGen, Shape, latest
<1> QED
  BY <1>3, <1>4, <1>5, <1>6

\* Two operations share a generation exactly if they did.
LEMMA SameSharing ==
    ASSUME Inv, Same
    PROVE  Sharing'
<1> SUFFICES ASSUME NEW i \in Ids, NEW j \in Ids, NEW s \in Services,
                    i # j, ops'[i].row[s].gen # 0,
                    ops'[i].row[s].gen = ops'[j].row[s].gen
             PROVE  /\ disk'[s][ops'[i].row[s].gen] = "complete"
                    /\ ops'[i].def = ops'[j].def
  BY DEF Sharing
<1>1. /\ ops[i].row[s].gen = ops'[i].row[s].gen
      /\ ops[j].row[s].gen = ops'[j].row[s].gen
      /\ ops'[i].def = ops[i].def
      /\ ops'[j].def = ops[j].def
  BY DEF Same, SameOps
<1>2. /\ disk[s][ops[i].row[s].gen] = "complete"
      /\ ops[i].def = ops[j].def
  BY <1>1 DEF Inv, Sharing
<1>3. ops[i].row[s].gen \in 1..Len(disk[s])
  BY <1>1, RowRange DEF Inv
<1> QED
  BY <1>1, <1>2, <1>3 DEF Same, SameDisk

\* The newest operation is the same, and so is its verdict.
LEMMA SameNewest ==
    ASSUME Inv, Same
    PROVE  NewestInv'
<1>1. ASSUME NEW i \in Ids
      PROVE  /\ Newest(i)' <=> Newest(i)
             /\ ops'[i].outcome = ops[i].outcome
             /\ ops'[i].revision = ops[i].revision
  <2>1. names(i)' = names(i)
    BY SameNames DEF Same
  <2>2. \A s \in Services : ops'[i].row[s].gen = ops[i].row[s].gen
    BY DEF Same, SameOps
  <2>3. \A s \in Services : latest(s)' = latest(s)
    BY DEF Same, SameGen, latest
  <2>4. active' = active /\ active \subseteq Services
    BY DEF Inv, TypeOK, Same, SameStack
  <2> QED
    BY <2>1, <2>2, <2>3, <2>4 DEF Newest, Same, SameOps
<1>2. unfinished' <=> unfinished
  BY <1>1 DEF unfinished
<1>3. /\ stack'.revision = stack.revision
      /\ active' = active /\ cand' = cand
      /\ cand \in Ids \cup {0}
      /\ NewestInv
  BY DEF Inv, TypeOK, Same, SameStack
<1>4. failed_candidates' = failed_candidates
  BY <1>1, <1>3 DEF failed_candidates
<1>5. \A i, j \in Ids :
          ops'[i].outcome = "null" /\ ops'[j].outcome = "null" => i = j
  BY <1>1, <1>3 DEF NewestInv
<1>6. \A i \in Ids : ops'[i].outcome = "null" =>
          Newest(i)' /\ ops'[i].revision = stack'.revision + 1
  BY <1>1, <1>3 DEF NewestInv
<1>7. cand' # 0 => /\ ops'[cand'].outcome = "failure"
                   /\ ops'[cand'].revision = stack'.revision + 1
                   /\ ~unfinished' => (Newest(cand))'
  <2> SUFFICES ASSUME cand # 0
               PROVE  /\ ops'[cand].outcome = "failure"
                      /\ ops'[cand].revision = stack'.revision + 1
                      /\ ~unfinished' => (Newest(cand))'
    BY <1>3
  <2>1. PICK c \in Ids : c = cand
    BY <1>3
  <2>2. Newest(c)' <=> Newest(c)
    BY <1>1
  <2>3. ~unfinished' => Newest(c)'
    BY <1>2, <1>3, <2>1, <2>2 DEF NewestInv
  <2>4. (Newest(cand))' <=> Newest(c)'
    BY <1>3, <2>1 DEF Newest, names
  <2> QED
    BY <1>1, <1>3, <2>1, <2>3, <2>4 DEF NewestInv
<1> QED
  BY <1>2, <1>3, <1>4, <1>5, <1>6, <1>7 DEF NewestInv

\* The generation that is current is the same, and so is its tree.
LEMMA SameCommitted ==
    ASSUME Inv, Same
    PROVE  CommittedSurvives'
<1> SUFFICES ASSUME stack.revision > 0
             PROVE  /\ active = ServicesOf[stack.def]
                    /\ \A s \in active :
                          \E g \in 1..latest(s)' :
                             /\ gen'[s][g].role = "current"
                             /\ disk'[s][g] = "complete"
                             /\ \A h \in 1..latest(s)' :
                                   gen'[s][h].role = "current" => h = g
  BY DEF CommittedSurvives, Same, SameStack
<1>1. CommittedSurvives
  BY DEF Inv, ActiveInv
<1>2. active = ServicesOf[stack.def]
  BY <1>1 DEF CommittedSurvives
<1>3. ASSUME NEW s \in active
      PROVE  \E g \in 1..latest(s)' :
                /\ gen'[s][g].role = "current"
                /\ disk'[s][g] = "complete"
                /\ \A h \in 1..latest(s)' :
                      gen'[s][h].role = "current" => h = g
  <2>1. s \in Services
    BY DEF Inv, TypeOK
  <2>2. PICK g \in 1..latest(s) :
            /\ gen[s][g].role = "current"
            /\ disk[s][g] = "complete"
            /\ \A h \in 1..latest(s) : gen[s][h].role = "current" => h = g
    BY <1>1 DEF CommittedSurvives
  <2>3. latest(s)' = latest(s) /\ Len(disk[s]) = latest(s)
    BY <2>1 DEF Inv, TypeOK, Same, SameGen, latest
  <2>4. \A h \in 1..latest(s) :
            gen'[s][h].role = "current" <=> gen[s][h].role = "current"
    BY <2>1 DEF Same, SameGen, latest
  <2>5. disk'[s][g] = "complete"
    BY <2>1, <2>2, <2>3 DEF Same, SameDisk
  <2> QED
    BY <2>2, <2>3, <2>4, <2>5
<1> QED
  BY <1>2, <1>3

\* What is known of the active services' newest generations survives.
LEMMA SameActive ==
    ASSUME Inv, Same
    PROVE  ActiveInv'
<1>1. active' = active /\ active \subseteq Services
  BY DEF Inv, TypeOK, Same, SameStack
<1>2. \A s \in Services :
          /\ latest(s)' = latest(s)
          /\ Len(disk[s]) = latest(s) /\ Len(gen[s]) = latest(s)
  BY DEF Inv, TypeOK, Same, SameGen, latest
<1>3. ASSUME NEW s \in active
      PROVE  /\ latest(s)' > 0
             /\ gen'[s][latest(s)'].role = "retired"
                => gen'[s][latest(s)'].state = "absent"
  <2>1. s \in Services /\ latest(s)' = latest(s) /\ latest(s) > 0
    BY <1>1, <1>2 DEF Inv, ActiveInv
  <2>2. latest(s) \in 1..Len(gen[s])
    BY <2>1, <1>2, RowRange, LenProperties DEF Inv, TypeOK, latest
  <2>3. \/ gen'[s][latest(s)] = gen[s][latest(s)]
        \/ gen'[s][latest(s)].role = "candidate"
    BY <2>1, <2>2 DEF Same, SameGen
  <2> QED
    BY <2>1, <2>3 DEF Inv, ActiveInv
<1>4. Partial'
  <2> SUFFICES ASSUME NEW s \in Services, NEW g \in 1..latest(s),
                      disk'[s][g] = "partial"
               PROVE  /\ s \in active
                      /\ g = latest(s)
                      /\ \E i \in Ids : ops'[i].row[s].gen = g
    BY <1>1, <1>2 DEF Partial
  <2>1. \/ disk'[s][g] = disk[s][g]
        \/ /\ s \in active /\ g = latest(s)
           /\ \E i \in Ids : ops[i].row[s].gen = g
    BY <1>2 DEF Same, SameDisk
  <2>2. /\ s \in active /\ g = latest(s)
        /\ \E i \in Ids : ops[i].row[s].gen = g
    BY <2>1 DEF Inv, ActiveInv, Partial
  <2> QED
    BY <2>2 DEF Same, SameOps
<1>5. stack'.revision > 0 => stack'.def \in Defs
  BY DEF Inv, ActiveInv, Same, SameStack
<1> QED
  BY <1>1, <1>3, <1>4, <1>5, SameCommitted DEF ActiveInv

\* A step that keeps the tables keeps what relates them.
LEMMA SameInv ==
    ASSUME Inv, Same
    PROVE  Shape' /\ Sharing' /\ NewestInv' /\ ActiveInv'
BY SameShape, SameSharing, SameNewest, SameActive

\* A row the step does not touch, with its generation and tree.
LEMMA RowStays ==
    ASSUME Inv, stack'.revision = stack.revision,
           NEW i \in Ids, NEW s \in Services,
           ops'[i].row[s] = ops[i].row[s],
           ops'[i].outcome = ops[i].outcome,
           ops'[i].revision = ops[i].revision,
           gen'[s][ops[i].row[s].gen] = gen[s][ops[i].row[s].gen],
           disk'[s][ops[i].row[s].gen] = disk[s][ops[i].row[s].gen],
           d.pc = "install" => i # d.id \/ s # d.cur
    PROVE  RowAt(i, s)'
<1>1. RowAt(i, s)
  BY DEF Inv, RowInv
<1> QED
  BY <1>1 DEF RowAt, OfRow

\* Trees depends on the generations and their trees alone.
LEMMA SameTrees ==
    ASSUME Inv, UNCHANGED gen, UNCHANGED disk
    PROVE  Trees'
BY DEF Inv, Trees, latest

\* The service at hand is active, its operation is the newest, and its row
\* names the newest generation.
LEMMA AtWork ==
    ASSUME Inv, d.pc \in WorkPC
    PROVE  /\ d.id \in Ids
           /\ d.cur \in Services
           /\ ops[d.id].outcome = "null"
           /\ ops[d.id].revision = stack.revision + 1
           /\ names(d.id) = active
           /\ \A s \in active :
                 /\ rows[s].gen = latest(s)
                 /\ rows[s].gen \in 1..latest(s)
                 /\ RowAt(d.id, s)
           /\ d.pc \in SubjectPC => d.cur \in active
<1>1. /\ d.id \in Ids /\ ops[d.id].outcome = "null"
      /\ d.pc \in SubjectPC => d.cur \in names(d.id)
  BY DEF Inv, Position, AtHand
<1>2. Newest(d.id) /\ ops[d.id].revision = stack.revision + 1
  BY <1>1 DEF Inv, NewestInv
<1>3. d.cur \in Services
  BY DEF Inv, TypeOK, Daemon
<1>4. ASSUME NEW s \in active
      PROVE  /\ rows[s].gen = latest(s)
             /\ rows[s].gen \in 1..latest(s)
             /\ RowAt(d.id, s)
  <2>1. s \in Services
    BY DEF Inv, TypeOK
  <2>2. rows[s].gen = latest(s) /\ latest(s) > 0
    BY <1>2 DEF Newest, rows, Inv, ActiveInv
  <2>3. latest(s) \in Nat
    BY <2>1, <1>1, RowRange DEF Inv
  <2>4. RowAt(d.id, s)
    BY <1>1, <2>1 DEF Inv, RowInv
  <2> QED
    BY <2>2, <2>3, <2>4
<1> QED
  BY <1>1, <1>2, <1>3, <1>4 DEF Newest

-----------------------------------------------------------------------------
(* The daemon's own state *)

\* A step that only moves the daemon.
LEMMA GotoDef ==
    ASSUME d \in Daemon, NEW p \in WorkPC \cup {"idle", "dead"}, goto(p)
    PROVE  /\ d' \in Daemon
           /\ d'.pc = p /\ d'.id = d.id /\ d'.cur = d.cur
           /\ d'.todo = d.todo /\ d'.err = d.err
BY DEF goto, Daemon

\* A step to the failure path.
LEMMA ErrorDef ==
    ASSUME d \in Daemon, NEW e \in {"failed", "unknown"}, error(e)
    PROVE  /\ d' \in Daemon
           /\ d'.pc = "record_failed" /\ d'.id = d.id /\ d'.cur = d.cur
           /\ d'.todo = d.todo /\ d'.err = e
BY DEF error, Daemon, WorkPC, SubjectPC

\* Out of prepare_candidate nothing is claimed of the row at hand.
LEMMA IdlePosition ==
    ASSUME d'.pc \in {"idle", "dead"}
    PROVE  Position'
BY DEF Position, WorkPC, SubjectPC

\* A failure at hand, with the journal as it was.
LEMMA ErrorPosition ==
    ASSUME Inv, d.pc \in SubjectPC, NEW e \in {"failed", "unknown"}, error(e),
           UNCHANGED ops,
           row.phase # "failed_pre_effect",
           e = "unknown" => row.phase \notin Early
    PROVE  Position'
<1>1. /\ d'.pc = "record_failed" /\ d'.id = d.id /\ d'.cur = d.cur
      /\ d'.todo = d.todo /\ d'.err = e
  BY ErrorDef DEF Inv, TypeOK
<1>2. d.pc \in WorkPC
  BY DEF WorkPC
<1>3. Position
  BY DEF Inv
<1>4. rows' = rows /\ row' = row /\ names(d.id)' = names(d.id)
  BY <1>1 DEF rows, row, names
<1>6. d'.cur \in names(d.id) \ d'.todo
  BY <1>1, <1>2, <1>3 DEF Position, AtHand
<1>7. AtHand'
  BY <1>1, <1>4, <1>6 DEF AtHand, SubjectPC
<1>8. /\ d.id \in Ids /\ ops[d.id].outcome = "null"
      /\ d.todo \subseteq names(d.id)
      /\ \A s \in d.todo : rows[s].phase \in {"intent", "installed"}
  BY <1>2, <1>3 DEF Position
<1>9. d'.todo \subseteq names(d.id)'
  BY <1>1, <1>4, <1>8
<1>10. d'.id \in Ids /\ ops'[d'.id].outcome = "null"
  BY <1>1, <1>8
<1>11. \A s \in d'.todo : (rows')[s].phase \in {"intent", "installed"}
  BY <1>1, <1>4, <1>8
<1> QED
  BY <1>7, <1>9, <1>10, <1>11 DEF Position

\* A step that touches no table but for what the user wants.
LEMMA Calm ==
    ASSUME Inv, SameStack, UNCHANGED <<ops, gen, disk>>, d.pc # "install"
    PROVE  /\ Shape' /\ Trees' /\ RowInv' /\ Sharing' /\ NewestInv'
           /\ ActiveInv'
<1>1. Same
  BY SameTables DEF Same, Inv
<1>2. ASSUME NEW i \in Ids, NEW s \in Services
      PROVE  RowAt(i, s)'
  BY RowStays DEF SameStack
<1> QED
  BY <1>1, <1>2, SameInv, SameTrees DEF RowInv

\* The types, when only the operations and the daemon change.
LEMMA OpsTypes ==
    ASSUME Inv, UNCHANGED <<stack, active, svc, gen, cand, disk>>,
           ops' \in [Ids -> Operation], d' \in Daemon
    PROVE  TypeOK'
BY DEF Inv, TypeOK

\* A failure at hand that leaves every table alone keeps Inv.
LEMMA FailHere ==
    ASSUME Inv, d.pc \in SubjectPC \ {"install"},
           NEW e \in {"failed", "unknown"}, error(e),
           UNCHANGED <<stack, active, svc, gen, ops, cand, disk>>,
           row.phase # "failed_pre_effect",
           e = "unknown" => row.phase \notin Early
    PROVE  Inv'
<1>1. TypeOK'
  BY ErrorDef DEF Inv, TypeOK
<1>2. Position'
  BY ErrorPosition
<1>3. SameStack
  BY SameTables DEF Inv
<1> QED
  BY <1>1, <1>2, <1>3, Calm DEF Inv

\* The loop takes the next service of the start order.
LEMMA NextServiceInv ==
    ASSUME Inv, NextService
    PROVE  Inv'
<1>1. PICK s \in d.todo :
          d' = [d EXCEPT !.cur = s, !.todo = @ \ {s},
                  !.pc = IF rows[s].phase = "installed" THEN "start"
                         ELSE "logs"]
  BY DEF NextService
<1>2. d.pc = "next" /\ UNCHANGED <<stack, active, svc, gen, ops, cand, disk>>
  BY DEF NextService, dbVars
<1>3. d \in Daemon /\ s \in Services
  BY <1>1 DEF Inv, TypeOK, Daemon
<1>4. /\ d'.cur = s /\ d'.todo = d.todo \ {s} /\ d'.id = d.id
      /\ d'.pc = IF rows[s].phase = "installed" THEN "start" ELSE "logs"
  BY <1>1, <1>3 DEF Daemon
<1>5. d' \in Daemon
  BY <1>1, <1>3 DEF Daemon, WorkPC, SubjectPC
<1>6. TypeOK'
  BY <1>2, <1>5 DEF Inv, TypeOK
<1>7. SameStack
  BY <1>2, SameTables DEF Inv
<1>8. Position'
  <2>1. /\ d.id \in Ids /\ ops[d.id].outcome = "null"
        /\ d.todo \subseteq names(d.id)
        /\ \A t \in d.todo : rows[t].phase \in {"intent", "installed"}
    BY <1>2 DEF Inv, Position, WorkPC
  <2>2. rows' = rows /\ names(d.id)' = names(d.id) /\ row' = rows[s]
    BY <1>2, <1>4 DEF rows, names, row
  <2>3. AtHand'
    BY <1>1, <1>4, <2>1, <2>2 DEF AtHand, SubjectPC
  <2> QED
    BY <1>2, <1>4, <2>1, <2>2, <2>3 DEF Position
<1> QED
  BY <1>2, <1>6, <1>7, <1>8, Calm DEF Inv

\* Between two requests: what the user wants and how the services fare.
LEMMA AroundInv ==
    ASSUME Inv, Down \/ Converge \/ \E s \in Services : Tick(s)
    PROVE  Inv'
<1>1. d.pc = "idle" /\ UNCHANGED <<active, gen, ops, d, disk, cand>>
  BY DEF Down, Converge, Tick
<1>2. stack \in Stack
  BY DEF Inv, TypeOK
<1>3. \/ stack' = stack
      \/ stack' = [stack EXCEPT !.desired = "stopped"]
      \/ stack' = [stack EXCEPT !.desired = "running"]
  BY DEF Down, Converge, Tick
<1>4. SameStack
  BY <1>1, <1>2, <1>3 DEF SameStack, Stack
<1>5. svc \in [Services -> {"quiet", "busy", "backoff", "unknown"}]
  BY DEF Inv, TypeOK
<1>6. svc' \in [Services -> {"quiet", "busy", "backoff", "unknown"}]
  <2>1. CASE Down
    <3>1. PICK stopped \in SUBSET active :
              svc' = [s \in Services |->
                       IF svc[s] \notin {"busy", "backoff"} \/ s \notin active
                       THEN svc[s]
                       ELSE IF s \in stopped THEN "quiet" ELSE "unknown"]
      BY <2>1 DEF Down
    <3> QED
      BY <1>5, <3>1
  <2>2. CASE Converge
    <3>1. PICK now \in {"busy", "quiet", "unknown"} :
              svc' = [s \in Services |-> IF s \in active THEN now ELSE svc[s]]
      BY <2>2 DEF Converge
    <3> QED
      BY <1>5, <3>1
  <2>3. CASE \E s \in Services : Tick(s)
    BY <1>5, <2>3 DEF Tick
  <2> QED
    BY <2>1, <2>2, <2>3
<1>7. TypeOK'
  BY <1>1, <1>4, <1>6 DEF Inv, TypeOK, SameStack
<1>8. Position'
  BY <1>1, IdlePosition
<1> QED
  BY <1>1, <1>4, <1>7, <1>8, Calm DEF Inv

-----------------------------------------------------------------------------
(* Steps that write one row of the operation being served *)

RowStep(c, r) ==
    /\ ops' \in [Ids -> Operation]
    /\ \A i \in Ids :
          /\ ops'[i].def = ops[i].def
          /\ ops'[i].revision = ops[i].revision
          /\ ops'[i].outcome = ops[i].outcome
          /\ \A s \in Services :
                ops'[i].row[s] = IF i = d.id /\ s = c THEN r ELSE ops[i].row[s]

\* Writing the row r for service c of operation i.
LEMMA WriteRow ==
    ASSUME ops \in [Ids -> Operation], d.id \in Ids, NEW c \in Services,
           NEW r \in Row,
           ops' = [ops EXCEPT ![d.id] =
                     [ops[d.id] EXCEPT !.row =
                        [ops[d.id].row EXCEPT ![c] = r]]]
    PROVE  RowStep(c, r)
<1> DEFINE o == [ops[d.id] EXCEPT !.row = [ops[d.id].row EXCEPT ![c] = r]]
<1>1. ops[d.id] \in Operation /\ ops[d.id].row \in [Services -> Row]
  BY DEF Operation
<1>2. [ops[d.id].row EXCEPT ![c] = r] \in [Services -> Row]
  BY <1>1
<1>3. /\ o \in Operation
      /\ o.def = ops[d.id].def /\ o.revision = ops[d.id].revision
      /\ o.outcome = ops[d.id].outcome
      /\ o.row = [ops[d.id].row EXCEPT ![c] = r]
  BY <1>1, <1>2 DEF Operation
<1>4. \A s \in Services : o.row[s] = IF s = c THEN r ELSE ops[d.id].row[s]
  BY <1>1, <1>3
<1>5. ops' = [ops EXCEPT ![d.id] = o]
  OBVIOUS
<1> HIDE DEF o
<1>6. ops' \in [Ids -> Operation]
  BY <1>3, <1>5
<1>7. ASSUME NEW i \in Ids
      PROVE  /\ ops'[i].def = ops[i].def
             /\ ops'[i].revision = ops[i].revision
             /\ ops'[i].outcome = ops[i].outcome
             /\ \A s \in Services :
                   ops'[i].row[s] =
                     IF i = d.id /\ s = c THEN r ELSE ops[i].row[s]
  <2>1. ops'[i] = IF i = d.id THEN o ELSE ops[i]
    BY <1>5
  <2> QED
    BY <2>1, <1>3, <1>4
<1> QED
  BY <1>6, <1>7 DEF RowStep

\* set_service_phase on the row at hand.
LEMMA SetPhaseDef ==
    ASSUME Inv, d.pc \in SubjectPC, NEW p, set_phase(p),
           [row EXCEPT !.phase = p] \in Row
    PROVE  RowStep(d.cur, [row EXCEPT !.phase = p])
<1>1. ops \in [Ids -> Operation] /\ d.id \in Ids /\ d.cur \in Services
  BY AtWork DEF Inv, TypeOK, WorkPC
<1>2. ops' = [ops EXCEPT ![d.id] =
                [ops[d.id] EXCEPT !.row =
                   [ops[d.id].row EXCEPT ![d.cur] = [row EXCEPT !.phase = p]]]]
  BY DEF set_phase, row, rows
<1> DEFINE r == [row EXCEPT !.phase = p]
<1> HIDE DEF r
<1>3. r \in Row
  BY DEF r
<1>4. ops' = [ops EXCEPT ![d.id] =
                [ops[d.id] EXCEPT !.row = [ops[d.id].row EXCEPT ![d.cur] = r]]]
  BY <1>2 DEF r
<1>5. RowStep(d.cur, r)
  BY <1>1, <1>3, <1>4, WriteRow
<1> QED
  BY <1>5 DEF r

\* The spawn's success.
LEMMA RunningDef ==
    ASSUME Inv, d.pc \in SubjectPC,
           ops' = [ops EXCEPT ![d.id].row[d.cur].phase = "running",
                              ![d.id].row[d.cur].outcome = "success"]
    PROVE  /\ RowStep(d.cur, [row EXCEPT !.phase = "running",
                                        !.outcome = "success"])
           /\ [row EXCEPT !.phase = "running", !.outcome = "success"] \in Row
<1> DEFINE r == [row EXCEPT !.phase = "running", !.outcome = "success"]
<1>1. ops \in [Ids -> Operation] /\ d.id \in Ids /\ d.cur \in Services
  BY AtWork DEF Inv, TypeOK, WorkPC
<1>2. /\ ops[d.id] \in Operation /\ rows \in [Services -> Row]
      /\ row \in Row /\ rows = ops[d.id].row /\ row = rows[d.cur]
  BY <1>1 DEF Operation, row, rows
<1>3. r \in Row
  BY <1>2 DEF Row
<1>4. ops' = [ops EXCEPT ![d.id] =
                [ops[d.id] EXCEPT !.row = [ops[d.id].row EXCEPT ![d.cur] = r]]]
  <2> DEFINE a == [row EXCEPT !.phase = "running"]
             o == [ops[d.id] EXCEPT !.row = [rows EXCEPT ![d.cur] = a]]
             mid == [ops EXCEPT ![d.id] = o]
  <2>1. ops' = [mid EXCEPT ![d.id].row[d.cur].outcome = "success"]
    BY DEF row, rows
  <2>2. mid[d.id] = o
    BY <1>1
  <2>3. o.row = [rows EXCEPT ![d.cur] = a] /\ o.row[d.cur] = a
    BY <1>1, <1>2 DEF Operation
  <2>4. ops' = [mid EXCEPT ![d.id] =
                  [o EXCEPT !.row = [o.row EXCEPT ![d.cur] = r]]]
    <3> HIDE DEF mid, o, a
    <3> QED
      BY <2>1, <2>2, <2>3 DEF a
  <2>5. [o.row EXCEPT ![d.cur] = r] = [rows EXCEPT ![d.cur] = r]
    <3> HIDE DEF a, r, o
    <3> QED
      BY <1>1, <1>2, <2>3
  <2>6. [o EXCEPT !.row = [rows EXCEPT ![d.cur] = r]]
          = [ops[d.id] EXCEPT !.row = [rows EXCEPT ![d.cur] = r]]
    <3> HIDE DEF a, r
    <3> QED
      BY <1>2 DEF Operation
  <2> HIDE DEF a, r, o
  <2> QED
    BY <1>1, <1>2, <2>4, <2>5, <2>6
<1> HIDE DEF r
<1>5. RowStep(d.cur, r)
  BY <1>1, <1>3, <1>4, WriteRow
<1> QED
  BY <1>3, <1>5 DEF r

\* mark_service_failed writes a failure.
FailedRow(c, unknown) ==
    [gen |-> rows[c].gen, outcome |-> "failure",
     phase |-> IF unknown THEN "unknown"
               ELSE IF rows[c].phase \in {"intent", "logs_prepared"}
               THEN "failed_pre_effect" ELSE "failed"]
\* mark_service_failed writes FailedRow, and the service's row.
LEMMA FailedDef ==
    ASSUME Inv, d.pc \in WorkPC, NEW c \in Services,
           NEW unknown \in BOOLEAN, mark_service_failed(c, unknown)
    PROVE  /\ FailedRow(c, unknown) \in Row
           /\ RowStep(c, FailedRow(c, unknown))
           /\ svc' \in [Services -> {"quiet", "busy", "backoff", "unknown"}]
<1>1. ops \in [Ids -> Operation] /\ d.id \in Ids
  BY AtWork DEF Inv, TypeOK
<1>2. /\ ops[d.id] \in Operation /\ rows \in [Services -> Row]
      /\ rows[c] \in Row /\ rows = ops[d.id].row
  BY <1>1 DEF Operation, rows
<1>3. FailedRow(c, unknown) \in Row
  <2>1. rows[c].gen \in Nat
    BY <1>2 DEF Row
  <2> QED
    BY <2>1 DEF Row, FailedRow
<1>4. ops' = [ops EXCEPT ![d.id] =
                [ops[d.id] EXCEPT !.row =
                   [ops[d.id].row EXCEPT ![c] = FailedRow(c, unknown)]]]
  BY <1>1, <1>2 DEF mark_service_failed, FailedRow
<1>5. svc' \in [Services -> {"quiet", "busy", "backoff", "unknown"}]
  BY DEF mark_service_failed, Inv, TypeOK
<1> QED
  BY <1>1, <1>3, <1>4, <1>5, WriteRow

\* What the new row r may say of its generation and tree.
Fits(c, r) ==
    LET g == gen[c][r.gen]
        k == disk[c][r.gen]
    IN  /\ r.phase \in Early =>
              /\ r.outcome = "null"
              /\ g = [state |-> "preparing", role |-> "candidate"]
              /\ k = "none"
        /\ r.phase = "failed_pre_effect" => r.outcome = "failure" /\ k = "none"
        /\ r.phase \in {"installed", "start_invoked", "running"}
           => k = "complete"
        /\ r.outcome = "success" => r.phase = "running"
        /\ g.state = "preparing" /\ k = "none" =>
              \/ r.phase \in Early \cup {"failed_pre_effect"}
              \/ d'.pc = "install" /\ d.id = d'.id /\ c = d'.cur

\* A step that only writes a row keeps the history; what it claims at its
\* position is left to the caller.
LEMMA RowStepInv ==
    ASSUME Inv, d.pc \in WorkPC \ {"install"},
           UNCHANGED <<stack, active, gen, cand, disk>>,
           NEW c \in active, NEW r \in Row, r.gen = rows[c].gen,
           RowStep(c, r), Fits(c, r)
    PROVE  /\ Shape' /\ Trees' /\ RowInv' /\ Sharing' /\ NewestInv'
           /\ ActiveInv'
<1>1. /\ d.id \in Ids /\ c \in Services /\ rows[c].gen # 0
      /\ RowAt(d.id, c) /\ ops[d.id].outcome = "null"
      /\ ops[d.id].revision = stack.revision + 1
  BY AtWork DEF Inv, TypeOK
<1>2. SameOps
  <2>1. ops[d.id].row[c].gen # 0 /\ r.gen = ops[d.id].row[c].gen
    BY <1>1 DEF rows
  <2> QED
    BY <2>1 DEF RowStep, SameOps
<1>3. Same
  BY <1>2, SameTables DEF Same, Inv
<1>4. ASSUME NEW i \in Ids, NEW s \in Services
      PROVE  RowAt(i, s)'
  <2>1. CASE i = d.id /\ s = c
    <3>1. ops'[i].row[s] = r
      BY <2>1 DEF RowStep
    <3>2. gen[c][r.gen].role = "candidate"
      BY <1>1 DEF RowAt, OfRow, rows
    <3>3. /\ ops'[i].outcome = "null"
          /\ ops'[i].revision = stack'.revision + 1
      BY <1>1, <2>1 DEF RowStep
    <3> QED
      BY <2>1, <3>1, <3>2, <3>3 DEF RowAt, OfRow, Fits
  <2>2. CASE ~(i = d.id /\ s = c)
    <3>1. ops'[i].row[s] = ops[i].row[s]
      BY <2>2 DEF RowStep
    <3>2. /\ ops'[i].outcome = ops[i].outcome
          /\ ops'[i].revision = ops[i].revision
      BY DEF RowStep
    <3> QED
      BY <3>1, <3>2, RowStays
  <2> QED
    BY <2>1, <2>2
<1> QED
  BY <1>3, <1>4, SameInv, SameTrees DEF RowInv

\* The position after a row step: the rest of the loop is as it was.
LEMMA RowStepPosition ==
    ASSUME Inv, d.pc \in WorkPC, NEW c \in active, NEW r \in Row,
           r.gen = rows[c].gen, RowStep(c, r),
           d'.id = d.id, d'.todo \subseteq d.todo, c \notin d'.todo,
           AtHand'
    PROVE  Position'
<1>1. /\ d.id \in Ids /\ c \in Services /\ rows[c].gen # 0
  BY AtWork DEF Inv, TypeOK
<1>2. /\ ops[d.id].outcome = "null"
      /\ d.todo \subseteq names(d.id)
      /\ \A s \in d.todo : rows[s].phase \in {"intent", "installed"}
  BY DEF Inv, Position
<1>3. \A s \in Services :
          (rows')[s] = IF s = c THEN r ELSE rows[s]
  BY <1>1 DEF RowStep, rows
<1>4. names(d.id)' = names(d.id)
  BY <1>1, <1>3 DEF names, rows
<1>5. d.todo \subseteq Services
  BY DEF Inv, TypeOK, Daemon
<1>6. ops'[d'.id].outcome = "null"
  BY <1>1, <1>2 DEF RowStep
<1>7. \A s \in d'.todo : (rows')[s].phase \in {"intent", "installed"}
  BY <1>2, <1>3, <1>5
<1> QED
  BY <1>1, <1>2, <1>4, <1>6, <1>7 DEF Position

\* The names and the row at hand after a row step.
LEMMA RowStepView ==
    ASSUME Inv, d.pc \in WorkPC, NEW c \in active, NEW r \in Row,
           r.gen = rows[c].gen, RowStep(c, r), d'.id = d.id
    PROVE  /\ names(d.id)' = active
           /\ \A s \in Services :
                 ops'[d'.id].row[s] = IF s = c THEN r ELSE ops[d.id].row[s]
<1>1. /\ d.id \in Ids /\ c \in Services /\ rows[c].gen # 0
      /\ names(d.id) = active
  BY AtWork DEF Inv, TypeOK
<1> QED
  BY <1>1 DEF RowStep, rows, names

-----------------------------------------------------------------------------
(* prepare_candidate, up to the commit *)

\* What the row at hand says, unfolded.
LEMMA HandRow ==
    ASSUME Inv, d.pc \in SubjectPC
    PROVE  /\ d.cur \in active /\ d.cur \in Services /\ d.cur \notin d.todo
           /\ row \in Row /\ row = rows[d.cur] /\ row.gen # 0
           /\ row.gen = latest(d.cur) /\ row.gen \in 1..latest(d.cur)
           /\ OfRow(d.id, d.cur, row, gen[d.cur][row.gen],
                    disk[d.cur][row.gen])
<1>1. /\ d.cur \in active /\ d.cur \in Services
      /\ rows[d.cur].gen = latest(d.cur)
      /\ rows[d.cur].gen \in 1..latest(d.cur)
      /\ RowAt(d.id, d.cur) /\ d.id \in Ids
  BY AtWork DEF WorkPC
<1>2. d.cur \notin d.todo
  BY DEF Inv, Position, WorkPC, AtHand
<1>3. row \in Row /\ row.gen # 0
  BY <1>1, RowRange DEF Inv, row, rows
<1> QED
  BY <1>1, <1>2, <1>3 DEF row, rows, RowAt

\* A phase written at hand, on the way to the position q.
LEMMA SetPhaseInv ==
    ASSUME Inv, d.pc \in SubjectPC \ {"install"},
           NEW p \in {"logs_prepared", "install_invoked", "start_invoked"},
           NEW q \in SubjectPC,
           set_phase(p), goto(q),
           UNCHANGED <<stack, active, svc, gen, cand, disk>>,
           Fits(d.cur, [row EXCEPT !.phase = p]),
           \/ q = "invoke" /\ p = "logs_prepared"
           \/ /\ q = "install" /\ p = "install_invoked"
              /\ gen[d.cur][row.gen] = [state |-> "preparing",
                                        role |-> "candidate"]
              /\ disk[d.cur][row.gen] = "none"
           \/ q = "spawn" /\ p = "start_invoked"
    PROVE  Inv'
<1> DEFINE r == [row EXCEPT !.phase = p]
<1>1. d.pc \in SubjectPC /\ d.pc \in WorkPC /\ q \in WorkPC
  BY DEF WorkPC
<1>2. /\ d.cur \in active /\ d.cur \in Services /\ d.cur \notin d.todo
      /\ row \in Row /\ row = rows[d.cur]
  BY <1>1, HandRow
<1>3. r \in Row /\ r.gen = rows[d.cur].gen /\ r.phase = p
  BY <1>2 DEF Row
<1>4. RowStep(d.cur, r)
  BY <1>1, <1>3, SetPhaseDef
<1>5. /\ d' \in Daemon /\ d'.pc = q /\ d'.id = d.id /\ d'.cur = d.cur
      /\ d'.todo = d.todo
  BY <1>1, GotoDef DEF Inv, TypeOK
<1>6. Fits(d.cur, r)
  OBVIOUS
<1> HIDE DEF r
<1>7. /\ Shape' /\ Trees' /\ RowInv' /\ Sharing' /\ NewestInv' /\ ActiveInv'
  BY <1>1, <1>2, <1>3, <1>4, <1>6, RowStepInv
<1>8. TypeOK'
  BY <1>4, <1>5, OpsTypes DEF RowStep
<1>9. /\ names(d.id)' = active
      /\ row' = r
  <2>1. /\ names(d.id)' = active
        /\ \A s \in Services :
              ops'[d'.id].row[s] = IF s = d.cur THEN r ELSE ops[d.id].row[s]
    BY <1>1, <1>2, <1>3, <1>4, <1>5, RowStepView
  <2> QED
    BY <1>2, <1>5, <2>1 DEF row, rows
<1>10. r.gen = row.gen
  BY <1>2, <1>3
<1>11. AtHand'
  BY <1>2, <1>3, <1>5, <1>9, <1>10 DEF AtHand
<1>12. Position'
  BY <1>1, <1>2, <1>3, <1>4, <1>5, <1>11, RowStepPosition
<1> QED
  BY <1>7, <1>8, <1>12 DEF Inv

\* intent to logs_prepared, or a failure.
LEMMA MarkLogsPreparedInv ==
    ASSUME Inv, MarkLogsPrepared
    PROVE  Inv'
<1>1. d.pc = "logs" /\ UNCHANGED <<stack, active, svc, gen, cand, disk>>
  BY DEF MarkLogsPrepared, Mark
<1>2. row.phase = "intent"
  BY <1>1 DEF Inv, Position, AtHand, WorkPC, SubjectPC
<1>3. CASE set_phase("logs_prepared") /\ goto("invoke")
  <2>1. /\ row \in Row
        /\ OfRow(d.id, d.cur, row, gen[d.cur][row.gen], disk[d.cur][row.gen])
    BY <1>1, HandRow DEF SubjectPC
  <2>2. /\ [row EXCEPT !.phase = "logs_prepared"].gen = row.gen
        /\ [row EXCEPT !.phase = "logs_prepared"].outcome = row.outcome
        /\ [row EXCEPT !.phase = "logs_prepared"].phase = "logs_prepared"
    BY <2>1 DEF Row
  <2>3. Fits(d.cur, [row EXCEPT !.phase = "logs_prepared"])
    BY <1>2, <2>1, <2>2 DEF Fits, OfRow, Early
  <2> QED
    BY <1>1, <1>3, <2>3, SetPhaseInv DEF SubjectPC
<1>4. CASE error("failed") /\ UNCHANGED ops
  BY <1>1, <1>2, <1>4, FailHere DEF SubjectPC
<1> QED
  BY <1>3, <1>4 DEF MarkLogsPrepared, Mark

\* logs_prepared to install_invoked, or a failure.
LEMMA MarkInstallInvokedInv ==
    ASSUME Inv, MarkInstallInvoked
    PROVE  Inv'
<1>1. d.pc = "invoke" /\ UNCHANGED <<stack, active, svc, gen, cand, disk>>
  BY DEF MarkInstallInvoked, Mark
<1>2. row.phase = "logs_prepared"
  BY <1>1 DEF Inv, Position, AtHand, WorkPC, SubjectPC
<1>3. CASE set_phase("install_invoked") /\ goto("install")
  <2>1. /\ row \in Row
        /\ OfRow(d.id, d.cur, row, gen[d.cur][row.gen], disk[d.cur][row.gen])
    BY <1>1, HandRow DEF SubjectPC
  <2>2. /\ [row EXCEPT !.phase = "install_invoked"].gen = row.gen
        /\ [row EXCEPT !.phase = "install_invoked"].outcome = row.outcome
        /\ [row EXCEPT !.phase = "install_invoked"].phase = "install_invoked"
    BY <2>1 DEF Row
  <2>3. d'.pc = "install" /\ d'.id = d.id /\ d'.cur = d.cur
    BY <1>3, GotoDef DEF Inv, TypeOK, WorkPC, SubjectPC
  <2>4. Fits(d.cur, [row EXCEPT !.phase = "install_invoked"])
    BY <1>2, <2>1, <2>2, <2>3 DEF Fits, OfRow, Early
  <2>5. /\ gen[d.cur][row.gen] = [state |-> "preparing", role |-> "candidate"]
        /\ disk[d.cur][row.gen] = "none"
    BY <1>2, <2>1 DEF OfRow, Early
  <2> QED
    BY <1>1, <1>3, <2>4, <2>5, SetPhaseInv DEF SubjectPC
<1>4. CASE error("failed") /\ UNCHANGED ops
  BY <1>1, <1>2, <1>4, FailHere DEF SubjectPC
<1> QED
  BY <1>3, <1>4 DEF MarkInstallInvoked, Mark

\* installed to start_invoked, or a failure.
LEMMA MarkStartInvokedInv ==
    ASSUME Inv, MarkStartInvoked
    PROVE  Inv'
<1>1. d.pc = "start" /\ UNCHANGED <<stack, active, svc, gen, cand, disk>>
  BY DEF MarkStartInvoked, Mark
<1>2. row.phase = "installed"
  BY <1>1 DEF Inv, Position, AtHand, WorkPC, SubjectPC
<1>3. CASE set_phase("start_invoked") /\ goto("spawn")
  <2>1. /\ row \in Row
        /\ OfRow(d.id, d.cur, row, gen[d.cur][row.gen], disk[d.cur][row.gen])
    BY <1>1, HandRow DEF SubjectPC
  <2>2. /\ [row EXCEPT !.phase = "start_invoked"].gen = row.gen
        /\ [row EXCEPT !.phase = "start_invoked"].outcome = row.outcome
        /\ [row EXCEPT !.phase = "start_invoked"].phase = "start_invoked"
    BY <2>1 DEF Row
  <2>3. Fits(d.cur, [row EXCEPT !.phase = "start_invoked"])
    BY <1>2, <2>1, <2>2 DEF Fits, OfRow, Early
  <2> QED
    BY <1>1, <1>3, <2>3, SetPhaseInv DEF SubjectPC
<1>4. CASE error("failed") /\ UNCHANGED ops
  BY <1>1, <1>2, <1>4, FailHere DEF SubjectPC, Early
<1> QED
  BY <1>3, <1>4 DEF MarkStartInvoked, Mark

\* start_operation_child, with its three results.
LEMMA SpawnInv ==
    ASSUME Inv, Spawn
    PROVE  Inv'
<1>1. d.pc = "spawn" /\ UNCHANGED <<stack, active, svc, gen, cand, disk>>
  BY DEF Spawn
<1>2. d.pc \in SubjectPC /\ d.pc \in WorkPC /\ d.pc # "install"
  BY <1>1 DEF SubjectPC, WorkPC
<1>3. row.phase = "start_invoked"
  BY <1>1, <1>2 DEF Inv, Position, AtHand
<1>4. /\ d.cur \in active /\ d.cur \in Services /\ d.cur \notin d.todo
      /\ row \in Row /\ row = rows[d.cur]
      /\ OfRow(d.id, d.cur, row, gen[d.cur][row.gen], disk[d.cur][row.gen])
  BY <1>2, HandRow
<1>5. CASE /\ ops' = [ops EXCEPT ![d.id].row[d.cur].phase = "running",
                                 ![d.id].row[d.cur].outcome = "success"]
           /\ goto(IF d.todo = {} THEN "commit" ELSE "next")
  <2> DEFINE r == [row EXCEPT !.phase = "running", !.outcome = "success"]
  <2>1. RowStep(d.cur, r) /\ r \in Row
    BY <1>2, <1>5, RunningDef
  <2>2. r.gen = row.gen /\ r.phase = "running" /\ r.outcome = "success"
    BY <1>4 DEF Row
  <2> HIDE DEF r
  <2>3. Fits(d.cur, r)
    BY <1>3, <1>4, <2>2 DEF Fits, OfRow, Early
  <2>4. /\ d' \in Daemon /\ d'.pc \in {"commit", "next"} /\ d'.id = d.id
        /\ d'.cur = d.cur /\ d'.todo = d.todo
    BY <1>5, GotoDef DEF Inv, TypeOK, WorkPC, SubjectPC
  <2>5. /\ Shape' /\ Trees' /\ RowInv' /\ Sharing' /\ NewestInv' /\ ActiveInv'
    BY <1>1, <1>2, <1>4, <2>1, <2>2, <2>3, RowStepInv
  <2>6. TypeOK'
    BY <1>1, <2>1, <2>4, OpsTypes DEF RowStep
  <2>7. names(d.id)' = active /\ row' = r
    <3>1. /\ names(d.id)' = active
          /\ \A s \in Services :
                ops'[d'.id].row[s] = IF s = d.cur THEN r ELSE ops[d.id].row[s]
      BY <1>2, <1>4, <2>1, <2>2, <2>4, RowStepView
    <3> QED
      BY <1>4, <2>4, <3>1 DEF row, rows
  <2>8. AtHand'
    BY <1>4, <2>2, <2>4, <2>7 DEF AtHand, SubjectPC
  <2>9. Position'
    BY <1>2, <1>4, <2>1, <2>2, <2>4, <2>8, RowStepPosition
  <2> QED
    BY <2>5, <2>6, <2>9 DEF Inv
<1>6. CASE \E e \in {"failed", "unknown"} : error(e) /\ UNCHANGED ops
  BY <1>1, <1>2, <1>3, <1>6, FailHere DEF Early
<1> QED
  BY <1>5, <1>6 DEF Spawn

-----------------------------------------------------------------------------
(* Steps that write one generation, or the tree under its alias *)

\* set_generation_state writes one state and keeps the role.
LEMMA SetGenerationDef ==
    ASSUME Inv, d.pc \in SubjectPC, NEW st \in {"installed", "unknown"},
           set_generation(st)
    PROVE  /\ gen' \in [Services -> Seq(Generation)]
           /\ \A s \in Services :
                 /\ Len(gen'[s]) = Len(gen[s])
                 /\ \A g \in 1..Len(gen[s]) :
                       gen'[s][g] = IF s = d.cur /\ g = row.gen
                                    THEN [state |-> st, role |-> gen[s][g].role]
                                    ELSE gen[s][g]
<1> DEFINE q == gen[d.cur]
           n == row.gen
           x == [q[n] EXCEPT !.state = st]
<1>1. d.cur \in Services /\ n \in 1..Len(q)
  BY HandRow DEF latest
<1>2. gen \in [Services -> Seq(Generation)] /\ q \in Seq(Generation)
  BY <1>1 DEF Inv, TypeOK
<1>3. q[n] \in Generation
  BY <1>1, <1>2, ElementOfSeq
<1>4. x \in Generation /\ x = [state |-> st, role |-> q[n].role]
  BY <1>3 DEF Generation
<1>5. gen' = [gen EXCEPT ![d.cur] = [q EXCEPT ![n] = x]]
  BY DEF set_generation
<1> HIDE DEF x, n
<1>6. /\ [q EXCEPT ![n] = x] \in Seq(Generation)
      /\ Len([q EXCEPT ![n] = x]) = Len(q)
      /\ \A g \in 1..Len(q) :
            [q EXCEPT ![n] = x][g] = IF g = n THEN x ELSE q[g]
  BY <1>1, <1>2, <1>4, ExceptSeq
<1> DEFINE z == [q EXCEPT ![n] = x]
<1> HIDE DEF z
<1>7. /\ z \in Seq(Generation) /\ Len(z) = Len(q)
      /\ \A g \in 1..Len(q) : z[g] = IF g = n THEN x ELSE q[g]
      /\ gen' = [gen EXCEPT ![d.cur] = z]
  BY <1>5, <1>6 DEF z
<1>8. gen' \in [Services -> Seq(Generation)]
  BY <1>2, <1>7
<1>9. ASSUME NEW s \in Services
      PROVE  /\ Len(gen'[s]) = Len(gen[s])
             /\ \A g \in 1..Len(gen[s]) :
                   gen'[s][g] = IF s = d.cur /\ g = row.gen
                                THEN [state |-> st, role |-> gen[s][g].role]
                                ELSE gen[s][g]
  <2>1. gen'[s] = IF s = d.cur THEN z ELSE gen[s]
    BY <1>2, <1>7
  <2> QED
    BY <2>1, <1>4, <1>7 DEF n
<1> QED
  BY <1>8, <1>9

\* An install writes the tree of the generation at hand alone.
LEMMA InstalledDef ==
    ASSUME Inv, d.pc = "install", NEW left \in {"empty", "partial", "complete"},
           installed(left)
    PROVE  /\ disk' \in [Services -> Seq(Disk)]
           /\ \A s \in Services :
                 /\ Len(disk'[s]) = Len(disk[s])
                 /\ \A g \in 1..Len(disk[s]) :
                       disk'[s][g] = IF s = d.cur /\ g = row.gen
                                     THEN left ELSE disk[s][g]
<1> DEFINE q == disk[d.cur]
           n == row.gen
<1>1. /\ d.cur \in Services /\ n \in 1..latest(d.cur)
      /\ d.pc \in SubjectPC /\ d.pc \in WorkPC
  BY HandRow DEF SubjectPC, WorkPC
<1>2. disk \in [Services -> Seq(Disk)] /\ q \in Seq(Disk)
  BY <1>1 DEF Inv, TypeOK
<1>3. n \in 1..Len(q)
  BY <1>1 DEF Inv, TypeOK, latest
<1>4. q[n] = "none"
  BY <1>1 DEF Inv, Position, AtHand
<1>5. left \in Disk
  BY DEF Disk
<1>6. disk' = [disk EXCEPT ![d.cur] = [q EXCEPT ![n] = left]]
  BY <1>4 DEF installed
<1> HIDE DEF n
<1> DEFINE z == [q EXCEPT ![n] = left]
<1>7. /\ z \in Seq(Disk) /\ Len(z) = Len(q)
      /\ \A g \in 1..Len(q) : z[g] = IF g = n THEN left ELSE q[g]
  BY <1>2, <1>3, <1>5, ExceptSeq
<1>8. disk' = [disk EXCEPT ![d.cur] = z]
  BY <1>6
<1> HIDE DEF z
<1>9. disk' \in [Services -> Seq(Disk)]
  BY <1>2, <1>7, <1>8
<1>10. ASSUME NEW s \in Services
       PROVE  /\ Len(disk'[s]) = Len(disk[s])
              /\ \A g \in 1..Len(disk[s]) :
                    disk'[s][g] = IF s = d.cur /\ g = row.gen
                                  THEN left ELSE disk[s][g]
  <2>1. disk'[s] = IF s = d.cur THEN z ELSE disk[s]
    BY <1>2, <1>8
  <2> QED
    BY <2>1, <1>7 DEF n
<1> QED
  BY <1>9, <1>10

\* Whatever an install leaves, no other row names the tree it worked on.
LEMMA InstalledInv ==
    ASSUME Inv, d.pc = "install", NEW left \in {"empty", "partial", "complete"},
           installed(left), UNCHANGED <<stack, active, gen, ops, cand>>
    PROVE  /\ Shape' /\ Trees' /\ RowInv' /\ Sharing' /\ NewestInv'
           /\ ActiveInv'
<1> DEFINE n == row.gen
<1>1. d.pc \in SubjectPC /\ d.pc \in WorkPC
  BY DEF SubjectPC, WorkPC
<1>2. /\ row.phase = "install_invoked"
      /\ gen[d.cur][n] = [state |-> "preparing", role |-> "candidate"]
      /\ disk[d.cur][n] = "none"
  BY <1>1 DEF Inv, Position, AtHand
<1>3. /\ d.cur \in active /\ d.cur \in Services /\ n \in 1..latest(d.cur)
      /\ n = latest(d.cur) /\ row = rows[d.cur] /\ n # 0
      /\ OfRow(d.id, d.cur, row, gen[d.cur][row.gen], disk[d.cur][row.gen])
  BY <1>1, HandRow
<1>4. /\ d.id \in Ids /\ ops[d.id].outcome = "null"
      /\ ops[d.id].revision = stack.revision + 1
  BY <1>1, AtWork
<1>5. /\ disk' \in [Services -> Seq(Disk)]
      /\ \A s \in Services :
            /\ Len(disk'[s]) = Len(disk[s])
            /\ \A g \in 1..Len(disk[s]) :
                  disk'[s][g] = IF s = d.cur /\ g = n
                                THEN left ELSE disk[s][g]
  BY InstalledDef
<1>6. SameDisk
  <2>1. ops[d.id].row[d.cur].gen = n
    BY <1>3 DEF rows
  <2> QED
    BY <1>2, <1>3, <1>4, <1>5, <2>1 DEF SameDisk
<1>7. Same
  BY <1>6, SameTables DEF Same, Inv
<1>8. Trees'
  <2> SUFFICES ASSUME NEW s \in Services, NEW g \in 1..latest(s)
               PROVE  /\ disk'[s][g] # "twice"
                      /\ gen[s][g].state = "installed"
                         => disk'[s][g] = "complete"
                      /\ gen[s][g].state = "absent" => disk'[s][g] = "none"
    BY DEF Trees, latest
  <2>1. Len(disk[s]) = latest(s)
    BY DEF Inv, TypeOK, latest
  <2> QED
    BY <1>2, <1>5, <2>1 DEF Inv, Trees
<1>9. ASSUME NEW i \in Ids, NEW s \in Services
      PROVE  RowAt(i, s)'
  <2>1. CASE i = d.id /\ s = d.cur
    <3>1. /\ ops'[i].row[s] = row /\ gen'[s][n] = gen[s][n]
          /\ disk'[s][n] = left
      BY <1>3, <1>5, <2>1 DEF Inv, TypeOK, latest, rows
    <3>2. left # "none"
      OBVIOUS
    <3>3. row.outcome # "success"
      BY <1>2, <1>3 DEF OfRow
    <3>4. /\ ops'[i].outcome = "null" /\ gen'[s][n].role = "candidate"
          /\ ops'[i].revision = stack'.revision + 1
      BY <1>2, <1>4, <2>1, <3>1
    <3> QED
      BY <1>2, <3>1, <3>2, <3>3, <3>4 DEF RowAt, OfRow, Early
  <2>2. CASE s # d.cur \/ ops[i].row[s].gen # n
    <3>1. CASE ops[i].row[s].gen = 0
      BY <3>1 DEF RowAt
    <3>2. CASE ops[i].row[s].gen # 0
      <4>1. ops[i].row[s].gen \in 1..Len(disk[s])
        BY <3>2, RowRange DEF Inv
      <4>2. disk'[s][ops[i].row[s].gen] = disk[s][ops[i].row[s].gen]
        BY <1>5, <2>2, <4>1
      <4>3. i # d.id \/ s # d.cur
        BY <1>3, <2>2 DEF rows
      <4> QED
        BY <4>2, <4>3, RowStays
    <3> QED
      BY <3>1, <3>2
  <2>3. CASE s = d.cur /\ ops[i].row[s].gen = n /\ i # d.id
    <3>1. ops[d.id].row[s].gen = n
      BY <1>3, <2>3 DEF rows
    <3>2. disk[s][n] = "complete"
      BY <1>3, <1>4, <2>3, <3>1 DEF Inv, Sharing
    <3> QED
      BY <1>2, <2>3, <3>2
  <2> QED
    BY <2>1, <2>2, <2>3
<1> QED
  BY <1>7, <1>8, <1>9, SameInv DEF RowInv

\* engine.install, successful or not.
LEMMA InstallInv ==
    ASSUME Inv, Install
    PROVE  Inv'
<1>1. d.pc = "install" /\ UNCHANGED <<stack, active, svc, gen, ops, cand>>
  BY DEF Install, dbVars
<1>2. PICK left \in {"empty", "partial", "complete"} :
          /\ installed(left)
          /\ \/ left = "complete" /\ goto("mark_installed")
             \/ goto("mark_rootfs_unknown")
  BY DEF Install
<1>3. PICK q \in {"mark_installed", "mark_rootfs_unknown"} :
          goto(q) /\ (q = "mark_installed" => left = "complete")
  BY <1>2
<1>4. /\ d' \in Daemon /\ d'.pc = q /\ d'.id = d.id /\ d'.cur = d.cur
      /\ d'.todo = d.todo
  BY <1>3, GotoDef DEF Inv, TypeOK, WorkPC, SubjectPC
<1>5. /\ Shape' /\ Trees' /\ RowInv' /\ Sharing' /\ NewestInv' /\ ActiveInv'
  BY <1>1, <1>2, InstalledInv
<1>6. /\ disk' \in [Services -> Seq(Disk)]
      /\ \A s \in Services :
            /\ Len(disk'[s]) = Len(disk[s])
            /\ \A g \in 1..Len(disk[s]) :
                  disk'[s][g] = IF s = d.cur /\ g = row.gen
                                THEN left ELSE disk[s][g]
  BY <1>1, <1>2, InstalledDef
<1>7. TypeOK'
  BY <1>1, <1>4, <1>6 DEF Inv, TypeOK
<1>8. /\ d.cur \in Services /\ row.gen \in 1..Len(disk[d.cur])
  BY <1>1, HandRow DEF SubjectPC, latest, Inv, TypeOK
<1>9. /\ rows' = rows /\ row' = row /\ names(d.id)' = names(d.id)
  BY <1>1, <1>4 DEF rows, row, names
<1>10. disk'[d'.cur][row'.gen] = left
  BY <1>4, <1>6, <1>8, <1>9
<1>11. Position
  BY DEF Inv
<1>12. d.pc \in WorkPC /\ d.pc \in SubjectPC
  BY <1>1 DEF WorkPC, SubjectPC
<1>13. AtHand'
  <2>1. row.phase = "install_invoked" /\ d.cur \in names(d.id) \ d.todo
    BY <1>1, <1>11, <1>12 DEF Position, AtHand
  <2> QED
    BY <1>3, <1>4, <1>9, <1>10, <2>1 DEF AtHand
<1>14. Position'
  BY <1>1, <1>4, <1>9, <1>11, <1>12, <1>13 DEF Position
<1> QED
  BY <1>5, <1>7, <1>14 DEF Inv

\* The daemon is killed, during an install or elsewhere.
LEMMA CrashInv ==
    ASSUME Inv, Crash
    PROVE  Inv'
<1>1. /\ d' = [d EXCEPT !.pc = "dead", !.err = "none"]
      /\ UNCHANGED <<stack, active, svc, gen, ops, cand>>
  BY DEF Crash, dbVars
<1>2. d' \in Daemon /\ d'.pc = "dead"
  BY <1>1 DEF Inv, TypeOK, Daemon
<1>3. Position'
  BY <1>2, IdlePosition
<1>4. CASE d.pc = "install"
  <2>1. installed("partial")
    BY <1>4 DEF Crash
  <2>2. /\ disk' \in [Services -> Seq(Disk)]
        /\ \A s \in Services : Len(disk'[s]) = Len(disk[s])
    BY <1>4, <2>1, InstalledDef
  <2>3. TypeOK'
    BY <1>1, <1>2, <2>2 DEF Inv, TypeOK
  <2> QED
    BY <1>1, <1>3, <1>4, <2>1, <2>3, InstalledInv DEF Inv
<1>5. CASE d.pc # "install"
  <2>1. UNCHANGED disk
    BY <1>5 DEF Crash
  <2>2. TypeOK'
    BY <1>1, <1>2, <2>1 DEF Inv, TypeOK
  <2>3. SameStack
    BY <1>1, SameTables DEF Inv
  <2> QED
    BY <1>1, <1>3, <1>5, <2>1, <2>2, <2>3, Calm DEF Inv
<1> QED
  BY <1>4, <1>5

\* The outcome of an install reaches its generation, and the row with it.
LEMMA GenerationStepInv ==
    ASSUME Inv, d.pc \in {"mark_installed", "mark_rootfs_unknown"},
           NEW st \in {"installed", "unknown"}, set_generation(st),
           NEW r \in Row, RowStep(d.cur, r), r.gen = row.gen,
           r.outcome = row.outcome,
           r.phase \in {"installed", "install_invoked"},
           \/ disk[d.cur][row.gen] = "complete"
           \/ st = "unknown" /\ r.phase = "install_invoked",
           UNCHANGED <<stack, active, cand, disk>>
    PROVE  /\ Shape' /\ Trees' /\ RowInv' /\ Sharing' /\ NewestInv'
           /\ ActiveInv'
<1> DEFINE n == row.gen
<1>1. d.pc \in SubjectPC /\ d.pc \in WorkPC
  BY DEF SubjectPC, WorkPC
<1>2. row.phase = "install_invoked" /\ disk[d.cur][n] # "none"
  BY <1>1 DEF Inv, Position, AtHand
<1>3. /\ d.cur \in active /\ d.cur \in Services /\ n \in 1..latest(d.cur)
      /\ n = latest(d.cur) /\ row = rows[d.cur] /\ n # 0
      /\ OfRow(d.id, d.cur, row, gen[d.cur][row.gen], disk[d.cur][row.gen])
  BY <1>1, HandRow
<1>4. /\ d.id \in Ids /\ ops[d.id].outcome = "null"
      /\ ops[d.id].revision = stack.revision + 1
  BY <1>1, AtWork
<1>5. /\ gen' \in [Services -> Seq(Generation)]
      /\ \A s \in Services :
            /\ Len(gen'[s]) = Len(gen[s])
            /\ \A g \in 1..Len(gen[s]) :
                  gen'[s][g] = IF s = d.cur /\ g = n
                               THEN [state |-> st, role |-> gen[s][g].role]
                               ELSE gen[s][g]
  BY <1>1, SetGenerationDef
<1>5a. ASSUME NEW s \in Services, NEW g \in 1..latest(s)
       PROVE  /\ s = d.cur /\ g = n =>
                    /\ gen'[s][g].state = st
                    /\ gen'[s][g].role = gen[s][g].role
              /\ ~(s = d.cur /\ g = n) => gen'[s][g] = gen[s][g]
  <2>1. gen'[s][g] = IF s = d.cur /\ g = n
                     THEN [state |-> st, role |-> gen[s][g].role]
                     ELSE gen[s][g]
    BY <1>5 DEF latest
  <2> QED
    BY <2>1
<1>6. gen[d.cur][n].role = "candidate"
  BY <1>3, <1>4 DEF OfRow
<1>7. SameOps
  <2>1. ops[d.id].row[d.cur].gen # 0 /\ r.gen = ops[d.id].row[d.cur].gen
    BY <1>3 DEF rows
  <2> QED
    BY <2>1 DEF RowStep, SameOps
<1>8. SameGen
  BY <1>5, <1>6, <1>5a DEF SameGen, latest
<1>9. Same
  BY <1>7, <1>8, SameTables DEF Same, Inv
<1>10. \A s \in Services : latest(s)' = latest(s) /\ Len(disk[s]) = latest(s)
  BY <1>5 DEF Inv, TypeOK, latest
<1>11. Trees'
  <2> SUFFICES ASSUME NEW s \in Services, NEW g \in 1..latest(s)
               PROVE  /\ disk[s][g] # "twice"
                      /\ gen'[s][g].state = "installed"
                         => disk[s][g] = "complete"
                      /\ gen'[s][g].state = "absent" => disk[s][g] = "none"
    BY <1>10 DEF Trees
  <2>1. CASE s = d.cur /\ g = n
    BY <1>5a, <2>1 DEF Inv, Trees
  <2>2. CASE ~(s = d.cur /\ g = n)
    BY <1>5a, <2>2 DEF Inv, Trees
  <2> QED
    BY <2>1, <2>2
<1>12. ASSUME NEW i \in Ids, NEW s \in Services
       PROVE  RowAt(i, s)'
  <2>1. CASE s = d.cur /\ ops[i].row[s].gen = n
    <3>1. /\ gen'[s][n].state = st /\ gen'[s][n].role = "candidate"
          /\ ops'[i].row[s].gen = n
          /\ ops'[i].outcome = ops[i].outcome
          /\ ops'[i].revision = ops[i].revision
      BY <1>3, <1>6, <1>7, <1>5a, <2>1 DEF SameOps
    <3>2. CASE i = d.id
      <4>1. ops'[i].row[s] = r
        BY <2>1, <3>2 DEF RowStep
      <4>2. r.outcome # "success"
        BY <1>2, <1>3 DEF OfRow
      <4>3. /\ ops'[i].outcome = "null"
            /\ ops'[i].revision = stack'.revision + 1
        BY <1>4, <3>1, <3>2
      <4> QED
        BY <1>2, <2>1, <3>1, <4>1, <4>2, <4>3 DEF RowAt, OfRow, Early
    <3>3. CASE i # d.id
      <4>1. ops[d.id].row[s].gen = n
        BY <1>3, <2>1 DEF rows
      <4>2. disk[s][n] = "complete"
        BY <1>3, <1>4, <2>1, <3>3, <4>1 DEF Inv, Sharing
      <4>3. ops'[i].row[s] = ops[i].row[s]
        BY <3>3 DEF RowStep
      <4>4. OfRow(i, s, ops[i].row[s], gen[s][n], disk[s][n])
        BY <1>3, <2>1 DEF Inv, RowInv, RowAt
      <4> QED
        BY <2>1, <3>1, <4>2, <4>3, <4>4 DEF RowAt, OfRow
    <3> QED
      BY <3>2, <3>3
  <2>2. CASE ~(s = d.cur /\ ops[i].row[s].gen = n)
    <3>1. i # d.id \/ s # d.cur
      BY <2>2 DEF row, rows
    <3>2. /\ ops'[i].row[s] = ops[i].row[s]
          /\ ops'[i].outcome = ops[i].outcome
          /\ ops'[i].revision = ops[i].revision
      BY <3>1 DEF RowStep
    <3>3. CASE ops[i].row[s].gen = 0
      BY <3>2, <3>3 DEF RowAt
    <3>4. CASE ops[i].row[s].gen # 0
      <4>1. ops[i].row[s].gen \in 1..Len(gen[s])
        BY <3>4, RowRange DEF Inv, latest
      <4>2. gen'[s][ops[i].row[s].gen] = gen[s][ops[i].row[s].gen]
        BY <1>5, <2>2, <4>1
      <4> QED
        BY <3>1, <3>2, <4>2, RowStays
    <3> QED
      BY <3>3, <3>4
  <2> QED
    BY <2>1, <2>2
<1> QED
  BY <1>9, <1>11, <1>12, SameInv DEF RowInv

\* The install is recorded: the generation and its row together.
LEMMA MarkInstalledInv ==
    ASSUME Inv, MarkInstalled
    PROVE  Inv'
<1>1. d.pc = "mark_installed" /\ UNCHANGED <<stack, active, svc, cand, disk>>
  BY DEF MarkInstalled
<1>2. d.pc \in SubjectPC /\ d.pc \in WorkPC /\ d.pc # "install"
  BY <1>1 DEF SubjectPC, WorkPC
<1>3. row.phase = "install_invoked" /\ disk[d.cur][row.gen] = "complete"
  BY <1>1, <1>2 DEF Inv, Position, AtHand
<1>4. /\ d.cur \in active /\ d.cur \in Services /\ d.cur \notin d.todo
      /\ row \in Row /\ row = rows[d.cur]
  BY <1>2, HandRow
<1>5. CASE /\ set_generation("installed") /\ set_phase("installed")
           /\ goto("start")
  <2> DEFINE r == [row EXCEPT !.phase = "installed"]
  <2>1. /\ r \in Row /\ r.gen = row.gen /\ r.phase = "installed"
        /\ r.outcome = row.outcome
    BY <1>4 DEF Row
  <2>2. RowStep(d.cur, r)
    BY <1>2, <1>5, <2>1, SetPhaseDef
  <2> HIDE DEF r
  <2>3. /\ d' \in Daemon /\ d'.pc = "start" /\ d'.id = d.id
        /\ d'.cur = d.cur /\ d'.todo = d.todo
    BY <1>5, GotoDef DEF Inv, TypeOK, WorkPC, SubjectPC
  <2>4. /\ Shape' /\ Trees' /\ RowInv' /\ Sharing' /\ NewestInv' /\ ActiveInv'
    BY <1>1, <1>3, <1>5, <2>1, <2>2, GenerationStepInv
  <2>5. TypeOK'
    <3>1. /\ gen' \in [Services -> Seq(Generation)]
          /\ \A s \in Services : Len(gen'[s]) = Len(gen[s])
      BY <1>2, <1>5, SetGenerationDef
    <3> QED
      BY <1>1, <2>2, <2>3, <3>1 DEF Inv, TypeOK, RowStep
  <2>6. names(d.id)' = active /\ row' = r
    <3>1. /\ names(d.id)' = active
          /\ \A s \in Services :
                ops'[d'.id].row[s] = IF s = d.cur THEN r ELSE ops[d.id].row[s]
      BY <1>2, <1>4, <2>1, <2>2, <2>3, RowStepView
    <3> QED
      BY <1>4, <2>3, <3>1 DEF row, rows
  <2>7. AtHand'
    BY <1>4, <2>1, <2>3, <2>6 DEF AtHand
  <2>8. Position'
    BY <1>2, <1>4, <2>1, <2>2, <2>3, <2>7, RowStepPosition
  <2> QED
    BY <2>4, <2>5, <2>8 DEF Inv
<1>6. CASE error("failed") /\ UNCHANGED <<gen, ops>>
  BY <1>1, <1>2, <1>3, <1>6, FailHere
<1> QED
  BY <1>5, <1>6 DEF MarkInstalled

\* The failed install is recorded on its generation.
LEMMA MarkRootfsUnknownInv ==
    ASSUME Inv, MarkRootfsUnknown
    PROVE  Inv'
<1>1. /\ d.pc = "mark_rootfs_unknown"
      /\ UNCHANGED <<stack, active, svc, ops, cand, disk>>
  BY DEF MarkRootfsUnknown
<1>2. d.pc \in SubjectPC /\ d.pc \in WorkPC /\ d.pc # "install"
  BY <1>1 DEF SubjectPC, WorkPC
<1>3. row.phase = "install_invoked" /\ disk[d.cur][row.gen] # "none"
  BY <1>1, <1>2 DEF Inv, Position, AtHand
<1>4. /\ d.cur \in active /\ d.cur \in Services /\ d.cur \notin d.todo
      /\ row \in Row /\ row = rows[d.cur]
  BY <1>2, HandRow
<1>5. CASE set_generation("unknown") /\ goto("mark_unknown")
  <2>1. RowStep(d.cur, row)
    BY <1>1 DEF RowStep, row, rows, Inv, TypeOK
  <2>2. /\ d' \in Daemon /\ d'.pc = "mark_unknown" /\ d'.id = d.id
        /\ d'.cur = d.cur /\ d'.todo = d.todo
    BY <1>5, GotoDef DEF Inv, TypeOK, WorkPC, SubjectPC
  <2>3. /\ Shape' /\ Trees' /\ RowInv' /\ Sharing' /\ NewestInv' /\ ActiveInv'
    BY <1>1, <1>3, <1>4, <1>5, <2>1, GenerationStepInv
  <2>4. TypeOK'
    <3>1. /\ gen' \in [Services -> Seq(Generation)]
          /\ \A s \in Services : Len(gen'[s]) = Len(gen[s])
      BY <1>2, <1>5, SetGenerationDef
    <3> QED
      BY <1>1, <2>2, <3>1 DEF Inv, TypeOK
  <2>5. names(d.id)' = names(d.id) /\ row' = row /\ rows' = rows
    BY <1>1, <2>2 DEF row, rows, names
  <2>6. Position
    BY DEF Inv
  <2>7. d.cur \in names(d.id) \ d.todo
    BY <1>2, <2>6 DEF Position, AtHand
  <2>8. AtHand'
    BY <1>1, <1>3, <2>2, <2>5, <2>7 DEF AtHand
  <2>9. Position'
    BY <1>1, <1>2, <2>2, <2>5, <2>6, <2>8 DEF Position
  <2> QED
    BY <2>3, <2>4, <2>9 DEF Inv
<1>6. CASE error("failed") /\ UNCHANGED gen
  BY <1>1, <1>2, <1>3, <1>6, FailHere
<1> QED
  BY <1>5, <1>6 DEF MarkRootfsUnknown

-----------------------------------------------------------------------------
(* abort_start_operation *)

\* A failure recorded for a service of the operation.
LEMMA RecordInv ==
    ASSUME Inv, d.pc \in {"mark_unknown", "record_failed", "abort_others"},
           NEW c \in active, NEW unknown \in BOOLEAN,
           mark_service_failed(c, unknown),
           rows[c].phase # "failed_pre_effect",
           unknown => rows[c].phase \notin Early,
           UNCHANGED <<stack, active, gen, cand, disk>>
    PROVE  /\ FailedRow(c, unknown) \in Row
           /\ FailedRow(c, unknown).gen = rows[c].gen
           /\ RowStep(c, FailedRow(c, unknown))
           /\ svc' \in [Services -> {"quiet", "busy", "backoff", "unknown"}]
           /\ Shape' /\ Trees' /\ RowInv' /\ Sharing' /\ NewestInv'
           /\ ActiveInv'
<1> DEFINE r == FailedRow(c, unknown)
<1>1. d.pc \in WorkPC /\ d.pc # "install" /\ c \in Services
  BY DEF SubjectPC, WorkPC, Inv, TypeOK
<1>2. /\ r \in Row /\ RowStep(c, r)
      /\ svc' \in [Services -> {"quiet", "busy", "backoff", "unknown"}]
  BY <1>1, FailedDef
<1>3. /\ r.gen = rows[c].gen /\ r.outcome = "failure"
      /\ r.phase = IF unknown THEN "unknown"
                   ELSE IF rows[c].phase \in Early
                   THEN "failed_pre_effect" ELSE "failed"
  BY DEF FailedRow, Early
<1>4. rows[c].gen # 0 /\ RowAt(d.id, c)
  BY <1>1, AtWork
<1>5. OfRow(d.id, c, rows[c], gen[c][rows[c].gen], disk[c][rows[c].gen])
  BY <1>4 DEF RowAt, rows
<1> HIDE DEF r
<1>6. Fits(c, r)
  BY <1>1, <1>3, <1>5 DEF Fits, OfRow, Early
<1>7. /\ Shape' /\ Trees' /\ RowInv' /\ Sharing' /\ NewestInv' /\ ActiveInv'
  BY <1>1, <1>2, <1>3, <1>6, RowStepInv
<1> QED
  BY <1>2, <1>3, <1>7 DEF r

\* The failed install is recorded on its row.
LEMMA MarkUnknownInv ==
    ASSUME Inv, MarkUnknown
    PROVE  Inv'
<1>1. /\ d.pc = "mark_unknown" /\ error("failed")
      /\ UNCHANGED <<stack, active, gen, cand, disk>>
  BY DEF MarkUnknown
<1>2. d.pc \in SubjectPC /\ d.pc \in WorkPC /\ d.pc # "install"
  BY <1>1 DEF SubjectPC, WorkPC
<1>3. row.phase = "install_invoked"
  BY <1>1, <1>2 DEF Inv, Position, AtHand
<1>4. /\ d.cur \in active /\ d.cur \in Services /\ d.cur \notin d.todo
      /\ row \in Row /\ row = rows[d.cur]
  BY <1>2, HandRow
<1>5. CASE mark_service_failed(d.cur, TRUE)
  <2> DEFINE r == FailedRow(d.cur, TRUE)
  <2>1. /\ r \in Row /\ r.gen = rows[d.cur].gen /\ RowStep(d.cur, r)
        /\ svc' \in [Services -> {"quiet", "busy", "backoff", "unknown"}]
        /\ Shape' /\ Trees' /\ RowInv' /\ Sharing' /\ NewestInv' /\ ActiveInv'
    BY <1>1, <1>3, <1>4, <1>5, RecordInv DEF Early
  <2>2. r.phase = "unknown"
    BY DEF FailedRow
  <2> HIDE DEF r
  <2>3. /\ d' \in Daemon /\ d'.pc = "record_failed" /\ d'.id = d.id
        /\ d'.cur = d.cur /\ d'.todo = d.todo /\ d'.err = "failed"
    BY <1>1, ErrorDef DEF Inv, TypeOK
  <2>4. TypeOK'
    BY <1>1, <2>1, <2>3 DEF Inv, TypeOK, RowStep
  <2>5. names(d.id)' = active /\ row' = r
    <3>1. /\ names(d.id)' = active
          /\ \A s \in Services :
                ops'[d'.id].row[s] = IF s = d.cur THEN r ELSE ops[d.id].row[s]
      BY <1>2, <1>4, <2>1, <2>3, RowStepView
    <3> QED
      BY <1>4, <2>3, <3>1 DEF row, rows
  <2>6. AtHand'
    BY <1>4, <2>2, <2>3, <2>5 DEF AtHand
  <2>7. Position'
    BY <1>2, <1>4, <2>1, <2>3, <2>6, RowStepPosition
  <2> QED
    BY <2>1, <2>4, <2>7 DEF Inv
<1>6. CASE UNCHANGED <<ops, svc>>
  BY <1>1, <1>2, <1>3, <1>6, FailHere
<1> QED
  BY <1>5, <1>6 DEF MarkUnknown

\* On the way through abort_start_operation only the rest of the loop counts.
LEMMA AbortAtHand ==
    ASSUME d'.pc \in {"abort_others", "finalize"}
    PROVE  AtHand'
BY DEF AtHand, SubjectPC

\* A record that the store may refuse.
LEMMA AbortStep ==
    ASSUME Inv, d.pc \in {"record_failed", "abort_others"},
           NEW c \in active, NEW unknown \in BOOLEAN, Record(c, unknown),
           rows[c].phase # "failed_pre_effect",
           unknown => rows[c].phase \notin Early,
           d' \in Daemon, d'.pc = "abort_others", d'.id = d.id,
           d'.todo \subseteq d.todo, c \notin d'.todo
    PROVE  Inv'
<1>1. d.pc \in WorkPC /\ d.pc # "install" /\ c \in Services
  BY DEF SubjectPC, WorkPC, Inv, TypeOK
<1>2. UNCHANGED <<stack, active, gen, cand, disk>>
  BY DEF Record
<1>3. AtHand'
  BY AbortAtHand
<1>4. CASE mark_service_failed(c, unknown)
  <2> DEFINE r == FailedRow(c, unknown)
  <2>1. /\ r \in Row /\ r.gen = rows[c].gen /\ RowStep(c, r)
        /\ svc' \in [Services -> {"quiet", "busy", "backoff", "unknown"}]
        /\ Shape' /\ Trees' /\ RowInv' /\ Sharing' /\ NewestInv' /\ ActiveInv'
    BY <1>2, <1>4, RecordInv
  <2> HIDE DEF r
  <2>2. TypeOK'
    BY <1>2, <2>1 DEF Inv, TypeOK, RowStep
  <2>3. Position'
    BY <1>1, <1>3, <2>1, RowStepPosition
  <2> QED
    BY <2>1, <2>2, <2>3 DEF Inv
<1>5. CASE UNCHANGED <<ops, svc>>
  <2>1. SameStack
    BY <1>2, SameTables DEF Inv
  <2>2. TypeOK'
    BY <1>2, <1>5 DEF Inv, TypeOK
  <2>3. names(d.id)' = names(d.id) /\ rows' = rows
    BY <1>5 DEF names, rows
  <2>4. Position
    BY DEF Inv
  <2>5. Position'
    BY <1>1, <1>3, <1>5, <2>3, <2>4 DEF Position
  <2> QED
    BY <1>1, <1>2, <1>5, <2>1, <2>2, <2>5, Calm DEF Inv
<1> QED
  BY <1>4, <1>5 DEF Record

\* abort_start_operation records the failure of the service at hand.
LEMMA RecordFailedInv ==
    ASSUME Inv, RecordFailed
    PROVE  Inv'
<1>1. /\ d.pc = "record_failed" /\ Record(d.cur, d.err = "unknown")
      /\ d' = [d EXCEPT !.pc = "abort_others"]
  BY DEF RecordFailed
<1>2. d.pc \in SubjectPC /\ d.pc \in WorkPC
  BY <1>1 DEF SubjectPC, WorkPC
<1>3. /\ row.phase # "failed_pre_effect"
      /\ d.err = "unknown" => row.phase \notin Early
  BY <1>1, <1>2 DEF Inv, Position, AtHand
<1>4. d.cur \in active /\ d.cur \notin d.todo /\ row = rows[d.cur]
  BY <1>2, HandRow
<1>5. /\ d' \in Daemon /\ d'.pc = "abort_others" /\ d'.id = d.id
      /\ d'.todo = d.todo
  BY <1>1, GotoDef DEF Inv, TypeOK, WorkPC, goto
<1>6. PICK unknown \in BOOLEAN : unknown = (d.err = "unknown")
  OBVIOUS
<1>7. Record(d.cur, unknown)
  BY <1>1, <1>6
<1> QED
  BY <1>1, <1>3, <1>4, <1>5, <1>6, <1>7, AbortStep

\* abort_start_operation fails a service the loop had not reached.
LEMMA AbortOthersInv ==
    ASSUME Inv, AbortOthers
    PROVE  Inv'
<1>1. d.pc = "abort_others" /\ d.pc \in WorkPC
  BY DEF AbortOthers, WorkPC
<1>2. PICK c \in d.todo :
          Record(c, FALSE) /\ d' = [d EXCEPT !.todo = @ \ {c}]
  BY DEF AbortOthers
<1>3. d \in Daemon
  BY DEF Inv, TypeOK
<1>4. /\ d' \in Daemon /\ d'.pc = "abort_others" /\ d'.id = d.id
      /\ d'.todo = d.todo \ {c}
  BY <1>1, <1>2, <1>3 DEF Daemon
<1>5. /\ c \in names(d.id)
      /\ rows[c].phase \in {"intent", "installed"}
  BY <1>1, <1>2 DEF Inv, Position
<1>6. c \in active
  BY <1>1, <1>5, AtWork
<1> QED
  BY <1>1, <1>2, <1>4, <1>5, <1>6, AbortStep

\* stop_started_after_failed_up, whatever it fails to stop.
LEMMA StopStartedInv ==
    ASSUME Inv, StopStarted
    PROVE  Inv'
<1> DEFINE started == {s \in names(d.id) : rows[s].outcome = "success"}
<1>1. /\ d.pc = "abort_others" /\ d.todo = {} /\ goto("finalize")
      /\ UNCHANGED <<stack, active, gen, cand, disk>>
  BY DEF StopStarted
<1>2. PICK bad \in SUBSET started :
          /\ svc' = [s \in Services |->
                       IF s \in bad THEN "unknown"
                       ELSE IF s \in started THEN "quiet" ELSE svc[s]]
          /\ ops' = [ops EXCEPT ![d.id].row =
                       [s \in Services |->
                          IF s \in bad
                          THEN [@[s] EXCEPT !.phase = "unknown",
                                            !.outcome = "failure"]
                          ELSE @[s]]]
  BY DEF StopStarted
<1>3. d.pc \in WorkPC /\ d.pc # "install"
  BY <1>1 DEF WorkPC
<1>4. /\ d.id \in Ids /\ names(d.id) = active /\ active \subseteq Services
      /\ \A s \in active : rows[s].gen # 0 /\ RowAt(d.id, s)
  BY <1>3, AtWork DEF Inv, TypeOK
<1>5. /\ d' \in Daemon /\ d'.pc = "finalize" /\ d'.id = d.id
      /\ d'.todo = {}
  BY <1>1, GotoDef DEF Inv, TypeOK, WorkPC
<1>6. ops \in [Ids -> Operation] /\ ops[d.id] \in Operation
  BY <1>4 DEF Inv, TypeOK
<1> DEFINE z == [s \in Services |->
                   IF s \in bad
                   THEN [rows[s] EXCEPT !.phase = "unknown",
                                        !.outcome = "failure"]
                   ELSE rows[s]]
<1>7. /\ z \in [Services -> Row]
      /\ \A s \in Services :
            /\ z[s].gen = rows[s].gen
            /\ s \notin bad => z[s] = rows[s]
            /\ s \in bad => z[s].phase = "unknown" /\ z[s].outcome = "failure"
  <2>1. rows \in [Services -> Row]
    BY <1>6 DEF rows, Operation
  <2>2. ASSUME NEW s \in Services
        PROVE  /\ z[s] \in Row
               /\ z[s].gen = rows[s].gen
               /\ s \notin bad => z[s] = rows[s]
               /\ s \in bad =>
                     z[s].phase = "unknown" /\ z[s].outcome = "failure"
    <3>1. rows[s] \in Row
      BY <2>1
    <3> QED
      BY <3>1 DEF Row
  <2> QED
    BY <2>2
<1>8. ops' = [ops EXCEPT ![d.id] = [ops[d.id] EXCEPT !.row = z]]
  BY <1>2 DEF rows
<1> HIDE DEF z
<1>9. /\ ops' \in [Ids -> Operation]
      /\ \A i \in Ids :
            /\ ops'[i].def = ops[i].def
            /\ ops'[i].revision = ops[i].revision
            /\ ops'[i].outcome = ops[i].outcome
            /\ ops'[i].row = IF i = d.id THEN z ELSE ops[i].row
  <2>1. /\ [ops[d.id] EXCEPT !.row = z] \in Operation
        /\ [ops[d.id] EXCEPT !.row = z].row = z
        /\ [ops[d.id] EXCEPT !.row = z].def = ops[d.id].def
        /\ [ops[d.id] EXCEPT !.row = z].revision = ops[d.id].revision
        /\ [ops[d.id] EXCEPT !.row = z].outcome = ops[d.id].outcome
    BY <1>6, <1>7 DEF Operation
  <2> QED
    BY <1>4, <1>6, <1>8, <2>1
<1>10. bad \subseteq active
  BY <1>2, <1>4
<1>11. \A i \in Ids, s \in Services :
           /\ ops'[i].row[s].gen = ops[i].row[s].gen
           /\ ~(i = d.id /\ s \in bad) => ops'[i].row[s] = ops[i].row[s]
  BY <1>7, <1>9 DEF rows
<1>12. SameOps
  BY <1>4, <1>9, <1>10, <1>11 DEF SameOps, rows
<1>13. Same
  BY <1>1, <1>12, SameTables DEF Same, Inv
<1>14. ASSUME NEW i \in Ids, NEW s \in Services
       PROVE  RowAt(i, s)'
  <2>1. CASE i = d.id /\ s \in bad
    <3>1. /\ ops'[i].row[s] = z[s]
          /\ z[s].gen = rows[s].gen /\ z[s].phase = "unknown"
          /\ z[s].outcome = "failure"
      BY <1>7, <1>9, <2>1
    <3>2. rows[s].outcome = "success"
      BY <2>1, <1>2
    <3>3. OfRow(i, s, rows[s], gen[s][rows[s].gen], disk[s][rows[s].gen])
      BY <1>4, <1>10, <2>1 DEF RowAt, rows
    <3>4. /\ ops'[i].revision = ops[i].revision
          /\ ops'[i].outcome = ops[i].outcome
      BY <1>9
    <3> QED
      BY <1>1, <3>1, <3>2, <3>3, <3>4 DEF RowAt, OfRow, Early
  <2>2. CASE ~(i = d.id /\ s \in bad)
    <3>1. /\ ops'[i].row[s] = ops[i].row[s]
          /\ ops'[i].revision = ops[i].revision
          /\ ops'[i].outcome = ops[i].outcome
      BY <1>9, <1>11, <2>2
    <3> QED
      BY <1>1, <1>3, <3>1, RowStays
  <2> QED
    BY <2>1, <2>2
<1>15. svc' \in [Services -> {"quiet", "busy", "backoff", "unknown"}]
  BY <1>2 DEF Inv, TypeOK
<1>16. TypeOK'
  BY <1>1, <1>5, <1>9, <1>15 DEF Inv, TypeOK
<1>17. Position'
  <2>1. ops'[d'.id].outcome = "null" /\ d'.id \in Ids
    BY <1>3, <1>4, <1>5, <1>9 DEF Inv, Position
  <2>2. AtHand'
    BY <1>5, AbortAtHand
  <2> QED
    BY <1>5, <2>1, <2>2 DEF Position
<1> QED
  BY <1>1, <1>13, <1>14, <1>16, <1>17, SameInv, SameTrees DEF Inv, RowInv

-----------------------------------------------------------------------------
(* The decisions: finalize_failure, commit_up and the cold start *)

\* Outcomes and roles may change, what the operations name may not.
Kept ==
    /\ stack' \in Stack /\ stack'.revision >= stack.revision
    /\ ops' \in [Ids -> Operation]
    /\ \A i \in Ids :
          /\ ops'[i].def = ops[i].def
          /\ ops'[i].revision = ops[i].revision
          /\ ops'[i].outcome = "none" <=> ops[i].outcome = "none"
          /\ \A s \in Services :
                /\ ops'[i].row[s].gen = ops[i].row[s].gen
                /\ ops[i].row[s].gen = 0 => ops'[i].row[s] = ops[i].row[s]
    /\ gen' \in [Services -> Seq(Generation)]
    /\ \A s \in Services : Len(gen'[s]) = Len(gen[s])
    /\ UNCHANGED disk

\* Shape and Sharing depend only on what Kept preserves.
LEMMA KeptInv ==
    ASSUME Inv, Kept
    PROVE  Shape' /\ Sharing'
<1>1. ASSUME NEW i \in Ids
      PROVE  /\ ops'[i].outcome = "none" =>
                   \A s \in Services : ops'[i].row[s] = NoRow
             /\ ops'[i].outcome # "none" =>
                   /\ ops'[i].def \in Defs
                   /\ names(i)' = ServicesOf[ops'[i].def]
             /\ ops'[i].revision <= stack'.revision + 1
             /\ \A s \in Services :
                   /\ ops'[i].row[s].gen <= latest(s)'
                   /\ ops'[i].row[s].gen = 0 => ops'[i].row[s] = NoRow
  <2>1. names(i)' = names(i)
    BY DEF Kept, names
  <2>2. Shape
    BY DEF Inv
  <2>3. ops'[i].outcome = "none" => \A s \in Services : ops'[i].row[s] = NoRow
    BY <2>2 DEF Shape, Kept, NoRow
  <2>4. ops'[i].outcome # "none" =>
            /\ ops'[i].def \in Defs
            /\ names(i)' = ServicesOf[ops'[i].def]
    BY <2>1, <2>2 DEF Shape, Kept
  <2>5. ops'[i].revision <= stack'.revision + 1
    <3>1. /\ ops[i].revision \in Nat /\ stack.revision \in Nat
          /\ stack'.revision \in Nat
          /\ stack'.revision >= stack.revision
          /\ ops'[i].revision = ops[i].revision
      BY DEF Inv, TypeOK, Operation, Stack, Kept
    <3> QED
      BY <2>2, <3>1 DEF Shape
  <2>6. ASSUME NEW s \in Services
        PROVE  /\ ops'[i].row[s].gen <= latest(s)'
               /\ ops'[i].row[s].gen = 0 => ops'[i].row[s] = NoRow
    BY <2>2 DEF Shape, Kept, latest
  <2> QED
    BY <2>3, <2>4, <2>5, <2>6
<1>2. ASSUME NEW i \in Ids, NEW j \in Ids, NEW s \in Services,
             i # j, ops'[i].row[s].gen # 0,
             ops'[i].row[s].gen = ops'[j].row[s].gen
      PROVE  /\ disk'[s][ops'[i].row[s].gen] = "complete"
             /\ ops'[i].def = ops'[j].def
  BY <1>2 DEF Inv, Sharing, Kept
<1> QED
  BY <1>1, <1>2 DEF Shape, Sharing

\* An operation is the newest exactly if it was.
LEMMA KeptNewest ==
    ASSUME Inv, Kept, UNCHANGED active, NEW i \in Ids
    PROVE  Newest(i)' <=> Newest(i)
<1>1. names(i)' = names(i)
  BY DEF Kept, names
<1>2. \A s \in Services : latest(s)' = latest(s)
  BY DEF Kept, latest
<1>3. active \subseteq Services
  BY DEF Inv, TypeOK
<1> QED
  BY <1>1, <1>2, <1>3 DEF Newest, Kept

\* The outcome of the operation being served.
LEMMA OutcomeDef ==
    ASSUME Inv, d.id \in Ids, NEW o \in {"success", "failure"},
           ops' = [ops EXCEPT ![d.id].outcome = o]
    PROVE  /\ ops' \in [Ids -> Operation]
           /\ \A i \in Ids :
                 /\ ops'[i].def = ops[i].def
                 /\ ops'[i].revision = ops[i].revision
                 /\ ops'[i].row = ops[i].row
                 /\ ops'[i].outcome = IF i = d.id THEN o ELSE ops[i].outcome
<1>1. ops \in [Ids -> Operation] /\ ops[d.id] \in Operation
  BY DEF Inv, TypeOK
<1>2. /\ [ops[d.id] EXCEPT !.outcome = o] \in Operation
      /\ [ops[d.id] EXCEPT !.outcome = o].row = ops[d.id].row
      /\ [ops[d.id] EXCEPT !.outcome = o].def = ops[d.id].def
      /\ [ops[d.id] EXCEPT !.outcome = o].revision = ops[d.id].revision
      /\ [ops[d.id] EXCEPT !.outcome = o].outcome = o
  BY <1>1 DEF Operation
<1> QED
  BY <1>1, <1>2

\* finalize_failure decides the operation, or leaves it unfinished.
LEMMA FinalizeInv ==
    ASSUME Inv, Finalize
    PROVE  Inv'
<1>1. /\ d.pc = "finalize" /\ d' = [d EXCEPT !.pc = "idle", !.err = "none"]
      /\ UNCHANGED <<stack, active, svc, gen, disk>>
  BY DEF Finalize
<1>2. d.pc \in WorkPC /\ d.pc # "install"
  BY <1>1 DEF WorkPC
<1>3. d' \in Daemon /\ d'.pc = "idle"
  BY <1>1 DEF Inv, TypeOK, Daemon
<1>4. Position'
  BY <1>3, IdlePosition
<1>5. /\ d.id \in Ids /\ names(d.id) = active /\ active \subseteq Services
      /\ ops[d.id].outcome = "null"
      /\ ops[d.id].revision = stack.revision + 1
  BY <1>2, AtWork DEF Inv, TypeOK
<1>6. CASE /\ \A s \in Services : rows[s].outcome # "null"
           /\ ops' = [ops EXCEPT ![d.id].outcome = "failure"]
           /\ cand' = d.id
  <2>1. /\ ops' \in [Ids -> Operation]
        /\ \A i \in Ids :
              /\ ops'[i].def = ops[i].def
              /\ ops'[i].revision = ops[i].revision
              /\ ops'[i].row = ops[i].row
              /\ ops'[i].outcome =
                   IF i = d.id THEN "failure" ELSE ops[i].outcome
    BY <1>5, <1>6, OutcomeDef
  <2>2. TypeOK'
    BY <1>1, <1>3, <1>5, <1>6, <2>1 DEF Inv, TypeOK
  <2>3. Kept
    BY <1>1, <1>5, <2>1 DEF Kept, Inv, TypeOK, Stack
  <2>4. Shape' /\ Sharing'
    BY <2>3, KeptInv
  <2>5. ASSUME NEW i \in Ids, NEW s \in Services
        PROVE  RowAt(i, s)'
    <3>1. CASE i = d.id
      <4>1. ops[i].row[s].outcome # "null"
        BY <1>6, <3>1 DEF rows
      <4>2. RowAt(i, s)
        BY DEF Inv, RowInv
      <4> QED
        BY <1>1, <1>2, <1>5, <2>1, <3>1, <4>1, <4>2 DEF RowAt, OfRow
    <3>2. CASE i # d.id
      BY <1>1, <1>2, <2>1, <3>2, RowStays
    <3> QED
      BY <3>1, <3>2
  <2>6. NewestInv'
    <3>1. \A i \in Ids : ops[i].outcome = "null" => i = d.id
      BY <1>5 DEF Inv, NewestInv
    <3>2. \A i \in Ids : ops'[i].outcome # "null"
      BY <2>1, <3>1
    <3>3. Newest(d.id)
      BY <1>5 DEF Inv, NewestInv
    <3>4. PICK i \in Ids : i = d.id
      BY <1>5
    <3>5. Newest(i)'
      BY <1>1, <2>3, <3>3, <3>4, KeptNewest
    <3>6. Newest(cand)'
      BY <1>6, <3>4, <3>5 DEF Newest, names
    <3>7. cand' \in Ids /\ cand' # 0
      BY <1>5, <1>6, IdsAssumption
    <3>8. /\ ops'[cand'].outcome = "failure"
          /\ ops'[cand'].revision = stack'.revision + 1
      BY <1>1, <1>5, <1>6, <2>1
    <3> QED
      BY <3>2, <3>6, <3>7, <3>8 DEF NewestInv
  <2>7. ActiveInv'
    <3>1. ActiveInv
      BY DEF Inv
    <3>2. Partial'
      BY <1>1, <2>1, <3>1 DEF ActiveInv, Partial, latest
    <3>3. CommittedSurvives'
      BY <1>1, <3>1 DEF ActiveInv, CommittedSurvives, latest
    <3> QED
      BY <1>1, <3>1, <3>2, <3>3 DEF ActiveInv, latest
  <2> QED
    BY <1>1, <1>4, <2>2, <2>4, <2>5, <2>6, <2>7, SameTrees DEF Inv, RowInv
<1>7. CASE UNCHANGED <<ops, cand>>
  <2>1. SameStack
    BY <1>1, <1>7, SameTables DEF Inv
  <2>2. TypeOK'
    BY <1>1, <1>3, <1>7 DEF Inv, TypeOK
  <2> QED
    BY <1>1, <1>2, <1>4, <1>7, <2>1, <2>2, Calm DEF Inv
<1> QED
  BY <1>6, <1>7 DEF Finalize

\* A function on 1..n is a sequence of length n.
LEMMA AsSeq ==
    ASSUME NEW S, NEW n \in Nat, NEW f \in [1..n -> S]
    PROVE  f \in Seq(S) /\ Len(f) = n
<1>1. f \in Seq(S)
  BY SeqDef
<1>2. Len(f) \in Nat /\ DOMAIN f = 1..Len(f)
  BY <1>1, LenProperties
<1>3. 1..Len(f) = 1..n
  BY <1>2
<1>4. Len(f) = n
  BY <1>2, <1>3
<1> QED
  BY <1>1, <1>4

\* What commit_up does to the generations: it keeps their states, makes the
\* operation's own current, and retires what was.
LEMMA CommitGenDef ==
    ASSUME Inv, d.pc = "commit", commit_up
    PROVE  /\ gen' \in [Services -> Seq(Generation)]
           /\ \A s \in Services :
                 /\ Len(gen'[s]) = Len(gen[s])
                 /\ s \notin active => gen'[s] = gen[s]
                 /\ \A g \in 1..Len(gen[s]) :
                       /\ gen'[s][g].state = gen[s][g].state
                       /\ s \in active =>
                             (gen'[s][g].role = "current" <=> g = rows[s].gen)
<1>1. d.pc \in WorkPC
  BY DEF SubjectPC, WorkPC
<1>2. names(d.id) = active
  BY <1>1, AtWork
<1>3. gen' = [s \in Services |-> IF s \in active THEN commit_gen(s) ELSE gen[s]]
  BY <1>2 DEF commit_up
<1>4. ASSUME NEW s \in Services
      PROVE  /\ commit_gen(s) \in Seq(Generation)
             /\ Len(commit_gen(s)) = Len(gen[s])
             /\ \A g \in 1..Len(gen[s]) :
                   /\ commit_gen(s)[g].state = gen[s][g].state
                   /\ commit_gen(s)[g].role = "current" <=> g = rows[s].gen
  <2>1. gen[s] \in Seq(Generation) /\ Len(gen[s]) \in Nat
    BY LenProperties DEF Inv, TypeOK
  <2>2. ASSUME NEW g \in 1..Len(gen[s])
        PROVE  /\ commit_gen(s)[g] \in Generation
               /\ commit_gen(s)[g].state = gen[s][g].state
               /\ commit_gen(s)[g].role = "current" <=> g = rows[s].gen
    <3>1. gen[s][g] \in Generation
      BY <2>1, ElementOfSeq
    <3>2. commit_gen(s)[g] =
            IF g = rows[s].gen THEN [gen[s][g] EXCEPT !.role = "current"]
            ELSE IF gen[s][g].role = "current"
            THEN [gen[s][g] EXCEPT !.role = "retired"] ELSE gen[s][g]
      BY DEF commit_gen, latest
    <3> QED
      BY <3>1, <3>2 DEF Generation
  <2>3. commit_gen(s) \in [1..Len(gen[s]) -> Generation]
    BY <2>2 DEF commit_gen, latest
  <2>4. commit_gen(s) \in Seq(Generation) /\ Len(commit_gen(s)) = Len(gen[s])
    BY <2>1, <2>3, AsSeq
  <2> QED
    BY <2>2, <2>4
<1>5. gen \in [Services -> Seq(Generation)]
  BY DEF Inv, TypeOK
<1>6. gen' \in [Services -> Seq(Generation)]
  BY <1>3, <1>4, <1>5
<1>7. ASSUME NEW s \in Services
      PROVE  /\ Len(gen'[s]) = Len(gen[s])
             /\ s \notin active => gen'[s] = gen[s]
             /\ \A g \in 1..Len(gen[s]) :
                   /\ gen'[s][g].state = gen[s][g].state
                   /\ s \in active =>
                         (gen'[s][g].role = "current" <=> g = rows[s].gen)
  <2>1. gen'[s] = IF s \in active THEN commit_gen(s) ELSE gen[s]
    BY <1>3
  <2> QED
    BY <2>1, <1>4
<1> QED
  BY <1>6, <1>7

\* At the commit every service of the operation runs from a complete tree.
LEMMA CommitFacts ==
    ASSUME Inv, d.pc = "commit", commit_up
    PROVE  /\ d.id \in Ids /\ ops[d.id].outcome = "null"
           /\ ops[d.id].revision = stack.revision + 1
           /\ ops[d.id].def \in Defs /\ active = ServicesOf[ops[d.id].def]
           /\ \A i \in Ids : ops[i].outcome = "null" => i = d.id
           /\ \A s \in active :
                 /\ rows[s].outcome = "success"
                 /\ rows[s].gen = latest(s)
                 /\ rows[s].gen \in 1..latest(s)
                 /\ disk[s][rows[s].gen] = "complete"
           /\ \A s \in Services : \A g \in 1..latest(s) :
                 disk[s][g] # "partial"
<1>1. d.pc \in WorkPC
  BY DEF SubjectPC, WorkPC
<1>2. /\ d.id \in Ids /\ ops[d.id].outcome = "null" /\ names(d.id) = active
      /\ ops[d.id].revision = stack.revision + 1
      /\ \A s \in active :
            /\ rows[s].gen = latest(s)
            /\ rows[s].gen \in 1..latest(s)
            /\ RowAt(d.id, s)
  BY <1>1, AtWork
<1>3. ops[d.id].def \in Defs /\ active = ServicesOf[ops[d.id].def]
  BY <1>2 DEF Inv, Shape
<1>4. \A i \in Ids : ops[i].outcome = "null" => i = d.id
  BY <1>2 DEF Inv, NewestInv
<1>5. ASSUME NEW s \in active
      PROVE  rows[s].outcome = "success" /\ disk[s][rows[s].gen] = "complete"
  <2>1. rows[s].outcome = "success"
    BY <1>2 DEF commit_up
  <2>2. RowAt(d.id, s) /\ rows[s].gen # 0
    BY <1>2
  <2>3. OfRow(d.id, s, rows[s], gen[s][rows[s].gen], disk[s][rows[s].gen])
    BY <2>2 DEF RowAt, rows
  <2> QED
    BY <2>1, <2>3 DEF OfRow
<1>6. ASSUME NEW s \in Services, NEW g \in 1..latest(s)
      PROVE  disk[s][g] # "partial"
  <2>1. disk[s][g] = "partial" => s \in active /\ g = latest(s)
    BY DEF Inv, ActiveInv, Partial
  <2> QED
    BY <1>2, <1>5, <2>1
<1> QED
  BY <1>2, <1>3, <1>4, <1>5, <1>6

\* commit_up, when its checks hold.
LEMMA CommitUpInv ==
    ASSUME Inv, d.pc = "commit", commit_up, UNCHANGED disk
    PROVE  Inv'
<1>1. /\ d.id \in Ids /\ ops[d.id].outcome = "null"
      /\ ops[d.id].revision = stack.revision + 1
      /\ ops[d.id].def \in Defs /\ active = ServicesOf[ops[d.id].def]
      /\ \A i \in Ids : ops[i].outcome = "null" => i = d.id
      /\ \A s \in active :
            /\ rows[s].outcome = "success"
            /\ rows[s].gen = latest(s)
            /\ rows[s].gen \in 1..latest(s)
            /\ disk[s][rows[s].gen] = "complete"
      /\ \A s \in Services : \A g \in 1..latest(s) : disk[s][g] # "partial"
  BY CommitFacts
<1>2. /\ gen' \in [Services -> Seq(Generation)]
      /\ \A s \in Services :
            /\ Len(gen'[s]) = Len(gen[s])
            /\ s \notin active => gen'[s] = gen[s]
            /\ \A g \in 1..Len(gen[s]) :
                  /\ gen'[s][g].state = gen[s][g].state
                  /\ s \in active =>
                        (gen'[s][g].role = "current" <=> g = rows[s].gen)
  BY CommitGenDef
<1>3. /\ ops' \in [Ids -> Operation]
      /\ \A i \in Ids :
            /\ ops'[i].def = ops[i].def
            /\ ops'[i].revision = ops[i].revision
            /\ ops'[i].row = ops[i].row
            /\ ops'[i].outcome =
                 IF i = d.id THEN "success" ELSE ops[i].outcome
  BY <1>1, OutcomeDef DEF commit_up
<1>4. /\ stack' = [desired |-> "running", revision |-> ops[d.id].revision,
                   def |-> ops[d.id].def]
      /\ cand' = 0 /\ goto("idle") /\ UNCHANGED <<active, svc>>
  BY DEF commit_up
<1>5. stack.revision \in Nat /\ active \subseteq Services
  BY DEF Inv, TypeOK, Stack
<1>6. /\ stack' \in Stack /\ stack'.revision = stack.revision + 1
      /\ stack'.def = ops[d.id].def
  BY <1>1, <1>4, <1>5 DEF Stack
<1>7. d' \in Daemon /\ d'.pc = "idle"
  BY <1>4, GotoDef DEF Inv, TypeOK
<1>8. TypeOK'
  BY <1>2, <1>3, <1>4, <1>6, <1>7 DEF Inv, TypeOK
<1>9. Kept
  BY <1>1, <1>2, <1>3, <1>5, <1>6 DEF Kept
<1>10. Shape' /\ Sharing'
  BY <1>9, KeptInv
<1>11. \A s \in Services :
          /\ latest(s)' = latest(s) /\ latest(s) = Len(gen[s])
          /\ latest(s) \in Nat
  BY <1>1, <1>2, RowRange DEF latest, Inv
<1>12. Trees'
  BY <1>2, <1>11 DEF Trees, Inv
<1>13. ASSUME NEW i \in Ids, NEW s \in Services
       PROVE  RowAt(i, s)'
  <2> SUFFICES ASSUME ops[i].row[s].gen # 0
               PROVE  OfRow(i, s, ops[i].row[s], gen[s][ops[i].row[s].gen],
                            disk[s][ops[i].row[s].gen])'
    BY <1>3 DEF RowAt
  <2> DEFINE r == ops[i].row[s]
             n == r.gen
  <2>1. n \in 1..latest(s)
    BY RowRange DEF Inv
  <2>2. OfRow(i, s, r, gen[s][n], disk[s][n])
    BY DEF Inv, RowInv, RowAt
  <2>3. r.phase \notin Early
    <3>1. CASE i = d.id
      <4>1. s \in names(d.id)
        BY <3>1 DEF names
      <4>2. s \in active
        BY <4>1, AtWork DEF SubjectPC, WorkPC
      <4> QED
        BY <1>1, <2>2, <3>1, <4>2 DEF OfRow, Early, rows
    <3>2. CASE i # d.id
      BY <1>1, <2>2, <3>2 DEF OfRow
    <3> QED
      BY <3>1, <3>2
  <2>4. gen'[s][n].state = gen[s][n].state
    BY <1>2, <1>11, <2>1
  <2>5. disk[s][n] # "partial"
    BY <1>1, <2>1
  <2>6. ops'[i].revision # stack'.revision + 1
    <3>1. ops[i].revision \in Nat /\ ops[i].revision <= stack.revision + 1
      BY RowRange DEF Inv, Shape
    <3> QED
      BY <1>3, <1>5, <1>6, <3>1
  <2>7. /\ ops'[i].row[s] = r /\ ops'[i].outcome # "null"
        /\ disk' = disk
    BY <1>1, <1>3
  <2>8. /\ r.phase = "failed_pre_effect" =>
              r.outcome = "failure" /\ disk[s][n] = "none"
        /\ r.phase \in {"installed", "start_invoked", "running"} =>
              disk[s][n] = "complete"
        /\ r.outcome = "success" => r.phase = "running"
    BY <2>2 DEF OfRow
  <2>9. gen'[s][n].state = "preparing" /\ disk[s][n] = "none"
        => r.phase \in Early \cup {"failed_pre_effect"}
    BY <2>2, <2>4 DEF OfRow
  <2> QED
    BY <2>3, <2>5, <2>6, <2>7, <2>8, <2>9 DEF OfRow
<1>14. NewestInv'
  <2>1. \A i \in Ids : ops'[i].outcome # "null"
    BY <1>1, <1>3
  <2>2. failed_candidates' = {}
    <3>1. ASSUME NEW i \in Ids
          PROVE  ops'[i].revision # stack'.revision + 1
      <4>1. ops[i].revision \in Nat /\ ops[i].revision <= stack.revision + 1
        BY DEF Inv, Shape, TypeOK, Operation
      <4> QED
        BY <1>3, <1>5, <1>6, <4>1
    <3> QED
      BY <3>1 DEF failed_candidates
  <2>3. cand' = 0 /\ stack'.revision # 0
    BY <1>4, <1>5, <1>6
  <2> QED
    BY <2>1, <2>2, <2>3 DEF NewestInv
<1>15. ActiveInv'
  <2>1. ASSUME NEW s \in active
        PROVE  /\ latest(s)' > 0
               /\ gen'[s][latest(s)'].role # "retired"
               /\ \E g \in 1..latest(s)' :
                     /\ gen'[s][g].role = "current"
                     /\ disk'[s][g] = "complete"
                     /\ \A h \in 1..latest(s)' :
                           gen'[s][h].role = "current" => h = g
    <3>1. s \in Services /\ latest(s)' = latest(s) /\ latest(s) \in Nat
      BY <1>5, <1>11
    <3>2. rows[s].gen = latest(s) /\ latest(s) \in 1..latest(s)
      BY <1>1
    <3>3. gen'[s][latest(s)].role = "current"
      BY <1>2, <1>11, <3>1, <3>2
    <3>4. \A h \in 1..latest(s) : gen'[s][h].role = "current" => h = latest(s)
      BY <1>2, <1>11, <3>1, <3>2
    <3>5. disk'[s][latest(s)] = "complete"
      BY <1>1, <3>2
    <3>6. latest(s) > 0
      BY <3>1, <3>2
    <3>7. gen'[s][latest(s)].role # "retired"
      BY <3>3
    <3> QED
      BY <3>1, <3>2, <3>3, <3>4, <3>5, <3>6, <3>7
  <2>2. Partial'
    BY <1>1, <1>11 DEF Partial
  <2>3. active' = ServicesOf[stack'.def] /\ stack'.def \in Defs
    BY <1>1, <1>4, <1>6
  <2>4. CommittedSurvives'
    BY <1>4, <2>1, <2>3 DEF CommittedSurvives
  <2> QED
    BY <1>4, <2>1, <2>2, <2>3, <2>4 DEF ActiveInv
<1>16. Position'
  BY <1>7, IdlePosition
<1> QED
  BY <1>8, <1>10, <1>12, <1>13, <1>14, <1>15, <1>16 DEF Inv, RowInv

\* The commit, or its failure.
LEMMA CommitInv ==
    ASSUME Inv, Commit
    PROVE  Inv'
<1>1. d.pc = "commit" /\ UNCHANGED disk
  BY DEF Commit
<1>2. d.pc \in SubjectPC \ {"install"} /\ d.pc \in WorkPC
  BY <1>1 DEF SubjectPC, WorkPC
<1>3. CASE commit_up
  BY <1>1, <1>3, CommitUpInv
<1>4. CASE error("failed") /\ UNCHANGED dbVars
  <2>1. row.phase = "running"
    BY <1>1, <1>2 DEF Inv, Position, AtHand
  <2> QED
    BY <1>1, <1>2, <1>4, <2>1, FailHere DEF dbVars
<1> QED
  BY <1>3, <1>4 DEF Commit

\* A row that the cold start finds open, and whether its phase proves that
\* nothing was started.
OpenRow(i, s) == ops[i].outcome = "null" /\ ops[i].row[s].outcome = "null"
SafePhase(phase) == phase \in {"intent", "logs_prepared", "installed"}
ColdRow(r) == [gen |-> r.gen,
               phase |-> IF SafePhase(r.phase) THEN "failed" ELSE "unknown",
               outcome |-> "failure"]

\* There is at most one: the operation that was cut off.
LEMMA OpenRowFacts ==
    ASSUME Inv, NEW i \in Ids, NEW s \in Services, OpenRow(i, s)
    PROVE  /\ \A j \in Ids : OpenRow(j, s) => j = i
           /\ (CHOOSE j \in Ids : OpenRow(j, s)) = i
           /\ ops[i].row[s].gen \in 1..latest(s)
           /\ OfRow(i, s, ops[i].row[s], gen[s][ops[i].row[s].gen],
                    disk[s][ops[i].row[s].gen])
<1>1. \A j \in Ids : OpenRow(j, s) => j = i
  BY DEF Inv, NewestInv, OpenRow
<1>2. (CHOOSE j \in Ids : OpenRow(j, s)) = i
  BY <1>1
<1>3. ops[i].row[s].gen # 0
  BY DEF OpenRow, Inv, Shape, NoRow
<1>4. ops[i].row[s].gen \in 1..latest(s)
  BY <1>3, RowRange DEF Inv
<1>5. RowAt(i, s)
  BY DEF Inv, RowInv
<1> QED
  BY <1>1, <1>2, <1>3, <1>4, <1>5 DEF RowAt

\* cold_gen on the generation of an open row.
LEMMA ColdGenDef ==
    ASSUME NEW phase, NEW g \in Generation
    PROVE  /\ cold_gen(phase, g) \in Generation
           /\ phase \in Early => cold_gen(phase, g) = [state |-> "absent",
                                                       role |-> "retired"]
           /\ phase \notin Early => cold_gen(phase, g).role = g.role
           /\ phase = "install_invoked" => cold_gen(phase, g).state = "unknown"
           /\ phase \notin Early \cup {"install_invoked"}
              => cold_gen(phase, g) = g
BY DEF cold_gen, Generation, Early

\* What the cold start writes to each generation.
LEMMA ColdGen ==
    ASSUME Inv, ColdStart
    PROVE  /\ gen' \in [Services -> Seq(Generation)]
           /\ \A s \in Services :
                 /\ Len(gen'[s]) = Len(gen[s])
                 /\ \A g \in 1..Len(gen[s]) :
                       \/ /\ \A i \in Ids :
                                OpenRow(i, s) => ops[i].row[s].gen # g
                          /\ gen'[s][g] = gen[s][g]
                       \/ \E i \in Ids :
                             /\ OpenRow(i, s) /\ ops[i].row[s].gen = g
                             /\ gen'[s][g] =
                                  cold_gen(ops[i].row[s].phase, gen[s][g])
<1> DEFINE new(s, g) ==
             IF \E i \in Ids : OpenRow(i, s) /\ ops[i].row[s].gen = g
             THEN LET i == CHOOSE i \in Ids : OpenRow(i, s)
                  IN  cold_gen(ops[i].row[s].phase, gen[s][g])
             ELSE gen[s][g]
<1>1. gen' = [s \in Services |-> [g \in 1..latest(s) |-> new(s, g)]]
  BY DEF ColdStart, OpenRow
<1>2. ASSUME NEW s \in Services, NEW g \in 1..latest(s)
      PROVE  /\ new(s, g) \in Generation
             /\ \/ /\ \A i \in Ids : OpenRow(i, s) => ops[i].row[s].gen # g
                   /\ new(s, g) = gen[s][g]
                \/ \E i \in Ids :
                      /\ OpenRow(i, s) /\ ops[i].row[s].gen = g
                      /\ new(s, g) = cold_gen(ops[i].row[s].phase, gen[s][g])
  <2>1. gen[s][g] \in Generation
    BY ElementOfSeq DEF Inv, TypeOK, latest
  <2>2. CASE \E i \in Ids : OpenRow(i, s) /\ ops[i].row[s].gen = g
    <3>1. PICK i \in Ids : OpenRow(i, s) /\ ops[i].row[s].gen = g
      BY <2>2
    <3>2. (CHOOSE j \in Ids : OpenRow(j, s)) = i
      BY <3>1, OpenRowFacts
    <3>3. new(s, g) = cold_gen(ops[i].row[s].phase, gen[s][g])
      BY <2>2, <3>2
    <3>4. new(s, g) \in Generation
      BY <2>1, <3>3, ColdGenDef
    <3> QED
      BY <3>1, <3>3, <3>4
  <2>3. CASE ~\E i \in Ids : OpenRow(i, s) /\ ops[i].row[s].gen = g
    BY <2>1, <2>3
  <2> QED
    BY <2>2, <2>3
<1> HIDE DEF new
<1>3. ASSUME NEW s \in Services
      PROVE  /\ gen'[s] \in Seq(Generation) /\ Len(gen'[s]) = Len(gen[s])
             /\ \A g \in 1..Len(gen[s]) : gen'[s][g] = new(s, g)
  <2>1. Len(gen[s]) \in Nat
    BY LenProperties DEF Inv, TypeOK
  <2>2. gen'[s] = [g \in 1..Len(gen[s]) |-> new(s, g)]
    BY <1>1 DEF latest
  <2>3. gen'[s] \in [1..Len(gen[s]) -> Generation]
    BY <1>2, <2>2 DEF latest
  <2> QED
    BY <2>1, <2>2, <2>3, AsSeq
<1>4. gen' \in [Services -> Seq(Generation)]
  BY <1>1, <1>3
<1> QED
  BY <1>2, <1>3, <1>4 DEF latest

\* What the cold start writes to each operation.
LEMMA ColdOps ==
    ASSUME Inv, ColdStart
    PROVE  /\ ops' \in [Ids -> Operation]
           /\ \A i \in Ids :
                 /\ ops'[i].def = ops[i].def
                 /\ ops'[i].revision = ops[i].revision
                 /\ ops'[i].outcome = IF ops[i].outcome = "null"
                                      THEN "failure" ELSE ops[i].outcome
                 /\ \A s \in Services :
                       ops'[i].row[s] = IF OpenRow(i, s)
                                        THEN ColdRow(ops[i].row[s])
                                        ELSE ops[i].row[s]
<1> DEFINE z(i) == [s \in Services |->
                      IF OpenRow(i, s) THEN ColdRow(ops[i].row[s])
                      ELSE ops[i].row[s]]
           o(i) == IF ops[i].outcome # "null" THEN ops[i]
                   ELSE [ops[i] EXCEPT !.outcome = "failure", !.row = z(i)]
<1>1. ops' = [i \in Ids |-> o(i)]
  BY DEF ColdStart, OpenRow, ColdRow, SafePhase
<1>2. ASSUME NEW i \in Ids
      PROVE  /\ o(i) \in Operation
             /\ o(i).def = ops[i].def
             /\ o(i).revision = ops[i].revision
             /\ o(i).outcome = IF ops[i].outcome = "null"
                               THEN "failure" ELSE ops[i].outcome
             /\ \A s \in Services :
                   o(i).row[s] = IF OpenRow(i, s) THEN ColdRow(ops[i].row[s])
                                 ELSE ops[i].row[s]
  <2>1. ops[i] \in Operation /\ ops[i].row \in [Services -> Row]
    BY DEF Inv, TypeOK, Operation
  <2>2. \A s \in Services : ColdRow(ops[i].row[s]) \in Row
    <3>1. \A s \in Services : ops[i].row[s].gen \in Nat
      BY <2>1 DEF Row
    <3> QED
      BY <3>1 DEF ColdRow, Row
  <2>3. z(i) \in [Services -> Row]
    BY <2>1, <2>2
  <2>4. CASE ops[i].outcome # "null"
    BY <2>1, <2>4 DEF OpenRow
  <2>5. CASE ops[i].outcome = "null"
    <3>1. /\ \A s \in Services :
                z(i)[s] = IF OpenRow(i, s) THEN ColdRow(ops[i].row[s])
                          ELSE ops[i].row[s]
      OBVIOUS
    <3>2. o(i) = [ops[i] EXCEPT !.outcome = "failure", !.row = z(i)]
      BY <2>5
    <3> HIDE DEF z, o
    <3>3. /\ o(i) \in Operation /\ o(i).row = z(i)
          /\ o(i).outcome = "failure" /\ o(i).def = ops[i].def
          /\ o(i).revision = ops[i].revision
      BY <2>1, <2>3, <3>2 DEF Operation
    <3> QED
      BY <2>5, <3>1, <3>3
  <2> QED
    BY <2>4, <2>5
<1> HIDE DEF o
<1> QED
  BY <1>1, <1>2

\* What the cold start makes of one generation: nothing; retired, when no
\* install can have happened; or unknown, still in its role.
ColdChange(s, n) ==
    \/ gen'[s][n] = gen[s][n]
    \/ /\ disk[s][n] = "none" /\ gen[s][n].role = "candidate"
       /\ gen'[s][n] = [state |-> "absent", role |-> "retired"]
    \/ /\ gen[s][n].role = "candidate" /\ gen'[s][n].role = "candidate"
       /\ gen'[s][n].state = "unknown"

\* Only the generation of an open row changes, as ColdChange says.
LEMMA ColdChanges ==
    ASSUME Inv, ColdStart, NEW s \in Services, NEW n \in 1..latest(s)
    PROVE  ColdChange(s, n)
<1>1. gen[s][n] \in Generation
  BY ElementOfSeq DEF Inv, TypeOK, latest
<1>2. CASE gen'[s][n] = gen[s][n]
  BY <1>2 DEF ColdChange
<1>3. CASE gen'[s][n] # gen[s][n]
  <2>1. PICK i \in Ids :
            /\ OpenRow(i, s) /\ ops[i].row[s].gen = n
            /\ gen'[s][n] = cold_gen(ops[i].row[s].phase, gen[s][n])
    BY <1>3, ColdGen DEF latest
  <2>2. OfRow(i, s, ops[i].row[s], gen[s][n], disk[s][n])
    BY <2>1, OpenRowFacts
  <2>3. gen[s][n].role = "candidate"
    BY <2>1, <2>2 DEF OfRow, OpenRow
  <2>4. CASE ops[i].row[s].phase \in Early
    BY <1>1, <2>1, <2>2, <2>3, <2>4, ColdGenDef DEF OfRow, ColdChange
  <2>5. CASE ops[i].row[s].phase = "install_invoked"
    <3>1. "install_invoked" \notin Early
      BY DEF Early
    <3>2. /\ gen'[s][n].role = gen[s][n].role
          /\ gen'[s][n].state = "unknown"
      BY <1>1, <2>1, <2>5, <3>1, ColdGenDef
    <3> QED
      BY <2>3, <3>2 DEF ColdChange
  <2>6. CASE ops[i].row[s].phase \notin Early \cup {"install_invoked"}
    BY <1>1, <1>3, <2>1, <2>6, ColdGenDef
  <2> QED
    BY <2>4, <2>5, <2>6
<1> QED
  BY <1>2, <1>3

\* A generation that is still in preparation afterwards, or still current, is
\* one the cold start has not touched.
LEMMA ColdUntouched ==
    ASSUME NEW s, NEW n, ColdChange(s, n)
    PROVE  /\ gen'[s][n] = gen[s][n] \/ gen'[s][n].role # "current"
           /\ gen'[s][n] = gen[s][n] \/ gen'[s][n].state # "preparing"
<1>1. /\ [state |-> "absent", role |-> "retired"].state # "preparing"
      /\ [state |-> "absent", role |-> "retired"].role # "current"
  OBVIOUS
<1> QED
  BY <1>1 DEF ColdChange

\* The cold start leaves every row with a generation it is right about.
LEMMA ColdRows ==
    ASSUME Inv, ColdStart, NEW i \in Ids, NEW s \in Services
    PROVE  RowAt(i, s)'
<1> DEFINE r == ops[i].row[s]
           n == r.gen
<1>1. /\ d.pc = "dead" /\ UNCHANGED <<stack, active, disk>>
  BY DEF ColdStart
<1>2. /\ ops'[i].revision = ops[i].revision
      /\ ops'[i].outcome = IF ops[i].outcome = "null"
                           THEN "failure" ELSE ops[i].outcome
      /\ ops'[i].row[s] = IF OpenRow(i, s) THEN ColdRow(r) ELSE r
  BY ColdOps
<1>3. ops'[i].row[s].gen = n
  BY <1>2 DEF ColdRow
<1> SUFFICES ASSUME n # 0
             PROVE  OfRow(i, s, ops[i].row[s], gen[s][n], disk[s][n])'
  BY <1>3 DEF RowAt
<1>4. n \in 1..latest(s)
  BY RowRange DEF Inv
<1>5. OfRow(i, s, r, gen[s][n], disk[s][n])
  BY DEF Inv, RowInv, RowAt
<1>6. ColdChange(s, n)
  BY <1>4, ColdChanges
<1>7. /\ ops'[i].outcome # "null"
      /\ disk[s][n] = "partial" =>
            /\ ops'[i].revision = stack.revision + 1
            /\ ops'[i].outcome = "failure"
      /\ ops'[i].revision = stack.revision + 1 => gen'[s][n].role # "current"
  <2>1. ops[i].revision = stack.revision + 1 => gen'[s][n].role # "current"
    <3>1. ops[i].revision = stack.revision + 1 => gen[s][n].role # "current"
      BY <1>5 DEF OfRow
    <3>2. gen'[s][n] = gen[s][n] \/ gen'[s][n].role # "current"
      BY <1>6, ColdUntouched
    <3> HIDE DEF n
    <3> QED
      BY <3>1, <3>2
  <2>2. disk[s][n] = "partial" =>
            /\ ops[i].revision = stack.revision + 1
            /\ ops[i].outcome \in {"null", "failure"}
    BY <1>5 DEF OfRow
  <2> QED
    BY <1>2, <2>1, <2>2
<1>8. CASE OpenRow(i, s)
  <2>1. /\ ops'[i].row[s].outcome = "failure"
        /\ ops'[i].row[s].phase \in {"failed", "unknown"}
    BY <1>2, <1>8 DEF ColdRow
  <2>2. ~(gen'[s][n].state = "preparing" /\ disk[s][n] = "none")
    <3>1. r.phase # "failed_pre_effect"
      BY <1>5, <1>8 DEF OfRow, OpenRow
    <3>2. gen'[s][n] = cold_gen(r.phase, gen[s][n])
      <4>1. PICK j \in Ids :
                /\ OpenRow(j, s) /\ ops[j].row[s].gen = n
                /\ gen'[s][n] = cold_gen(ops[j].row[s].phase, gen[s][n])
        BY <1>4, <1>8, ColdGen DEF latest
      <4>2. j = i
        BY <1>8, <4>1, OpenRowFacts
      <4> QED
        BY <4>1, <4>2
    <3>3. gen[s][n] \in Generation
      BY <1>4, ElementOfSeq DEF Inv, TypeOK, latest
    <3> HIDE DEF r, n
    <3>4. CASE r.phase \in Early
      BY <3>2, <3>3, <3>4, ColdGenDef
    <3>5. CASE r.phase = "install_invoked"
      BY <3>2, <3>3, <3>5, ColdGenDef
    <3>6. CASE r.phase \notin Early \cup {"install_invoked"}
      <4>1. gen'[s][n] = gen[s][n]
        BY <3>2, <3>3, <3>6, ColdGenDef
      <4> QED
        BY <1>1, <1>5, <3>1, <3>6, <4>1 DEF OfRow
    <3> QED
      BY <3>4, <3>5, <3>6
  <2> QED
    BY <1>1, <1>3, <1>7, <2>1, <2>2 DEF OfRow, Early
<1>9. CASE ~OpenRow(i, s)
  <2>1. ops'[i].row[s] = r
    BY <1>2, <1>9
  <2>2. r.phase \notin Early
    BY <1>5, <1>9 DEF OfRow, OpenRow
  <2>3. gen'[s][n].state = "preparing" => gen'[s][n] = gen[s][n]
    BY <1>6, ColdUntouched
  <2>4. gen'[s][n].state = "preparing" /\ disk[s][n] = "none"
        => r.phase \in Early \cup {"failed_pre_effect"}
    <3>1. gen[s][n].state = "preparing" /\ disk[s][n] = "none"
          => r.phase \in Early \cup {"failed_pre_effect"}
      BY <1>1, <1>5 DEF OfRow
    <3> QED
      BY <2>3, <3>1
  <2>5. /\ r.phase = "failed_pre_effect" =>
              r.outcome = "failure" /\ disk[s][n] = "none"
        /\ r.phase \in {"installed", "start_invoked", "running"} =>
              disk[s][n] = "complete"
        /\ r.outcome = "success" => r.phase = "running"
    BY <1>5 DEF OfRow
  <2> QED
    BY <1>1, <1>7, <2>1, <2>2, <2>4, <2>5 DEF OfRow
<1> QED
  BY <1>8, <1>9

\* reconcile_cold_start.
LEMMA ColdStartInv ==
    ASSUME Inv, ColdStart
    PROVE  Inv'
<1>1. /\ d.pc = "dead" /\ UNCHANGED <<stack, active, disk>>
      /\ d' = [d EXCEPT !.pc = "idle"]
      /\ cand' = IF unfinished
                 THEN CHOOSE i \in Ids : ops[i].outcome = "null" ELSE cand
  BY DEF ColdStart
<1>2. /\ gen' \in [Services -> Seq(Generation)]
      /\ \A s \in Services : Len(gen'[s]) = Len(gen[s])
  BY ColdGen
<1>3. /\ ops' \in [Ids -> Operation]
      /\ \A i \in Ids :
            /\ ops'[i].def = ops[i].def
            /\ ops'[i].revision = ops[i].revision
            /\ ops'[i].outcome = IF ops[i].outcome = "null"
                                 THEN "failure" ELSE ops[i].outcome
            /\ \A s \in Services :
                  ops'[i].row[s] = IF OpenRow(i, s)
                                   THEN ColdRow(ops[i].row[s])
                                   ELSE ops[i].row[s]
  BY ColdOps
<1>4. d' \in Daemon /\ d'.pc = "idle"
  BY <1>1, GotoDef DEF Inv, TypeOK, goto
<1>5. /\ unfinished => /\ cand' \in Ids /\ ops[cand'].outcome = "null"
      /\ ~unfinished => cand' = cand
  BY <1>1 DEF unfinished
<1>6. svc' \in [Services -> {"quiet", "busy", "backoff", "unknown"}]
  <2> DEFINE new(s) ==
               IF \E i \in Ids : OpenRow(i, s)
               THEN LET i == CHOOSE i \in Ids : OpenRow(i, s)
                    IN  IF SafePhase(ops[i].row[s].phase) THEN "quiet"
                        ELSE "unknown"
               ELSE IF s \in active /\ svc[s] = "busy" THEN "unknown"
               ELSE svc[s]
  <2>1. svc' = [s \in Services |-> new(s)]
    BY DEF ColdStart, OpenRow, SafePhase
  <2>2. \A s \in Services :
            new(s) \in {"quiet", "busy", "backoff", "unknown"}
    BY DEF Inv, TypeOK
  <2> HIDE DEF new
  <2> QED
    BY <2>1, <2>2
<1>7. TypeOK'
  BY <1>1, <1>2, <1>3, <1>4, <1>5, <1>6 DEF Inv, TypeOK
<1>8. Kept
  <2>1. ASSUME NEW i \in Ids, NEW s \in Services
        PROVE  /\ ops'[i].row[s].gen = ops[i].row[s].gen
               /\ ops[i].row[s].gen = 0 => ops'[i].row[s] = ops[i].row[s]
    <3>1. OpenRow(i, s) => ops[i].row[s].gen # 0
      BY DEF OpenRow, Inv, Shape, NoRow
    <3>2. ColdRow(ops[i].row[s]).gen = ops[i].row[s].gen
      BY DEF ColdRow
    <3>3. ops'[i].row[s] = IF OpenRow(i, s) THEN ColdRow(ops[i].row[s])
                           ELSE ops[i].row[s]
      BY <1>3
    <3> QED
      BY <3>1, <3>2, <3>3
  <2>2. stack' \in Stack /\ stack'.revision >= stack.revision
    BY <1>1 DEF Inv, TypeOK, Stack
  <2> QED
    BY <1>1, <1>2, <1>3, <2>1, <2>2 DEF Kept
<1>9. Shape' /\ Sharing'
  BY <1>8, KeptInv
<1>10. \A s \in Services :
          /\ latest(s)' = latest(s) /\ latest(s) = Len(gen[s])
          /\ Len(gen[s]) \in Nat
  BY <1>2, LenProperties DEF latest, Inv, TypeOK
<1>11. Trees'
  <2> SUFFICES ASSUME NEW s \in Services, NEW g \in 1..latest(s)
               PROVE  /\ disk[s][g] # "twice"
                      /\ gen'[s][g].state = "installed"
                         => disk[s][g] = "complete"
                      /\ gen'[s][g].state = "absent" => disk[s][g] = "none"
    BY <1>1, <1>10 DEF Trees
  <2>1. ColdChange(s, g)
    BY ColdChanges
  <2> QED
    BY <2>1 DEF ColdChange, Inv, Trees
<1>12. RowInv'
  BY ColdRows DEF RowInv
<1>13. NewestInv'
  <2>1. \A i \in Ids : ops'[i].outcome # "null"
    BY <1>3
  <2>2. CASE unfinished
    <3>1. PICK i \in Ids : i = cand' /\ ops[i].outcome = "null"
      BY <1>5, <2>2
    <3>2. Newest(i) /\ ops[i].revision = stack.revision + 1
      BY <3>1 DEF Inv, NewestInv
    <3>3. Newest(i)'
      BY <1>1, <1>8, <3>2, KeptNewest
    <3>4. Newest(cand)'
      BY <3>1, <3>3 DEF Newest, names
    <3>5. cand' # 0
      BY <3>1, IdsAssumption
    <3>6. /\ ops'[cand'].outcome = "failure"
          /\ ops'[cand'].revision = stack'.revision + 1
      BY <1>1, <1>3, <3>1, <3>2
    <3> QED
      BY <2>1, <3>4, <3>5, <3>6 DEF NewestInv
  <2>3. CASE ~unfinished
    <3>1. cand' = cand /\ \A i \in Ids : ops'[i].outcome = ops[i].outcome
      BY <1>3, <1>5, <2>3 DEF unfinished
    <3>2. failed_candidates' = failed_candidates
      BY <1>1, <1>3, <3>1 DEF failed_candidates
    <3>3. cand # 0 => Newest(cand)'
      <4> SUFFICES ASSUME cand # 0
                   PROVE  Newest(cand)'
        OBVIOUS
      <4>1. PICK i \in Ids : i = cand
        BY DEF Inv, TypeOK
      <4>2. Newest(i)
        BY <2>3, <4>1 DEF Inv, NewestInv
      <4>3. Newest(i)'
        BY <1>1, <1>8, <4>2, KeptNewest
      <4> QED
        BY <3>1, <4>1, <4>3 DEF Newest, names
    <3>4. cand # 0 => /\ ops'[cand].outcome = "failure"
                      /\ ops'[cand].revision = stack'.revision + 1
      BY <1>1, <1>3, <3>1 DEF Inv, TypeOK, NewestInv
    <3> QED
      BY <1>1, <2>1, <2>3, <3>1, <3>2, <3>3, <3>4
         DEF NewestInv, Inv
  <2> QED
    BY <2>2, <2>3
<1>14. ActiveInv'
  <2>1. active' = active /\ active \subseteq Services /\ ActiveInv
    BY <1>1 DEF Inv, TypeOK
  <2>2. ASSUME NEW s \in active
        PROVE  /\ latest(s)' > 0
               /\ gen'[s][latest(s)'].role = "retired"
                  => gen'[s][latest(s)'].state = "absent"
    <3>1. s \in Services /\ latest(s)' = latest(s) /\ latest(s) > 0
      BY <1>10, <2>1 DEF ActiveInv
    <3>2. latest(s) \in 1..latest(s)
      BY <1>10, <3>1
    <3>3. ColdChange(s, latest(s))
      BY <3>1, <3>2, ColdChanges
    <3> QED
      BY <2>1, <3>1, <3>3 DEF ColdChange, ActiveInv
  <2>3. Partial'
    BY <1>1, <1>8, <1>10, <2>1 DEF Partial, ActiveInv, Kept
  <2>4. CommittedSurvives'
    <3>1. ASSUME NEW s \in Services, NEW h \in 1..latest(s)
          PROVE  gen'[s][h].role = "current" <=> gen[s][h].role = "current"
      <4>1. ColdChange(s, h)
        BY ColdChanges
      <4> QED
        BY <4>1 DEF ColdChange
    <3>2. CommittedSurvives
      BY <2>1 DEF ActiveInv
    <3> QED
      BY <1>1, <1>10, <2>1, <3>1, <3>2 DEF CommittedSurvives
  <2> QED
    BY <1>1, <2>1, <2>2, <2>3, <2>4 DEF ActiveInv
<1>15. Position'
  BY <1>4, IdlePosition
<1> QED
  BY <1>7, <1>9, <1>11, <1>12, <1>13, <1>14, <1>15 DEF Inv

-----------------------------------------------------------------------------
(* begin_up and begin_candidate_recovery *)

\* What a new operation makes of the generations before it: a candidate is
\* retired, and one that was never installed is called absent.
GoodGens(gens) ==
    \A s \in Services :
        /\ gens[s] \in Seq(Generation)
        /\ Len(gens[s]) = latest(s)
        /\ \A n \in 1..latest(s) :
              \/ gens[s][n] = gen[s][n]
              \/ /\ gen[s][n].role = "candidate"
                 /\ gens[s][n].role = "retired"
                 /\ gens[s][n].state = gen[s][n].state
              \/ /\ disk[s][n] = "none" /\ gen[s][n].role # "current"
                 /\ gens[s][n] = [state |-> "absent", role |-> "retired"]

Fresh == [state |-> "preparing", role |-> "candidate"]
NewRow(id, def, reused, s) ==
    IF s \in ServicesOf[def] \ reused
    THEN [gen |-> latest(s) + 1, phase |-> "intent", outcome |-> "null"]
    ELSE IF s \in reused
    THEN [gen |-> latest(s), phase |-> "installed", outcome |-> "null"]
    ELSE NoRow

\* The tables afterwards, for one service and for all.
BegunAt(def, reused, gens, s) ==
    /\ latest(s)' = IF s \in ServicesOf[def] \ reused
                    THEN latest(s) + 1 ELSE latest(s)
    /\ Len(disk'[s]) = latest(s)'
    /\ s \in ServicesOf[def] \ reused =>
          /\ gen'[s][latest(s) + 1] = Fresh
          /\ disk'[s][latest(s) + 1] = "none"
    /\ \A n \in 1..latest(s) :
          /\ gen'[s][n] = gens[s][n]
          /\ disk'[s][n] = disk[s][n]

\* What a new operation writes to the generations.
LEMMA BeginTables ==
    ASSUME Inv, NEW id \in Ids, NEW def \in Defs,
           NEW reused \in SUBSET ServicesOf[def],
           NEW gens, GoodGens(gens), begin(id, def, reused, gens)
    PROVE  /\ gen' \in [Services -> Seq(Generation)]
           /\ disk' \in [Services -> Seq(Disk)]
           /\ \A s \in Services : BegunAt(def, reused, gens, s)
<1>1. /\ gen' = [s \in Services |->
                   IF s \in ServicesOf[def] \ reused
                   THEN Append(gens[s], Fresh) ELSE gens[s]]
      /\ disk' = [s \in Services |->
                    IF s \in ServicesOf[def] \ reused
                    THEN Append(disk[s], "none") ELSE disk[s]]
  BY DEF begin, Fresh
<1>2. Fresh \in Generation /\ "none" \in Disk
  BY DEF Fresh, Generation, Disk
<1>3. ASSUME NEW s \in Services
      PROVE  /\ gen'[s] \in Seq(Generation)
             /\ disk'[s] \in Seq(Disk)
             /\ BegunAt(def, reused, gens, s)
  <2>1. /\ gens[s] \in Seq(Generation) /\ Len(gens[s]) = latest(s)
        /\ disk[s] \in Seq(Disk) /\ Len(disk[s]) = latest(s)
    BY DEF GoodGens, Inv, TypeOK, latest
  <2>2. CASE s \in ServicesOf[def] \ reused
    <3>1. gen'[s] = Append(gens[s], Fresh) /\ disk'[s] = Append(disk[s], "none")
      BY <1>1, <2>2
    <3>2. /\ Append(gens[s], Fresh) \in Seq(Generation)
          /\ Len(Append(gens[s], Fresh)) = latest(s) + 1
          /\ \A n \in 1..latest(s) : Append(gens[s], Fresh)[n] = gens[s][n]
          /\ Append(gens[s], Fresh)[latest(s) + 1] = Fresh
      BY <1>2, <2>1, AppendProperties
    <3>3. /\ Append(disk[s], "none") \in Seq(Disk)
          /\ Len(Append(disk[s], "none")) = latest(s) + 1
          /\ \A n \in 1..latest(s) : Append(disk[s], "none")[n] = disk[s][n]
          /\ Append(disk[s], "none")[latest(s) + 1] = "none"
      BY <1>2, <2>1, AppendProperties
    <3>4. latest(s)' = Len(gen'[s])
      BY DEF latest
    <3> QED
      BY <2>2, <3>1, <3>2, <3>3, <3>4 DEF BegunAt
  <2>3. CASE s \notin ServicesOf[def] \ reused
    <3>1. gen'[s] = gens[s] /\ disk'[s] = disk[s]
      BY <1>1, <2>3
    <3>2. latest(s)' = Len(gen'[s])
      BY DEF latest
    <3> QED
      BY <2>1, <2>3, <3>1, <3>2 DEF BegunAt
  <2> QED
    BY <2>2, <2>3
<1>4. /\ gen' \in [Services -> Seq(Generation)]
      /\ disk' \in [Services -> Seq(Disk)]
  BY <1>1, <1>3
<1> QED
  BY <1>3, <1>4

\* What a new operation writes to the journal.
LEMMA BeginOps ==
    ASSUME Inv, NEW id \in Ids, NEW def \in Defs,
           NEW reused \in SUBSET ServicesOf[def],
           NEW gens, begin(id, def, reused, gens)
    PROVE  /\ ops' \in [Ids -> Operation]
           /\ ops'[id].def = def
           /\ ops'[id].revision = stack.revision + 1
           /\ ops'[id].outcome = "null"
           /\ \A s \in Services : ops'[id].row[s] = NewRow(id, def, reused, s)
           /\ \A i \in Ids : i # id => ops'[i] = ops[i]
<1> DEFINE z == [s \in Services |-> NewRow(id, def, reused, s)]
           o == [def |-> def, revision |-> stack.revision + 1,
                 outcome |-> "null", row |-> z]
<1>1. ops' = [ops EXCEPT ![id] = o]
  BY DEF begin, NewRow
<1>2. ASSUME NEW s \in Services
      PROVE  NewRow(id, def, reused, s) \in Row
  <2>1. latest(s) \in Nat
    BY LenProperties DEF Inv, TypeOK, latest
  <2> QED
    BY <2>1 DEF NewRow, Row, NoRow
<1>3. z \in [Services -> Row]
  BY <1>2
<1>4. stack.revision + 1 \in Nat
  BY DEF Inv, TypeOK, Stack
<1>5. o \in Operation
  BY <1>3, <1>4 DEF Operation
<1>6. ops \in [Ids -> Operation]
  BY DEF Inv, TypeOK
<1> QED
  BY <1>1, <1>5, <1>6

\* What a new operation writes to the stack, and the daemon's position.
LEMMA BeginRest ==
    ASSUME Inv, NEW id \in Ids, NEW def \in Defs,
           NEW reused \in SUBSET ServicesOf[def],
           NEW gens, begin(id, def, reused, gens)
    PROVE  /\ stack' \in Stack /\ stack'.revision = stack.revision
           /\ stack'.def = stack.def
           /\ active' = ServicesOf[def] /\ active' \subseteq Services
           /\ svc' \in [Services -> {"quiet", "busy", "backoff", "unknown"}]
           /\ d' \in Daemon /\ d'.pc = "next" /\ d'.id = id
           /\ d'.todo = ServicesOf[def]
           /\ cand' = cand
<1>1. ServicesOf[def] \subseteq Services
  BY DefsAssumption
<1>2. /\ stack' = [stack EXCEPT !.desired = "running"]
      /\ active' = ServicesOf[def] /\ cand' = cand
      /\ svc' = [s \in Services |->
                   IF s \in ServicesOf[def] THEN "busy" ELSE svc[s]]
      /\ d' = [d EXCEPT !.pc = "next", !.id = id, !.todo = ServicesOf[def]]
  BY DEF begin
<1>3. stack \in Stack /\ d \in Daemon
      /\ svc \in [Services -> {"quiet", "busy", "backoff", "unknown"}]
  BY DEF Inv, TypeOK
<1>4. /\ stack' \in Stack /\ stack'.revision = stack.revision
      /\ stack'.def = stack.def
  BY <1>2, <1>3 DEF Stack
<1>5. /\ d' \in Daemon /\ d'.pc = "next" /\ d'.id = id
      /\ d'.todo = ServicesOf[def]
  BY <1>1, <1>2, <1>3 DEF Daemon, WorkPC
<1>6. svc' \in [Services -> {"quiet", "busy", "backoff", "unknown"}]
  BY <1>2, <1>3
<1> QED
  BY <1>1, <1>2, <1>4, <1>5, <1>6

NoPartial ==
    \A s \in Services : \A n \in 1..latest(s) : disk[s][n] # "partial"

\* When both variants may begin: what is reused is the installed candidate of
\* the same definition, and no tree is partial.
BeginOK(id, def, reused, gens) ==
    /\ d.pc = "idle" /\ ~unfinished /\ ops[id] = NoOp
    /\ GoodGens(gens)
    /\ reused \subseteq active /\ reused \subseteq ServicesOf[def]
    /\ \A s \in reused :
          /\ gen[s][latest(s)] = [state |-> "installed", role |-> "candidate"]
          /\ gens[s] = gen[s]
          /\ \A j \in Ids :
                ops[j].row[s].gen = latest(s) => ops[j].def = def
    /\ NoPartial
    /\ stack.revision > 0 => active = ServicesOf[def]

\* The new rows name the newest generation of each service.
LEMMA BeginRows ==
    ASSUME Inv, NEW id \in Ids, NEW def \in Defs,
           NEW reused \in SUBSET ServicesOf[def], NEW gens,
           BeginOK(id, def, reused, gens), begin(id, def, reused, gens),
           NEW s \in Services
    PROVE  /\ latest(s) \in Nat
           /\ ops'[id].row[s].gen # 0 <=> s \in ServicesOf[def]
           /\ ops'[id].row[s].gen = 0 => ops'[id].row[s] = NoRow
           /\ s \in ServicesOf[def] =>
                 /\ ops'[id].row[s].gen = latest(s)'
                 /\ ops'[id].row[s].outcome = "null"
                 /\ latest(s)' \in Nat /\ latest(s)' > 0
           /\ s \in reused =>
                 /\ ops'[id].row[s].phase = "installed"
                 /\ latest(s)' = latest(s) /\ latest(s) \in 1..latest(s)
                 /\ gen'[s][latest(s)'] = [state |-> "installed",
                                           role |-> "candidate"]
                 /\ disk'[s][latest(s)'] = "complete"
           /\ s \in ServicesOf[def] \ reused =>
                 /\ ops'[id].row[s].phase = "intent"
                 /\ latest(s)' = latest(s) + 1
                 /\ gen'[s][latest(s)'] = Fresh
                 /\ disk'[s][latest(s)'] = "none"
<1>1. latest(s) \in Nat
  BY LenProperties DEF Inv, TypeOK, latest
<1>2. GoodGens(gens) /\ reused \subseteq active
  BY DEF BeginOK
<1>3. /\ latest(s)' = IF s \in ServicesOf[def] \ reused
                      THEN latest(s) + 1 ELSE latest(s)
      /\ s \in ServicesOf[def] \ reused =>
            /\ gen'[s][latest(s) + 1] = Fresh
            /\ disk'[s][latest(s) + 1] = "none"
      /\ \A n \in 1..latest(s) :
            /\ gen'[s][n] = gens[s][n]
            /\ disk'[s][n] = disk[s][n]
  <2>1. BegunAt(def, reused, gens, s)
    BY <1>2, BeginTables
  <2> QED
    BY <2>1 DEF BegunAt
<1>4. ops'[id].row[s] = NewRow(id, def, reused, s)
  BY BeginOps
<1>5. CASE s \in ServicesOf[def] \ reused
  <2>1. ops'[id].row[s] = [gen |-> latest(s) + 1, phase |-> "intent",
                           outcome |-> "null"]
    BY <1>4, <1>5 DEF NewRow
  <2>2. latest(s) + 1 \in Nat /\ latest(s) + 1 > 0
    BY <1>1
  <2> QED
    BY <1>1, <1>3, <1>5, <2>1, <2>2
<1>6. CASE s \in reused
  <2>1. ops'[id].row[s] = [gen |-> latest(s), phase |-> "installed",
                           outcome |-> "null"]
    BY <1>4, <1>6 DEF NewRow
  <2>2. latest(s) > 0 /\ latest(s) \in 1..latest(s)
    BY <1>1, <1>2, <1>6 DEF Inv, ActiveInv
  <2>3. /\ gen[s][latest(s)] = [state |-> "installed", role |-> "candidate"]
        /\ gens[s] = gen[s]
    BY <1>6 DEF BeginOK
  <2>4. disk[s][latest(s)] = "complete"
    BY <2>2, <2>3 DEF Inv, Trees
  <2>5. latest(s)' = latest(s)
    BY <1>3, <1>6
  <2>6. /\ gen'[s][latest(s)'] = [state |-> "installed", role |-> "candidate"]
        /\ disk'[s][latest(s)'] = "complete"
    BY <1>3, <2>2, <2>3, <2>4, <2>5
  <2> QED
    BY <1>1, <1>6, <2>1, <2>2, <2>5, <2>6
<1>7. CASE s \notin ServicesOf[def]
  <2>1. ops'[id].row[s] = NoRow
    BY <1>4, <1>7 DEF NewRow
  <2> QED
    BY <1>1, <1>7, <2>1 DEF NoRow
<1> QED
  BY <1>5, <1>6, <1>7

\* A new operation that meets BeginOK keeps Inv.
LEMMA BeginInv ==
    ASSUME Inv, NEW id \in Ids, NEW def \in Defs,
           NEW reused \in SUBSET ServicesOf[def], NEW gens,
           BeginOK(id, def, reused, gens), begin(id, def, reused, gens)
    PROVE  Inv'
<1>1. /\ d.pc = "idle" /\ ~unfinished /\ ops[id] = NoOp /\ GoodGens(gens)
      /\ NoPartial
      /\ stack.revision > 0 => active = ServicesOf[def]
  BY DEF BeginOK
<1>2. /\ gen' \in [Services -> Seq(Generation)]
      /\ disk' \in [Services -> Seq(Disk)]
      /\ \A s \in Services :
            /\ latest(s)' = IF s \in ServicesOf[def] \ reused
                            THEN latest(s) + 1 ELSE latest(s)
            /\ Len(disk'[s]) = latest(s)'
            /\ \A n \in 1..latest(s) :
                  /\ gen'[s][n] = gens[s][n]
                  /\ disk'[s][n] = disk[s][n]
  <2>1. /\ gen' \in [Services -> Seq(Generation)]
        /\ disk' \in [Services -> Seq(Disk)]
        /\ \A s \in Services : BegunAt(def, reused, gens, s)
    BY <1>1, BeginTables
  <2> QED
    BY <2>1 DEF BegunAt
<1>3. /\ ops' \in [Ids -> Operation]
      /\ ops'[id].def = def /\ ops'[id].revision = stack.revision + 1
      /\ ops'[id].outcome = "null"
      /\ \A i \in Ids : i # id => ops'[i] = ops[i]
  BY BeginOps
<1>4. /\ stack' \in Stack /\ stack'.revision = stack.revision
      /\ stack'.def = stack.def
      /\ active' = ServicesOf[def] /\ active' \subseteq Services
      /\ svc' \in [Services -> {"quiet", "busy", "backoff", "unknown"}]
      /\ d' \in Daemon /\ d'.pc = "next" /\ d'.id = id
      /\ d'.todo = ServicesOf[def]
      /\ cand' = cand
  BY BeginRest
<1>5. TypeOK'
  BY <1>2, <1>3, <1>4 DEF Inv, TypeOK, latest
<1>6. \A s \in Services :
          /\ latest(s) \in Nat /\ latest(s)' \in Nat
          /\ latest(s) <= latest(s)'
          /\ latest(s)' <= latest(s) + 1
          /\ latest(s)' = latest(s) + 1 => s \in ServicesOf[def] \ reused
  <2>1. \A s \in Services : latest(s) \in Nat
    BY LenProperties DEF Inv, TypeOK, latest
  <2> QED
    BY <1>2, <2>1
<1>7. \A i \in Ids, s \in Services : ops[i].row[s].gen \in 0..latest(s)
  BY RowRange DEF Inv
<1>8. \A i \in Ids : ops[i].outcome # "null"
  BY <1>1 DEF unfinished
<1>9. names(id)' = ServicesOf[def]
  <2>1. ServicesOf[def] \subseteq Services
    BY <1>4
  <2>2. \A s \in Services : ops'[id].row[s].gen # 0 <=> s \in ServicesOf[def]
    BY BeginRows
  <2> QED
    BY <2>1, <2>2 DEF names
<1>10. \A i \in Ids : i # id => names(i)' = names(i)
  BY <1>3 DEF names
<1>11. Shape'
  <2> SUFFICES ASSUME NEW i \in Ids
               PROVE  /\ ops'[i].outcome = "none" =>
                            \A s \in Services : ops'[i].row[s] = NoRow
                      /\ ops'[i].outcome # "none" =>
                            /\ ops'[i].def \in Defs
                            /\ names(i)' = ServicesOf[ops'[i].def]
                      /\ ops'[i].revision <= stack'.revision + 1
                      /\ \A s \in Services :
                            /\ ops'[i].row[s].gen <= latest(s)'
                            /\ ops'[i].row[s].gen = 0
                               => ops'[i].row[s] = NoRow
    BY DEF Shape
  <2>1. CASE i = id
    <3>1. ASSUME NEW s \in Services
          PROVE  /\ ops'[id].row[s].gen <= latest(s)'
                 /\ ops'[id].row[s].gen = 0 => ops'[id].row[s] = NoRow
      BY <1>6, BeginRows
    <3>2. stack.revision \in Nat
      BY DEF Inv, TypeOK, Stack
    <3> QED
      BY <1>3, <1>4, <1>9, <2>1, <3>1, <3>2
  <2>2. CASE i # id
    <3>1. ops'[i] = ops[i] /\ names(i)' = names(i)
      BY <1>3, <1>10, <2>2
    <3>2. ASSUME NEW s \in Services
          PROVE  /\ ops[i].row[s].gen <= latest(s)'
                 /\ ops[i].row[s].gen = 0 => ops[i].row[s] = NoRow
      BY <1>6, <1>7 DEF Inv, Shape
    <3> QED
      BY <1>4, <3>1, <3>2 DEF Inv, Shape
  <2> QED
    BY <2>1, <2>2
<1>12. Trees'
  <2> SUFFICES ASSUME NEW s \in Services, NEW n \in 1..latest(s)'
               PROVE  /\ disk'[s][n] # "twice"
                      /\ gen'[s][n].state = "installed"
                         => disk'[s][n] = "complete"
                      /\ gen'[s][n].state = "absent" => disk'[s][n] = "none"
    BY DEF Trees
  <2>1. CASE n \in 1..latest(s)
    <3>1. gen'[s][n] = gens[s][n] /\ disk'[s][n] = disk[s][n]
      BY <1>2, <2>1
    <3>2. \/ gens[s][n].state = gen[s][n].state
          \/ gens[s][n].state = "absent" /\ disk[s][n] = "none"
      BY <1>1, <2>1 DEF GoodGens
    <3> QED
      BY <2>1, <3>1, <3>2 DEF Inv, Trees
  <2>2. CASE n \notin 1..latest(s)
    <3>1. n = latest(s)' /\ s \in ServicesOf[def] \ reused
      BY <1>6, <2>2
    <3>2. gen'[s][n] = Fresh /\ disk'[s][n] = "none"
      BY <3>1, BeginRows
    <3> QED
      BY <3>2 DEF Fresh
  <2> QED
    BY <2>1, <2>2
<1>13. RowInv'
  <2> SUFFICES ASSUME NEW i \in Ids, NEW s \in Services
               PROVE  RowAt(i, s)'
    BY DEF RowInv
  <2>1. CASE i = id
    <3>1. CASE s \in reused
      <4>1. s \in ServicesOf[def]
        BY <3>1
      <4>2. /\ ops'[id].row[s].gen = latest(s)'
            /\ ops'[id].row[s].outcome = "null"
            /\ ops'[id].row[s].phase = "installed"
            /\ gen'[s][latest(s)'] = [state |-> "installed",
                                      role |-> "candidate"]
            /\ disk'[s][latest(s)'] = "complete"
        BY <3>1, <4>1, BeginRows
      <4> QED
        BY <1>3, <1>4, <2>1, <4>2 DEF RowAt, OfRow, Early
    <3>2. CASE s \in ServicesOf[def] \ reused
      <4>1. /\ ops'[id].row[s].gen = latest(s)'
            /\ ops'[id].row[s].outcome = "null"
            /\ ops'[id].row[s].phase = "intent"
            /\ gen'[s][latest(s)'] = Fresh
            /\ disk'[s][latest(s)'] = "none"
        BY <3>2, BeginRows
      <4> QED
        BY <1>3, <1>4, <2>1, <4>1 DEF RowAt, OfRow, Early, Fresh
    <3>3. CASE s \notin ServicesOf[def]
      <4>1. ops'[id].row[s].gen = 0
        BY <3>3, BeginRows
      <4> QED
        BY <2>1, <4>1 DEF RowAt
    <3> QED
      BY <3>1, <3>2, <3>3
  <2>2. CASE i # id
    <3> DEFINE r == ops[i].row[s]
               n == r.gen
    <3>1. ops'[i] = ops[i]
      BY <1>3, <2>2
    <3>2. CASE n = 0
      BY <3>1, <3>2 DEF RowAt
    <3>3. CASE n # 0
      <4>1. n \in 1..latest(s)
        BY <1>6, <1>7, <3>3
      <4>2. gen'[s][n] = gens[s][n] /\ disk'[s][n] = disk[s][n]
        BY <1>2, <4>1
      <4>3. OfRow(i, s, r, gen[s][n], disk[s][n])
        BY <3>3 DEF Inv, RowInv, RowAt
      <4>4. ops[i].outcome # "null" /\ disk[s][n] # "partial"
        BY <1>1, <1>8, <4>1 DEF NoPartial
      <4>5. \/ gens[s][n] = gen[s][n]
            \/ /\ gens[s][n].role = "retired"
               /\ gens[s][n].state = gen[s][n].state
            \/ gens[s][n] = [state |-> "absent", role |-> "retired"]
        BY <1>1, <4>1 DEF GoodGens
      <4>6. r.phase \notin Early
        BY <4>3, <4>4 DEF OfRow
      <4>7. /\ gens[s][n].role = "current" => gen[s][n].role = "current"
            /\ gens[s][n].state = "preparing" => gen[s][n].state = "preparing"
        <5>1. /\ [state |-> "absent", role |-> "retired"].state = "absent"
              /\ [state |-> "absent", role |-> "retired"].role = "retired"
          OBVIOUS
        <5> HIDE DEF n
        <5> QED
          BY <4>5, <5>1
      <4> HIDE DEF r
      <4>8. OfRow(i, s, r, gens[s][n], disk[s][n])
        BY <1>1, <4>3, <4>4, <4>6, <4>7 DEF OfRow
      <4> QED
        BY <1>1, <1>4, <3>1, <4>2, <4>4, <4>8 DEF RowAt, OfRow, r
    <3> QED
      BY <3>2, <3>3
  <2> QED
    BY <2>1, <2>2
<1>14. Sharing'
  <2> SUFFICES ASSUME NEW i \in Ids, NEW j \in Ids, NEW s \in Services,
                      i # j, ops'[i].row[s].gen # 0,
                      ops'[i].row[s].gen = ops'[j].row[s].gen
               PROVE  /\ disk'[s][ops'[i].row[s].gen] = "complete"
                      /\ ops'[i].def = ops'[j].def
    BY DEF Sharing
  <2>1. ASSUME NEW k \in Ids, k # id, ops'[k].row[s].gen # 0,
               ops'[id].row[s].gen = ops'[k].row[s].gen
        PROVE  /\ disk'[s][ops'[k].row[s].gen] = "complete"
               /\ ops'[k].def = def
    <3>1. ops'[k] = ops[k] /\ ops[k].row[s].gen \in 1..latest(s)
      BY <1>3, <1>6, <1>7, <2>1
    <3>2. s \in ServicesOf[def]
      BY <2>1, BeginRows
    <3>3. ops'[id].row[s].gen = latest(s)'
      BY <3>2, BeginRows
    <3>4. latest(s)' <= latest(s)
      BY <2>1, <3>1, <3>3
    <3>5. s \in reused
      BY <1>2, <1>6, <3>2, <3>4
    <3>6. disk'[s][latest(s)'] = "complete" /\ latest(s)' = latest(s)
      BY <3>5, BeginRows
    <3>7. ops[k].def = def
      BY <2>1, <3>1, <3>3, <3>5, <3>6 DEF BeginOK
    <3> QED
      BY <2>1, <3>1, <3>3, <3>6, <3>7
  <2>2. CASE i = id
    BY <1>3, <2>1, <2>2
  <2>3. CASE j = id
    BY <1>3, <2>1, <2>3
  <2>4. CASE i # id /\ j # id
    <3>1. ops'[i] = ops[i] /\ ops'[j] = ops[j]
      BY <1>3, <2>4
    <3>2. ops[i].row[s].gen \in 1..latest(s)
      BY <1>6, <1>7, <3>1
    <3>3. /\ disk[s][ops[i].row[s].gen] = "complete"
          /\ ops[i].def = ops[j].def
      BY <3>1 DEF Inv, Sharing
    <3> QED
      BY <1>2, <3>1, <3>2, <3>3
  <2> QED
    BY <2>2, <2>3, <2>4
<1>15. NewestInv'
  <2>1. \A i \in Ids : ops'[i].outcome = "null" <=> i = id
    BY <1>3, <1>8
  <2>2. Newest(id)'
    <3>1. ASSUME NEW s \in ServicesOf[def]
          PROVE  ops'[id].row[s].gen = latest(s)'
      <4>1. s \in Services
        BY DefsAssumption
      <4> QED
        BY <4>1, BeginRows
    <3> QED
      BY <1>4, <1>9, <3>1 DEF Newest
  <2>3. unfinished'
    BY <2>1 DEF unfinished
  <2>4. \A i \in Ids : ops[i].outcome = "failure" => ops'[i] = ops[i]
    BY <1>1, <1>3 DEF NoOp
  <2>5. cand # 0 => /\ ops'[cand].outcome = "failure"
                    /\ ops'[cand].revision = stack'.revision + 1
    BY <1>4, <2>4 DEF Inv, TypeOK, NewestInv
  <2>6. cand = 0 => failed_candidates' = {}
    <3> SUFFICES ASSUME cand = 0
                 PROVE  failed_candidates' = {}
      OBVIOUS
    <3>1. failed_candidates = {}
      BY DEF Inv, NewestInv
    <3> QED
      BY <1>3, <1>4, <3>1 DEF failed_candidates
  <2> QED
    BY <1>3, <1>4, <2>1, <2>2, <2>3, <2>5, <2>6 DEF NewestInv
<1>16. ActiveInv'
  <2>1. ASSUME NEW s \in active'
        PROVE  /\ latest(s)' > 0
               /\ gen'[s][latest(s)'].role = "candidate"
    <3>1. s \in Services /\ s \in ServicesOf[def]
      BY <1>4
    <3>2. latest(s)' > 0
      BY <3>1, BeginRows
    <3>3. s \in reused => gen'[s][latest(s)'].role = "candidate"
      BY <3>1, BeginRows
    <3>4. s \notin reused => gen'[s][latest(s)'].role = "candidate"
      BY <3>1, BeginRows DEF Fresh
    <3> QED
      BY <3>2, <3>3, <3>4
  <2>2. NoPartial'
    <3> SUFFICES ASSUME NEW s \in Services, NEW n \in 1..latest(s)'
                 PROVE  disk'[s][n] # "partial"
      BY DEF NoPartial
    <3>1. CASE n \in 1..latest(s)
      BY <1>1, <1>2, <3>1 DEF NoPartial
    <3>2. CASE n \notin 1..latest(s)
      <4>1. n = latest(s)' /\ s \in ServicesOf[def] \ reused
        BY <1>6, <3>2
      <4>2. disk'[s][n] = "none"
        BY <4>1, BeginRows
      <4> QED
        BY <4>2
    <3> QED
      BY <3>1, <3>2
  <2>3. Partial'
    BY <2>2 DEF Partial, NoPartial
  <2>4. CommittedSurvives'
    <3> SUFFICES ASSUME stack.revision > 0, NEW s \in active'
                 PROVE  \E g \in 1..latest(s)' :
                           /\ gen'[s][g].role = "current"
                           /\ disk'[s][g] = "complete"
                           /\ \A h \in 1..latest(s)' :
                                 gen'[s][h].role = "current" => h = g
      BY <1>1, <1>4 DEF CommittedSurvives, Inv, ActiveInv
    <3>1. s \in Services /\ s \in active
      BY <1>1, <1>4
    <3>2. PICK g \in 1..latest(s) :
              /\ gen[s][g].role = "current"
              /\ disk[s][g] = "complete"
              /\ \A h \in 1..latest(s) : gen[s][h].role = "current" => h = g
      BY <3>1 DEF Inv, ActiveInv, CommittedSurvives
    <3>3. ASSUME NEW h \in 1..latest(s)
          PROVE  gen'[s][h].role = "current" <=> gen[s][h].role = "current"
      <4>1. gen'[s][h] = gens[s][h]
        BY <1>2, <3>1
      <4>2. \/ gens[s][h] = gen[s][h]
            \/ gen[s][h].role = "candidate" /\ gens[s][h].role = "retired"
            \/ /\ gen[s][h].role # "current"
               /\ gens[s][h] = [state |-> "absent", role |-> "retired"]
        BY <1>1, <3>1 DEF GoodGens
      <4> QED
        BY <4>1, <4>2
    <3>4. ASSUME NEW h \in 1..latest(s)', gen'[s][h].role = "current"
          PROVE  h \in 1..latest(s)
      <4>1. gen'[s][latest(s)'].role = "candidate"
        BY <2>1
      <4>2. h # latest(s)' \/ latest(s)' = latest(s)
        BY <3>4, <4>1
      <4> QED
        BY <1>6, <3>1, <4>2
    <3>5. g \in 1..latest(s)'
      BY <1>6, <3>1
    <3>6. disk'[s][g] = "complete"
      BY <1>2, <3>1, <3>2
    <3> QED
      BY <3>2, <3>3, <3>4, <3>5, <3>6
  <2>5. stack'.revision > 0 => stack'.def \in Defs
    BY <1>4 DEF Inv, ActiveInv
  <2> QED
    BY <2>1, <2>3, <2>4, <2>5 DEF ActiveInv
<1>17. Position'
  <2>1. AtHand'
    BY <1>4 DEF AtHand, SubjectPC
  <2>2. ASSUME NEW s \in ServicesOf[def]
        PROVE  ops'[id].row[s].phase \in {"intent", "installed"}
    <3>1. s \in Services
      BY DefsAssumption
    <3>2. CASE s \in reused
      BY <3>1, <3>2, BeginRows
    <3>3. CASE s \notin reused
      BY <3>1, <3>3, BeginRows
    <3> QED
      BY <3>2, <3>3
  <2>3. names(d.id)' = ServicesOf[def]
    BY <1>4, <1>9 DEF names
  <2>4. /\ d'.id \in Ids /\ ops'[d'.id].outcome = "null"
        /\ d'.todo = ServicesOf[def]
    BY <1>3, <1>4
  <2>5. \A s \in d'.todo : (rows')[s].phase \in {"intent", "installed"}
    BY <1>4, <2>2 DEF rows
  <2> QED
    BY <2>1, <2>3, <2>4, <2>5 DEF Position
<1> QED
  BY <1>5, <1>11, <1>12, <1>13, <1>14, <1>15, <1>16, <1>17 DEF Inv

\* What a terminal candidate proves of the newest generation of each service:
\* it is an installed candidate, or nothing was ever installed there.
LEMMA Terminal ==
    ASSUME Inv, NEW i \in terminal_candidates
    PROVE  /\ i \in Ids /\ names(i) = active
           /\ \A s \in active :
                 /\ s \in Services
                 /\ ops[i].row[s].gen = latest(s)
                 /\ latest(s) \in 1..latest(s)
                 /\ gen[s][latest(s)].role # "current"
                 /\ \/ reuse_installed(s) /\ disk[s][latest(s)] = "complete"
                    \/ ~reuse_installed(s) /\ disk[s][latest(s)] = "none"
           /\ NoPartial
<1>1. i \in Ids /\ terminal_candidate_allows_fresh_up(i)
  BY DEF terminal_candidates, failed_candidates
<1>2. names(i) = active
  BY <1>1 DEF terminal_candidate_allows_fresh_up
<1>3. ASSUME NEW s \in active
      PROVE  /\ s \in Services
             /\ ops[i].row[s].gen = latest(s)
             /\ latest(s) \in 1..latest(s)
             /\ gen[s][latest(s)].role # "current"
             /\ \/ reuse_installed(s) /\ disk[s][latest(s)] = "complete"
                \/ ~reuse_installed(s) /\ disk[s][latest(s)] = "none"
  <2> DEFINE g == gen[s][latest(s)]
  <2>1. s \in Services
    BY DEF Inv, TypeOK
  <2>2. /\ ops[i].row[s].gen = latest(s)
        /\ \/ /\ g.state \in {"installed", "absent"}
              /\ g.role \in {"candidate", "retired"}
           \/ /\ g.state = "preparing" /\ g.role = "candidate"
              /\ ops[i].row[s].phase = "failed_pre_effect"
    BY <1>1 DEF terminal_candidate_allows_fresh_up
  <2>3. latest(s) > 0 /\ (g.role = "retired" => g.state = "absent")
    BY DEF Inv, ActiveInv
  <2>4. latest(s) \in 1..latest(s)
    BY <2>1, <2>3, LenProperties DEF Inv, TypeOK, latest
  <2>5. /\ g.state = "installed" => disk[s][latest(s)] = "complete"
        /\ g.state = "absent" => disk[s][latest(s)] = "none"
    BY <2>1, <2>4 DEF Inv, Trees
  <2>6. ops[i].row[s].phase = "failed_pre_effect" => disk[s][latest(s)] = "none"
    <3>1. ops[i].row[s].gen # 0
      BY <2>2, <2>3
    <3>2. RowAt(i, s)
      BY <1>1, <2>1 DEF Inv, RowInv
    <3> QED
      BY <2>2, <3>1, <3>2 DEF RowAt, OfRow
  <2> QED
    BY <2>1, <2>2, <2>3, <2>4, <2>5, <2>6 DEF reuse_installed
<1>4. NoPartial
  <2> SUFFICES ASSUME NEW s \in Services, NEW n \in 1..latest(s),
                      disk[s][n] = "partial"
               PROVE  FALSE
    BY DEF NoPartial
  <2>1. s \in active /\ n = latest(s)
    BY DEF Inv, ActiveInv, Partial
  <2> QED
    BY <1>3, <2>1
<1> QED
  BY <1>1, <1>2, <1>3, <1>4

\* begin_candidate_recovery meets BeginOK.
LEMMA RecoveryInv ==
    ASSUME Inv, NEW id \in Ids, NEW def \in Defs,
           d.pc = "idle", ops[id] = NoOp, ~unfinished,
           recovery(def) = "recover", begin_candidate_recovery(id, def)
    PROVE  Inv'
<1> DEFINE reused == {s \in active : reuse_installed(s)}
           gens == [s \in Services |->
                      IF s \in active \ reused
                      THEN [gen[s] EXCEPT ![latest(s)] =
                              [state |-> "absent", role |-> "retired"]]
                      ELSE gen[s]]
<1>1. begin(id, def, reused, gens)
  BY DEF begin_candidate_recovery
<1>2. PICK i \in terminal_candidates : ops[i].def = def
  BY DEF recovery
<1>3. stack.revision > 0 => active = ServicesOf[def]
  BY DEF recovery
<1>4. /\ i \in Ids /\ names(i) = active
      /\ \A s \in active :
            /\ s \in Services
            /\ ops[i].row[s].gen = latest(s)
            /\ latest(s) \in 1..latest(s)
            /\ gen[s][latest(s)].role # "current"
            /\ \/ reuse_installed(s) /\ disk[s][latest(s)] = "complete"
               \/ ~reuse_installed(s) /\ disk[s][latest(s)] = "none"
      /\ NoPartial
  BY Terminal
<1>5. active = ServicesOf[def]
  <2>1. ops[i].outcome = "failure"
    BY DEF terminal_candidates, failed_candidates
  <2> QED
    BY <1>2, <1>4, <2>1 DEF Inv, Shape
<1>6. GoodGens(gens)
  <2> SUFFICES ASSUME NEW s \in Services
               PROVE  /\ gens[s] \in Seq(Generation)
                      /\ Len(gens[s]) = latest(s)
                      /\ \A n \in 1..latest(s) :
                            \/ gens[s][n] = gen[s][n]
                            \/ /\ disk[s][n] = "none"
                               /\ gen[s][n].role # "current"
                               /\ gens[s][n] = [state |-> "absent",
                                                role |-> "retired"]
    BY DEF GoodGens
  <2>1. gen[s] \in Seq(Generation)
    BY DEF Inv, TypeOK
  <2>2. CASE s \in active \ reused
    <3> DEFINE x == [state |-> "absent", role |-> "retired"]
    <3>1. x \in Generation
      BY DEF Generation
    <3>2. latest(s) \in 1..Len(gen[s])
      BY <1>4, <2>2 DEF latest
    <3>3. gens[s] = [gen[s] EXCEPT ![latest(s)] = x]
      BY <2>2
    <3> HIDE DEF x, gens
    <3>4. /\ gens[s] \in Seq(Generation) /\ Len(gens[s]) = Len(gen[s])
          /\ \A n \in 1..Len(gen[s]) :
                gens[s][n] = IF n = latest(s) THEN x ELSE gen[s][n]
      BY <2>1, <3>1, <3>2, <3>3, ExceptSeq
    <3>5. disk[s][latest(s)] = "none" /\ gen[s][latest(s)].role # "current"
      BY <1>4, <2>2
    <3>6. Len(gen[s]) = latest(s)
      BY DEF latest
    <3>7. \A n \in 1..latest(s) :
              \/ gens[s][n] = gen[s][n]
              \/ n = latest(s) /\ gens[s][n] = x
      BY <3>4, <3>6
    <3> QED
      BY <3>4, <3>5, <3>6, <3>7 DEF x
  <2>3. CASE s \notin active \ reused
    BY <2>1, <2>3 DEF latest
  <2> QED
    BY <2>2, <2>3
<1>7. ASSUME NEW s \in reused
      PROVE  /\ gen[s][latest(s)] = [state |-> "installed",
                                     role |-> "candidate"]
             /\ gens[s] = gen[s]
             /\ \A j \in Ids :
                   ops[j].row[s].gen = latest(s) => ops[j].def = def
  <2>1. s \in active /\ s \in Services /\ reuse_installed(s)
    BY <1>4
  <2>2. gens[s] = gen[s]
    BY <2>1
  <2>3. gen[s][latest(s)] \in Generation
    BY <1>4, <2>1, ElementOfSeq DEF Inv, TypeOK, latest
  <2>4. gen[s][latest(s)] = [state |-> "installed", role |-> "candidate"]
    BY <2>1, <2>3 DEF reuse_installed, Generation
  <2>5. ASSUME NEW j \in Ids, ops[j].row[s].gen = latest(s)
        PROVE  ops[j].def = def
    <3>1. ops[i].row[s].gen = latest(s) /\ latest(s) # 0
      BY <1>4, <2>1
    <3>2. i # j => ops[i].def = ops[j].def
      BY <1>4, <2>1, <2>5, <3>1 DEF Inv, Sharing
    <3> QED
      BY <1>2, <3>2
  <2> QED
    BY <2>2, <2>4, <2>5
<1>8. reused \subseteq active /\ reused \in SUBSET ServicesOf[def]
  BY <1>5
<1> HIDE DEF reused, gens
<1>9. BeginOK(id, def, reused, gens)
  BY <1>3, <1>4, <1>6, <1>7, <1>8 DEF BeginOK
<1> QED
  BY <1>1, <1>8, <1>9, BeginInv

\* Without a terminal candidate a fresh `up` begins only if none has failed,
\* and then nothing partial was left behind.
LEMMA FreshNoPartial ==
    ASSUME Inv, NEW def \in Defs, ~unfinished,
           recovery(def) = "not_found", begin_up_ok(def)
    PROVE  NoPartial
<1>1. CASE terminal_candidates # {}
  BY <1>1, Terminal
<1>2. CASE terminal_candidates = {}
  <2> SUFFICES ASSUME NEW s \in Services, NEW n \in 1..latest(s),
                      disk[s][n] = "partial"
               PROVE  FALSE
    BY DEF NoPartial
  <2>1. s \in active /\ \E i \in Ids : ops[i].row[s].gen = n
    BY DEF Inv, ActiveInv, Partial
  <2>2. PICK i \in Ids : ops[i].row[s].gen = n
    BY <2>1
  <2>3. n # 0
    OBVIOUS
  <2>4. OfRow(i, s, ops[i].row[s], gen[s][n], disk[s][n])
    BY <2>2, <2>3 DEF Inv, RowInv, RowAt
  <2>5. i \in failed_candidates
    BY <2>4 DEF OfRow, failed_candidates, unfinished
  <2>6. active # {} /\ failed_candidates # {}
    BY <2>1, <2>5
  <2> QED
    BY <1>2, <2>6 DEF recovery
<1> QED
  BY <1>1, <1>2

\* begin_up meets BeginOK, with nothing reused.
LEMMA FreshInv ==
    ASSUME Inv, NEW id \in Ids, NEW def \in Defs,
           d.pc = "idle", ops[id] = NoOp, ~unfinished,
           recovery(def) = "not_found", begin_up_ok(def), begin_up(id, def)
    PROVE  Inv'
<1> DEFINE gens == [s \in Services |->
             IF s \in active \cup ServicesOf[def]
             THEN [g \in 1..latest(s) |->
                     IF gen[s][g].role = "candidate"
                     THEN [gen[s][g] EXCEPT !.role = "retired"] ELSE gen[s][g]]
             ELSE gen[s]]
           none == {}
<1>1. begin(id, def, none, gens)
  BY DEF begin_up
<1>2. NoPartial
  BY FreshNoPartial
<1>3. stack.revision > 0 => active = ServicesOf[def]
  <2>1. stack.revision > 0 => active # {}
    BY DefsAssumption DEF Inv, ActiveInv, CommittedSurvives
  <2> QED
    BY <2>1 DEF begin_up_ok
<1>4. GoodGens(gens)
  <2> SUFFICES ASSUME NEW s \in Services
               PROVE  /\ gens[s] \in Seq(Generation)
                      /\ Len(gens[s]) = latest(s)
                      /\ \A n \in 1..latest(s) :
                            \/ gens[s][n] = gen[s][n]
                            \/ /\ gen[s][n].role = "candidate"
                               /\ gens[s][n].role = "retired"
                               /\ gens[s][n].state = gen[s][n].state
    BY DEF GoodGens
  <2>1. gen[s] \in Seq(Generation) /\ latest(s) \in Nat
    BY LenProperties DEF Inv, TypeOK, latest
  <2>2. CASE s \in active \cup ServicesOf[def]
    <3> DEFINE f == [g \in 1..latest(s) |->
                       IF gen[s][g].role = "candidate"
                       THEN [gen[s][g] EXCEPT !.role = "retired"]
                       ELSE gen[s][g]]
    <3>1. gens[s] = f
      BY <2>2
    <3>2. ASSUME NEW n \in 1..latest(s)
          PROVE  /\ f[n] \in Generation
                 /\ \/ f[n] = gen[s][n]
                    \/ /\ gen[s][n].role = "candidate"
                       /\ f[n].role = "retired"
                       /\ f[n].state = gen[s][n].state
      <4>1. gen[s][n] \in Generation
        BY <2>1, ElementOfSeq DEF latest
      <4> QED
        BY <4>1 DEF Generation
    <3>3. f \in [1..latest(s) -> Generation]
      BY <3>2
    <3>4. f \in Seq(Generation) /\ Len(f) = latest(s)
      BY <2>1, <3>3, AsSeq
    <3> HIDE DEF f, gens
    <3> QED
      BY <3>1, <3>2, <3>4
  <2>3. CASE s \notin active \cup ServicesOf[def]
    BY <2>1, <2>3 DEF latest
  <2> QED
    BY <2>2, <2>3
<1>5. none \in SUBSET ServicesOf[def] /\ none \subseteq active
      /\ \A s \in none : FALSE
  OBVIOUS
<1> HIDE DEF gens, none
<1>6. BeginOK(id, def, none, gens)
  BY <1>2, <1>3, <1>4, <1>5 DEF BeginOK
<1> QED
  BY <1>1, <1>5, <1>6, BeginInv

-----------------------------------------------------------------------------
(* The theorems *)

\* A new store has no history.
LEMMA InitInv ==
    ASSUME Init
    PROVE  Inv
<1>1. /\ stack = [desired |-> "running", revision |-> 0, def |-> NoDef]
      /\ active = {} /\ svc = [s \in Services |-> "quiet"]
      /\ gen = [s \in Services |-> <<>>]
      /\ ops = [i \in Ids |-> NoOp]
      /\ disk = [s \in Services |-> <<>>]
      /\ cand = 0
      /\ d \in [pc : {"idle"}, id : {0}, cur : Services, todo : {{}},
                err : {"none"}]
  BY DEF Init
<1>2. /\ <<>> \in Seq(Generation) /\ <<>> \in Seq(Disk)
      /\ Len(<<>>) = 0
  BY EmptySeq
<1>3. NoOp \in Operation
  BY DEF NoOp, NoRow, Operation, Row
<1>4. d \in Daemon /\ d.pc = "idle"
  BY <1>1 DEF Daemon
<1>5. \A s \in Services : latest(s) = 0
  BY <1>1, <1>2 DEF latest
<1>6. \A i \in Ids : /\ ops[i].outcome = "none" /\ ops[i].revision = 0
                     /\ \A s \in Services : /\ ops[i].row[s] = NoRow
                                            /\ ops[i].row[s].gen = 0
  BY <1>1 DEF NoOp, NoRow
<1>7. TypeOK
  BY <1>1, <1>2, <1>3, <1>4 DEF TypeOK, Stack
<1>8. Shape
  BY <1>1, <1>5, <1>6 DEF Shape
<1>9. Trees
  BY <1>5 DEF Trees
<1>10. RowInv /\ Sharing
  BY <1>6 DEF RowInv, RowAt, Sharing
<1>11. NewestInv
  BY <1>1, <1>6 DEF NewestInv, failed_candidates
<1>12. ActiveInv
  BY <1>1, <1>5 DEF ActiveInv, Partial, CommittedSurvives
<1>13. Position
  BY <1>4 DEF Position, WorkPC, SubjectPC
<1> QED
  BY <1>7, <1>8, <1>9, <1>10, <1>11, <1>12, <1>13 DEF Inv

\* Every step keeps Inv.
LEMMA NextInv ==
    ASSUME Inv, [Next]_vars
    PROVE  Inv'
<1>1. ASSUME NEW id \in Ids, NEW def \in Defs, Begin(id, def)
      PROVE  Inv'
  <2>1. d.pc = "idle" /\ ops[id] = NoOp /\ ~unfinished
    BY <1>1 DEF Begin
  <2>2. CASE recovery(def) = "recover" /\ begin_candidate_recovery(id, def)
    BY <2>1, <2>2, RecoveryInv
  <2>3. CASE /\ recovery(def) = "not_found" /\ begin_up_ok(def)
             /\ begin_up(id, def)
    BY <2>1, <2>3, FreshInv
  <2> QED
    BY <1>1, <2>2, <2>3 DEF Begin
<1>2. CASE NextService
  BY <1>2, NextServiceInv
<1>3. CASE MarkLogsPrepared
  BY <1>3, MarkLogsPreparedInv
<1>4. CASE MarkInstallInvoked
  BY <1>4, MarkInstallInvokedInv
<1>5. CASE Install
  BY <1>5, InstallInv
<1>6. CASE MarkInstalled
  BY <1>6, MarkInstalledInv
<1>7. CASE MarkRootfsUnknown
  BY <1>7, MarkRootfsUnknownInv
<1>8. CASE MarkUnknown
  BY <1>8, MarkUnknownInv
<1>9. CASE MarkStartInvoked
  BY <1>9, MarkStartInvokedInv
<1>10. CASE Spawn
  BY <1>10, SpawnInv
<1>11. CASE Commit
  BY <1>11, CommitInv
<1>12. CASE RecordFailed
  BY <1>12, RecordFailedInv
<1>13. CASE AbortOthers
  BY <1>13, AbortOthersInv
<1>14. CASE StopStarted
  BY <1>14, StopStartedInv
<1>15. CASE Finalize
  BY <1>15, FinalizeInv
<1>16. CASE Down \/ Converge \/ \E s \in Services : Tick(s)
  BY <1>16, AroundInv
<1>17. CASE Crash
  BY <1>17, CrashInv
<1>18. CASE ColdStart
  BY <1>18, ColdStartInv
<1>19. CASE UNCHANGED vars
  <2>1. UNCHANGED <<stack, active, svc, gen, ops, d, disk, cand>>
    BY <1>19 DEF vars
  <2>2. TypeOK' /\ Shape' /\ Trees'
    <3>1. TypeOK'
      BY <2>1 DEF Inv, TypeOK
    <3>2. \A i \in Ids : names(i)' = names(i)
      BY <2>1 DEF names
    <3>3. \A s \in Services : latest(s)' = latest(s)
      BY <2>1 DEF latest
    <3>4. Shape'
      <4>1. /\ ops' = ops /\ stack' = stack
            /\ Shape
        BY <2>1 DEF Inv
      <4> QED
        BY <3>2, <3>3, <4>1 DEF Shape
    <3>5. Trees'
      BY <2>1, <3>3 DEF Inv, Trees
    <3> QED
      BY <3>1, <3>4, <3>5
  <2>3. RowInv' /\ Sharing'
    <3>1. ASSUME NEW i \in Ids, NEW s \in Services PROVE RowAt(i, s)'
      <4>1. RowAt(i, s)
        BY DEF Inv, RowInv
      <4> QED
        BY <2>1, <4>1 DEF RowAt, OfRow
    <3>2. Sharing'
      BY <2>1 DEF Inv, Sharing
    <3> QED
      BY <3>1, <3>2 DEF RowInv
  <2>4. NewestInv'
    BY <2>1 DEF Inv, NewestInv, Newest, names, latest, unfinished,
                failed_candidates
  <2>5. ActiveInv'
    BY <2>1 DEF Inv, ActiveInv, Partial, CommittedSurvives, latest
  <2>6. rows' = rows /\ row' = row /\ names(d.id)' = names(d.id)
    BY <2>1 DEF rows, row, names
  <2>7. AtHand' <=> AtHand
    BY <2>1, <2>6 DEF AtHand
  <2>8. Position'
    BY <2>1, <2>6, <2>7 DEF Inv, Position
  <2> QED
    BY <2>2, <2>3, <2>4, <2>5, <2>8 DEF Inv
<1> QED
  BY <1>1, <1>2, <1>3, <1>4, <1>5, <1>6, <1>7, <1>8, <1>9, <1>10, <1>11,
     <1>12, <1>13, <1>14, <1>15, <1>16, <1>17, <1>18, <1>19 DEF Next

\* The state of the stack's history at every point of every run: the type
\* invariant, and what each of the five theorems below rests on.
THEOREM HistoryInv == Spec => []Inv
<1>1. Init => Inv
  BY InitInv
<1>2. Inv /\ [Next]_vars => Inv'
  BY NextInv
<1> QED
  BY <1>1, <1>2, PTL DEF Spec

\* RootfsTruth: Trees and the phases of RowInv.
LEMMA InvRootfsTruth == Inv => RootfsTruth
<1> SUFFICES ASSUME Inv, NEW s \in Services
             PROVE  /\ \A g \in 1..latest(s) :
                          /\ disk[s][g] # "twice"
                          /\ gen[s][g].state = "installed"
                             => disk[s][g] = "complete"
                          /\ gen[s][g].state = "absent"
                             => disk[s][g] = "none"
                    /\ \A i \in Ids :
                          ops[i].row[s].phase
                            \in {"installed", "start_invoked", "running"}
                          => disk[s][ops[i].row[s].gen] = "complete"
  BY DEF RootfsTruth
<1>1. ASSUME NEW i \in Ids,
             ops[i].row[s].phase \in {"installed", "start_invoked", "running"}
      PROVE  disk[s][ops[i].row[s].gen] = "complete"
  <2>1. ops[i].row[s].gen # 0
    BY <1>1 DEF Inv, Shape, NoRow
  <2>2. RowAt(i, s)
    BY DEF Inv, RowInv
  <2> QED
    BY <1>1, <2>1, <2>2 DEF RowAt, OfRow
<1> QED
  BY <1>1 DEF Inv, Trees

\* AmbiguityStays: a part of ActiveInv.
LEMMA InvAmbiguityStays == Inv => AmbiguityStays
BY DEF Inv, ActiveInv, Partial, AmbiguityStays

\* Any terminal candidate shares all its generations with the newest one: the
\* two have one verdict and one definition.
LEMMA TerminalIsNewest ==
    ASSUME Inv, ~unfinished, active # {}, NEW i \in terminal_candidates
    PROVE  /\ cand # 0 /\ cand \in Ids /\ ops[cand].def = ops[i].def
           /\ cand \in terminal_candidates
<1>1. /\ i \in Ids /\ names(i) = active
      /\ \A s \in active :
            /\ s \in Services
            /\ ops[i].row[s].gen = latest(s)
            /\ latest(s) \in 1..latest(s)
            /\ gen[s][latest(s)].role # "current"
            /\ \/ reuse_installed(s) /\ disk[s][latest(s)] = "complete"
               \/ ~reuse_installed(s) /\ disk[s][latest(s)] = "none"
  BY Terminal
<1>2. cand # 0 /\ cand \in Ids
  BY DEF Inv, TypeOK, NewestInv, terminal_candidates
<1>3. PICK c \in Ids : c = cand
  BY <1>2
<1>4. Newest(c) /\ c \in failed_candidates
  BY <1>2, <1>3 DEF Inv, NewestInv, failed_candidates
<1>5. CASE i = c
  BY <1>2, <1>3, <1>5
<1>6. CASE i # c
  <2>1. ASSUME NEW s \in active
        PROVE  /\ ops[c].row[s].gen = latest(s)
               /\ reuse_installed(s) /\ ops[i].def = ops[c].def
    <3>1. ops[c].row[s].gen = latest(s) /\ ops[i].row[s].gen = latest(s)
      BY <1>1, <1>4 DEF Newest
    <3>2. latest(s) # 0
      BY <1>1
    <3>3. disk[s][latest(s)] = "complete" /\ ops[i].def = ops[c].def
      BY <1>1, <1>6, <3>1, <3>2 DEF Inv, Sharing
    <3> QED
      BY <1>1, <3>1, <3>3
  <2>2. terminal_candidate_allows_fresh_up(c)
    BY <1>4, <2>1
       DEF terminal_candidate_allows_fresh_up, Newest, reuse_installed
  <2>3. ops[i].def = ops[c].def
    BY <2>1
  <2> QED
    BY <1>2, <1>3, <1>4, <2>2, <2>3 DEF terminal_candidates
<1> QED
  BY <1>5, <1>6

\* NewestDecides: with the newest candidate terminal or none.
LEMMA InvNewestDecides == Inv => NewestDecides
<1> SUFFICES ASSUME Inv, NEW def \in Defs, active # {}, quiet, ~unfinished,
                    stack.revision > 0 => active = ServicesOf[def]
             PROVE  recovery(def) =
                      IF cand = 0 THEN "not_found"
                      ELSE IF ~terminal_candidate_allows_fresh_up(cand)
                      THEN "conflict"
                      ELSE IF ops[cand].def # def THEN "not_found"
                      ELSE "recover"
  BY DEF NewestDecides
<1>1. CASE cand = 0
  BY <1>1 DEF Inv, NewestInv, recovery
<1>2. CASE cand # 0
  <2>1. cand \in failed_candidates
    BY <1>2 DEF Inv, TypeOK, NewestInv, failed_candidates
  <2>2. CASE ~terminal_candidate_allows_fresh_up(cand)
    <3>1. terminal_candidates = {}
      BY <2>2, TerminalIsNewest DEF terminal_candidates
    <3> QED
      BY <1>2, <2>1, <2>2, <3>1 DEF recovery
  <2>3. CASE terminal_candidate_allows_fresh_up(cand)
    <3>1. cand \in terminal_candidates
      BY <2>1, <2>3 DEF terminal_candidates
    <3>2. \A i \in terminal_candidates : ops[i].def = ops[cand].def
      BY TerminalIsNewest
    <3>3. recovery(def) = IF ops[cand].def # def THEN "not_found"
                          ELSE "recover"
      BY <2>1, <3>1, <3>2 DEF recovery
    <3> QED
      BY <1>2, <2>3, <3>3
  <2> QED
    BY <2>2, <2>3
<1> QED
  BY <1>1, <1>2

\* CommittedSurvives: a part of ActiveInv.
LEMMA InvCommittedSurvives == Inv => CommittedSurvives
BY DEF Inv, ActiveInv

\* CorrectableCandidate: the newest candidate is then terminal.
LEMMA InvCorrectableCandidate == Inv => CorrectableCandidate
<1> SUFFICES ASSUME Inv, ~unfinished, quiet,
                    \A s \in active :
                       \/ gen[s][latest(s)].state = "installed"
                       \/ /\ gen[s][latest(s)].state # "unknown"
                          /\ disk[s][latest(s)] = "none",
                    NEW def \in Defs,
                    stack.revision > 0 => active = ServicesOf[def]
             PROVE  \/ recovery(def) = "recover"
                    \/ recovery(def) = "not_found" /\ begin_up_ok(def)
  BY DEF CorrectableCandidate
<1>1. CASE active = {}
  BY <1>1 DEF recovery, begin_up_ok
<1>2. CASE active # {} /\ cand = 0
  <2>1. failed_candidates = {} /\ stack.revision # 0
    BY <1>2 DEF Inv, NewestInv
  <2> QED
    BY <1>2, <2>1 DEF recovery, begin_up_ok
<1>3. CASE active # {} /\ cand # 0
  <2>1. PICK c \in Ids : c = cand
    BY <1>3 DEF Inv, TypeOK
  <2>2. /\ c \in failed_candidates /\ Newest(c)
        /\ ops[c].outcome = "failure"
        /\ ops[c].revision = stack.revision + 1
    BY <1>3, <2>1 DEF Inv, NewestInv, failed_candidates
  <2>3. ASSUME NEW s \in active
        PROVE  LET r == ops[c].row[s]
                   g == gen[s][r.gen]
               IN  /\ r.gen = latest(s)
                   /\ \/ /\ g.state \in {"installed", "absent"}
                         /\ g.role \in {"candidate", "retired"}
                      \/ /\ g.state = "preparing"
                         /\ g.role = "candidate"
                         /\ r.phase = "failed_pre_effect"
    <3> DEFINE g == gen[s][latest(s)]
    <3>1. s \in Services /\ ops[c].row[s].gen = latest(s) /\ latest(s) > 0
      BY <2>2 DEF Inv, TypeOK, ActiveInv, Newest
    <3>2. latest(s) \in 1..latest(s) /\ latest(s) # 0
      BY <3>1, LenProperties DEF Inv, TypeOK, latest
    <3>3. g \in Generation
      BY <3>1, <3>2, ElementOfSeq DEF Inv, TypeOK, latest
    <3>4. OfRow(c, s, ops[c].row[s], g, disk[s][latest(s)])
      BY <3>1, <3>2 DEF Inv, RowInv, RowAt
    <3>5. g.role \in {"candidate", "retired"}
      BY <2>2, <3>3, <3>4 DEF OfRow, Generation
    <3>6. g.role = "retired" => g.state = "absent"
      BY DEF Inv, ActiveInv
    <3>7. CASE g.state = "installed"
      BY <3>1, <3>5, <3>7
    <3>8. CASE g.state # "installed"
      <4>1. g.state \in {"absent", "preparing"} /\ disk[s][latest(s)] = "none"
        BY <3>3, <3>8 DEF Generation
      <4>2. ops[c].row[s].phase \notin Early
        BY <2>2, <3>4 DEF OfRow
      <4>3. ~(d.pc = "install" /\ c = d.id)
        <5>1. d.pc = "install" => ops[d.id].outcome = "null"
          BY DEF Inv, Position, WorkPC, SubjectPC
        <5> QED
          BY <2>2, <5>1
      <4>4. g.state = "preparing" => ops[c].row[s].phase = "failed_pre_effect"
        BY <3>4, <4>1, <4>2, <4>3 DEF OfRow
      <4> QED
        BY <3>1, <3>5, <3>6, <4>1, <4>4
    <3> QED
      BY <3>7, <3>8
  <2>4. c \in terminal_candidates
    BY <2>2, <2>3 DEF terminal_candidates, Newest,
                      terminal_candidate_allows_fresh_up
  <2> QED
    BY <1>3, <2>2, <2>4 DEF recovery, begin_up_ok
<1> QED
  BY <1>1, <1>2, <1>3

\* RootfsTruth: however many candidates fail, are retried or are cut off by a
\* crash, no alias sees a second install, and what the journal says of a
\* rootfs is true of the tree.
THEOREM RootfsTruthHolds == Spec => []RootfsTruth
BY HistoryInv, InvRootfsTruth, PTL

\* AmbiguityStays: a rootfs left partial stays the newest generation of an
\* active service, where terminal_candidate_allows_fresh_up sees it.
THEOREM AmbiguityStaysHolds == Spec => []AmbiguityStays
BY HistoryInv, InvAmbiguityStays, PTL

\* NewestDecides: begin_candidate_recovery's verdict over all the failed
\* candidates is its verdict on the newest one alone.
THEOREM NewestDecidesHolds == Spec => []NewestDecides
BY HistoryInv, InvNewestDecides, PTL

\* CommittedSurvives: after a commit every active service has exactly one
\* current generation, complete on disk, whatever updates fail afterwards;
\* nothing but commit_up changes which one that is.
THEOREM CommittedSurvivesHolds == Spec => []CommittedSurvives
BY HistoryInv, InvCommittedSurvives, PTL

\* CorrectableCandidate: begin_candidate_recovery and begin_up accept any
\* corrected manifest unless an install was cut short or lost its record.
THEOREM CorrectableCandidateHolds == Spec => []CorrectableCandidate
BY HistoryInv, InvCorrectableCandidate, PTL

=============================================================================
