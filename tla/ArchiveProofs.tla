--------------------------- MODULE ArchiveProofs ---------------------------
(***************************************************************************)
(* That the rows and the containers of a project agree whenever no archive *)
(* and no restore is under way, that a restore takes back only what        *)
(* belongs to the archive it undoes, and that, right after that archive,   *)
(* it takes back all of it.                                                *)
(***************************************************************************)
EXTENDS Archive, TLAPS

-----------------------------------------------------------------------------
(* The inductive invariant.                                                *)

(* The steps of an archive and of a restore, and among them those in which *)
(* the container of a resource is put aside, or taken back.                *)
PutsAside == {"stop", "disconnect", "rename", "save", "undo"}
Resumes == {"resume", "connect", "start"}
TakesBack == Resumes \cup {"clearRow", "clearMark", "record", "release"}

Common == {"list", "next", "visit", "end", "return"}
ArchiveSteps ==
  Common \cup PutsAside \cup {"lock", "row", "clear", "unset", "remove", "mark"}
RestoreSteps == Common \cup TakesBack \cup {"port", "unmark"}

Archiving(c) == op[c].kind \in Archives
Restoring(c) == op[c].kind \in Restores

(* What kind of operation is where.                                        *)
Paths(c) ==
  /\ op[c].kind = "none" => op[c].pc = "idle"
  /\ Archiving(c) => op[c].pc \in ArchiveSteps /\ op[c].id # 0
  /\ Restoring(c) => op[c].pc \in RestoreSteps
  /\ op[c].kind # "none" => op[c].target \in Services

(* A restore runs alone.                                                   *)
Alone == \A c, d \in Clients : Restoring(c) /\ c # d => op[d].kind = "none"

(* An archive holds the lock of whatever it is about to visit.             *)
Holds(c, x) == locks[x] = c /\ \A k \in ChildrenOf(x) : locks[k] = c

Locked(c) ==
  Archiving(c) =>
    /\ At(c, "list") =>
         IF op[c].kind = "archive" THEN Holds(c, op[c].target)
         ELSE \A d \in Deployables \cap Active : Holds(c, d)
    /\ At(c, "visit") => Holds(c, Cur(c))
    /\ \A d \in op[c].todo : Holds(c, d)
    /\ \A k \in op[c].kids : locks[k] = c
    /\ op[c].pc \in PutsAside => locks[Cur(c)] = c

(* Which service a step may be about.                                      *)
About(c) ==
  /\ At(c, "visit") => Cur(c) \in Services
  /\ op[c].pc \in PutsAside => Cur(c) \in Stateful
  /\ op[c].pc \in {"row", "remove"} => Cur(c) \in Services \ Stateful
  /\ op[c].pc \in {"clear", "unset"} /\ ~op[c].shared => Cur(c) = Primary
  /\ op[c].pc \in Resumes => Resuming(c)
  /\ op[c].pc \in TakesBack => Cur(c) \in Services
  /\ op[c].pc \in Resumes \cup {"record", "release"} => Cur(c) \in Kids
  /\ op[c].pc \in {"clearRow", "clearMark"} =>
       /\ Cur(c) \in Stateful => Resuming(c)
       /\ Resuming(c) => Cur(c) \in Kids
  /\ op[c].pc \in {"clearMark", "record"} => row[Cur(c)] = 0
  /\ Restoring(c) /\ op[c].pc \in Common \cup {"port", "unmark"} => ~Resuming(c)

Client(c) == Paths(c) /\ Locked(c) /\ About(c)

(* A resource always has a recorded container, and what is active in the   *)
(* services table is so in the projects table.                             *)
Rows == \A x \in Stateful : rec[x].cid /\ (mark[x] = 0 => row[x] = 0)

(* The container of a resource while nobody works on it,                   *)
Retained == [cid |-> TRUE, name |-> "preserved"]

Settled(x) ==
  IF mark[x] = 0 THEN ctr[x] = Serving /\ rec[x] = Recorded
  ELSE ctr[x].name = "preserved" /\ ~ctr[x].net /\ rec[x] = Retained

(* while an archive puts it aside, or undoes what it did,                  *)
Aside(done) ==
  [up |-> "stopped" \notin done, net |-> "disconnected" \notin done,
   name |-> IF "renamed" \in done THEN "preserved" ELSE "canonical"]

Leaving(c, x) ==
  /\ mark[x] = 0 /\ rec[x] = Recorded
  /\ ctr[x] = Aside(op[c].done)
  /\ At(c, "stop") => op[c].done = {}
  /\ At(c, "disconnect") => op[c].done = {"stopped"}
  /\ At(c, "rename") => op[c].done = {"stopped", "disconnected"}
  /\ At(c, "save") => op[c].done = {"stopped", "disconnected", "renamed"}
  /\ At(c, "undo") =>
       /\ op[c].done \in {{}, {"stopped"}, {"stopped", "disconnected"},
                          {"stopped", "disconnected", "renamed"}}
       /\ faults > 0

(* and while a restore takes it back, or releases it again.                *)
Coming(c, x) ==
  /\ (mark[x] = 0) <=> At(c, "record")
  /\ rec[x] = Retained
  /\ ctr[x].name = IF "renamed" \in op[c].done THEN "canonical" ELSE "preserved"
  /\ ctr[x].net <=> "connected" \in op[c].done
  /\ At(c, "resume") => op[c].done = {"found"}
  /\ At(c, "connect") => op[c].done = {"found", "renamed"}
  /\ op[c].pc \in {"start", "clearRow", "clearMark", "record"} =>
       op[c].done = {"found", "renamed", "connected"}
  /\ op[c].pc \in {"clearRow", "clearMark", "record"} => ctr[x] = Serving
  /\ At(c, "release") => faults > 0

WorksOn(c, x) == Cur(c) = x /\ op[c].pc \in PutsAside \cup TakesBack

Resource(x) ==
  /\ (\A c \in Clients : ~WorksOn(c, x)) => Settled(x)
  /\ \A c \in Clients : Cur(c) = x =>
       /\ op[c].pc \in PutsAside => Leaving(c, x)
       /\ op[c].pc \in TakesBack => Coming(c, x)

Resources ==
  faults <= 1 /\ crashes = 0 => \A x \in Stateful \ torn : Resource(x)

(* An archived service without children has no container, or somebody is   *)
(* about to remove it.                                                     *)
Removing(c, x) ==
  /\ Cur(c) = x
  /\ \/ At(c, "remove")
     \/ op[c].pc \in {"clear", "unset"} /\ ~op[c].shared

Removed ==
  faults = 0 /\ crashes = 0 =>
    \A x \in Leaves : mark[x] # 0 =>
      ctr[x] = Gone \/ \E c \in Clients : Removing(c, x)

IInv ==
  /\ TypeOK
  /\ \A c \in Clients : Client(c)
  /\ Alone /\ Rows /\ Resources /\ Removed

-----------------------------------------------------------------------------
(* What a step of one client has to do for the invariant to hold after it. *)

(* It leaves the other clients and their locks alone, and only a restore   *)
(* makes anything active.                                                  *)
Frame(c) ==
  /\ \A d \in Clients \ {c} : op'[d] = op[d]
  /\ \A d \in Clients \ {c}, x \in Services : locks[x] = d => locks'[x] = d
  /\ ~Restoring(c) => \A x \in Services : mark'[x] = 0 => mark[x] = 0
  /\ faults' >= faults /\ crashes' = crashes /\ torn \subseteq torn'

(* It leaves a resource alone, or is the only one to work on it and does   *)
(* what the invariant says.                                                *)
Alright(c, x) ==
  IF WorksOn(c, x)
  THEN /\ op[c].pc \in PutsAside => Leaving(c, x)
       /\ op[c].pc \in TakesBack => Coming(c, x)
  ELSE Settled(x)

Untouched(c, x) ==
  /\ mark'[x] = mark[x] /\ rec'[x] = rec[x] /\ ctr'[x] = ctr[x]
  /\ ~WorksOn(c, x) /\ ~WorksOn(c, x)'

Handled(c, x) ==
  /\ (locks[x] = c /\ Archiving(c)) \/ Restoring(c)
  /\ Alright(c, x) => Alright(c, x)'

(* An archived leaf stays as it is, or has or is about to have nothing.    *)
Cleared(c, x) ==
  mark'[x] # 0 =>
    \/ ctr'[x] = Gone
    \/ Removing(c, x)'
    \/ mark[x] # 0 /\ ctr'[x] = ctr[x] /\ ~Removing(c, x)

(* It does not become a restore while there are others, or next to one.    *)
Turn(c) ==
  \/ op[c].kind # "none" /\ op'[c].kind \in {op[c].kind, "none"}
  \/ Alone' /\ \A d \in Clients \ {c} : ~Restoring(d)

Goes(c) ==
  /\ TypeOK' /\ Frame(c) /\ Turn(c) /\ Client(c)' /\ Rows'
  /\ faults' <= 1 => \A x \in Stateful \ torn' : Untouched(c, x) \/ Handled(c, x)
  /\ faults' = 0 => \A x \in Leaves : Cleared(c, x)

-----------------------------------------------------------------------------
(* Records of an operation.                                                *)
LEMMA IdleIsOperation == ArchiveAssumption => Idle \in Operations
<1> SUFFICES ASSUME ArchiveAssumption PROVE Idle \in Operations
  OBVIOUS
<1>1. 0 \in Times
  BY DEF ArchiveAssumption, Times
<1>2. Idle.kind \in Archives \cup Restores \cup {"none"} /\ Idle.pc \in Steps
  BY DEF Idle, Steps
<1> QED  BY <1>1, <1>2 DEF Idle, Operations

LEMMA StepNames ==
  /\ "list" \in Steps /\ "next" \in Steps /\ "return" \in Steps
  /\ "remove" \in Steps /\ "clear" \in Steps
  /\ "stop" \in Steps /\ "save" \in Steps /\ "undo" \in Steps
  /\ "resume" \in Steps /\ "clearRow" \in Steps /\ "clearMark" \in Steps
  /\ "record" \in Steps /\ "release" \in Steps /\ "port" \in Steps
  /\ "disconnect" \in Steps /\ {} \in SUBSET Flags /\ {"stopped"} \in SUBSET Flags
BY DEF Steps, Flags

LEMMA GotoIs ==
  ASSUME TypeOK, NEW c \in Clients, NEW s \in Steps, Goto(c, s)
  PROVE  /\ op' \in [Clients -> Operations]
         /\ \A d \in Clients \ {c} : op'[d] = op[d]
         /\ op'[c].pc = s
         /\ op'[c].kind = op[c].kind /\ op'[c].target = op[c].target
         /\ op'[c].id = op[c].id /\ op'[c].shared = op[c].shared
         /\ op'[c].todo = op[c].todo /\ op'[c].root = op[c].root
         /\ op'[c].kids = op[c].kids /\ op'[c].cur = op[c].cur
         /\ op'[c].marker = op[c].marker
         /\ op'[c].done = op[c].done
<1>1. op \in [Clients -> Operations] /\ op[c] \in Operations
  BY DEF TypeOK
<1>2. op' = [op EXCEPT ![c] = [op[c] EXCEPT !.pc = s]]
  BY <1>1 DEF Goto
<1>3. [op[c] EXCEPT !.pc = s] \in Operations
  BY <1>1 DEF Operations
<1> QED  BY <1>1, <1>2, <1>3 DEF Operations

LEMMA GotoDoneIs ==
  ASSUME TypeOK, NEW c \in Clients, NEW s \in Steps, NEW done \in SUBSET Flags,
         GotoDone(c, s, done)
  PROVE  /\ op' \in [Clients -> Operations]
         /\ \A d \in Clients \ {c} : op'[d] = op[d]
         /\ op'[c].pc = s /\ op'[c].done = done
         /\ op'[c].kind = op[c].kind /\ op'[c].target = op[c].target
         /\ op'[c].id = op[c].id /\ op'[c].shared = op[c].shared
         /\ op'[c].todo = op[c].todo /\ op'[c].root = op[c].root
         /\ op'[c].kids = op[c].kids /\ op'[c].cur = op[c].cur
         /\ op'[c].marker = op[c].marker
<1>1. op \in [Clients -> Operations] /\ op[c] \in Operations
  BY DEF TypeOK
<1>2. op' = [op EXCEPT ![c] = [op[c] EXCEPT !.pc = s, !.done = done]]
  BY <1>1 DEF GotoDone
<1>3. [op[c] EXCEPT !.pc = s, !.done = done] \in Operations
  BY <1>1 DEF Operations
<1> QED  BY <1>1, <1>2, <1>3 DEF Operations

(* Names for what the rows hold.                                           *)
LEMMA Names ==
  ArchiveAssumption =>
    /\ Primary \in Deployables /\ Deployables \cap Kids = {}
    /\ Stateful \subseteq Kids /\ Kids \subseteq Services
    /\ Deployables \subseteq Services /\ Leaves \subseteq Deployables
    /\ None \notin Clients /\ None \notin Services
    /\ \A x : ChildrenOf(x) \subseteq Kids
    /\ \A x \in Kids : ChildrenOf(x) = {}
BY DEF ArchiveAssumption, Services, Leaves, ChildrenOf, Kids

LEMMA FieldsOf ==
  ASSUME TypeOK, NEW c \in Clients
  PROVE  /\ op[c] \in Operations
         /\ op[c].kind \in Archives \cup Restores \cup {"none"}
         /\ op[c].pc \in Steps /\ op[c].target \in Services \cup {None}
         /\ op[c].id \in Times /\ op[c].shared \in BOOLEAN
         /\ op[c].todo \subseteq Deployables
         /\ op[c].root \in Deployables \cup {None}
         /\ op[c].kids \subseteq Kids /\ op[c].cur \in Services \cup {None}
         /\ op[c].done \subseteq Flags
BY DEF TypeOK, Operations

(* Whoever is at a step of its own kind is of that kind.                   *)
LEMMA KindAt ==
  ASSUME NEW c \in Clients, TypeOK, Paths(c)
  PROVE  /\ op[c].pc \in PutsAside \cup {"lock", "row", "clear", "unset", "remove", "mark"}
              => Archiving(c)
         /\ op[c].pc \in TakesBack \cup {"port", "unmark"} => Restoring(c)
         /\ op[c].pc \in Common => Archiving(c) \/ Restoring(c)
         /\ op[c].pc = "idle" <=> op[c].kind = "none"
         /\ ~(Archiving(c) /\ Restoring(c))
BY FieldsOf DEF Paths, Archiving, Restoring, ArchiveSteps, RestoreSteps, PutsAside,
     TakesBack, Resumes, Common, Archives, Restores

(* Nobody else works on what a client has locked, or while it restores.    *)
LEMMA Sole ==
  ASSUME IInv, NEW c \in Clients, NEW x,
         (locks[x] = c /\ Archiving(c)) \/ Restoring(c)
  PROVE  \A d \in Clients \ {c} : ~WorksOn(d, x)
<1> SUFFICES ASSUME NEW d \in Clients \ {c}, WorksOn(d, x) PROVE FALSE
  OBVIOUS
<1>1. TypeOK /\ Client(d) /\ Paths(d)
  BY DEF IInv, Client
<1>2. op[d].kind # "none" /\ ~Restoring(c)
  BY <1>1, KindAt DEF IInv, Alone, WorksOn, Archiving, Restoring, Archives, Restores
<1>3. ~Restoring(d)
  BY <1>2 DEF IInv, Alone, Archiving, Archives
<1>4. Archiving(d) /\ op[d].pc \in PutsAside
  BY <1>1, <1>2, <1>3, KindAt DEF WorksOn
<1>5. locks[x] = d
  BY <1>1, <1>4 DEF Client, Locked, WorksOn
<1> QED  BY <1>2, <1>5

-----------------------------------------------------------------------------
(* A step that goes right keeps the invariant.                             *)
LEMMA OtherClients ==
  ASSUME ArchiveAssumption, IInv, NEW c \in Clients, Frame(c),
         NEW d \in Clients \ {c}, ~Restoring(d)
  PROVE  Client(d)'
<1>1. op'[d] = op[d] /\ Client(d) /\ TypeOK /\ Paths(d) /\ Locked(d) /\ About(d)
  BY DEF Frame, IInv, Client
<1>2. Paths(d)'
  BY <1>1 DEF Paths, Archiving, Restoring
<1>3. Locked(d)'
  <2> SUFFICES ASSUME Archiving(d) PROVE Locked(d)'
    BY <1>1 DEF Locked, Archiving
  <2>1. \A x \in Services : mark'[x] = 0 => mark[x] = 0
    BY <1>1 DEF IInv, Alone, Archiving, Archives, Frame
  <2>2. \A x \in Services : locks[x] = d => locks'[x] = d
    BY DEF Frame
  <2>3. \A x \in Services : Holds(d, x) => Holds(d, x)'
    BY <2>2, Names DEF Holds
  <2>4. At(d, "list") =>
          (IF op[d].kind = "archive" THEN Holds(d, op[d].target)
           ELSE \A y \in Deployables \cap Active : Holds(d, y))'
    <3> SUFFICES ASSUME At(d, "list")
                 PROVE (IF op[d].kind = "archive" THEN Holds(d, op[d].target)
                        ELSE \A y \in Deployables \cap Active : Holds(d, y))'
      OBVIOUS
    <3>1. op[d].target \in Services
      BY <1>1 DEF Paths, Archiving, Archives
    <3>2. CASE op[d].kind = "archive"
      <4>1. Holds(d, op[d].target)
        BY <1>1, <3>2 DEF Locked
      <4>2. \A k \in ChildrenOf(op[d].target) : locks'[k] = d
        BY <4>1, <2>2, Names DEF Holds
      <4> QED  BY <1>1, <3>1, <3>2, <4>1, <4>2, <2>2 DEF Holds
    <3>3. CASE op[d].kind # "archive"
      <4>1. \A y \in Deployables \cap Active : Holds(d, y)
        BY <1>1, <3>3 DEF Locked
      <4>2. \A y \in Deployables : y \in Active' => y \in Active
        BY <2>1, Names DEF Active
      <4>3. \A y \in Deployables : y \in Active' => Holds(d, y)'
        BY <4>1, <4>2, <2>3, Names
      <4> QED  BY <1>1, <3>3, <4>3
    <3> QED  BY <3>2, <3>3
  <2>5. At(d, "visit") => Holds(d, op[d].cur)'
    <3> SUFFICES ASSUME At(d, "visit") PROVE Holds(d, op[d].cur)'
      OBVIOUS
    <3>1. Holds(d, op[d].cur) /\ op[d].cur \in Services
      BY <1>1 DEF Locked, About, Cur
    <3>2. \A k \in ChildrenOf(op[d].cur) : locks'[k] = d
      BY <3>1, <2>2, Names DEF Holds
    <3> QED  BY <1>1, <3>1, <3>2, <2>2 DEF Holds
  <2>6. \A y \in op[d].todo : Holds(d, y)'
    BY <1>1, <2>3, Names, FieldsOf DEF Locked
  <2>7. \A k \in op[d].kids : locks'[k] = d
    BY <1>1, <2>2, Names, FieldsOf DEF Locked
  <2>8. op[d].pc \in PutsAside => locks'[op[d].cur] = d
    BY <1>1, <2>2, Names DEF Locked, About, Cur
  <2> QED  BY <1>1, <2>4, <2>5, <2>6, <2>7, <2>8 DEF Locked, At, Cur, Archiving
<1>4. About(d)'
  <2>1. op[d].pc \notin TakesBack \cup {"port", "unmark"}
    BY <1>1, KindAt
  <2> QED  BY <1>1, <2>1 DEF About, TakesBack, Resumes, Restoring, At, Cur, Resuming
<1> QED  BY <1>2, <1>3, <1>4 DEF Client

LEMMA GoesRight ==
  ASSUME ArchiveAssumption, IInv, NEW c \in Clients, Goes(c)
  PROVE  IInv'
<1> USE DEF Goes
<1>0. \A d \in Clients \ {c} : ~Restoring(d)
  BY DEF Turn, IInv, Alone, Restoring, Restores
<1>1. \A d \in Clients : Client(d)'
  BY <1>0, OtherClients
<1>2. Alone'
  BY <1>0 DEF IInv, Frame, Turn, Alone, Restoring, Restores
<1>3. Resources'
  <2> SUFFICES ASSUME faults' <= 1, crashes' = 0, NEW x \in Stateful \ torn'
               PROVE  Resource(x)'
    BY DEF Resources
  <2>1. faults \in Nat /\ faults' \in Nat
    BY DEF IInv, TypeOK
  <2>2. Resource(x)
    BY <2>1 DEF IInv, Resources, Frame
  <2>3. \A d \in Clients \ {c} : op'[d] = op[d]
    BY DEF Frame
  <2>4. CASE Untouched(c, x)
    <3>1. \A d \in Clients : WorksOn(d, x)' <=> WorksOn(d, x)
      BY <2>3, <2>4 DEF Untouched, WorksOn, Cur
    <3>2. Settled(x)' <=> Settled(x)
      BY <2>4 DEF Untouched, Settled
    <3>3. ASSUME NEW d \in Clients, Cur(d)' = x
          PROVE /\ (op'[d].pc \in PutsAside => Leaving(d, x)')
                /\ (op'[d].pc \in TakesBack => Coming(d, x)')
      <4>1. CASE d = c
        BY <3>3, <4>1, <2>4 DEF Untouched, WorksOn, Cur
      <4>2. CASE d # c
        <5>1. op'[d] = op[d] /\ Cur(d) = x
          BY <4>2, <3>3, <2>3 DEF Cur
        <5>2. /\ op[d].pc \in PutsAside => Leaving(d, x)
              /\ op[d].pc \in TakesBack => Coming(d, x)
          BY <2>2, <5>1 DEF Resource
        <5>3. Leaving(d, x) => Leaving(d, x)'
          BY <5>1, <2>4, <2>1 DEF Leaving, Untouched, Frame, At, Recorded
        <5>4. Coming(d, x) => Coming(d, x)'
          BY <5>1, <2>4, <2>1 DEF Coming, Untouched, Frame, At, Retained, Serving
        <5> QED  BY <5>1, <5>2, <5>3, <5>4
      <4> QED  BY <4>1, <4>2
    <3> QED  BY <2>2, <3>1, <3>2, <3>3 DEF Resource
  <2>5. CASE Handled(c, x)
    <3>1. \A d \in Clients \ {c} : ~WorksOn(d, x)
      BY <2>5, Sole DEF Handled
    <3>2. \A d \in Clients \ {c} : ~WorksOn(d, x)'
      BY <3>1, <2>3 DEF WorksOn, Cur
    <3>3. Alright(c, x)
      BY <2>2, <3>1 DEF Resource, Alright, WorksOn
    <3>4. Alright(c, x)'
      BY <3>3, <2>5 DEF Handled
    <3>5. \A d \in Clients : Cur(d)' = x =>
            /\ op'[d].pc \in PutsAside => Leaving(d, x)'
            /\ op'[d].pc \in TakesBack => Coming(d, x)'
      BY <3>2, <3>4 DEF WorksOn, Alright
    <3>6. (\A d \in Clients : ~WorksOn(d, x)') => Settled(x)'
      BY <3>4 DEF Alright
    <3> QED  BY <3>5, <3>6 DEF Resource
  <2> QED  BY <2>4, <2>5
<1>4. Removed'
  <2> SUFFICES ASSUME faults' = 0, crashes' = 0, NEW x \in Leaves, mark'[x] # 0
               PROVE  ctr'[x] = Gone \/ \E d \in Clients : Removing(d, x)'
    BY DEF Removed
  <2>1. faults = 0 /\ crashes = 0
    BY DEF Frame, IInv, TypeOK
  <2>2. Cleared(c, x)
    OBVIOUS
  <2>3. CASE mark[x] # 0 /\ ctr'[x] = ctr[x] /\ ~Removing(c, x)
    <3>1. ctr[x] = Gone \/ \E d \in Clients : Removing(d, x)
      BY <2>1, <2>3 DEF IInv, Removed
    <3>2. \A d \in Clients : Removing(d, x) => Removing(d, x)'
      BY <2>3 DEF Frame, Removing, Cur, At
    <3> QED  BY <2>3, <3>1, <3>2
  <2> QED  BY <2>2, <2>3 DEF Cleared
<1> QED  BY <1>1, <1>2, <1>3, <1>4 DEF IInv

-----------------------------------------------------------------------------
(* Steps that only go on, or that end the operation.                       *)
LEMMA GoIs ==
  ASSUME TypeOK, NEW c \in Clients, NEW o \in Operations, Go(c, o)
  PROVE  /\ op' \in [Clients -> Operations] /\ op'[c] = o
         /\ \A d \in Clients \ {c} : op'[d] = op[d]
BY DEF Go, TypeOK

LEMMA Plain ==
  ASSUME ArchiveAssumption, IInv, NEW c \in Clients, Still,
         op' \in [Clients -> Operations],
         \A d \in Clients \ {c} : op'[d] = op[d],
         op[c].kind # "none", op'[c].kind = op[c].kind, Client(c)',
         \A x \in Stateful : ~WorksOn(c, x) /\ ~WorksOn(c, x)',
         \A x \in Leaves : Removing(c, x) => Removing(c, x)'
  PROVE  Goes(c)
<1> USE DEF Still, rows, bounds, history
<1>1. TypeOK'
  BY DEF IInv, TypeOK
<1>2. Frame(c)
  BY DEF Frame, IInv, TypeOK
<1>3. Rows'
  BY DEF IInv, Rows
<1>4. \A x \in Stateful : Untouched(c, x)
  BY DEF Untouched
<1>5. \A x \in Leaves : Cleared(c, x)
  BY DEF Cleared
<1> QED  BY <1>1, <1>2, <1>3, <1>4, <1>5 DEF Goes, Turn

LEMMA LeaveIs ==
  ASSUME ArchiveAssumption, TypeOK, NEW c \in Clients, Leave(c)
  PROVE  /\ op' \in [Clients -> Operations] /\ op'[c] = Idle
         /\ locks' \in [Services -> Clients \cup {None}]
         /\ \A d \in Clients \ {c} : op'[d] = op[d]
         /\ \A d \in Clients \ {c}, x \in Services : locks[x] = d => locks'[x] = d
         /\ Client(c)'
         /\ \A x : ~WorksOn(c, x)' /\ ~Removing(c, x)'
<1>1. op' = [op EXCEPT ![c] = Idle]
      /\ locks' = [x \in Services |-> IF locks[x] = c THEN None ELSE locks[x]]
  BY DEF Leave
<1>2. op' \in [Clients -> Operations] /\ op'[c] = Idle
  BY <1>1, IdleIsOperation DEF TypeOK
<1>3. Idle.kind = "none" /\ Idle.pc = "idle"
  BY DEF Idle
<1>4. Client(c)'
  BY <1>2, <1>3 DEF Client, Paths, Locked, About, Archiving, Restoring, Archives, Restores,
        At, PutsAside, TakesBack, Resumes, Common
<1>5. \A x : ~WorksOn(c, x)' /\ ~Removing(c, x)'
  BY <1>2, <1>3 DEF WorksOn, Removing, At, PutsAside, TakesBack, Resumes
<1> QED  BY <1>1, <1>2, <1>4, <1>5 DEF TypeOK

LEMMA Quits ==
  ASSUME ArchiveAssumption, IInv, NEW c \in Clients, Leave(c), op[c].kind # "none",
         UNCHANGED <<rows, ctr, ops, crashes, why, torn>>,
         last' \in Archived, faults' \in 0..MaxFaults, faults' >= faults,
         faults' <= 1 => \A x \in Stateful \ torn : ~WorksOn(c, x) \/ Handled(c, x),
         faults' = 0 => \A x \in Leaves : ~Removing(c, x)
  PROVE  Goes(c)
<1> USE DEF rows
<1>1. TypeOK
  BY DEF IInv
<1>2. TypeOK'
  BY <1>1, LeaveIs DEF TypeOK
<1>3. op'[c].kind = "none"
  BY <1>1, LeaveIs DEF Idle
<1>4. Frame(c)
  BY <1>1, <1>3, LeaveIs DEF Frame
<1>5. Rows'
  BY DEF IInv, Rows
<1>6. faults' <= 1 => \A x \in Stateful \ torn' : Untouched(c, x) \/ Handled(c, x)
  BY <1>1, LeaveIs DEF Untouched
<1>7. faults' = 0 => \A x \in Leaves : Cleared(c, x)
  BY <1>1, LeaveIs DEF Cleared
<1> QED  BY <1>1, <1>2, <1>4, <1>5, <1>6, <1>7, <1>3, LeaveIs DEF Goes, Turn

LEMMA Thrown ==
  ASSUME ArchiveAssumption, IInv, NEW c \in Clients, Throw(c), op[c].kind # "none",
         faults > 0 \/ \A x \in Stateful : ~WorksOn(c, x)
  PROVE  Goes(c)
<1>1. /\ faults' = faults + 1 /\ faults < MaxFaults /\ Leave(c)
      /\ UNCHANGED <<rows, ctr, ops, crashes, why, torn, last>>
  BY DEF Throw, Faulty, history
<1>2. faults \in Nat /\ last \in Archived /\ MaxFaults \in Nat /\ faults \in 0..MaxFaults
  BY DEF IInv, TypeOK, ArchiveAssumption
<1>3. faults' \in 0..MaxFaults /\ faults' >= faults /\ faults' # 0
  BY <1>1, <1>2
<1>4. faults' <= 1 => \A x \in Stateful \ torn : ~WorksOn(c, x)
  BY <1>1, <1>2
<1> QED  BY <1>1, <1>2, <1>3, <1>4, Quits

-----------------------------------------------------------------------------
(* The steps before and after the services, and between them.              *)
LEMMA BegunIs ==
  ASSUME NEW i \in Operations, NEW k \in Archives \cup Restores, NEW x \in Services,
         NEW n \in Times, NEW b \in SUBSET Services,
         NEW w \in {None} \cup SUBSET Services, NEW s \in Steps
  PROVE  [i EXCEPT !.kind = k, !.target = x, !.id = n, !.alone = Quiet, !.before = b,
            !.owed = w, !.pc = s] \in Operations
<1> DEFINE r1 == [i EXCEPT !.kind = k]
           r2 == [r1 EXCEPT !.target = x]
           r3 == [r2 EXCEPT !.id = n]
           r4 == [r3 EXCEPT !.alone = Quiet]
           r5 == [r4 EXCEPT !.before = b]
           r6 == [r5 EXCEPT !.owed = w]
           r7 == [r6 EXCEPT !.pc = s]
<1>1. r1 \in Operations
  BY DEF Operations
<1> HIDE DEF r1
<1>2. r2 \in Operations
  BY <1>1 DEF Operations
<1> HIDE DEF r2
<1>3. r3 \in Operations
  BY <1>2 DEF Operations
<1> HIDE DEF r3
<1>0. Quiet \in BOOLEAN
  BY DEF Quiet
<1>4. r4 \in Operations
  BY <1>3, <1>0 DEF Operations
<1> HIDE DEF r4
<1>5. r5 \in Operations
  BY <1>4 DEF Operations
<1> HIDE DEF r5
<1>6. r6 \in Operations
  BY <1>5 DEF Operations
<1> HIDE DEF r6
<1>7. r7 \in Operations
  BY <1>6 DEF Operations
<1> QED  BY <1>7 DEF r1, r2, r3, r4, r5, r6, r7

LEMMA BeginGoes ==
  ASSUME ~Overlap, ArchiveAssumption, IInv, NEW c \in Clients, NEW kind \in Archives \cup Restores,
         NEW x \in Services, Begin(c, kind, x)
  PROVE  Goes(c)
<1> DEFINE o == [Idle EXCEPT !.kind = kind, !.target = x, !.id = ops + 1,
                   !.alone = Quiet, !.before = Active, !.owed = Owed(kind, x),
                   !.pc = IF kind \in Archives THEN "lock" ELSE "list"]
<1>1. /\ TypeOK /\ op[c].pc = "idle" /\ ops < MaxOps /\ ops' = ops + 1
      /\ op' = [op EXCEPT ![c] = o] /\ last' = None
      /\ UNCHANGED <<row, mark, rec, ctr, locks, faults, crashes, why, torn>>
  BY DEF Begin, At, IInv, rows
<1>2. ops \in Nat /\ ops + 1 \in Times /\ ops + 1 # 0
  BY <1>1 DEF TypeOK, Times, ArchiveAssumption
<1>3. Owed(kind, x) \in {None} \cup SUBSET Services
  <2>1. CASE last = None
    BY <2>1 DEF Owed
  <2>2. CASE last # None
    <3>1. last.before \in SUBSET Services
      BY <1>1, <2>2 DEF TypeOK, Archived
    <3> QED  BY <3>1 DEF Owed
  <2> QED  BY <2>1, <2>2
<1>4. Active \in SUBSET Services /\ Quiet \in BOOLEAN
  BY DEF Active, Quiet
<1>5. /\ o.kind = kind /\ o.target = x /\ o.id = ops + 1 /\ o.pc \in {"lock", "list"}
      /\ o.pc = "lock" <=> kind \in Archives
      /\ o.todo = {} /\ o.kids = {} /\ o.done = {}
  BY DEF Idle, Archives, Restores
<1>6. o \in Operations
  <2>1. Idle \in Operations
    BY IdleIsOperation
  <2>2. (IF kind \in Archives THEN "lock" ELSE "list") \in Steps
    BY DEF Steps
  <2> QED  BY <2>1, <2>2, <1>2, <1>3, <1>4, BegunIs
<1>7. op' \in [Clients -> Operations] /\ op'[c] = o
  BY <1>1, <1>6 DEF TypeOK
<1> HIDE DEF o
<1>8. TypeOK'
  BY <1>1, <1>2, <1>7 DEF TypeOK, Archived
<1>9. Client(c)'
  BY <1>5, <1>7, <1>2 DEF Client, Paths, Locked, About, Archiving, Restoring, Archives, Restores,
        At, PutsAside, TakesBack, Resumes, Common, ArchiveSteps, RestoreSteps, Resuming
<1>10. Frame(c)
  BY <1>1, <1>7 DEF Frame, TypeOK
<1>11. Turn(c)
  <2>1. op[c].kind = "none"
    BY <1>1, KindAt DEF IInv, Client
  <2>2. \A d \in Clients \ {c} : ~Restoring(d)
    BY DEF Begin, Admitted, Quiet, IInv, Client, Paths, Restoring, Archives, Restores,
         RestoreSteps, Common, TakesBack, Resumes
  <2>3. kind \in Restores => \A d \in Clients \ {c} : op[d].kind = "none"
    BY KindAt DEF Begin, Admitted, Quiet, IInv, Client
  <2>4. op'[c].kind = kind /\ \A d \in Clients \ {c} : op'[d] = op[d]
    BY <1>1, <1>5, <1>7, GoIs DEF Frame, TypeOK
  <2>5. Alone'
    BY <2>2, <2>3, <2>4 DEF Alone, Restoring
  <2> QED  BY <2>2, <2>5 DEF Turn
<1>12. Rows'
  BY <1>1 DEF IInv, Rows
<1>13. \A y \in Stateful : Untouched(c, y)
  BY <1>1, <1>5, <1>7 DEF Untouched, WorksOn, PutsAside, TakesBack, Resumes
<1>14. \A y \in Leaves : Cleared(c, y)
  BY <1>1 DEF Cleared, Removing, At
<1> QED  BY <1>8, <1>9, <1>10, <1>11, <1>12, <1>13, <1>14 DEF Goes

LEMMA AcquireLocksGoes ==
  ASSUME ArchiveAssumption, IInv, NEW c \in Clients, AcquireLocks(c)
  PROVE  Goes(c)
<1>1. TypeOK /\ Client(c) /\ op[c].pc = "lock" /\ Archiving(c)
      /\ UNCHANGED <<row, mark, rec, ctr, ops, faults, crashes, why, last, torn>>
  BY KindAt DEF IInv, Client, AcquireLocks, At, rows, bounds, history
<1>2. op[c].kind # "none"
  BY <1>1 DEF Archiving, Archives
<1>3. \A x : ~WorksOn(c, x) /\ ~Removing(c, x)
  BY <1>1 DEF WorksOn, Removing, PutsAside, TakesBack, Resumes, At
<1>4. CASE Leave(c)
  <2>1. faults \in 0..MaxFaults /\ last \in Archived
    BY <1>1 DEF TypeOK
  <2> QED  BY <1>1, <1>2, <1>3, <1>4, <2>1, Quits DEF rows, TypeOK
<1>5. CASE /\ \A x \in LockSet(c) : locks[x] = None
           /\ locks' = [x \in Services |-> IF x \in LockSet(c) THEN c ELSE locks[x]]
           /\ Goto(c, "list")
  <2>1. /\ op' \in [Clients -> Operations]
        /\ \A d \in Clients \ {c} : op'[d] = op[d]
        /\ op'[c].pc = "list" /\ op'[c].kind = op[c].kind
        /\ op'[c].target = op[c].target /\ op'[c].id = op[c].id
        /\ op'[c].todo = op[c].todo /\ op'[c].kids = op[c].kids
        /\ op'[c].cur = op[c].cur
    BY <1>1, <1>5, GotoIs, StepNames
  <2>2. /\ locks' \in [Services -> Clients \cup {None}]
        /\ \A x \in Services : locks[x] = c \/ x \in LockSet(c) => locks'[x] = c
        /\ \A d \in Clients \ {c}, x \in Services : locks[x] = d => locks'[x] = d
    BY <1>1, <1>5, Names DEF TypeOK
  <2>3. TypeOK'
    BY <1>1, <2>1, <2>2 DEF TypeOK
  <2>4. Frame(c)
    BY <1>1, <2>1, <2>2 DEF Frame, TypeOK
  <2>5. Paths(c)'
    BY <1>1, <2>1 DEF Client, Paths, Archiving, Restoring, Archives, Restores,
          ArchiveSteps, Common
  <2>6. Locked(c)'
    <3>1. IF op[c].kind = "archive" THEN Holds(c, op[c].target)'
          ELSE \A d \in Deployables \cap Active : Holds(c, d)'
      <4>1. CASE op[c].kind = "archive"
        <5>1. op[c].target \in Services
          BY <1>1, <1>2 DEF Client, Paths
        <5>2. LockSet(c) = {op[c].target} \cup ChildrenOf(op[c].target)
          BY <4>1 DEF LockSet
        <5> QED  BY <4>1, <5>1, <5>2, <2>2, <2>1, Names DEF Holds
      <4>2. CASE op[c].kind # "archive"
        <5>1. \A d \in Deployables \cap Active :
                d \in LockSet(c) /\ ChildrenOf(d) \subseteq LockSet(c)
          BY <4>2 DEF LockSet
        <5> QED  BY <4>2, <5>1, <2>2, Names DEF Holds
      <4> QED  BY <4>1, <4>2
    <3>2. Active' = Active
      BY <1>1 DEF Active
    <3>3. \A d \in op[c].todo : Holds(c, d)'
      BY <1>1, <2>2, Names, FieldsOf DEF Client, Locked, Holds
    <3>4. \A k \in op[c].kids : locks'[k] = c
      BY <1>1, <2>2, Names, FieldsOf DEF Client, Locked
    <3> QED  BY <2>1, <3>1, <3>2, <3>3, <3>4 DEF Locked, At, PutsAside
  <2>7. About(c)'
    BY <1>1, <2>1 DEF About, At, PutsAside, TakesBack, Resumes, Common, Restoring,
          Archiving, Restores, Archives
  <2>8. Rows'
    BY <1>1 DEF IInv, Rows
  <2>9. \A x : ~WorksOn(c, x)'
    BY <2>1 DEF WorksOn, PutsAside, TakesBack, Resumes
  <2>10. \A x \in Stateful : Untouched(c, x)
    BY <1>1, <1>3, <2>9 DEF Untouched
  <2>11. \A x \in Leaves : Cleared(c, x)
    BY <1>1, <1>3 DEF Cleared
  <2> QED  BY <1>2, <2>1, <2>3, <2>4, <2>5, <2>6, <2>7, <2>8, <2>10, <2>11
             DEF Goes, Client, Turn
<1> QED  BY <1>4, <1>5 DEF AcquireLocks

(* The steps that work on no resource and visit none.                      *)
LEMMA CalmClient ==
  ASSUME NEW c \in Clients, Paths(c), op[c].kind # "none",
         op'[c].kind = op[c].kind, op'[c].target = op[c].target, op'[c].id = op[c].id,
         op'[c].pc \in {"next", "end", "return"}
                       \cup (IF Archiving(c) THEN {"row", "clear", "unset", "remove", "mark"}
                             ELSE {"port", "unmark"}),
         Archiving(c) => /\ \A d \in op'[c].todo : Holds(c, d)'
                         /\ \A k \in op'[c].kids : locks'[k] = c,
         op'[c].pc \in {"row", "remove"} => op'[c].cur \in Services \ Stateful,
         op'[c].pc \in {"clear", "unset"} /\ ~op'[c].shared => op'[c].cur = Primary,
         Restoring(c) => "found" \notin op'[c].done
  PROVE  Client(c)' /\ \A x : ~WorksOn(c, x)'
<1>1. op'[c].pc \notin PutsAside \cup TakesBack \cup {"lock", "list", "visit", "idle"}
  BY DEF PutsAside, TakesBack, Resumes
<1>2. op'[c].pc \notin Resumes \cup {"record", "release", "clearRow", "clearMark"}
  BY DEF Resumes
<1>3. Archiving(c)' <=> Archiving(c)
  BY DEF Archiving
<1>4. Restoring(c)' <=> Restoring(c)
  BY DEF Restoring
<1>5. Archiving(c) => ~Restoring(c)
  BY DEF Archiving, Restoring, Archives, Restores
<1>6. Paths(c)'
  <2>1. Archiving(c) => op'[c].pc \in ArchiveSteps
    BY DEF ArchiveSteps, Common
  <2>2. Restoring(c) => op'[c].pc \in RestoreSteps
    BY <1>5 DEF RestoreSteps, Common
  <2> QED  BY <2>1, <2>2, <1>3, <1>4 DEF Paths, Archiving
<1>7. Locked(c)'
  BY <1>1, <1>3 DEF Locked, At
<1>8. About(c)'
  BY <1>1, <1>2, <1>4 DEF About, At, Cur, Resuming
<1>9. \A x : ~WorksOn(c, x)'
  BY <1>1 DEF WorksOn
<1> QED  BY <1>6, <1>7, <1>8, <1>9 DEF Client

LEMMA ListServicesGoes ==
  ASSUME ArchiveAssumption, IInv, NEW c \in Clients, ListServices(c)
  PROVE  Goes(c)
<1>1. TypeOK /\ Client(c) /\ op[c].pc = "list" /\ Still /\ op[c] \in Operations
  BY DEF IInv, ListServices, At, TypeOK
<1>2. /\ op[c].kind \in Archives \cup Restores /\ op[c].kind # "none"
      /\ op[c].target \in Services
  BY <1>1, KindAt DEF Client, Paths, Common, Archiving, Restoring, Archives, Restores
<1>3. \A x : ~WorksOn(c, x) /\ ~Removing(c, x)
  BY <1>1 DEF WorksOn, Removing, PutsAside, TakesBack, Resumes, At
<1>4. UNCHANGED <<row, mark, locks>>
  BY <1>1 DEF Still, rows
<1>5. /\ Archiving(c) => /\ \A d \in op[c].todo : Holds(c, d)
                         /\ \A k \in op[c].kids : locks[k] = c
      /\ Restoring(c) => ~Resuming(c)
  BY <1>1 DEF Client, Locked, About, Common
<1> DEFINE t == op[c].target
           marker == IF row[t] # 0 THEN row[t] ELSE mark[t]
<1>6. marker \in Times /\ row[Primary] \in Times
  BY <1>1, <1>2, Names DEF TypeOK
<1> HIDE DEF marker
<1>7. ASSUME Goto(c, "return") PROVE Goes(c)
  <2>1. /\ op' \in [Clients -> Operations]
        /\ \A d \in Clients \ {c} : op'[d] = op[d]
        /\ op'[c].pc = "return" /\ op'[c].kind = op[c].kind
        /\ op'[c].target = op[c].target /\ op'[c].id = op[c].id
        /\ op'[c].todo = op[c].todo /\ op'[c].kids = op[c].kids
        /\ op'[c].done = op[c].done
    BY <1>1, <1>7, GotoIs, StepNames
  <2>2. Client(c)' /\ \A y : ~WorksOn(c, y)'
    <3>1. Archiving(c) => /\ \A d \in op'[c].todo : Holds(c, d)'
                          /\ \A k \in op'[c].kids : locks'[k] = c
      BY <1>4, <1>5, <2>1 DEF Holds
    <3> QED  BY <1>1, <1>2, <1>5, <2>1, <3>1, CalmClient DEF Client, Resuming
  <2> QED  BY <1>1, <1>2, <1>3, <2>1, <2>2, Plain
<1>8. CASE op[c].kind = "archive"
  <2> DEFINE o == [op[c] EXCEPT !.cur = t, !.pc = "visit", !.shared = ChildrenOf(t) # {}]
  <2>1. o \in Operations
    <3> DEFINE r1 == [op[c] EXCEPT !.cur = t]
               r2 == [r1 EXCEPT !.pc = "visit"]
               b == ChildrenOf(t) # {}
               r3 == [r2 EXCEPT !.shared = b]
    <3>1. "visit" \in Steps /\ t \in Services \cup {None} /\ op[c] \in Operations
      BY <1>1, <1>2 DEF Steps
    <3>2. r1 \in Operations
      BY <3>1 DEF Operations
    <3> HIDE DEF r1
    <3>3. r2 \in Operations
      BY <3>1, <3>2 DEF Operations
    <3> HIDE DEF r2
    <3>4. b \in BOOLEAN
      OBVIOUS
    <3> HIDE DEF b
    <3>5. r3 \in Operations
      BY <3>3, <3>4 DEF Operations
    <3> QED  BY <3>5 DEF r1, r2, b
  <2>2. /\ o.kind = op[c].kind /\ o.target = t /\ o.id = op[c].id /\ o.cur = t
        /\ o.pc = "visit" /\ o.todo = op[c].todo /\ o.kids = op[c].kids
    BY <1>1 DEF Operations
  <2>3. Go(c, o)
    BY <1>8 DEF ListServices
  <2> HIDE DEF o
  <2>4. op' \in [Clients -> Operations] /\ op'[c] = o
        /\ \A d \in Clients \ {c} : op'[d] = op[d]
    BY <1>1, <2>1, <2>3, GoIs
  <2>5. Paths(c)'
    BY <1>1, <1>2, <1>8, <2>2, <2>4 DEF Client, Paths, Archiving, Restoring, Archives,
          Restores, ArchiveSteps, Common
  <2>6. Locked(c)'
    <3>1. Holds(c, t)
      BY <1>1, <1>8 DEF Client, Locked, Archiving, Archives, At
    <3>2. Archiving(c)
      BY <1>8 DEF Archiving, Archives
    <3> QED  BY <1>4, <1>5, <2>2, <2>4, <3>1, <3>2 DEF Locked, Holds, At, Cur, PutsAside
  <2>7. About(c)'
    BY <1>2, <1>8, <2>2, <2>4 DEF About, At, Cur, PutsAside, TakesBack, Resumes, Common,
          Restoring, Restores
  <2>8. \A y : ~WorksOn(c, y)'
    BY <2>2, <2>4 DEF WorksOn, PutsAside, TakesBack, Resumes
  <2> QED  BY <1>1, <1>2, <1>3, <2>2, <2>4, <2>5, <2>6, <2>7, <2>8, Plain DEF Client
<1>9. CASE op[c].kind = "archiveGroup" /\ Deployables \cap Active # {}
  <2> DEFINE o == [op[c] EXCEPT !.todo = Deployables \cap Active, !.pc = "next",
                                !.shared = TRUE]
  <2>1. o \in Operations
    BY <1>1, <1>2 DEF Operations, Steps
  <2>2. /\ o.kind = op[c].kind /\ o.target = t /\ o.id = op[c].id
        /\ o.pc = "next" /\ o.todo = Deployables \cap Active /\ o.kids = op[c].kids
    BY <1>1 DEF Operations
  <2>3. Go(c, o)
    BY <1>9 DEF ListServices
  <2> HIDE DEF o
  <2>4. op' \in [Clients -> Operations] /\ op'[c] = o
        /\ \A d \in Clients \ {c} : op'[d] = op[d]
    BY <1>1, <2>1, <2>3, GoIs
  <2>5. Archiving(c) /\ ~Restoring(c)
    BY <1>9 DEF Archiving, Restoring, Archives, Restores
  <2>6. \A d \in Deployables \cap Active : Holds(c, d)
    BY <1>1, <1>9, <2>5 DEF Client, Locked, At
  <2>7. /\ \A d \in op'[c].todo : Holds(c, d)'
        /\ \A k \in op'[c].kids : locks'[k] = c
    BY <1>4, <1>5, <2>2, <2>4, <2>5, <2>6 DEF Holds
  <2>8. Client(c)' /\ \A y : ~WorksOn(c, y)'
    BY <1>1, <1>2, <2>2, <2>4, <2>5, <2>7, CalmClient DEF Client
  <2> QED  BY <1>1, <1>2, <1>3, <2>2, <2>4, <2>8, Plain
<1>10. CASE op[c].kind = "unarchive"
  <2> DEFINE o == [op[c] EXCEPT !.cur = t, !.pc = "visit", !.marker = marker]
  <2>1. o \in Operations
    BY <1>1, <1>2, <1>6 DEF Operations, Steps
  <2>2. /\ o.kind = op[c].kind /\ o.target = t /\ o.cur = t
        /\ o.pc = "visit" /\ o.done = op[c].done
    BY <1>1 DEF Operations
  <2>3. Go(c, o)
    BY <1>10 DEF ListServices, marker
  <2> HIDE DEF o
  <2>4. op' \in [Clients -> Operations] /\ op'[c] = o
        /\ \A d \in Clients \ {c} : op'[d] = op[d]
    BY <1>1, <2>1, <2>3, GoIs
  <2>5. Restoring(c) /\ ~Archiving(c)
    BY <1>10 DEF Archiving, Restoring, Archives, Restores
  <2>6. Paths(c)' /\ Locked(c)'
    BY <1>2, <1>10, <2>2, <2>4 DEF Paths, Locked, Archiving, Restoring, Archives,
          Restores, RestoreSteps, Common
  <2>7. About(c)'
    BY <1>2, <1>5, <2>2, <2>4, <2>5 DEF About, At, Cur, PutsAside, TakesBack, Resumes, Resuming
  <2>8. \A y : ~WorksOn(c, y)'
    BY <2>2, <2>4 DEF WorksOn, PutsAside, TakesBack, Resumes
  <2> QED  BY <1>1, <1>2, <1>3, <2>2, <2>4, <2>6, <2>7, <2>8, Plain DEF Client
<1>11. CASE op[c].kind = "unarchiveGroup" /\ row[Primary] # 0
  <2> DEFINE o == [op[c] EXCEPT !.todo = {d \in Deployables : mark[d] = row[Primary]},
                                !.pc = "next", !.marker = row[Primary]]
  <2>1. o \in Operations
    BY <1>1, <1>2, <1>6 DEF Operations, Steps
  <2>2. /\ o.kind = op[c].kind /\ o.target = t /\ o.id = op[c].id
        /\ o.pc = "next" /\ o.done = op[c].done
    BY <1>1 DEF Operations
  <2>3. Go(c, o)
    BY <1>11 DEF ListServices
  <2> HIDE DEF o
  <2>4. op' \in [Clients -> Operations] /\ op'[c] = o
        /\ \A d \in Clients \ {c} : op'[d] = op[d]
    BY <1>1, <2>1, <2>3, GoIs
  <2>5. Restoring(c) /\ ~Archiving(c)
    BY <1>11 DEF Archiving, Restoring, Archives, Restores
  <2>6. Client(c)' /\ \A y : ~WorksOn(c, y)'
    BY <1>1, <1>2, <1>5, <2>2, <2>4, <2>5, CalmClient DEF Client, Resuming
  <2> QED  BY <1>1, <1>2, <1>3, <2>2, <2>4, <2>6, Plain
<1>12. CASE \/ op[c].kind = "archiveGroup" /\ Deployables \cap Active = {}
            \/ op[c].kind = "unarchiveGroup" /\ row[Primary] = 0
  BY <1>7, <1>12 DEF ListServices
<1> QED  BY <1>2, <1>8, <1>9, <1>10, <1>11, <1>12 DEF Archives, Restores

(* A step to another without a service at work, nothing else changed.      *)
LEMMA CalmGoto ==
  ASSUME ArchiveAssumption, IInv, NEW c \in Clients,
         NEW s \in {"next", "end", "return"}
                     \cup (IF Archiving(c) THEN {"row", "clear", "unset", "remove", "mark"}
                           ELSE {"port", "unmark"}),
         Goto(c, s), op[c].kind # "none",
         \A x \in Services : locks'[x] = locks[x],
         s \in {"row", "remove"} => op[c].cur \in Services \ Stateful,
         s \in {"clear", "unset"} /\ ~op[c].shared => op[c].cur = Primary,
         Restoring(c) => "found" \notin op[c].done
  PROVE  /\ Client(c)' /\ \A x : ~WorksOn(c, x)'
         /\ op' \in [Clients -> Operations]
         /\ \A d \in Clients \ {c} : op'[d] = op[d]
         /\ op'[c].pc = s /\ op'[c].kind = op[c].kind /\ op'[c].cur = op[c].cur
         /\ op'[c].shared = op[c].shared
<1>1. TypeOK /\ Client(c) /\ s \in Steps
  BY DEF IInv, Steps
<1>2. /\ op' \in [Clients -> Operations]
      /\ \A d \in Clients \ {c} : op'[d] = op[d]
      /\ op'[c].pc = s /\ op'[c].kind = op[c].kind /\ op'[c].cur = op[c].cur
      /\ op'[c].target = op[c].target /\ op'[c].id = op[c].id
      /\ op'[c].todo = op[c].todo /\ op'[c].kids = op[c].kids
      /\ op'[c].done = op[c].done /\ op'[c].shared = op[c].shared
  BY <1>1, GotoIs
<1>3. Archiving(c) => /\ \A d \in op'[c].todo : Holds(c, d)'
                      /\ \A k \in op'[c].kids : locks'[k] = c
  BY <1>1, <1>2, FieldsOf, Names DEF Client, Locked, Holds
<1>4. Client(c)' /\ \A x : ~WorksOn(c, x)'
  BY <1>1, <1>2, <1>3, CalmClient DEF Client
<1> QED  BY <1>2, <1>4

LEMMA NextServiceGoes ==
  ASSUME ArchiveAssumption, IInv, NEW c \in Clients, NextService(c)
  PROVE  Goes(c)
<1>1. TypeOK /\ Client(c) /\ op[c].pc = "next" /\ Still /\ op[c] \in Operations
  BY DEF IInv, NextService, At, TypeOK
<1>2. /\ op[c].kind \in Archives \cup Restores /\ op[c].kind # "none"
      /\ Archiving(c) \/ Restoring(c)
      /\ ~(Archiving(c) /\ Restoring(c))
      /\ op[c].target \in Services
  BY <1>1, KindAt DEF Client, Paths, Common, Archiving, Restoring, Archives, Restores
<1>3. \A x : ~WorksOn(c, x) /\ ~Removing(c, x)
  BY <1>1 DEF WorksOn, Removing, PutsAside, TakesBack, Resumes, At
<1>4. UNCHANGED locks
  BY <1>1 DEF Still
<1>5. /\ Archiving(c) => /\ \A d \in op[c].todo : Holds(c, d)
                         /\ \A k \in op[c].kids : locks[k] = c
      /\ Restoring(c) => "found" \notin op[c].done
  BY <1>1 DEF Client, Locked, About, Common, Resuming
<1>6. ASSUME NEW o \in Operations, Go(c, o), o.pc = "visit", o.cur \in Services,
             Archiving(c) => Holds(c, o.cur),
             o.kind = op[c].kind, o.target = op[c].target, o.id = op[c].id,
             o.done = op[c].done, o.todo \subseteq op[c].todo, o.kids \subseteq op[c].kids
      PROVE  Goes(c)
  <2>1. op' \in [Clients -> Operations] /\ op'[c] = o
        /\ \A d \in Clients \ {c} : op'[d] = op[d]
    BY <1>1, <1>6, GoIs
  <2>2. Paths(c)'
    BY <1>1, <1>2, <1>6, <2>1 DEF Client, Paths, Archiving, Restoring, ArchiveSteps,
          RestoreSteps, Common
  <2>3. Locked(c)'
    BY <1>4, <1>5, <1>6, <2>1 DEF Locked, Holds, At, Cur, PutsAside, Archiving
  <2>4. About(c)'
    BY <1>5, <1>6, <2>1 DEF About, At, Cur, PutsAside, TakesBack, Resumes, Resuming, Restoring
  <2>5. \A y : ~WorksOn(c, y)'
    BY <1>6, <2>1 DEF WorksOn, PutsAside, TakesBack, Resumes
  <2> QED  BY <1>1, <1>2, <1>3, <1>6, <2>1, <2>2, <2>3, <2>4, <2>5, Plain DEF Client
<1>7. ASSUME NEW k \in op[c].kids,
             Go(c, [op[c] EXCEPT !.cur = k, !.kids = @ \ {k}, !.pc = "visit"])
      PROVE  Goes(c)
  <2> DEFINE o == [op[c] EXCEPT !.cur = k, !.kids = @ \ {k}, !.pc = "visit"]
  <2>1. k \in Kids /\ k \in Services /\ ChildrenOf(k) = {}
    BY <1>1, <1>7, FieldsOf, Names
  <2>2. o \in Operations
    BY <1>1, <2>1 DEF Operations, Steps
  <2>3. /\ o.kind = op[c].kind /\ o.target = op[c].target /\ o.id = op[c].id
        /\ o.pc = "visit" /\ o.cur = k /\ o.done = op[c].done
        /\ o.todo = op[c].todo /\ o.kids = op[c].kids \ {k}
    BY <1>1 DEF Operations
  <2>4. Archiving(c) => Holds(c, k)
    BY <1>5, <1>7, <2>1 DEF Holds
  <2>5. Go(c, o)
    BY <1>7
  <2> HIDE DEF o
  <2> QED  BY <1>6, <2>1, <2>2, <2>3, <2>4, <2>5
<1>8. ASSUME NEW d \in op[c].todo,
             Go(c, [op[c] EXCEPT !.cur = d, !.todo = @ \ {d}, !.pc = "visit"])
      PROVE  Goes(c)
  <2> DEFINE o == [op[c] EXCEPT !.cur = d, !.todo = @ \ {d}, !.pc = "visit"]
  <2>1. d \in Services
    BY <1>1, <1>8, FieldsOf, Names
  <2>2. o \in Operations
    BY <1>1, <2>1 DEF Operations, Steps
  <2>3. /\ o.kind = op[c].kind /\ o.target = op[c].target /\ o.id = op[c].id
        /\ o.pc = "visit" /\ o.cur = d /\ o.done = op[c].done
        /\ o.todo = op[c].todo \ {d} /\ o.kids = op[c].kids
    BY <1>1 DEF Operations
  <2>4. Archiving(c) => Holds(c, d)
    BY <1>5, <1>8
  <2>5. Go(c, o)
    BY <1>8
  <2> HIDE DEF o
  <2> QED  BY <1>6, <2>1, <2>2, <2>3, <2>4, <2>5
<1>9. ASSUME op[c].root # None,
             Go(c, [op[c] EXCEPT !.cur = op[c].root, !.root = None,
                      !.pc = IF op[c].kind \in Archives THEN "row" ELSE "clearRow"])
      PROVE  Goes(c)
  <2> DEFINE o == [op[c] EXCEPT !.cur = op[c].root, !.root = None,
                      !.pc = IF op[c].kind \in Archives THEN "row" ELSE "clearRow"]
  <2>1. op[c].root \in Deployables /\ op[c].root \in Services \ Kids
    BY <1>1, <1>9, FieldsOf, Names
  <2>2. o \in Operations
    <3> DEFINE s == IF op[c].kind \in Archives THEN "row" ELSE "clearRow"
               r1 == [op[c] EXCEPT !.cur = op[c].root]
               r2 == [r1 EXCEPT !.root = None]
               r3 == [r2 EXCEPT !.pc = s]
    <3>1. s \in Steps
      BY DEF Steps
    <3>2. op[c] \in Operations /\ op[c].root \in Services \cup {None}
      BY <1>1, <2>1
    <3>3. r1 \in Operations
      BY <3>2 DEF Operations
    <3> HIDE DEF r1
    <3>4. r2 \in Operations
      BY <3>3 DEF Operations
    <3> HIDE DEF r2, s
    <3>5. r3 \in Operations
      BY <3>1, <3>4 DEF Operations
    <3> QED  BY <3>5 DEF r1, r2, s
  <2>3. /\ o.kind = op[c].kind /\ o.target = op[c].target /\ o.id = op[c].id
        /\ o.cur = op[c].root /\ o.done = op[c].done
        /\ o.todo = op[c].todo /\ o.kids = op[c].kids
        /\ o.pc = IF Archiving(c) THEN "row" ELSE "clearRow"
    BY <1>1 DEF Operations, Archiving
  <2>4. Go(c, o)
    BY <1>9
  <2> HIDE DEF o
  <2>5. op' \in [Clients -> Operations] /\ op'[c] = o
        /\ \A d \in Clients \ {c} : op'[d] = op[d]
    BY <1>1, <2>2, <2>4, GoIs
  <2>6. Client(c)' /\ \A y \in Stateful : ~WorksOn(c, y)'
    <3>1. CASE Archiving(c)
      <4>1. /\ \A d \in op'[c].todo : Holds(c, d)'
            /\ \A k \in op'[c].kids : locks'[k] = c
        BY <1>4, <1>5, <2>3, <2>5, <3>1 DEF Holds
      <4>2. op'[c].cur \in Services \ Stateful /\ ~Restoring(c)
        BY <1>2, <3>1, <2>1, <2>3, <2>5, Names
      <4> QED  BY <1>1, <1>2, <2>3, <2>5, <3>1, <4>1, <4>2, CalmClient DEF Client
    <3>2. CASE ~Archiving(c)
      <4>1. Paths(c)' /\ Locked(c)'
        BY <1>2, <2>3, <2>5, <3>2 DEF Paths, Locked, Archiving, Restoring, RestoreSteps,
              TakesBack
      <4>2. About(c)'
        BY <1>2, <1>5, <2>1, <2>3, <2>5, <3>2, Names DEF About, At, Cur, PutsAside,
              TakesBack, Resumes, Common, Resuming
      <4>3. \A y \in Stateful : ~WorksOn(c, y)'
        BY <2>1, <2>3, <2>5, Names DEF WorksOn, Cur
      <4> QED  BY <4>1, <4>2, <4>3 DEF Client
    <3> QED  BY <3>1, <3>2
  <2> QED  BY <1>1, <1>2, <1>3, <2>3, <2>5, <2>6, Plain
<1>10. ASSUME Goto(c, "end") PROVE Goes(c)
  BY <1>1, <1>2, <1>3, <1>4, <1>5, <1>10, CalmGoto, Plain
<1> QED  BY <1>7, <1>8, <1>9, <1>10 DEF NextService

LEMMA EndGoes ==
  ASSUME ArchiveAssumption, IInv, NEW c \in Clients, End(c)
  PROVE  Goes(c)
<1>1. TypeOK /\ Client(c) /\ op[c].pc = "end" /\ Still /\ UNCHANGED locks
  BY DEF IInv, End, At, Still
<1>2. /\ op[c].kind \in Archives \cup Restores /\ op[c].kind # "none"
  BY <1>1, KindAt DEF Client, Paths, Common, Archiving, Restoring, Archives, Restores
<1>3. \A x : ~WorksOn(c, x) /\ ~Removing(c, x)
  BY <1>1 DEF WorksOn, Removing, PutsAside, TakesBack, Resumes, At
<1>4. Restoring(c) => "found" \notin op[c].done
  BY <1>1 DEF Client, About, Common, Resuming
<1>5. PICK s \in {"return"} \cup (IF Archiving(c) THEN {"mark", "clear"} ELSE {"unmark"}) :
        Goto(c, s) /\ (s = "clear" => op[c].shared)
  <2>1. CASE op[c].kind = "archiveGroup"
    BY <2>1 DEF End, Archiving, Archives
  <2>2. CASE op[c].kind = "unarchiveGroup"
    BY <2>2 DEF End, Archiving, Archives
  <2>3. CASE op[c].kind = "archive" /\ op[c].shared /\ op[c].target = Primary
    BY <2>3 DEF End, Archiving, Archives
  <2>4. CASE /\ op[c].kind # "archiveGroup" /\ op[c].kind # "unarchiveGroup"
             /\ ~(op[c].kind = "archive" /\ op[c].shared /\ op[c].target = Primary)
    BY <2>4 DEF End
  <2> QED  BY <2>1, <2>2, <2>3, <2>4
<1>6. Client(c)' /\ (\A x : ~WorksOn(c, x)')
      /\ op' \in [Clients -> Operations]
      /\ (\A d \in Clients \ {c} : op'[d] = op[d])
      /\ op'[c].kind = op[c].kind
  <2>1. s \in {"next", "end", "return"}
                \cup (IF Archiving(c) THEN {"row", "clear", "unset", "remove", "mark"}
                      ELSE {"port", "unmark"})
    OBVIOUS
  <2>2. s \notin {"row", "remove"} /\ ~(s \in {"clear", "unset"} /\ ~op[c].shared)
    BY <1>5
  <2> QED  BY <1>1, <1>2, <1>4, <1>5, <2>1, <2>2, CalmGoto
<1> QED  BY <1>1, <1>2, <1>3, <1>6, Plain

LEMMA WriteGroupGoes ==
  ASSUME ArchiveAssumption, IInv, NEW c \in Clients, WriteGroup(c)
  PROVE  Goes(c)
<1>1. TypeOK /\ Client(c) /\ op[c].pc \in {"mark", "unmark"}
  BY DEF IInv, WriteGroup, At
<1>2. op[c].kind # "none"
  BY <1>1, KindAt DEF Client
<1>3. \A x : ~WorksOn(c, x) /\ ~Removing(c, x)
  BY <1>1 DEF WorksOn, Removing, PutsAside, TakesBack, Resumes, At
<1>4. CASE Throw(c)
  BY <1>2, <1>3, <1>4, Thrown
<1>5. CASE /\ row' = [row EXCEPT ![Primary] = IF At(c, "mark") THEN op[c].id ELSE 0]
           /\ Goto(c, "return")
           /\ UNCHANGED <<mark, rec, ctr, locks, bounds, history>>
  <2>1. Restoring(c) => "found" \notin op[c].done
    <3>1. op[c].pc = "mark" => ~Restoring(c)
      BY <1>1, KindAt DEF Client
    <3> QED  BY <1>1, <3>1 DEF Client, About, Resuming
  <2>2. Client(c)' /\ (\A x : ~WorksOn(c, x)')
        /\ op' \in [Clients -> Operations]
        /\ (\A d \in Clients \ {c} : op'[d] = op[d])
        /\ op'[c].kind = op[c].kind
    BY <1>2, <1>5, <2>1, CalmGoto
  <2>3. row' \in [Services -> Times]
    <3>1. 0 \in Times /\ op[c].id \in Times
      BY <1>1, FieldsOf DEF Times, ArchiveAssumption
    <3> QED  BY <1>1, <1>5, <3>1 DEF TypeOK
  <2>4. TypeOK'
    BY <1>1, <1>5, <2>2, <2>3 DEF TypeOK, bounds, history
  <2>5. Frame(c)
    BY <1>1, <1>5, <2>2 DEF Frame, TypeOK, bounds, history
  <2>6. Rows'
    BY <1>1, <1>5, Names DEF IInv, Rows, TypeOK
  <2>7. \A x \in Stateful : Untouched(c, x)
    BY <1>3, <1>5, <2>2 DEF Untouched
  <2>8. \A x \in Leaves : Cleared(c, x)
    BY <1>3, <1>5 DEF Cleared
  <2> QED  BY <1>2, <2>2, <2>4, <2>5, <2>6, <2>7, <2>8 DEF Goes, Turn
<1> QED  BY <1>4, <1>5 DEF WriteGroup

LEMMA ReturnGoes ==
  ASSUME ArchiveAssumption, IInv, NEW c \in Clients, Return(c)
  PROVE  Goes(c)
<1>1. TypeOK /\ Client(c) /\ op[c].pc = "return" /\ Leave(c)
      /\ UNCHANGED <<rows, ctr, ops, faults, crashes, why, torn>>
  BY DEF IInv, Return, At, bounds
<1>2. op[c].kind # "none" /\ op[c].target \in Services
  BY <1>1, KindAt DEF Client, Paths
<1>3. \A x : ~WorksOn(c, x) /\ ~Removing(c, x)
  BY <1>1 DEF WorksOn, Removing, PutsAside, TakesBack, Resumes, At
<1>4. op[c].before \in SUBSET Services
  BY <1>1 DEF TypeOK, Operations
<1>5. last' \in Archived
  BY <1>2, <1>4 DEF Return, Archived
<1>6. faults' \in 0..MaxFaults /\ faults' >= faults
  BY <1>1 DEF TypeOK
<1> QED  BY <1>1, <1>2, <1>3, <1>5, <1>6, Quits

-----------------------------------------------------------------------------
(* The steps of an archive.                                                *)
LEMMA Moves ==
  ASSUME ArchiveAssumption, IInv, NEW c \in Clients,
         UNCHANGED <<rows, ctr, locks, bounds, why, last>>,
         torn \subseteq torn', torn' \subseteq Kids,
         op' \in [Clients -> Operations],
         \A d \in Clients \ {c} : op'[d] = op[d],
         op[c].kind # "none", op'[c].kind = op[c].kind, Client(c)',
         \A x \in Stateful \ torn' :
           (~WorksOn(c, x) /\ ~WorksOn(c, x)') \/ Handled(c, x),
         \A x \in Leaves : Removing(c, x) => Removing(c, x)'
  PROVE  Goes(c)
<1> USE DEF rows, bounds
<1>1. TypeOK'
  BY DEF IInv, TypeOK
<1>2. Frame(c)
  BY DEF Frame, IInv, TypeOK
<1>3. Rows'
  BY DEF IInv, Rows
<1>4. \A x \in Stateful \ torn' : Untouched(c, x) \/ Handled(c, x)
  BY DEF Untouched
<1>5. \A x \in Leaves : Cleared(c, x)
  BY DEF Cleared
<1> QED  BY <1>1, <1>2, <1>3, <1>4, <1>5 DEF Goes, Turn

LEMMA VisitArchiveGoes ==
  ASSUME ArchiveAssumption, IInv, NEW c \in Clients, VisitArchive(c)
  PROVE  Goes(c)
<1> DEFINE x == op[c].cur
<1>1. TypeOK /\ Client(c) /\ op[c].pc = "visit" /\ op[c] \in Operations
      /\ UNCHANGED <<row, mark, rec, ctr, locks, ops, faults, crashes, why, last>>
  BY DEF IInv, VisitArchive, At, TypeOK, rows, bounds
<1>2. Archiving(c) /\ ~Restoring(c) /\ op[c].kind # "none" /\ op[c].kind \in Archives
  BY DEF VisitArchive, Archiving, Restoring, Archives, Restores
<1>3. \A y : ~WorksOn(c, y) /\ ~Removing(c, y)
  BY <1>1 DEF WorksOn, Removing, PutsAside, TakesBack, Resumes, At
<1>4. x \in Services /\ Holds(c, x)
  BY <1>1, <1>2 DEF Client, About, Locked, At, Cur
<1>5. torn \subseteq torn' /\ torn' \subseteq Kids
  BY <1>1, Names DEF TypeOK, VisitArchive, Cur
<1>6. ASSUME NEW s \in {"next", "row"}, Goto(c, s), s = "row" => x \notin Stateful
      PROVE  Goes(c)
  <2>1. Client(c)' /\ (\A y : ~WorksOn(c, y)')
        /\ op' \in [Clients -> Operations]
        /\ (\A d \in Clients \ {c} : op'[d] = op[d])
        /\ op'[c].kind = op[c].kind
    BY <1>1, <1>2, <1>4, <1>6, CalmGoto
  <2> QED  BY <1>1, <1>2, <1>3, <1>5, <2>1, Moves DEF rows, bounds
<1>7. ASSUME ChildrenOf(x) # {},
             Go(c, [op[c] EXCEPT !.kids = ChildrenOf(x), !.root = x, !.pc = "next"])
      PROVE  Goes(c)
  <2> DEFINE o == [op[c] EXCEPT !.kids = ChildrenOf(x), !.root = x, !.pc = "next"]
  <2>1. x \in Deployables /\ ChildrenOf(x) \subseteq Kids
    BY <1>7, Names DEF ChildrenOf
  <2>2. o \in Operations
    BY <1>1, <2>1 DEF Operations, Steps
  <2>3. /\ o.kind = op[c].kind /\ o.target = op[c].target /\ o.id = op[c].id
        /\ o.pc = "next" /\ o.todo = op[c].todo /\ o.kids = ChildrenOf(x)
    BY <1>1 DEF Operations
  <2>4. Go(c, o)
    BY <1>7
  <2> HIDE DEF o
  <2>5. op' \in [Clients -> Operations] /\ op'[c] = o
        /\ \A d \in Clients \ {c} : op'[d] = op[d]
    BY <1>1, <2>2, <2>4, GoIs
  <2>6. /\ \A d \in op'[c].todo : Holds(c, d)'
        /\ \A k \in op'[c].kids : locks'[k] = c
    BY <1>1, <1>2, <1>4, <2>3, <2>5 DEF Holds, Client, Locked
  <2>7. Client(c)' /\ \A y : ~WorksOn(c, y)'
    BY <1>1, <1>2, <2>3, <2>5, <2>6, CalmClient DEF Client
  <2> QED  BY <1>1, <1>2, <1>3, <1>5, <2>3, <2>5, <2>7, Moves DEF rows, bounds
<1>8. ASSUME ~Skips(c), x \in Stateful, GotoDone(c, "stop", {}) PROVE Goes(c)
  <2>1. /\ op' \in [Clients -> Operations]
        /\ \A d \in Clients \ {c} : op'[d] = op[d]
        /\ op'[c].pc = "stop" /\ op'[c].done = {}
        /\ op'[c].kind = op[c].kind /\ op'[c].target = op[c].target
        /\ op'[c].id = op[c].id /\ op'[c].todo = op[c].todo
        /\ op'[c].kids = op[c].kids /\ op'[c].cur = op[c].cur
    BY <1>1, <1>8, GotoDoneIs, StepNames
  <2>2. Paths(c)'
    BY <1>1, <1>2, <2>1 DEF Client, Paths, Archiving, Restoring, ArchiveSteps, PutsAside
  <2>3. Locked(c)'
    BY <1>1, <1>2, <1>4, <2>1 DEF Client, Locked, Holds, At, Cur, Archiving
  <2>4. About(c)'
    BY <1>8, <1>2, <2>1 DEF About, At, Cur, PutsAside, TakesBack, Resumes, Restoring, Common
  <2>5. ASSUME NEW y \in Stateful \ torn'
        PROVE  (~WorksOn(c, y) /\ ~WorksOn(c, y)') \/ Handled(c, y)
    <3>1. CASE y # x
      BY <1>3, <2>1, <3>1 DEF WorksOn, Cur
    <3>2. CASE y = x
      <4>1. mark[y] = 0
        BY <1>1, <1>8, <2>5, <3>2 DEF VisitArchive, Cur
      <4>2. Settled(y) => Leaving(c, y)'
        BY <1>1, <2>1, <4>1 DEF Settled, Leaving, At, Aside, Serving, Recorded
      <4>3. WorksOn(c, y)' /\ op'[c].pc \notin TakesBack
        BY <2>1, <3>2 DEF WorksOn, Cur, PutsAside, TakesBack, Resumes
      <4>4. Alright(c, y) => Alright(c, y)'
        BY <1>3, <4>2, <4>3 DEF Alright
      <4> QED  BY <1>2, <1>4, <3>2, <4>4 DEF Handled, Holds
    <3> QED  BY <3>1, <3>2
  <2> QED  BY <1>1, <1>2, <1>3, <1>5, <2>1, <2>2, <2>3, <2>4, <2>5, Moves
             DEF Client, rows, bounds
<1> QED
  <2>1. x \in Stateful => rec[x].cid
    BY DEF IInv, Rows
  <2> QED  BY <1>6, <1>7, <1>8, <2>1 DEF VisitArchive, Cur

LEMMA ArchiveRowGoes ==
  ASSUME ArchiveAssumption, IInv, NEW c \in Clients, ArchiveRow(c)
  PROVE  Goes(c)
<1> DEFINE x == op[c].cur
<1>1. TypeOK /\ Client(c) /\ op[c].pc = "row" /\ x \in Services \ Stateful
  BY DEF IInv, ArchiveRow, At, Client, About, Cur
<1>2. Archiving(c) /\ ~Restoring(c) /\ op[c].kind # "none" /\ op[c].id # 0
  BY <1>1, KindAt DEF Client, Paths
<1>3. \A y : ~WorksOn(c, y) /\ ~Removing(c, y)
  BY <1>1 DEF WorksOn, Removing, PutsAside, TakesBack, Resumes, At
<1>4. CASE Throw(c)
  BY <1>2, <1>3, <1>4, Thrown
<1>5. CASE /\ SetMarks(c)
           /\ rec' = [rec EXCEPT ![Cur(c)].cid = FALSE]
           /\ Goto(c, IF ~op[c].shared /\ Cur(c) = Primary THEN "clear" ELSE "remove")
           /\ UNCHANGED <<ctr, locks, bounds, last, torn>>
  <2>1. PICK s \in {"clear", "remove"} :
          Goto(c, s) /\ (s = "clear" => ~op[c].shared /\ x = Primary)
    BY <1>5 DEF Cur
  <2>2. Client(c)' /\ (\A y : ~WorksOn(c, y)')
        /\ op' \in [Clients -> Operations]
        /\ (\A d \in Clients \ {c} : op'[d] = op[d])
        /\ op'[c].kind = op[c].kind /\ op'[c].cur = x /\ op'[c].pc = s
        /\ op'[c].shared = op[c].shared
    BY <1>1, <1>2, <1>5, <2>1, CalmGoto
  <2>3. op[c].id \in Times
    BY <1>1, FieldsOf
  <2>4. /\ row' = [row EXCEPT ![x] = op[c].id] /\ mark' = [mark EXCEPT ![x] = op[c].id]
        /\ why' = why \/ why' = [why EXCEPT ![x] = op[c].id]
    BY <1>5 DEF SetMarks, Reason, Cur
  <2>5. TypeOK'
    <3>1. rec' \in [Services -> [cid : BOOLEAN, name : {"canonical", "preserved"}]]
      <4>1. rec[x] \in [cid : BOOLEAN, name : {"canonical", "preserved"}]
        BY <1>1 DEF TypeOK
      <4>2. rec' = [rec EXCEPT ![x] = [rec[x] EXCEPT !.cid = FALSE]]
        BY <1>5 DEF Cur
      <4> QED  BY <1>1, <4>1, <4>2 DEF TypeOK
    <3>2. row' \in [Services -> Times] /\ mark' \in [Services -> Times]
          /\ why' \in [Services -> Times]
      BY <1>1, <2>3, <2>4 DEF TypeOK
    <3> QED  BY <1>1, <1>5, <2>2, <3>1, <3>2 DEF TypeOK, bounds
  <2>6. Frame(c)
    BY <1>1, <1>2, <1>5, <2>2, <2>4 DEF Frame, TypeOK, bounds
  <2>7. Rows'
    BY <1>1, <1>5, <2>4 DEF IInv, Rows, TypeOK, Cur
  <2>8. \A y \in Stateful : Untouched(c, y)
    BY <1>1, <1>3, <1>5, <2>2, <2>4, Names DEF Untouched, TypeOK, Cur
  <2>9. \A y \in Leaves : Cleared(c, y)
    BY <1>1, <1>3, <1>5, <2>1, <2>2, <2>4, Names DEF Cleared, Removing, At, Cur, TypeOK
  <2> QED  BY <1>2, <2>2, <2>5, <2>6, <2>7, <2>8, <2>9 DEF Goes, Turn
<1> QED  BY <1>4, <1>5 DEF ArchiveRow

LEMMA ReadSiblingsGoes ==
  ASSUME ArchiveAssumption, IInv, NEW c \in Clients, ReadSiblings(c)
  PROVE  Goes(c)
<1>1. TypeOK /\ Client(c) /\ op[c].pc = "clear" /\ Still /\ UNCHANGED locks
  BY DEF IInv, ReadSiblings, At, Still
<1>2. Archiving(c) /\ ~Restoring(c) /\ op[c].kind # "none"
      /\ (~op[c].shared => op[c].cur = Primary)
  BY <1>1, KindAt DEF Client, About, Cur
<1>3. \A y : ~WorksOn(c, y)
  BY <1>1 DEF WorksOn, PutsAside, TakesBack, Resumes
<1>4. PICK s \in {"unset", "return", "remove"} :
        Goto(c, s) /\ (s = "return" => op[c].shared) /\ (s = "remove" => ~op[c].shared)
  BY DEF ReadSiblings, AfterClear
<1>5. Client(c)' /\ (\A x : ~WorksOn(c, x)')
      /\ op' \in [Clients -> Operations]
      /\ (\A d \in Clients \ {c} : op'[d] = op[d])
      /\ op'[c].kind = op[c].kind /\ op'[c].cur = op[c].cur /\ op'[c].pc = s
      /\ op'[c].shared = op[c].shared
  BY <1>1, <1>2, <1>4, Names, CalmGoto
<1>6. \A x : Removing(c, x) => Removing(c, x)'
  BY <1>1, <1>4, <1>5 DEF Removing, At, Cur
<1> QED  BY <1>1, <1>2, <1>3, <1>5, <1>6, Plain

LEMMA UnsetGroupGoes ==
  ASSUME ArchiveAssumption, IInv, NEW c \in Clients, UnsetGroup(c)
  PROVE  Goes(c)
<1>1. TypeOK /\ Client(c) /\ op[c].pc = "unset"
  BY DEF IInv, UnsetGroup, At
<1>2. Archiving(c) /\ ~Restoring(c) /\ op[c].kind # "none"
      /\ (~op[c].shared => op[c].cur = Primary)
  BY <1>1, KindAt DEF Client, About, Cur
<1>3. \A y : ~WorksOn(c, y)
  BY <1>1 DEF WorksOn, PutsAside, TakesBack, Resumes
<1>4. CASE Throw(c)
  BY <1>2, <1>3, <1>4, Thrown
<1>5. CASE /\ row' = [row EXCEPT ![Primary] = 0]
           /\ Goto(c, AfterClear(c))
           /\ UNCHANGED <<mark, rec, ctr, locks, bounds, history>>
  <2>1. PICK s \in {"return", "remove"} :
          Goto(c, s) /\ (s = "return" <=> op[c].shared)
    BY <1>5 DEF AfterClear
  <2>2. Client(c)' /\ (\A x : ~WorksOn(c, x)')
        /\ op' \in [Clients -> Operations]
        /\ (\A d \in Clients \ {c} : op'[d] = op[d])
        /\ op'[c].kind = op[c].kind /\ op'[c].cur = op[c].cur /\ op'[c].pc = s
        /\ op'[c].shared = op[c].shared
    BY <1>1, <1>2, <1>5, <2>1, Names, CalmGoto
  <2>3. TypeOK'
    <3>1. 0 \in Times
      BY DEF Times, ArchiveAssumption
    <3> QED  BY <1>1, <1>5, <2>2, <3>1 DEF TypeOK, bounds, history
  <2>4. Frame(c)
    BY <1>1, <1>5, <2>2 DEF Frame, TypeOK, bounds, history
  <2>5. Rows'
    BY <1>1, <1>5, Names DEF IInv, Rows, TypeOK
  <2>6. \A x \in Stateful : Untouched(c, x)
    BY <1>3, <1>5, <2>2 DEF Untouched
  <2>7. \A x \in Leaves : Cleared(c, x)
    BY <1>1, <1>5, <2>1, <2>2 DEF Cleared, Removing, At, Cur
  <2> QED  BY <1>2, <2>2, <2>3, <2>4, <2>5, <2>6, <2>7 DEF Goes, Turn
<1> QED  BY <1>4, <1>5 DEF UnsetGroup

LEMMA RemoveContainerGoes ==
  ASSUME ArchiveAssumption, IInv, NEW c \in Clients, RemoveContainer(c)
  PROVE  Goes(c)
<1> DEFINE x == op[c].cur
<1>1. TypeOK /\ Client(c) /\ op[c].pc = "remove" /\ Goto(c, "next")
      /\ UNCHANGED <<row, mark, rec, locks, ops, crashes, why, last, torn>>
      /\ x \in Services \ Stateful
  BY DEF IInv, RemoveContainer, At, rows, history, Client, About, Cur
<1>2. Archiving(c) /\ ~Restoring(c) /\ op[c].kind # "none"
  BY <1>1, KindAt DEF Client
<1>3. \A y : ~WorksOn(c, y)
  BY <1>1 DEF WorksOn, PutsAside, TakesBack, Resumes
<1>4. Client(c)' /\ (\A y : ~WorksOn(c, y)')
      /\ op' \in [Clients -> Operations]
      /\ (\A d \in Clients \ {c} : op'[d] = op[d])
      /\ op'[c].kind = op[c].kind /\ op'[c].cur = x
  BY <1>1, <1>2, CalmGoto
<1>5. PICK new \in Containers :
        /\ ctr' = [ctr EXCEPT ![x] = new]
        /\ \/ new = Gone /\ faults' = faults
           \/ faults' = faults + 1 /\ faults < MaxFaults
  <2>1. ctr[x] \in Containers
    BY <1>1 DEF TypeOK
  <2>2. CASE ctr' = [ctr EXCEPT ![x] = Gone] /\ UNCHANGED faults
    BY <2>2 DEF Gone, Containers
  <2>3. CASE /\ Faulty
             /\ \E up \in {ctr[x].up, FALSE} : ctr' = [ctr EXCEPT ![x].up = up]
    <3>1. PICK up \in {ctr[x].up, FALSE} : ctr' = [ctr EXCEPT ![x].up = up]
      BY <2>3
    <3>2. [ctr[x] EXCEPT !.up = up] \in Containers
      BY <2>1, <3>1 DEF Containers
    <3>3. ctr' = [ctr EXCEPT ![x] = [ctr[x] EXCEPT !.up = up]]
      BY <3>1
    <3> QED  BY <2>3, <3>2, <3>3 DEF Faulty
  <2> QED  BY <2>2, <2>3 DEF RemoveContainer, Cur
<1>6. faults \in Nat /\ MaxFaults \in Nat /\ faults' \in 0..MaxFaults /\ faults' >= faults
  BY <1>1, <1>5 DEF TypeOK, ArchiveAssumption
<1>7. TypeOK'
  BY <1>1, <1>4, <1>5, <1>6 DEF TypeOK
<1>8. Frame(c)
  BY <1>1, <1>4, <1>6 DEF Frame, TypeOK
<1>9. Rows'
  BY <1>1 DEF IInv, Rows
<1>10. \A y \in Stateful : Untouched(c, y)
  BY <1>1, <1>3, <1>4, <1>5 DEF Untouched, TypeOK
<1>11. ASSUME faults' = 0, NEW y \in Leaves PROVE Cleared(c, y)
  <2>1. y \in Services
    BY Names
  <2>2. CASE y = x
    BY <1>1, <1>5, <1>6, <1>11, <2>1, <2>2 DEF Cleared, TypeOK
  <2>3. CASE y # x
    BY <1>1, <1>5, <2>1, <2>3 DEF Cleared, Removing, Cur, TypeOK
  <2> QED  BY <2>2, <2>3
<1> QED  BY <1>2, <1>4, <1>7, <1>8, <1>9, <1>10, <1>11 DEF Goes, Turn

(* A resource that is put aside stays in the hands of its archive.         *)
LEMMA AsideClient ==
  ASSUME ArchiveAssumption, IInv, NEW c \in Clients, op[c].pc \in PutsAside,
         op' \in [Clients -> Operations], op'[c].pc \in PutsAside,
         op'[c].kind = op[c].kind, op'[c].target = op[c].target, op'[c].id = op[c].id,
         op'[c].todo = op[c].todo, op'[c].kids = op[c].kids, op'[c].cur = op[c].cur,
         UNCHANGED locks
  PROVE  /\ Client(c)' /\ Archiving(c) /\ op[c].kind # "none"
         /\ op[c].cur \in Stateful /\ locks[op[c].cur] = c
         /\ \A x : Removing(c, x) <=> FALSE
         /\ \A x : x # op[c].cur => ~WorksOn(c, x) /\ ~WorksOn(c, x)'
<1>1. TypeOK /\ Client(c) /\ Archiving(c) /\ ~Restoring(c) /\ op[c].kind # "none"
  BY KindAt DEF IInv, Client, Archiving, Archives
<1>2. op[c].cur \in Stateful /\ locks[op[c].cur] = c
  BY <1>1 DEF Client, About, Locked, Cur
<1>3. op'[c].pc \notin Resumes \cup TakesBack \cup Common
                         \cup {"row", "remove", "clear", "unset", "lock", "port", "unmark"}
  BY DEF PutsAside, Resumes, TakesBack, Common
<1>4. Paths(c)'
  BY <1>1, <1>3 DEF Client, Paths, Archiving, Restoring, ArchiveSteps
<1>5. Locked(c)'
  BY <1>1, <1>2, <1>3 DEF Client, Locked, Holds, At, Cur, Archiving, Common
<1>6. About(c)'
  BY <1>2, <1>3 DEF About, At, Cur, Resumes, TakesBack, Common
<1>7. \A x : ~Removing(c, x)
  BY DEF Removing, PutsAside, At
<1> QED  BY <1>1, <1>2, <1>4, <1>5, <1>6, <1>7 DEF Client, WorksOn, Cur

LEMMA AsideStep ==
  ASSUME ArchiveAssumption, IInv, NEW c \in Clients, op[c].pc \in PutsAside,
         NEW container \in Containers, NEW s \in PutsAside, NEW done \in SUBSET Flags,
         Runtime(c, container), GotoDone(c, s, done),
         Leaving(c, op[c].cur) => Leaving(c, op[c].cur)'
  PROVE  Goes(c)
<1> DEFINE x == op[c].cur
<1>1. TypeOK /\ s \in Steps
      /\ ctr' = [ctr EXCEPT ![x] = container]
      /\ UNCHANGED <<row, mark, rec, locks, ops, faults, crashes, why, last, torn>>
  BY DEF IInv, Steps, PutsAside, Runtime, rows, bounds, history, Cur
<1>2. /\ op' \in [Clients -> Operations]
      /\ \A d \in Clients \ {c} : op'[d] = op[d]
      /\ op'[c].pc = s /\ op'[c].done = done
      /\ op'[c].kind = op[c].kind /\ op'[c].target = op[c].target
      /\ op'[c].id = op[c].id /\ op'[c].todo = op[c].todo
      /\ op'[c].kids = op[c].kids /\ op'[c].cur = op[c].cur
  BY <1>1, GotoDoneIs
<1>3. /\ Client(c)' /\ Archiving(c) /\ op[c].kind # "none"
      /\ x \in Stateful /\ locks[x] = c
      /\ \A y : ~Removing(c, y)
      /\ \A y : y # x => ~WorksOn(c, y) /\ ~WorksOn(c, y)'
  BY <1>1, <1>2, AsideClient
<1>4. TypeOK'
  BY <1>1, <1>2 DEF TypeOK
<1>5. Frame(c)
  BY <1>1, <1>2 DEF Frame, TypeOK
<1>6. Rows'
  BY <1>1 DEF IInv, Rows
<1>7. ASSUME NEW y \in Stateful PROVE Untouched(c, y) \/ Handled(c, y)
  <2>1. CASE y # x
    BY <1>1, <1>3, <2>1 DEF Untouched, TypeOK
  <2>2. CASE y = x
    <3>1. s \notin TakesBack /\ op[c].pc \notin TakesBack
      BY DEF PutsAside, TakesBack, Resumes
    <3>2. Alright(c, y) => Alright(c, y)'
      BY <1>2, <2>2, <3>1 DEF Alright, WorksOn, Cur
    <3> QED  BY <1>3, <2>2, <3>2 DEF Handled
  <2> QED  BY <2>1, <2>2
<1>8. \A y \in Leaves : Cleared(c, y)
  <2>1. x \notin Leaves
    BY <1>3, Names
  <2> QED  BY <1>1, <1>3, <2>1, Names DEF Cleared, TypeOK
<1> QED  BY <1>2, <1>3, <1>4, <1>5, <1>6, <1>7, <1>8 DEF Goes, Turn

LEMMA AsideCaught ==
  ASSUME ArchiveAssumption, IInv, NEW c \in Clients, op[c].pc \in PutsAside,
         Caught(c, "undo")
  PROVE  Goes(c)
<1> DEFINE x == op[c].cur
<1>1. TypeOK /\ "undo" \in Steps /\ Goto(c, "undo")
      /\ faults' = faults + 1 /\ faults < MaxFaults
      /\ UNCHANGED <<row, mark, rec, ctr, locks, ops, crashes, why, last, torn>>
  BY DEF IInv, Steps, Caught, Faulty, rows, history
<1>2. faults \in Nat /\ MaxFaults \in Nat /\ faults' \in 0..MaxFaults /\ faults' > 0
  BY <1>1 DEF TypeOK, ArchiveAssumption
<1>3. /\ op' \in [Clients -> Operations]
      /\ \A d \in Clients \ {c} : op'[d] = op[d]
      /\ op'[c].pc = "undo" /\ op'[c].done = op[c].done
      /\ op'[c].kind = op[c].kind /\ op'[c].target = op[c].target
      /\ op'[c].id = op[c].id /\ op'[c].todo = op[c].todo
      /\ op'[c].kids = op[c].kids /\ op'[c].cur = op[c].cur
  BY <1>1, GotoIs
<1>4. /\ Client(c)' /\ Archiving(c) /\ op[c].kind # "none"
      /\ x \in Stateful /\ locks[x] = c
      /\ \A y : y # x => ~WorksOn(c, y) /\ ~WorksOn(c, y)'
  BY <1>1, <1>3, AsideClient DEF PutsAside
<1>5. TypeOK'
  BY <1>1, <1>2, <1>3 DEF TypeOK
<1>6. Frame(c)
  BY <1>1, <1>2, <1>3 DEF Frame, TypeOK
<1>7. Rows'
  BY <1>1 DEF IInv, Rows
<1>8. ASSUME NEW y \in Stateful PROVE Untouched(c, y) \/ Handled(c, y)
  <2>1. CASE y # x
    BY <1>1, <1>4, <2>1 DEF Untouched
  <2>2. CASE y = x
    <3>1. Leaving(c, y) => Leaving(c, y)'
      BY <1>1, <1>2, <1>3 DEF Leaving, At, PutsAside, Aside, Recorded
    <3>2. "undo" \in PutsAside \ TakesBack /\ op[c].pc \notin TakesBack
      BY DEF PutsAside, TakesBack, Resumes
    <3>3. Alright(c, y) => Alright(c, y)'
      BY <1>3, <2>2, <3>1, <3>2 DEF Alright, WorksOn, Cur
    <3> QED  BY <1>4, <2>2, <3>3 DEF Handled
  <2> QED  BY <2>1, <2>2
<1> QED  BY <1>2, <1>3, <1>4, <1>5, <1>6, <1>7, <1>8 DEF Goes, Turn

LEMMA ContainerIs ==
  ASSUME ArchiveAssumption, IInv, NEW c \in Clients, op[c].cur \in Services
  PROVE  /\ ctr[op[c].cur] \in Containers
         /\ \A up \in BOOLEAN : Powered(c, up) \in Containers
         /\ \A net \in BOOLEAN : Connected(c, net) \in Containers
         /\ \A name \in {"canonical", "preserved"} : Named(c, name) \in Containers
         /\ \A container : Runtime(c, container) => ctr'[op[c].cur] = container
<1>1. ctr[op[c].cur] \in Containers
  BY DEF IInv, TypeOK
<1>2. \A container : Runtime(c, container) => ctr'[op[c].cur] = container
  BY DEF IInv, TypeOK, Runtime, Cur
<1> QED  BY <1>1, <1>2 DEF Powered, Connected, Named, Containers, Cur

LEMMA SameContainer ==
  ASSUME NEW r \in Containers, NEW q \in Containers,
         r.up = q.up, r.net = q.net, r.name = q.name
  PROVE  r = q
BY DEF Containers

(* What each step makes of the container, and how it is undone.            *)
LEMMA Asides ==
  /\ Aside({}) = Serving
  /\ [Aside({}) EXCEPT !.up = FALSE] = Aside({"stopped"})
  /\ [Aside({"stopped"}) EXCEPT !.up = TRUE] = Aside({})
  /\ [Aside({"stopped"}) EXCEPT !.net = FALSE] = Aside({"stopped", "disconnected"})
  /\ [Aside({"stopped", "disconnected"}) EXCEPT !.net = TRUE] = Aside({"stopped"})
  /\ [Aside({"stopped", "disconnected"}) EXCEPT !.name = "preserved"]
       = Aside({"stopped", "disconnected", "renamed"})
  /\ [Aside({"stopped", "disconnected", "renamed"}) EXCEPT !.name = "canonical"]
       = Aside({"stopped", "disconnected"})
  /\ Aside({"stopped", "disconnected", "renamed"}).name = "preserved"
  /\ ~Aside({"stopped", "disconnected", "renamed"}).net
<1> DEFINE a == Aside({})
           s == Aside({"stopped"})
           d == Aside({"stopped", "disconnected"})
           r == Aside({"stopped", "disconnected", "renamed"})
<1>1. a = Serving
  BY DEF Aside, Serving
<1>2. a \in Containers /\ a.up = TRUE /\ a.net = TRUE /\ a.name = "canonical"
  BY DEF Aside, Containers
<1>3. s \in Containers /\ s.up = FALSE /\ s.net = TRUE /\ s.name = "canonical"
  BY DEF Aside, Containers
<1>4. d \in Containers /\ d.up = FALSE /\ d.net = FALSE /\ d.name = "canonical"
  BY DEF Aside, Containers
<1>5. r \in Containers /\ r.up = FALSE /\ r.net = FALSE /\ r.name = "preserved"
  BY DEF Aside, Containers
<1> HIDE DEF a, s, d, r
<1>6. [a EXCEPT !.up = FALSE] = s
  <2> DEFINE new == [a EXCEPT !.up = FALSE]
  <2>1. /\ new \in Containers /\ new.up = FALSE
        /\ new.net = a.net /\ new.name = a.name
    BY <1>2 DEF Containers
  <2> HIDE DEF new
  <2>2. new = s
    BY <1>2, <1>3, <2>1, SameContainer
  <2> QED  BY <2>2 DEF new
<1>7. [s EXCEPT !.up = TRUE] = a
  <2> DEFINE new == [s EXCEPT !.up = TRUE]
  <2>1. /\ new \in Containers /\ new.up = TRUE
        /\ new.net = s.net /\ new.name = s.name
    BY <1>3 DEF Containers
  <2> HIDE DEF new
  <2>2. new = a
    BY <1>2, <1>3, <2>1, SameContainer
  <2> QED  BY <2>2 DEF new
<1>8. [s EXCEPT !.net = FALSE] = d
  <2> DEFINE new == [s EXCEPT !.net = FALSE]
  <2>1. /\ new \in Containers /\ new.net = FALSE
        /\ new.up = s.up /\ new.name = s.name
    BY <1>3 DEF Containers
  <2> HIDE DEF new
  <2>2. new = d
    BY <1>3, <1>4, <2>1, SameContainer
  <2> QED  BY <2>2 DEF new
<1>9. [d EXCEPT !.net = TRUE] = s
  <2> DEFINE new == [d EXCEPT !.net = TRUE]
  <2>1. /\ new \in Containers /\ new.net = TRUE
        /\ new.up = d.up /\ new.name = d.name
    BY <1>4 DEF Containers
  <2> HIDE DEF new
  <2>2. new = s
    BY <1>3, <1>4, <2>1, SameContainer
  <2> QED  BY <2>2 DEF new
<1>10. [d EXCEPT !.name = "preserved"] = r
  <2> DEFINE new == [d EXCEPT !.name = "preserved"]
  <2>1. /\ new \in Containers /\ new.name = "preserved"
        /\ new.up = d.up /\ new.net = d.net
    BY <1>4 DEF Containers
  <2> HIDE DEF new
  <2>2. new = r
    BY <1>4, <1>5, <2>1, SameContainer
  <2> QED  BY <2>2 DEF new
<1>11. [r EXCEPT !.name = "canonical"] = d
  <2> DEFINE new == [r EXCEPT !.name = "canonical"]
  <2>1. /\ new \in Containers /\ new.name = "canonical"
        /\ new.up = r.up /\ new.net = r.net
    BY <1>5 DEF Containers
  <2> HIDE DEF new
  <2>2. new = d
    BY <1>4, <1>5, <2>1, SameContainer
  <2> QED  BY <2>2 DEF new
<1>12. r.name = "preserved" /\ ~r.net
  BY <1>5
<1> QED  BY <1>1, <1>6, <1>7, <1>8, <1>9, <1>10, <1>11, <1>12 DEF a, s, d, r

LEMMA StopResourceGoes ==
  ASSUME ArchiveAssumption, IInv, NEW c \in Clients, StopResource(c)
  PROVE  Goes(c)
<1> DEFINE x == op[c].cur
<1>1. TypeOK /\ op[c].pc = "stop" /\ op[c].pc \in PutsAside /\ x \in Services
  BY Names DEF IInv, StopResource, Try, At, PutsAside, Client, About, Cur
<1>2. CASE Caught(c, "undo")
  BY <1>1, <1>2, AsideCaught
<1>3. CASE Runtime(c, Powered(c, FALSE)) /\ GotoDone(c, "disconnect", {"stopped"})
  <2>1. op'[c].pc = "disconnect" /\ op'[c].done = {"stopped"} /\ op'[c].cur = x
    BY <1>1, <1>3, GotoDoneIs, StepNames
  <2>2. ctr'[x] = Powered(c, FALSE) /\ Powered(c, FALSE) \in Containers
    BY <1>1, <1>3, ContainerIs
  <2>3. UNCHANGED <<mark, rec, faults>>
    BY <1>3 DEF Runtime, rows, bounds
  <2>4. Leaving(c, x) => Leaving(c, x)'
    <3> SUFFICES ASSUME Leaving(c, x) PROVE Leaving(c, x)'
      OBVIOUS
    <3>1. op[c].done = {} /\ rec[x] = Recorded /\ mark[x] = 0 /\ ctr[x] = Aside({})
      BY <1>1 DEF Leaving, At
    <3>2. ctr'[x] = Aside({"stopped"})
      BY <2>2, <3>1, Asides DEF Powered, Cur
    <3> QED  BY <2>1, <2>3, <3>1, <3>2 DEF Leaving, At
  <2> QED  BY <1>1, <1>3, <2>2, <2>4, AsideStep DEF PutsAside, Flags
<1> QED  BY <1>2, <1>3 DEF StopResource, Try

LEMMA DisconnectResourceGoes ==
  ASSUME ArchiveAssumption, IInv, NEW c \in Clients, DisconnectResource(c)
  PROVE  Goes(c)
<1> DEFINE x == op[c].cur
           s == IF rec[x].name = "preserved" THEN "save" ELSE "rename"
           done == op[c].done \cup {"disconnected"}
<1>1. TypeOK /\ op[c].pc = "disconnect" /\ op[c].pc \in PutsAside /\ x \in Services
      /\ s \in PutsAside /\ s \in Steps /\ done \in SUBSET Flags
  BY Names, FieldsOf DEF IInv, DisconnectResource, Try, At, PutsAside, Client, About, Cur,
     Steps, Flags
<1>2. CASE Caught(c, "undo")
  BY <1>1, <1>2, AsideCaught
<1>3. CASE Runtime(c, Connected(c, FALSE)) /\ GotoDone(c, s, done)
  <2>1. op'[c].pc = s /\ op'[c].done = done /\ op'[c].cur = x
    BY <1>1, <1>3, GotoDoneIs
  <2>2. ctr'[x] = Connected(c, FALSE) /\ Connected(c, FALSE) \in Containers
    BY <1>1, <1>3, ContainerIs
  <2>3. UNCHANGED <<mark, rec, faults>>
    BY <1>3 DEF Runtime, rows, bounds
  <2>4. Leaving(c, x) => Leaving(c, x)'
    <3> SUFFICES ASSUME Leaving(c, x) PROVE Leaving(c, x)'
      OBVIOUS
    <3>1. op[c].done = {"stopped"} /\ rec[x] = Recorded /\ mark[x] = 0
          /\ ctr[x] = Aside({"stopped"})
      BY <1>1 DEF Leaving, At
    <3>2. s = "rename" /\ done = {"stopped", "disconnected"}
      BY <3>1 DEF Recorded
    <3>3. ctr'[x] = Aside({"stopped", "disconnected"})
      BY <2>2, <3>1, Asides DEF Connected, Cur
    <3>4. op'[c].done = {"stopped", "disconnected"}
      BY <2>1, <3>2
    <3> QED  BY <2>1, <2>3, <3>1, <3>2, <3>3, <3>4 DEF Leaving, At
  <2> QED  BY <1>1, <1>3, <2>2, <2>4, AsideStep
<1> QED  BY <1>2, <1>3 DEF DisconnectResource, Try, Cur

LEMMA RenameResourceGoes ==
  ASSUME ArchiveAssumption, IInv, NEW c \in Clients, RenameResource(c)
  PROVE  Goes(c)
<1> DEFINE x == op[c].cur
           done == op[c].done \cup {"renamed"}
<1>1. TypeOK /\ op[c].pc = "rename" /\ op[c].pc \in PutsAside /\ x \in Services
      /\ "save" \in PutsAside /\ "save" \in Steps /\ done \in SUBSET Flags
  BY Names, FieldsOf DEF IInv, RenameResource, Try, At, PutsAside, Client, About, Cur,
     Steps, Flags
<1>2. CASE Caught(c, "undo")
  BY <1>1, <1>2, AsideCaught
<1>3. CASE Runtime(c, Named(c, "preserved")) /\ GotoDone(c, "save", done)
  <2>1. op'[c].pc = "save" /\ op'[c].done = done /\ op'[c].cur = x
    BY <1>1, <1>3, GotoDoneIs
  <2>2. ctr'[x] = Named(c, "preserved") /\ Named(c, "preserved") \in Containers
    BY <1>1, <1>3, ContainerIs
  <2>3. UNCHANGED <<mark, rec, faults>>
    BY <1>3 DEF Runtime, rows, bounds
  <2>4. Leaving(c, x) => Leaving(c, x)'
    <3> SUFFICES ASSUME Leaving(c, x) PROVE Leaving(c, x)'
      OBVIOUS
    <3>1. op[c].done = {"stopped", "disconnected"} /\ rec[x] = Recorded /\ mark[x] = 0
          /\ ctr[x] = Aside({"stopped", "disconnected"})
      BY <1>1 DEF Leaving, At
    <3>2. done = {"stopped", "disconnected", "renamed"}
      BY <3>1
    <3>3. ctr'[x] = Aside({"stopped", "disconnected", "renamed"})
      BY <2>2, <3>1, Asides DEF Named, Cur
    <3>4. op'[c].done = {"stopped", "disconnected", "renamed"}
      BY <2>1, <3>2
    <3> QED  BY <2>1, <2>3, <3>1, <3>2, <3>3, <3>4 DEF Leaving, At
  <2> QED  BY <1>1, <1>3, <2>2, <2>4, AsideStep
<1> QED  BY <1>2, <1>3 DEF RenameResource, Try

LEMMA SaveResourceGoes ==
  ASSUME ArchiveAssumption, IInv, NEW c \in Clients, SaveResource(c)
  PROVE  Goes(c)
<1> DEFINE x == op[c].cur
<1>1. TypeOK /\ Client(c) /\ op[c].pc = "save" /\ op[c].pc \in PutsAside
      /\ x \in Stateful /\ x \in Services
  BY Names DEF IInv, SaveResource, At, PutsAside, Client, About, Cur
<1>2. Archiving(c) /\ ~Restoring(c) /\ op[c].kind # "none" /\ op[c].id # 0 /\ locks[x] = c
  BY <1>1, KindAt DEF Client, Paths, Locked, Cur
<1>3. CASE Caught(c, "undo")
  BY <1>1, <1>3, AsideCaught
<1>4. CASE /\ SetMarks(c)
           /\ rec' = [rec EXCEPT ![Cur(c)] = [cid |-> TRUE, name |-> "preserved"]]
           /\ Goto(c, "next")
           /\ UNCHANGED <<ctr, locks, bounds, last, torn>>
  <2>1. Client(c)' /\ (\A y : ~WorksOn(c, y)')
        /\ op' \in [Clients -> Operations]
        /\ (\A d \in Clients \ {c} : op'[d] = op[d])
        /\ op'[c].kind = op[c].kind
    BY <1>2, <1>4, CalmGoto
  <2>2. op[c].id \in Times
    BY <1>1, FieldsOf
  <2>3. /\ row' = [row EXCEPT ![x] = op[c].id] /\ mark' = [mark EXCEPT ![x] = op[c].id]
        /\ why' = why \/ why' = [why EXCEPT ![x] = op[c].id]
        /\ rec' = [rec EXCEPT ![x] = Retained]
    BY <1>4 DEF SetMarks, Reason, Cur, Retained
  <2>4. row' \in [Services -> Times] /\ mark' \in [Services -> Times]
        /\ why' \in [Services -> Times]
        /\ rec' \in [Services -> [cid : BOOLEAN, name : {"canonical", "preserved"}]]
    BY <1>1, <2>2, <2>3 DEF TypeOK, Retained
  <2>5. TypeOK'
    BY <1>1, <1>4, <2>1, <2>4 DEF TypeOK, bounds
  <2>6. Frame(c)
    BY <1>1, <1>2, <1>4, <2>1, <2>3 DEF Frame, TypeOK, bounds
  <2>7. Rows'
    BY <1>1, <1>2, <2>3, Names DEF IInv, Rows, TypeOK, Retained
  <2>8. ASSUME NEW y \in Stateful PROVE Untouched(c, y) \/ Handled(c, y)
    <3>1. y \in Services
      BY Names
    <3>2. CASE y # x
      BY <1>1, <1>4, <2>1, <2>3, <3>1, <3>2 DEF Untouched, TypeOK, WorksOn, Cur
    <3>3. CASE y = x
      <4>1. Alright(c, y) => Leaving(c, y)
        BY <1>1, <3>3 DEF Alright, WorksOn, Cur
      <4>2. Leaving(c, y) => Settled(y)'
        <5> SUFFICES ASSUME Leaving(c, y) PROVE Settled(y)'
          OBVIOUS
        <5>1. ctr[y] = Aside({"stopped", "disconnected", "renamed"})
          BY <1>1 DEF Leaving, At
        <5>2. ctr'[y].name = "preserved" /\ ~ctr'[y].net
          BY <1>4, <5>1, Asides
        <5>3. mark'[y] # 0 /\ rec'[y] = Retained
          BY <1>1, <1>2, <2>3, <3>3 DEF TypeOK
        <5> QED  BY <5>2, <5>3 DEF Settled
      <4> QED  BY <1>2, <2>1, <3>3, <4>1, <4>2 DEF Handled, Alright
    <3> QED  BY <3>2, <3>3
  <2>9. \A y \in Leaves : Cleared(c, y)
    BY <1>1, <1>4, <2>3, Names DEF Cleared, Removing, At, TypeOK
  <2> QED  BY <1>2, <2>1, <2>5, <2>6, <2>7, <2>8, <2>9 DEF Goes, Turn
<1> QED  BY <1>3, <1>4 DEF SaveResource

LEMMA UndoStepGoes ==
  ASSUME ArchiveAssumption, IInv, NEW c \in Clients, op[c].pc = "undo",
         NEW container \in Containers, NEW done \in SUBSET Flags,
         Runtime(c, container), GotoDone(c, "undo", done),
         Leaving(c, op[c].cur) =>
           /\ container = Aside(done)
           /\ done \in {{}, {"stopped"}, {"stopped", "disconnected"},
                        {"stopped", "disconnected", "renamed"}}
  PROVE  Goes(c)
<1> DEFINE x == op[c].cur
<1>1. TypeOK /\ op[c].pc \in PutsAside /\ "undo" \in PutsAside /\ "undo" \in Steps
      /\ x \in Services
  BY Names DEF IInv, PutsAside, Steps, Client, About, Cur
<1>2. op'[c].pc = "undo" /\ op'[c].done = done /\ op'[c].cur = x
  BY <1>1, GotoDoneIs
<1>3. ctr'[x] = container
  BY <1>1, ContainerIs
<1>4. UNCHANGED <<mark, rec, faults>>
  BY DEF Runtime, rows, bounds
<1>5. Leaving(c, x) => Leaving(c, x)'
  BY <1>1, <1>2, <1>3, <1>4 DEF Leaving, At
<1> QED  BY <1>1, <1>5, AsideStep

LEMMA UndoArchiveGoes ==
  ASSUME ArchiveAssumption, IInv, NEW c \in Clients, UndoArchive(c)
  PROVE  Goes(c)
<1> DEFINE x == op[c].cur
           done == op[c].done
<1>1. TypeOK /\ Client(c) /\ op[c].pc = "undo" /\ op[c].pc \in PutsAside
      /\ x \in Stateful /\ x \in Services
  BY Names DEF IInv, UndoArchive, At, PutsAside, Client, About, Cur
<1>2. Archiving(c) /\ ~Restoring(c) /\ op[c].kind # "none" /\ locks[x] = c
  BY <1>1, KindAt DEF Client, Paths, Locked, Cur, Archiving, Archives
<1>3. /\ \A y : ~Removing(c, y)
      /\ \A y : y # x => ~WorksOn(c, y)
  BY <1>1 DEF Removing, WorksOn, At, Cur
<1>4. Alright(c, x) => Leaving(c, x)
  BY <1>1 DEF Alright, WorksOn, Cur
<1>5. Leaving(c, x) =>
        /\ mark[x] = 0 /\ rec[x] = Recorded /\ ctr[x] = Aside(done) /\ faults > 0
        /\ done \in {{}, {"stopped"}, {"stopped", "disconnected"},
                     {"stopped", "disconnected", "renamed"}}
  BY <1>1 DEF Leaving, At
<1>6. done \in SUBSET Flags /\ done \ {"renamed"} \in SUBSET Flags
      /\ done \ {"disconnected"} \in SUBSET Flags /\ {} \in SUBSET Flags
  BY <1>1, FieldsOf
<1>7. faults \in Nat /\ MaxFaults \in Nat /\ faults \in 0..MaxFaults /\ last \in Archived
  BY <1>1 DEF TypeOK, ArchiveAssumption
<1>8. CASE /\ "renamed" \in done
           /\ Runtime(c, Named(c, rec[x].name)) /\ GotoDone(c, "undo", done \ {"renamed"})
  <2>1. rec[x].name \in {"canonical", "preserved"}
    BY <1>1 DEF TypeOK
  <2>2. Named(c, rec[x].name) \in Containers
    BY <1>1, <2>1, ContainerIs
  <2>3. Leaving(c, x) =>
          /\ Named(c, rec[x].name) = Aside({"stopped", "disconnected"})
          /\ done \ {"renamed"} = {"stopped", "disconnected"}
    <3> SUFFICES ASSUME Leaving(c, x)
                 PROVE  /\ Named(c, rec[x].name) = Aside({"stopped", "disconnected"})
                        /\ done \ {"renamed"} = {"stopped", "disconnected"}
      OBVIOUS
    <3>1. done = {"stopped", "disconnected", "renamed"}
      BY <1>5, <1>8
    <3>2. rec[x].name = "canonical"
      BY <1>5 DEF Recorded
    <3>3. ctr[x] = Aside({"stopped", "disconnected", "renamed"})
      BY <1>5, <3>1
    <3> QED  BY <3>1, <3>2, <3>3, Asides DEF Named, Cur
  <2> HIDE DEF x, done
  <2> QED  BY <1>1, <1>6, <1>8, <2>2, <2>3, UndoStepGoes DEF x
<1>9. CASE /\ "renamed" \notin done /\ "disconnected" \in done
           /\ Runtime(c, Connected(c, TRUE)) /\ GotoDone(c, "undo", done \ {"disconnected"})
  <2>1. Connected(c, TRUE) \in Containers
    BY <1>1, ContainerIs
  <2>2. Leaving(c, x) =>
          /\ Connected(c, TRUE) = Aside({"stopped"})
          /\ done \ {"disconnected"} = {"stopped"}
    <3> SUFFICES ASSUME Leaving(c, x)
                 PROVE  /\ Connected(c, TRUE) = Aside({"stopped"})
                        /\ done \ {"disconnected"} = {"stopped"}
      OBVIOUS
    <3>1. done = {"stopped", "disconnected"}
      BY <1>5, <1>9
    <3>2. ctr[x] = Aside({"stopped", "disconnected"})
      BY <1>5, <3>1
    <3> QED  BY <3>1, <3>2, Asides DEF Connected, Cur
  <2> HIDE DEF x, done
  <2> QED  BY <1>1, <1>6, <1>9, <2>1, <2>2, UndoStepGoes DEF x
<1>10. CASE /\ done = {"stopped"}
            /\ Runtime(c, Powered(c, TRUE)) /\ GotoDone(c, "undo", {})
  <2>1. Powered(c, TRUE) \in Containers
    BY <1>1, ContainerIs
  <2>2. Leaving(c, x) => Powered(c, TRUE) = Aside({})
    BY <1>5, <1>10, Asides DEF Powered, Cur
  <2> QED  BY <1>1, <1>6, <1>10, <2>1, <2>2, UndoStepGoes
<1>11. CASE Throw(c)
  <2>1. Leave(c) /\ faults' = faults + 1 /\ faults < MaxFaults
        /\ UNCHANGED <<rows, ctr, ops, crashes, why, torn, last>>
    BY <1>11 DEF Throw, Faulty, history
  <2>2. faults' \in 0..MaxFaults /\ faults' >= faults /\ faults' # 0 /\ last' \in Archived
    BY <1>7, <2>1
  <2>3. faults' <= 1 => \A y \in Stateful \ torn : ~WorksOn(c, y) \/ Handled(c, y)
    BY <1>2, <1>3, <1>4, <1>5, <1>7, <2>1 DEF Handled
  <2> QED  BY <1>2, <2>1, <2>2, <2>3, Quits
<1>12. CASE done = {} /\ Leave(c) /\ UNCHANGED <<rows, ctr, bounds, history>>
  <2>1. UNCHANGED <<mark, rec, ctr, ops, faults, crashes, why, last, torn>>
        /\ UNCHANGED <<rows, ctr, ops, crashes, why, torn>>
    BY <1>12 DEF rows, bounds, history
  <2>2. \A y : ~WorksOn(c, y)'
    BY <1>1, <1>12, LeaveIs
  <2>3. ASSUME NEW y \in Stateful PROVE ~WorksOn(c, y) \/ Handled(c, y)
    <3>1. CASE y # x
      BY <1>3, <3>1
    <3>2. CASE y = x
      <4>1. Leaving(c, y) => Settled(y)'
        BY <1>5, <1>12, <2>1, <3>2, Asides DEF Settled
      <4> QED  BY <1>2, <1>4, <2>2, <3>2, <4>1 DEF Handled, Alright
    <3> QED  BY <3>1, <3>2
  <2> QED  BY <1>2, <1>3, <1>7, <1>12, <2>1, <2>3, Quits
<1> QED  BY <1>8, <1>9, <1>10, <1>11, <1>12 DEF UndoArchive, UndoStep, Cur

-----------------------------------------------------------------------------
(* The steps of a restore.                                                 *)
LEMMA VisitRestoreGoes ==
  ASSUME ArchiveAssumption, IInv, NEW c \in Clients, VisitRestore(c)
  PROVE  Goes(c)
<1> DEFINE x == op[c].cur
<1>1. TypeOK /\ Client(c) /\ op[c].pc = "visit" /\ op[c] \in Operations /\ Still
      /\ UNCHANGED <<row, mark, rec, ctr, faults, torn>>
  BY DEF IInv, VisitRestore, At, TypeOK, Still, rows, bounds, history
<1>2. Restoring(c) /\ ~Archiving(c) /\ op[c].kind # "none"
  BY DEF VisitRestore, Archiving, Restoring, Archives, Restores
<1>3. \A y : ~WorksOn(c, y) /\ ~Removing(c, y)
  BY <1>1 DEF WorksOn, Removing, PutsAside, TakesBack, Resumes, At
<1>4. x \in Services /\ "found" \notin op[c].done
  BY <1>1, <1>2 DEF Client, About, At, Cur, Common, Resuming
<1>5. CASE Goto(c, "next")
  <2>1. Client(c)' /\ (\A y : ~WorksOn(c, y)')
        /\ op' \in [Clients -> Operations]
        /\ (\A d \in Clients \ {c} : op'[d] = op[d])
        /\ op'[c].kind = op[c].kind
    BY <1>1, <1>2, <1>4, <1>5, CalmGoto DEF Still
  <2> QED  BY <1>1, <1>2, <1>3, <2>1, Plain
<1>6. CASE /\ Matching(x) # {}
           /\ Go(c, [op[c] EXCEPT !.kids = Matching(x), !.root = x, !.pc = "next"])
  <2> DEFINE o == [op[c] EXCEPT !.kids = Matching(x), !.root = x, !.pc = "next"]
  <2>1. x \in Deployables /\ Matching(x) \subseteq Kids
    BY <1>6, Names DEF Matching, ChildrenOf
  <2>2. o \in Operations
    BY <1>1, <2>1 DEF Operations, Steps
  <2>3. /\ o.kind = op[c].kind /\ o.target = op[c].target /\ o.id = op[c].id
        /\ o.pc = "next" /\ o.done = op[c].done
    BY <1>1 DEF Operations
  <2>4. Go(c, o)
    BY <1>6
  <2> HIDE DEF o
  <2>5. op' \in [Clients -> Operations] /\ op'[c] = o
        /\ \A d \in Clients \ {c} : op'[d] = op[d]
    BY <1>1, <2>2, <2>4, GoIs
  <2>6. Client(c)' /\ \A y : ~WorksOn(c, y)'
    BY <1>1, <1>2, <1>4, <2>3, <2>5, CalmClient DEF Client
  <2> QED  BY <1>1, <1>2, <1>3, <2>3, <2>5, <2>6, Plain
<1>7. CASE /\ ~(row[x] = 0 /\ mark[x] = 0) /\ x \in Kids
           /\ GotoDone(c, "resume", {"found"})
  <2>1. /\ op' \in [Clients -> Operations]
        /\ \A d \in Clients \ {c} : op'[d] = op[d]
        /\ op'[c].pc = "resume" /\ op'[c].done = {"found"}
        /\ op'[c].kind = op[c].kind /\ op'[c].target = op[c].target
        /\ op'[c].cur = op[c].cur
    <3>1. TypeOK /\ "resume" \in Steps /\ {"found"} \in SUBSET Flags
      BY <1>1 DEF Steps, Flags
    <3> QED  BY <1>7, <3>1, GotoDoneIs
  <2>2. Paths(c)' /\ Locked(c)'
    BY <1>1, <1>2, <2>1 DEF Client, Paths, Locked, Archiving, Restoring, RestoreSteps,
          TakesBack, Resumes
  <2>3. About(c)'
    BY <1>4, <1>7, <2>1 DEF About, At, Cur, PutsAside, TakesBack, Resumes, Resuming, Common
  <2>4. ASSUME NEW y \in Stateful
        PROVE  (~WorksOn(c, y) /\ ~WorksOn(c, y)') \/ Handled(c, y)
    <3>1. CASE y # x
      BY <1>3, <2>1, <3>1 DEF WorksOn, Cur
    <3>2. CASE y = x
      <4>1. mark[y] # 0
        BY <1>7, <3>2 DEF IInv, Rows
      <4>2. Settled(y) => Coming(c, y)'
        BY <1>1, <2>1, <4>1 DEF Settled, Coming, At
      <4>3. WorksOn(c, y)' /\ op'[c].pc \notin PutsAside
        BY <2>1, <3>2 DEF WorksOn, Cur, PutsAside, TakesBack, Resumes
      <4>4. Alright(c, y) => Alright(c, y)'
        BY <1>3, <4>2, <4>3 DEF Alright
      <4> QED  BY <1>2, <4>4 DEF Handled
    <3> QED  BY <3>1, <3>2
  <2>5. torn \subseteq Kids
    BY <1>1 DEF TypeOK
  <2> QED  BY <1>1, <1>2, <1>3, <2>1, <2>2, <2>3, <2>4, <2>5, Moves
             DEF Client, Still, rows, bounds, history
<1>8. CASE x \notin Stateful /\ GotoDone(c, "clearRow", {})
  <2>1. /\ op' \in [Clients -> Operations]
        /\ \A d \in Clients \ {c} : op'[d] = op[d]
        /\ op'[c].pc = "clearRow" /\ op'[c].done = {}
        /\ op'[c].kind = op[c].kind /\ op'[c].target = op[c].target
        /\ op'[c].cur = op[c].cur
    BY <1>1, <1>8, GotoDoneIs, StepNames
  <2>2. Paths(c)' /\ Locked(c)'
    BY <1>1, <1>2, <2>1 DEF Client, Paths, Locked, Archiving, Restoring, RestoreSteps,
          TakesBack
  <2>3. About(c)'
    BY <1>4, <1>8, <2>1 DEF About, At, Cur, PutsAside, TakesBack, Resumes, Resuming, Common
  <2>4. \A y \in Stateful : ~WorksOn(c, y)'
    BY <1>8, <2>1 DEF WorksOn, Cur
  <2> QED  BY <1>1, <1>2, <1>3, <2>1, <2>2, <2>3, <2>4, Plain DEF Client
<1> QED
  <2>1. x \in Stateful => x \in Kids /\ rec[x].cid
    BY Names DEF IInv, Rows
  <2> QED  BY <1>5, <1>6, <1>7, <1>8, <2>1 DEF VisitRestore, Cur

(* A resource that is taken back stays in the hands of its restore.        *)
LEMMA BackClient ==
  ASSUME ArchiveAssumption, IInv, NEW c \in Clients, op[c].pc \in TakesBack,
         op'[c].pc \in TakesBack,
         op'[c].kind = op[c].kind, op'[c].target = op[c].target, op'[c].cur = op[c].cur,
         op'[c].pc \in Resumes => "found" \in op'[c].done,
         op'[c].pc \in Resumes \cup {"record", "release"} => op[c].cur \in Kids,
         op'[c].pc \in {"clearRow", "clearMark"} =>
           /\ op[c].cur \in Stateful => "found" \in op'[c].done
           /\ "found" \in op'[c].done => op[c].cur \in Kids,
         op'[c].pc \in {"clearMark", "record"} => row'[op[c].cur] = 0
  PROVE  /\ Client(c)' /\ Restoring(c) /\ op[c].kind # "none" /\ op[c].cur \in Services
         /\ \A x : ~Removing(c, x)
         /\ \A x : x # op[c].cur => ~WorksOn(c, x) /\ ~WorksOn(c, x)'
<1>1. TypeOK /\ Client(c) /\ Restoring(c) /\ ~Archiving(c) /\ op[c].kind # "none"
      /\ op[c].cur \in Services
  BY KindAt DEF IInv, Client, Restoring, Restores, About, Cur
<1>2. op'[c].pc \notin PutsAside \cup Common
                         \cup {"row", "remove", "clear", "unset", "lock", "port", "unmark"}
  BY DEF PutsAside, Resumes, TakesBack, Common
<1>3. Paths(c)' /\ Locked(c)'
  BY <1>1 DEF Client, Paths, Locked, Archiving, Restoring, RestoreSteps
<1>4. About(c)'
  BY <1>1, <1>2 DEF About, At, Cur, Resuming, Common
<1>5. \A x : ~Removing(c, x)
  BY DEF Removing, TakesBack, Resumes, At
<1> QED  BY <1>1, <1>3, <1>4, <1>5 DEF Client, WorksOn, Cur

LEMMA BackStep ==
  ASSUME ArchiveAssumption, IInv, NEW c \in Clients, op[c].pc \in Resumes \cup {"release"},
         NEW container \in Containers,
         NEW s \in Resumes \cup {"clearRow", "release"}, NEW done \in SUBSET Flags,
         s # "release" => "found" \in done,
         Runtime(c, container), GotoDone(c, s, done),
         \A x \in Stateful : x = op[c].cur /\ Coming(c, x) => Coming(c, x)'
  PROVE  Goes(c)
<1> DEFINE x == op[c].cur
<1>1. TypeOK /\ s \in Steps
      /\ ctr' = [ctr EXCEPT ![x] = container]
      /\ UNCHANGED <<row, mark, rec, locks, ops, faults, crashes, why, last, torn>>
  BY DEF IInv, Steps, Resumes, Runtime, rows, bounds, history, Cur
<1>2. /\ op' \in [Clients -> Operations]
      /\ \A d \in Clients \ {c} : op'[d] = op[d]
      /\ op'[c].pc = s /\ op'[c].done = done
      /\ op'[c].kind = op[c].kind /\ op'[c].target = op[c].target
      /\ op'[c].cur = op[c].cur
  BY <1>1, GotoDoneIs
<1>3. op[c].pc \in TakesBack /\ s \in TakesBack /\ s \notin {"record", "clearMark"}
      /\ op[c].cur \in Kids
  BY DEF TakesBack, Resumes, IInv, Client, About, Cur
<1>4. /\ Client(c)' /\ Restoring(c) /\ op[c].kind # "none" /\ x \in Services
      /\ \A y : ~Removing(c, y)
      /\ \A y : y # x => ~WorksOn(c, y) /\ ~WorksOn(c, y)'
  BY <1>2, <1>3, BackClient DEF Resumes
<1>5. TypeOK'
  BY <1>1, <1>2 DEF TypeOK
<1>6. Frame(c)
  BY <1>1, <1>2 DEF Frame, TypeOK
<1>7. Rows'
  BY <1>1 DEF IInv, Rows
<1>8. ASSUME NEW y \in Stateful PROVE Untouched(c, y) \/ Handled(c, y)
  <2>1. CASE y # x
    BY <1>1, <1>4, <2>1 DEF Untouched, TypeOK
  <2>2. CASE y = x
    <3>1. s \notin PutsAside /\ op[c].pc \notin PutsAside
      BY <1>3 DEF PutsAside, TakesBack, Resumes
    <3>2. Coming(c, y) => Coming(c, y)'
      BY <2>2
    <3>3. Alright(c, y) => Alright(c, y)'
      BY <1>2, <1>3, <2>2, <3>1, <3>2 DEF Alright, WorksOn, Cur
    <3> QED  BY <1>4, <3>3 DEF Handled
  <2> QED  BY <2>1, <2>2
<1>9. \A y \in Leaves : Cleared(c, y)
  <2>1. x \notin Leaves
    BY <1>3, Names
  <2> QED  BY <1>1, <1>4, <2>1, Names DEF Cleared, TypeOK
<1> QED  BY <1>2, <1>4, <1>5, <1>6, <1>7, <1>8, <1>9 DEF Goes, Turn

LEMMA BackCaught ==
  ASSUME ArchiveAssumption, IInv, NEW c \in Clients,
         op[c].pc \in Resumes \cup {"clearRow", "clearMark"}, Resuming(c),
         Caught(c, "release")
  PROVE  Goes(c)
<1> DEFINE x == op[c].cur
<1>1. TypeOK /\ "release" \in Steps /\ Goto(c, "release")
      /\ faults' = faults + 1 /\ faults < MaxFaults
      /\ UNCHANGED <<row, mark, rec, ctr, locks, ops, crashes, why, last, torn>>
  BY DEF IInv, Steps, Caught, Faulty, rows, history
<1>2. faults \in Nat /\ MaxFaults \in Nat /\ faults' \in 0..MaxFaults /\ faults' > 0
  BY <1>1 DEF TypeOK, ArchiveAssumption
<1>3. /\ op' \in [Clients -> Operations]
      /\ \A d \in Clients \ {c} : op'[d] = op[d]
      /\ op'[c].pc = "release" /\ op'[c].done = op[c].done
      /\ op'[c].kind = op[c].kind /\ op'[c].target = op[c].target
      /\ op'[c].cur = op[c].cur
  BY <1>1, GotoIs
<1>4. op[c].pc \in TakesBack /\ "release" \in TakesBack /\ "release" \notin Resumes
      /\ op[c].pc # "record" /\ op[c].cur \in Kids
  BY DEF TakesBack, Resumes, IInv, Client, About, Cur
<1>5. /\ Client(c)' /\ Restoring(c) /\ op[c].kind # "none"
      /\ \A y : y # x => ~WorksOn(c, y) /\ ~WorksOn(c, y)'
  BY <1>3, <1>4, BackClient
<1>6. TypeOK'
  BY <1>1, <1>2, <1>3 DEF TypeOK
<1>7. Frame(c)
  BY <1>1, <1>2, <1>3 DEF Frame, TypeOK
<1>8. Rows'
  BY <1>1 DEF IInv, Rows
<1>9. ASSUME NEW y \in Stateful PROVE Untouched(c, y) \/ Handled(c, y)
  <2>1. CASE y # x
    BY <1>1, <1>5, <2>1 DEF Untouched
  <2>2. CASE y = x
    <3>1. Coming(c, y) => Coming(c, y)'
      BY <1>1, <1>2, <1>3, <1>4 DEF Coming, At
    <3>2. op[c].pc \notin PutsAside /\ "release" \notin PutsAside
      BY <1>4 DEF PutsAside, TakesBack, Resumes
    <3>3. Alright(c, y) => Alright(c, y)'
      BY <1>3, <1>4, <2>2, <3>1, <3>2 DEF Alright, WorksOn, Cur
    <3> QED  BY <1>5, <3>3 DEF Handled
  <2> QED  BY <2>1, <2>2
<1> QED  BY <1>2, <1>3, <1>5, <1>6, <1>7, <1>8, <1>9 DEF Goes, Turn

LEMMA ResumeNameGoes ==
  ASSUME ArchiveAssumption, IInv, NEW c \in Clients, ResumeName(c)
  PROVE  Goes(c)
<1> DEFINE x == op[c].cur
           done == op[c].done \cup (IF rec[x].name = "canonical" THEN {} ELSE {"renamed"})
<1>1. TypeOK /\ op[c].pc = "resume" /\ op[c].pc \in Resumes /\ Resuming(c)
      /\ x \in Services /\ "connect" \in Resumes /\ "connect" \in Steps
  BY Names DEF IInv, ResumeName, Try, At, Resumes, Client, About, Cur, Steps
<1>2. done \in SUBSET Flags /\ "found" \in done
  BY <1>1, FieldsOf DEF Flags, Resuming
<1>3. CASE Caught(c, "release")
  BY <1>1, <1>3, BackCaught
<1>4. CASE Runtime(c, Named(c, "canonical")) /\ GotoDone(c, "connect", done)
  <2>1. op'[c].pc = "connect" /\ op'[c].done = done
    BY <1>1, <1>2, <1>4, GotoDoneIs
  <2>2. ctr'[x] = Named(c, "canonical") /\ Named(c, "canonical") \in Containers
        /\ ctr[x] \in Containers
    BY <1>1, <1>4, ContainerIs
  <2>3. UNCHANGED <<mark, rec, faults>>
    BY <1>4 DEF Runtime, rows, bounds
  <2>4. ASSUME NEW y \in Stateful, y = x, Coming(c, y) PROVE Coming(c, y)'
    <3>1. op[c].done = {"found"} /\ rec[y] = Retained /\ mark[y] # 0 /\ ~ctr[y].net
      BY <1>1, <2>4 DEF Coming, At
    <3>2. done = {"found", "renamed"}
      BY <2>4, <3>1 DEF Retained
    <3>3. ctr'[y].name = "canonical" /\ ~ctr'[y].net
      BY <2>2, <2>4, <3>1 DEF Named, Cur, Containers
    <3>4. op'[c].done = {"found", "renamed"}
      BY <2>1, <3>2
    <3> QED  BY <2>1, <2>3, <3>1, <3>3, <3>4 DEF Coming, At
  <2> QED  BY <1>1, <1>2, <1>4, <2>2, <2>4, BackStep
<1> QED  BY <1>3, <1>4 DEF ResumeName, Try, Cur

LEMMA ResumeNetworkGoes ==
  ASSUME ArchiveAssumption, IInv, NEW c \in Clients, ResumeNetwork(c)
  PROVE  Goes(c)
<1> DEFINE x == op[c].cur
           done == op[c].done \cup {"connected"}
<1>1. TypeOK /\ op[c].pc = "connect" /\ op[c].pc \in Resumes /\ Resuming(c)
      /\ x \in Services /\ "start" \in Resumes /\ "start" \in Steps
  BY Names DEF IInv, ResumeNetwork, Try, At, Resumes, Client, About, Cur, Steps
<1>2. done \in SUBSET Flags /\ "found" \in done
  BY <1>1, FieldsOf DEF Flags, Resuming
<1>3. CASE Caught(c, "release")
  BY <1>1, <1>3, BackCaught
<1>4. CASE Runtime(c, Connected(c, TRUE)) /\ GotoDone(c, "start", done)
  <2>1. op'[c].pc = "start" /\ op'[c].done = done
    BY <1>1, <1>2, <1>4, GotoDoneIs
  <2>2. ctr'[x] = Connected(c, TRUE) /\ Connected(c, TRUE) \in Containers
        /\ ctr[x] \in Containers
    BY <1>1, <1>4, ContainerIs
  <2>3. UNCHANGED <<mark, rec, faults>>
    BY <1>4 DEF Runtime, rows, bounds
  <2>4. ASSUME NEW y \in Stateful, y = x, Coming(c, y) PROVE Coming(c, y)'
    <3>1. op[c].done = {"found", "renamed"} /\ rec[y] = Retained /\ mark[y] # 0
          /\ ctr[y].name = "canonical"
      BY <1>1, <2>4 DEF Coming, At
    <3>2. ctr'[y].name = "canonical" /\ ctr'[y].net
      BY <2>2, <2>4, <3>1 DEF Connected, Cur, Containers
    <3>3. op'[c].done = {"found", "renamed", "connected"}
      BY <2>1, <3>1
    <3> QED  BY <2>1, <2>3, <3>1, <3>2, <3>3 DEF Coming, At
  <2> QED  BY <1>1, <1>2, <1>4, <2>2, <2>4, BackStep
<1> QED  BY <1>3, <1>4 DEF ResumeNetwork, Try

LEMMA ResumeStartGoes ==
  ASSUME ArchiveAssumption, IInv, NEW c \in Clients, ResumeStart(c)
  PROVE  Goes(c)
<1> DEFINE x == op[c].cur
           done == op[c].done
<1>1. TypeOK /\ op[c].pc = "start" /\ op[c].pc \in Resumes /\ Resuming(c)
      /\ x \in Services /\ "clearRow" \in Steps
  BY Names DEF IInv, ResumeStart, Try, At, Resumes, Client, About, Cur, Steps
<1>2. done \in SUBSET Flags /\ "found" \in done
  BY <1>1, FieldsOf DEF Resuming
<1>3. CASE Caught(c, "release")
  BY <1>1, <1>3, BackCaught
<1>4. CASE Runtime(c, Powered(c, TRUE)) /\ GotoDone(c, "clearRow", done)
  <2>1. op'[c].pc = "clearRow" /\ op'[c].done = done
    BY <1>1, <1>2, <1>4, GotoDoneIs
  <2>2. ctr'[x] = Powered(c, TRUE) /\ Powered(c, TRUE) \in Containers
        /\ ctr[x] \in Containers
    BY <1>1, <1>4, ContainerIs
  <2>3. UNCHANGED <<mark, rec, faults>>
    BY <1>4 DEF Runtime, rows, bounds
  <2>4. ASSUME NEW y \in Stateful, y = x, Coming(c, y) PROVE Coming(c, y)'
    <3>1. done = {"found", "renamed", "connected"} /\ rec[y] = Retained /\ mark[y] # 0
          /\ ctr[y].name = "canonical" /\ ctr[y].net
      BY <1>1, <2>4 DEF Coming, At
    <3>2. ctr'[y].name = "canonical" /\ ctr'[y].net /\ ctr'[y].up
          /\ ctr'[y] \in Containers
      BY <2>2, <2>4, <3>1 DEF Powered, Cur, Containers
    <3>3. ctr'[y] = Serving
      BY <3>2 DEF Serving, Containers
    <3>4. op'[c].done = {"found", "renamed", "connected"}
      BY <2>1, <3>1
    <3> QED  BY <2>1, <2>3, <3>1, <3>2, <3>3, <3>4 DEF Coming, At
  <2> QED  BY <1>1, <1>2, <1>4, <2>2, <2>4, BackStep
<1> QED  BY <1>3, <1>4 DEF ResumeStart, Try

(* A write of the restore that throws.                                     *)
LEMMA WriteFailsGoes ==
  ASSUME ArchiveAssumption, IInv, NEW c \in Clients,
         op[c].pc \in {"clearRow", "clearMark"}, WriteFails(c)
  PROVE  Goes(c)
<1>1. CASE Resuming(c)
  BY <1>1, BackCaught DEF WriteFails
<1>2. CASE ~Resuming(c)
  <2>1. op[c].kind # "none" /\ op[c].cur \notin Stateful
    BY <1>2, KindAt DEF IInv, Client, About, Cur, Restoring, Restores, TakesBack
  <2>2. \A x \in Stateful : ~WorksOn(c, x)
    BY <2>1 DEF WorksOn, Cur
  <2> QED  BY <1>2, <2>1, <2>2, Thrown DEF WriteFails
<1> QED  BY <1>1, <1>2

LEMMA ClearRowGoes ==
  ASSUME ArchiveAssumption, IInv, NEW c \in Clients, ClearRow(c)
  PROVE  Goes(c)
<1> DEFINE x == op[c].cur
<1>1. TypeOK /\ op[c].pc = "clearRow" /\ op[c].pc \in TakesBack /\ Client(c)
  BY DEF IInv, ClearRow, At, TakesBack
<1>2. CASE WriteFails(c)
  BY <1>1, <1>2, WriteFailsGoes
<1>3. CASE /\ row' = [row EXCEPT ![Cur(c)] = 0] /\ Goto(c, "clearMark")
           /\ UNCHANGED <<mark, rec, ctr, locks, bounds, history>>
  <2>1. /\ op' \in [Clients -> Operations]
        /\ \A d \in Clients \ {c} : op'[d] = op[d]
        /\ op'[c].pc = "clearMark" /\ op'[c].done = op[c].done
        /\ op'[c].kind = op[c].kind /\ op'[c].target = op[c].target
        /\ op'[c].cur = op[c].cur
    BY <1>1, <1>3, GotoIs, StepNames
  <2>2. x \in Services /\ 0 \in Times
    BY <1>1 DEF Client, About, Cur, Times, ArchiveAssumption
  <2>3. row' = [row EXCEPT ![x] = 0] /\ row'[x] = 0 /\ row' \in [Services -> Times]
    BY <1>1, <1>3, <2>2 DEF TypeOK, Cur
  <2>4. UNCHANGED <<ops, faults, crashes, why, last, torn>>
    BY <1>3 DEF bounds, history
  <2>5. /\ Client(c)' /\ Restoring(c) /\ op[c].kind # "none"
        /\ \A y : ~Removing(c, y)
        /\ \A y : y # x => ~WorksOn(c, y) /\ ~WorksOn(c, y)'
    <3>1. /\ x \in Stateful => "found" \in op[c].done
          /\ "found" \in op[c].done => x \in Kids
      BY <1>1 DEF Client, About, Cur, Resuming
    <3>2. op'[c].pc \in TakesBack /\ op'[c].pc \notin Resumes \cup {"record", "release"}
      BY <2>1 DEF TakesBack, Resumes
    <3> QED  BY <1>1, <2>1, <2>3, <3>1, <3>2, BackClient
  <2>6. TypeOK'
    BY <1>1, <1>3, <2>1, <2>3, <2>4 DEF TypeOK
  <2>7. Frame(c)
    BY <1>1, <1>3, <2>1, <2>4 DEF Frame, TypeOK
  <2>8. Rows'
    BY <1>1, <1>3, <2>3, Names DEF IInv, Rows, TypeOK
  <2>9. ASSUME NEW y \in Stateful PROVE Untouched(c, y) \/ Handled(c, y)
    <3>1. CASE y # x
      BY <1>3, <2>5, <3>1 DEF Untouched
    <3>2. CASE y = x
      <4>1. Coming(c, y) => Coming(c, y)'
        BY <1>1, <1>3, <2>1, <2>4 DEF Coming, At, Serving
      <4>2. op'[c].pc \in TakesBack \ PutsAside /\ op[c].pc \notin PutsAside
        BY <1>1, <2>1 DEF PutsAside, TakesBack, Resumes
      <4>3. Alright(c, y) => Alright(c, y)'
        BY <1>1, <2>1, <3>2, <4>1, <4>2 DEF Alright, WorksOn, Cur
      <4> QED  BY <2>5, <4>3 DEF Handled
    <3> QED  BY <3>1, <3>2
  <2>10. \A y \in Leaves : Cleared(c, y)
    BY <1>3, <2>5 DEF Cleared
  <2> QED  BY <2>1, <2>5, <2>6, <2>7, <2>8, <2>9, <2>10 DEF Goes, Turn
<1> QED  BY <1>2, <1>3 DEF ClearRow

LEMMA ClearMarkGoes ==
  ASSUME ArchiveAssumption, IInv, NEW c \in Clients, ClearMark(c)
  PROVE  Goes(c)
<1> DEFINE x == op[c].cur
<1>1. TypeOK /\ op[c].pc = "clearMark" /\ op[c].pc \in TakesBack /\ Client(c)
  BY DEF IInv, ClearMark, At, TakesBack
<1>2. Restoring(c) /\ ~Archiving(c) /\ op[c].kind # "none" /\ x \in Services
      /\ row[x] = 0 /\ (x \in Stateful => Resuming(c)) /\ (Resuming(c) => x \in Kids)
  BY <1>1, KindAt DEF Client, About, Cur, Restoring, Restores
<1>3. CASE WriteFails(c)
  BY <1>1, <1>3, WriteFailsGoes
<1>4. CASE /\ mark' = [mark EXCEPT ![Cur(c)] = 0] /\ why' = [why EXCEPT ![Cur(c)] = 0]
           /\ Goto(c, IF Resuming(c) THEN "record"
                      ELSE IF Cur(c) \in Kids THEN "next" ELSE "port")
           /\ UNCHANGED <<row, rec, ctr, locks, bounds, last, torn>>
  <2>1. UNCHANGED <<ops, faults, crashes>>
    BY <1>4 DEF bounds
  <2>2. mark' = [mark EXCEPT ![x] = 0] /\ mark'[x] = 0
        /\ mark' \in [Services -> Times] /\ why' \in [Services -> Times]
    <3>1. 0 \in Times
      BY DEF Times, ArchiveAssumption
    <3> QED  BY <1>1, <1>2, <1>4, <3>1 DEF TypeOK, Cur
  <2>3. /\ op' \in [Clients -> Operations]
        /\ \A d \in Clients \ {c} : op'[d] = op[d]
        /\ op'[c].done = op[c].done
        /\ op'[c].pc \in {"record", "next", "port"}
        /\ (op'[c].pc = "record" <=> Resuming(c))
        /\ op'[c].kind = op[c].kind /\ op'[c].target = op[c].target
        /\ op'[c].cur = op[c].cur
    <3>1. CASE Resuming(c)
      BY <1>1, <1>4, <3>1, GotoIs, StepNames
    <3>2. CASE ~Resuming(c)
      <4>1. PICK s \in {"next", "port"} : Goto(c, s)
        BY <1>4, <3>2
      <4> QED  BY <1>1, <3>2, <4>1, GotoIs, StepNames
    <3> QED  BY <3>1, <3>2
  <2>4. /\ Client(c)'
        /\ \A y : ~Removing(c, y)
        /\ \A y : y # x => ~WorksOn(c, y) /\ ~WorksOn(c, y)'
    <3>1. \A y : ~Removing(c, y)
      BY <1>1 DEF Removing, At
    <3>2. \A y : y # x => ~WorksOn(c, y) /\ ~WorksOn(c, y)'
      BY <2>3 DEF WorksOn, Cur
    <3>3. CASE Resuming(c)
      <4>1. op'[c].pc = "record" /\ op'[c].pc \in TakesBack /\ op'[c].pc \notin Resumes
        BY <2>3, <3>3 DEF TakesBack, Resumes
      <4> QED  BY <1>1, <1>2, <1>4, <2>3, <3>1, <3>2, <3>3, <4>1, BackClient
    <3>4. CASE ~Resuming(c)
      <4>1. PICK s \in {"next", "port"} : Goto(c, s)
        BY <1>4, <3>4
      <4>2. "found" \notin op[c].done
        BY <3>4 DEF Resuming
      <4>3. Client(c)'
        BY <1>2, <1>4, <4>1, <4>2, CalmGoto
      <4> QED  BY <3>1, <3>2, <4>3
    <3> QED  BY <3>3, <3>4
  <2>5. TypeOK'
    BY <1>1, <1>4, <2>1, <2>2, <2>3 DEF TypeOK
  <2>6. Frame(c)
    BY <1>1, <1>2, <1>4, <2>1, <2>3 DEF Frame, TypeOK
  <2>7. Rows'
    BY <1>1, <1>2, <1>4, <2>2, Names DEF IInv, Rows, TypeOK
  <2>8. ASSUME NEW y \in Stateful PROVE Untouched(c, y) \/ Handled(c, y)
    <3>1. CASE y # x
      <4>1. y \in Services
        BY Names
      <4> QED  BY <1>1, <1>4, <2>2, <2>4, <3>1, <4>1 DEF Untouched, TypeOK
    <3>2. CASE y = x
      <4>1. op'[c].pc = "record"
        BY <1>2, <2>3, <3>2
      <4>2. Coming(c, y) => Coming(c, y)'
        BY <1>1, <1>4, <2>1, <2>2, <2>3, <3>2, <4>1 DEF Coming, At, Serving
      <4>3. "record" \in TakesBack \ PutsAside /\ op[c].pc \notin PutsAside
        BY <1>1 DEF PutsAside, TakesBack, Resumes
      <4>4. Alright(c, y) => Alright(c, y)'
        BY <1>1, <2>3, <3>2, <4>1, <4>2, <4>3 DEF Alright, WorksOn, Cur
      <4> QED  BY <1>2, <4>4 DEF Handled
    <3> QED  BY <3>1, <3>2
  <2>9. ASSUME NEW y \in Leaves PROVE Cleared(c, y)
    <3>1. y \in Services
      BY Names
    <3> QED  BY <1>1, <1>4, <2>2, <2>4, <3>1 DEF Cleared, TypeOK
  <2> QED  BY <1>2, <2>3, <2>4, <2>5, <2>6, <2>7, <2>8, <2>9 DEF Goes, Turn
<1> QED  BY <1>3, <1>4 DEF ClearMark

LEMMA RecordResourceGoes ==
  ASSUME ArchiveAssumption, IInv, NEW c \in Clients, RecordResource(c)
  PROVE  Goes(c)
<1> DEFINE x == op[c].cur
<1>1. TypeOK /\ op[c].pc = "record" /\ op[c].pc \in TakesBack /\ Client(c)
  BY DEF IInv, RecordResource, At, TakesBack
<1>2. Restoring(c) /\ ~Archiving(c) /\ op[c].kind # "none" /\ x \in Services
      /\ row[x] = 0 /\ x \in Kids
      /\ \A y : ~Removing(c, y)
  BY <1>1, KindAt DEF Client, About, Cur, Restoring, Restores, Removing, At
<1>3. \A y : y # x => ~WorksOn(c, y)
  BY DEF WorksOn, Cur
<1>4. CASE /\ mark' = [mark EXCEPT ![Cur(c)] = 0]
           /\ rec' = [rec EXCEPT ![Cur(c)] = Recorded]
           /\ GotoDone(c, "next", {})
           /\ UNCHANGED <<row, ctr, locks, bounds, history>>
  <2>1. UNCHANGED <<ops, faults, crashes, why, last, torn>>
    BY <1>4 DEF bounds, history
  <2>2. /\ mark' = [mark EXCEPT ![x] = 0] /\ mark'[x] = 0
        /\ mark' \in [Services -> Times]
        /\ rec' = [rec EXCEPT ![x] = Recorded] /\ rec'[x] = Recorded
        /\ rec' \in [Services -> [cid : BOOLEAN, name : {"canonical", "preserved"}]]
    <3>1. 0 \in Times
      BY DEF Times, ArchiveAssumption
    <3> QED  BY <1>1, <1>2, <1>4, <3>1 DEF TypeOK, Cur, Recorded
  <2>3. /\ op' \in [Clients -> Operations]
        /\ \A d \in Clients \ {c} : op'[d] = op[d]
        /\ op'[c].pc = "next" /\ op'[c].done = {}
        /\ op'[c].kind = op[c].kind /\ op'[c].target = op[c].target
        /\ op'[c].id = op[c].id
    BY <1>1, <1>4, GotoDoneIs, StepNames
  <2>4. Client(c)' /\ \A y : ~WorksOn(c, y)'
    BY <1>1, <1>2, <2>3, CalmClient DEF Client
  <2>5. TypeOK'
    BY <1>1, <1>4, <2>1, <2>2, <2>3 DEF TypeOK
  <2>6. Frame(c)
    BY <1>1, <1>2, <1>4, <2>1, <2>3 DEF Frame, TypeOK
  <2>7. Rows'
    BY <1>1, <1>2, <1>4, <2>2, Names DEF IInv, Rows, TypeOK, Recorded
  <2>8. ASSUME NEW y \in Stateful PROVE Untouched(c, y) \/ Handled(c, y)
    <3>1. CASE y # x
      <4>1. y \in Services
        BY Names
      <4> QED  BY <1>1, <1>3, <1>4, <2>2, <2>4, <3>1, <4>1 DEF Untouched, TypeOK
    <3>2. CASE y = x
      <4>1. Alright(c, y) => ctr[y] = Serving
        BY <1>1, <3>2 DEF Alright, WorksOn, Cur, Coming, At
      <4>2. ctr[y] = Serving => Settled(y)'
        BY <1>4, <2>2, <3>2 DEF Settled
      <4> QED  BY <1>2, <2>4, <4>1, <4>2 DEF Handled, Alright
    <3> QED  BY <3>1, <3>2
  <2>9. ASSUME NEW y \in Leaves PROVE Cleared(c, y)
    <3>1. y \in Services
      BY Names
    <3> QED  BY <1>1, <1>2, <1>4, <2>2, <3>1 DEF Cleared, TypeOK
  <2> QED  BY <1>2, <2>3, <2>4, <2>5, <2>6, <2>7, <2>8, <2>9 DEF Goes, Turn
<1>5. CASE /\ Faulty /\ Goto(c, "release") /\ torn' = torn \cup {Cur(c)}
           /\ UNCHANGED <<rows, ctr, locks, ops, crashes, why, last>>
  <2>1. /\ faults' = faults + 1 /\ faults < MaxFaults /\ torn' = torn \cup {x}
        /\ UNCHANGED <<row, mark, rec, ctr, locks, ops, crashes, why, last>>
    BY <1>5 DEF Faulty, rows, Cur
  <2>2. faults \in Nat /\ MaxFaults \in Nat /\ faults' \in 0..MaxFaults /\ faults' > 0
    BY <1>1, <2>1 DEF TypeOK, ArchiveAssumption
  <2>3. /\ op' \in [Clients -> Operations]
        /\ \A d \in Clients \ {c} : op'[d] = op[d]
        /\ op'[c].pc = "release"
        /\ op'[c].kind = op[c].kind /\ op'[c].target = op[c].target
        /\ op'[c].cur = op[c].cur
    BY <1>1, <1>5, GotoIs, StepNames
  <2>4. op'[c].pc \in TakesBack /\ op'[c].pc \notin Resumes
    BY <2>3 DEF TakesBack, Resumes
  <2>5. Client(c)' /\ \A y : y # x => ~WorksOn(c, y)'
    BY <1>1, <1>2, <2>3, <2>4, BackClient
  <2>6. TypeOK'
    BY <1>1, <1>2, <2>1, <2>2, <2>3 DEF TypeOK
  <2>7. Frame(c)
    BY <1>1, <2>1, <2>2, <2>3 DEF Frame, TypeOK
  <2>8. Rows'
    BY <2>1 DEF IInv, Rows
  <2>9. \A y \in Stateful \ torn' : Untouched(c, y)
    BY <1>3, <2>1, <2>5 DEF Untouched
  <2> QED  BY <1>2, <2>2, <2>3, <2>5, <2>6, <2>7, <2>8, <2>9 DEF Goes, Turn
<1> QED  BY <1>4, <1>5 DEF RecordResource

LEMMA AllocatePortGoes ==
  ASSUME ArchiveAssumption, IInv, NEW c \in Clients, AllocatePort(c)
  PROVE  Goes(c)
<1>1. TypeOK /\ Client(c) /\ op[c].pc = "port"
  BY DEF IInv, AllocatePort, At
<1>2. Restoring(c) /\ ~Archiving(c) /\ op[c].kind # "none" /\ "found" \notin op[c].done
  BY <1>1, KindAt DEF Client, About, Restoring, Restores, Resuming
<1>3. \A x : ~WorksOn(c, x) /\ ~Removing(c, x)
  BY <1>1 DEF WorksOn, Removing, PutsAside, TakesBack, Resumes, At
<1>4. CASE Throw(c)
  BY <1>2, <1>3, <1>4, Thrown
<1>5. CASE Goto(c, "next") /\ Still
  <2>1. Client(c)' /\ (\A y : ~WorksOn(c, y)')
        /\ op' \in [Clients -> Operations]
        /\ (\A d \in Clients \ {c} : op'[d] = op[d])
        /\ op'[c].kind = op[c].kind
    BY <1>2, <1>5, CalmGoto DEF Still
  <2> QED  BY <1>2, <1>3, <1>5, <2>1, Plain
<1> QED  BY <1>4, <1>5 DEF AllocatePort

LEMMA ReleaseResourceGoes ==
  ASSUME ArchiveAssumption, IInv, NEW c \in Clients, ReleaseResource(c)
  PROVE  Goes(c)
<1> DEFINE x == op[c].cur
           done == op[c].done
<1>1. TypeOK /\ Client(c) /\ op[c].pc = "release" /\ op[c].pc \in TakesBack
      /\ x \in Kids /\ x \in Services
  BY Names DEF IInv, ReleaseResource, At, TakesBack, Client, About, Cur
<1>2. Restoring(c) /\ ~Archiving(c) /\ op[c].kind # "none"
  BY <1>1, KindAt DEF Restoring, Restores, Client
<1>3. /\ \A y : ~Removing(c, y)
      /\ \A y : y # x => ~WorksOn(c, y)
      /\ \A y : y = x /\ Alright(c, y) => Coming(c, y)
  BY <1>1 DEF Removing, WorksOn, At, Cur, Alright
<1>4. \A y : Coming(c, y) =>
        /\ mark[y] # 0 /\ rec[y] = Retained /\ faults > 0
        /\ ctr[y].name = IF "renamed" \in done THEN "canonical" ELSE "preserved"
        /\ ctr[y].net <=> "connected" \in done
  BY <1>1 DEF Coming, At
<1>5. done \ {"connected"} \in SUBSET Flags /\ done \ {"renamed"} \in SUBSET Flags
  BY <1>1, FieldsOf
<1>6. faults \in Nat /\ MaxFaults \in Nat /\ faults \in 0..MaxFaults /\ last \in Archived
  BY <1>1 DEF TypeOK, ArchiveAssumption
<1>7. CASE /\ "connected" \in done
           /\ Runtime(c, Connected(c, FALSE)) /\ GotoDone(c, "release", done \ {"connected"})
  <2>1. op'[c].pc = "release" /\ op'[c].done = done \ {"connected"}
    <3>1. TypeOK /\ "release" \in Steps
      BY <1>1 DEF Steps
    <3> QED  BY <1>5, <1>7, <3>1, GotoDoneIs
  <2>2. ctr'[x] = Connected(c, FALSE) /\ Connected(c, FALSE) \in Containers
        /\ ctr[x] \in Containers
    BY <1>1, <1>7, ContainerIs
  <2>3. UNCHANGED <<mark, rec, faults>>
    BY <1>7 DEF Runtime, rows, bounds
  <2>4. ASSUME NEW y \in Stateful, y = x, Coming(c, y) PROVE Coming(c, y)'
    <3>1. ctr'[y].name = ctr[y].name /\ ~ctr'[y].net
      BY <2>2, <2>4 DEF Connected, Cur, Containers
    <3> QED  BY <1>4, <2>1, <2>3, <2>4, <3>1 DEF Coming, At
  <2> QED  BY <1>1, <1>5, <1>7, <2>2, <2>4, BackStep
<1>8. CASE /\ "connected" \notin done /\ "renamed" \in done
           /\ Runtime(c, Named(c, "preserved")) /\ GotoDone(c, "release", done \ {"renamed"})
  <2>1. op'[c].pc = "release" /\ op'[c].done = done \ {"renamed"}
    <3>1. TypeOK /\ "release" \in Steps
      BY <1>1 DEF Steps
    <3> QED  BY <1>5, <1>8, <3>1, GotoDoneIs
  <2>2. ctr'[x] = Named(c, "preserved") /\ Named(c, "preserved") \in Containers
        /\ ctr[x] \in Containers
    BY <1>1, <1>8, ContainerIs
  <2>3. UNCHANGED <<mark, rec, faults>>
    BY <1>8 DEF Runtime, rows, bounds
  <2>4. ASSUME NEW y \in Stateful, y = x, Coming(c, y) PROVE Coming(c, y)'
    <3>1. ctr'[y].name = "preserved" /\ (ctr'[y].net <=> ctr[y].net)
      BY <2>2, <2>4 DEF Named, Cur, Containers
    <3> QED  BY <1>4, <1>8, <2>1, <2>3, <2>4, <3>1 DEF Coming, At
  <2> QED  BY <1>1, <1>5, <1>8, <2>2, <2>4, BackStep
<1>9. CASE Throw(c)
  <2>1. Leave(c) /\ faults' = faults + 1 /\ faults < MaxFaults
        /\ UNCHANGED <<rows, ctr, ops, crashes, why, torn, last>>
    BY <1>9 DEF Throw, Faulty, history
  <2>2. faults' \in 0..MaxFaults /\ faults' >= faults /\ faults' # 0 /\ last' \in Archived
    BY <1>6, <2>1
  <2>3. faults' <= 1 => \A y \in Stateful \ torn : ~WorksOn(c, y) \/ Handled(c, y)
    BY <1>2, <1>3, <1>4, <1>6, <2>1 DEF Handled
  <2> QED  BY <1>2, <2>1, <2>2, <2>3, Quits
<1>10. CASE ~Releasing(c) /\ Leave(c) /\ UNCHANGED <<rows, ctr, bounds, history>>
  <2>1. UNCHANGED <<mark, rec, ctr, ops, faults, crashes, why, last, torn>>
        /\ UNCHANGED <<rows, ctr, ops, crashes, why, torn>>
    BY <1>10 DEF rows, bounds, history
  <2>2. \A y : ~WorksOn(c, y)'
    BY <1>1, <1>10, LeaveIs
  <2>3. "connected" \notin done /\ "renamed" \notin done
    BY <1>10 DEF Releasing
  <2>4. ASSUME NEW y \in Stateful PROVE ~WorksOn(c, y) \/ Handled(c, y)
    <3>1. CASE y # x
      BY <1>3, <3>1
    <3>2. CASE y = x
      <4>1. Coming(c, y) => Settled(y)'
        BY <1>4, <2>1, <2>3 DEF Settled
      <4> QED  BY <1>2, <1>3, <2>2, <3>2, <4>1 DEF Handled, Alright
    <3> QED  BY <3>1, <3>2
  <2> QED  BY <1>2, <1>3, <1>6, <1>10, <2>1, <2>4, Quits
<1> QED  BY <1>7, <1>8, <1>9, <1>10 DEF ReleaseResource, ReleaseStep

-----------------------------------------------------------------------------
(* The invariant holds.                                                    *)

LEMMA ProceedGoes ==
  ASSUME ArchiveAssumption, IInv, NEW c \in Clients, Proceed(c)
  PROVE  Goes(c)
<1>1. AcquireLocks(c) \/ ListServices(c) \/ NextService(c) \/ End(c)
      \/ WriteGroup(c) \/ Return(c) => Goes(c)
  BY AcquireLocksGoes, ListServicesGoes, NextServiceGoes, EndGoes, WriteGroupGoes,
     ReturnGoes
<1>2. VisitArchive(c) \/ ArchiveRow(c) \/ ReadSiblings(c) \/ UnsetGroup(c)
      \/ RemoveContainer(c) => Goes(c)
  BY VisitArchiveGoes, ArchiveRowGoes, ReadSiblingsGoes, UnsetGroupGoes,
     RemoveContainerGoes
<1>3. StopResource(c) \/ DisconnectResource(c) \/ RenameResource(c)
      \/ SaveResource(c) \/ UndoArchive(c) => Goes(c)
  BY StopResourceGoes, DisconnectResourceGoes, RenameResourceGoes,
     SaveResourceGoes, UndoArchiveGoes
<1>4. VisitRestore(c) \/ ResumeName(c) \/ ResumeNetwork(c) \/ ResumeStart(c) => Goes(c)
  BY VisitRestoreGoes, ResumeNameGoes, ResumeNetworkGoes, ResumeStartGoes
<1>5. ClearRow(c) \/ ClearMark(c) \/ RecordResource(c) \/ AllocatePort(c)
      \/ ReleaseResource(c) => Goes(c)
  BY ClearRowGoes, ClearMarkGoes, RecordResourceGoes, AllocatePortGoes,
     ReleaseResourceGoes
<1> QED  BY <1>1, <1>2, <1>3, <1>4, <1>5 DEF Proceed

(* A client that does nothing is where it may be.                          *)
LEMMA IdleClient ==
  ASSUME NEW c \in Clients, op[c] = Idle
  PROVE  Client(c) /\ op[c].kind = "none" /\ \A x : ~WorksOn(c, x) /\ ~Removing(c, x)
<1>1. /\ op[c].kind = "none" /\ op[c].pc = "idle" /\ op[c].todo = {} /\ op[c].kids = {}
      /\ op[c].done = {}
  BY DEF Idle
<1> QED  BY <1>1 DEF Client, Paths, Locked, About, At, Archiving, Restoring, Archives,
                     Restores, PutsAside, Resumes, TakesBack, Common, Cur, Resuming,
                     WorksOn, Removing

LEMMA InitType == ArchiveAssumption /\ Init => TypeOK
<1> SUFFICES ASSUME ArchiveAssumption, Init PROVE TypeOK
  OBVIOUS
<1>1. Serving \in Containers /\ Gone \in Containers
  BY DEF Serving, Gone, Containers
<1>2. Idle \in Operations
  BY IdleIsOperation
<1>3. ops = 0 /\ faults = 0 /\ crashes = 0 /\ MaxOps \in Nat /\ MaxFaults \in Nat
      /\ MaxCrashes \in Nat
  BY DEF Init, ArchiveAssumption
<1>4. 0 \in Times /\ faults \in 0..MaxFaults /\ crashes \in 0..MaxCrashes
  BY <1>3 DEF Times
<1>5. rec \in [Services -> [cid : BOOLEAN, name : {"canonical", "preserved"}]]
  BY DEF Init, Recorded
<1>6. ctr \in [Services -> Containers]
  BY <1>1 DEF Init
<1> QED  BY <1>2, <1>3, <1>4, <1>5, <1>6 DEF Init, TypeOK, Archived

LEMMA InitIInv == ArchiveAssumption /\ Init => IInv
<1> SUFFICES ASSUME ArchiveAssumption, Init PROVE IInv
  OBVIOUS
<1>1. TypeOK
  BY InitType
<1>2. \A c \in Clients : op[c] = Idle
  BY DEF Init
<1>3. \A c \in Clients : Client(c)
  BY <1>2, IdleClient
<1>4. Alone
  BY <1>2, IdleClient DEF Alone
<1>5. \A x \in Stateful : /\ row[x] = 0 /\ mark[x] = 0 /\ rec[x] = Recorded
                          /\ ctr[x] = Serving
  BY Names DEF Init
<1>6. Rows
  BY <1>5 DEF Rows, Recorded
<1>7. ASSUME NEW x \in Stateful PROVE Resource(x)
  <2>1. \A c \in Clients : op[c].pc \notin PutsAside \cup TakesBack
    BY <1>2 DEF Idle, PutsAside, Resumes, TakesBack
  <2> QED  BY <1>5, <2>1 DEF Resource, Settled
<1>8. Resources
  BY <1>7 DEF Resources
<1>9. Removed
  BY Names DEF Removed, Init
<1> QED  BY <1>1, <1>3, <1>4, <1>6, <1>8, <1>9 DEF IInv

LEMMA DeployKeeps ==
  ASSUME ArchiveAssumption, IInv, NEW x \in Leaves, Deploy(x)
  PROVE  IInv'
<1>1. TypeOK /\ x \in Services /\ x \notin Stateful /\ mark[x] = 0
      /\ UNCHANGED <<row, mark, locks, op, ops, faults, crashes, why, last, torn>>
  BY Names DEF IInv, Deploy, bounds, history
<1>2. /\ ctr' \in [Services -> Containers]
      /\ rec' \in [Services -> [cid : BOOLEAN, name : {"canonical", "preserved"}]]
      /\ \A y \in Services \ {x} : ctr'[y] = ctr[y] /\ rec'[y] = rec[y]
  <2>1. Serving \in Containers
        /\ Recorded \in [cid : BOOLEAN, name : {"canonical", "preserved"}]
    BY DEF Serving, Containers, Recorded
  <2> QED  BY <1>1, <2>1 DEF Deploy, TypeOK
<1>3. TypeOK'
  BY <1>1, <1>2 DEF TypeOK
<1>4. \A c \in Clients : Client(c)'
  BY <1>1 DEF IInv, Client, Paths, Locked, About, At, Archiving, Restoring, Holds,
              Cur, Resuming, Active
<1>5. Alone'
  BY <1>1 DEF IInv, Alone, Restoring
<1>6. Rows'
  BY <1>1, <1>2, Names DEF IInv, Rows
<1>7. Resources'
  <2>1. ASSUME NEW y \in Stateful, Resource(y) PROVE Resource(y)'
    <3>1. mark'[y] = mark[y] /\ rec'[y] = rec[y] /\ ctr'[y] = ctr[y]
      BY <1>1, <1>2, Names
    <3> QED  BY <1>1, <2>1, <3>1 DEF Resource, Settled, WorksOn, Leaving, Coming, At, Cur
  <2> QED  BY <1>1, <2>1 DEF IInv, Resources
<1>8. Removed'
  <2>1. ASSUME NEW y \in Leaves, mark'[y] # 0, faults = 0, crashes = 0
        PROVE  ctr'[y] = Gone \/ \E c \in Clients : Removing(c, y)'
    <3>1. ctr'[y] = ctr[y] /\ mark[y] # 0
      BY <1>1, <1>2, <2>1, Names
    <3>2. ctr[y] = Gone \/ \E c \in Clients : Removing(c, y)
      BY <2>1, <3>1 DEF IInv, Removed
    <3> QED  BY <1>1, <3>1, <3>2 DEF Removing, At, Cur
  <2> QED  BY <1>1, <2>1 DEF Removed
<1> QED  BY <1>3, <1>4, <1>5, <1>6, <1>7, <1>8 DEF IInv

LEMMA CrashKeeps ==
  ASSUME ArchiveAssumption, IInv, Crash
  PROVE  IInv'
<1>1. TypeOK /\ UNCHANGED <<row, mark, rec, ctr, ops, faults, why, last, torn>>
      /\ crashes' = crashes + 1 /\ crashes < MaxCrashes
  BY DEF IInv, Crash, rows, history
<1>2. \A c \in Clients : op'[c] = Idle
  BY DEF Crash
<1>3. crashes \in Nat /\ crashes' \in 0..MaxCrashes
  BY <1>1 DEF TypeOK, ArchiveAssumption
<1>4. op' \in [Clients -> Operations] /\ locks' \in [Services -> Clients \cup {None}]
  BY IdleIsOperation DEF Crash
<1>5. TypeOK'
  BY <1>1, <1>3, <1>4 DEF TypeOK
<1>6. \A c \in Clients : Client(c)' /\ op'[c].kind = "none"
  <2> SUFFICES ASSUME NEW c \in Clients PROVE Client(c)' /\ op'[c].kind = "none"
    OBVIOUS
  <2>1. /\ op'[c].kind = "none" /\ op'[c].pc = "idle" /\ op'[c].todo = {}
        /\ op'[c].kids = {} /\ op'[c].done = {}
    BY <1>2 DEF Idle
  <2> QED  BY <2>1 DEF Client, Paths, Locked, About, At, Archiving, Restoring, Archives,
                       Restores, PutsAside, Resumes, TakesBack, Common, Cur, Resuming
<1>7. Alone'
  BY <1>6 DEF Alone, Restoring, Restores
<1>8. Rows'
  BY <1>1 DEF IInv, Rows
<1>9. Resources' /\ Removed'
  BY <1>1, <1>3 DEF Resources, Removed
<1> QED  BY <1>5, <1>6, <1>7, <1>8, <1>9 DEF IInv

LEMMA StutterKeeps ==
  ASSUME IInv, UNCHANGED vars
  PROVE  IInv'
<1>1. UNCHANGED <<row, mark, rec, ctr, locks, op, ops, faults, crashes, why, last, torn>>
  BY DEF vars, rows, bounds, history
<1>2. TypeOK'
  BY <1>1 DEF IInv, TypeOK
<1>3. \A c \in Clients : Client(c)'
  BY <1>1 DEF IInv, Client, Paths, Locked, About, At, Archiving, Restoring, Holds, Cur,
              Resuming, Active
<1>4. Alone' /\ Rows'
  BY <1>1 DEF IInv, Alone, Restoring, Rows
<1>5. Resources'
  BY <1>1 DEF IInv, Resources, Resource, Settled, WorksOn, Leaving, Coming, At, Cur
<1>6. Removed'
  BY <1>1 DEF IInv, Removed, Removing, At, Cur
<1> QED  BY <1>2, <1>3, <1>4, <1>5, <1>6 DEF IInv

LEMMA NextKeeps ==
  ASSUME ~Overlap, ArchiveAssumption, IInv, [Next]_vars
  PROVE  IInv'
<1>1. ASSUME NEW c \in Clients, RequestGroup(c) PROVE IInv'
  <2>1. PICK kind \in {"archiveGroup", "unarchiveGroup"} : Begin(c, kind, Primary)
    BY <1>1 DEF RequestGroup
  <2>2. kind \in Archives \cup Restores /\ Primary \in Services
    BY Names DEF Archives, Restores
  <2> QED  BY <2>1, <2>2, BeginGoes, GoesRight
<1>2. ASSUME NEW c \in Clients, NEW x \in Services, RequestService(c, x) PROVE IInv'
  <2>1. PICK kind \in {"archive", "unarchive"} : Begin(c, kind, x)
    BY <1>2 DEF RequestService
  <2>2. kind \in Archives \cup Restores
    BY DEF Archives, Restores
  <2> QED  BY <2>1, <2>2, BeginGoes, GoesRight
<1>3. ASSUME NEW c \in Clients, Proceed(c) PROVE IInv'
  BY <1>3, ProceedGoes, GoesRight
<1>4. ASSUME NEW x \in Leaves, Deploy(x) PROVE IInv'
  BY <1>4, DeployKeeps
<1>5. CASE Crash
  BY <1>5, CrashKeeps
<1>6. CASE UNCHANGED vars
  BY <1>6, StutterKeeps
<1> QED  BY <1>1, <1>2, <1>3, <1>4, <1>5, <1>6 DEF Next

-----------------------------------------------------------------------------
(* Every variable has its type: an operation is always about services of   *)
(* the group, and no bound is passed, however its requests interleave.     *)
THEOREM ArchiveTypes ==
  ASSUME ~Overlap
  PROVE  Spec => []TypeOK
<1>1. Init => IInv
  BY ArchiveAssumption, InitIInv
<1>2. IInv /\ [Next]_vars => IInv'
  BY ArchiveAssumption, NextKeeps
<1>3. IInv => TypeOK
  BY DEF IInv
<1> QED  BY <1>1, <1>2, <1>3, PTL DEF Spec

(* Whenever no archive, restore or deploy is under way, the rows say what  *)
(* is the case in Docker: for any group, any number of requests at a time  *)
(* and any number of them.  With at most one failed call and no restart,   *)
(* an active resource runs under its own name and on its network, and an   *)
(* archived one is kept aside where unarchive looks for it (archive undoes *)
(* what it did, unarchive releases what it took); with none, an archived   *)
(* leaf has left no container.  A restore is not requested while another   *)
(* operation is under way: the code locks archives against each other, but *)
(* not restores.                                                           *)
THEOREM ArchivesMatchRuntime ==
  ASSUME ~Overlap
  PROVE  Spec => []RowsMatchRuntime
<1>1. Init => IInv
  BY ArchiveAssumption, InitIInv
<1>2. IInv /\ [Next]_vars => IInv'
  BY ArchiveAssumption, NextKeeps
<1>3. IInv => RowsMatchRuntime
  <2> SUFFICES ASSUME IInv PROVE RowsMatchRuntime
    OBVIOUS
  <2>1. ASSUME Quiet
        PROVE  \A c \in Clients, x \in Services : ~WorksOn(c, x) /\ ~Removing(c, x)
    BY <2>1 DEF Quiet, WorksOn, Removing, At, PutsAside, Resumes, TakesBack
  <2>2. ASSUME Quiet, faults <= 1, crashes = 0, NEW x \in Stateful \ torn
        PROVE  Settled(x)
    BY <2>1, <2>2, ArchiveAssumption, Names DEF IInv, Resources, Resource
  <2>3. ActiveResourceServes
    BY <2>2 DEF ActiveResourceServes, Settled
  <2>4. ArchivedResourceIsKept
    BY <2>2 DEF ArchivedResourceIsKept, Settled, Retained
  <2>5. ArchivedLeafIsRemoved
    BY <2>1, ArchiveAssumption, Names DEF ArchivedLeafIsRemoved, IInv, Removed
  <2> QED  BY <2>3, <2>4, <2>5 DEF RowsMatchRuntime
<1> QED  BY <1>1, <1>2, <1>3, PTL DEF Spec

-----------------------------------------------------------------------------
(* Which archive a service belongs to.                                     *)

(* No row and no operation is ahead of the number of operations, no two    *)
(* archives have one number, and the two rows of a service carry the same  *)
(* one, but for the row that is also the group's.                          *)
Numbers ==
  /\ \A x \in Services : row[x] <= ops /\ mark[x] <= ops
  /\ \A c \in Clients : op[c].id <= ops
  /\ \A c, d \in Clients :
       c # d /\ Archiving(c) /\ Archiving(d) => op[c].id # op[d].id
  /\ \A x \in Services \ {Primary} : row[x] \in {0, mark[x]}

(* The steps between the visit of a service and the writing of its rows.   *)
Writes == PutsAside \cup {"row"}

(* An archive of one service, which may have been archived by now: it is   *)
(* about nothing else, and only that service can carry its number.         *)
Single(c) ==
  /\ \A x \in Services \ {op[c].target} : row[x] # op[c].id /\ mark[x] # op[c].id
  /\ op[c].todo = {} /\ op[c].kids = {} /\ op[c].root = None
  /\ op[c].pc \notin {"lock", "list", "return"} => op[c].kind = "archive"
  /\ op[c].pc \in Writes \cup {"visit"} => Cur(c) = op[c].target /\ ChildrenOf(Cur(c)) = {}

(* An archive writes what it holds the lock of, and one of several         *)
(* services only what was not archived.                                    *)
Archiver(c) ==
  Archiving(c) =>
    /\ op[c].pc \in {"lock", "list"} =>
         /\ ~op[c].shared
         /\ \A x \in Services : row[x] # op[c].id /\ mark[x] # op[c].id
    /\ ~op[c].shared => Single(c)
    /\ op[c].pc \in Writes => locks[Cur(c)] = c /\ (op[c].shared => mark[Cur(c)] = 0)
    /\ op[c].root # None => locks[op[c].root] = c /\ mark[op[c].root] = 0
    /\ op[c].root # None /\ op[c].pc \in {"visit", "row"} => Cur(c) \in Kids
    /\ At(c, "mark") => op[c].kind = "archiveGroup"

(* The services that the marker of a restore stands for, and the one that  *)
(* it was asked for.                                                       *)
Marker(x) == IF row[x] # 0 THEN row[x] ELSE mark[x]

Ours(c, x) ==
  /\ row[x] \in {0, op[c].marker}
  /\ mark[x] # 0 => mark[x] = op[c].marker /\ why[x] = op[c].marker

Asked(c, x) == op[c].kind = "unarchive" /\ op[c].target = x

Restorer(c) ==
  Restoring(c) =>
    /\ \A x \in op[c].todo \cup op[c].kids : Ours(c, x)
    /\ op[c].root # None => Ours(c, op[c].root) \/ Asked(c, op[c].root)
    /\ op[c].pc \in TakesBack => Ours(c, Cur(c)) \/ Asked(c, Cur(c))
    /\ At(c, "visit") =>
         \/ Ours(c, Cur(c))
         \/ Asked(c, Cur(c)) /\ op[c].marker = Marker(Cur(c))
    /\ At(c, "list") => op[c].todo = {} /\ op[c].kids = {} /\ op[c].root = None

(* What an archived service carries is the number of the archive it        *)
(* belongs to, or that of another one that archived it again, and nothing  *)
(* else: that is the operation of no other service.                        *)
Again(x) ==
  /\ ChildrenOf(x) = {}
  /\ \A y \in Services \ {x} : row[y] # mark[x] /\ mark[y] # mark[x]
  /\ \A c \in Clients : Archiving(c) /\ op[c].id = mark[x] =>
       op[c].kind = "archive" /\ ~op[c].shared /\ op[c].target = x

Owner == \A x \in Services : mark[x] # 0 => why[x] = mark[x] \/ Again(x)

JInv ==
  /\ Numbers /\ Owner
  /\ \A c \in Clients : Archiver(c) /\ Restorer(c)

(* Numbers, and where the services of an operation are.                    *)
LEMMA Owners ==
  ASSUME ArchiveAssumption, IInv, JInv, NEW c \in Clients
  PROVE  /\ ops \in Nat /\ op[c].id \in Nat /\ op[c].id <= ops
         /\ \A x \in Services : row[x] \in Nat /\ mark[x] \in Nat
         /\ Archiving(c) => op[c].id # 0
         /\ op[c].pc \in Writes => Cur(c) \in Services
         /\ op[c].root # None => op[c].root \in Deployables /\ op[c].root \in Services
<1>1. TypeOK /\ Client(c)
  BY DEF IInv
<1>2. ops \in Nat /\ op[c].id \in Nat
      /\ \A x \in Services : row[x] \in Nat /\ mark[x] \in Nat
  BY <1>1, FieldsOf DEF TypeOK, Times, ArchiveAssumption
<1>3. op[c].pc \in Writes => Cur(c) \in Services
  BY <1>1, Names DEF Client, About, Writes, Cur
<1>4. op[c].root # None => op[c].root \in Deployables /\ op[c].root \in Services
  BY <1>1, FieldsOf, Names
<1> QED  BY <1>1, <1>2, <1>3, <1>4 DEF JInv, Numbers, Client, Paths

(* Rows that are cleared, or left alone, disturb nobody else.              *)
Clears ==
  /\ ops' = ops
  /\ \A x \in Services :
       /\ row'[x] \in {0, row[x]} /\ mark'[x] \in {0, mark[x]}
       /\ mark'[x] # 0 => why'[x] = why[x]
  /\ \A x \in Services \ {Primary} : row'[x] \in {0, mark'[x]}

LEMMA OthersArchive ==
  ASSUME ArchiveAssumption, IInv, JInv, NEW c \in Clients, Frame(c),
         NEW d \in Clients \ {c},
         \A x \in Services : row'[x] \in {0, row[x]} /\ mark'[x] \in {0, mark[x]}
  PROVE  Archiver(d)'
<1> SUFFICES ASSUME Archiving(d)' PROVE Archiver(d)'
  BY DEF Archiver
<1>1. op'[d] = op[d] /\ Archiving(d) /\ Archiver(d)
  BY DEF Frame, Archiving, JInv
<1>2. \A x \in Services : locks[x] = d => locks'[x] = d
  BY DEF Frame
<1>3. op[d].id # 0 /\ (op[d].pc \in Writes => Cur(d) \in Services)
      /\ (op[d].root # None => op[d].root \in Services)
  BY <1>1, Owners
<1>4. \A x \in Services : /\ row[x] # op[d].id => row'[x] # op[d].id
                          /\ mark[x] # op[d].id => mark'[x] # op[d].id
                          /\ mark[x] = 0 => mark'[x] = 0
  BY <1>3
<1>5. Single(d) => Single(d)'
  BY <1>1, <1>4 DEF Single, Cur
<1> QED  BY <1>1, <1>2, <1>3, <1>4, <1>5 DEF Archiver, At, Cur

LEMMA ClearsKeep ==
  ASSUME ArchiveAssumption, IInv, JInv, NEW c \in Clients, Frame(c), Clears,
         op[c].kind # "none", op'[c].id <= ops,
         Archiving(c)' =>
           /\ op'[c].kind = op[c].kind /\ op'[c].target = op[c].target
           /\ op'[c].id = op[c].id
           /\ op'[c].shared = op[c].shared \/ \A x \in Services : mark[x] # op[c].id,
         Archiver(c)', Restorer(c)'
  PROVE  JInv'
<1>1. \A d \in Clients \ {c} : op'[d] = op[d] /\ ~Restoring(d) /\ ~Restoring(d)'
  BY DEF IInv, Alone, Frame, Restoring
<1>2. \A d \in Clients : Archiving(d)' =>
        /\ Archiving(d) /\ op'[d].kind = op[d].kind /\ op'[d].target = op[d].target
        /\ op'[d].id = op[d].id
        /\ op'[d].shared = op[d].shared \/ \A x \in Services : mark[x] # op[d].id
  BY <1>1 DEF Archiving
<1>3. Numbers'
  <2>1. \A x \in Services : row'[x] <= ops' /\ mark'[x] <= ops'
    BY Owners DEF Clears, JInv, Numbers
  <2>2. \A d \in Clients : op'[d].id <= ops'
    BY <1>1 DEF Clears, JInv, Numbers
  <2>3. \A d, e \in Clients :
          d # e /\ Archiving(d)' /\ Archiving(e)' => op'[d].id # op'[e].id
    BY <1>2 DEF JInv, Numbers
  <2> QED  BY <2>1, <2>2, <2>3 DEF Clears, Numbers, Archiving
<1>4. Owner'
  <2> SUFFICES ASSUME NEW x \in Services, mark'[x] # 0
               PROVE  why'[x] = mark'[x] \/ Again(x)'
    BY DEF Owner
  <2>1. mark'[x] = mark[x] /\ why'[x] = why[x] /\ mark[x] # 0
    BY DEF Clears
  <2>2. ASSUME Again(x) PROVE Again(x)'
    <3>1. \A y \in Services \ {x} : row'[y] # mark'[x] /\ mark'[y] # mark'[x]
      BY <2>1, <2>2 DEF Again, Clears
    <3>2. \A d \in Clients : Archiving(d)' /\ op'[d].id = mark'[x] =>
            op'[d].kind = "archive" /\ ~op'[d].shared /\ op'[d].target = x
      BY <1>2, <2>1, <2>2 DEF Again
    <3> QED  BY <2>2, <3>1, <3>2 DEF Again, Archiving
  <2> QED  BY <2>1, <2>2 DEF JInv, Owner
<1>5. \A d \in Clients : Archiver(d)'
  BY OthersArchive DEF Clears
<1>6. \A d \in Clients : Restorer(d)'
  BY <1>1 DEF Restorer, Restoring
<1> QED  BY <1>3, <1>4, <1>5, <1>6 DEF JInv

(* An operation that ends.                                                 *)
LEMMA QuitKeeps ==
  ASSUME ArchiveAssumption, IInv, JInv, NEW c \in Clients, Frame(c), Leave(c),
         op[c].kind # "none", UNCHANGED <<row, mark, why, ops>>
  PROVE  JInv'
<1>1. op'[c].kind = "none" /\ op'[c].id = 0
  BY LeaveIs DEF IInv, Idle
<1>2. ~Archiving(c)' /\ ~Restoring(c)'
  BY <1>1 DEF Archiving, Restoring, Archives, Restores
<1>3. Archiver(c)' /\ Restorer(c)'
  BY <1>2 DEF Archiver, Restorer
<1>4. Clears
  BY DEF Clears, JInv, Numbers
<1>5. op'[c].id <= ops
  BY <1>1, Owners
<1> QED  BY <1>2, <1>3, <1>4, <1>5, ClearsKeep

(* A step that only goes on, and at most clears rows.                      *)
Passes(c) ==
  /\ op'[c].kind = op[c].kind /\ op'[c].target = op[c].target
  /\ op'[c].id = op[c].id /\ op'[c].shared = op[c].shared
  /\ op'[c].marker = op[c].marker /\ op'[c].todo = op[c].todo
  /\ op'[c].root = op[c].root /\ op'[c].kids = op[c].kids
  /\ op'[c].cur = op[c].cur
  /\ \A x \in Services : locks[x] = c => locks'[x] = c
  /\ Archiving(c) =>
       /\ op'[c].pc \notin {"lock", "list", "visit", "row"}
       /\ op'[c].pc \in Writes => op[c].pc \in Writes
       /\ op'[c].pc = "mark" => op[c].kind = "archiveGroup"
       /\ op'[c].pc # "return" => op[c].pc \notin {"lock", "list", "return"}
  /\ Restoring(c) =>
       /\ op'[c].pc \notin {"list", "visit"}
       /\ op'[c].pc \in TakesBack => op[c].pc \in TakesBack

LEMMA PassingArchive ==
  ASSUME ArchiveAssumption, IInv, JInv, NEW c \in Clients, Clears, Passes(c)
  PROVE  Archiver(c)'
<1> SUFFICES ASSUME Archiving(c) PROVE Archiver(c)'
  BY DEF Archiver, Archiving, Passes
<1>1. Archiver(c) /\ op[c].id # 0
      /\ (op[c].pc \in Writes => Cur(c) \in Services)
      /\ (op[c].root # None => op[c].root \in Services)
  BY Owners DEF JInv
<1>2. \A x \in Services : /\ row[x] # op[c].id => row'[x] # op[c].id
                          /\ mark[x] # op[c].id => mark'[x] # op[c].id
                          /\ mark[x] = 0 => mark'[x] = 0
  BY <1>1 DEF Clears
<1>3. ASSUME Single(c) PROVE Single(c)'
  <2>1. \A x \in Services \ {op'[c].target} :
          row'[x] # op'[c].id /\ mark'[x] # op'[c].id
    BY <1>2, <1>3 DEF Single, Passes
  <2>2. op'[c].pc \notin {"lock", "list", "return"} => op'[c].kind = "archive"
    BY <1>3 DEF Single, Passes
  <2>3. op'[c].pc \in Writes \cup {"visit"} =>
          Cur(c)' = op'[c].target /\ ChildrenOf(Cur(c)') = {}
    BY <1>3 DEF Single, Passes, Cur
  <2> QED  BY <1>3, <2>1, <2>2, <2>3 DEF Single, Passes, Cur
<1>4. op'[c].pc \in Writes =>
        locks'[op'[c].cur] = c /\ (op'[c].shared => mark'[op'[c].cur] = 0)
  BY <1>1, <1>2 DEF Archiver, Passes, Cur
<1>5. op'[c].root # None => locks'[op'[c].root] = c /\ mark'[op'[c].root] = 0
  BY <1>1, <1>2 DEF Archiver, Passes
<1> QED  BY <1>1, <1>3, <1>4, <1>5 DEF Archiver, Passes, At, Cur

LEMMA PassingRestore ==
  ASSUME ArchiveAssumption, IInv, JInv, NEW c \in Clients, Clears, Passes(c)
  PROVE  Restorer(c)'
<1> SUFFICES ASSUME Restoring(c) PROVE Restorer(c)'
  BY DEF Restorer, Restoring, Passes
<1>1. Restorer(c) /\ TypeOK /\ Client(c)
  BY DEF JInv, IInv
<1>2. \A x \in Services : Ours(c, x) => Ours(c, x)'
  BY DEF Ours, Clears, Passes
<1>3. \A x : Asked(c, x) => Asked(c, x)'
  BY DEF Asked, Passes
<1>4. \A x \in op'[c].todo \cup op'[c].kids : Ours(c, x)'
  BY <1>1, <1>2, FieldsOf, Names DEF Restorer, Passes
<1>5. (op[c].root # None => Ours(c, op[c].root) \/ Asked(c, op[c].root))'
  <2> SUFFICES ASSUME NEW r \in Services, op[c].root = r, r # None
               PROVE  Ours(c, r)' \/ Asked(c, r)'
    BY Owners DEF Passes, Ours, Asked
  <2>1. CASE Ours(c, r)
    BY <1>2, <2>1
  <2>2. CASE Asked(c, r)
    BY <1>3, <2>2
  <2> QED  BY <1>1, <2>1, <2>2 DEF Restorer
<1>6. op'[c].pc \in TakesBack => Ours(c, op[c].cur)' \/ Asked(c, op[c].cur)'
  <2> SUFFICES ASSUME op[c].pc \in TakesBack
               PROVE  Ours(c, op[c].cur)' \/ Asked(c, op[c].cur)'
    BY DEF Passes
  <2>1. op[c].cur \in Services
    BY <1>1 DEF Client, About, Cur
  <2>2. CASE Ours(c, op[c].cur)
    BY <2>1, <2>2 DEF Ours, Clears, Passes
  <2>3. CASE Asked(c, op[c].cur)
    BY <2>3 DEF Asked, Passes
  <2> QED  BY <1>1, <2>2, <2>3 DEF Restorer, Cur
<1> QED  BY <1>4, <1>5, <1>6 DEF Restorer, Passes, At, Cur, Ours, Asked

LEMMA PassingKeeps ==
  ASSUME ArchiveAssumption, IInv, JInv, NEW c \in Clients, Frame(c), Clears, Passes(c),
         op[c].kind # "none"
  PROVE  JInv'
<1>1. op'[c].id <= ops
  BY Owners DEF Passes
<1>2. Archiving(c)' =>
        /\ op'[c].kind = op[c].kind /\ op'[c].target = op[c].target
        /\ op'[c].id = op[c].id
        /\ op'[c].shared = op[c].shared \/ \A x \in Services : mark[x] # op[c].id
  BY DEF Passes
<1> QED  BY <1>1, <1>2, PassingArchive, PassingRestore, ClearsKeep

LEMMA SameClears ==
  ASSUME JInv, UNCHANGED <<row, mark, why, ops>>
  PROVE  Clears
BY DEF JInv, Numbers, Clears

LEMMA GoingOn ==
  ASSUME ArchiveAssumption, IInv, JInv, NEW c \in Clients, Frame(c), Clears,
         NEW s \in Steps,
         Goto(c, s) \/ \E done \in SUBSET Flags : GotoDone(c, s, done),
         UNCHANGED locks, op[c].kind # "none",
         Archiving(c) =>
           /\ s \notin {"lock", "list", "visit", "row"}
           /\ s \in Writes => op[c].pc \in Writes
           /\ s = "mark" => op[c].kind = "archiveGroup"
           /\ s # "return" => op[c].pc \notin {"lock", "list", "return"},
         Restoring(c) =>
           /\ s \notin {"list", "visit"}
           /\ s \in TakesBack => op[c].pc \in TakesBack
  PROVE  JInv'
<1>1. TypeOK
  BY DEF IInv
<1>2. /\ op'[c].pc = s
      /\ op'[c].kind = op[c].kind /\ op'[c].target = op[c].target
      /\ op'[c].id = op[c].id /\ op'[c].shared = op[c].shared
      /\ op'[c].todo = op[c].todo /\ op'[c].root = op[c].root
      /\ op'[c].kids = op[c].kids /\ op'[c].cur = op[c].cur
      /\ op'[c].marker = op[c].marker
  <2>1. CASE Goto(c, s)
    BY <1>1, <2>1, GotoIs
  <2>2. CASE \E done \in SUBSET Flags : GotoDone(c, s, done)
    <3>1. PICK done \in SUBSET Flags : GotoDone(c, s, done)
      BY <2>2
    <3> QED  BY <1>1, <3>1, GotoDoneIs
  <2> QED  BY <2>1, <2>2
<1>3. Passes(c)
  BY <1>2 DEF Passes
<1> QED  BY <1>3, PassingKeeps

LEMMA ThrowKeeps ==
  ASSUME ArchiveAssumption, IInv, JInv, NEW c \in Clients, Frame(c), Throw(c),
         op[c].kind # "none"
  PROVE  JInv'
BY QuitKeeps DEF Throw, rows, history

(* A call inside a try block, whether it throws or not.                    *)
LEMMA CaughtKeeps ==
  ASSUME ArchiveAssumption, IInv, JInv, NEW c \in Clients, Frame(c),
         NEW s \in {"undo", "release"}, Caught(c, s),
         s = "undo" => op[c].pc \in PutsAside,
         s = "release" => op[c].pc \in TakesBack
  PROVE  JInv'
<1>1. TypeOK /\ Client(c) /\ s \in Steps
      /\ Goto(c, s) /\ UNCHANGED <<row, mark, why, ops, locks>>
  BY DEF IInv, Caught, rows, history, Steps
<1>2. (s = "undo" => Archiving(c) /\ ~Restoring(c))
      /\ (s = "release" => Restoring(c) /\ ~Archiving(c))
  BY <1>1, KindAt DEF Client
<1>3. op[c].kind # "none"
  BY <1>2 DEF Archiving, Restoring, Archives, Restores
<1>4. op[c].pc \notin {"lock", "list", "return"}
  BY DEF PutsAside, TakesBack, Resumes
<1>5. s = "undo" => op[c].pc \in Writes
  BY DEF Writes
<1>6. "release" \notin Writes /\ "undo" \notin TakesBack
  BY DEF Writes, PutsAside, TakesBack, Resumes
<1> QED  BY <1>1, <1>2, <1>3, <1>4, <1>5, <1>6, SameClears, GoingOn

LEMMA RuntimeKeeps ==
  ASSUME ArchiveAssumption, IInv, JInv, NEW c \in Clients, Frame(c),
         NEW container, Runtime(c, container),
         NEW done \in SUBSET Flags, NEW s \in PutsAside \cup TakesBack,
         GotoDone(c, s, done),
         s \in PutsAside => op[c].pc \in PutsAside,
         s \in TakesBack => op[c].pc \in TakesBack
  PROVE  JInv'
<1>1. TypeOK /\ Client(c) /\ s \in Steps
      /\ UNCHANGED <<row, mark, why, ops, locks>>
  BY DEF IInv, Runtime, rows, bounds, history, Steps, PutsAside, TakesBack, Resumes
<1>2. (s \in PutsAside => Archiving(c) /\ ~Restoring(c))
      /\ (s \in TakesBack => Restoring(c) /\ ~Archiving(c))
  BY <1>1, KindAt DEF Client
<1>3. op[c].kind # "none"
  BY <1>2 DEF Archiving, Restoring, Archives, Restores
<1>4. op[c].pc \notin {"lock", "list", "return"}
  BY DEF PutsAside, TakesBack, Resumes
<1>5. s \in PutsAside => s \notin {"lock", "list", "visit", "row", "mark"} /\ op[c].pc \in Writes
  BY DEF Writes, PutsAside
<1>6. s \in TakesBack => s \notin {"list", "visit"}
  BY DEF TakesBack, Resumes
<1> QED  BY <1>1, <1>2, <1>3, <1>4, <1>5, <1>6, SameClears, GoingOn

-----------------------------------------------------------------------------
(* The steps that write no number.                                         *)
LEMMA EndKeeps ==
  ASSUME ArchiveAssumption, IInv, JInv, NEW c \in Clients, Frame(c), End(c)
  PROVE  JInv'
<1>1. Client(c) /\ op[c].pc = "end" /\ UNCHANGED <<row, mark, why, ops, locks>>
  BY DEF IInv, End, At, Still, rows, bounds, history
<1>2. op[c].kind # "none"
  BY <1>1, KindAt DEF IInv, Client, Archiving, Restoring, Archives, Restores, Common
<1>3. PICK s \in {"mark", "unmark", "clear", "return"} :
        Goto(c, s) /\ (s = "mark" => op[c].kind = "archiveGroup")
  BY DEF End
<1>4. s \in Steps /\ s \notin Writes \cup TakesBack
  BY DEF Steps, Writes, PutsAside, TakesBack, Resumes
<1> QED  BY <1>1, <1>2, <1>3, <1>4, SameClears, GoingOn

LEMMA UnmarkKeeps ==
  ASSUME ArchiveAssumption, IInv, JInv, NEW c \in Clients, Frame(c), WriteGroup(c),
         ~At(c, "mark")
  PROVE  JInv'
<1>1. TypeOK /\ Client(c) /\ op[c].pc = "unmark"
  BY DEF IInv, WriteGroup, At
<1>2. op[c].kind # "none" /\ Restoring(c) /\ ~Archiving(c)
  BY <1>1, KindAt DEF Client, Restoring, Restores
<1>3. CASE Throw(c)
  BY <1>2, <1>3, ThrowKeeps
<1>4. CASE /\ row' = [row EXCEPT ![Primary] = 0] /\ Goto(c, "return")
           /\ UNCHANGED <<mark, rec, ctr, locks, bounds, history>>
  <2>1. Clears
    BY <1>1, <1>4, Names DEF Clears, JInv, Numbers, TypeOK, bounds, history
  <2>2. "return" \in Steps /\ "return" \notin TakesBack
    BY DEF Steps, TakesBack, Resumes
  <2> QED  BY <1>1, <1>2, <1>4, <2>1, <2>2, GoingOn
<1> QED  BY <1>3, <1>4 DEF WriteGroup

LEMMA ReadSiblingsKeeps ==
  ASSUME ArchiveAssumption, IInv, JInv, NEW c \in Clients, Frame(c), ReadSiblings(c)
  PROVE  JInv'
<1>1. TypeOK /\ Client(c) /\ op[c].pc = "clear" /\ UNCHANGED <<row, mark, why, ops, locks>>
  BY DEF IInv, ReadSiblings, At, Still, rows, bounds, history
<1>2. op[c].kind # "none" /\ Archiving(c) /\ ~Restoring(c)
  BY <1>1, KindAt DEF Client, Archiving, Archives
<1>3. PICK s \in {"unset", "return", "remove"} : Goto(c, s)
  BY DEF ReadSiblings, AfterClear
<1>4. s \in Steps /\ s \notin Writes
  BY DEF Steps, Writes, PutsAside
<1> QED  BY <1>1, <1>2, <1>3, <1>4, SameClears, GoingOn

LEMMA UnsetGroupKeeps ==
  ASSUME ArchiveAssumption, IInv, JInv, NEW c \in Clients, Frame(c), UnsetGroup(c)
  PROVE  JInv'
<1>1. TypeOK /\ Client(c) /\ op[c].pc = "unset"
  BY DEF IInv, UnsetGroup, At
<1>2. op[c].kind # "none" /\ Archiving(c) /\ ~Restoring(c)
  BY <1>1, KindAt DEF Client, Archiving, Archives
<1>3. CASE Throw(c)
  BY <1>2, <1>3, ThrowKeeps
<1>4. CASE /\ row' = [row EXCEPT ![Primary] = 0] /\ Goto(c, AfterClear(c))
           /\ UNCHANGED <<mark, rec, ctr, locks, bounds, history>>
  <2>1. Clears
    BY <1>1, <1>4, Names DEF Clears, JInv, Numbers, TypeOK, bounds, history
  <2>2. PICK s \in {"return", "remove"} : Goto(c, s)
    BY <1>4 DEF AfterClear
  <2>3. s \in Steps /\ s \notin Writes
    BY DEF Steps, Writes, PutsAside
  <2> QED  BY <1>1, <1>2, <1>4, <2>1, <2>2, <2>3, GoingOn
<1> QED  BY <1>3, <1>4 DEF UnsetGroup

LEMMA RemoveContainerKeeps ==
  ASSUME ArchiveAssumption, IInv, JInv, NEW c \in Clients, Frame(c), RemoveContainer(c)
  PROVE  JInv'
<1>1. TypeOK /\ Client(c) /\ op[c].pc = "remove" /\ Goto(c, "next")
      /\ UNCHANGED <<row, mark, why, ops, locks>>
  BY DEF IInv, RemoveContainer, At, rows, history
<1>2. op[c].kind # "none" /\ Archiving(c) /\ ~Restoring(c)
  BY <1>1, KindAt DEF Client, Archiving, Archives
<1>3. "next" \in Steps /\ "next" \notin Writes
  BY DEF Steps, Writes, PutsAside
<1> QED  BY <1>1, <1>2, <1>3, SameClears, GoingOn

LEMMA PutAsideKeeps ==
  ASSUME ArchiveAssumption, IInv, JInv, NEW c \in Clients, Frame(c),
         StopResource(c) \/ DisconnectResource(c) \/ RenameResource(c) \/ UndoArchive(c)
  PROVE  JInv'
<1>1. op[c].pc \in {"stop", "disconnect", "rename", "undo"} /\ op[c].pc \in PutsAside
      /\ op[c].done \subseteq Flags
  BY FieldsOf DEF IInv, StopResource, DisconnectResource, RenameResource, UndoArchive, Try,
                  At, PutsAside
<1>2. op[c].kind # "none"
  BY <1>1, KindAt DEF IInv, Client, Archiving, Archives
<1>3. CASE Caught(c, "undo")
  BY <1>1, <1>3, CaughtKeeps
<1>4. CASE Throw(c)
  BY <1>2, <1>4, ThrowKeeps
<1>5. CASE Leave(c) /\ UNCHANGED <<rows, ctr, bounds, history>>
  BY <1>2, <1>5, QuitKeeps DEF rows, bounds, history
<1>6. ASSUME NEW s \in PutsAside, NEW container, NEW done \in SUBSET Flags,
             Runtime(c, container), GotoDone(c, s, done)
      PROVE  JInv'
  <2>1. s \notin TakesBack
    BY DEF PutsAside, TakesBack, Resumes
  <2> QED  BY <1>1, <1>6, <2>1, RuntimeKeeps
<1>7. CASE StopResource(c)
  <2>1. "disconnect" \in PutsAside /\ {"stopped"} \in SUBSET Flags
    BY DEF PutsAside, Flags
  <2> QED  BY <1>3, <1>6, <1>7, <2>1 DEF StopResource, Try
<1>8. CASE DisconnectResource(c)
  <2> DEFINE s == IF rec[Cur(c)].name = "preserved" THEN "save" ELSE "rename"
             done == op[c].done \cup {"disconnected"}
  <2>1. s \in PutsAside /\ done \in SUBSET Flags
    BY <1>1 DEF PutsAside, Flags
  <2>2. Caught(c, "undo") \/ (Runtime(c, Connected(c, FALSE)) /\ GotoDone(c, s, done))
    BY <1>8 DEF DisconnectResource, Try
  <2> HIDE DEF s, done
  <2> QED  BY <1>3, <1>6, <2>1, <2>2
<1>9. CASE RenameResource(c)
  <2> DEFINE done == op[c].done \cup {"renamed"}
  <2>1. "save" \in PutsAside /\ done \in SUBSET Flags
    BY <1>1 DEF PutsAside, Flags
  <2>2. Caught(c, "undo") \/ (Runtime(c, Named(c, "preserved")) /\ GotoDone(c, "save", done))
    BY <1>9 DEF RenameResource, Try
  <2> HIDE DEF done
  <2> QED  BY <1>3, <1>6, <2>1, <2>2
<1>10. CASE UndoArchive(c)
  <2>1. ASSUME UndoStep(c) PROVE JInv'
    <3>1. \E done \in SUBSET Flags :
            \E container \in {Named(c, rec[Cur(c)].name), Connected(c, TRUE), Powered(c, TRUE)} :
              Runtime(c, container) /\ GotoDone(c, "undo", done)
      <4> DEFINE done == op[c].done
      <4>1. /\ done \ {"renamed"} \in SUBSET Flags /\ done \ {"disconnected"} \in SUBSET Flags
            /\ {} \in SUBSET Flags
        BY <1>1
      <4> QED  BY <2>1, <4>1 DEF UndoStep
    <3>2. "undo" \in PutsAside
      BY DEF PutsAside
    <3> QED  BY <1>6, <3>1, <3>2
  <2> QED  BY <1>4, <1>5, <1>10, <2>1 DEF UndoArchive
<1> QED  BY <1>7, <1>8, <1>9, <1>10

LEMMA TakeBackKeeps ==
  ASSUME ArchiveAssumption, IInv, JInv, NEW c \in Clients, Frame(c),
         ResumeName(c) \/ ResumeNetwork(c) \/ ResumeStart(c) \/ ReleaseResource(c)
  PROVE  JInv'
<1>1. op[c].pc \in {"resume", "connect", "start", "release"} /\ op[c].pc \in TakesBack
      /\ op[c].done \subseteq Flags
  BY FieldsOf DEF IInv, ResumeName, ResumeNetwork, ResumeStart, ReleaseResource, Try, At,
                  TakesBack, Resumes
<1>2. op[c].kind # "none"
  BY <1>1, KindAt DEF IInv, Client, Restoring, Restores
<1>3. CASE Caught(c, "release")
  BY <1>1, <1>3, CaughtKeeps
<1>4. CASE Throw(c)
  BY <1>2, <1>4, ThrowKeeps
<1>5. CASE Leave(c) /\ UNCHANGED <<rows, ctr, bounds, history>>
  BY <1>2, <1>5, QuitKeeps DEF rows, bounds, history
<1>6. ASSUME NEW s \in TakesBack, NEW container, NEW done \in SUBSET Flags,
             Runtime(c, container), GotoDone(c, s, done)
      PROVE  JInv'
  <2>1. s \notin PutsAside
    BY DEF PutsAside, TakesBack, Resumes
  <2> QED  BY <1>1, <1>6, <2>1, RuntimeKeeps
<1>7. CASE ResumeName(c)
  <2> DEFINE flag == IF rec[Cur(c)].name = "canonical" THEN {} ELSE {"renamed"}
             done == op[c].done \cup flag
  <2>1. "connect" \in TakesBack /\ done \in SUBSET Flags
    BY <1>1 DEF TakesBack, Resumes, Flags
  <2>2. Caught(c, "release")
        \/ (Runtime(c, Named(c, "canonical")) /\ GotoDone(c, "connect", done))
    BY <1>7 DEF ResumeName, Try
  <2> HIDE DEF done
  <2> QED  BY <1>3, <1>6, <2>1, <2>2
<1>8. CASE ResumeNetwork(c)
  <2> DEFINE done == op[c].done \cup {"connected"}
  <2>1. "start" \in TakesBack /\ done \in SUBSET Flags
    BY <1>1 DEF TakesBack, Resumes, Flags
  <2>2. Caught(c, "release")
        \/ (Runtime(c, Connected(c, TRUE)) /\ GotoDone(c, "start", done))
    BY <1>8 DEF ResumeNetwork, Try
  <2> HIDE DEF done
  <2> QED  BY <1>3, <1>6, <2>1, <2>2
<1>9. CASE ResumeStart(c)
  <2>1. "clearRow" \in TakesBack /\ op[c].done \in SUBSET Flags
    BY <1>1 DEF TakesBack, Resumes
  <2> QED  BY <1>3, <1>6, <1>9, <2>1 DEF ResumeStart, Try
<1>10. CASE ReleaseResource(c)
  <2>1. ASSUME ReleaseStep(c) PROVE JInv'
    <3> DEFINE done == op[c].done
    <3>1. /\ done \ {"connected"} \in SUBSET Flags /\ done \ {"renamed"} \in SUBSET Flags
          /\ "release" \in TakesBack
      BY <1>1 DEF TakesBack
    <3> QED  BY <1>6, <2>1, <3>1 DEF ReleaseStep
  <2> QED  BY <1>4, <1>5, <1>10, <2>1 DEF ReleaseResource
<1> QED  BY <1>7, <1>8, <1>9, <1>10

LEMMA WriteFailsKeeps ==
  ASSUME ArchiveAssumption, IInv, JInv, NEW c \in Clients, Frame(c),
         op[c].pc \in {"clearRow", "clearMark"}, WriteFails(c)
  PROVE  JInv'
<1>1. op[c].pc \in TakesBack /\ op[c].kind # "none"
  BY KindAt DEF IInv, Client, TakesBack, Restoring, Restores
<1> QED  BY <1>1, ThrowKeeps, CaughtKeeps DEF WriteFails

LEMMA ClearRowKeeps ==
  ASSUME ArchiveAssumption, IInv, JInv, NEW c \in Clients, Frame(c), ClearRow(c)
  PROVE  JInv'
<1>1. TypeOK /\ Client(c) /\ op[c].pc = "clearRow" /\ op[c].pc \in TakesBack
      /\ Cur(c) \in Services
  BY DEF IInv, ClearRow, At, TakesBack, Client, About
<1>2. op[c].kind # "none" /\ Restoring(c) /\ ~Archiving(c)
  BY <1>1, KindAt DEF Client, Restoring, Restores
<1>3. CASE WriteFails(c)
  BY <1>1, <1>3, WriteFailsKeeps
<1>4. CASE /\ row' = [row EXCEPT ![Cur(c)] = 0] /\ Goto(c, "clearMark")
           /\ UNCHANGED <<mark, rec, ctr, locks, bounds, history>>
  <2>1. Clears
    BY <1>1, <1>4, Names DEF Clears, JInv, Numbers, TypeOK, bounds, history
  <2>2. "clearMark" \in Steps
    BY DEF Steps
  <2> QED  BY <1>1, <1>2, <1>4, <2>1, <2>2, GoingOn
<1> QED  BY <1>3, <1>4 DEF ClearRow

LEMMA ClearMarkKeeps ==
  ASSUME ArchiveAssumption, IInv, JInv, NEW c \in Clients, Frame(c), ClearMark(c)
  PROVE  JInv'
<1>1. TypeOK /\ Client(c) /\ op[c].pc = "clearMark" /\ op[c].pc \in TakesBack
      /\ Cur(c) \in Services /\ row[Cur(c)] = 0
  BY DEF IInv, ClearMark, At, TakesBack, Client, About
<1>2. op[c].kind # "none" /\ Restoring(c) /\ ~Archiving(c)
  BY <1>1, KindAt DEF Client, Restoring, Restores
<1>3. CASE WriteFails(c)
  BY <1>1, <1>3, WriteFailsKeeps
<1>4. CASE /\ mark' = [mark EXCEPT ![Cur(c)] = 0] /\ why' = [why EXCEPT ![Cur(c)] = 0]
           /\ Goto(c, IF Resuming(c) THEN "record"
                      ELSE IF Cur(c) \in Kids THEN "next" ELSE "port")
           /\ UNCHANGED <<row, rec, ctr, locks, bounds, last, torn>>
  <2>1. Clears
    BY <1>1, <1>4 DEF Clears, JInv, Numbers, TypeOK, bounds
  <2>2. PICK s \in {"record", "next", "port"} : Goto(c, s)
    BY <1>4
  <2>3. s \in Steps
    BY DEF Steps
  <2> QED  BY <1>1, <1>2, <1>4, <2>1, <2>2, <2>3, GoingOn
<1> QED  BY <1>3, <1>4 DEF ClearMark

LEMMA RecordResourceKeeps ==
  ASSUME ArchiveAssumption, IInv, JInv, NEW c \in Clients, Frame(c), RecordResource(c)
  PROVE  JInv'
<1>1. TypeOK /\ Client(c) /\ op[c].pc = "record" /\ op[c].pc \in TakesBack
      /\ Cur(c) \in Services /\ row[Cur(c)] = 0
  BY DEF IInv, RecordResource, At, TakesBack, Client, About
<1>2. op[c].kind # "none" /\ Restoring(c) /\ ~Archiving(c)
  BY <1>1, KindAt DEF Client, Restoring, Restores
<1>3. "next" \in Steps /\ "release" \in Steps /\ {} \in SUBSET Flags
  BY DEF Steps
<1>4. CASE /\ mark' = [mark EXCEPT ![Cur(c)] = 0] /\ GotoDone(c, "next", {})
           /\ UNCHANGED <<row, ctr, locks, bounds, history>>
  <2>1. Clears
    BY <1>1, <1>4 DEF Clears, JInv, Numbers, TypeOK, bounds, history
  <2> QED  BY <1>1, <1>2, <1>3, <1>4, <2>1, GoingOn
<1>5. CASE Goto(c, "release") /\ UNCHANGED <<rows, ctr, locks, ops, crashes, why, last>>
  <2>1. Clears
    BY <1>5, SameClears DEF rows
  <2> QED  BY <1>1, <1>2, <1>3, <1>5, <2>1, GoingOn
<1> QED  BY <1>4, <1>5 DEF RecordResource

LEMMA AllocatePortKeeps ==
  ASSUME ArchiveAssumption, IInv, JInv, NEW c \in Clients, Frame(c), AllocatePort(c)
  PROVE  JInv'
<1>1. Client(c) /\ op[c].pc = "port" /\ TypeOK
  BY DEF IInv, AllocatePort, At
<1>2. op[c].kind # "none" /\ Restoring(c) /\ ~Archiving(c)
  BY <1>1, KindAt DEF Client, Restoring, Restores
<1>3. CASE Throw(c)
  BY <1>2, <1>3, ThrowKeeps
<1>4. CASE Goto(c, "next") /\ Still
  <2>1. Clears /\ UNCHANGED locks
    BY <1>4, SameClears DEF Still, rows, bounds, history
  <2>2. "next" \in Steps /\ "next" \notin TakesBack
    BY DEF Steps, TakesBack, Resumes
  <2> QED  BY <1>2, <1>4, <2>1, <2>2, GoingOn
<1> QED  BY <1>3, <1>4 DEF AllocatePort

-----------------------------------------------------------------------------
(* The steps that choose the services.                                     *)
LEMMA GoSets ==
  ASSUME TypeOK, NEW c \in Clients, NEW o, Go(c, o)
  PROVE  op'[c] = o
BY DEF Go, TypeOK

(* They write nothing, and archive for nobody else.                        *)
LEMMA ChoosingKeeps ==
  ASSUME ArchiveAssumption, IInv, JInv, NEW c \in Clients, Frame(c),
         op[c].kind # "none", UNCHANGED <<row, mark, why, ops>>,
         op'[c].kind = op[c].kind, op'[c].target = op[c].target, op'[c].id = op[c].id,
         op'[c].shared = op[c].shared \/ \A x \in Services : mark[x] # op[c].id,
         Archiver(c)', Restorer(c)'
  PROVE  JInv'
<1>1. op'[c].id <= ops
  BY Owners
<1> QED  BY <1>1, SameClears, ClearsKeep

LEMMA AcquireLocksKeeps ==
  ASSUME ArchiveAssumption, IInv, JInv, NEW c \in Clients, Frame(c), AcquireLocks(c)
  PROVE  JInv'
<1>1. TypeOK /\ Client(c) /\ op[c].pc = "lock"
      /\ UNCHANGED <<row, mark, why, ops>>
  BY DEF IInv, AcquireLocks, At, rows, bounds, history
<1>2. Archiving(c) /\ ~Restoring(c) /\ op[c].kind # "none"
  BY <1>1, KindAt DEF Client, Archiving, Archives
<1>3. CASE Leave(c)
  BY <1>1, <1>2, <1>3, QuitKeeps
<1>4. CASE Goto(c, "list")
  <2>1. /\ op'[c].pc = "list"
        /\ op'[c].kind = op[c].kind /\ op'[c].target = op[c].target
        /\ op'[c].id = op[c].id /\ op'[c].shared = op[c].shared
        /\ op'[c].todo = op[c].todo /\ op'[c].root = op[c].root
        /\ op'[c].kids = op[c].kids /\ op'[c].cur = op[c].cur
    BY <1>1, <1>4, GotoIs, StepNames
  <2>2. /\ ~op[c].shared /\ Single(c)
        /\ \A x \in Services : row[x] # op[c].id /\ mark[x] # op[c].id
    BY <1>1, <1>2 DEF JInv, Archiver
  <2>3. Single(c)'
    BY <1>1, <2>1, <2>2 DEF Single, Writes, PutsAside, Cur
  <2>4. Archiver(c)'
    BY <1>1, <2>1, <2>2, <2>3 DEF Archiver, Single, Writes, PutsAside, At
  <2>5. Restorer(c)'
    BY <1>2, <2>1 DEF Restorer, Restoring
  <2> QED  BY <1>1, <1>2, <2>1, <2>4, <2>5, ChoosingKeeps
<1> QED  BY <1>3, <1>4 DEF AcquireLocks

(* Nobody's number is that of a service that was archived again but that   *)
(* service itself.                                                         *)
LEMMA NotAgain ==
  ASSUME JInv, NEW x \in Services, mark[x] # 0,
         \/ ChildrenOf(x) # {}
         \/ \E y \in Services \ {x} : row[y] = mark[x] \/ mark[y] = mark[x]
  PROVE  why[x] = mark[x]
BY DEF JInv, Owner, Again

LEMMA ListServicesKeeps ==
  ASSUME ArchiveAssumption, ChildrenOf(Primary) # {}, IInv, JInv,
         NEW c \in Clients, Frame(c), ListServices(c)
  PROVE  JInv'
<1>1. TypeOK /\ Client(c) /\ op[c].pc = "list" /\ op[c] \in Operations
      /\ UNCHANGED <<row, mark, why, ops, locks>>
  BY DEF IInv, ListServices, At, TypeOK, Still, rows, bounds, history
<1>2. op[c].kind \in Archives \cup Restores /\ op[c].kind # "none"
      /\ op[c].target \in Services
  BY <1>1, KindAt DEF Client, Paths, Common, Archiving, Restoring, Archives, Restores
<1> DEFINE t == op[c].target
<1>3. CASE Goto(c, "return")
  <2>1. "return" \in Steps /\ "return" \notin Writes \cup TakesBack
    BY DEF Steps, Writes, PutsAside, TakesBack, Resumes
  <2> QED  BY <1>1, <1>2, <1>3, <2>1, SameClears, GoingOn
<1>4. ASSUME Archiving(c)
      PROVE  /\ Single(c) /\ ~op[c].shared /\ op[c].root = None
             /\ \A x \in Services : row[x] # op[c].id /\ mark[x] # op[c].id
  BY <1>1, <1>4 DEF JInv, Archiver, Single
<1>5. CASE op[c].kind = "archive"
  <2>1. Archiving(c) /\ ~Restoring(c)
    BY <1>5 DEF Archiving, Restoring, Archives, Restores
  <2>2. op'[c] = [op[c] EXCEPT !.cur = t, !.pc = "visit", !.shared = ChildrenOf(t) # {}]
    BY <1>1, <1>5, GoSets DEF ListServices
  <2>3. /\ op'[c].kind = op[c].kind /\ op'[c].target = t /\ op'[c].id = op[c].id
        /\ op'[c].todo = op[c].todo /\ op'[c].root = None /\ op'[c].kids = op[c].kids
        /\ op'[c].cur = t /\ op'[c].pc = "visit"
    BY <1>1, <1>4, <2>1, <2>2 DEF Operations
  <2>4. op'[c].shared = (ChildrenOf(t) # {})
    BY <1>1, <2>2 DEF Operations
  <2>5. ~op'[c].shared => Single(c)'
    BY <1>1, <1>4, <1>5, <2>1, <2>3, <2>4 DEF Single, Cur
  <2>6. Archiver(c)'
    BY <2>3, <2>5 DEF Archiver, Writes, PutsAside, At
  <2>7. Restorer(c)'
    BY <2>1, <2>3 DEF Restorer, Restoring
  <2> QED  BY <1>1, <1>2, <1>4, <2>1, <2>3, <2>6, <2>7, ChoosingKeeps
<1>6. CASE op[c].kind = "archiveGroup" /\ Deployables \cap Active # {}
  <2>1. Archiving(c) /\ ~Restoring(c)
    BY <1>6 DEF Archiving, Restoring, Archives, Restores
  <2>2. op'[c] = [op[c] EXCEPT !.todo = Deployables \cap Active, !.pc = "next",
                               !.shared = TRUE]
    BY <1>1, <1>6, GoSets DEF ListServices
  <2>3. /\ op'[c].kind = op[c].kind /\ op'[c].target = t /\ op'[c].id = op[c].id
        /\ op'[c].root = None /\ op'[c].pc = "next" /\ op'[c].shared
    BY <1>1, <1>4, <2>1, <2>2 DEF Operations
  <2>4. Archiver(c)'
    BY <2>3 DEF Archiver, Writes, PutsAside, At
  <2>5. Restorer(c)'
    BY <2>1, <2>3 DEF Restorer, Restoring
  <2> QED  BY <1>1, <1>2, <1>4, <2>1, <2>3, <2>4, <2>5, ChoosingKeeps
<1>7. ASSUME Restoring(c)
      PROVE  op[c].todo = {} /\ op[c].kids = {} /\ op[c].root = None
  BY <1>1, <1>7 DEF JInv, Restorer, At
<1>8. CASE op[c].kind = "unarchive"
  <2>1. ~Archiving(c) /\ Restoring(c)
    BY <1>8 DEF Archiving, Restoring, Archives, Restores
  <2>2. op'[c] = [op[c] EXCEPT !.cur = t, !.pc = "visit", !.marker = Marker(t)]
    BY <1>1, <1>8, GoSets DEF ListServices, Marker
  <2>3. /\ op'[c].kind = op[c].kind /\ op'[c].target = t /\ op'[c].id = op[c].id
        /\ op'[c].shared = op[c].shared
        /\ op'[c].todo = {} /\ op'[c].root = None /\ op'[c].kids = {}
        /\ op'[c].cur = t /\ op'[c].pc = "visit" /\ op'[c].marker = Marker(t)
    BY <1>1, <1>7, <2>1, <2>2 DEF Operations
  <2>4. Archiver(c)'
    BY <2>1, <2>3 DEF Archiver, Archiving
  <2>5. Restorer(c)'
    BY <1>1, <1>8, <2>3 DEF Restorer, Asked, Marker, At, Cur, TakesBack, Resumes
  <2> QED  BY <1>1, <1>2, <2>3, <2>4, <2>5, ChoosingKeeps
<1>9. CASE op[c].kind = "unarchiveGroup" /\ row[Primary] # 0
  <2>1. ~Archiving(c) /\ Restoring(c)
    BY <1>9 DEF Archiving, Restoring, Archives, Restores
  <2> DEFINE listed == {d \in Deployables : mark[d] = row[Primary]}
  <2>2. op'[c] = [op[c] EXCEPT !.todo = listed, !.pc = "next", !.marker = row[Primary]]
    BY <1>1, <1>9, GoSets DEF ListServices
  <2>3. /\ op'[c].kind = op[c].kind /\ op'[c].target = t /\ op'[c].id = op[c].id
        /\ op'[c].shared = op[c].shared
        /\ op'[c].todo = listed /\ op'[c].root = None /\ op'[c].kids = {}
        /\ op'[c].pc = "next" /\ op'[c].marker = row[Primary]
    BY <1>1, <1>7, <2>1, <2>2 DEF Operations
  <2>4. ASSUME NEW d \in listed PROVE Ours(c, d)'
    <3>1. d \in Services /\ Primary \in Services /\ mark[d] = row[Primary] /\ mark[d] # 0
      BY <1>9, Names
    <3>2. row[d] \in {0, mark[d]}
      BY <3>1 DEF JInv, Numbers
    <3>3. why[d] = mark[d]
      BY <3>1, NotAgain
    <3> QED  BY <1>1, <2>3, <3>1, <3>2, <3>3 DEF Ours
  <2>5. Archiver(c)'
    BY <2>1, <2>3 DEF Archiver, Archiving
  <2>6. Restorer(c)'
    BY <2>3, <2>4 DEF Restorer, At, TakesBack, Resumes
  <2> QED  BY <1>1, <1>2, <2>3, <2>5, <2>6, ChoosingKeeps
<1> QED  BY <1>2, <1>3, <1>5, <1>6, <1>8, <1>9 DEF ListServices, Archives, Restores

LEMMA NextServiceKeeps ==
  ASSUME ArchiveAssumption, IInv, JInv, NEW c \in Clients, Frame(c), NextService(c)
  PROVE  JInv'
<1>1. TypeOK /\ Client(c) /\ op[c].pc = "next" /\ op[c] \in Operations
      /\ UNCHANGED <<row, mark, why, ops, locks>>
  BY DEF IInv, NextService, At, TypeOK, Still, rows, bounds, history
<1>2. op[c].kind # "none" /\ op[c].kind \in Archives \cup Restores
      /\ ~(Archiving(c) /\ Restoring(c))
  BY <1>1, KindAt DEF Client, Common, Archiving, Restoring, Archives, Restores
<1>3. ASSUME Archiving(c), op[c].kids # {} \/ op[c].todo # {} \/ op[c].root # None
      PROVE  op[c].shared
  BY <1>3 DEF JInv, Archiver, Single
<1>4. Archiving(c) => (op[c].root # None => locks[op[c].root] = c /\ mark[op[c].root] = 0)
  BY DEF JInv, Archiver
<1>5. Restoring(c) => /\ \A x \in op[c].todo \cup op[c].kids : Ours(c, x)
                      /\ op[c].root # None => Ours(c, op[c].root) \/ Asked(c, op[c].root)
  BY DEF JInv, Restorer
<1>6. ASSUME NEW x \in Services, op'[c].pc = "visit", op'[c].cur = x,
             op'[c].kind = op[c].kind, op'[c].target = op[c].target,
             op'[c].id = op[c].id, op'[c].shared = op[c].shared,
             op'[c].marker = op[c].marker, op'[c].root = op[c].root,
             op'[c].todo \subseteq op[c].todo, op'[c].kids \subseteq op[c].kids,
             x \in op[c].todo \cup op[c].kids, op[c].root # None => x \in Kids
      PROVE  JInv'
  <2>1. \A y \in op[c].todo \cup op[c].kids : Ours(c, y) => Ours(c, y)'
    BY <1>1, <1>6 DEF Ours
  <2>2. Archiver(c)'
    BY <1>1, <1>3, <1>4, <1>6 DEF Archiver, Archiving, At, Cur, Writes, PutsAside
  <2>3. Restorer(c)'
    <3> SUFFICES ASSUME Restoring(c) PROVE Restorer(c)'
      BY <1>6 DEF Restorer, Restoring
    <3>1. \A y \in op'[c].todo \cup op'[c].kids : Ours(c, y)'
      BY <1>5, <1>6, <2>1
    <3>2. (op[c].root # None => Ours(c, op[c].root) \/ Asked(c, op[c].root))'
      BY <1>1, <1>5, <1>6 DEF Ours, Asked
    <3>3. (Ours(c, Cur(c)))'
      BY <1>1, <1>5, <1>6 DEF Ours, Cur
    <3> QED  BY <1>6, <3>1, <3>2, <3>3 DEF Restorer, At, TakesBack, Resumes
  <2> QED  BY <1>1, <1>2, <1>6, <2>2, <2>3, ChoosingKeeps
<1>7. ASSUME NEW k \in op[c].kids,
             Go(c, [op[c] EXCEPT !.cur = k, !.kids = @ \ {k}, !.pc = "visit"])
      PROVE  JInv'
  <2>1. k \in Kids /\ k \in Services
    BY <1>1, <1>7, FieldsOf, Names
  <2>2. op'[c] = [op[c] EXCEPT !.cur = k, !.kids = @ \ {k}, !.pc = "visit"]
    BY <1>1, <1>7, GoSets
  <2>3. /\ op'[c].pc = "visit" /\ op'[c].cur = k
        /\ op'[c].kind = op[c].kind /\ op'[c].target = op[c].target
        /\ op'[c].id = op[c].id /\ op'[c].shared = op[c].shared
        /\ op'[c].marker = op[c].marker /\ op'[c].root = op[c].root
        /\ op'[c].todo = op[c].todo /\ op'[c].kids = op[c].kids \ {k}
    BY <1>1, <2>2 DEF Operations
  <2> QED  BY <1>6, <1>7, <2>1, <2>3
<1>8. ASSUME op[c].root = None, NEW d \in op[c].todo,
             Go(c, [op[c] EXCEPT !.cur = d, !.todo = @ \ {d}, !.pc = "visit"])
      PROVE  JInv'
  <2>1. d \in Services
    BY <1>1, <1>8, FieldsOf, Names
  <2>2. op'[c] = [op[c] EXCEPT !.cur = d, !.todo = @ \ {d}, !.pc = "visit"]
    BY <1>1, <1>8, GoSets
  <2>3. /\ op'[c].pc = "visit" /\ op'[c].cur = d
        /\ op'[c].kind = op[c].kind /\ op'[c].target = op[c].target
        /\ op'[c].id = op[c].id /\ op'[c].shared = op[c].shared
        /\ op'[c].marker = op[c].marker /\ op'[c].root = op[c].root
        /\ op'[c].todo = op[c].todo \ {d} /\ op'[c].kids = op[c].kids
    BY <1>1, <2>2 DEF Operations
  <2> QED  BY <1>6, <1>8, <2>1, <2>3
<1>9. ASSUME op[c].root # None,
             Go(c, [op[c] EXCEPT !.cur = op[c].root, !.root = None,
                      !.pc = IF op[c].kind \in Archives THEN "row" ELSE "clearRow"])
      PROVE  JInv'
  <2> DEFINE s == IF op[c].kind \in Archives THEN "row" ELSE "clearRow"
  <2>1. op'[c] = [op[c] EXCEPT !.cur = op[c].root, !.root = None, !.pc = s]
    BY <1>1, <1>9, GoSets
  <2> HIDE DEF s
  <2>2. /\ op'[c].pc = s /\ op'[c].cur = op[c].root /\ op'[c].root = None
        /\ op'[c].kind = op[c].kind /\ op'[c].target = op[c].target
        /\ op'[c].id = op[c].id /\ op'[c].shared = op[c].shared
        /\ op'[c].marker = op[c].marker
        /\ op'[c].todo = op[c].todo /\ op'[c].kids = op[c].kids
    BY <1>1, <2>1 DEF Operations
  <2>3. op'[c].pc = IF Archiving(c) THEN "row" ELSE "clearRow"
    BY <2>2 DEF s, Archiving
  <2>4. Archiver(c)'
    BY <1>1, <1>3, <1>4, <1>9, <2>2, <2>3 DEF Archiver, Archiving, At, Cur
  <2>5. Restorer(c)'
    <3> SUFFICES ASSUME Restoring(c) PROVE Restorer(c)'
      BY <2>2 DEF Restorer, Restoring
    <3>1. \A y \in op'[c].todo \cup op'[c].kids : Ours(c, y)'
      BY <1>1, <1>5, <2>2 DEF Ours
    <3>2. (Ours(c, Cur(c)) \/ Asked(c, Cur(c)))'
      BY <1>1, <1>5, <1>9, <2>2 DEF Ours, Asked, Cur
    <3>3. op'[c].pc = "clearRow"
      BY <1>2, <2>3
    <3> QED  BY <2>2, <3>1, <3>2, <3>3 DEF Restorer, At
  <2> QED  BY <1>1, <1>2, <2>2, <2>4, <2>5, ChoosingKeeps
<1>10. CASE Goto(c, "end")
  <2>1. "end" \in Steps /\ "end" \notin Writes \cup TakesBack
    BY DEF Steps, Writes, PutsAside, TakesBack, Resumes
  <2> QED  BY <1>1, <1>2, <1>10, <2>1, SameClears, GoingOn
<1> QED  BY <1>7, <1>8, <1>9, <1>10 DEF NextService

LEMMA VisitArchiveKeeps ==
  ASSUME ArchiveAssumption, IInv, JInv, NEW c \in Clients, Frame(c), VisitArchive(c)
  PROVE  JInv'
<1> DEFINE x == op[c].cur
<1>1. TypeOK /\ Client(c) /\ op[c].pc = "visit" /\ op[c] \in Operations
      /\ UNCHANGED <<row, mark, why, ops, locks>>
  BY DEF IInv, VisitArchive, At, TypeOK, rows, bounds
<1>2. Archiving(c) /\ ~Restoring(c) /\ op[c].kind # "none"
  BY DEF VisitArchive, Archiving, Restoring, Archives, Restores
<1>3. x \in Services /\ locks[x] = c
  BY <1>1, <1>2 DEF Client, About, Locked, Holds, At, Cur
<1>4. /\ ~op[c].shared => Single(c)
      /\ op[c].root # None => locks[op[c].root] = c /\ mark[op[c].root] = 0
      /\ op[c].root # None => x \in Kids
  BY <1>1, <1>2 DEF JInv, Archiver, Cur
<1>5. CASE Goto(c, "next")
  <2>1. "next" \in Steps /\ "next" \notin Writes
    BY DEF Steps, Writes, PutsAside
  <2> QED  BY <1>1, <1>2, <1>5, <2>1, SameClears, GoingOn
<1>6. CASE /\ ~Skips(c) /\ ChildrenOf(x) # {}
           /\ Go(c, [op[c] EXCEPT !.kids = ChildrenOf(x), !.root = x, !.pc = "next"])
  <2>1. op'[c] = [op[c] EXCEPT !.kids = ChildrenOf(x), !.root = x, !.pc = "next"]
    BY <1>1, <1>6, GoSets
  <2>2. /\ op'[c].pc = "next" /\ op'[c].root = x
        /\ op'[c].kind = op[c].kind /\ op'[c].target = op[c].target
        /\ op'[c].id = op[c].id /\ op'[c].shared = op[c].shared
    BY <1>1, <2>1 DEF Operations
  <2>3. op[c].shared /\ mark[x] = 0
    BY <1>1, <1>4, <1>6 DEF Single, Skips, Cur
  <2>4. Archiver(c)'
    BY <1>1, <1>3, <2>2, <2>3 DEF Archiver, At, Writes, PutsAside
  <2>5. Restorer(c)'
    BY <1>2, <2>2 DEF Restorer, Restoring
  <2> QED  BY <1>1, <1>2, <2>2, <2>4, <2>5, ChoosingKeeps
<1>7. ASSUME NEW s \in {"stop", "row"}, ~Skips(c), Goto(c, s) \/ GotoDone(c, s, {})
      PROVE  JInv'
  <2>1. s \in Steps /\ {} \in SUBSET Flags
    BY DEF Steps
  <2>2. /\ op'[c].pc = s
        /\ op'[c].kind = op[c].kind /\ op'[c].target = op[c].target
        /\ op'[c].id = op[c].id /\ op'[c].shared = op[c].shared
        /\ op'[c].todo = op[c].todo /\ op'[c].root = op[c].root
        /\ op'[c].kids = op[c].kids /\ op'[c].cur = x
    <3>1. CASE Goto(c, s)
      BY <1>1, <2>1, <3>1, GotoIs
    <3>2. CASE GotoDone(c, s, {})
      BY <1>1, <2>1, <3>2, GotoDoneIs
    <3> QED  BY <1>7, <3>1, <3>2
  <2>3. op[c].shared => mark[x] = 0
    BY <1>7 DEF Skips, Cur
  <2>4. ASSUME ~op[c].shared PROVE Single(c)'
    <3>1. Single(c) /\ x = op[c].target /\ ChildrenOf(x) = {} /\ op[c].kind = "archive"
      BY <1>1, <1>4, <2>4 DEF Single, Cur
    <3> QED  BY <1>1, <2>2, <3>1 DEF Single, Cur
  <2>5. Archiver(c)'
    BY <1>1, <1>3, <1>4, <2>2, <2>3, <2>4 DEF Archiver, At, Cur
  <2>6. Restorer(c)'
    BY <1>2, <2>2 DEF Restorer, Restoring
  <2> QED  BY <1>1, <1>2, <2>2, <2>5, <2>6, ChoosingKeeps
<1>8. \/ Goto(c, "next")
      \/ ~Skips(c) /\ ChildrenOf(x) # {}
         /\ Go(c, [op[c] EXCEPT !.kids = ChildrenOf(x), !.root = x, !.pc = "next"])
      \/ ~Skips(c) /\ (GotoDone(c, "stop", {}) \/ Goto(c, "row"))
  BY DEF VisitArchive, Cur
<1> QED  BY <1>5, <1>6, <1>7, <1>8

LEMMA VisitRestoreKeeps ==
  ASSUME ArchiveAssumption, IInv, JInv, NEW c \in Clients, Frame(c), VisitRestore(c)
  PROVE  JInv'
<1> DEFINE x == op[c].cur
<1>1. TypeOK /\ Client(c) /\ op[c].pc = "visit" /\ op[c] \in Operations
      /\ UNCHANGED <<row, mark, why, ops, locks>>
  BY DEF IInv, VisitRestore, At, TypeOK, Still, rows, bounds, history
<1>2. Restoring(c) /\ ~Archiving(c) /\ op[c].kind # "none"
  BY DEF VisitRestore, Archiving, Restoring, Archives, Restores
<1>3. x \in Services
  BY <1>1 DEF Client, About, At, Cur
<1>4. /\ \A y \in op[c].todo \cup op[c].kids : Ours(c, y)
      /\ Ours(c, x) \/ (Asked(c, x) /\ op[c].marker = Marker(x))
  BY <1>1, <1>2 DEF JInv, Restorer, At, Cur
<1>5. CASE Goto(c, "next")
  <2>1. "next" \in Steps /\ "next" \notin TakesBack
    BY DEF Steps, TakesBack, Resumes
  <2> QED  BY <1>1, <1>2, <1>5, <2>1, SameClears, GoingOn
<1>6. CASE /\ Matching(x) # {} /\ ~(row[x] = 0 /\ mark[x] = 0)
           /\ Go(c, [op[c] EXCEPT !.kids = Matching(x), !.root = x, !.pc = "next"])
  <2>1. op'[c] = [op[c] EXCEPT !.kids = Matching(x), !.root = x, !.pc = "next"]
    BY <1>1, <1>6, GoSets
  <2>2. /\ op'[c].pc = "next" /\ op'[c].root = x /\ op'[c].kids = Matching(x)
        /\ op'[c].kind = op[c].kind /\ op'[c].target = op[c].target
        /\ op'[c].id = op[c].id /\ op'[c].shared = op[c].shared
        /\ op'[c].marker = op[c].marker /\ op'[c].todo = op[c].todo
    BY <1>1, <2>1 DEF Operations
  <2>3. Marker(x) = op[c].marker /\ Marker(x) # 0
        /\ (row[x] = Marker(x) \/ mark[x] = Marker(x))
    BY <1>4, <1>6 DEF Marker, Ours
  <2>4. ASSUME NEW k \in Matching(x) PROVE Ours(c, k)
    <3>1. k \in ChildrenOf(x) /\ row[k] = Marker(x)
      BY DEF Matching, Marker
    <3>2. k \in Kids /\ k \in Services /\ k # x /\ k # Primary
      BY <3>1, Names
    <3>3. mark[k] = op[c].marker /\ mark[k] # 0
      BY <2>3, <3>1, <3>2 DEF JInv, Numbers
    <3>4. why[k] = mark[k]
      BY <1>3, <2>3, <3>2, <3>3, NotAgain
    <3> QED  BY <2>3, <3>1, <3>3, <3>4 DEF Ours
  <2>5. Archiver(c)'
    BY <1>2, <2>2 DEF Archiver, Archiving
  <2>6. Restorer(c)'
    <3>1. \A y \in op'[c].todo \cup op'[c].kids : Ours(c, y)'
      BY <1>1, <1>4, <2>2, <2>4 DEF Ours
    <3>2. (Ours(c, op[c].root) \/ Asked(c, op[c].root))'
      BY <1>1, <1>4, <2>2 DEF Ours, Asked
    <3> QED  BY <2>2, <3>1, <3>2 DEF Restorer, At, TakesBack, Resumes
  <2> QED  BY <1>1, <1>2, <2>2, <2>5, <2>6, ChoosingKeeps
<1>7. ASSUME NEW s \in {"resume", "clearRow"}, NEW done \in SUBSET Flags, GotoDone(c, s, done)
      PROVE  JInv'
  <2>1. /\ op'[c].pc = s
        /\ op'[c].kind = op[c].kind /\ op'[c].target = op[c].target
        /\ op'[c].id = op[c].id /\ op'[c].shared = op[c].shared
        /\ op'[c].marker = op[c].marker /\ op'[c].todo = op[c].todo
        /\ op'[c].root = op[c].root /\ op'[c].kids = op[c].kids /\ op'[c].cur = x
    <3>1. s \in Steps
      BY DEF Steps
    <3> QED  BY <1>1, <1>7, <3>1, GotoDoneIs
  <2>2. Archiver(c)'
    BY <1>2, <2>1 DEF Archiver, Archiving
  <2>3. Restorer(c)'
    <3>1. \A y \in op'[c].todo \cup op'[c].kids : Ours(c, y)'
      BY <1>1, <1>4, <2>1 DEF Ours
    <3>2. (op[c].root # None => Ours(c, op[c].root) \/ Asked(c, op[c].root))'
      BY <1>1, <1>2, <2>1 DEF JInv, Restorer, Ours, Asked
    <3>3. (Ours(c, Cur(c)) \/ Asked(c, Cur(c)))'
      BY <1>1, <1>4, <2>1 DEF Ours, Asked, Cur
    <3> QED  BY <2>1, <3>1, <3>2, <3>3 DEF Restorer, At
  <2> QED  BY <1>1, <1>2, <2>1, <2>2, <2>3, ChoosingKeeps
<1>8. {"found"} \in SUBSET Flags /\ {} \in SUBSET Flags
  BY DEF Flags
<1> QED  BY <1>5, <1>6, <1>7, <1>8 DEF VisitRestore, Cur

-----------------------------------------------------------------------------
(* The steps that write the number of an archive on a service.             *)
LEMMA WritingKeeps ==
  ASSUME ArchiveAssumption, IInv, JInv, NEW c \in Clients, Frame(c), Archiving(c),
         op'[c].kind = op[c].kind, op'[c].target = op[c].target, op'[c].id = op[c].id,
         op'[c].shared = op[c].shared, UNCHANGED ops,
         NEW x \in Services,
         \A y \in Services \ {x} : row'[y] = row[y] /\ mark'[y] = mark[y] /\ why'[y] = why[y],
         row'[x] = op[c].id, mark'[x] \in {mark[x], op[c].id},
         x = Primary \/ mark'[x] = op[c].id,
         locks[x] = c \/ mark'[x] = mark[x],
         mark'[x] # 0 => why'[x] = mark'[x] \/ Again(x)',
         \A y \in Services \ {x} : Again(y) => mark[y] # op[c].id,
         Archiver(c)'
  PROVE  JInv'
<1>1. \A d \in Clients \ {c} : op'[d] = op[d] /\ ~Restoring(d) /\ ~Restoring(d)'
  BY DEF IInv, Alone, Frame, Restoring, Archiving, Archives
<1>2. ~Restoring(c)'
  BY DEF Archiving, Restoring, Archives, Restores
<1>3. \A d \in Clients : Archiving(d)' =>
        /\ Archiving(d) /\ op'[d].kind = op[d].kind /\ op'[d].target = op[d].target
        /\ op'[d].id = op[d].id /\ op'[d].shared = op[d].shared
  BY <1>1 DEF Archiving
<1>4. op[c].id <= ops /\ op[c].id # 0
  BY Owners
<1>5. Numbers'
  <2>1. \A y \in Services : row'[y] <= ops' /\ mark'[y] <= ops'
    BY <1>4, Owners DEF JInv, Numbers
  <2>2. \A d \in Clients : op'[d].id <= ops'
    BY <1>1 DEF JInv, Numbers
  <2>3. \A d, e \in Clients :
          d # e /\ Archiving(d)' /\ Archiving(e)' => op'[d].id # op'[e].id
    BY <1>3 DEF JInv, Numbers
  <2>4. \A y \in Services \ {Primary} : row'[y] \in {0, mark'[y]}
    BY DEF JInv, Numbers
  <2> QED  BY <2>1, <2>2, <2>3, <2>4 DEF Numbers, Archiving
<1>6. Owner'
  <2> SUFFICES ASSUME NEW y \in Services \ {x}, mark'[y] # 0
               PROVE  why'[y] = mark'[y] \/ Again(y)'
    BY DEF Owner
  <2>1. mark'[y] = mark[y] /\ why'[y] = why[y] /\ mark[y] # 0 /\ y \in Services
    OBVIOUS
  <2>2. ASSUME Again(y) PROVE Again(y)'
    <3>1. mark[y] # op[c].id
      BY <2>2
    <3>2. \A z \in Services \ {y} : row'[z] # mark'[y] /\ mark'[z] # mark'[y]
      BY <2>1, <2>2, <3>1 DEF Again
    <3>3. \A d \in Clients : Archiving(d)' /\ op'[d].id = mark'[y] =>
            op'[d].kind = "archive" /\ ~op'[d].shared /\ op'[d].target = y
      BY <1>3, <2>1, <2>2 DEF Again
    <3> QED  BY <2>2, <3>2, <3>3 DEF Again, Archiving
  <2> QED  BY <2>1, <2>2 DEF JInv, Owner
<1>7. ASSUME NEW d \in Clients \ {c} PROVE Archiver(d)'
  <2> SUFFICES ASSUME Archiving(d)' PROVE Archiver(d)'
    BY DEF Archiver
  <2>1. op'[d] = op[d] /\ Archiving(d) /\ Archiver(d) /\ op[d].id # op[c].id
    BY <1>1, <1>3 DEF JInv, Numbers
  <2>2. \A y \in Services : locks[y] = d => locks'[y] = d /\ mark'[y] = mark[y]
    BY DEF Frame
  <2>3. (op[d].pc \in Writes => Cur(d) \in Services)
        /\ (op[d].root # None => op[d].root \in Services)
    BY Owners
  <2>4. \A y \in Services : /\ row[y] # op[d].id => row'[y] # op[d].id
                            /\ mark[y] # op[d].id => mark'[y] # op[d].id
    BY <2>1
  <2>5. Single(d) => Single(d)'
    BY <2>1, <2>4 DEF Single, Cur
  <2> QED  BY <2>1, <2>2, <2>3, <2>4, <2>5 DEF Archiver, At, Cur
<1>8. \A d \in Clients : Restorer(d)'
  BY <1>1, <1>2 DEF Restorer
<1> QED  BY <1>5, <1>6, <1>7, <1>8 DEF JInv

LEMMA SetMarksKeeps ==
  ASSUME ArchiveAssumption, IInv, JInv, NEW c \in Clients, Frame(c), SetMarks(c),
         op[c].pc \in {"row", "save"}, NEW s \in {"clear", "remove", "next"}, Goto(c, s),
         UNCHANGED <<locks, ops>>
  PROVE  JInv'
<1> DEFINE id == op[c].id
<1>1. TypeOK /\ Client(c) /\ op[c].pc \in Writes
  BY DEF IInv, Writes, PutsAside
<1>0. PICK x \in Services : op[c].cur = x
  BY <1>1, Owners DEF Cur
<1>2. Archiving(c) /\ op[c].kind # "none"
  BY <1>1, KindAt DEF Client, PutsAside, Archiving, Archives
<1>3. locks[x] = c /\ (op[c].shared => mark[x] = 0) /\ id # 0 /\ id \in Times
  BY <1>0, <1>1, <1>2, Owners, FieldsOf DEF JInv, Archiver, Cur
<1>4. /\ op'[c].pc = s
      /\ op'[c].kind = op[c].kind /\ op'[c].target = op[c].target
      /\ op'[c].id = id /\ op'[c].shared = op[c].shared
      /\ op'[c].todo = op[c].todo /\ op'[c].root = op[c].root
      /\ op'[c].kids = op[c].kids /\ op'[c].cur = x
  BY <1>0, <1>1, GotoIs, StepNames
<1>5. /\ row'[x] = id /\ mark'[x] = id
      /\ why'[x] = IF mark[x] # 0 THEN why[x] ELSE id
      /\ \A y \in Services \ {x} : row'[y] = row[y] /\ mark'[y] = mark[y] /\ why'[y] = why[y]
  BY <1>0, <1>1, <1>3 DEF SetMarks, Reason, Cur, TypeOK
<1>6. ASSUME ~op[c].shared
      PROVE  /\ Single(c) /\ x = op[c].target /\ ChildrenOf(x) = {} /\ op[c].kind = "archive"
             /\ op[c].root = None
  BY <1>0, <1>1, <1>2, <1>6 DEF JInv, Archiver, Single, Writes, PutsAside, Cur
<1>7. op[c].root # None => op[c].root # x /\ op[c].root \in Services
  <2>1. op[c].pc = "save" => x \in Kids
    BY <1>0, <1>1, Names DEF Client, About, Cur, PutsAside
  <2>2. op[c].root # None /\ op[c].pc = "row" => x \in Kids
    BY <1>0, <1>2 DEF JInv, Archiver, Cur
  <2> QED  BY <2>1, <2>2, Owners, Names
<1>8. s \notin {"lock", "list", "visit", "row", "mark", "return"} /\ s \notin Writes
  BY DEF Writes, PutsAside
<1>9. Archiver(c)'
  <2>1. ASSUME ~op[c].shared PROVE Single(c)'
    <3>1. \A y \in Services \ {op[c].target} : row'[y] # id /\ mark'[y] # id
      BY <1>5, <1>6, <2>1 DEF Single
    <3> QED  BY <1>4, <1>6, <1>8, <2>1, <3>1 DEF Single, Cur
  <2>2. op[c].root # None => locks'[op[c].root] = c /\ mark'[op[c].root] = 0
    BY <1>2, <1>5, <1>7 DEF JInv, Archiver
  <2> QED  BY <1>4, <1>8, <2>1, <2>2 DEF Archiver, At, Cur
<1>10. why'[x] = mark'[x] \/ Again(x)'
  <2> SUFFICES ASSUME mark[x] # 0 PROVE Again(x)'
    BY <1>5
  <2>1. ~op[c].shared
    BY <1>3
  <2>2. \A y \in Services \ {x} : row'[y] # mark'[x] /\ mark'[y] # mark'[x]
    BY <1>5, <1>6, <2>1 DEF Single
  <2>3. ASSUME NEW d \in Clients, Archiving(d)', op'[d].id = mark'[x]
        PROVE  op'[d].kind = "archive" /\ ~op'[d].shared /\ op'[d].target = x
    <3>1. d = c
      BY <1>2, <1>4, <1>5, <2>3 DEF JInv, Numbers, Frame, Archiving
    <3> QED  BY <1>4, <1>6, <2>1, <3>1
  <2> QED  BY <1>6, <2>1, <2>2, <2>3 DEF Again
<1>11. \A y \in Services \ {x} : Again(y) => mark[y] # id
  BY <1>2, <1>6 DEF Again
<1> QED  BY <1>2, <1>3, <1>4, <1>5, <1>9, <1>10, <1>11, WritingKeeps

LEMMA ArchiveRowKeeps ==
  ASSUME ArchiveAssumption, IInv, JInv, NEW c \in Clients, Frame(c), ArchiveRow(c)
  PROVE  JInv'
<1>1. op[c].pc = "row" /\ op[c].kind # "none"
  BY KindAt DEF ArchiveRow, At, IInv, Client, Archiving, Archives
<1>2. CASE Throw(c)
  BY <1>1, <1>2, ThrowKeeps
<1>3. CASE /\ SetMarks(c)
           /\ Goto(c, IF ~op[c].shared /\ Cur(c) = Primary THEN "clear" ELSE "remove")
           /\ UNCHANGED <<ctr, locks, bounds, last, torn>>
  <2>1. PICK s \in {"clear", "remove"} : Goto(c, s)
    BY <1>3
  <2> QED  BY <1>1, <1>3, <2>1, SetMarksKeeps DEF bounds
<1> QED  BY <1>2, <1>3 DEF ArchiveRow

LEMMA SaveResourceKeeps ==
  ASSUME ArchiveAssumption, IInv, JInv, NEW c \in Clients, Frame(c), SaveResource(c)
  PROVE  JInv'
<1>1. op[c].pc = "save" /\ op[c].pc \in PutsAside
  BY DEF SaveResource, At, PutsAside
<1>2. CASE Caught(c, "undo")
  BY <1>1, <1>2, CaughtKeeps
<1>3. CASE SetMarks(c) /\ Goto(c, "next") /\ UNCHANGED <<ctr, locks, bounds, last, torn>>
  BY <1>1, <1>3, SetMarksKeeps DEF bounds
<1> QED  BY <1>2, <1>3 DEF SaveResource

LEMMA MarkKeeps ==
  ASSUME ArchiveAssumption, IInv, JInv, NEW c \in Clients, Frame(c), WriteGroup(c),
         At(c, "mark")
  PROVE  JInv'
<1>1. TypeOK /\ Client(c) /\ op[c].pc = "mark" /\ Primary \in Services
  BY Names DEF IInv, At
<1>2. Archiving(c) /\ op[c].kind # "none" /\ Archiver(c)
  BY <1>1, KindAt DEF Client, Archiving, Archives, JInv
<1>3. CASE Throw(c)
  BY <1>2, <1>3, ThrowKeeps
<1>4. CASE /\ row' = [row EXCEPT ![Primary] = op[c].id] /\ Goto(c, "return")
           /\ UNCHANGED <<mark, rec, ctr, locks, bounds, history>>
  <2>1. op[c].kind = "archiveGroup" /\ op[c].shared
    BY <1>1, <1>2 DEF Archiver, Single, At
  <2>2. /\ op'[c].pc = "return"
        /\ op'[c].kind = op[c].kind /\ op'[c].target = op[c].target
        /\ op'[c].id = op[c].id /\ op'[c].shared = op[c].shared
        /\ op'[c].root = op[c].root
    BY <1>1, <1>4, GotoIs, StepNames
  <2>3. row'[Primary] = op[c].id /\ \A y \in Services \ {Primary} : row'[y] = row[y]
    BY <1>1, <1>4 DEF TypeOK
  <2>4. UNCHANGED <<mark, why, locks, ops>>
    BY <1>4 DEF bounds, history
  <2>5. Archiver(c)'
    BY <1>2, <2>1, <2>2, <2>4 DEF Archiver, Writes, PutsAside, At
  <2>6. \A y \in Services : Again(y) => mark[y] # op[c].id
    BY <1>2, <2>1 DEF Again
  <2>7. mark'[Primary] # 0 => why'[Primary] = mark'[Primary] \/ Again(Primary)'
    <3> SUFFICES ASSUME mark[Primary] # 0, Again(Primary) PROVE Again(Primary)'
      BY <1>1, <2>4 DEF JInv, Owner
    <3>1. \A d \in Clients : Archiving(d)' => Archiving(d) /\ op'[d].id = op[d].id
            /\ op'[d].kind = op[d].kind /\ op'[d].shared = op[d].shared
            /\ op'[d].target = op[d].target
      BY <2>2 DEF Frame, Archiving
    <3> QED  BY <2>3, <2>4, <3>1 DEF Again, Archiving
  <2> QED  BY <1>1, <1>2, <2>2, <2>3, <2>4, <2>5, <2>6, <2>7, WritingKeeps
<1> QED  BY <1>3, <1>4 DEF WriteGroup

-----------------------------------------------------------------------------
(* Requests, deploys and restarts.                                         *)
LEMMA BeginKeeps ==
  ASSUME ArchiveAssumption, IInv, JInv, NEW c \in Clients, Frame(c),
         NEW kind \in Archives \cup Restores, NEW x \in Services, Begin(c, kind, x)
  PROVE  JInv'
<1> DEFINE s == IF kind \in Archives THEN "lock" ELSE "list"
           o == [Idle EXCEPT !.kind = kind, !.target = x, !.id = ops + 1,
                   !.alone = Quiet, !.before = Active, !.owed = Owed(kind, x), !.pc = s]
<1>1. TypeOK /\ op' = [op EXCEPT ![c] = o] /\ ops' = ops + 1
      /\ UNCHANGED <<row, mark, why, locks>>
  BY DEF Begin, IInv, rows
<1>2. op'[c] = o
  BY <1>1 DEF TypeOK
<1>3. /\ op'[c].kind = kind /\ op'[c].target = x /\ op'[c].id = ops + 1
      /\ op'[c].todo = {} /\ op'[c].kids = {} /\ op'[c].root = None
      /\ op'[c].shared = FALSE /\ op'[c].pc = s
  BY <1>2 DEF Idle
<1>4. ops \in Nat /\ \A y \in Services : row[y] \in Nat /\ mark[y] \in Nat
                                         /\ row[y] <= ops /\ mark[y] <= ops
  BY Owners DEF JInv, Numbers
<1>5. \A d \in Clients : op[d].id \in Nat /\ op[d].id <= ops
  BY Owners
<1>6. \A d \in Clients \ {c} : op'[d] = op[d]
  BY DEF Frame
<1>7. s \in {"lock", "list"}
  OBVIOUS
<1> HIDE DEF s, o
<1>8. Numbers'
  <2>1. \A y \in Services : row'[y] <= ops' /\ mark'[y] <= ops'
    BY <1>1, <1>4
  <2>2. \A d \in Clients : op'[d].id <= ops'
    BY <1>1, <1>3, <1>4, <1>5, <1>6
  <2>3. \A d \in Clients \ {c} : op'[d].id # op'[c].id
    BY <1>3, <1>4, <1>5, <1>6
  <2>4. \A d, e \in Clients \ {c} :
          d # e /\ Archiving(d)' /\ Archiving(e)' => op'[d].id # op'[e].id
    BY <1>6 DEF JInv, Numbers, Archiving
  <2>5. \A d, e \in Clients :
          d # e /\ Archiving(d)' /\ Archiving(e)' => op'[d].id # op'[e].id
    BY <2>3, <2>4
  <2> QED  BY <1>1, <2>1, <2>2, <2>5 DEF JInv, Numbers, Archiving
<1>9. Owner'
  <2> SUFFICES ASSUME NEW y \in Services, mark[y] # 0, Again(y) PROVE Again(y)'
    BY <1>1 DEF JInv, Owner
  <2>1. op'[c].id # mark[y]
    BY <1>3, <1>4
  <2> QED  BY <1>1, <1>6, <2>1 DEF Again, Archiving
<1>10. Archiver(c)' /\ Restorer(c)'
  <2>1. \A y \in Services : row'[y] # op'[c].id /\ mark'[y] # op'[c].id
    BY <1>1, <1>3, <1>4
  <2>2. Archiving(c)' => op'[c].pc = "lock"
    BY <1>3 DEF s, Archiving
  <2>3. Archiving(c)' => Single(c)'
    BY <1>3, <2>1, <2>2 DEF Single, Writes, PutsAside
  <2>4. Archiver(c)'
    BY <1>3, <2>1, <2>2, <2>3 DEF Archiver, At, Writes, PutsAside
  <2>5. Restorer(c)'
    BY <1>3, <1>7 DEF Restorer, At, TakesBack, Resumes
  <2> QED  BY <2>4, <2>5
<1>11. \A d \in Clients \ {c} : Archiver(d)'
  BY OthersArchive, <1>1
<1>12. ASSUME NEW d \in Clients \ {c} PROVE Restorer(d)'
  <2>1. Restorer(d) /\ op'[d] = op[d]
    BY <1>6 DEF JInv
  <2>2. \A y \in op'[d].todo \cup op'[d].kids : Ours(d, y) => Ours(d, y)'
    BY <1>1, <2>1 DEF Ours
  <2> QED  BY <1>1, <2>1, <2>2 DEF Restorer, Restoring, Ours, Asked, Marker, At, Cur
<1> QED  BY <1>8, <1>9, <1>10, <1>11, <1>12 DEF JInv

LEMMA SameKeeps ==
  ASSUME JInv, UNCHANGED <<row, mark, why, ops, locks, op>>
  PROVE  JInv'
<1>1. Numbers'
  BY DEF JInv, Numbers, Archiving
<1>2. Owner'
  BY DEF JInv, Owner, Again, Archiving
<1>3. ASSUME NEW c \in Clients PROVE Archiver(c)'
  BY DEF JInv, Archiver, Archiving, Single, At, Cur
<1>4. ASSUME NEW c \in Clients PROVE Restorer(c)'
  BY DEF JInv, Restorer, Restoring, Ours, Asked, Marker, At, Cur
<1> QED  BY <1>1, <1>2, <1>3, <1>4 DEF JInv

LEMMA NobodyWorks ==
  ASSUME NEW c \in Clients, op[c] = Idle
  PROVE  /\ op[c].id = 0 /\ ~Archiving(c) /\ ~Restoring(c)
         /\ Archiver(c) /\ Restorer(c)
<1>1. op[c].kind = "none" /\ op[c].id = 0
  BY DEF Idle
<1>2. ~Archiving(c) /\ ~Restoring(c)
  BY <1>1 DEF Archiving, Restoring, Archives, Restores
<1> QED  BY <1>1, <1>2 DEF Archiver, Restorer

LEMMA CrashKeepsOwners ==
  ASSUME ArchiveAssumption, IInv, JInv, Crash
  PROVE  JInv'
<1>1. UNCHANGED <<row, mark, why, ops>> /\ \A c \in Clients : op'[c] = Idle
  BY DEF Crash, rows, history
<1>2. \A c \in Clients : op'[c].kind = "none" /\ op'[c].id = 0
  BY <1>1 DEF Idle
<1>3. \A c \in Clients : ~Archiving(c)' /\ ~Restoring(c)'
  BY <1>2 DEF Archiving, Restoring, Archives, Restores
<1>4. \A c \in Clients : op'[c].id <= ops
  BY <1>2, Owners
<1>5. Numbers'
  BY <1>1, <1>3, <1>4 DEF JInv, Numbers
<1>6. Owner'
  BY <1>1, <1>3 DEF JInv, Owner, Again
<1> QED  BY <1>3, <1>5, <1>6 DEF JInv, Archiver, Restorer

LEMMA InitOwners == ArchiveAssumption /\ Init => JInv
<1> SUFFICES ASSUME ArchiveAssumption, Init PROVE JInv
  OBVIOUS
<1>1. \A c \in Clients : op[c] = Idle
  BY DEF Init
<1>2. \A c \in Clients : op[c].id = 0 /\ ~Archiving(c) /\ Archiver(c) /\ Restorer(c)
  BY <1>1, NobodyWorks
<1>3. ops = 0 /\ \A x \in Services : row[x] = 0 /\ mark[x] = 0
  BY DEF Init
<1> QED  BY <1>2, <1>3 DEF JInv, Numbers, Owner

LEMMA ProceedKeepsOwners ==
  ASSUME ArchiveAssumption, ChildrenOf(Primary) # {}, IInv, JInv,
         NEW c \in Clients, Proceed(c)
  PROVE  JInv'
<1>0. Frame(c)
  BY ProceedGoes DEF Goes
<1>1. AcquireLocks(c) \/ ListServices(c) \/ NextService(c) \/ End(c) => JInv'
  BY <1>0, AcquireLocksKeeps, ListServicesKeeps, NextServiceKeeps, EndKeeps
<1>2. WriteGroup(c) => JInv'
  BY <1>0, MarkKeeps, UnmarkKeeps
<1>3. ASSUME Return(c) PROVE JInv'
  <2>1. op[c].kind # "none"
    BY <1>3, KindAt DEF Return, At, IInv, Client, Common, Archiving, Restoring, Archives,
       Restores
  <2> QED  BY <1>0, <1>3, <2>1, QuitKeeps DEF Return, rows, bounds
<1>4. VisitArchive(c) \/ ArchiveRow(c) \/ ReadSiblings(c) \/ UnsetGroup(c)
      \/ RemoveContainer(c) => JInv'
  BY <1>0, VisitArchiveKeeps, ArchiveRowKeeps, ReadSiblingsKeeps, UnsetGroupKeeps,
     RemoveContainerKeeps
<1>5. StopResource(c) \/ DisconnectResource(c) \/ RenameResource(c)
      \/ SaveResource(c) \/ UndoArchive(c) => JInv'
  BY <1>0, PutAsideKeeps, SaveResourceKeeps
<1>6. VisitRestore(c) \/ ResumeName(c) \/ ResumeNetwork(c) \/ ResumeStart(c)
      \/ ReleaseResource(c) => JInv'
  BY <1>0, VisitRestoreKeeps, TakeBackKeeps
<1>7. ClearRow(c) \/ ClearMark(c) \/ RecordResource(c) \/ AllocatePort(c) => JInv'
  BY <1>0, ClearRowKeeps, ClearMarkKeeps, RecordResourceKeeps, AllocatePortKeeps
<1> QED  BY <1>1, <1>2, <1>3, <1>4, <1>5, <1>6, <1>7 DEF Proceed

LEMMA NextKeepsOwners ==
  ASSUME ~Overlap, ChildrenOf(Primary) # {}, ArchiveAssumption, IInv, JInv, [Next]_vars
  PROVE  JInv'
<1>1. ASSUME NEW c \in Clients, RequestGroup(c) PROVE JInv'
  <2>1. PICK kind \in {"archiveGroup", "unarchiveGroup"} : Begin(c, kind, Primary)
    BY <1>1 DEF RequestGroup
  <2>2. kind \in Archives \cup Restores /\ Primary \in Services
    BY Names DEF Archives, Restores
  <2> QED  BY <2>1, <2>2, BeginGoes, BeginKeeps DEF Goes
<1>2. ASSUME NEW c \in Clients, NEW x \in Services, RequestService(c, x) PROVE JInv'
  <2>1. PICK kind \in {"archive", "unarchive"} : Begin(c, kind, x)
    BY <1>2 DEF RequestService
  <2>2. kind \in Archives \cup Restores
    BY DEF Archives, Restores
  <2> QED  BY <2>1, <2>2, BeginGoes, BeginKeeps DEF Goes
<1>3. ASSUME NEW c \in Clients, Proceed(c) PROVE JInv'
  BY <1>3, ProceedKeepsOwners
<1>4. ASSUME NEW x \in Leaves, Deploy(x) PROVE JInv'
  BY <1>4, SameKeeps DEF Deploy, bounds, history
<1>5. CASE Crash
  BY <1>5, CrashKeepsOwners
<1>6. CASE UNCHANGED vars
  BY <1>6, SameKeeps DEF vars, rows, bounds, history
<1> QED  BY <1>1, <1>2, <1>3, <1>4, <1>5, <1>6 DEF Next

(* Only a restore that is about a service makes it active.                 *)
LEMMA WhoMakesActive ==
  ASSUME ArchiveAssumption, IInv, [Next]_vars, NEW x \in Services,
         mark[x] # 0, mark'[x] = 0
  PROVE  \E c \in Clients : op[c].pc \in TakesBack /\ Cur(c) = x
<1>1. ASSUME NEW c \in Clients, ArchiveRow(c) \/ SaveResource(c) PROVE FALSE
  <2>1. SetMarks(c) \/ UNCHANGED mark
    BY <1>1 DEF ArchiveRow, SaveResource, Throw, Caught, rows
  <2>2. op[c].id # 0
    BY <1>1, KindAt DEF ArchiveRow, SaveResource, At, IInv, Client, Paths, PutsAside
  <2> QED  BY <2>1, <2>2 DEF SetMarks, IInv, TypeOK
<1>2. ASSUME NEW c \in Clients, ClearMark(c) \/ RecordResource(c)
      PROVE  op[c].pc \in TakesBack /\ Cur(c) = x
  <2>1. op[c].pc \in TakesBack
    BY <1>2 DEF ClearMark, RecordResource, At, TakesBack
  <2>2. (mark' = [mark EXCEPT ![Cur(c)] = 0]) \/ UNCHANGED mark
    BY <1>2 DEF ClearMark, RecordResource, WriteFails, Throw, Caught, rows
  <2> QED  BY <2>1, <2>2 DEF IInv, TypeOK
<1>3. ASSUME NEW c \in Clients, Proceed(c)
      PROVE  \/ ArchiveRow(c) \/ SaveResource(c) \/ ClearMark(c) \/ RecordResource(c)
             \/ UNCHANGED mark
  <2>1. AcquireLocks(c) \/ ListServices(c) \/ NextService(c) \/ End(c) \/ WriteGroup(c)
        \/ Return(c) => UNCHANGED mark
    BY DEF AcquireLocks, ListServices, NextService, End, WriteGroup, Return, Still, Throw, rows
  <2>2. VisitArchive(c) \/ ReadSiblings(c) \/ UnsetGroup(c) \/ RemoveContainer(c)
        => UNCHANGED mark
    BY DEF VisitArchive, ReadSiblings, UnsetGroup, RemoveContainer, Still, Throw, rows
  <2>3. StopResource(c) \/ DisconnectResource(c) \/ RenameResource(c) \/ UndoArchive(c)
        => UNCHANGED mark
    BY DEF StopResource, DisconnectResource, RenameResource, UndoArchive, UndoStep, Try,
       Runtime, Caught, Throw, rows
  <2>4. VisitRestore(c) \/ ResumeName(c) \/ ResumeNetwork(c) \/ ResumeStart(c)
        \/ ReleaseResource(c) => UNCHANGED mark
    BY DEF VisitRestore, ResumeName, ResumeNetwork, ResumeStart, ReleaseResource,
       ReleaseStep, Try, Runtime, Caught, Throw, Still, rows
  <2>5. ClearRow(c) \/ AllocatePort(c) => UNCHANGED mark
    BY DEF ClearRow, AllocatePort, WriteFails, Caught, Throw, Still, rows
  <2> QED  BY <1>3, <2>1, <2>2, <2>3, <2>4, <2>5 DEF Proceed
<1>4. ASSUME NEW c \in Clients,
             RequestGroup(c) \/ \E y \in Services : RequestService(c, y)
      PROVE  UNCHANGED mark
  BY <1>4 DEF RequestGroup, RequestService, Begin, rows
<1>5. (\E y \in Leaves : Deploy(y)) \/ Crash \/ UNCHANGED vars => UNCHANGED mark
  BY DEF Deploy, Crash, vars, rows
<1> QED  BY <1>1, <1>2, <1>3, <1>4, <1>5 DEF Next

(* A restore takes back what it was asked for and what was archived under  *)
(* its marker, and never a service that another operation had archived     *)
(* before: every operation writes one number of its own, no older one is   *)
(* overwritten but by a second archive of that service alone, and nothing  *)
(* else carries that one.  For every group whose primary service is a      *)
(* Compose stack.  (The row of a primary service without children is the   *)
(* group's: such a second archive changes the group's marker, and the      *)
(* service comes back with the others that carry it.)                      *)
THEOREM RestoresTakeTheirOwn ==
  ASSUME ~Overlap, ChildrenOf(Primary) # {}
  PROVE  Spec => OnlyItsOwnArchive
<1>1. Init => IInv /\ JInv
  BY ArchiveAssumption, InitIInv, InitOwners
<1>2. IInv /\ JInv /\ [Next]_vars => (IInv /\ JInv)'
  BY ArchiveAssumption, NextKeeps, NextKeepsOwners
<1>3. IInv /\ JInv /\ [Next]_vars =>
        [\A x \in Services : mark[x] # 0 /\ mark'[x] = 0 =>
           \E c \in Clients : /\ op[c].kind \in Restores /\ Cur(c) = x
                              /\ \/ op[c].kind = "unarchive" /\ op[c].target = x
                                 \/ why[x] = op[c].marker]_vars
  <2> SUFFICES ASSUME IInv, JInv, [Next]_vars, NEW x \in Services,
                      mark[x] # 0, mark'[x] = 0
               PROVE  \E c \in Clients :
                        /\ op[c].kind \in Restores /\ Cur(c) = x
                        /\ \/ op[c].kind = "unarchive" /\ op[c].target = x
                           \/ why[x] = op[c].marker
    OBVIOUS
  <2>1. PICK c \in Clients : op[c].pc \in TakesBack /\ Cur(c) = x
    BY ArchiveAssumption, WhoMakesActive
  <2>2. Restoring(c)
    BY <2>1, KindAt DEF IInv, Client
  <2>3. Ours(c, x) \/ Asked(c, x)
    BY <2>1, <2>2 DEF JInv, Restorer
  <2> QED  BY <2>1, <2>2, <2>3 DEF Ours, Asked, Restoring
<1> QED  BY <1>1, <1>2, <1>3, PTL DEF Spec, OnlyItsOwnArchive

-----------------------------------------------------------------------------
(* What an archive has archived, and the restore that follows it restores. *)

(* Since the services of "was" were active, exactly those that are not any *)
(* more carry the number i.                                                *)
Tagged(i, was) ==
  /\ i # 0 /\ Active \subseteq was
  /\ \A x \in Services : (mark[x] = i) <=> (x \in was \ Active)
  /\ \A x \in Services : mark[x] = i => row[x] \in {0, i}
  /\ \A k \in Kids : row[k] = i => k \in was \ Active

(* They are what a restore of that target takes back.                      *)
Covers(kind, t, i, was) ==
  /\ \A k \in Kids \cap (was \ Active) : row[k] = i
  /\ kind \in {"archive", "unarchive"} =>
       t \in was \ Active /\ was \ Active \subseteq {t} \cup ChildrenOf(t)
  /\ kind \in {"archiveGroup", "unarchiveGroup"} =>
       /\ row[Primary] = i
       /\ \A k \in Kids \cap (was \ Active) :
            \E d \in Deployables \cap (was \ Active) : k \in ChildrenOf(d)

(* No number is ahead of the number of operations.                         *)
Fresh ==
  /\ \A x \in Services : row[x] <= ops /\ mark[x] <= ops
  /\ \A c \in Clients : op[c].id <= ops

(* An archive that nobody has overlapped so far, and what it has archived. *)
Solo(c) == Archiving(c) /\ op[c].alone /\ op[c].id = ops
Went(c) == op[c].before \ Active

Handles(c) == op[c].pc \in Writes \cup {"visit"}
Closing(c) ==
  op[c].pc \in {"end", "mark", "return"} \/ (op[c].pc \in {"clear", "unset"} /\ op[c].shared)

(* It comes to every service while that is active.                         *)
Way(c) ==
  /\ op[c].pc \in {"lock", "list"} =>
       /\ Active = op[c].before
       /\ op[c].todo = {} /\ op[c].kids = {} /\ op[c].root = None
  /\ op[c].pc \in Writes \/ (At(c, "visit") /\ ~op[c].shared) => Cur(c) \in Active
  /\ op[c].root # None => op[c].root \in Active
  /\ op[c].root # None /\ Handles(c) => Cur(c) \in Kids
  /\ Closing(c) => op[c].root = None

(* An archive of one service has to come to that service,                  *)
OfService(c) ==
  /\ op[c].target \in op[c].before
  /\ op[c].pc \in {"lock", "list"} \/ op[c].shared \/ ChildrenOf(op[c].target) = {}
  /\ Went(c) \subseteq {op[c].target} \cup ChildrenOf(op[c].target)
  /\ op[c].todo = {} /\ op[c].kids \subseteq ChildrenOf(op[c].target)
  /\ op[c].root \in {None, op[c].target}
  /\ Handles(c) => Cur(c) \in {op[c].target} \cup ChildrenOf(op[c].target)
  /\ op[c].target \in Active =>
       \/ op[c].pc \in {"lock", "list"} \/ op[c].root = op[c].target
       \/ Handles(c) /\ Cur(c) = op[c].target

(* and one of the group takes a child only with its stack.                 *)
Brings(c, d) == d \in Went(c) \/ d = op[c].root \/ (At(c, "row") /\ d = Cur(c))

OfGroup(c) ==
  /\ op[c].pc \in {"lock", "list", "return"} \/ op[c].shared
  /\ op[c].pc \notin {"clear", "unset"}
  /\ op[c].kids \subseteq ChildrenOf(op[c].root)
  /\ Handles(c) /\ Cur(c) \in Kids => Cur(c) \in ChildrenOf(op[c].root)
  /\ \A k \in Kids \cap Went(c) : \E d \in Deployables : k \in ChildrenOf(d) /\ Brings(c, d)
  /\ At(c, "return") => Went(c) = {} \/ row[Primary] = op[c].id

SoFar(c) ==
  /\ Tagged(op[c].id, op[c].before)
  /\ \A k \in Kids \cap Went(c) : row[k] = op[c].id
  /\ Way(c)
  /\ op[c].kind = "archive" => OfService(c)
  /\ op[c].kind = "archiveGroup" => OfGroup(c)

Undisturbed(c) ==
  Solo(c) => SoFar(c) /\ \A d \in Clients \ {c} : op[d].kind = "none"

(* What a restore has still to take back, and where it is on its lists.    *)
Owes(c) == op[c].owed \ Active
Lot(c) == op[c].id - 1
InHand(c) == op[c].pc \in TakesBack \cup {"visit"}
Taking(c) == op[c].pc \in Resumes \cup {"visit", "clearRow", "clearMark"}

Lists(c) ==
  /\ op[c].todo \subseteq Owes(c) /\ op[c].kids \subseteq Owes(c)
  /\ op[c].root # None => op[c].root \in Owes(c) /\ op[c].root \notin op[c].todo
  /\ InHand(c) => Cur(c) \notin op[c].todo \cup op[c].kids \cup {op[c].root}
  /\ Taking(c) => Cur(c) \in Owes(c)
  /\ At(c, "record") => Cur(c) \in Active
  /\ At(c, "visit") /\ Cur(c) \in Deployables => op[c].kids = {} /\ op[c].root = None
  /\ op[c].pc \in {"list", "end", "unmark", "return"} =>
       op[c].todo = {} /\ op[c].kids = {} /\ op[c].root = None

Listed(c) ==
  /\ \A d \in Deployables \cap Owes(c) :
       d \in op[c].todo \/ d = op[c].root \/ (InHand(c) /\ d = Cur(c))
  /\ \A k \in Kids \cap Owes(c) :
       \/ k \in op[c].kids \/ (InHand(c) /\ k = Cur(c))
       \/ \E d \in op[c].todo : k \in ChildrenOf(d)
       \/ At(c, "visit") /\ k \in ChildrenOf(Cur(c))

ToCome(c) ==
  /\ Tagged(Lot(c), op[c].owed)
  /\ \A k \in Kids \cap Owes(c) :
       row[k] = Lot(c) \/ (k = Cur(c) /\ op[c].pc \in TakesBack)
  /\ Lists(c)
  /\ IF At(c, "list") THEN Covers(op[c].kind, op[c].target, Lot(c), op[c].owed)
     ELSE Listed(c)

Returning(c) == op[c].owed # None => Restoring(c) /\ ToCome(c)

LastArchive ==
  last # None =>
    /\ \A c \in Clients : op[c].kind = "none"
    /\ Tagged(ops, last.before)
    /\ Covers(last.kind, last.target, ops, last.before)

KInv ==
  /\ Fresh /\ LastArchive
  /\ \A c \in Clients : Undisturbed(c) /\ Returning(c)

(* A step of an operation that goes on: what it was called with.           *)
Continues(c) ==
  /\ op'[c].kind = op[c].kind /\ op'[c].target = op[c].target
  /\ op'[c].id = op[c].id /\ op'[c].alone = op[c].alone
  /\ op'[c].before = op[c].before /\ op'[c].owed = op[c].owed

(* One that stays with its service, and leaves its lists alone.            *)
Stays(c) ==
  /\ Continues(c)
  /\ op'[c].shared = op[c].shared /\ op'[c].cur = op[c].cur
  /\ op'[c].todo = op[c].todo /\ op'[c].root = op[c].root /\ op'[c].kids = op[c].kids

LEMMA GotoStays ==
  ASSUME TypeOK, NEW c \in Clients, NEW s,
         Goto(c, s) \/ \E done : GotoDone(c, s, done)
  PROVE  op'[c].pc = s /\ Stays(c)
<1>1. op \in [Clients -> Operations] /\ op[c] \in Operations
  BY DEF TypeOK
<1>2. CASE Goto(c, s)
  <2>1. op'[c] = [op[c] EXCEPT !.pc = s]
    BY <1>1, <1>2 DEF Goto
  <2> QED  BY <1>1, <2>1 DEF Operations, Stays, Continues
<1>3. CASE \E done : GotoDone(c, s, done)
  <2>1. PICK done : GotoDone(c, s, done)
    BY <1>3
  <2>2. op'[c] = [op[c] EXCEPT !.pc = s, !.done = done]
    BY <1>1, <2>1 DEF GotoDone
  <2> QED  BY <1>1, <2>2 DEF Operations, Stays, Continues
<1> QED  BY <1>2, <1>3

(* Nobody disturbs a step of one client but with a request.                *)
LEMMA ActingKeeps ==
  ASSUME ArchiveAssumption, IInv, KInv, NEW c \in Clients, Frame(c),
         op[c].kind # "none", UNCHANGED <<ops, last>>,
         \A x \in Services : row'[x] <= ops /\ mark'[x] <= ops,
         op'[c].id <= ops,
         Solo(c)' => Solo(c) /\ (SoFar(c) => SoFar(c)'),
         Returning(c)'
  PROVE  KInv'
<1>1. \A d \in Clients \ {c} : op'[d] = op[d] /\ ~Restoring(d)
  BY DEF IInv, Alone, Frame, Restoring, Restores
<1>2. Fresh'
  BY <1>1 DEF KInv, Fresh
<1>3. LastArchive'
  BY DEF KInv, LastArchive
<1>4. ASSUME NEW d \in Clients \ {c} PROVE Undisturbed(d)' /\ Returning(d)'
  <2>1. op'[d] = op[d]
    BY <1>1
  <2>2. ~Solo(d)
    BY DEF KInv, Undisturbed
  <2>3. ~Solo(d)'
    BY <2>1, <2>2 DEF Solo, Archiving
  <2>4. op[d].owed = None
    BY <1>1 DEF KInv, Returning
  <2> QED  BY <2>1, <2>3, <2>4 DEF Undisturbed, Returning
<1>5. Undisturbed(c)'
  <2> SUFFICES ASSUME Solo(c)' PROVE Undisturbed(c)'
    BY DEF Undisturbed
  <2>1. SoFar(c) /\ \A d \in Clients \ {c} : op[d].kind = "none"
    BY DEF KInv, Undisturbed
  <2> QED  BY <1>1, <2>1 DEF Undisturbed
<1> QED  BY <1>2, <1>3, <1>4, <1>5 DEF KInv

(* Neither archive nor restore: an operation that ends.                    *)
LEMMA QuitKeepsTrips ==
  ASSUME ArchiveAssumption, IInv, KInv, NEW c \in Clients, Frame(c), Leave(c),
         op[c].kind # "none", UNCHANGED <<row, mark, ops, last>>
  PROVE  KInv'
<1>1. op'[c] = Idle
  BY LeaveIs DEF IInv
<1>2. op'[c].kind = "none" /\ op'[c].id = 0 /\ op'[c].owed = None
  BY <1>1 DEF Idle
<1>3. ~Solo(c)' /\ Returning(c)'
  BY <1>2 DEF Solo, Archiving, Archives, Returning
<1>4. ops \in Nat
  BY DEF IInv, TypeOK, Times, ArchiveAssumption
<1>5. \A x \in Services : row'[x] <= ops /\ mark'[x] <= ops
  BY DEF KInv, Fresh
<1> QED  BY <1>2, <1>3, <1>4, <1>5, ActingKeeps

LEMMA ThrowKeepsTrips ==
  ASSUME ArchiveAssumption, IInv, KInv, NEW c \in Clients, Frame(c), Throw(c),
         op[c].kind # "none"
  PROVE  KInv'
BY QuitKeepsTrips DEF Throw, rows, history

(* A step of an archive, and one of a restore.                             *)
LEMMA ArchiveKeepsTrips ==
  ASSUME ArchiveAssumption, IInv, KInv, NEW c \in Clients, Frame(c),
         Archiving(c), Continues(c), UNCHANGED <<ops, last>>,
         \A x \in Services : row'[x] \in {0, row[x], op[c].id}
                             /\ mark'[x] \in {0, mark[x], op[c].id},
         SoFar(c) => SoFar(c)'
  PROVE  KInv'
<1>1. op[c].kind # "none" /\ ~Restoring(c)
  BY DEF Archiving, Restoring, Archives, Restores
<1>2. op[c].id <= ops /\ op[c].owed = None
  BY <1>1 DEF KInv, Fresh, Returning
<1>3. ops \in Nat
  BY DEF IInv, TypeOK, Times, ArchiveAssumption
<1>4. \A x \in Services : row'[x] <= ops /\ mark'[x] <= ops
  BY <1>2, <1>3 DEF KInv, Fresh
<1>5. Solo(c)' => Solo(c)
  BY DEF Solo, Archiving, Continues
<1>6. op'[c].id <= ops /\ Returning(c)'
  BY <1>2 DEF Continues, Returning
<1> QED  BY <1>1, <1>4, <1>5, <1>6, ActingKeeps

LEMMA RestoreKeepsTrips ==
  ASSUME ArchiveAssumption, IInv, KInv, NEW c \in Clients, Frame(c),
         Restoring(c), Continues(c), UNCHANGED <<ops, last>>,
         \A x \in Services : row'[x] \in {0, row[x]} /\ mark'[x] \in {0, mark[x]},
         op[c].owed # None /\ ToCome(c) => ToCome(c)'
  PROVE  KInv'
<1>1. op[c].kind # "none" /\ ~Archiving(c)
  BY DEF Archiving, Restoring, Archives, Restores
<1>2. op[c].id <= ops /\ Returning(c)
  BY DEF KInv, Fresh
<1>3. ops \in Nat
  BY DEF IInv, TypeOK, Times, ArchiveAssumption
<1>4. \A x \in Services : row'[x] <= ops /\ mark'[x] <= ops
  BY <1>3 DEF KInv, Fresh
<1>5. ~Solo(c)'
  BY <1>1 DEF Solo, Archiving, Continues
<1>6. op'[c].id <= ops /\ Returning(c)'
  BY <1>2 DEF Continues, Returning, Restoring
<1> QED  BY <1>1, <1>4, <1>5, <1>6, ActingKeeps

(* The steps that change nothing but where the operation is, and at most   *)
(* clear rows.                                                             *)
LEMMA PassingSoFar ==
  ASSUME ArchiveAssumption, IInv, NEW c \in Clients, SoFar(c), Stays(c),
         UNCHANGED mark, \A x \in Services : row'[x] \in {0, row[x]},
         \A k \in Kids : row'[k] = row[k],
         op[c].pc \notin {"lock", "list", "row", "return"},
         op'[c].pc \notin {"lock", "list", "visit"},
         Handles(c)' => Handles(c),
         Handles(c) => Handles(c)' \/ Cur(c) \notin Active,
         op[c].kind = "archiveGroup" => op'[c].pc \notin {"return", "clear", "unset"},
         op'[c].pc \in Writes => Cur(c) \in Active,
         Closing(c)' => op[c].root = None
  PROVE  SoFar(c)'
<1>1. /\ op'[c].kind = op[c].kind /\ op'[c].target = op[c].target
      /\ op'[c].id = op[c].id /\ op'[c].alone = op[c].alone
      /\ op'[c].before = op[c].before /\ op'[c].shared = op[c].shared
      /\ op'[c].cur = op[c].cur
      /\ op'[c].todo = op[c].todo /\ op'[c].root = op[c].root /\ op'[c].kids = op[c].kids
  BY DEF Stays, Continues
<1>2. Active' = Active /\ Cur(c)' = Cur(c) /\ Went(c)' = Went(c)
  BY <1>1 DEF Active, Cur, Went
<1>3. Tagged(op[c].id, op[c].before)'
  <2>1. Tagged(op[c].id, op[c].before)
    BY DEF SoFar
  <2> QED  BY <1>1, <1>2, <2>1 DEF Tagged
<1>4. (\A k \in Kids \cap Went(c) : row[k] = op[c].id)'
  BY <1>1, <1>2 DEF SoFar
<1>5. Way(c)'
  BY <1>1, <1>2 DEF SoFar, Way, At
<1>6. op[c].kind = "archive" => OfService(c)'
  <2> SUFFICES ASSUME op[c].kind = "archive" PROVE OfService(c)'
    OBVIOUS
  <2>1. OfService(c)
    BY DEF SoFar
  <2>2. (op[c].target \in Active =>
           \/ op[c].pc \in {"lock", "list"} \/ op[c].root = op[c].target
           \/ Handles(c) /\ Cur(c) = op[c].target)'
    BY <1>1, <1>2, <2>1 DEF OfService
  <2> QED  BY <1>1, <1>2, <2>1, <2>2 DEF OfService
<1>7. op[c].kind = "archiveGroup" => OfGroup(c)'
  <2> SUFFICES ASSUME op[c].kind = "archiveGroup" PROVE OfGroup(c)'
    OBVIOUS
  <2>1. OfGroup(c)
    BY DEF SoFar
  <2>2. \A d : Brings(c, d) => Brings(c, d)'
    BY <1>1, <1>2 DEF Brings, At
  <2> QED  BY <1>1, <1>2, <2>1, <2>2 DEF OfGroup, At
<1> QED  BY <1>1, <1>3, <1>4, <1>5, <1>6, <1>7 DEF SoFar

LEMMA PassingToCome ==
  ASSUME ArchiveAssumption, IInv, NEW c \in Clients, ToCome(c), Stays(c),
         UNCHANGED mark, \A x \in Services : row'[x] \in {0, row[x]},
         \A k \in Kids : row'[k] = row[k] \/ (k = Cur(c) /\ op'[c].pc \in TakesBack),
         op[c].pc # "list", op'[c].pc \notin {"list", "visit"},
         InHand(c)' => InHand(c),
         InHand(c) => InHand(c)' \/ Cur(c) \in Active,
         op[c].pc \in TakesBack => op'[c].pc \in TakesBack \/ Cur(c) \in Active,
         At(c, "visit") => ChildrenOf(Cur(c)) \cap Owes(c) = {},
         Taking(c)' => Taking(c),
         op'[c].pc = "record" => Cur(c) \in Active,
         op'[c].pc \in {"end", "unmark", "return"} =>
           op[c].todo = {} /\ op[c].kids = {} /\ op[c].root = None
  PROVE  ToCome(c)'
<1>1. /\ op'[c].id = op[c].id /\ op'[c].owed = op[c].owed /\ op'[c].cur = op[c].cur
      /\ op'[c].todo = op[c].todo /\ op'[c].root = op[c].root /\ op'[c].kids = op[c].kids
  BY DEF Stays, Continues
<1>2. Active' = Active /\ Cur(c)' = Cur(c) /\ Owes(c)' = Owes(c) /\ Lot(c)' = Lot(c)
  BY <1>1 DEF Active, Cur, Owes, Lot
<1>3. Tagged(Lot(c), op[c].owed)'
  <2>1. Tagged(Lot(c), op[c].owed)
    BY DEF ToCome
  <2> QED  BY <1>1, <1>2, <2>1, Names DEF Tagged
<1>4. (\A k \in Kids \cap Owes(c) :
         row[k] = Lot(c) \/ (k = Cur(c) /\ op[c].pc \in TakesBack))'
  BY <1>1, <1>2 DEF ToCome, Owes
<1>5. Lists(c)'
  BY <1>1, <1>2 DEF ToCome, Lists, At
<1>6. Listed(c)'
  <2>1. Listed(c)
    BY DEF ToCome, At
  <2>2. \A d \in Deployables \cap Owes(c) :
          d \in op[c].todo \/ d = op[c].root \/ (InHand(c)' /\ d = Cur(c))
    BY <2>1 DEF Listed, Owes
  <2>3. \A k \in Kids \cap Owes(c) :
          \/ k \in op[c].kids \/ (InHand(c)' /\ k = Cur(c))
          \/ \E d \in op[c].todo : k \in ChildrenOf(d)
    BY <2>1 DEF Listed, Owes
  <2> QED  BY <1>1, <1>2, <2>2, <2>3 DEF Listed
<1> QED  BY <1>3, <1>4, <1>5, <1>6 DEF ToCome, At

(* In a call of an archive or of a restore.                                *)
LEMMA CaughtKeepsTrips ==
  ASSUME ArchiveAssumption, IInv, KInv, NEW c \in Clients, Frame(c),
         NEW s \in {"undo", "release"}, Caught(c, s),
         s = "undo" => op[c].pc \in PutsAside,
         s = "release" => op[c].pc \in TakesBack
  PROVE  KInv'
<1>1. TypeOK /\ Client(c) /\ Goto(c, s) /\ UNCHANGED <<row, mark, ops, last>>
  BY DEF IInv, Caught, rows, history
<1>2. op'[c].pc = s /\ Stays(c) /\ Continues(c)
  BY <1>1, GotoStays DEF Stays
<1>3. CASE s = "undo"
  <2>1. Archiving(c) /\ op[c].pc \in PutsAside
    BY <1>1, <1>3, KindAt DEF Client
  <2>2. ASSUME SoFar(c) PROVE SoFar(c)'
    <3>1. Cur(c) \in Active
      BY <2>1, <2>2 DEF SoFar, Way, Writes
    <3> QED  BY <1>1, <1>2, <1>3, <2>1, <2>2, <3>1, PassingSoFar
             DEF Handles, Closing, Writes, PutsAside
  <2> QED  BY <1>1, <1>2, <2>1, <2>2, ArchiveKeepsTrips
<1>4. CASE s = "release"
  <2>1. Restoring(c) /\ op[c].pc \in TakesBack
    BY <1>1, <1>4, KindAt DEF Client
  <2>2. ASSUME ToCome(c) PROVE ToCome(c)'
    BY <1>1, <1>2, <1>4, <2>1, <2>2, PassingToCome DEF InHand, Taking, At, TakesBack, Resumes
  <2> QED  BY <1>1, <1>2, <2>1, <2>2, RestoreKeepsTrips
<1> QED  BY <1>3, <1>4

LEMMA RuntimeKeepsTrips ==
  ASSUME ArchiveAssumption, IInv, KInv, NEW c \in Clients, Frame(c),
         NEW container, Runtime(c, container), NEW done, NEW s, GotoDone(c, s, done),
         \/ s \in PutsAside /\ op[c].pc \in PutsAside
         \/ s = "release" /\ op[c].pc = "release"
         \/ s \in Resumes \cup {"clearRow"} /\ op[c].pc \in Resumes
  PROVE  KInv'
<1>1. TypeOK /\ Client(c) /\ UNCHANGED <<row, mark, ops, last>>
  BY DEF IInv, Runtime, rows, bounds, history
<1>2. op'[c].pc = s /\ Stays(c) /\ Continues(c)
  BY <1>1, GotoStays DEF Stays
<1>3. CASE s \in PutsAside /\ op[c].pc \in PutsAside
  <2>1. Archiving(c)
    BY <1>1, <1>3, KindAt DEF Client
  <2>2. ASSUME SoFar(c) PROVE SoFar(c)'
    <3>1. Cur(c) \in Active
      BY <1>3, <2>2 DEF SoFar, Way, Writes
    <3> QED  BY <1>1, <1>2, <1>3, <2>2, <3>1, PassingSoFar
             DEF Handles, Closing, Writes, PutsAside
  <2> QED  BY <1>1, <1>2, <2>1, <2>2, ArchiveKeepsTrips
<1>4. CASE \/ s = "release" /\ op[c].pc = "release"
           \/ s \in Resumes \cup {"clearRow"} /\ op[c].pc \in Resumes
  <2>1. Restoring(c)
    BY <1>1, <1>4, KindAt DEF Client, TakesBack
  <2>2. ASSUME ToCome(c) PROVE ToCome(c)'
    BY <1>1, <1>2, <1>4, <2>2, PassingToCome DEF InHand, Taking, At, TakesBack, Resumes
  <2> QED  BY <1>1, <1>2, <2>1, <2>2, RestoreKeepsTrips
<1> QED  BY <1>3, <1>4

LEMMA PutAsideKeepsTrips ==
  ASSUME ArchiveAssumption, IInv, KInv, NEW c \in Clients, Frame(c),
         StopResource(c) \/ DisconnectResource(c) \/ RenameResource(c) \/ UndoArchive(c)
  PROVE  KInv'
<1>1. op[c].pc \in PutsAside
  BY DEF StopResource, DisconnectResource, RenameResource, UndoArchive, Try, At, PutsAside
<1>2. op[c].kind # "none"
  BY <1>1, KindAt DEF IInv, Client, Archiving, Archives
<1>3. CASE Caught(c, "undo")
  BY <1>1, <1>3, CaughtKeepsTrips
<1>4. CASE Throw(c)
  BY <1>2, <1>4, ThrowKeepsTrips
<1>5. CASE Leave(c) /\ UNCHANGED <<rows, ctr, bounds, history>>
  BY <1>2, <1>5, QuitKeepsTrips DEF rows, bounds, history
<1>6. ASSUME NEW s \in PutsAside, NEW container, NEW done,
             Runtime(c, container), GotoDone(c, s, done)
      PROVE  KInv'
  BY <1>1, <1>6, RuntimeKeepsTrips
<1>7. "disconnect" \in PutsAside /\ "save" \in PutsAside /\ "rename" \in PutsAside
      /\ "undo" \in PutsAside
  BY DEF PutsAside
<1>8. CASE StopResource(c)
  BY <1>3, <1>6, <1>7, <1>8 DEF StopResource, Try
<1>9. CASE DisconnectResource(c)
  <2> DEFINE s == IF rec[Cur(c)].name = "preserved" THEN "save" ELSE "rename"
             done == op[c].done \cup {"disconnected"}
  <2>1. s \in PutsAside
    BY <1>7
  <2>2. Caught(c, "undo") \/ (Runtime(c, Connected(c, FALSE)) /\ GotoDone(c, s, done))
    BY <1>9 DEF DisconnectResource, Try
  <2> HIDE DEF s, done
  <2> QED  BY <1>3, <1>6, <2>1, <2>2
<1>10. CASE RenameResource(c)
  BY <1>3, <1>6, <1>7, <1>10 DEF RenameResource, Try
<1>11. CASE UndoArchive(c)
  <2>1. UndoStep(c) => KInv'
    BY <1>6, <1>7 DEF UndoStep
  <2> QED  BY <1>4, <1>5, <1>11, <2>1 DEF UndoArchive
<1> QED  BY <1>8, <1>9, <1>10, <1>11

LEMMA TakeBackKeepsTrips ==
  ASSUME ArchiveAssumption, IInv, KInv, NEW c \in Clients, Frame(c),
         ResumeName(c) \/ ResumeNetwork(c) \/ ResumeStart(c) \/ ReleaseResource(c)
  PROVE  KInv'
<1>1. op[c].pc \in Resumes \cup {"release"} /\ op[c].pc \in TakesBack
  BY DEF ResumeName, ResumeNetwork, ResumeStart, ReleaseResource, Try, At, TakesBack, Resumes
<1>2. op[c].kind # "none"
  BY <1>1, KindAt DEF IInv, Client, Restoring, Restores
<1>3. CASE Caught(c, "release")
  BY <1>1, <1>3, CaughtKeepsTrips
<1>4. CASE Throw(c)
  BY <1>2, <1>4, ThrowKeepsTrips
<1>5. CASE Leave(c) /\ UNCHANGED <<rows, ctr, bounds, history>>
  BY <1>2, <1>5, QuitKeepsTrips DEF rows, bounds, history
<1>6. ASSUME op[c].pc \in Resumes, NEW s \in Resumes \cup {"clearRow"}, NEW container,
             NEW done, Runtime(c, container), GotoDone(c, s, done)
      PROVE  KInv'
  BY <1>6, RuntimeKeepsTrips
<1>7. "connect" \in Resumes /\ "start" \in Resumes
  BY DEF Resumes
<1>8. CASE ResumeName(c)
  <2> DEFINE done == op[c].done \cup (IF rec[Cur(c)].name = "canonical" THEN {} ELSE {"renamed"})
  <2>1. op[c].pc \in Resumes
    BY <1>8 DEF ResumeName, Try, At, Resumes
  <2>2. Caught(c, "release")
        \/ (Runtime(c, Named(c, "canonical")) /\ GotoDone(c, "connect", done))
    BY <1>8 DEF ResumeName, Try
  <2> HIDE DEF done
  <2> QED  BY <1>3, <1>6, <1>7, <2>1, <2>2
<1>9. CASE ResumeNetwork(c)
  <2>1. op[c].pc \in Resumes
    BY <1>9 DEF ResumeNetwork, Try, At, Resumes
  <2> QED  BY <1>3, <1>6, <1>7, <1>9, <2>1 DEF ResumeNetwork, Try
<1>10. CASE ResumeStart(c)
  <2>1. op[c].pc \in Resumes
    BY <1>10 DEF ResumeStart, Try, At, Resumes
  <2> QED  BY <1>3, <1>6, <1>10, <2>1 DEF ResumeStart, Try
<1>11. CASE ReleaseResource(c)
  <2>1. op[c].pc = "release"
    BY <1>11 DEF ReleaseResource, At
  <2>2. ASSUME NEW container, NEW done, Runtime(c, container), GotoDone(c, "release", done)
        PROVE  KInv'
    BY <2>1, <2>2, RuntimeKeepsTrips
  <2>3. ReleaseStep(c) => KInv'
    BY <2>2 DEF ReleaseStep
  <2> QED  BY <1>4, <1>5, <1>11, <2>3 DEF ReleaseResource
<1> QED  BY <1>8, <1>9, <1>10, <1>11

-----------------------------------------------------------------------------
(* The other steps of an archive.                                          *)
LEMMA RemoveContainerKeepsTrips ==
  ASSUME ArchiveAssumption, IInv, KInv, NEW c \in Clients, Frame(c), RemoveContainer(c)
  PROVE  KInv'
<1>1. TypeOK /\ Client(c) /\ op[c].pc = "remove" /\ Goto(c, "next")
      /\ UNCHANGED <<row, mark, ops, last>>
  BY DEF IInv, RemoveContainer, At, rows, history
<1>2. op'[c].pc = "next" /\ Stays(c) /\ Continues(c)
  BY <1>1, GotoStays DEF Stays
<1>3. Archiving(c)
  BY <1>1, KindAt DEF Client
<1>4. SoFar(c) => SoFar(c)'
  BY <1>1, <1>2, PassingSoFar DEF Handles, Closing, Writes, PutsAside
<1> QED  BY <1>1, <1>2, <1>3, <1>4, ArchiveKeepsTrips

LEMMA ReadSiblingsKeepsTrips ==
  ASSUME ArchiveAssumption, IInv, KInv, NEW c \in Clients, Frame(c), ReadSiblings(c)
  PROVE  KInv'
<1>1. TypeOK /\ Client(c) /\ op[c].pc = "clear" /\ UNCHANGED <<row, mark, ops, last>>
  BY DEF IInv, ReadSiblings, At, Still, rows, bounds, history
<1>2. PICK s \in {"unset", "return", "remove"} :
        Goto(c, s) /\ (s = "return" => op[c].shared)
  BY DEF ReadSiblings, AfterClear
<1>3. op'[c].pc = s /\ Stays(c) /\ Continues(c)
  BY <1>1, <1>2, GotoStays DEF Stays
<1>4. Archiving(c)
  BY <1>1, KindAt DEF Client
<1>5. ASSUME SoFar(c) PROVE SoFar(c)'
  <2>1. op[c].kind # "archiveGroup"
    BY <1>1, <1>5 DEF SoFar, OfGroup
  <2>2. op[c].shared => op[c].root = None
    BY <1>1, <1>5 DEF SoFar, Way, Closing
  <2>3. Closing(c)' => op[c].shared
    BY <1>2, <1>3 DEF Closing, Stays
  <2> QED  BY <1>1, <1>3, <1>5, <2>1, <2>2, <2>3, PassingSoFar DEF Handles, Writes, PutsAside
<1> QED  BY <1>1, <1>3, <1>4, <1>5, ArchiveKeepsTrips

LEMMA EndKeepsTrips ==
  ASSUME ArchiveAssumption, IInv, KInv, NEW c \in Clients, Frame(c), End(c)
  PROVE  KInv'
<1>1. TypeOK /\ Client(c) /\ op[c].pc = "end" /\ UNCHANGED <<row, mark, ops, last>>
  BY DEF IInv, End, At, Still, rows, bounds, history
<1>2. PICK s \in {"mark", "unmark", "clear", "return"} :
        /\ Goto(c, s) /\ (op[c].kind = "archiveGroup" => s = "mark")
        /\ Archiving(c) => s # "unmark"
  BY DEF End, Archiving, Archives
<1>3. op'[c].pc = s /\ Stays(c) /\ Continues(c)
  BY <1>1, <1>2, GotoStays DEF Stays
<1>4. CASE Archiving(c)
  <2>1. ASSUME SoFar(c) PROVE SoFar(c)'
    <3>1. op[c].root = None
      BY <1>1, <2>1 DEF SoFar, Way, Closing
    <3> QED  BY <1>1, <1>2, <1>3, <1>4, <2>1, <3>1, PassingSoFar
             DEF Handles, Closing, Writes, PutsAside
  <2> QED  BY <1>1, <1>3, <1>4, <2>1, ArchiveKeepsTrips
<1>5. CASE Restoring(c)
  <2>1. ASSUME ToCome(c) PROVE ToCome(c)'
    <3>1. op[c].todo = {} /\ op[c].kids = {} /\ op[c].root = None
      BY <1>1, <2>1 DEF ToCome, Lists
    <3> QED  BY <1>1, <1>2, <1>3, <2>1, <3>1, PassingToCome
             DEF InHand, Taking, At, TakesBack, Resumes
  <2> QED  BY <1>1, <1>3, <1>5, <2>1, RestoreKeepsTrips
<1> QED  BY <1>1, <1>4, <1>5, KindAt DEF Client, Common

LEMMA UnsetGroupKeepsTrips ==
  ASSUME ArchiveAssumption, IInv, KInv, NEW c \in Clients, Frame(c), UnsetGroup(c)
  PROVE  KInv'
<1>1. TypeOK /\ Client(c) /\ op[c].pc = "unset"
  BY DEF IInv, UnsetGroup, At
<1>2. Archiving(c) /\ op[c].kind # "none"
  BY <1>1, KindAt DEF Client, Archiving, Archives
<1>3. CASE Throw(c)
  BY <1>2, <1>3, ThrowKeepsTrips
<1>4. CASE /\ row' = [row EXCEPT ![Primary] = 0] /\ Goto(c, AfterClear(c))
           /\ UNCHANGED <<mark, rec, ctr, locks, bounds, history>>
  <2>1. /\ UNCHANGED <<mark, ops, last>> /\ \A x \in Services : row'[x] \in {0, row[x]}
        /\ \A k \in Kids : row'[k] = row[k]
    BY <1>1, <1>4, Names DEF bounds, history, TypeOK
  <2>2. PICK s \in {"return", "remove"} : Goto(c, s) /\ (s = "return" => op[c].shared)
    BY <1>4 DEF AfterClear
  <2>3. op'[c].pc = s /\ Stays(c) /\ Continues(c)
    BY <1>1, <2>2, GotoStays DEF Stays
  <2>4. ASSUME SoFar(c) PROVE SoFar(c)'
    <3>1. op[c].kind # "archiveGroup"
      BY <1>1, <2>4 DEF SoFar, OfGroup
    <3>2. op[c].shared => op[c].root = None
      BY <1>1, <2>4 DEF SoFar, Way, Closing
    <3> QED  BY <1>1, <2>1, <2>2, <2>3, <2>4, <3>1, <3>2, PassingSoFar
             DEF Handles, Closing, Writes, PutsAside
  <2> QED  BY <1>1, <1>2, <2>1, <2>3, <2>4, ArchiveKeepsTrips
<1> QED  BY <1>3, <1>4 DEF UnsetGroup

LEMMA AllocatePortKeepsTrips ==
  ASSUME ArchiveAssumption, IInv, KInv, NEW c \in Clients, Frame(c), AllocatePort(c)
  PROVE  KInv'
<1>1. TypeOK /\ Client(c) /\ op[c].pc = "port"
  BY DEF IInv, AllocatePort, At
<1>2. Restoring(c) /\ op[c].kind # "none"
  BY <1>1, KindAt DEF Client, Restoring, Restores
<1>3. CASE Throw(c)
  BY <1>2, <1>3, ThrowKeepsTrips
<1>4. CASE Goto(c, "next") /\ Still
  <2>1. UNCHANGED <<row, mark, ops, last>>
    BY <1>4 DEF Still, rows, bounds, history
  <2>2. op'[c].pc = "next" /\ Stays(c) /\ Continues(c)
    BY <1>1, <1>4, GotoStays DEF Stays
  <2>3. ToCome(c) => ToCome(c)'
    BY <1>1, <2>1, <2>2, PassingToCome DEF InHand, Taking, At, TakesBack, Resumes
  <2> QED  BY <1>2, <2>1, <2>2, <2>3, RestoreKeepsTrips
<1> QED  BY <1>3, <1>4 DEF AllocatePort

LEMMA UnmarkKeepsTrips ==
  ASSUME ArchiveAssumption, IInv, KInv, NEW c \in Clients, Frame(c), WriteGroup(c),
         ~At(c, "mark")
  PROVE  KInv'
<1>1. TypeOK /\ Client(c) /\ op[c].pc = "unmark"
  BY DEF IInv, WriteGroup, At
<1>2. op[c].kind # "none" /\ Restoring(c)
  BY <1>1, KindAt DEF Client, Restoring, Restores
<1>3. CASE Throw(c)
  BY <1>2, <1>3, ThrowKeepsTrips
<1>4. CASE /\ row' = [row EXCEPT ![Primary] = 0] /\ Goto(c, "return")
           /\ UNCHANGED <<mark, rec, ctr, locks, bounds, history>>
  <2>1. /\ UNCHANGED <<mark, ops, last>> /\ \A x \in Services : row'[x] \in {0, row[x]}
        /\ \A k \in Kids : row'[k] = row[k]
    BY <1>1, <1>4, Names DEF bounds, history, TypeOK
  <2>2. op'[c].pc = "return" /\ Stays(c) /\ Continues(c)
    BY <1>1, <1>4, GotoStays DEF Stays
  <2>3. ASSUME ToCome(c) PROVE ToCome(c)'
    <3>1. op[c].todo = {} /\ op[c].kids = {} /\ op[c].root = None
      BY <1>1, <2>3 DEF ToCome, Lists
    <3> QED  BY <1>1, <2>1, <2>2, <2>3, <3>1, PassingToCome
             DEF InHand, Taking, At, TakesBack, Resumes
  <2> QED  BY <1>2, <2>1, <2>2, <2>3, RestoreKeepsTrips
<1> QED  BY <1>3, <1>4 DEF WriteGroup

LEMMA WriteFailsKeepsTrips ==
  ASSUME ArchiveAssumption, IInv, KInv, NEW c \in Clients, Frame(c),
         op[c].pc \in {"clearRow", "clearMark"}, WriteFails(c)
  PROVE  KInv'
<1>1. op[c].pc \in TakesBack /\ op[c].kind # "none"
  BY KindAt DEF IInv, Client, TakesBack, Restoring, Restores
<1> QED  BY <1>1, ThrowKeepsTrips, CaughtKeepsTrips DEF WriteFails

LEMMA ClearRowKeepsTrips ==
  ASSUME ArchiveAssumption, IInv, KInv, NEW c \in Clients, Frame(c), ClearRow(c)
  PROVE  KInv'
<1>1. TypeOK /\ Client(c) /\ op[c].pc = "clearRow" /\ op[c].pc \in TakesBack
  BY DEF IInv, ClearRow, At, TakesBack
<1>2. op[c].kind # "none" /\ Restoring(c)
  BY <1>1, KindAt DEF Client, Restoring, Restores
<1>3. CASE WriteFails(c)
  BY <1>1, <1>3, WriteFailsKeepsTrips
<1>4. CASE /\ row' = [row EXCEPT ![Cur(c)] = 0] /\ Goto(c, "clearMark")
           /\ UNCHANGED <<mark, rec, ctr, locks, bounds, history>>
  <2>1. /\ UNCHANGED <<mark, ops, last>> /\ \A x \in Services : row'[x] \in {0, row[x]}
        /\ \A k \in Kids : row'[k] = row[k] \/ k = Cur(c)
    BY <1>1, <1>4, Names DEF bounds, history, TypeOK
  <2>2. op'[c].pc = "clearMark" /\ Stays(c) /\ Continues(c)
    BY <1>1, <1>4, GotoStays DEF Stays
  <2>3. ToCome(c) => ToCome(c)'
    BY <1>1, <2>1, <2>2, PassingToCome DEF InHand, Taking, At, TakesBack, Resumes
  <2> QED  BY <1>2, <2>1, <2>2, <2>3, RestoreKeepsTrips
<1> QED  BY <1>3, <1>4 DEF ClearRow

(* The service at hand becomes active.                                     *)
LEMMA ClearMarkKeepsTrips ==
  ASSUME ArchiveAssumption, IInv, KInv, NEW c \in Clients, Frame(c), ClearMark(c)
  PROVE  KInv'
<1>1. TypeOK /\ Client(c) /\ op[c].pc = "clearMark" /\ op[c].pc \in TakesBack
      /\ row[op[c].cur] = 0
  BY DEF IInv, ClearMark, At, TakesBack, Client, About, Cur
<1>2. op[c].kind # "none" /\ Restoring(c)
  BY <1>1, KindAt DEF Client, Restoring, Restores
<1>3. CASE WriteFails(c)
  BY <1>1, <1>3, WriteFailsKeepsTrips
<1>4. CASE /\ mark' = [mark EXCEPT ![Cur(c)] = 0] /\ why' = [why EXCEPT ![Cur(c)] = 0]
           /\ Goto(c, IF Resuming(c) THEN "record"
                      ELSE IF Cur(c) \in Kids THEN "next" ELSE "port")
           /\ UNCHANGED <<row, rec, ctr, locks, bounds, last, torn>>
  <2>0. PICK x \in Services : op[c].cur = x
    BY <1>1 DEF Client, About, Cur
  <2>1. /\ UNCHANGED <<row, ops, last>> /\ mark'[x] = 0
        /\ \A y \in Services \ {x} : mark'[y] = mark[y]
    BY <1>1, <1>4, <2>0 DEF bounds, TypeOK, Cur
  <2>2. PICK s \in {"record", "next", "port"} : Goto(c, s)
    BY <1>4
  <2>3. op'[c].pc = s /\ Stays(c) /\ Continues(c)
    BY <1>1, <2>2, GotoStays DEF Stays
  <2>4. ASSUME ToCome(c) PROVE ToCome(c)'
    <3>1. /\ op'[c].id = op[c].id /\ op'[c].owed = op[c].owed /\ op'[c].cur = x
          /\ op'[c].todo = op[c].todo /\ op'[c].root = op[c].root /\ op'[c].kids = op[c].kids
      BY <2>0, <2>3 DEF Stays, Continues
    <3>2. Tagged(Lot(c), op[c].owed) /\ Lists(c) /\ Listed(c) /\ x \in Owes(c)
          /\ Lot(c) # 0
      BY <1>1, <2>0, <2>4 DEF ToCome, At, Lists, Taking, Cur, Tagged
    <3>3. Active' = Active \cup {x} /\ Owes(c)' = Owes(c) \ {x} /\ Lot(c)' = Lot(c)
      BY <2>1, <3>1 DEF Active, Owes, Lot
    <3>4. Tagged(Lot(c), op[c].owed)'
      <4>1. /\ Active' \subseteq op'[c].owed
            /\ \A y \in Services : (mark'[y] = Lot(c)) <=> (y \in op'[c].owed \ Active')
            /\ \A y \in Services : mark'[y] = Lot(c) => row'[y] \in {0, Lot(c)}
        BY <2>1, <3>1, <3>2, <3>3 DEF Tagged, Owes
      <4>2. \A k \in Kids : row'[k] = Lot(c) => k \in op'[c].owed \ Active'
        BY <1>1, <2>0, <2>1, <3>1, <3>2, <3>3 DEF Tagged, Owes
      <4> QED  BY <3>2, <3>3, <4>1, <4>2 DEF Tagged
    <3>5. (\A k \in Kids \cap Owes(c) :
             row[k] = Lot(c) \/ (k = Cur(c) /\ op[c].pc \in TakesBack))'
      BY <2>0, <2>1, <2>4, <3>3 DEF ToCome, Cur
    <3>6. x \notin op[c].todo \cup op[c].kids \cup {op[c].root}
      BY <1>1, <2>0, <3>2 DEF Lists, InHand, Cur
    <3>7. Lists(c)'
      BY <1>1, <2>2, <2>3, <3>1, <3>2, <3>3, <3>6
      DEF Lists, At, Cur, InHand, Taking, TakesBack, Resumes
    <3>8. Listed(c)'
      <4>1. \A d \in Deployables \cap Owes(c)' : d \in op[c].todo \/ d = op[c].root
        BY <2>0, <3>2, <3>3 DEF Listed, Cur
      <4>2. \A k \in Kids \cap Owes(c)' :
              k \in op[c].kids \/ \E d \in op[c].todo : k \in ChildrenOf(d)
        BY <1>1, <2>0, <3>2, <3>3 DEF Listed, Cur, At
      <4> QED  BY <3>1, <4>1, <4>2 DEF Listed
    <3> QED  BY <2>3, <3>4, <3>5, <3>7, <3>8 DEF ToCome, At
  <2> QED  BY <1>2, <2>1, <2>3, <2>4, RestoreKeepsTrips
<1> QED  BY <1>3, <1>4 DEF ClearMark

LEMMA RecordResourceKeepsTrips ==
  ASSUME ArchiveAssumption, IInv, KInv, NEW c \in Clients, Frame(c), RecordResource(c)
  PROVE  KInv'
<1>1. TypeOK /\ Client(c) /\ op[c].pc = "record" /\ op[c].pc \in TakesBack
      /\ Cur(c) \in Services
  BY DEF IInv, RecordResource, At, TakesBack, Client, About
<1>2. op[c].kind # "none" /\ Restoring(c)
  BY <1>1, KindAt DEF Client, Restoring, Restores
<1>3. PICK s \in {"next", "release"} : Goto(c, s) \/ \E done : GotoDone(c, s, done)
  BY DEF RecordResource
<1>4. op'[c].pc = s /\ Stays(c) /\ Continues(c)
  BY <1>1, <1>3, GotoStays DEF Stays
<1>5. /\ UNCHANGED <<row, ops, last>>
      /\ mark' = [mark EXCEPT ![Cur(c)] = 0] \/ UNCHANGED mark
  BY DEF RecordResource, bounds, history, rows
<1>6. \A x \in Services : mark'[x] \in {0, mark[x]}
  BY <1>1, <1>5 DEF TypeOK
<1>7. ASSUME ToCome(c) PROVE ToCome(c)'
  <2>1. Cur(c) \in Active
    BY <1>1, <1>7 DEF ToCome, Lists, At
  <2>2. UNCHANGED mark
    BY <1>1, <1>5, <2>1 DEF Active, TypeOK
  <2> QED  BY <1>1, <1>3, <1>4, <1>5, <1>7, <2>1, <2>2, PassingToCome
           DEF InHand, Taking, At, TakesBack, Resumes
<1> QED  BY <1>2, <1>4, <1>5, <1>6, <1>7, RestoreKeepsTrips

(* An archive writes its number on the service at hand.                    *)
LEMMA SetMarksKeepsTrips ==
  ASSUME ArchiveAssumption, IInv, KInv, NEW c \in Clients, Frame(c), SetMarks(c),
         op[c].pc \in {"row", "save"}, NEW s \in {"clear", "remove", "next"}, Goto(c, s),
         s = "clear" => ~op[c].shared, UNCHANGED <<ops, last>>
  PROVE  KInv'
<1>1. TypeOK /\ Client(c) /\ op[c].pc \in Writes
  BY DEF IInv, Writes, PutsAside
<1>2. Archiving(c)
  BY <1>1, KindAt DEF Client, PutsAside
<1>3. PICK x \in Services : op[c].cur = x
  BY <1>1, Names DEF Client, About, Cur, Writes
<1>4. op'[c].pc = s /\ Stays(c) /\ Continues(c)
  BY <1>1, GotoStays DEF Stays
<1>5. op[c].id \in Times
  BY <1>1, FieldsOf
<1>6. /\ row'[x] = op[c].id /\ mark'[x] = op[c].id
      /\ \A y \in Services \ {x} : row'[y] = row[y] /\ mark'[y] = mark[y]
  BY <1>1, <1>3 DEF SetMarks, Cur, TypeOK
<1>7. ASSUME SoFar(c) PROVE SoFar(c)'
  <2>1. /\ op'[c].id = op[c].id /\ op'[c].before = op[c].before
        /\ op'[c].kind = op[c].kind /\ op'[c].target = op[c].target
        /\ op'[c].shared = op[c].shared /\ op'[c].cur = x
        /\ op'[c].todo = op[c].todo /\ op'[c].root = op[c].root /\ op'[c].kids = op[c].kids
    BY <1>3, <1>4 DEF Stays, Continues
  <2>2. Tagged(op[c].id, op[c].before) /\ Way(c) /\ x \in Active /\ op[c].id # 0
    BY <1>1, <1>3, <1>7 DEF SoFar, Tagged, Way, Cur
  <2>3. Active' = Active \ {x} /\ Went(c)' = Went(c) \cup {x}
    BY <1>3, <1>6, <2>1, <2>2 DEF Active, Went, Tagged
  <2>4. Tagged(op[c].id, op[c].before)'
    <3>1. /\ Active' \subseteq op'[c].before
          /\ \A y \in Services : (mark'[y] = op'[c].id) <=> (y \in op'[c].before \ Active')
          /\ \A y \in Services : mark'[y] = op'[c].id => row'[y] \in {0, op'[c].id}
      BY <1>6, <2>1, <2>2, <2>3 DEF Tagged, Went
    <3>2. \A k \in Kids : row'[k] = op'[c].id => k \in op'[c].before \ Active'
      BY <1>6, <2>1, <2>2, <2>3, Names DEF Tagged, Went
    <3> QED  BY <2>1, <2>2, <3>1, <3>2 DEF Tagged
  <2>5. (\A k \in Kids \cap Went(c) : row[k] = op[c].id)'
    BY <1>6, <1>7, <2>1, <2>3, Names DEF SoFar
  <2>6. op[c].root # x
    <3>1. op[c].root # None => x \in Kids
      BY <1>1, <1>3, <2>2 DEF Way, Handles, Cur
    <3> QED  BY <1>1, <1>3, <3>1, FieldsOf, Names
  <2>7. Way(c)'
    BY <1>4, <2>1, <2>2, <2>3, <2>6 DEF Way, Handles, Closing, Writes, PutsAside, At
  <2>8. ASSUME op[c].kind = "archive" PROVE OfService(c)'
    <3>1. OfService(c)
      BY <1>7, <2>8 DEF SoFar
    <3>2. x \in {op[c].target} \cup ChildrenOf(op[c].target)
      BY <1>1, <1>3, <3>1 DEF OfService, Handles, Cur
    <3>3. op[c].target \in Active' => op[c].root = op[c].target
      BY <1>1, <1>3, <2>3, <3>1 DEF OfService, Cur
    <3> QED  BY <1>4, <2>1, <2>3, <3>1, <3>2, <3>3 DEF OfService, Handles, Writes, PutsAside
  <2>9. ASSUME op[c].kind = "archiveGroup" PROVE OfGroup(c)'
    <3>1. OfGroup(c) /\ op[c].shared
      BY <1>1, <1>7, <2>9 DEF SoFar, OfGroup, Writes, PutsAside
    <3>2. \A d : Brings(c, d) => Brings(c, d)'
      BY <1>3, <2>1, <2>3 DEF Brings, Cur
    <3>3. ASSUME x \in Kids PROVE \E d \in Deployables : x \in ChildrenOf(d) /\ Brings(c, d)'
      <4>1. x \in ChildrenOf(op[c].root)
        BY <1>1, <1>3, <3>1, <3>3 DEF OfGroup, Handles, Cur
      <4>2. op[c].root \in Deployables
        BY <4>1 DEF ChildrenOf
      <4> QED  BY <2>1, <4>1, <4>2 DEF Brings
    <3>4. (\A k \in Kids \cap Went(c) :
             \E d \in Deployables : k \in ChildrenOf(d) /\ Brings(c, d))'
      BY <2>3, <3>1, <3>2, <3>3 DEF OfGroup
    <3> QED  BY <1>4, <2>1, <3>1, <3>4 DEF OfGroup, Handles, Writes, PutsAside, At
  <2> QED  BY <2>1, <2>4, <2>5, <2>7, <2>8, <2>9 DEF SoFar
<1>8. \A y \in Services : row'[y] \in {0, row[y], op[c].id} /\ mark'[y] \in {0, mark[y], op[c].id}
  BY <1>6
<1> QED  BY <1>2, <1>4, <1>7, <1>8, ArchiveKeepsTrips

LEMMA ArchiveRowKeepsTrips ==
  ASSUME ArchiveAssumption, IInv, KInv, NEW c \in Clients, Frame(c), ArchiveRow(c)
  PROVE  KInv'
<1>1. op[c].pc = "row" /\ op[c].kind # "none"
  BY KindAt DEF ArchiveRow, At, IInv, Client, Archiving, Archives
<1>2. CASE Throw(c)
  BY <1>1, <1>2, ThrowKeepsTrips
<1>3. CASE /\ SetMarks(c)
           /\ Goto(c, IF ~op[c].shared /\ Cur(c) = Primary THEN "clear" ELSE "remove")
           /\ UNCHANGED <<ctr, locks, bounds, last, torn>>
  <2>1. PICK s \in {"clear", "remove"} : Goto(c, s) /\ (s = "clear" => ~op[c].shared)
    BY <1>3
  <2> QED  BY <1>1, <1>3, <2>1, SetMarksKeepsTrips DEF bounds
<1> QED  BY <1>2, <1>3 DEF ArchiveRow

LEMMA SaveResourceKeepsTrips ==
  ASSUME ArchiveAssumption, IInv, KInv, NEW c \in Clients, Frame(c), SaveResource(c)
  PROVE  KInv'
<1>1. op[c].pc = "save" /\ op[c].pc \in PutsAside
  BY DEF SaveResource, At, PutsAside
<1>2. CASE Caught(c, "undo")
  BY <1>1, <1>2, CaughtKeepsTrips
<1>3. CASE SetMarks(c) /\ Goto(c, "next") /\ UNCHANGED <<ctr, locks, bounds, last, torn>>
  BY <1>1, <1>3, SetMarksKeepsTrips DEF bounds
<1> QED  BY <1>2, <1>3 DEF SaveResource

LEMMA MarkKeepsTrips ==
  ASSUME ArchiveAssumption, IInv, KInv, NEW c \in Clients, Frame(c), WriteGroup(c),
         At(c, "mark")
  PROVE  KInv'
<1>1. TypeOK /\ Client(c) /\ op[c].pc = "mark" /\ Primary \in Services /\ Primary \notin Kids
  BY Names DEF IInv, At
<1>2. Archiving(c) /\ op[c].kind # "none"
  BY <1>1, KindAt DEF Client, Archiving, Archives
<1>3. CASE Throw(c)
  BY <1>2, <1>3, ThrowKeepsTrips
<1>4. CASE /\ row' = [row EXCEPT ![Primary] = op[c].id] /\ Goto(c, "return")
           /\ UNCHANGED <<mark, rec, ctr, locks, bounds, history>>
  <2>1. /\ UNCHANGED <<mark, ops, last>> /\ row'[Primary] = op[c].id
        /\ \A y \in Services \ {Primary} : row'[y] = row[y]
        /\ \A k \in Kids : row'[k] = row[k]
    BY <1>1, <1>4, Names DEF TypeOK, bounds, history
  <2>2. op'[c].pc = "return" /\ Stays(c) /\ Continues(c)
    BY <1>1, <1>4, GotoStays DEF Stays
  <2>3. ASSUME SoFar(c) PROVE SoFar(c)'
    <3>1. /\ op'[c].id = op[c].id /\ op'[c].before = op[c].before
          /\ op'[c].kind = op[c].kind /\ op'[c].target = op[c].target
          /\ op'[c].shared = op[c].shared /\ op'[c].cur = op[c].cur
          /\ op'[c].todo = op[c].todo /\ op'[c].root = op[c].root /\ op'[c].kids = op[c].kids
      BY <2>2 DEF Stays, Continues
    <3>2. Active' = Active /\ Went(c)' = Went(c)
      BY <2>1, <3>1 DEF Active, Went
    <3>3. op[c].root = None
      BY <1>1, <2>3 DEF SoFar, Way, Closing
    <3>4. Tagged(op[c].id, op[c].before)'
      <4>1. Tagged(op[c].id, op[c].before)
        BY <2>3 DEF SoFar
      <4> QED  BY <2>1, <3>1, <3>2, <4>1 DEF Tagged
    <3>5. (\A k \in Kids \cap Went(c) : row[k] = op[c].id)'
      BY <2>1, <2>3, <3>1, <3>2 DEF SoFar
    <3>6. Way(c)'
      BY <2>2, <3>1, <3>3 DEF Way, Handles, Closing, Writes, PutsAside, At
    <3>7. op[c].kind = "archive" => OfService(c)'
      BY <1>1, <2>2, <2>3, <3>1, <3>2
      DEF SoFar, OfService, Handles, Writes, PutsAside
    <3>8. ASSUME op[c].kind = "archiveGroup" PROVE OfGroup(c)'
      <4>1. OfGroup(c)
        BY <2>3, <3>8 DEF SoFar
      <4>2. \A d : Brings(c, d) => Brings(c, d)'
        BY <1>1, <3>1, <3>2 DEF Brings, At
      <4> QED  BY <2>1, <2>2, <3>1, <3>2, <4>1, <4>2 DEF OfGroup, Handles, Writes, PutsAside, At
    <3> QED  BY <3>1, <3>4, <3>5, <3>6, <3>7, <3>8 DEF SoFar
  <2> QED  BY <1>2, <2>1, <2>2, <2>3, ArchiveKeepsTrips
<1> QED  BY <1>3, <1>4 DEF WriteGroup

LEMMA AcquireLocksKeepsTrips ==
  ASSUME ArchiveAssumption, IInv, KInv, NEW c \in Clients, Frame(c), AcquireLocks(c)
  PROVE  KInv'
<1>1. TypeOK /\ Client(c) /\ op[c].pc = "lock" /\ UNCHANGED <<row, mark, ops, last>>
  BY DEF IInv, AcquireLocks, At, rows, bounds, history
<1>2. Archiving(c) /\ op[c].kind # "none"
  BY <1>1, KindAt DEF Client, Archiving, Archives
<1>3. CASE Leave(c)
  BY <1>1, <1>2, <1>3, QuitKeepsTrips
<1>4. CASE Goto(c, "list")
  <2>1. op'[c].pc = "list" /\ Stays(c) /\ Continues(c)
    BY <1>1, <1>4, GotoStays DEF Stays
  <2>2. ASSUME SoFar(c) PROVE SoFar(c)'
    <3>1. /\ op'[c].id = op[c].id /\ op'[c].before = op[c].before
          /\ op'[c].kind = op[c].kind /\ op'[c].target = op[c].target
          /\ op'[c].shared = op[c].shared /\ op'[c].cur = op[c].cur
          /\ op'[c].todo = op[c].todo /\ op'[c].root = op[c].root /\ op'[c].kids = op[c].kids
      BY <2>1 DEF Stays, Continues
    <3>2. Active' = Active /\ Went(c)' = Went(c) /\ Went(c) = {}
      BY <1>1, <2>2, <3>1 DEF Active, Went, SoFar, Way
    <3>3. Tagged(op[c].id, op[c].before)'
      BY <1>1, <2>2, <3>1, <3>2 DEF SoFar, Tagged
    <3>4. Way(c)'
      BY <1>1, <2>1, <2>2, <3>1, <3>2 DEF SoFar, Way, Closing, Writes, PutsAside, At
    <3>5. op[c].kind = "archive" => OfService(c)'
      BY <1>1, <2>1, <2>2, <3>1, <3>2 DEF SoFar, OfService, Handles, Writes, PutsAside
    <3>6. op[c].kind = "archiveGroup" => OfGroup(c)'
      BY <1>1, <2>1, <2>2, <3>1, <3>2 DEF SoFar, OfGroup, Handles, Writes, PutsAside, At
    <3> QED  BY <3>1, <3>2, <3>3, <3>4, <3>5, <3>6 DEF SoFar
  <2> QED  BY <1>1, <1>2, <2>1, <2>2, ArchiveKeepsTrips
<1> QED  BY <1>3, <1>4 DEF AcquireLocks

-----------------------------------------------------------------------------
(* The steps that choose the services.                                     *)

(* They write nothing, and archive nothing yet.                            *)
LEMMA ChoosingSoFar ==
  ASSUME NEW c \in Clients, SoFar(c), Continues(c), UNCHANGED <<row, mark>>,
         Way(c)',
         op[c].kind = "archive" => OfService(c)',
         op[c].kind = "archiveGroup" => OfGroup(c)'
  PROVE  SoFar(c)'
<1>1. /\ op'[c].id = op[c].id /\ op'[c].before = op[c].before /\ op'[c].kind = op[c].kind
  BY DEF Continues
<1>2. Active' = Active /\ Went(c)' = Went(c)
  BY <1>1 DEF Active, Went
<1>3. Tagged(op[c].id, op[c].before)'
  BY <1>1, <1>2 DEF SoFar, Tagged
<1>4. (\A k \in Kids \cap Went(c) : row[k] = op[c].id)'
  BY <1>1, <1>2 DEF SoFar
<1> QED  BY <1>1, <1>3, <1>4 DEF SoFar

LEMMA ChoosingToCome ==
  ASSUME NEW c \in Clients, ToCome(c), Continues(c), UNCHANGED <<row, mark>>,
         op[c].pc \notin TakesBack, op'[c].pc # "list",
         Lists(c)', Listed(c)'
  PROVE  ToCome(c)'
<1>1. /\ op'[c].id = op[c].id /\ op'[c].owed = op[c].owed
  BY DEF Continues
<1>2. Active' = Active /\ Owes(c)' = Owes(c) /\ Lot(c)' = Lot(c)
  BY <1>1 DEF Active, Owes, Lot
<1>3. Tagged(Lot(c), op[c].owed)'
  BY <1>1, <1>2 DEF ToCome, Tagged
<1>4. (\A k \in Kids \cap Owes(c) :
         row[k] = Lot(c) \/ (k = Cur(c) /\ op[c].pc \in TakesBack))'
  BY <1>1, <1>2 DEF ToCome
<1> QED  BY <1>3, <1>4 DEF ToCome, At

LEMMA ListServicesKeepsTrips ==
  ASSUME ArchiveAssumption, IInv, KInv, NEW c \in Clients, Frame(c), ListServices(c)
  PROVE  KInv'
<1>1. TypeOK /\ Client(c) /\ op[c].pc = "list" /\ op[c] \in Operations
      /\ UNCHANGED <<row, mark, ops, last>>
  BY DEF IInv, ListServices, At, TypeOK, Still, rows, bounds, history
<1>2. op[c].kind \in Archives \cup Restores /\ op[c].target \in Services
  BY <1>1, KindAt DEF Client, Paths, Common, Archiving, Restoring, Archives, Restores
<1> DEFINE t == op[c].target
           active == Deployables \cap Active
           listed == {d \in Deployables : mark[d] = row[Primary]}
<1>3. CASE op[c].kind = "archive"
  <2>1. Archiving(c)
    BY <1>3 DEF Archiving, Archives
  <2> DEFINE shared == ChildrenOf(t) # {}
  <2>2. op'[c] = [op[c] EXCEPT !.cur = t, !.pc = "visit", !.shared = shared]
    BY <1>1, <1>3, GoSets DEF ListServices
  <2>s. shared \/ ChildrenOf(t) = {}
    OBVIOUS
  <2> HIDE DEF shared
  <2>3. /\ Continues(c) /\ op'[c].cur = t /\ op'[c].pc = "visit"
        /\ op'[c].todo = op[c].todo /\ op'[c].root = op[c].root /\ op'[c].kids = op[c].kids
        /\ op'[c].shared \/ ChildrenOf(t) = {}
    <3>1. Continues(c) /\ op'[c].cur = t /\ op'[c].pc = "visit"
          /\ op'[c].todo = op[c].todo /\ op'[c].root = op[c].root
          /\ op'[c].kids = op[c].kids /\ op'[c].shared = shared
      BY <1>1, <2>2 DEF Operations, Continues
    <3> QED  BY <2>s, <3>1
  <2>4. ASSUME SoFar(c) PROVE SoFar(c)'
    <3>1. OfService(c) /\ Active = op[c].before /\ op[c].todo = {} /\ op[c].kids = {}
          /\ op[c].root = None
      BY <1>1, <1>3, <2>4 DEF SoFar, Way
    <3>2. Active' = Active /\ Went(c)' = Went(c)
      BY <1>1, <2>3 DEF Active, Went, Continues
    <3>3. Way(c)'
      BY <2>3, <3>1, <3>2 DEF Way, Closing, Cur, OfService
    <3>4. OfService(c)'
      BY <2>3, <3>1, <3>2 DEF OfService, Handles, Cur, Continues
    <3> QED  BY <1>1, <1>3, <2>3, <2>4, <3>3, <3>4, ChoosingSoFar
  <2> QED  BY <1>1, <2>1, <2>3, <2>4, ArchiveKeepsTrips
<1>4. CASE op[c].kind = "archiveGroup"
  <2>1. Archiving(c)
    BY <1>4 DEF Archiving, Archives
  <2>2. \/ Goto(c, "return") /\ active = {}
        \/ Go(c, [op[c] EXCEPT !.todo = active, !.pc = "next", !.shared = TRUE])
    BY <1>4 DEF ListServices
  <2> HIDE DEF active
  <2>3. /\ Continues(c) /\ op'[c].root = op[c].root /\ op'[c].kids = op[c].kids
        /\ op'[c].pc = "return" \/ (op'[c].pc = "next" /\ op'[c].shared)
    <3>1. CASE Goto(c, "return")
      BY <1>1, <3>1, GotoStays DEF Stays
    <3>2. CASE Go(c, [op[c] EXCEPT !.todo = active, !.pc = "next", !.shared = TRUE])
      <4>1. op'[c] = [op[c] EXCEPT !.todo = active, !.pc = "next", !.shared = TRUE]
        BY <1>1, <3>2, GoSets
      <4> QED  BY <1>1, <4>1 DEF Operations, Continues
    <3> QED  BY <2>2, <3>1, <3>2
  <2>4. ASSUME SoFar(c) PROVE SoFar(c)'
    <3>1. Active = op[c].before /\ op[c].kids = {} /\ op[c].root = None
      BY <1>1, <2>4 DEF SoFar, Way
    <3>2. Went(c)' = {}
      BY <1>1, <2>3, <3>1 DEF Active, Went, Continues
    <3>3. Way(c)'
      BY <2>3, <3>1 DEF Way, Closing, At, Writes, PutsAside
    <3>4. OfGroup(c)'
      BY <2>3, <3>1, <3>2 DEF OfGroup, Handles, Writes, PutsAside, At
    <3> QED  BY <1>1, <1>4, <2>3, <2>4, <3>3, <3>4, ChoosingSoFar
  <2> QED  BY <1>1, <2>1, <2>3, <2>4, ArchiveKeepsTrips
<1>5. ASSUME ToCome(c)
      PROVE  /\ op[c].todo = {} /\ op[c].kids = {} /\ op[c].root = None
             /\ Covers(op[c].kind, t, Lot(c), op[c].owed)
             /\ Tagged(Lot(c), op[c].owed)
  BY <1>1, <1>5 DEF ToCome, Lists, At
<1>6. op[c].pc \notin TakesBack
  BY <1>1 DEF TakesBack, Resumes
<1>7. CASE op[c].kind = "unarchive"
  <2>1. Restoring(c)
    BY <1>7 DEF Restoring, Restores
  <2> DEFINE marker == IF row[t] # 0 THEN row[t] ELSE mark[t]
  <2>2. op'[c] = [op[c] EXCEPT !.cur = t, !.pc = "visit", !.marker = marker]
    BY <1>1, <1>7, GoSets DEF ListServices
  <2> HIDE DEF marker
  <2>3. /\ Continues(c) /\ op'[c].cur = t /\ op'[c].pc = "visit"
        /\ op'[c].todo = op[c].todo /\ op'[c].root = op[c].root /\ op'[c].kids = op[c].kids
    BY <1>1, <2>2 DEF Operations, Continues
  <2>4. ASSUME ToCome(c) PROVE ToCome(c)'
    <3>1. t \in Owes(c) /\ Owes(c) \subseteq {t} \cup ChildrenOf(t)
      BY <1>5, <1>7, <2>4 DEF Covers, Owes
    <3>2. Owes(c)' = Owes(c) /\ t # None
      BY <1>1, <1>2, <2>3, Names DEF Active, Owes, Continues
    <3>3. Lists(c)'
      BY <1>5, <2>3, <2>4, <3>1, <3>2 DEF Lists, InHand, Taking, At, Cur
    <3>4. Listed(c)'
      BY <2>3, <3>1, <3>2, Names DEF Listed, InHand, At, Cur
    <3> QED  BY <1>1, <1>6, <2>3, <2>4, <3>3, <3>4, ChoosingToCome
  <2> QED  BY <1>1, <2>1, <2>3, <2>4, RestoreKeepsTrips
<1>8. CASE op[c].kind = "unarchiveGroup"
  <2>1. Restoring(c)
    BY <1>8 DEF Restoring, Restores
  <2>2. \/ Goto(c, "return") /\ row[Primary] = 0
        \/ Go(c, [op[c] EXCEPT !.todo = listed, !.pc = "next", !.marker = row[Primary]])
    BY <1>8 DEF ListServices
  <2>3. Continues(c)
    <3>1. CASE Goto(c, "return")
      BY <1>1, <3>1, GotoStays DEF Stays
    <3>2. CASE Go(c, [op[c] EXCEPT !.todo = listed, !.pc = "next", !.marker = row[Primary]])
      <4> HIDE DEF listed
      <4>1. op'[c] = [op[c] EXCEPT !.todo = listed, !.pc = "next", !.marker = row[Primary]]
        BY <1>1, <3>2, GoSets
      <4> QED  BY <1>1, <4>1 DEF Operations, Continues
    <3> QED  BY <2>2, <3>1, <3>2
  <2>4. ASSUME ToCome(c) PROVE ToCome(c)'
    <3>1. /\ row[Primary] = Lot(c) /\ Lot(c) # 0
          /\ \A k \in Kids \cap Owes(c) :
               \E d \in Deployables \cap Owes(c) : k \in ChildrenOf(d)
      BY <1>5, <1>8, <2>4 DEF Covers, Owes, Tagged
    <3>2. listed = Deployables \cap Owes(c)
      BY <1>5, <2>4, <3>1, Names DEF Tagged, Owes
    <3>3. Go(c, [op[c] EXCEPT !.todo = listed, !.pc = "next", !.marker = row[Primary]])
      BY <2>2, <3>1
    <3> HIDE DEF listed
    <3>4. op'[c] = [op[c] EXCEPT !.todo = listed, !.pc = "next", !.marker = row[Primary]]
      BY <1>1, <3>3, GoSets
    <3>5. /\ op'[c].pc = "next" /\ op'[c].todo = listed
          /\ op'[c].root = op[c].root /\ op'[c].kids = op[c].kids
      BY <1>1, <3>4 DEF Operations
    <3>6. Owes(c)' = Owes(c)
      BY <1>1, <2>3 DEF Active, Owes, Continues
    <3>7. Lists(c)'
      BY <1>5, <2>4, <3>2, <3>5, <3>6 DEF Lists, InHand, Taking, At, TakesBack, Resumes
    <3>8. Listed(c)'
      BY <3>1, <3>2, <3>5, <3>6 DEF Listed
    <3> QED  BY <1>1, <1>6, <2>3, <2>4, <3>5, <3>7, <3>8, ChoosingToCome
  <2> QED  BY <1>1, <2>1, <2>3, <2>4, RestoreKeepsTrips
<1> QED  BY <1>2, <1>3, <1>4, <1>7, <1>8 DEF Archives, Restores

LEMMA NextServiceIs ==
  ASSUME TypeOK, NEW c \in Clients, NextService(c)
  PROVE  /\ Continues(c) /\ op'[c].shared = op[c].shared
         /\ \/ /\ \E k \in op[c].kids : op'[c].cur = k /\ op'[c].kids = op[c].kids \ {k}
               /\ op'[c].pc = "visit" /\ op'[c].todo = op[c].todo /\ op'[c].root = op[c].root
            \/ /\ op[c].kids = {} /\ op[c].root # None
               /\ op'[c].cur = op[c].root /\ op'[c].root = None
               /\ op'[c].pc = IF Archiving(c) THEN "row" ELSE "clearRow"
               /\ op'[c].todo = op[c].todo /\ op'[c].kids = op[c].kids
            \/ /\ op[c].kids = {} /\ op[c].root = None
               /\ \E d \in op[c].todo : op'[c].cur = d /\ op'[c].todo = op[c].todo \ {d}
               /\ op'[c].pc = "visit" /\ op'[c].kids = op[c].kids /\ op'[c].root = op[c].root
            \/ /\ op[c].kids = {} /\ op[c].root = None /\ op[c].todo = {}
               /\ op'[c].pc = "end" /\ Stays(c)
<1>1. op[c] \in Operations
  BY DEF TypeOK
<1>2. ASSUME NEW k \in op[c].kids,
             Go(c, [op[c] EXCEPT !.cur = k, !.kids = @ \ {k}, !.pc = "visit"])
      PROVE  /\ Continues(c) /\ op'[c].shared = op[c].shared
             /\ op'[c].cur = k /\ op'[c].kids = op[c].kids \ {k}
             /\ op'[c].pc = "visit" /\ op'[c].todo = op[c].todo /\ op'[c].root = op[c].root
  <2>1. op'[c] = [op[c] EXCEPT !.cur = k, !.kids = @ \ {k}, !.pc = "visit"]
    BY <1>2, GoSets
  <2> QED  BY <1>1, <2>1 DEF Operations, Continues
<1>3. ASSUME Go(c, [op[c] EXCEPT !.cur = op[c].root, !.root = None,
                      !.pc = IF op[c].kind \in Archives THEN "row" ELSE "clearRow"])
      PROVE  /\ Continues(c) /\ op'[c].shared = op[c].shared
             /\ op'[c].cur = op[c].root /\ op'[c].root = None
             /\ op'[c].pc = IF Archiving(c) THEN "row" ELSE "clearRow"
             /\ op'[c].todo = op[c].todo /\ op'[c].kids = op[c].kids
  <2> DEFINE s == IF op[c].kind \in Archives THEN "row" ELSE "clearRow"
  <2>1. op'[c] = [op[c] EXCEPT !.cur = op[c].root, !.root = None, !.pc = s]
    BY <1>3, GoSets
  <2>2. s = IF Archiving(c) THEN "row" ELSE "clearRow"
    BY DEF Archiving
  <2> HIDE DEF s
  <2>3. /\ Continues(c) /\ op'[c].shared = op[c].shared
        /\ op'[c].cur = op[c].root /\ op'[c].root = None /\ op'[c].pc = s
        /\ op'[c].todo = op[c].todo /\ op'[c].kids = op[c].kids
    BY <1>1, <2>1 DEF Operations, Continues
  <2> QED  BY <2>2, <2>3
<1>4. ASSUME NEW d \in op[c].todo,
             Go(c, [op[c] EXCEPT !.cur = d, !.todo = @ \ {d}, !.pc = "visit"])
      PROVE  /\ Continues(c) /\ op'[c].shared = op[c].shared
             /\ op'[c].cur = d /\ op'[c].todo = op[c].todo \ {d}
             /\ op'[c].pc = "visit" /\ op'[c].kids = op[c].kids /\ op'[c].root = op[c].root
  <2>1. op'[c] = [op[c] EXCEPT !.cur = d, !.todo = @ \ {d}, !.pc = "visit"]
    BY <1>4, GoSets
  <2> QED  BY <1>1, <2>1 DEF Operations, Continues
<1>5. Goto(c, "end") => Continues(c) /\ op'[c].pc = "end" /\ Stays(c)
  BY GotoStays DEF Stays
<1>6. Stays(c) => op'[c].shared = op[c].shared
  BY DEF Stays
<1> QED  BY <1>2, <1>3, <1>4, <1>5, <1>6 DEF NextService

LEMMA NextSoFar ==
  ASSUME ArchiveAssumption, IInv, NEW c \in Clients, NextService(c), SoFar(c), Archiving(c)
  PROVE  SoFar(c)'
<1>1. TypeOK /\ op[c].pc = "next" /\ UNCHANGED <<row, mark>>
  BY DEF IInv, NextService, At, Still, rows
<1>2. Continues(c) /\ op'[c].shared = op[c].shared
  BY <1>1, NextServiceIs
<1>3. /\ op'[c].id = op[c].id /\ op'[c].before = op[c].before
      /\ op'[c].kind = op[c].kind /\ op'[c].target = op[c].target
  BY <1>2 DEF Continues
<1>4. Active' = Active /\ Went(c)' = Went(c)
  BY <1>1, <1>3 DEF Active, Went
<1>5. Way(c)
  BY DEF SoFar
<1>6. op[c].kind = "archive" =>
        /\ OfService(c) /\ op[c].todo = {}
        /\ op[c].target \in Active => op[c].root = op[c].target
  BY <1>1 DEF SoFar, OfService, Handles, Writes, PutsAside
<1>7. op[c].kind = "archiveGroup" => OfGroup(c) /\ op[c].shared
  BY <1>1 DEF SoFar, OfGroup
<1>8. /\ op[c].todo \subseteq Deployables /\ op[c].kids \subseteq Kids
      /\ op[c].root \in Deployables \cup {None}
      /\ Deployables \cap Kids = {} /\ None \notin Deployables /\ None \notin Kids
  BY <1>1, FieldsOf, Names
<1>9. op[c].kids # {} => op[c].shared
  BY <1>1, <1>6, <1>7 DEF OfService, Archiving, Archives
<1>10. ASSUME op[c].todo # {} PROVE op[c].shared
  BY <1>6, <1>7, <1>10 DEF Archiving, Archives
<1>11. ASSUME NEW k \in op[c].kids, op'[c].cur = k, op'[c].kids = op[c].kids \ {k},
              op'[c].pc = "visit", op'[c].todo = op[c].todo, op'[c].root = op[c].root,
              op[c].shared
       PROVE  SoFar(c)'
  <2>1. Way(c)'
    BY <1>2, <1>4, <1>5, <1>8, <1>11 DEF Way, Handles, Closing, Writes, PutsAside, At, Cur
  <2>2. op[c].kind = "archive" => OfService(c)'
    BY <1>1, <1>2, <1>3, <1>4, <1>6, <1>11 DEF OfService, Handles, Cur
  <2>3. ASSUME op[c].kind = "archiveGroup" PROVE OfGroup(c)'
    <3>1. \A d : Brings(c, d) => Brings(c, d)'
      BY <1>1, <1>4, <1>11 DEF Brings, At
    <3>2. (\A j \in Kids \cap Went(c) :
             \E d \in Deployables : j \in ChildrenOf(d) /\ Brings(c, d))'
      BY <1>4, <1>7, <2>3, <3>1 DEF OfGroup
    <3> QED  BY <1>2, <1>7, <1>11, <2>3, <3>2 DEF OfGroup, Handles, Cur, At
  <2> QED  BY <1>1, <1>2, <2>1, <2>2, <2>3, ChoosingSoFar
<1>12. ASSUME op[c].kids = {}, op[c].root # None, op'[c].cur = op[c].root,
              op'[c].root = None, op'[c].pc = "row",
              op'[c].todo = op[c].todo, op'[c].kids = op[c].kids
       PROVE  SoFar(c)'
  <2>1. Way(c)'
    BY <1>4, <1>5, <1>12 DEF Way, Closing, At, Cur
  <2>2. ASSUME op[c].kind = "archive" PROVE OfService(c)'
    <3>1. op[c].root = op[c].target
      BY <1>6, <1>12, <2>2 DEF OfService
    <3> QED  BY <1>1, <1>2, <1>3, <1>4, <1>6, <1>12, <2>2, <3>1 DEF OfService, Handles, Writes, Cur
  <2>3. ASSUME op[c].kind = "archiveGroup" PROVE OfGroup(c)'
    <3>1. \A d : Brings(c, d) => Brings(c, d)'
      BY <1>1, <1>4, <1>12 DEF Brings, At, Cur
    <3>2. (\A j \in Kids \cap Went(c) :
             \E d \in Deployables : j \in ChildrenOf(d) /\ Brings(c, d))'
      BY <1>4, <1>7, <2>3, <3>1 DEF OfGroup
    <3> QED  BY <1>2, <1>7, <1>8, <1>12, <2>3, <3>2 DEF OfGroup, Cur, At
  <2> QED  BY <1>1, <1>2, <2>1, <2>2, <2>3, ChoosingSoFar
<1>13. ASSUME op[c].kids = {}, op[c].root = None, NEW d \in op[c].todo, op'[c].cur = d,
              op'[c].todo = op[c].todo \ {d}, op'[c].pc = "visit",
              op'[c].kids = op[c].kids, op'[c].root = op[c].root
       PROVE  SoFar(c)'
  <2>1. op[c].shared /\ op[c].kind # "archive"
    BY <1>6, <1>10, <1>13
  <2>2. Way(c)'
    BY <1>2, <1>4, <1>13, <2>1 DEF Way, Closing, Writes, PutsAside, At
  <2>3. ASSUME op[c].kind = "archiveGroup" PROVE OfGroup(c)'
    <3>1. \A y : Brings(c, y) => Brings(c, y)'
      BY <1>1, <1>4, <1>13 DEF Brings, At
    <3>2. (\A j \in Kids \cap Went(c) :
             \E y \in Deployables : j \in ChildrenOf(y) /\ Brings(c, y))'
      BY <1>4, <1>7, <2>3, <3>1 DEF OfGroup
    <3> QED  BY <1>2, <1>7, <1>8, <1>13, <2>3, <3>2 DEF OfGroup, Cur, At
  <2> QED  BY <1>1, <1>2, <2>1, <2>2, <2>3, ChoosingSoFar
<1>14. ASSUME op[c].root = None, op'[c].pc = "end", Stays(c)
       PROVE  SoFar(c)'
  BY <1>1, <1>14, PassingSoFar DEF Handles, Closing, Writes, PutsAside
<1> QED  BY <1>1, <1>11, <1>12, <1>13, <1>14, <1>9, NextServiceIs

LEMMA NextToCome ==
  ASSUME ArchiveAssumption, IInv, NEW c \in Clients, NextService(c), ToCome(c), Restoring(c)
  PROVE  ToCome(c)'
<1>1. TypeOK /\ op[c].pc = "next" /\ op[c].pc \notin TakesBack /\ UNCHANGED <<row, mark>>
  BY DEF IInv, NextService, At, Still, rows, TakesBack, Resumes
<1>2. Continues(c) /\ ~Archiving(c)
  BY <1>1, NextServiceIs DEF Archiving, Restoring, Archives, Restores
<1>3. Owes(c)' = Owes(c)
  BY <1>1, <1>2 DEF Active, Owes, Continues
<1>4. Lists(c)
  BY DEF ToCome
<1>5. /\ \A d \in Deployables \cap Owes(c) : d \in op[c].todo \/ d = op[c].root
      /\ \A k \in Kids \cap Owes(c) :
           k \in op[c].kids \/ \E d \in op[c].todo : k \in ChildrenOf(d)
  BY <1>1 DEF ToCome, Listed, InHand, At
<1>6. /\ op[c].todo \subseteq Deployables /\ op[c].kids \subseteq Kids
      /\ op[c].root \in Deployables \cup {None}
      /\ Deployables \cap Kids = {} /\ None \notin Deployables /\ None \notin Kids
  BY <1>1, FieldsOf, Names
<1>7. ASSUME NEW k \in op[c].kids, op'[c].cur = k, op'[c].kids = op[c].kids \ {k},
             op'[c].pc = "visit", op'[c].todo = op[c].todo, op'[c].root = op[c].root
      PROVE  ToCome(c)'
  <2>1. Lists(c)'
    BY <1>3, <1>4, <1>6, <1>7 DEF Lists, At, Cur
  <2>2. Listed(c)'
    BY <1>3, <1>5, <1>7 DEF Listed, InHand, Cur
  <2> QED  BY <1>1, <1>2, <1>7, <2>1, <2>2, ChoosingToCome
<1>8. ASSUME op[c].kids = {}, op[c].root # None, op'[c].cur = op[c].root,
             op'[c].root = None, op'[c].pc = "clearRow",
             op'[c].todo = op[c].todo, op'[c].kids = op[c].kids
      PROVE  ToCome(c)'
  <2>1. Lists(c)'
    BY <1>3, <1>4, <1>8 DEF Lists, At, Cur
  <2>2. Listed(c)'
    BY <1>3, <1>5, <1>8 DEF Listed, InHand, TakesBack, Cur
  <2> QED  BY <1>1, <1>2, <1>8, <2>1, <2>2, ChoosingToCome
<1>9. ASSUME op[c].kids = {}, op[c].root = None, NEW d \in op[c].todo, op'[c].cur = d,
             op'[c].todo = op[c].todo \ {d}, op'[c].pc = "visit",
             op'[c].kids = op[c].kids, op'[c].root = op[c].root
      PROVE  ToCome(c)'
  <2>1. Lists(c)'
    BY <1>3, <1>4, <1>6, <1>9 DEF Lists, At, Cur
  <2>2. Listed(c)'
    BY <1>3, <1>5, <1>6, <1>9 DEF Listed, InHand, Cur, At
  <2> QED  BY <1>1, <1>2, <1>9, <2>1, <2>2, ChoosingToCome
<1>10. ASSUME op[c].kids = {}, op[c].root = None, op[c].todo = {}, op'[c].pc = "end", Stays(c)
       PROVE  ToCome(c)'
  BY <1>1, <1>10, PassingToCome DEF InHand, Taking, At, TakesBack, Resumes
<1> QED  BY <1>1, <1>2, <1>7, <1>8, <1>9, <1>10, NextServiceIs

LEMMA NextServiceKeepsTrips ==
  ASSUME ArchiveAssumption, IInv, KInv, NEW c \in Clients, Frame(c), NextService(c)
  PROVE  KInv'
<1>1. TypeOK /\ Client(c) /\ op[c].pc = "next" /\ UNCHANGED <<row, mark, ops, last>>
  BY DEF IInv, NextService, At, Still, rows, bounds, history
<1>2. Archiving(c) \/ Restoring(c)
  BY <1>1, KindAt DEF Client, Common
<1>3. Continues(c)
  BY <1>1, NextServiceIs
<1>4. CASE Archiving(c)
  BY <1>1, <1>3, <1>4, NextSoFar, ArchiveKeepsTrips
<1>5. CASE Restoring(c)
  BY <1>1, <1>3, <1>5, NextToCome, RestoreKeepsTrips
<1> QED  BY <1>2, <1>4, <1>5

LEMMA VisitArchiveKeepsTrips ==
  ASSUME ArchiveAssumption, IInv, KInv, NEW c \in Clients, Frame(c), VisitArchive(c)
  PROVE  KInv'
<1> DEFINE x == op[c].cur
<1>1. TypeOK /\ Client(c) /\ op[c].pc = "visit" /\ op[c] \in Operations /\ Archiving(c)
      /\ UNCHANGED <<row, mark, ops, last>>
  BY DEF IInv, VisitArchive, At, TypeOK, rows, bounds, Archiving
<1>2. x \in Services
  BY <1>1 DEF Client, About, At, Cur
<1>3. ASSUME SoFar(c) PROVE ~op[c].shared => x \in Active
  BY <1>1, <1>3 DEF SoFar, Way, At, Cur
<1>4. CASE Goto(c, "next") /\ Skips(c)
  <2>1. op'[c].pc = "next" /\ Stays(c) /\ Continues(c)
    BY <1>1, <1>4, GotoStays DEF Stays
  <2>2. Cur(c) \notin Active
    BY <1>4 DEF Skips, Active
  <2>3. SoFar(c) => SoFar(c)'
    BY <1>1, <2>1, <2>2, PassingSoFar DEF Handles, Closing, Writes, PutsAside
  <2> QED  BY <1>1, <2>1, <2>3, ArchiveKeepsTrips
<1>5. CASE /\ ~Skips(c) /\ ChildrenOf(x) # {}
           /\ Go(c, [op[c] EXCEPT !.kids = ChildrenOf(x), !.root = x, !.pc = "next"])
  <2>1. op'[c] = [op[c] EXCEPT !.kids = ChildrenOf(x), !.root = x, !.pc = "next"]
    BY <1>1, <1>5, GoSets
  <2>2. /\ Continues(c) /\ op'[c].shared = op[c].shared
        /\ op'[c].pc = "next" /\ op'[c].root = x /\ op'[c].kids = ChildrenOf(x)
        /\ op'[c].todo = op[c].todo
    BY <1>1, <2>1 DEF Operations, Continues
  <2>3. ASSUME SoFar(c) PROVE SoFar(c)'
    <3>1. x \in Active /\ x \notin Kids /\ op[c].root = None
      <4>1. x \in Active
        BY <1>2, <1>3, <1>5, <2>3 DEF Skips, Active, Cur
      <4>2. x \notin Kids
        BY <1>5, Names
      <4> QED  BY <1>1, <2>3, <4>1, <4>2 DEF SoFar, Way, Handles, Cur
    <3>2. Active' = Active /\ Went(c)' = Went(c)
      BY <1>1, <2>2 DEF Active, Went, Continues
    <3>3. Way(c)'
      BY <2>2, <3>1, <3>2 DEF Way, Handles, Closing, Writes, PutsAside, At
    <3>4. ASSUME op[c].kind = "archive" PROVE OfService(c)'
      <4>1. OfService(c)
        BY <2>3, <3>4 DEF SoFar
      <4>2. x = op[c].target
        BY <1>1, <3>1, <4>1, Names DEF OfService, Handles, Cur
      <4> QED  BY <1>1, <2>2, <3>2, <4>1, <4>2 DEF OfService, Handles, Writes, PutsAside, Continues
    <3>5. ASSUME op[c].kind = "archiveGroup" PROVE OfGroup(c)'
      <4>1. OfGroup(c) /\ op[c].shared
        BY <1>1, <2>3, <3>5 DEF SoFar, OfGroup
      <4>2. \A d \in Deployables : Brings(c, d) => Brings(c, d)'
        BY <1>1, <2>2, <3>1, <3>2, Names DEF Brings, At
      <4>3. (\A j \in Kids \cap Went(c) :
               \E d \in Deployables : j \in ChildrenOf(d) /\ Brings(c, d))'
        BY <3>2, <4>1, <4>2 DEF OfGroup
      <4> QED  BY <2>2, <4>1, <4>3 DEF OfGroup, Handles, Writes, PutsAside, At
    <3> QED  BY <1>1, <2>2, <2>3, <3>3, <3>4, <3>5, ChoosingSoFar
  <2> QED  BY <1>1, <2>2, <2>3, ArchiveKeepsTrips
<1>6. ASSUME NEW s \in {"stop", "row"}, ~Skips(c), Goto(c, s) \/ GotoDone(c, s, {})
      PROVE  KInv'
  <2>1. op'[c].pc = s /\ Stays(c) /\ Continues(c)
    BY <1>1, <1>6, GotoStays DEF Stays
  <2>2. ASSUME SoFar(c) PROVE SoFar(c)'
    <3>1. Cur(c) \in Active
      BY <1>2, <1>3, <1>6, <2>2 DEF Skips, Active, Cur
    <3> QED  BY <1>1, <2>1, <2>2, <3>1, PassingSoFar DEF Handles, Closing, Writes, PutsAside
  <2> QED  BY <1>1, <2>1, <2>2, ArchiveKeepsTrips
<1>7. \/ Goto(c, "next") /\ Skips(c)
      \/ ~Skips(c) /\ ChildrenOf(x) # {}
         /\ Go(c, [op[c] EXCEPT !.kids = ChildrenOf(x), !.root = x, !.pc = "next"])
      \/ ~Skips(c) /\ (GotoDone(c, "stop", {}) \/ Goto(c, "row"))
  BY DEF VisitArchive, Cur
<1> QED  BY <1>4, <1>5, <1>6, <1>7

LEMMA VisitRestoreKeepsTrips ==
  ASSUME ArchiveAssumption, IInv, KInv, NEW c \in Clients, Frame(c), VisitRestore(c)
  PROVE  KInv'
<1> DEFINE x == op[c].cur
<1>1. TypeOK /\ Client(c) /\ op[c].pc = "visit" /\ op[c] \in Operations /\ Restoring(c)
      /\ UNCHANGED <<row, mark, ops, last>>
  BY DEF IInv, VisitRestore, At, TypeOK, Still, rows, bounds, history, Restoring
<1>2. x \in Services
  BY <1>1 DEF Client, About, At, Cur
<1>3. ASSUME ToCome(c)
      PROVE  /\ x \in Owes(c) /\ Lot(c) # 0 /\ mark[x] = Lot(c) /\ mark[x] # 0
             /\ Matching(x) = ChildrenOf(x) \cap Owes(c)
  <2>1. x \in Owes(c) /\ Tagged(Lot(c), op[c].owed)
        /\ \A k \in Kids \cap Owes(c) : row[k] = Lot(c)
    BY <1>1, <1>3 DEF ToCome, Lists, Taking, Cur, TakesBack, Resumes
  <2>2. mark[x] = Lot(c) /\ row[x] \in {0, Lot(c)} /\ Lot(c) # 0
    BY <1>2, <2>1 DEF Tagged, Owes
  <2>3. Matching(x) = {k \in ChildrenOf(x) : row[k] = Lot(c)}
    BY <2>2 DEF Matching
  <2>4. \A k \in ChildrenOf(x) : row[k] = Lot(c) <=> k \in Owes(c)
    BY <2>1, Names DEF Tagged, Owes
  <2> QED  BY <2>1, <2>2, <2>3, <2>4
<1>4. CASE Goto(c, "next") /\ row[x] = 0 /\ mark[x] = 0
  <2>1. Continues(c)
    BY <1>1, <1>4, GotoStays DEF Stays
  <2> QED  BY <1>1, <1>3, <1>4, <2>1, RestoreKeepsTrips
<1>5. CASE /\ Matching(x) # {}
           /\ Go(c, [op[c] EXCEPT !.kids = Matching(x), !.root = x, !.pc = "next"])
  <2>1. op'[c] = [op[c] EXCEPT !.kids = Matching(x), !.root = x, !.pc = "next"]
    BY <1>1, <1>5, GoSets
  <2>2. /\ Continues(c) /\ op'[c].pc = "next" /\ op'[c].root = x
        /\ op'[c].kids = Matching(x) /\ op'[c].todo = op[c].todo
    BY <1>1, <2>1 DEF Operations, Continues
  <2>3. ASSUME ToCome(c) PROVE ToCome(c)'
    <3>1. /\ x \in Owes(c) /\ Matching(x) = ChildrenOf(x) \cap Owes(c)
          /\ x \in Deployables /\ x \notin Kids
      BY <1>2, <1>3, <1>5, <2>3, Names DEF ChildrenOf
    <3>2. Lists(c) /\ Listed(c) /\ op[c].kids = {} /\ op[c].root = None /\ x \notin op[c].todo
      BY <1>1, <2>3, <3>1 DEF ToCome, Lists, InHand, At, Cur
    <3>3. Owes(c)' = Owes(c)
      BY <1>1, <2>2 DEF Active, Owes, Continues
    <3>4. Lists(c)'
      BY <2>2, <3>1, <3>2, <3>3 DEF Lists, InHand, Taking, TakesBack, Resumes, At
    <3>5. Listed(c)'
      <4>1. \A d \in Deployables \cap Owes(c) : d \in op[c].todo \/ d = x
        BY <3>2, Names DEF Listed, Cur
      <4>2. \A k \in Kids \cap Owes(c) :
              k \in Matching(x) \/ \E d \in op[c].todo : k \in ChildrenOf(d)
        BY <3>1, <3>2 DEF Listed, Cur
      <4> QED  BY <2>2, <3>3, <4>1, <4>2 DEF Listed
    <3>6. op[c].pc \notin TakesBack
      BY <1>1 DEF TakesBack, Resumes
    <3> QED  BY <1>1, <2>2, <2>3, <3>4, <3>5, <3>6, ChoosingToCome
  <2> QED  BY <1>1, <2>2, <2>3, RestoreKeepsTrips
<1>6. ASSUME Matching(x) = {}, NEW s \in {"resume", "clearRow"},
             \E done : GotoDone(c, s, done)
      PROVE  KInv'
  <2>1. op'[c].pc = s /\ Stays(c) /\ Continues(c)
    BY <1>1, <1>6, GotoStays DEF Stays
  <2>2. ASSUME ToCome(c) PROVE ToCome(c)'
    <3>1. ChildrenOf(Cur(c)) \cap Owes(c) = {}
      BY <1>3, <1>6, <2>2 DEF Cur
    <3> QED  BY <1>1, <2>1, <2>2, <3>1, PassingToCome DEF InHand, Taking, At, TakesBack, Resumes
  <2> QED  BY <1>1, <2>1, <2>2, RestoreKeepsTrips
<1> QED  BY <1>4, <1>5, <1>6 DEF VisitRestore, Cur

-----------------------------------------------------------------------------
(* The first step and the last.                                            *)
LEMMA BeginKeepsTrips ==
  ASSUME ~Overlap, ArchiveAssumption, IInv, KInv, NEW c \in Clients, Frame(c),
         NEW kind \in Archives \cup Restores, NEW x \in Services, Begin(c, kind, x)
  PROVE  KInv'
<1> DEFINE s == IF kind \in Archives THEN "lock" ELSE "list"
           q == Quiet
           w == Owed(kind, x)
           was == Active
<1>1. TypeOK /\ ops' = ops + 1 /\ last' = None /\ UNCHANGED <<row, mark>> /\ op[c].pc = "idle"
  BY DEF Begin, IInv, rows, At
<1>2. op'[c] = [Idle EXCEPT !.kind = kind, !.target = x, !.id = ops + 1,
                   !.alone = q, !.before = was, !.owed = w, !.pc = s]
  BY <1>1 DEF Begin, TypeOK
<1> HIDE DEF s, q, w, was
<1>3. /\ op'[c].kind = kind /\ op'[c].target = x /\ op'[c].id = ops + 1
      /\ op'[c].alone = q /\ op'[c].before = was /\ op'[c].owed = w /\ op'[c].pc = s
      /\ op'[c].todo = {} /\ op'[c].kids = {} /\ op'[c].root = None
      /\ op'[c].shared = FALSE /\ op'[c].cur = None
  BY <1>2 DEF Idle
<1>4. ops \in Nat /\ (\A y \in Services : row[y] \in Nat /\ mark[y] \in Nat)
      /\ \A d \in Clients : op[d].id \in Nat
  BY <1>1, FieldsOf DEF TypeOK, Times, ArchiveAssumption
<1>5. /\ \A y \in Services : row[y] <= ops /\ mark[y] <= ops
      /\ \A d \in Clients : op[d].id <= ops
  BY DEF KInv, Fresh
<1>6. \A d \in Clients \ {c} : op'[d] = op[d]
  BY DEF Frame
<1>7. Fresh'
  <2>1. \A y \in Services : row'[y] <= ops' /\ mark'[y] <= ops'
    BY <1>1, <1>4, <1>5
  <2>2. \A d \in Clients : op'[d].id <= ops'
    BY <1>1, <1>3, <1>4, <1>5, <1>6
  <2> QED  BY <2>1, <2>2 DEF Fresh
<1>8. LastArchive'
  BY <1>1 DEF LastArchive
<1>9. op[c].kind = "none"
  BY <1>1, KindAt DEF IInv, Client
<1>10. ASSUME NEW d \in Clients \ {c} PROVE Undisturbed(d)' /\ Returning(d)'
  <2>1. op'[d] = op[d] /\ op[d].id # ops'
    BY <1>1, <1>4, <1>5, <1>6
  <2>2. ~Restoring(d)
    <3>1. op[d].pc = "idle" => op[d].kind = "none"
      BY KindAt DEF IInv, Client
    <3> QED  BY <3>1 DEF Begin, Admitted, Quiet, Restoring, Restores
  <2>3. op[d].owed = None
    BY <2>2 DEF KInv, Returning
  <2> QED  BY <2>1, <2>3 DEF Undisturbed, Solo, Returning
<1>11. Active' = Active
  BY <1>1 DEF Active
<1>12. Undisturbed(c)'
  <2> SUFFICES ASSUME Solo(c)' PROVE Undisturbed(c)'
    BY DEF Undisturbed
  <2>1. kind \in Archives /\ q
    BY <1>3 DEF Solo, Archiving
  <2>2. s = "lock"
    BY <2>1 DEF s
  <2>3. \A d \in Clients \ {c} : op'[d].kind = "none"
    BY <1>6, <2>1, KindAt DEF q, Quiet, IInv, Client
  <2>4. Went(c)' = {}
    BY <1>3, <1>11 DEF Went, was
  <2>5. Tagged(op[c].id, op[c].before)'
    <3>1. \A y \in Services : row'[y] # ops + 1 /\ mark'[y] # ops + 1
      BY <1>1, <1>4, <1>5
    <3>2. op'[c].id # 0 /\ Active' = op'[c].before
      BY <1>3, <1>4, <1>11 DEF was
    <3> QED  BY <1>3, <3>1, <3>2, Names DEF Tagged
  <2>6. Way(c)'
    BY <1>3, <1>11, <2>2 DEF Way, was, Writes, PutsAside, At, Closing
  <2>7. ASSUME kind = "archive" PROVE OfService(c)'
    <3>1. x \in was
      BY <2>7 DEF Begin, Admitted, was, Active
    <3> QED  BY <1>3, <2>2, <2>4, <3>1 DEF OfService, Handles, Writes, PutsAside
  <2>8. OfGroup(c)'
    BY <1>3, <2>2, <2>4 DEF OfGroup, Handles, Writes, PutsAside, At
  <2> QED  BY <1>3, <2>3, <2>4, <2>5, <2>6, <2>7, <2>8 DEF Undisturbed, SoFar
<1>13. Returning(c)'
  <2> SUFFICES ASSUME w # None PROVE Restoring(c)' /\ ToCome(c)'
    BY <1>3 DEF Returning
  <2>1. /\ last # None /\ last.target = x /\ w = last.before
        /\ <<last.kind, kind>> \in
             {<<"archive", "unarchive">>, <<"archiveGroup", "unarchiveGroup">>}
    BY DEF w, Owed
  <2>2. kind \in Restores /\ kind \notin Archives /\ s = "list"
    BY <2>1 DEF Restores, Archives, s
  <2>3. Tagged(ops, last.before) /\ Covers(last.kind, x, ops, last.before)
    BY <2>1 DEF KInv, LastArchive
  <2>4. Lot(c)' = ops /\ Owes(c)' = w \ Active
    BY <1>3, <1>4, <1>11 DEF Lot, Owes
  <2>5. Tagged(Lot(c), op[c].owed)'
    BY <1>1, <1>3, <1>11, <2>1, <2>3, <2>4 DEF Tagged
  <2>6. Covers(op[c].kind, op[c].target, Lot(c), op[c].owed)'
    BY <1>1, <1>3, <1>11, <2>1, <2>3, <2>4 DEF Covers
  <2>7. (\A k \in Kids \cap Owes(c) :
           row[k] = Lot(c) \/ (k = Cur(c) /\ op[c].pc \in TakesBack))'
    BY <1>1, <2>1, <2>3, <2>4 DEF Covers
  <2>8. Lists(c)'
    BY <1>3, <2>2 DEF Lists, InHand, Taking, TakesBack, Resumes, At
  <2> QED  BY <1>3, <2>2, <2>5, <2>6, <2>7, <2>8 DEF ToCome, Restoring, At
<1> QED  BY <1>7, <1>8, <1>10, <1>12, <1>13 DEF KInv

LEMMA ReturnKeepsTrips ==
  ASSUME ArchiveAssumption, IInv, KInv, NEW c \in Clients, Frame(c), Return(c)
  PROVE  KInv'
<1>1. TypeOK /\ Client(c) /\ op[c].pc = "return" /\ Leave(c)
      /\ UNCHANGED <<row, mark, ops>>
  BY DEF IInv, Return, At, rows, bounds
<1>2. op[c].kind # "none"
  BY <1>1, KindAt DEF Client, Common, Archiving, Restoring, Archives, Restores
<1>3. last = None
  BY <1>2 DEF KInv, LastArchive
<1>4. CASE last' = None
  BY <1>1, <1>2, <1>3, <1>4, QuitKeepsTrips
<1>5. CASE last' # None
  <2>1. Solo(c) /\ op[c].before # Active
    BY <1>5 DEF Return, Solo, Archiving
  <2>2. last' = [kind |-> op[c].kind, target |-> op[c].target, before |-> op[c].before]
    BY <1>5 DEF Return
  <2>3. last'.kind = op[c].kind /\ last'.target = op[c].target
        /\ last'.before = op[c].before
    BY <2>2
  <2>4. SoFar(c) /\ (\A d \in Clients \ {c} : op[d].kind = "none") /\ op[c].id = ops
    BY <2>1 DEF KInv, Undisturbed, Solo
  <2>5. op'[c] = Idle /\ \A d \in Clients \ {c} : op'[d] = op[d]
    BY <1>1, LeaveIs
  <2>6. op'[c].kind = "none" /\ op'[c].id = 0 /\ op'[c].owed = None
    BY <2>5 DEF Idle
  <2>7. \A d \in Clients : op'[d].kind = "none"
    BY <2>4, <2>5, <2>6
  <2>8. Active' = Active
    BY <1>1 DEF Active
  <2>9. Tagged(op[c].id, op[c].before) /\ op[c].root = None /\ Went(c) # {}
        /\ \A k \in Kids \cap Went(c) : row[k] = op[c].id
    BY <1>1, <2>1, <2>4 DEF SoFar, Way, Closing, Went, Tagged
  <2>10. Tagged(ops, last.before)'
    BY <1>1, <2>3, <2>4, <2>8, <2>9 DEF Tagged
  <2>11. ~Handles(c) /\ ~At(c, "row")
    BY <1>1 DEF Handles, At, Writes, PutsAside
  <2>12. ASSUME op[c].kind = "archive"
         PROVE  /\ op[c].target \in Went(c)
                /\ Went(c) \subseteq {op[c].target} \cup ChildrenOf(op[c].target)
    <3>1. OfService(c)
      BY <2>4, <2>12 DEF SoFar
    <3>2. op[c].target \in Services
      BY <1>1, <2>12 DEF Client, Paths
    <3>3. op[c].target \notin Active
      BY <1>1, <2>9, <2>11, <3>1, <3>2, Names DEF OfService
    <3> QED  BY <3>1, <3>3 DEF OfService, Went
  <2>13. ASSUME op[c].kind = "archiveGroup"
         PROVE  /\ row[Primary] = op[c].id
                /\ \A k \in Kids \cap Went(c) :
                     \E d \in Deployables \cap Went(c) : k \in ChildrenOf(d)
    <3>1. OfGroup(c)
      BY <2>4, <2>13 DEF SoFar
    <3>2. \A d \in Deployables : Brings(c, d) => d \in Went(c)
      BY <2>9, <2>11, Names DEF Brings
    <3> QED  BY <1>1, <2>9, <3>1, <3>2 DEF OfGroup, At
  <2>14. op[c].kind \in {"archive", "archiveGroup"}
    BY <2>1 DEF Solo, Archiving, Archives
  <2>15. Covers(last.kind, last.target, ops, last.before)'
    BY <1>1, <2>3, <2>4, <2>8, <2>9, <2>12, <2>13, <2>14 DEF Covers, Went
  <2>16. LastArchive'
    BY <2>7, <2>10, <2>15 DEF LastArchive
  <2>17. \A d \in Clients : op'[d].owed = None /\ ~Solo(d)'
    <3>1. \A d \in Clients \ {c} : op[d].owed = None
      BY <2>4 DEF KInv, Returning, Restoring, Restores
    <3> QED  BY <2>5, <2>6, <2>7, <3>1 DEF Solo, Archiving, Archives
  <2>18. Fresh'
    <3>1. ops \in Nat
      BY <1>1 DEF TypeOK, Times, ArchiveAssumption
    <3> QED  BY <1>1, <2>5, <2>6, <3>1 DEF KInv, Fresh
  <2> QED  BY <2>16, <2>17, <2>18 DEF KInv, Undisturbed, Returning
<1> QED  BY <1>4, <1>5

-----------------------------------------------------------------------------
(* Deploys, restarts and every step of an operation.                       *)
LEMMA SameKeepsTrips ==
  ASSUME KInv, UNCHANGED <<row, mark, op, ops, last>>
  PROVE  KInv'
<1>1. Active' = Active
  BY DEF Active
<1>2. Fresh'
  BY DEF KInv, Fresh
<1>3. LastArchive'
  BY <1>1 DEF KInv, LastArchive, Tagged, Covers
<1>4. ASSUME NEW c \in Clients PROVE Undisturbed(c)'
  <2>1. Solo(c)' => Solo(c)
    BY DEF Solo, Archiving
  <2>2. Went(c)' = Went(c) /\ (Handles(c)' <=> Handles(c)) /\ Cur(c)' = Cur(c)
    BY <1>1 DEF Went, Handles, At, Cur
  <2>3. Way(c) => Way(c)'
    BY <1>1, <2>2 DEF Way, Closing, At, Cur
  <2>4. OfService(c) => OfService(c)'
    BY <1>1, <2>2 DEF OfService
  <2>5. OfGroup(c) => OfGroup(c)'
    BY <2>2 DEF OfGroup, Brings, At
  <2>6. Tagged(op[c].id, op[c].before) => Tagged(op[c].id, op[c].before)'
    BY <1>1 DEF Tagged
  <2>7. SoFar(c) => SoFar(c)'
    BY <2>2, <2>3, <2>4, <2>5, <2>6 DEF SoFar
  <2> QED  BY <2>1, <2>7 DEF KInv, Undisturbed
<1>5. ASSUME NEW c \in Clients PROVE Returning(c)'
  <2>1. /\ Owes(c)' = Owes(c) /\ Lot(c)' = Lot(c) /\ Cur(c)' = Cur(c)
        /\ (InHand(c)' <=> InHand(c)) /\ (Taking(c)' <=> Taking(c))
    BY <1>1 DEF Owes, Lot, InHand, Taking, Cur, At
  <2>2. Lists(c) => Lists(c)'
    BY <1>1, <2>1 DEF Lists, At
  <2>3. Listed(c) => Listed(c)'
    BY <2>1 DEF Listed, At
  <2>4. Tagged(Lot(c), op[c].owed) => Tagged(Lot(c), op[c].owed)'
    BY <1>1, <2>1 DEF Tagged
  <2>5. Covers(op[c].kind, op[c].target, Lot(c), op[c].owed)
        => Covers(op[c].kind, op[c].target, Lot(c), op[c].owed)'
    BY <1>1, <2>1 DEF Covers
  <2>6. ToCome(c) => ToCome(c)'
    BY <2>1, <2>2, <2>3, <2>4, <2>5 DEF ToCome, At
  <2> QED  BY <2>6 DEF KInv, Returning, Restoring
<1> QED  BY <1>2, <1>3, <1>4, <1>5 DEF KInv

LEMMA NobodyTrips ==
  ASSUME NEW c \in Clients, op[c] = Idle
  PROVE  op[c].id = 0 /\ op[c].kind = "none" /\ Undisturbed(c) /\ Returning(c)
<1>1. op[c].kind = "none" /\ op[c].id = 0 /\ op[c].owed = None
  BY DEF Idle
<1>2. ~Solo(c)
  BY <1>1 DEF Solo, Archiving, Archives
<1> QED  BY <1>1, <1>2 DEF Undisturbed, Returning

LEMMA CrashKeepsTrips ==
  ASSUME ArchiveAssumption, IInv, KInv, Crash
  PROVE  KInv'
<1>1. UNCHANGED <<row, mark, ops, last>> /\ \A c \in Clients : op'[c] = Idle
  BY DEF Crash, rows, history
<1>2. ops \in Nat
  BY DEF IInv, TypeOK, Times, ArchiveAssumption
<1>3. \A c \in Clients : op'[c].id = 0 /\ op'[c].kind = "none" /\ op'[c].owed = None
  BY <1>1 DEF Idle
<1>4. \E c \in Clients : op[c].kind # "none"
  BY KindAt DEF Crash, Quiet, IInv, Client
<1>5. last = None
  BY <1>4 DEF KInv, LastArchive
<1>6. Fresh' /\ LastArchive'
  BY <1>1, <1>2, <1>3, <1>5 DEF KInv, Fresh, LastArchive
<1>7. \A c \in Clients : ~Solo(c)'
  BY <1>3 DEF Solo, Archiving, Archives
<1> QED  BY <1>3, <1>6, <1>7 DEF KInv, Undisturbed, Returning

LEMMA InitTrips == ArchiveAssumption /\ Init => KInv
<1> SUFFICES ASSUME ArchiveAssumption, Init PROVE KInv
  OBVIOUS
<1>1. \A c \in Clients : op[c] = Idle
  BY DEF Init
<1>2. \A c \in Clients : op[c].id = 0 /\ Undisturbed(c) /\ Returning(c)
  BY <1>1, NobodyTrips
<1>3. ops = 0 /\ last = None /\ \A x \in Services : row[x] = 0 /\ mark[x] = 0
  BY DEF Init
<1> QED  BY <1>2, <1>3 DEF KInv, Fresh, LastArchive

LEMMA ProceedKeepsTrips ==
  ASSUME ArchiveAssumption, IInv, KInv, NEW c \in Clients, Proceed(c)
  PROVE  KInv'
<1>0. Frame(c)
  BY ProceedGoes DEF Goes
<1>1. AcquireLocks(c) \/ ListServices(c) \/ NextService(c) \/ End(c) => KInv'
  BY <1>0, AcquireLocksKeepsTrips, ListServicesKeepsTrips, NextServiceKeepsTrips,
     EndKeepsTrips
<1>2. WriteGroup(c) \/ Return(c) => KInv'
  BY <1>0, MarkKeepsTrips, UnmarkKeepsTrips, ReturnKeepsTrips
<1>3. VisitArchive(c) \/ ArchiveRow(c) \/ ReadSiblings(c) \/ UnsetGroup(c)
      \/ RemoveContainer(c) => KInv'
  BY <1>0, VisitArchiveKeepsTrips, ArchiveRowKeepsTrips, ReadSiblingsKeepsTrips,
     UnsetGroupKeepsTrips, RemoveContainerKeepsTrips
<1>4. StopResource(c) \/ DisconnectResource(c) \/ RenameResource(c)
      \/ SaveResource(c) \/ UndoArchive(c) => KInv'
  BY <1>0, PutAsideKeepsTrips, SaveResourceKeepsTrips
<1>5. VisitRestore(c) \/ ResumeName(c) \/ ResumeNetwork(c) \/ ResumeStart(c)
      \/ ReleaseResource(c) => KInv'
  BY <1>0, VisitRestoreKeepsTrips, TakeBackKeepsTrips
<1>6. ClearRow(c) \/ ClearMark(c) \/ RecordResource(c) \/ AllocatePort(c) => KInv'
  BY <1>0, ClearRowKeepsTrips, ClearMarkKeepsTrips, RecordResourceKeepsTrips,
     AllocatePortKeepsTrips
<1> QED  BY <1>1, <1>2, <1>3, <1>4, <1>5, <1>6 DEF Proceed

LEMMA NextKeepsTrips ==
  ASSUME ~Overlap, ArchiveAssumption, IInv, KInv, [Next]_vars
  PROVE  KInv'
<1>1. ASSUME NEW c \in Clients, RequestGroup(c) PROVE KInv'
  <2>1. PICK kind \in {"archiveGroup", "unarchiveGroup"} : Begin(c, kind, Primary)
    BY <1>1 DEF RequestGroup
  <2>2. kind \in Archives \cup Restores /\ Primary \in Services
    BY Names DEF Archives, Restores
  <2> QED  BY <2>1, <2>2, BeginGoes, BeginKeepsTrips DEF Goes
<1>2. ASSUME NEW c \in Clients, NEW x \in Services, RequestService(c, x) PROVE KInv'
  <2>1. PICK kind \in {"archive", "unarchive"} : Begin(c, kind, x)
    BY <1>2 DEF RequestService
  <2>2. kind \in Archives \cup Restores
    BY DEF Archives, Restores
  <2> QED  BY <2>1, <2>2, BeginGoes, BeginKeepsTrips DEF Goes
<1>3. ASSUME NEW c \in Clients, Proceed(c) PROVE KInv'
  BY <1>3, ProceedKeepsTrips
<1>4. ASSUME NEW x \in Leaves, Deploy(x) PROVE KInv'
  BY <1>4, SameKeepsTrips DEF Deploy, bounds, history
<1>5. CASE Crash
  BY <1>5, CrashKeepsTrips
<1>6. CASE UNCHANGED vars
  BY <1>6, SameKeepsTrips DEF vars, rows, bounds, history
<1> QED  BY <1>1, <1>2, <1>3, <1>4, <1>5, <1>6 DEF Next

(* Archive and restore are inverse: unarchive right after archive, and     *)
(* unarchiveGroup right after archiveGroup, leave active exactly what was  *)
(* active before, whatever earlier operations had archived.  An archive    *)
(* that nobody overlapped has put its own number on what it archived and   *)
(* on nothing else, where the restore of the same target looks for it; and *)
(* a restore has what it still owes on its lists, so that they are empty   *)
(* only when it owes nothing.                                              *)
THEOREM RestoreUndoesArchive ==
  ASSUME ~Overlap
  PROVE  Spec => []RoundTrip
<1>1. Init => IInv /\ KInv
  BY ArchiveAssumption, InitIInv, InitTrips
<1>2. IInv /\ KInv /\ [Next]_vars => (IInv /\ KInv)'
  BY ArchiveAssumption, NextKeeps, NextKeepsTrips
<1>3. IInv /\ KInv => RoundTrip
  <2> SUFFICES ASSUME IInv, KInv, NEW c \in Clients, At(c, "return"), op[c].owed # None
               PROVE  Active = op[c].owed
    BY DEF RoundTrip
  <2>1. ToCome(c) /\ op[c].pc = "return"
    BY DEF KInv, Returning, At
  <2>2. Lists(c) /\ Listed(c) /\ Active \subseteq op[c].owed
    BY <2>1 DEF ToCome, At, Tagged
  <2>3. op[c].todo = {} /\ op[c].kids = {} /\ op[c].root = None /\ ~InHand(c)
    BY <2>1, <2>2 DEF Lists, InHand, TakesBack, Resumes
  <2>4. op[c].owed \subseteq Services
    BY DEF IInv, TypeOK, Operations
  <2>5. \A d \in Deployables : d # None
    BY ArchiveAssumption DEF ArchiveAssumption, Services
  <2>6. Deployables \cap Owes(c) = {} /\ Kids \cap Owes(c) = {}
    BY <2>1, <2>2, <2>3, <2>5 DEF Listed, At
  <2>7. Owes(c) = {}
    BY <2>4, <2>6 DEF Owes, Services
  <2> QED  BY <2>2, <2>7 DEF Owes
<1> QED  BY <1>1, <1>2, <1>3, PTL DEF Spec
=============================================================================
