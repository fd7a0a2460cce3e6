---------------------------- MODULE ComposeProofs ----------------------------
(***************************************************************************)
(* Any stack, any dependency order and any number of deploys, stops,       *)
(* failing undo steps and crashes: the types, what an approved swap sets   *)
(* aside, the order of a rollback, what a deploy spares and what a         *)
(* success means.                                                          *)
(*                                                                         *)
(* The invariant IInv has a part for each thing the code relies on.  Each  *)
(* part but Layers is about one service at a time, so that a step of one   *)
(* service (OfService) leaves it alone for the others (Others).  The Dock  *)
(* lemmas say what each step does to the containers of a service, and the  *)
(* later proofs cite them instead of Docker's operators.                   *)
(***************************************************************************)
EXTENDS Compose, TLAPS

Docks == [box : [Gens -> {"none", "up", "down"}], named : Gens \cup {None}]
Requests == [active : SUBSET Services, replace : SUBSET Services, prereq : SUBSET Services,
             hooks : SUBSET Services, approved : SUBSET Services]
RowStatuses == {"absent", "building", "running", "stopped", "error"}
RowTypes ==
  /\ row \in [Services -> [st : RowStatuses, cid : Gens \cup {None}]]
  /\ before \in [Services -> [st : RowStatuses, cid : Gens \cup {None}]]
  /\ parent \in {"none", "building", "running", "stopped", "error"}
  /\ parent = "none" => phase = "idle" /\ \A s \in Services : row[s].st = "absent"
DockTypes == dock \in [Services -> Docks]
StepTypes ==
  /\ gen \in Gens /\ phase \in Phases
  /\ pc \in [Services -> {"wait", "reuse", "build", "take", "run", "record", "health", "undo", "end"}]
  /\ res \in [Services -> {"none", "deployed", "failed", "rolled_back", "rollback_failed"}]
  /\ notes \in [Services -> SUBSET Notes]
  /\ outcome \in {"none", "success", "failed", "threw"}
  /\ faults \in 0..MaxFaults /\ torn \subseteq Services
  /\ req \in Requests /\ served \subseteq Services
Types == RowTypes /\ DockTypes /\ StepTypes

(* What planComposeDeploymentSets promises of its sets.                    *)
Sets ==
  /\ req.replace \cap req.prereq = {} /\ req.hooks \cap req.prereq = {}
  /\ req.hooks \subseteq Jobs(req.active) /\ Included \subseteq req.active
  /\ req.approved \subseteq req.replace
  /\ \A s \in req.approved : before[s].cid # None

(* Containers are numbered by operation: rows name past ones, and the one  *)
(* of this operation exists under the name or not at all.                  *)
RowNumber(s) ==
  /\ row[s].cid # None => row[s].cid <= gen
  /\ before[s].cid # None => before[s].cid < gen
RowNumbers == \A s \in Services : RowNumber(s)
DockNumber(s) ==
  /\ \A k \in Gens : k > gen => dock[s].box[k] = "none"
  /\ dock[s].named # None => dock[s].box[dock[s].named] # "none"
  /\ dock[s].box[gen] = "none" \/ dock[s].named = gen \/ gen = 0
DockNumbers == \A s \in Services : DockNumber(s)
Numbers == RowNumbers /\ DockNumbers

(* What the deploy has noted of a service, by the step of the service.     *)
Starting == phase \in {"idle", "orphans", "images", "clean"}
Ordered == phase \in {"group", "rollback", "reconcile"}
Noted(s) ==
  /\ Starting => pc[s] = "wait"
  /\ phase \in {"rollback", "reconcile"} => pc[s] \in {"wait", "end"}
  /\ phase # "idle" => gen # 0
  /\ phase = "group" /\ Has(s, "restored") => pc[s] = "end"
  /\ pc[s] # "wait" => s \in Included
  /\ pc[s] = "reuse" => Reuses(s)
  /\ pc[s] \in {"wait", "reuse", "build", "take"} => notes[s] = {}
  /\ pc[s] \in {"run", "record", "undo"} => notes[s] \subseteq {"swap", "restored"}
  /\ pc[s] # "end" <=> res[s] = "none"
  /\ Has(s, "reused") => Reuses(s) /\ notes[s] \cap {"created", "swap", "restored"} = {}
  /\ Has(s, "swap") => s \in req.approved /\ s \notin req.prereq /\ ~Has(s, "restored")
  /\ res[s] = "deployed" \/ Has(s, "deployment") => Has(s, "created") \/ Has(s, "reused")
  /\ Has(s, "completed") \/ Has(s, "jobFailure") => Role(s) = "job"
  /\ pc[s] = "health" => /\ Has(s, "deployment") /\ (Has(s, "created") \/ Has(s, "reused"))
                         /\ notes[s] \cap {"completed", "jobFailure"} = {}
Progress == \A s \in Services : Noted(s)

(* A container that was set aside is not the one that has the name, unless *)
(* putting it back failed when it had been renamed.                        *)
AsideKept(s) ==
  Has(s, "swap") =>
    /\ dock[s].box[Old(s)] # "none"
    /\ dock[s].named = Old(s) => /\ pc[s] = "end"
                                 /\ Has(s, "created") => phase \in {"rollback", "reconcile", "done"}
Aside == \A s \in Services : AsideKept(s)

(* The groups run in the order of the dependencies; what became healthy    *)
(* is there until it is rolled back, and that in reverse.                  *)
Healthy(s) ==
  /\ dock[s].box[Current(s)] # "none"
  /\ Role(s) = "service" => dock[s].box[Current(s)] = "up"
  /\ Has(s, "deployment") /\ ~Has(s, "restored") /\ ~Has(s, "jobFailure")
  /\ ~Has(s, "reused") => Has(s, "created") /\ dock[s].named = gen
  /\ Role(s) = "job" => Has(s, "completed")
UpIfDeployed(s) == Ordered /\ res[s] = "deployed" => Healthy(s)
Deployed == \A s \in Services : UpIfDeployed(s)
Layers ==
  /\ phase = "group" => \A s \in Services :
       /\ res[s] \in {"none", "deployed", "failed"}
       /\ pc[s] # "wait" => \A d \in Depends(s) : res[d] = "deployed"
  /\ phase = "rollback" => Failed # {} /\ \A s \in Executed : Depends(s) \subseteq Executed
  /\ phase = "reconcile" /\ Failed = {} => \A s \in Included : res[s] = "deployed"

(* The row of a service that the deploy has not recorded, and of one that  *)
(* it only relies on.                                                      *)
RowKept(s) ==
  /\ phase # "idle" /\ s \in Included /\ ~Has(s, "created") => row[s].cid = Old(s)
  /\ Has(s, "reused") => row[s].st = "running"
Rows == \A s \in Services : RowKept(s)

(* What was serving and is spared by the deploy.                           *)
Keeps(s) ==
  /\ Old(s) # None /\ row[s].cid = Old(s)
  /\ dock[s].named = Old(s) /\ dock[s].box[Old(s)] = "up"
  /\ s \notin req.replace => row[s].st = "running"
  /\ phase = "done" /\ outcome # "threw" => row[s].st = "running"
  /\ s \in req.prereq => pc[s] \in {"wait", "reuse", "health", "end"}
  /\ notes[s] \subseteq {"deployment", "reused"}
Sparing(s) == phase # "idle" /\ s \in served /\ Spared(s) => Keeps(s)
Spares == \A s \in Services : Sparing(s)

(* The container of the row has the name, if it exists: but for a swap     *)
(* under way and one that was abandoned.                                   *)
Whole(s) ==
  row[s].cid = None \/ dock[s].box[row[s].cid] = "none" \/ dock[s].named = row[s].cid
Accounted(s) ==
  /\ s \in torn \/ Whole(s) \/ (Has(s, "swap") /\ pc[s] \in {"run", "record", "undo"})
  /\ Has(s, "restored") => Old(s) # None /\ (dock[s].box[Old(s)] = "none" \/ dock[s].named = Old(s))
Recorded == \A s \in Services : Accounted(s)

(* What a deploy that reported success left.                               *)
Reports ==
  phase = "done" /\ outcome = "success" =>
    /\ StackServes
    /\ \A s \in Services : pc[s] \in {"wait", "end"}

IInv == /\ Types /\ Sets /\ Numbers /\ Progress /\ Aside
        /\ Deployed /\ Layers /\ Rows /\ Spares /\ Recorded /\ Reports

(* The states of a container that exists.                                  *)
States == {"up", "down"}

(* What Docker's operations do to the containers of a service.             *)
LEMMA RemovedOp ==
  ASSUME NEW d \in Docks, NEW k \in Gens
  PROVE  /\ Removed(d, k) \in Docks
         /\ Removed(d, k).named = IF d.named = k THEN None ELSE d.named
         /\ \A j \in Gens : Removed(d, k).box[j] = IF j = k THEN "none" ELSE d.box[j]
BY DEF Docks, Removed

LEMMA SetAsideOp ==
  ASSUME NEW d \in Docks, NEW k \in Gens
  PROVE  /\ SetAside(d, k) \in Docks
         /\ SetAside(d, k).named = IF d.named = k THEN None ELSE d.named
         /\ \A j \in Gens : SetAside(d, k).box[j] = IF j = k THEN "down" ELSE d.box[j]
BY DEF Docks, SetAside

LEMMA TurnedOp ==
  ASSUME NEW d \in Docks, NEW k \in Gens, NEW st \in States
  PROVE  /\ Turned(d, k, st) \in Docks /\ Turned(d, k, st).named = d.named
         /\ \A j \in Gens : Turned(d, k, st).box[j] = IF j = k THEN st ELSE d.box[j]
BY DEF Docks, Turned, States

LEMMA CreatedOp ==
  ASSUME NEW d \in Docks, NEW k \in Gens, NEW st \in States
  PROVE  /\ Created(d, k, st) \in Docks /\ Created(d, k, st).named = k
         /\ \A j \in Gens : Created(d, k, st).box[j] = IF j = k THEN st ELSE d.box[j]
BY DEF Docks, Created, States

LEMMA RenamedOp ==
  ASSUME NEW d \in Docks, NEW n \in Gens \cup {None}
  PROVE  /\ Renamed(d, n) \in Docks /\ Renamed(d, n).named = n
         /\ \A j \in Gens : Renamed(d, n).box[j] = d.box[j]
BY DEF Docks, Renamed

(* The same for the operations on whatever has the name.                   *)
LEMMA CleanedOp ==
  ASSUME NEW d \in Docks
  PROVE  /\ Cleaned(d) \in Docks /\ Cleaned(d).named = None
         /\ \A j \in Gens : Cleaned(d).box[j] = IF j = d.named THEN "none" ELSE d.box[j]
<1>1. None \notin Gens /\ d.named \in Gens \cup {None}
  BY ComposeAssumption DEF Gens, Docks
<1>2. CASE d.named = None
  BY <1>1, <1>2 DEF Cleaned, Docks
<1>3. CASE d.named \in Gens
  <2>1. PICK k \in Gens : d.named = k
    BY <1>3
  <2>2. k # None /\ Cleaned(d) = Removed(d, k)
    BY <1>1, <2>1 DEF Cleaned
  <2> QED BY <2>1, <2>2, RemovedOp
<1> QED BY <1>1, <1>2, <1>3

LEMMA RoomForOp ==
  ASSUME NEW d \in Docks, NEW old \in Gens
  PROVE  /\ RoomFor(d, old) \in Docks
         /\ RoomFor(d, old).named = IF d.named = old THEN old ELSE None
         /\ \A j \in Gens : RoomFor(d, old).box[j] =
                              IF j = d.named /\ j # old THEN "none" ELSE d.box[j]
BY CleanedOp DEF RoomFor

LEMMA PutBackOp ==
  ASSUME NEW d \in Docks, NEW old \in Gens
  PROVE  /\ PutBack(d, old) \in Docks /\ PutBack(d, old).named = old
         /\ \A j \in Gens : PutBack(d, old).box[j] =
                              IF j = old THEN "up" ELSE IF j = d.named THEN "none" ELSE d.box[j]
<1> DEFINE e == RoomFor(d, old)
<1>1. /\ e \in Docks /\ "up" \in States
      /\ \A j \in Gens : e.box[j] = IF j = d.named /\ j # old THEN "none" ELSE d.box[j]
  BY RoomForOp DEF States
<1>2. PutBack(d, old) = Created(e, old, "up")
  BY DEF PutBack
<1> HIDE DEF e
<1>3. /\ Created(e, old, "up") \in Docks /\ Created(e, old, "up").named = old
      /\ \A j \in Gens : Created(e, old, "up").box[j] = IF j = old THEN "up" ELSE e.box[j]
  BY <1>1, CreatedOp
<1> QED BY <1>1, <1>2, <1>3

(* What planComposeDeploymentSets returns for what a deploy may ask.       *)
LEMMA SetsOf ==
  ASSUME NEW active \in SUBSET Services, NEW selected \in SUBSET active,
         NEW changed \in SUBSET Services, NEW approved \in SUBSET (Resources \cap active),
         NEW existing \in SUBSET Services
  PROVE  LET r == DeploymentSets(active, selected, changed, approved, existing)
         IN  /\ r \in Requests
             /\ r.active = active /\ r.approved = approved
             /\ r.replace \cap r.prereq = {} /\ r.hooks \cap r.prereq = {}
             /\ r.hooks \subseteq Jobs(active)
             /\ r.replace \cup r.prereq \cup r.hooks \subseteq active
             /\ approved \subseteq r.replace
<1> DEFINE r == DeploymentSets(active, selected, changed, approved, existing)
<1>1. Jobs(active) \subseteq active /\ Applications(active) \subseteq active
  BY DEF Jobs, Applications
<1>2. r.active = active /\ r.approved = approved /\ approved \subseteq r.replace
  BY DEF DeploymentSets
<1>3. r.replace \subseteq active
  BY <1>1 DEF DeploymentSets
<1>4. r.hooks \subseteq active /\ r.hooks \subseteq Jobs(active)
  BY <1>1, <1>3 DEF DeploymentSets, Jobs
<1>5. r.prereq \subseteq active /\ r.prereq \cap r.replace = {} /\ r.prereq \cap r.hooks = {}
  BY DEF DeploymentSets
<1>6. r = [active |-> r.active, replace |-> r.replace, prereq |-> r.prereq,
           hooks |-> r.hooks, approved |-> r.approved]
  BY DEF DeploymentSets
<1> HIDE DEF r
<1>7. r \in Requests
  BY <1>2, <1>3, <1>4, <1>5, <1>6 DEF Requests
<1> QED BY <1>2, <1>3, <1>4, <1>5, <1>7 DEF r

(* Container k of s is put in state st and the name goes to n; or the old  *)
(* container of s comes back and those of K are gone.                      *)
Put(s, n, k, st) ==
  /\ \A t \in Services : t # s => dock'[t] = dock[t]
  /\ dock'[s].named = n
  /\ \A j \in Gens : dock'[s].box[j] = IF j = k THEN st ELSE dock[s].box[j]
Back(s, K) ==
  /\ \A t \in Services : t # s => dock'[t] = dock[t]
  /\ dock'[s].named = Old(s)
  /\ \A j \in Gens : dock'[s].box[j] = IF j = Old(s) THEN "up"
                                       ELSE IF j \in K THEN "none" ELSE dock[s].box[j]

LEMMA Updated ==
  ASSUME DockTypes, NEW s \in Services, NEW e \in Docks, dock' = [dock EXCEPT ![s] = e]
  PROVE  DockTypes' /\ dock'[s] = e /\ \A t \in Services : t # s => dock'[t] = dock[t]
BY DEF DockTypes

LEMMA DoTurned ==
  ASSUME DockTypes, NEW s \in Services, NEW k \in Gens, NEW st \in States,
         dock' = [dock EXCEPT ![s] = Turned(@, k, st)]
  PROVE  DockTypes' /\ Put(s, dock[s].named, k, st)
<1>1. dock[s] \in Docks
  BY DEF DockTypes
<1>2. /\ Turned(dock[s], k, st) \in Docks /\ Turned(dock[s], k, st).named = dock[s].named
      /\ \A j \in Gens : Turned(dock[s], k, st).box[j] = IF j = k THEN st ELSE dock[s].box[j]
  BY <1>1, TurnedOp
<1>3. /\ DockTypes' /\ dock'[s] = Turned(dock[s], k, st)
      /\ \A t \in Services : t # s => dock'[t] = dock[t]
  BY <1>2, Updated
<1> QED BY <1>2, <1>3 DEF Put

LEMMA DoCreated ==
  ASSUME DockTypes, NEW s \in Services, NEW k \in Gens, NEW st \in States,
         dock' = [dock EXCEPT ![s] = Created(@, k, st)]
  PROVE  DockTypes' /\ Put(s, k, k, st)
<1>1. dock[s] \in Docks
  BY DEF DockTypes
<1>2. /\ Created(dock[s], k, st) \in Docks /\ Created(dock[s], k, st).named = k
      /\ \A j \in Gens : Created(dock[s], k, st).box[j] = IF j = k THEN st ELSE dock[s].box[j]
  BY <1>1, CreatedOp
<1>3. /\ DockTypes' /\ dock'[s] = Created(dock[s], k, st)
      /\ \A t \in Services : t # s => dock'[t] = dock[t]
  BY <1>2, Updated
<1> QED BY <1>2, <1>3 DEF Put

LEMMA DoSetAside ==
  ASSUME DockTypes, NEW s \in Services, NEW k \in Gens,
         dock' = [dock EXCEPT ![s] = SetAside(@, k)]
  PROVE  DockTypes' /\ Put(s, IF dock[s].named = k THEN None ELSE dock[s].named, k, "down")
<1>1. dock[s] \in Docks
  BY DEF DockTypes
<1>2. SetAside(dock[s], k) \in Docks
  BY <1>1, SetAsideOp
<1>3. /\ DockTypes' /\ dock'[s] = SetAside(dock[s], k)
      /\ \A t \in Services : t # s => dock'[t] = dock[t]
  BY <1>2, Updated
<1> QED BY <1>1, <1>3, SetAsideOp DEF Put

LEMMA DoRemoved ==
  ASSUME DockTypes, NEW s \in Services, NEW k \in Gens,
         dock' = [dock EXCEPT ![s] = Removed(@, k)]
  PROVE  DockTypes' /\ Put(s, IF dock[s].named = k THEN None ELSE dock[s].named, k, "none")
<1>1. dock[s] \in Docks
  BY DEF DockTypes
<1>2. Removed(dock[s], k) \in Docks
  BY <1>1, RemovedOp
<1>3. /\ DockTypes' /\ dock'[s] = Removed(dock[s], k)
      /\ \A t \in Services : t # s => dock'[t] = dock[t]
  BY <1>2, Updated
<1> QED BY <1>1, <1>3, RemovedOp DEF Put

LEMMA DoCleaned ==
  ASSUME DockTypes, NEW s \in Services, dock' = [dock EXCEPT ![s] = Cleaned(@)]
  PROVE  DockTypes' /\ Put(s, None, dock[s].named, "none")
<1>1. dock[s] \in Docks
  BY DEF DockTypes
<1>2. Cleaned(dock[s]) \in Docks
  BY <1>1, CleanedOp
<1>3. /\ DockTypes' /\ dock'[s] = Cleaned(dock[s])
      /\ \A t \in Services : t # s => dock'[t] = dock[t]
  BY <1>2, Updated
<1> QED BY <1>1, <1>3, CleanedOp DEF Put

LEMMA DoRoomFor ==
  ASSUME DockTypes, NEW s \in Services, NEW old \in Gens,
         dock' = [dock EXCEPT ![s] = RoomFor(@, old)]
  PROVE  DockTypes' /\ IF dock[s].named = old THEN dock' = dock
                       ELSE Put(s, None, dock[s].named, "none")
<1>1. CASE dock[s].named = old
  <2>1. RoomFor(dock[s], old) = dock[s]
    BY <1>1 DEF RoomFor
  <2> QED BY <1>1, <2>1 DEF DockTypes
<1>2. CASE dock[s].named # old
  <2>1. RoomFor(dock[s], old) = Cleaned(dock[s])
    BY <1>2 DEF RoomFor
  <2> QED BY <1>2, <2>1, DoCleaned
<1> QED BY <1>1, <1>2

LEMMA DoRenamed ==
  ASSUME DockTypes, NEW s \in Services, NEW n \in Gens \cup {None}, NEW k \in Gens
  PROVE  /\ dock' = [dock EXCEPT ![s] = Renamed(Cleaned(@), n)]
              => DockTypes' /\ Put(s, n, dock[s].named, "none")
         /\ dock' = [dock EXCEPT ![s] = Renamed(Removed(@, k), n)]
              => DockTypes' /\ Put(s, n, k, "none")
<1>1. dock[s] \in Docks
  BY DEF DockTypes
<1>2. ASSUME dock' = [dock EXCEPT ![s] = Renamed(Cleaned(@), n)]
      PROVE  DockTypes' /\ Put(s, n, dock[s].named, "none")
  <2> DEFINE e == Cleaned(dock[s])
  <2>1. /\ e \in Docks
        /\ \A j \in Gens : e.box[j] = IF j = dock[s].named THEN "none" ELSE dock[s].box[j]
    BY <1>1, CleanedOp
  <2>2. dock' = [dock EXCEPT ![s] = Renamed(e, n)]
    BY <1>2
  <2> HIDE DEF e
  <2>3. /\ Renamed(e, n) \in Docks /\ Renamed(e, n).named = n
        /\ \A j \in Gens : Renamed(e, n).box[j] = e.box[j]
    BY <2>1, RenamedOp
  <2>4. /\ DockTypes' /\ dock'[s] = Renamed(e, n)
        /\ \A t \in Services : t # s => dock'[t] = dock[t]
    BY <2>2, <2>3, Updated
  <2> QED BY <2>1, <2>3, <2>4 DEF Put
<1>3. ASSUME dock' = [dock EXCEPT ![s] = Renamed(Removed(@, k), n)]
      PROVE  DockTypes' /\ Put(s, n, k, "none")
  <2> DEFINE e == Removed(dock[s], k)
  <2>1. /\ e \in Docks
        /\ \A j \in Gens : e.box[j] = IF j = k THEN "none" ELSE dock[s].box[j]
    BY <1>1, RemovedOp
  <2>2. dock' = [dock EXCEPT ![s] = Renamed(e, n)]
    BY <1>3
  <2> HIDE DEF e
  <2>3. /\ Renamed(e, n) \in Docks /\ Renamed(e, n).named = n
        /\ \A j \in Gens : Renamed(e, n).box[j] = e.box[j]
    BY <2>1, RenamedOp
  <2>4. /\ DockTypes' /\ dock'[s] = Renamed(e, n)
        /\ \A t \in Services : t # s => dock'[t] = dock[t]
    BY <2>2, <2>3, Updated
  <2> QED BY <2>1, <2>3, <2>4 DEF Put
<1> QED BY <1>2, <1>3

(* e is what has been done to the containers of s when the old one is put  *)
(* back.                                                                   *)
LEMMA DoPutBack ==
  ASSUME DockTypes, NEW s \in Services, Old(s) \in Gens, NEW K \in SUBSET Gens,
         NEW e \in Docks, e.named \in K \cup {None},
         \A j \in Gens : e.box[j] = IF j \in K /\ j # e.named THEN "none" ELSE dock[s].box[j],
         dock' = [dock EXCEPT ![s] = PutBack(e, Old(s))]
  PROVE  DockTypes' /\ Back(s, K)
<1>1. /\ PutBack(e, Old(s)) \in Docks /\ PutBack(e, Old(s)).named = Old(s)
      /\ \A j \in Gens : PutBack(e, Old(s)).box[j] =
                           IF j = Old(s) THEN "up" ELSE IF j = e.named THEN "none" ELSE e.box[j]
  BY PutBackOp
<1>2. /\ DockTypes' /\ dock'[s] = PutBack(e, Old(s))
      /\ \A t \in Services : t # s => dock'[t] = dock[t]
  BY <1>1, Updated
<1>3. None \notin Gens
  BY ComposeAssumption DEF Gens
<1> QED BY <1>1, <1>2, <1>3 DEF Back

(* Every admitted deploy gets such sets; an approval names a container.     *)
LEMMA BeginSets ==
  ASSUME Types,
         NEW active \in Files, NEW selected \in Selections(active),
         NEW changed \in SUBSET Applications(active),
         NEW approved \in SUBSET (Resources \cap active),
         Begin(active, selected, changed, approved)
  PROVE  req' \in Requests /\ Sets'
<1>1. active \in SUBSET Services /\ selected \in SUBSET active /\ changed \in SUBSET Services
  BY ComposeAssumption DEF Selections, Applications
<1>2. Existing \in SUBSET Services
  BY DEF Existing
<1> DEFINE r == DeploymentSets(active, selected, changed, approved, Existing)
<1>3. req' = r /\ before' = row
  BY DEF Begin
<1>4. \A s \in approved : row[s].cid # None
  BY DEF Begin, ApprovalFresh
<1>5. /\ r \in Requests
      /\ r.active = active /\ r.approved = approved
      /\ r.replace \cap r.prereq = {} /\ r.hooks \cap r.prereq = {}
      /\ r.hooks \subseteq Jobs(active)
      /\ r.replace \cup r.prereq \cup r.hooks \subseteq active
      /\ approved \subseteq r.replace
  BY <1>1, <1>2, SetsOf
<1> HIDE DEF r
<1> QED BY <1>3, <1>4, <1>5 DEF Sets, Included

(* What stopCompose writes.                                                *)
LEMMA Stops ==
  \A st \in {"building", "running", "stopped", "error"} :
    Moved(st, "stopped") \in {"building", "running", "stopped", "error"}
BY DEF Moved

(* The order of the numbers.                                               *)
LEMMA Order ==
  ASSUME Types
  PROVE  /\ gen \in Gens /\ gen \in Nat
         /\ \A k \in Gens : k \in Nat
BY ComposeAssumption DEF Types, StepTypes, Gens

(* The containers that a deploy handles have numbers.                      *)
LEMMA Known ==
  ASSUME Types, Sets, Progress
  PROVE  /\ gen \in Gens /\ None \notin Gens
         /\ \A s \in Services :
              /\ row[s].cid \in Gens \cup {None} /\ before[s].cid \in Gens \cup {None}
              /\ pc[s] = "reuse" \/ s \in req.approved \/ Has(s, "reused") \/ Has(s, "swap")
                   => Old(s) \in Gens
              /\ Current(s) \in Gens /\ dock[s].named \in Gens \cup {None}
BY ComposeAssumption
   DEF Types, DockTypes, Docks, RowTypes, StepTypes, Gens, Sets, Progress, Noted, Reuses, Has,
       Old, Current

(* What the steps of a service do to its containers.                       *)
LEMMA ReuseDock ==
  ASSUME Types, Sets, Progress, NEW s \in Services, Reuse(s)
  PROVE  DockTypes' /\ IF pc'[s] = "health"
                       THEN /\ Old(s) \in Gens /\ dock[s].box[Old(s)] # "none"
                            /\ Put(s, dock[s].named, Old(s), "up")
                       ELSE dock' = dock
<1>1. Old(s) \in Gens /\ "up" \in States /\ DockTypes /\ s \in DOMAIN pc
  BY Known DEF Reuse, States, Types, StepTypes
<1>2. CASE dock' = [dock EXCEPT ![s] = Turned(@, Old(s), "up")] /\ pc' = [pc EXCEPT ![s] = "health"]
           /\ dock[s].box[Old(s)] # "none"
  BY <1>1, <1>2, DoTurned
<1>3. CASE dock' = dock /\ pc'[s] # "health"
  BY <1>1, <1>3 DEF DockTypes
<1> QED BY <1>1, <1>2, <1>3 DEF Reuse, Goto, Return

LEMMA TakeDock ==
  ASSUME Types, Sets, Progress, NEW s \in Services, Take(s)
  PROVE  DockTypes' /\ IF s \in req.approved
                       THEN /\ Old(s) \in Gens /\ dock[s].box[Old(s)] # "none"
                            /\ Put(s, IF dock[s].named = Old(s) THEN None ELSE dock[s].named,
                                   Old(s), "down")
                       ELSE Put(s, None, dock[s].named, "none")
<1>1. DockTypes /\ (s \in req.approved => Old(s) \in Gens)
  BY Known DEF Types
<1>2. CASE s \in req.approved
  BY <1>1, <1>2, DoSetAside DEF Take
<1>3. CASE s \notin req.approved
  BY <1>1, <1>3, DoCleaned DEF Take
<1> QED BY <1>2, <1>3

LEMMA SwapFailsDock ==
  ASSUME Types, Sets, Progress, NEW s \in Services, SwapFails(s)
  PROVE  /\ DockTypes' /\ Old(s) \in Gens
         /\ \/ dock' = dock /\ torn' = torn
            \/ Put(s, dock[s].named, Old(s), "up") /\ torn' = torn /\ dock[s].box[Old(s)] # "none"
            \/ /\ torn' = torn \cup {s} /\ dock[s].box[Old(s)] # "none"
               /\ \/ Put(s, dock[s].named, Old(s), "down")
                  \/ Put(s, IF dock[s].named = Old(s) THEN None ELSE dock[s].named, Old(s), "down")
<1>1. Old(s) \in Gens /\ "up" \in States /\ "down" \in States /\ DockTypes
  BY Known DEF SwapFails, States, Types
<1>2. dock' = dock => DockTypes'
  BY <1>1 DEF DockTypes
<1>3. ASSUME dock' = [dock EXCEPT ![s] = Turned(@, Old(s), "up")]
      PROVE  DockTypes' /\ Put(s, dock[s].named, Old(s), "up")
  BY <1>1, <1>3, DoTurned
<1>4. ASSUME dock' = [dock EXCEPT ![s] = Turned(@, Old(s), "down")]
      PROVE  DockTypes' /\ Put(s, dock[s].named, Old(s), "down")
  BY <1>1, <1>4, DoTurned
<1>5. ASSUME dock' = [dock EXCEPT ![s] = SetAside(@, Old(s))]
      PROVE  DockTypes' /\ Put(s, IF dock[s].named = Old(s) THEN None ELSE dock[s].named,
                               Old(s), "down")
  BY <1>1, <1>5, DoSetAside
<1> QED BY <1>1, <1>2, <1>3, <1>4, <1>5 DEF SwapFails

LEMMA RunDock ==
  ASSUME Types, Sets, Progress, NEW s \in Services, Run(s)
  PROVE  /\ DockTypes'
         /\ IF pc'[s] = "record" THEN dock[s].named = None /\ Put(s, gen, gen, "up")
            ELSE dock' = dock \/ (dock[s].named = None /\ Put(s, gen, gen, "down"))
<1>1. gen \in Gens /\ "up" \in States /\ "down" \in States /\ DockTypes /\ s \in DOMAIN pc
  BY Known DEF States, Types, StepTypes
<1>2. CASE dock' = [dock EXCEPT ![s] = Created(@, gen, "up")] /\ pc' = [pc EXCEPT ![s] = "record"]
           /\ dock[s].named = None
  BY <1>1, <1>2, DoCreated
<1>3. CASE dock' = [dock EXCEPT ![s] = Created(@, gen, "down")] /\ pc' = [pc EXCEPT ![s] = "undo"]
           /\ dock[s].named = None
  BY <1>1, <1>3, DoCreated
<1>4. CASE dock' = dock /\ pc' = [pc EXCEPT ![s] = "undo"]
  BY <1>1, <1>4 DEF DockTypes
<1> QED BY <1>1, <1>2, <1>3, <1>4 DEF Run, Goto, New

LEMMA HealthDock ==
  ASSUME Types, Sets, Progress, NEW s \in Services, Health(s)
  PROVE  /\ DockTypes' /\ Current(s) \in Gens
         /\ \/ dock' = dock /\ (res'[s] = "deployed" => Role(s) = "service")
            \/ /\ dock[s].box[Current(s)] # "none" /\ Put(s, dock[s].named, Current(s), "down")
               /\ IF res'[s] = "deployed" THEN Role(s) = "job" ELSE ~Has(s, "reused")
<1>1. Current(s) \in Gens /\ "down" \in States /\ DockTypes /\ s \in DOMAIN res
  BY Known DEF Health, States, Types, StepTypes
<1>2. dock' = dock => DockTypes'
  BY <1>1 DEF DockTypes
<1>3. ASSUME dock' = [dock EXCEPT ![s] = Turned(@, Current(s), "down")]
      PROVE  DockTypes' /\ Put(s, dock[s].named, Current(s), "down")
  BY <1>1, <1>3, DoTurned
<1>4. \/ dock' = dock /\ (res'[s] = "deployed" => Role(s) = "service")
      \/ /\ dock[s].box[Current(s)] # "none"
         /\ dock' = [dock EXCEPT ![s] = Turned(@, Current(s), "down")]
         /\ IF res'[s] = "deployed" THEN Role(s) = "job" ELSE ~Has(s, "reused")
  BY <1>1 DEF Health, Return
<1> QED BY <1>1, <1>2, <1>3, <1>4

LEMMA UndoDock ==
  ASSUME Types, Sets, Progress, NEW s \in Services, Undo(s)
  PROVE  DockTypes' /\ IF Has(s, "swap") THEN Old(s) \in Gens /\ Back(s, {dock[s].named} \cap Gens)
                       ELSE Put(s, None, dock[s].named, "none")
<1>1. DockTypes /\ (Has(s, "swap") => Old(s) \in Gens) /\ dock[s] \in Docks /\ None \notin Gens
  BY Known DEF Types, DockTypes
<1>2. CASE Has(s, "swap")
  <2> DEFINE e == Cleaned(dock[s])
             K == {dock[s].named} \cap Gens
  <2>1. /\ e \in Docks /\ e.named = None /\ K \in SUBSET Gens
        /\ \A j \in Gens : e.box[j] = IF j = dock[s].named THEN "none" ELSE dock[s].box[j]
    BY <1>1, CleanedOp
  <2>2. dock' = [dock EXCEPT ![s] = PutBack(e, Old(s))]
    BY <1>2 DEF Undo
  <2> HIDE DEF e
  <2>3. \A j \in Gens : e.box[j] = IF j \in K /\ j # e.named THEN "none" ELSE dock[s].box[j]
    BY <1>1, <2>1
  <2>4. e.named \in K \cup {None}
    BY <2>1
  <2> HIDE DEF K
  <2>5. DockTypes' /\ Back(s, K)
    BY <1>1, <1>2, <2>1, <2>2, <2>3, <2>4, DoPutBack
  <2> QED BY <1>1, <1>2, <2>5 DEF K
<1>3. CASE ~Has(s, "swap")
  BY <1>1, <1>3, DoCleaned DEF Undo
<1> QED BY <1>2, <1>3

LEMMA UndoThrowsDock ==
  ASSUME Types, Sets, Progress, NEW s \in Services, UndoThrows(s)
  PROVE  /\ DockTypes' /\ Old(s) \in Gens
         /\ \E n \in {None, Old(s)} : Put(s, n, dock[s].named, "none")
<1>1. DockTypes /\ Old(s) \in Gens
  BY Known DEF Types, UndoThrows
<1>2. PICK n \in {None, Old(s)} : dock' = [dock EXCEPT ![s] = Renamed(Cleaned(@), n)]
  BY DEF UndoThrows
<1>3. n \in Gens \cup {None}
  BY <1>1
<1>4. DockTypes' /\ Put(s, n, dock[s].named, "none")
  BY <1>1, <1>2, <1>3, DoRenamed
<1> QED BY <1>1, <1>4

LEMMA RollbackDock ==
  ASSUME Types, Sets, Progress, NEW s \in Services, Rollback(s)
  PROVE  /\ DockTypes' /\ gen \in Gens
         /\ IF Has(s, "reused") THEN dock' = dock
            ELSE IF Has(s, "swap") THEN Old(s) \in Gens /\ Back(s, {dock[s].named, gen} \cap Gens)
            ELSE Put(s, IF dock[s].named = gen THEN None ELSE dock[s].named, gen, "none")
<1>1. /\ DockTypes /\ (Has(s, "swap") => Old(s) \in Gens) /\ gen \in Gens /\ None \notin Gens
      /\ dock[s] \in Docks /\ dock[s].named \in Gens \cup {None}
  BY Known DEF Types, DockTypes, Docks
<1>2. CASE Has(s, "reused")
  BY <1>1, <1>2 DEF Rollback, RollbackService, DockTypes
<1>3. CASE ~Has(s, "reused") /\ Has(s, "swap")
  <2> DEFINE e == Removed(dock[s], gen)
             K == {dock[s].named, gen} \cap Gens
  <2>1. /\ e \in Docks /\ K \in SUBSET Gens
        /\ e.named = IF dock[s].named = gen THEN None ELSE dock[s].named
        /\ \A j \in Gens : e.box[j] = IF j = gen THEN "none" ELSE dock[s].box[j]
    BY <1>1, RemovedOp
  <2>2. dock' = [dock EXCEPT ![s] = PutBack(e, Old(s))]
    BY <1>3 DEF Rollback, RollbackService, New
  <2> HIDE DEF e
  <2>3. \A j \in Gens : e.box[j] = IF j \in K /\ j # e.named THEN "none" ELSE dock[s].box[j]
    BY <1>1, <2>1
  <2>4. e.named \in K \cup {None}
    BY <1>1, <2>1
  <2> HIDE DEF K
  <2>5. DockTypes' /\ Back(s, K)
    BY <1>1, <1>3, <2>1, <2>2, <2>3, <2>4, DoPutBack
  <2> QED BY <1>1, <1>3, <2>5 DEF K
<1>4. CASE ~Has(s, "reused") /\ ~Has(s, "swap")
  BY <1>1, <1>4, DoRemoved DEF Rollback, RollbackService, New
<1> QED BY <1>2, <1>3, <1>4

LEMMA RollbackThrowsDock ==
  ASSUME Types, Sets, Progress, NEW s \in Services, RollbackThrows(s)
  PROVE  /\ DockTypes' /\ gen \in Gens
         /\ \/ dock' = dock /\ torn' = torn
            \/ /\ Has(s, "swap") /\ Old(s) \in Gens /\ torn' = torn \cup {s}
               /\ \E n \in {None, Old(s)} : Put(s, n, gen, "none")
<1>1. DockTypes /\ (Has(s, "swap") => Old(s) \in Gens) /\ gen \in Gens
  BY Known DEF Types
<1>2. CASE dock' = dock /\ torn' = torn
  BY <1>1, <1>2 DEF DockTypes
<1>3. CASE /\ Has(s, "swap") /\ torn' = torn \cup {s}
           /\ \E n \in {None, Old(s)} : dock' = [dock EXCEPT ![s] = Renamed(Removed(@, gen), n)]
  <2>1. PICK n \in {None, Old(s)} : dock' = [dock EXCEPT ![s] = Renamed(Removed(@, gen), n)]
    BY <1>3
  <2>2. n \in Gens \cup {None}
    BY <1>1, <1>3
  <2>3. DockTypes' /\ Put(s, n, gen, "none")
    BY <1>1, <2>1, <2>2, DoRenamed
  <2> QED BY <1>1, <1>3, <2>3
<1> QED BY <1>2, <1>3 DEF RollbackThrows, New

LEMMA CatchRestoreDock ==
  ASSUME Types, Sets, Progress, NEW s \in Services, CatchRestore(s)
  PROVE  DockTypes' /\ Old(s) \in Gens /\ Back(s, {dock[s].named} \cap Gens)
<1>1. DockTypes /\ Old(s) \in Gens /\ dock[s] \in Docks
  BY Known DEF Types, DockTypes, CatchRestore
<1> DEFINE e == dock[s]
           K == {dock[s].named} \cap Gens
<1>2. /\ K \in SUBSET Gens /\ e.named \in K \cup {None}
      /\ \A j \in Gens : e.box[j] = IF j \in K /\ j # e.named THEN "none" ELSE dock[s].box[j]
  BY <1>1 DEF Docks
<1>3. dock' = [dock EXCEPT ![s] = PutBack(e, Old(s))] /\ e \in Docks
  BY <1>1 DEF CatchRestore
<1> HIDE DEF e, K
<1>4. DockTypes' /\ Back(s, K)
  BY <1>1, <1>2, <1>3, DoPutBack
<1> QED BY <1>1, <1>4 DEF K

LEMMA CatchRestoreThrowsDock ==
  ASSUME Types, Sets, Progress, NEW s \in Services, CatchRestoreThrows(s)
  PROVE  /\ DockTypes' /\ Old(s) \in Gens
         /\ IF dock[s].named = Old(s) THEN dock' = dock ELSE Put(s, None, dock[s].named, "none")
BY Known, DoRoomFor DEF Types, CatchRestoreThrows

LEMMA CleanedRemoved ==
  ASSUME NEW d \in Docks, NEW k \in Gens
  PROVE  /\ Cleaned(Removed(d, k)) \in Docks /\ Cleaned(Removed(d, k)).named = None
         /\ \A j \in Gens : Cleaned(Removed(d, k)).box[j] =
                              IF j = k \/ j = d.named THEN "none" ELSE d.box[j]
<1> DEFINE e == Removed(d, k)
<1>1. /\ e \in Docks /\ e.named = IF d.named = k THEN None ELSE d.named
      /\ \A j \in Gens : e.box[j] = IF j = k THEN "none" ELSE d.box[j]
  BY RemovedOp
<1> HIDE DEF e
<1>2. /\ Cleaned(e) \in Docks /\ Cleaned(e).named = None
      /\ \A j \in Gens : Cleaned(e).box[j] = IF j = e.named THEN "none" ELSE e.box[j]
  BY <1>1, CleanedOp
<1>3. None \notin Gens
  BY ComposeAssumption DEF Gens
<1> QED BY <1>1, <1>2, <1>3 DEF e

(* The containers K of s are gone, and the name is n.                      *)
Loses(s, n, K) ==
  /\ dock'[s].named = n
  /\ \A j \in Gens : dock'[s].box[j] = IF j \in K THEN "none" ELSE dock[s].box[j]

(* The steps of the deploy that change several services at once.           *)
LEMMA OrphansDock ==
  ASSUME Types, NEW S \in SUBSET Services, RemoveOrphans(S)
  PROVE  /\ DockTypes'
         /\ \A s \in Services :
              IF s \in S /\ Old(s) # None
              THEN Loses(s, IF dock[s].named = Old(s) THEN None ELSE dock[s].named, {Old(s)})
              ELSE dock'[s] = dock[s]
<1>1. /\ \A s \in Services : dock[s] \in Docks /\ Old(s) \in Gens \cup {None}
      /\ dock' = [s \in Services |-> IF s \in S /\ Old(s) # None
                                     THEN Removed(dock[s], Old(s)) ELSE dock[s]]
  BY DEF Types, RowTypes, DockTypes, RemoveOrphans, Old
<1>2. ASSUME NEW s \in Services
      PROVE  /\ dock'[s] \in Docks
             /\ IF s \in S /\ Old(s) # None
                THEN Loses(s, IF dock[s].named = Old(s) THEN None ELSE dock[s].named, {Old(s)})
                ELSE dock'[s] = dock[s]
  <2>1. CASE s \in S /\ Old(s) # None
    <3>1. dock'[s] = Removed(dock[s], Old(s)) /\ Old(s) \in Gens /\ dock[s] \in Docks
      BY <1>1, <2>1
    <3>2. /\ Removed(dock[s], Old(s)) \in Docks
          /\ Removed(dock[s], Old(s)).named = IF dock[s].named = Old(s) THEN None ELSE dock[s].named
          /\ \A j \in Gens : Removed(dock[s], Old(s)).box[j] =
                               IF j = Old(s) THEN "none" ELSE dock[s].box[j]
      BY <3>1, RemovedOp
    <3> QED BY <2>1, <3>1, <3>2 DEF Loses
  <2>2. CASE ~(s \in S /\ Old(s) # None)
    BY <1>1, <2>2
  <2> QED BY <2>1, <2>2
<1> QED BY <1>1, <1>2 DEF DockTypes

LEMMA PreCleanDock ==
  ASSUME Types, PreClean
  PROVE  /\ DockTypes'
         /\ \A s \in Services :
              IF s \in Included \ req.replace /\ ~Reuses(s) THEN Loses(s, None, {dock[s].named})
              ELSE dock'[s] = dock[s]
<1>1. /\ \A s \in Services : dock[s] \in Docks
      /\ dock' = [s \in Services |-> IF s \in Included \ req.replace /\ ~Reuses(s)
                                     THEN Cleaned(dock[s]) ELSE dock[s]]
  BY DEF Types, DockTypes, PreClean
<1>2. ASSUME NEW s \in Services
      PROVE  /\ dock'[s] \in Docks
             /\ IF s \in Included \ req.replace /\ ~Reuses(s) THEN Loses(s, None, {dock[s].named})
                ELSE dock'[s] = dock[s]
  BY <1>1, CleanedOp DEF Loses
<1> QED BY <1>1, <1>2 DEF DockTypes

LEMMA CatchCleanDock ==
  ASSUME Types, CatchClean
  PROVE  /\ DockTypes'
         /\ \A s \in Services :
              IF Has(s, "deployment") /\ Has(s, "created")
              THEN Loses(s, None, {gen, dock[s].named}) ELSE dock'[s] = dock[s]
<1>1. /\ \A s \in Services : dock[s] \in Docks
      /\ gen \in Gens
      /\ dock' = [s \in Services |-> IF Has(s, "deployment") /\ Has(s, "created")
                                     THEN Cleaned(Removed(dock[s], gen)) ELSE dock[s]]
  BY DEF Types, StepTypes, DockTypes, CatchClean, Has, New
<1>2. ASSUME NEW s \in Services
      PROVE  /\ dock'[s] \in Docks
             /\ IF Has(s, "deployment") /\ Has(s, "created")
                THEN Loses(s, None, {gen, dock[s].named}) ELSE dock'[s] = dock[s]
  BY <1>1, CleanedRemoved DEF Loses
<1> QED BY <1>1, <1>2 DEF DockTypes

LEMMA StopDock ==
  ASSUME Types, StopCompose
  PROVE  /\ DockTypes'
         /\ \A s \in Services :
              IF row[s].st = "absent" THEN dock'[s] = dock[s]
              ELSE Loses(s, None, {row[s].cid, dock[s].named})
<1>1. /\ \A s \in Services : dock[s] \in Docks /\ row[s].cid \in Gens \cup {None}
      /\ dock' = [s \in Services |->
                    IF row[s].st = "absent" THEN dock[s]
                    ELSE IF row[s].cid = None THEN Cleaned(dock[s])
                    ELSE Cleaned(Removed(dock[s], row[s].cid))]
      /\ None \notin Gens
  BY ComposeAssumption DEF Types, RowTypes, DockTypes, StopCompose, Gens
<1>2. ASSUME NEW s \in Services
      PROVE  /\ dock'[s] \in Docks
             /\ IF row[s].st = "absent" THEN dock'[s] = dock[s]
                ELSE Loses(s, None, {row[s].cid, dock[s].named})
  <2>1. CASE row[s].st = "absent"
    BY <1>1, <2>1
  <2>2. CASE row[s].st # "absent" /\ row[s].cid = None
    BY <1>1, <2>2, CleanedOp DEF Loses
  <2>3. CASE row[s].st # "absent" /\ row[s].cid # None
    <3>1. dock'[s] = Cleaned(Removed(dock[s], row[s].cid)) /\ row[s].cid \in Gens /\ dock[s] \in Docks
      BY <1>1, <2>3
    <3>2. /\ Cleaned(Removed(dock[s], row[s].cid)) \in Docks
          /\ Cleaned(Removed(dock[s], row[s].cid)).named = None
          /\ \A j \in Gens : Cleaned(Removed(dock[s], row[s].cid)).box[j] =
                     IF j = row[s].cid \/ j = dock[s].named THEN "none" ELSE dock[s].box[j]
      BY <3>1, CleanedRemoved
    <3> QED BY <2>3, <3>1, <3>2 DEF Loses
  <2> QED BY <2>1, <2>2, <2>3
<1> QED BY <1>1, <1>2 DEF DockTypes

(* Every step keeps the types.                                             *)
LEMMA NextDockTypes ==
  ASSUME Types, Sets, Progress, [Next]_vars
  PROVE  DockTypes'
<1>1. DockTypes
  BY DEF Types
<1>2. ASSUME NEW s \in Services,
             \/ Reuse(s) \/ Take(s) \/ SwapFails(s) \/ Run(s) \/ Health(s) \/ Undo(s)
             \/ UndoThrows(s) \/ Rollback(s) \/ RollbackThrows(s) \/ CatchRestore(s)
             \/ CatchRestoreThrows(s)
      PROVE  DockTypes'
  BY <1>2, ReuseDock, TakeDock, SwapFailsDock, RunDock, HealthDock, UndoDock, UndoThrowsDock,
     RollbackDock, RollbackThrowsDock, CatchRestoreDock, CatchRestoreThrowsDock
<1>3. CASE CleanOrphans \/ OrphansThrow
  <2>1. \E S \in SUBSET Services : RemoveOrphans(S)
    BY <1>3 DEF CleanOrphans, OrphansThrow, Orphans
  <2> QED BY <2>1, OrphansDock
<1>4. CASE PreClean \/ CatchClean \/ StopCompose
  BY <1>4, PreCleanDock, CatchCleanDock, StopDock
<1>5. CASE dock' = dock
  BY <1>1, <1>5 DEF DockTypes
<1>6. ASSUME NEW s \in Services, Build(s) \/ Record(s) PROVE dock' = dock
  BY <1>6 DEF Build, Record
<1>7. ASSUME \/ PrepareImages \/ StartGroup \/ GroupFailed \/ GroupsDone \/ RolledBack
             \/ Reconcile \/ CatchRestored \/ CatchRows \/ Crash \/ UNCHANGED vars
      PROVE  dock' = dock
  BY <1>7 DEF PrepareImages, StartGroup, GroupFailed, GroupsDone, RolledBack, Reconcile,
         CatchRestored, CatchRows, Crash, vars
<1>8. Request => dock' = dock
  BY DEF Request, Begin
<1> QED BY <1>2, <1>3, <1>4, <1>5, <1>6, <1>7, <1>8 DEF Next, DeployStep, ServiceStep

LEMMA NextRowTypes ==
  ASSUME Types, Sets, Progress, [Next]_vars
  PROVE  RowTypes'
<1> DEFINE R == [st : RowStatuses, cid : Gens \cup {None}]
<1>1. /\ row \in [Services -> R] /\ before \in [Services -> R] /\ RowTypes
      /\ \A s \in Services : pc[s] # "wait" => phase # "idle" /\ parent # "none"
  BY DEF Types, RowTypes, Progress, Noted, Starting
<1>2. /\ \A s \in Services : row[s] \in R /\ before[s] \in R
      /\ \A st \in RowStatuses : \A c \in Gens \cup {None} : [st |-> st, cid |-> c] \in R
      /\ \A r \in R : \A st \in RowStatuses : [r EXCEPT !.st = st] \in R
      /\ {"absent", "building", "running", "stopped", "error"} \subseteq RowStatuses
  BY <1>1 DEF RowStatuses
<1>3. ASSUME UNCHANGED <<row, before, parent>>, phase = "idle" => phase' = "idle"
      PROVE  RowTypes'
  BY <1>1, <1>3 DEF RowTypes
<1>4. ASSUME UNCHANGED <<before, parent>>, parent # "none", row' \in [Services -> R]
      PROVE  RowTypes'
  BY <1>1, <1>4 DEF RowTypes
<1>5. ASSUME NEW s \in Services, Reuse(s) \/ Undo(s) PROVE RowTypes'
  <2>1. UNCHANGED <<before, parent>> /\ pc[s] # "wait"
    BY <1>5 DEF Reuse, Undo, local
  <2>2. Has(s, "swap") => Old(s) \in Gens \cup {None}
    BY Known
  <2>3. row' = row \/ \E r \in R : row' = [row EXCEPT ![s] = r]
    <3> HIDE DEF R
    <3>1. /\ [row[s] EXCEPT !.st = "running"] \in R /\ [row[s] EXCEPT !.st = "error"] \in R
          /\ Has(s, "swap") => [st |-> "running", cid |-> Old(s)] \in R
      BY <1>2, <2>2
    <3>2. CASE row' = [row EXCEPT ![s] = [row[s] EXCEPT !.st = "running"]]
      BY <3>1, <3>2
    <3>3. CASE row' = [row EXCEPT ![s] = [row[s] EXCEPT !.st = "error"]]
      BY <3>1, <3>3
    <3>4. CASE Has(s, "swap") /\ row' = [row EXCEPT ![s] = [st |-> "running", cid |-> Old(s)]]
      BY <3>1, <3>4
    <3> QED BY <1>5, <3>2, <3>3, <3>4 DEF Reuse, Undo
  <2>4. row' \in [Services -> R]
    BY <1>1, <2>3
  <2> QED BY <1>1, <1>4, <2>1, <2>4
<1>6. ASSUME NEW s \in Services, Record(s) \/ Rollback(s) \/ CatchRestore(s) PROVE RowTypes'
  <2>1. UNCHANGED <<before, parent>> /\ pc[s] # "wait"
    BY <1>6 DEF Record, Rollback, LastExecuted, Executed, CatchRestore, local, Progress, Noted, Has
  <2>2. gen \in Gens /\ (Has(s, "swap") => Old(s) \in Gens \cup {None})
    BY Known
  <2>3. row' = row \/ \E r \in R : row' = [row EXCEPT ![s] = r]
    BY <1>2, <1>6, <2>2 DEF Record, Rollback, RollbackService, CatchRestore, New
  <2>4. row' \in [Services -> R]
    BY <1>1, <2>3
  <2> QED BY <1>1, <1>4, <2>1, <2>4
<1>7. CASE Request
  <2>1. before' = row /\ parent' = "building" /\ row' \in [Services -> R]
    BY <1>1, <1>2, <1>7 DEF Request, Begin
  <2> QED BY <1>1, <2>1 DEF RowTypes
<1>8. CASE CleanOrphans \/ OrphansThrow
  <2>1. row' \in [Services -> R] /\ UNCHANGED <<before, parent>> /\ parent # "none"
    BY <1>1, <1>2, <1>8 DEF CleanOrphans, OrphansThrow, RemoveOrphans, NoRows, local, RowTypes
  <2> QED BY <1>4, <2>1
<1>9. CASE Reconcile \/ CatchRows
  <2>1. \A s \in Services : gen \in Gens /\ Old(s) \in Gens \cup {None}
    BY <1>1, Known DEF Old
  <2>2. \A s \in Services : Reported(s) \in R
    BY <1>2, <2>1 DEF Reported, New
  <2>3. before' = before /\ parent' \in {"running", "error"}
    BY <1>9 DEF Reconcile, CatchRows, local
  <2>4. row' \in [Services -> R]
    <3>1. \A s \in Services : /\ row[s] \in R /\ Reported(s) \in R
                             /\ [st |-> "running", cid |-> Old(s)] \in R
                             /\ [st |-> "error", cid |-> None] \in R
      BY <1>2, <2>1, <2>2
    <3> HIDE DEF R
    <3>2. CASE Reconcile
      BY <3>1, <3>2 DEF Reconcile
    <3>3. CASE CatchRows
      BY <3>1, <3>3 DEF CatchRows
    <3> QED BY <1>9, <3>2, <3>3
  <2> QED BY <1>1, <2>3, <2>4 DEF RowTypes
<1>10. CASE StopCompose
  <2>1. parent # "none" /\ parent' \in {"building", "running", "stopped", "error"}
    BY <1>1, <1>10, Stops DEF StopCompose, Existing, RowTypes
  <2>2. row' \in [Services -> R] /\ before' = NoRows
    <3>1. \A s \in Services :
            row[s].st # "absent" => [row[s] EXCEPT !.st = Moved(@, "stopped")] \in R
      BY <1>1, Stops DEF RowStatuses
    <3> HIDE DEF R
    <3> QED BY <1>2, <1>10, <3>1 DEF StopCompose, Forget
  <2> QED BY <2>1, <2>2, <1>2 DEF RowTypes, NoRows
<1>11. CASE Crash
  BY <1>1, <1>2, <1>11 DEF Crash, Forget, NoRows, RowTypes
<1>12. ASSUME NEW s \in Services,
              \/ Build(s) \/ Take(s) \/ SwapFails(s) \/ Run(s) \/ Health(s) \/ UndoThrows(s)
              \/ RollbackThrows(s) \/ CatchRestoreThrows(s)
       PROVE  RowTypes'
  BY <1>3, <1>12 DEF Build, Take, SwapFails, Run, Health, UndoThrows, RollbackThrows,
                     CatchRestoreThrows, local
<1>13. CASE \/ PrepareImages \/ PreClean \/ StartGroup \/ GroupFailed \/ GroupsDone \/ RolledBack
            \/ CatchClean \/ CatchRestored \/ UNCHANGED vars
  BY <1>3, <1>13 DEF PrepareImages, PreClean, StartGroup, GroupFailed, GroupsDone, RolledBack,
                     CatchClean, CatchRestored, vars, local
<1> QED
  BY <1>5, <1>6, <1>7, <1>8, <1>9, <1>10, <1>11, <1>12, <1>13
  DEF Next, DeployStep, ServiceStep

LEMMA NextStepTypes ==
  ASSUME Types, Sets, Progress, [Next]_vars
  PROVE  StepTypes'
<1> USE ComposeAssumption
    DEF Types, StepTypes, Gens, Phases, Notes, NoReq, Requests, local
<1>1. ASSUME NEW active \in Files, NEW selected \in Selections(active),
             NEW changed \in SUBSET Applications(active),
             NEW approved \in SUBSET (Resources \cap active),
             Begin(active, selected, changed, approved)
      PROVE  StepTypes'
  <2>1. req' \in Requests
    BY <1>1, BeginSets
  <2> HIDE DEF Requests
  <2> QED BY <1>1, <2>1 DEF Begin
<1>2. ASSUME NEW s \in Services, Reuse(s) PROVE StepTypes'
  BY <1>2
     DEF Reuse, Goto, Return, Note, Has, Old
<1>3. ASSUME NEW s \in Services, Build(s) PROVE StepTypes'
  BY <1>3
     DEF Build, Goto
<1>4. ASSUME NEW s \in Services, Take(s) PROVE StepTypes'
  BY <1>4
     DEF Take, Goto, Note, Old
<1>5. ASSUME NEW s \in Services, SwapFails(s) PROVE StepTypes'
  BY <1>5
     DEF SwapFails, Goto, Old
<1>6. ASSUME NEW s \in Services, Run(s) PROVE StepTypes'
  BY <1>6
     DEF Run, Goto, New
<1>7. ASSUME NEW s \in Services, Record(s) PROVE StepTypes'
  BY <1>7
     DEF Record, Goto, Note, New
<1>8. ASSUME NEW s \in Services, Health(s) PROVE StepTypes'
  BY <1>8
     DEF Health, Return, Note, Has, Current, Old
<1>9. ASSUME NEW s \in Services, Undo(s) PROVE StepTypes'
  BY <1>9
     DEF Undo, Return, Has, Old
<1>10. ASSUME NEW s \in Services, UndoThrows(s) PROVE StepTypes'
  BY <1>10
     DEF UndoThrows, Return, Has, Old
<1>11. ASSUME NEW s \in Services, Rollback(s) PROVE StepTypes'
  BY <1>11
     DEF Rollback, RollbackService, LastExecuted, Executed, Has, New, Old
<1>12. ASSUME NEW s \in Services, RollbackThrows(s) PROVE StepTypes'
  BY <1>12
     DEF RollbackThrows, LastExecuted, Executed, Has, New, Old
<1>13. ASSUME NEW s \in Services, CatchRestore(s) PROVE StepTypes'
  BY <1>13
     DEF CatchRestore, Has, Old
<1>14. ASSUME NEW s \in Services, CatchRestoreThrows(s) PROVE StepTypes'
  BY <1>14
     DEF CatchRestoreThrows, Has, Old
<1>15. CASE CleanOrphans
  BY <1>15
     DEF CleanOrphans, RemoveOrphans, Orphans
<1>16. CASE OrphansThrow
  BY <1>16
     DEF OrphansThrow, RemoveOrphans, Orphans
<1>17. CASE PrepareImages
  BY <1>17
     DEF PrepareImages
<1>18. CASE PreClean
  BY <1>18
     DEF PreClean, Reuses
<1>19. CASE StartGroup
  BY <1>19
     DEF StartGroup, NextGroup, Reuses, Attempted, Ended
<1>20. CASE GroupFailed
  BY <1>20
     DEF GroupFailed, Attempted, Ended, Failed
<1>21. CASE GroupsDone
  BY <1>21
     DEF GroupsDone, Ended, Failed
<1>22. CASE RolledBack
  BY <1>22
     DEF RolledBack, Executed
<1>23. CASE Reconcile
  BY <1>23
     DEF Reconcile, Reported, Has, Old, New, Failed
<1>24. CASE CatchClean
  BY <1>24
     DEF CatchClean, New
<1>25. CASE CatchRestored
  BY <1>25
     DEF CatchRestored, Swapped, Has
<1>26. CASE CatchRows
  BY <1>26
     DEF CatchRows, Has, Old
<1>27. CASE StopCompose
  BY <1>27
     DEF StopCompose, Quiet, Forget, Existing
<1>28. CASE Crash
  BY <1>28
     DEF Crash, Forget, Quiet, Swapped, Has
<1>29. CASE UNCHANGED vars
  BY <1>29 DEF vars
<1> HIDE DEF Types, StepTypes, Gens, Phases, Notes, NoReq, Requests, local
<1> QED
  BY <1>1, <1>2, <1>3, <1>4, <1>5, <1>6, <1>7, <1>8, <1>9, <1>10, <1>11, <1>12,
     <1>13, <1>14, <1>15, <1>16, <1>17, <1>18, <1>19, <1>20, <1>21, <1>22,
     <1>23, <1>24, <1>25, <1>26, <1>27, <1>28, <1>29
  DEF Next, DeployStep, ServiceStep, Request

(* Every step keeps the sets of the deploy.                                *)
LEMMA NextSets ==
  ASSUME Types, Sets, [Next]_vars
  PROVE  Sets'
<1>1. CASE UNCHANGED local
  BY <1>1 DEF Sets, Included, local
<1>2. CASE Request
  BY <1>2, BeginSets DEF Request
<1>3. CASE StopCompose \/ Crash
  BY <1>3 DEF StopCompose, Crash, Forget, NoReq, Sets, Included
<1>4. ASSUME NEW s \in Services,
             \/ ServiceStep(s) \/ Rollback(s) \/ RollbackThrows(s) \/ CatchRestore(s)
             \/ CatchRestoreThrows(s)
      PROVE  UNCHANGED local
  BY <1>4 DEF ServiceStep, Reuse, Build, Take, SwapFails, Run, Record, Health, Undo, UndoThrows,
              Rollback, RollbackThrows, CatchRestore, CatchRestoreThrows
<1>5. ASSUME \/ CleanOrphans \/ OrphansThrow \/ PrepareImages \/ PreClean \/ StartGroup
             \/ GroupFailed \/ GroupsDone \/ RolledBack \/ Reconcile \/ CatchClean
             \/ CatchRestored \/ CatchRows \/ UNCHANGED vars
      PROVE  UNCHANGED local
  BY <1>5 DEF CleanOrphans, OrphansThrow, PrepareImages, PreClean, StartGroup, GroupFailed,
              GroupsDone, RolledBack, Reconcile, CatchClean, CatchRestored, CatchRows, vars
<1> QED BY <1>1, <1>2, <1>3, <1>4, <1>5 DEF Next, DeployStep

(* Every step keeps the numbers of the containers.                         *)
LEMMA NextRowNumbers ==
  ASSUME Types, Sets, Progress, Numbers, [Next]_vars
  PROVE  RowNumbers'
<1> USE ComposeAssumption, Known
    DEF Numbers, RowNumbers, RowNumber, Types, RowTypes, StepTypes, Gens,
        NoRows, local, Old
<1>1. ASSUME NEW active \in Files, NEW selected \in Selections(active),
             NEW changed \in SUBSET Applications(active),
             NEW approved \in SUBSET (Resources \cap active),
             Begin(active, selected, changed, approved)
      PROVE  RowNumbers'
  BY <1>1, BeginSets DEF Begin, Quiet
<1>2. ASSUME NEW s \in Services, Reuse(s) PROVE RowNumbers'
  BY <1>2
     DEF Reuse, Goto, Return, Note, Has
<1>3. ASSUME NEW s \in Services, Build(s) PROVE RowNumbers'
  BY <1>3
     DEF Build, Goto
<1>4. ASSUME NEW s \in Services, Take(s) PROVE RowNumbers'
  BY <1>4
     DEF Take, Goto, Note
<1>5. ASSUME NEW s \in Services, SwapFails(s) PROVE RowNumbers'
  BY <1>5
     DEF SwapFails, Goto
<1>6. ASSUME NEW s \in Services, Run(s) PROVE RowNumbers'
  BY <1>6
     DEF Run, Goto, New
<1>7. ASSUME NEW s \in Services, Record(s) PROVE RowNumbers'
  BY <1>7
     DEF Record, Goto, Note, New
<1>8. ASSUME NEW s \in Services, Health(s) PROVE RowNumbers'
  BY <1>8
     DEF Health, Return, Note, Has, Current
<1>9. ASSUME NEW s \in Services, Undo(s) PROVE RowNumbers'
  BY <1>9
     DEF Undo, Return, Has
<1>10. ASSUME NEW s \in Services, UndoThrows(s) PROVE RowNumbers'
  BY <1>10
     DEF UndoThrows, Return, Has
<1>11. ASSUME NEW s \in Services, Rollback(s) PROVE RowNumbers'
  BY <1>11
     DEF Rollback, RollbackService, LastExecuted, Executed, Has, New
<1>12. ASSUME NEW s \in Services, RollbackThrows(s) PROVE RowNumbers'
  BY <1>12
     DEF RollbackThrows, LastExecuted, Executed, Has, New
<1>13. ASSUME NEW s \in Services, CatchRestore(s) PROVE RowNumbers'
  BY <1>13
     DEF CatchRestore, Has
<1>14. ASSUME NEW s \in Services, CatchRestoreThrows(s) PROVE RowNumbers'
  BY <1>14
     DEF CatchRestoreThrows, Has
<1>15. CASE CleanOrphans
  BY <1>15
     DEF CleanOrphans, RemoveOrphans, Orphans
<1>16. CASE OrphansThrow
  BY <1>16
     DEF OrphansThrow, RemoveOrphans, Orphans
<1>17. CASE PrepareImages
  BY <1>17
     DEF PrepareImages
<1>18. CASE PreClean
  BY <1>18
     DEF PreClean, Reuses
<1>19. CASE StartGroup
  BY <1>19
     DEF StartGroup, NextGroup, Reuses, Attempted, Ended
<1>20. CASE GroupFailed
  BY <1>20
     DEF GroupFailed, Attempted, Ended, Failed
<1>21. CASE GroupsDone
  BY <1>21
     DEF GroupsDone, Ended, Failed
<1>22. CASE RolledBack
  BY <1>22
     DEF RolledBack, Executed
<1>23. CASE Reconcile
  BY <1>23
     DEF Reconcile, Reported, Has, New, Failed
<1>24. CASE CatchClean
  BY <1>24
     DEF CatchClean, New
<1>25. CASE CatchRestored
  BY <1>25
     DEF CatchRestored, Swapped, Has
<1>26. CASE CatchRows
  BY <1>26
     DEF CatchRows, Has
<1>27. CASE StopCompose
  BY <1>27
     DEF StopCompose, Quiet, Forget, Existing
<1>28. CASE Crash
  BY <1>28
     DEF Crash, Forget, Quiet, Swapped, Has
<1>29. CASE UNCHANGED vars
  BY <1>29 DEF vars
<1> HIDE DEF Numbers, RowNumbers, RowNumber, Types, RowTypes, StepTypes, Gens,
             NoRows, local, Old
<1> QED
  BY <1>1, <1>2, <1>3, <1>4, <1>5, <1>6, <1>7, <1>8, <1>9, <1>10, <1>11, <1>12,
     <1>13, <1>14, <1>15, <1>16, <1>17, <1>18, <1>19, <1>20, <1>21, <1>22,
     <1>23, <1>24, <1>25, <1>26, <1>27, <1>28, <1>29
  DEF Next, DeployStep, ServiceStep, Request

LEMMA NextDockNumbers ==
  ASSUME Types, Sets, Progress, Numbers, Aside, [Next]_vars
  PROVE  DockNumbers'
<1> USE Known, Order
    DEF Numbers, RowNumbers, RowNumber, DockNumbers
<1>1. ASSUME NEW active \in Files, NEW selected \in Selections(active),
             NEW changed \in SUBSET Applications(active),
             NEW approved \in SUBSET (Resources \cap active),
             Begin(active, selected, changed, approved)
      PROVE  DockNumbers'
  <2>1. gen' = gen + 1 /\ dock' = dock /\ gen + 1 \in Gens
    BY <1>1, ComposeAssumption DEF Begin, Gens
  <2> QED BY <2>1 DEF DockNumber
<1>2. ASSUME NEW s \in Services, Reuse(s) PROVE DockNumbers'
  <2>1. gen' = gen /\ before' = before
    BY <1>2 DEF Reuse, local
  <2>2. DockNumber(s)'
    BY <1>2, <2>1, ReuseDock DEF DockNumber, Put, Back, Old
  <2>3. \A t \in Services : t # s => DockNumber(t)'
    BY <1>2, <2>1, ReuseDock DEF DockNumber, Put, Back, Old
  <2> QED BY <2>2, <2>3 DEF DockNumbers
<1>3. ASSUME NEW s \in Services, Build(s) PROVE DockNumbers'
  BY <1>3
     DEF Build, DockNumber
<1>4. ASSUME NEW s \in Services, Take(s) PROVE DockNumbers'
  <2>1. gen' = gen /\ before' = before
    BY <1>4 DEF Take, local
  <2>2. DockNumber(s)'
    BY <1>4, <2>1, TakeDock DEF DockNumber, Put, Back, Old
  <2>3. \A t \in Services : t # s => DockNumber(t)'
    BY <1>4, <2>1, TakeDock DEF DockNumber, Put, Back, Old
  <2> QED BY <2>2, <2>3 DEF DockNumbers
<1>5. ASSUME NEW s \in Services, SwapFails(s) PROVE DockNumbers'
  <2>1. gen' = gen /\ before' = before
    BY <1>5 DEF SwapFails, local
  <2>2. DockNumber(s)'
    BY <1>5, <2>1, SwapFailsDock DEF DockNumber, Put, Back, Old
  <2>3. \A t \in Services : t # s => DockNumber(t)'
    BY <1>5, <2>1, SwapFailsDock DEF DockNumber, Put, Back, Old
  <2> QED BY <2>2, <2>3 DEF DockNumbers
<1>6. ASSUME NEW s \in Services, Run(s) PROVE DockNumbers'
  <2>1. gen' = gen /\ before' = before
    BY <1>6 DEF Run, local
  <2>2. DockNumber(s)'
    BY <1>6, <2>1, RunDock DEF DockNumber, Put, Back, Old
  <2>3. \A t \in Services : t # s => DockNumber(t)'
    BY <1>6, <2>1, RunDock DEF DockNumber, Put, Back, Old
  <2> QED BY <2>2, <2>3 DEF DockNumbers
<1>7. ASSUME NEW s \in Services, Record(s) PROVE DockNumbers'
  BY <1>7
     DEF Record, DockNumber
<1>8. ASSUME NEW s \in Services, Health(s) PROVE DockNumbers'
  <2>1. gen' = gen /\ before' = before
    BY <1>8 DEF Health, local
  <2>2. DockNumber(s)'
    BY <1>8, <2>1, HealthDock DEF DockNumber, Put, Back, Old
  <2>3. \A t \in Services : t # s => DockNumber(t)'
    BY <1>8, <2>1, HealthDock DEF DockNumber, Put, Back, Old
  <2> QED BY <2>2, <2>3 DEF DockNumbers
<1>9. ASSUME NEW s \in Services, Undo(s) PROVE DockNumbers'
  <2>1. gen' = gen /\ before' = before
    BY <1>9 DEF Undo, local
  <2>2. DockNumber(s)'
    BY <1>9, <2>1, UndoDock DEF DockNumber, Put, Back, Old
  <2>3. \A t \in Services : t # s => DockNumber(t)'
    BY <1>9, <2>1, UndoDock DEF DockNumber, Put, Back, Old
  <2> QED BY <2>2, <2>3 DEF DockNumbers
<1>10. ASSUME NEW s \in Services, UndoThrows(s) PROVE DockNumbers'
  <2>1. gen' = gen /\ before' = before
    BY <1>10 DEF UndoThrows, local
  <2>2. dock[s].box[Old(s)] # "none" /\ dock[s].named # Old(s) /\ Old(s) \in Gens
    BY <1>10 DEF UndoThrows, Aside, AsideKept
  <2>3. PICK n \in {None, Old(s)} : Put(s, n, dock[s].named, "none")
    BY <1>10, UndoThrowsDock
  <2> QED BY <2>1, <2>2, <2>3 DEF DockNumber, Put
<1>11. ASSUME NEW s \in Services, Rollback(s) PROVE DockNumbers'
  <2>1. gen' = gen /\ before' = before
    BY <1>11 DEF Rollback, local
  <2>2. DockNumber(s)'
    BY <1>11, <2>1, RollbackDock DEF DockNumber, Put, Back, Old
  <2>3. \A t \in Services : t # s => DockNumber(t)'
    BY <1>11, <2>1, RollbackDock DEF DockNumber, Put, Back, Old
  <2> QED BY <2>2, <2>3 DEF DockNumbers
<1>12. ASSUME NEW s \in Services, RollbackThrows(s) PROVE DockNumbers'
  <2>1. gen' = gen /\ before' = before
    BY <1>12 DEF RollbackThrows, local
  <2>2. CASE dock' = dock
    BY <2>1, <2>2 DEF DockNumber
  <2>3. CASE Has(s, "swap") /\ \E n \in {None, Old(s)} : Put(s, n, gen, "none")
    <3>1. dock[s].box[Old(s)] # "none" /\ Old(s) \in Gens /\ Old(s) < gen
      BY <2>3 DEF Aside, AsideKept, Old
    <3>2. PICK n \in {None, Old(s)} : Put(s, n, gen, "none")
      BY <2>3
    <3> QED BY <2>1, <3>1, <3>2 DEF DockNumber, Put
  <2> QED BY <1>12, <2>2, <2>3, RollbackThrowsDock
<1>13. ASSUME NEW s \in Services, CatchRestore(s) PROVE DockNumbers'
  <2>1. gen' = gen /\ before' = before
    BY <1>13 DEF CatchRestore, local
  <2>2. DockNumber(s)'
    BY <1>13, <2>1, CatchRestoreDock DEF DockNumber, Put, Back, Old
  <2>3. \A t \in Services : t # s => DockNumber(t)'
    BY <1>13, <2>1, CatchRestoreDock DEF DockNumber, Put, Back, Old
  <2> QED BY <2>2, <2>3 DEF DockNumbers
<1>14. ASSUME NEW s \in Services, CatchRestoreThrows(s) PROVE DockNumbers'
  <2>1. gen' = gen /\ before' = before
    BY <1>14 DEF CatchRestoreThrows, local
  <2>2. DockNumber(s)'
    BY <1>14, <2>1, CatchRestoreThrowsDock DEF DockNumber, Put, Back, Old
  <2>3. \A t \in Services : t # s => DockNumber(t)'
    BY <1>14, <2>1, CatchRestoreThrowsDock DEF DockNumber, Put, Back, Old
  <2> QED BY <2>2, <2>3 DEF DockNumbers
<1>15. CASE CleanOrphans
  <2>1. gen' = gen /\ before' = before
    BY <1>15 DEF CleanOrphans, local
  <2>2. PICK S \in SUBSET Services : RemoveOrphans(S)
    BY <1>15 DEF CleanOrphans, Orphans
  <2> QED BY <2>1, <2>2, OrphansDock DEF DockNumber, Loses
<1>16. CASE OrphansThrow
  <2>1. gen' = gen /\ before' = before
    BY <1>16 DEF OrphansThrow, local
  <2>2. PICK S \in SUBSET Services : RemoveOrphans(S)
    BY <1>16 DEF OrphansThrow, Orphans
  <2> QED BY <2>1, <2>2, OrphansDock DEF DockNumber, Loses
<1>17. CASE PrepareImages
  BY <1>17
     DEF PrepareImages, DockNumber
<1>18. CASE PreClean
  BY <1>18, PreCleanDock
     DEF PreClean, DockNumber, Loses
<1>19. CASE StartGroup
  BY <1>19
     DEF StartGroup, DockNumber
<1>20. CASE GroupFailed
  BY <1>20
     DEF GroupFailed, DockNumber
<1>21. CASE GroupsDone
  BY <1>21
     DEF GroupsDone, DockNumber
<1>22. CASE RolledBack
  BY <1>22
     DEF RolledBack, DockNumber
<1>23. CASE Reconcile
  BY <1>23
     DEF Reconcile, DockNumber
<1>24. CASE CatchClean
  BY <1>24, CatchCleanDock
     DEF CatchClean, DockNumber, Loses
<1>25. CASE CatchRestored
  BY <1>25
     DEF CatchRestored, DockNumber
<1>26. CASE CatchRows
  BY <1>26
     DEF CatchRows, DockNumber
<1>27. CASE StopCompose
  <2>1. gen' = gen + 1 /\ gen + 1 \in Gens
    BY <1>27, ComposeAssumption DEF StopCompose, Gens
  <2> QED BY <1>27, <2>1, StopDock DEF DockNumber, Loses
<1>28. CASE Crash
  BY <1>28
     DEF Crash, DockNumber
<1>29. CASE UNCHANGED vars
  BY <1>29 DEF vars, DockNumber
<1> HIDE DEF Numbers, RowNumbers, RowNumber, DockNumbers
<1> QED
  BY <1>1, <1>2, <1>3, <1>4, <1>5, <1>6, <1>7, <1>8, <1>9, <1>10, <1>11, <1>12,
     <1>13, <1>14, <1>15, <1>16, <1>17, <1>18, <1>19, <1>20, <1>21, <1>22,
     <1>23, <1>24, <1>25, <1>26, <1>27, <1>28, <1>29
  DEF Next, DeployStep, ServiceStep, Request

(* Every step keeps what is noted of the services.                         *)
LEMMA NextProgress ==
  ASSUME Types, Sets, Progress, [Next]_vars
  PROVE  Progress'
<1> USE Sets
    DEF Progress, Noted, Types, StepTypes, Starting, Included, Reuses, Has,
        Role, local
<1>1. ASSUME NEW active \in Files, NEW selected \in Selections(active),
             NEW changed \in SUBSET Applications(active),
             NEW approved \in SUBSET (Resources \cap active),
             Begin(active, selected, changed, approved)
      PROVE  Progress'
  BY <1>1, BeginSets DEF Begin, Quiet, Gens
<1>2. ASSUME NEW s \in Services, Reuse(s) PROVE Progress'
  BY <1>2
     DEF Reuse, Goto, Return, Note, Old
<1>3. ASSUME NEW s \in Services, Build(s) PROVE Progress'
  BY <1>3
     DEF Build, Goto
<1>4. ASSUME NEW s \in Services, Take(s) PROVE Progress'
  BY <1>4 DEF Take, Goto, Note, Sets
<1>5. ASSUME NEW s \in Services, SwapFails(s) PROVE Progress'
  BY <1>5
     DEF SwapFails, Goto, Old
<1>6. ASSUME NEW s \in Services, Run(s) PROVE Progress'
  BY <1>6
     DEF Run, Goto, New
<1>7. ASSUME NEW s \in Services, Record(s) PROVE Progress'
  BY <1>7
     DEF Record, Goto, Note, New
<1>8. ASSUME NEW s \in Services, Health(s) PROVE Progress'
  BY <1>8
     DEF Health, Return, Note, Current, Old
<1>9. ASSUME NEW s \in Services, Undo(s) PROVE Progress'
  BY <1>9
     DEF Undo, Return, Old
<1>10. ASSUME NEW s \in Services, UndoThrows(s) PROVE Progress'
  BY <1>10
     DEF UndoThrows, Return, Old
<1>11. ASSUME NEW s \in Services, Rollback(s) PROVE Progress'
  BY <1>11
     DEF Rollback, RollbackService, LastExecuted, Executed, New, Old
<1>12. ASSUME NEW s \in Services, RollbackThrows(s) PROVE Progress'
  BY <1>12
     DEF RollbackThrows, LastExecuted, Executed, New, Old
<1>13. ASSUME NEW s \in Services, CatchRestore(s) PROVE Progress'
  BY <1>13
     DEF CatchRestore, Old
<1>14. ASSUME NEW s \in Services, CatchRestoreThrows(s) PROVE Progress'
  BY <1>14
     DEF CatchRestoreThrows, Old
<1>15. CASE CleanOrphans
  BY <1>15
     DEF CleanOrphans, RemoveOrphans, Orphans
<1>16. CASE OrphansThrow
  BY <1>16
     DEF OrphansThrow, RemoveOrphans, Orphans
<1>17. CASE PrepareImages
  BY <1>17
     DEF PrepareImages
<1>18. CASE PreClean
  BY <1>18
     DEF PreClean
<1>19. CASE StartGroup
  BY <1>19
     DEF StartGroup, NextGroup, Attempted, Ended
<1>20. CASE GroupFailed
  BY <1>20
     DEF GroupFailed, Attempted, Ended, Failed
<1>21. CASE GroupsDone
  BY <1>21
     DEF GroupsDone, Ended, Failed
<1>22. CASE RolledBack
  BY <1>22
     DEF RolledBack, Executed
<1>23. CASE Reconcile
  BY <1>23
     DEF Reconcile, Reported, Old, New, Failed
<1>24. CASE CatchClean
  BY <1>24
     DEF CatchClean, New
<1>25. CASE CatchRestored
  BY <1>25
     DEF CatchRestored, Swapped
<1>26. CASE CatchRows
  BY <1>26
     DEF CatchRows, Old
<1>27. CASE StopCompose
  BY <1>27
     DEF StopCompose, Quiet, Forget, Existing
<1>28. CASE Crash
  BY <1>28
     DEF Crash, Forget, Quiet, Swapped
<1>29. CASE UNCHANGED vars
  BY <1>29 DEF vars
<1> HIDE DEF Progress, Noted, Types, StepTypes, Starting, Included, Reuses, Has,
             Role, local
<1> QED
  BY <1>1, <1>2, <1>3, <1>4, <1>5, <1>6, <1>7, <1>8, <1>9, <1>10, <1>11, <1>12,
     <1>13, <1>14, <1>15, <1>16, <1>17, <1>18, <1>19, <1>20, <1>21, <1>22,
     <1>23, <1>24, <1>25, <1>26, <1>27, <1>28, <1>29
  DEF Next, DeployStep, ServiceStep, Request

(* A step of one service leaves the others alone.                          *)
Same(t) ==
  /\ dock'[t] = dock[t] /\ row'[t] = row[t] /\ pc'[t] = pc[t] /\ res'[t] = res[t]
  /\ notes'[t] = notes[t] /\ (t \in torn' <=> t \in torn)
OfService(s) ==
  ServiceStep(s) \/ Rollback(s) \/ RollbackThrows(s) \/ CatchRestore(s) \/ CatchRestoreThrows(s)

LEMMA Others ==
  ASSUME Types, Sets, Progress, NEW s \in Services, OfService(s)
  PROVE  /\ \A t \in Services : t # s => Same(t)
         /\ gen' = gen /\ req' = req /\ before' = before /\ served' = served
         /\ \/ phase' = phase /\ outcome' = outcome
            \/ phase = "group" /\ phase' = "catch" /\ outcome' = outcome
            \/ phase = "restore" /\ phase' = "done" /\ outcome' = "threw"
<1>1. /\ gen' = gen /\ req' = req /\ before' = before /\ served' = served
      /\ \/ phase' = phase /\ outcome' = outcome
         \/ phase = "group" /\ phase' = "catch" /\ outcome' = outcome
         \/ phase = "restore" /\ phase' = "done" /\ outcome' = "threw"
  BY DEF OfService, ServiceStep, Reuse, Build, Take, SwapFails, Run, Record, Health, Undo,
         UndoThrows, Rollback, RollbackThrows, CatchRestore, CatchRestoreThrows, local
<1>2. ASSUME NEW t \in Services, t # s
      PROVE  /\ row'[t] = row[t] /\ pc'[t] = pc[t] /\ res'[t] = res[t]
             /\ notes'[t] = notes[t] /\ (t \in torn' <=> t \in torn)
  BY <1>2 DEF OfService, ServiceStep, Reuse, Build, Take, SwapFails, Run, Record, Health, Undo,
         UndoThrows, Rollback, RollbackService, RollbackThrows, CatchRestore, CatchRestoreThrows,
         Goto, Return, Note, Types, RowTypes, StepTypes
<1>3. ASSUME NEW t \in Services, t # s, Build(s) \/ Record(s)
      PROVE  dock'[t] = dock[t]
  BY <1>3 DEF Build, Record
<1>4. ASSUME NEW t \in Services, t # s, ~Build(s), ~Record(s)
      PROVE  dock'[t] = dock[t]
  BY <1>4, ReuseDock, TakeDock, SwapFailsDock, RunDock, HealthDock, UndoDock, UndoThrowsDock,
     RollbackDock, RollbackThrowsDock, CatchRestoreDock, CatchRestoreThrowsDock
  DEF OfService, ServiceStep, Put, Back
<1> QED BY <1>1, <1>2, <1>3, <1>4 DEF Same

(* What the invariant says of one service.                                 *)
Here(s) ==
  /\ Noted(s) /\ RowNumber(s) /\ DockNumber(s) /\ AsideKept(s)
  /\ gen \in Gens /\ gen \in Nat /\ None \notin Gens
  /\ row[s].cid \in Gens \cup {None} /\ before[s].cid \in Gens \cup {None}
  /\ before[s].cid \in Gens => before[s].cid < gen /\ before[s].cid # gen
  /\ Has(s, "reused") \/ Has(s, "swap") => Old(s) \in Gens
  /\ dock[s].named \in Gens \cup {None}

LEMMA AtService ==
  ASSUME Types, Sets, Progress, Numbers, Aside, NEW s \in Services
  PROVE  Here(s)
<1>1. before[s].cid \in Gens => before[s].cid < gen /\ before[s].cid # gen
  BY Known, Order DEF Numbers, RowNumbers, RowNumber
<1> QED BY <1>1, Known, Order DEF Numbers, RowNumbers, DockNumbers, Progress, Aside, Here

(* Every step keeps what was set aside.                                    *)
LEMMA NextAside ==
  ASSUME Types, Sets, Progress, Numbers, Aside, [Next]_vars
  PROVE  Aside'
<1>1. ASSUME NEW s \in Services, OfService(s) PROVE \A t \in Services : t # s => AsideKept(t)'
  BY <1>1, Others
  DEF Aside, AsideKept, Same, Has, Old
<1>2. ASSUME NEW s \in Services, Reuse(s) PROVE AsideKept(s)'
  <2>1. ~Has(s, "swap")
    BY <1>2, AtService DEF Here, Noted, Reuse, Starting, Has
  <2>2. notes' = notes \/ notes' = [notes EXCEPT ![s] = @ \cup {"deployment", "reused"}]
    BY <1>2 DEF Reuse, Note
  <2>3. ~Has(s, "swap")'
    BY <2>1, <2>2 DEF Has, Types, StepTypes
  <2> QED BY <2>3 DEF AsideKept
<1>3. ASSUME NEW s \in Services, Build(s) PROVE AsideKept(s)'
  <2>1. Here(s)
    BY AtService
  <2> QED
    BY <1>3, <2>1
    DEF AsideKept, Here, Noted, Put, Back, Has, Old, Starting, local, Types,
        StepTypes, Build, Goto
<1>4. ASSUME NEW s \in Services, Take(s) PROVE AsideKept(s)'
  <2>1. Here(s) /\ before' = before
    BY <1>4, AtService DEF Take, local
  <2>2. CASE s \in req.approved
    <3>1. /\ Old(s) \in Gens
          /\ Put(s, IF dock[s].named = Old(s) THEN None ELSE dock[s].named, Old(s), "down")
      BY <1>4, <2>2, TakeDock
    <3>2. dock'[s].named # Old(s)
      BY <2>1, <3>1 DEF Put, Here
    <3>3. dock'[s].box[Old(s)] = "down"
      BY <3>1 DEF Put
    <3> QED BY <2>1, <3>2, <3>3 DEF AsideKept, Old
  <2>3. CASE s \notin req.approved
    BY <1>4, <2>1, <2>3 DEF Take, AsideKept, Here, Noted, Has
  <2> QED BY <2>2, <2>3
<1>5. ASSUME NEW s \in Services, SwapFails(s) PROVE AsideKept(s)'
  <2>1. Here(s)
    BY AtService
  <2> QED
    BY <1>5, <2>1, SwapFailsDock
    DEF AsideKept, Here, Noted, Put, Back, Has, Old, Starting, local, Types,
        StepTypes, SwapFails, Goto
<1>6. ASSUME NEW s \in Services, Run(s) PROVE AsideKept(s)'
  <2>1. Here(s) /\ before' = before /\ notes' = notes /\ phase' = phase /\ pc[s] = "run"
    BY <1>6, AtService DEF Run, local
  <2>2. SUFFICES ASSUME Has(s, "swap") PROVE AsideKept(s)'
    BY <2>1 DEF AsideKept, Has
  <2>3. /\ Old(s) # gen /\ Old(s) \in Gens /\ gen \in Gens
        /\ dock[s].box[Old(s)] # "none" /\ dock[s].named # Old(s)
    BY <2>1, <2>2 DEF Here, Old, AsideKept
  <2>4. dock'[s].named # Old(s) /\ dock'[s].box[Old(s)] # "none"
    BY <1>6, <2>3, RunDock DEF Put
  <2> QED BY <2>1, <2>4 DEF AsideKept, Old
<1>7. ASSUME NEW s \in Services, Record(s) PROVE AsideKept(s)'
  <2>1. Here(s)
    BY AtService
  <2> QED
    BY <1>7, <2>1
    DEF AsideKept, Here, Noted, Put, Back, Has, Old, Starting, local, Types,
        StepTypes, Record, Goto, Note, New
<1>8. ASSUME NEW s \in Services, Health(s) PROVE AsideKept(s)'
  <2>1. Here(s) /\ before' = before /\ phase' = phase
    BY <1>8, AtService DEF Health, local
  <2>2. SUFFICES ASSUME Has(s, "swap")' PROVE AsideKept(s)'
    BY DEF AsideKept
  <2>3. Has(s, "swap") /\ ~Has(s, "reused") /\ dock[s].named # Old(s)
    BY <1>8, <2>1, <2>2 DEF Health, Note, Has, Here, Noted, AsideKept, Types, StepTypes
  <2>4. Current(s) = gen /\ Old(s) # gen /\ Old(s) \in Gens /\ dock[s].box[Old(s)] # "none"
    BY <2>1, <2>3 DEF Current, Here, Old, AsideKept
  <2>5. dock'[s].named = dock[s].named /\ dock'[s].box[Old(s)] = dock[s].box[Old(s)]
    BY <1>8, <2>4, HealthDock DEF Put
  <2> QED BY <2>1, <2>3, <2>4, <2>5 DEF AsideKept, Old
<1>9. ASSUME NEW s \in Services, Undo(s) PROVE AsideKept(s)'
  <2>1. Here(s)
    BY AtService
  <2> QED
    BY <1>9, <2>1, UndoDock
    DEF AsideKept, Here, Noted, Put, Back, Has, Old, Starting, local, Types,
        StepTypes, Undo, Return
<1>10. ASSUME NEW s \in Services, UndoThrows(s) PROVE AsideKept(s)'
  <2>1. Here(s) /\ before' = before /\ Has(s, "swap") /\ notes' = notes
    BY <1>10, AtService DEF UndoThrows, local
  <2>2. PICK n \in {None, Old(s)} : Put(s, n, dock[s].named, "none")
    BY <1>10, UndoThrowsDock
  <2>3. ~Has(s, "created") /\ pc[s] = "undo"
    BY <1>10, <2>1 DEF UndoThrows, Here, Noted, Has
  <2>4. dock'[s].box[Old(s)] # "none"
    BY <2>1, <2>2, <2>3 DEF Put, Here, Old, AsideKept
  <2>5. pc'[s] = "end"
    BY <1>10 DEF UndoThrows, Return, Types, StepTypes
  <2> QED BY <2>1, <2>3, <2>4, <2>5 DEF AsideKept, Old, Has
<1>11. ASSUME NEW s \in Services, Rollback(s) PROVE AsideKept(s)'
  <2>1. Here(s)
    BY AtService
  <2> QED
    BY <1>11, <2>1, RollbackDock
    DEF AsideKept, Here, Noted, Put, Back, Has, Old, Starting, local, Types,
        StepTypes, Rollback, RollbackService, New
<1>12. ASSUME NEW s \in Services, RollbackThrows(s) PROVE AsideKept(s)'
  <2>1. /\ Here(s) /\ before' = before /\ notes' = notes /\ pc' = pc
        /\ phase = "rollback" /\ phase' = phase
    BY <1>12, AtService DEF RollbackThrows, local
  <2>2. CASE dock' = dock
    BY <2>1, <2>2 DEF AsideKept, Here, Has, Old
  <2>3. CASE Has(s, "swap") /\ \E n \in {None, Old(s)} : Put(s, n, gen, "none")
    <3>1. PICK n \in {None, Old(s)} : Put(s, n, gen, "none")
      BY <2>3
    <3>2. dock'[s].box[Old(s)] # "none"
      BY <2>1, <2>3, <3>1 DEF Put, Here, Old, AsideKept
    <3>3. res[s] = "deployed"
      BY <1>12 DEF RollbackThrows, LastExecuted, Executed
    <3>4. pc[s] = "end"
      BY <2>1, <3>3 DEF Here, Noted
    <3> QED BY <2>1, <3>2, <3>4 DEF AsideKept, Old, Has
  <2> QED BY <1>12, <2>2, <2>3, RollbackThrowsDock
<1>13. ASSUME NEW s \in Services, CatchRestore(s) PROVE AsideKept(s)'
  <2>1. Here(s)
    BY AtService
  <2> QED
    BY <1>13, <2>1, CatchRestoreDock
    DEF AsideKept, Here, Noted, Put, Back, Has, Old, Starting, local, Types,
        StepTypes, CatchRestore
<1>14. ASSUME NEW s \in Services, CatchRestoreThrows(s) PROVE AsideKept(s)'
  <2>1. /\ Here(s) /\ before' = before /\ Has(s, "swap") /\ notes' = notes /\ pc' = pc
        /\ phase = "restore" /\ phase' = "done"
    BY <1>14, AtService DEF CatchRestoreThrows, local
  <2>2. CASE dock[s].named = Old(s)
    <3>1. dock' = dock
      BY <1>14, <2>2, CatchRestoreThrowsDock
    <3> QED BY <2>1, <2>2, <3>1 DEF AsideKept, Here, Old, Has
  <2>3. CASE dock[s].named # Old(s)
    <3>1. Put(s, None, dock[s].named, "none") /\ Old(s) \in Gens
      BY <1>14, <2>3, CatchRestoreThrowsDock
    <3> QED BY <2>1, <2>3, <3>1 DEF AsideKept, Here, Old, Has, Put
  <2> QED BY <2>2, <2>3
<1>15. ASSUME NEW s \in Services, OfService(s) PROVE Aside'
  BY <1>15, <1>1, <1>2, <1>3, <1>4, <1>5, <1>6, <1>7, <1>8, <1>9, <1>10, <1>11,
     <1>12, <1>13, <1>14
  DEF OfService, ServiceStep, Aside
<1>16. ASSUME NEW active \in Files, NEW selected \in Selections(active),
             NEW changed \in SUBSET Applications(active),
             NEW approved \in SUBSET (Resources \cap active),
             Begin(active, selected, changed, approved)
      PROVE  Aside'
  BY <1>16, BeginSets
  DEF Begin, Aside, AsideKept, Here, Noted, Has, Old, Starting, Types,
      StepTypes
<1>17. CASE CleanOrphans
  <2>1. PICK S \in SUBSET Services : RemoveOrphans(S)
    BY <1>17 DEF CleanOrphans, Orphans
  <2> QED BY <1>17, <2>1, AtService, OrphansDock
    DEF Aside, AsideKept, Here, Noted, Has, Old, Starting, Types, StepTypes,
        CleanOrphans, Loses, local
<1>18. CASE OrphansThrow
  <2>1. PICK S \in SUBSET Services : RemoveOrphans(S)
    BY <1>18 DEF OrphansThrow, Orphans
  <2> QED BY <1>18, <2>1, AtService, OrphansDock
    DEF Aside, AsideKept, Here, Noted, Has, Old, Starting, Types, StepTypes,
        OrphansThrow, Loses, local
<1>19. CASE PrepareImages
  BY <1>19, AtService
  DEF Aside, AsideKept, Here, Noted, Has, Old, Starting, Types, StepTypes,
      PrepareImages, local
<1>20. CASE PreClean
  BY <1>20, AtService, PreCleanDock
  DEF Aside, AsideKept, Here, Noted, Has, Old, Starting, Types, StepTypes,
      PreClean, local, Reuses, Loses
<1>21. CASE StartGroup
  BY <1>21, AtService
  DEF Aside, AsideKept, Here, Noted, Has, Old, Starting, Types, StepTypes,
      StartGroup, local, NextGroup, Reuses, Attempted, Ended
<1>22. CASE GroupFailed
  BY <1>22, AtService
  DEF Aside, AsideKept, Here, Noted, Has, Old, Starting, Types, StepTypes,
      GroupFailed, local, Attempted, Ended, Failed
<1>23. CASE GroupsDone
  BY <1>23, AtService
  DEF Aside, AsideKept, Here, Noted, Has, Old, Starting, Types, StepTypes,
      GroupsDone, local, Ended, Failed
<1>24. CASE RolledBack
  BY <1>24, AtService
  DEF Aside, AsideKept, Here, Noted, Has, Old, Starting, Types, StepTypes,
      RolledBack, local, Executed
<1>25. CASE Reconcile
  BY <1>25, AtService
  DEF Aside, AsideKept, Here, Noted, Has, Old, Starting, Types, StepTypes,
      Reconcile, local, Reported, New, Failed
<1>26. CASE CatchClean
  BY <1>26, AtService, CatchCleanDock
  DEF Aside, AsideKept, Here, Noted, Has, Old, Starting, Types, StepTypes,
      CatchClean, local, New, Loses
<1>27. CASE CatchRestored
  BY <1>27, AtService
  DEF Aside, AsideKept, Here, Noted, Has, Old, Starting, Types, StepTypes,
      CatchRestored, local, Swapped
<1>28. CASE CatchRows
  BY <1>28, AtService
  DEF Aside, AsideKept, Here, Noted, Has, Old, Starting, Types, StepTypes,
      CatchRows, local
<1>29. CASE StopCompose
  BY <1>29, AtService, StopDock
  DEF Aside, AsideKept, Here, Noted, Has, Old, Starting, Types, StepTypes,
      StopCompose, local, Quiet, Forget, Existing, Loses
<1>30. CASE Crash
  BY <1>30, AtService
  DEF Aside, AsideKept, Here, Noted, Has, Old, Starting, Types, StepTypes,
      Crash, local, Forget, Quiet, Swapped
<1>31. CASE UNCHANGED vars
  BY <1>31
  DEF vars, local, Aside, AsideKept, Same, Has, Old
<1> QED
  BY <1>15, <1>16, <1>17, <1>18, <1>19, <1>20, <1>21, <1>22, <1>23, <1>24,
     <1>25, <1>26, <1>27, <1>28, <1>29, <1>30, <1>31
  DEF Next, DeployStep, OfService, Request

(* Every step keeps the rows that the deploy has not written.              *)
LEMMA NextRows ==
  ASSUME Types, Sets, Progress, Numbers, Aside, Rows, [Next]_vars
  PROVE  Rows'
<1>1. ASSUME NEW s \in Services, OfService(s) PROVE \A t \in Services : t # s => RowKept(t)'
  BY <1>1, Others
  DEF Rows, RowKept, Same, Has, Old, Included
<1>2. ASSUME NEW s \in Services, Reuse(s) PROVE RowKept(s)'
  <2>1. Here(s) /\ RowKept(s)
    BY AtService DEF Rows
  <2> QED
    BY <1>2, <2>1
    DEF RowKept, Here, Noted, Has, Old, Included, local, Types, RowTypes,
        StepTypes, Reuse, Goto, Return, Note
<1>3. ASSUME NEW s \in Services, Build(s) PROVE RowKept(s)'
  <2>1. Here(s) /\ RowKept(s)
    BY AtService DEF Rows
  <2> QED
    BY <1>3, <2>1
    DEF RowKept, Here, Noted, Has, Old, Included, local, Types, RowTypes,
        StepTypes, Build, Goto
<1>4. ASSUME NEW s \in Services, Take(s) PROVE RowKept(s)'
  <2>1. Here(s) /\ RowKept(s)
    BY AtService DEF Rows
  <2> QED
    BY <1>4, <2>1
    DEF RowKept, Here, Noted, Has, Old, Included, local, Types, RowTypes,
        StepTypes, Take, Goto, Note
<1>5. ASSUME NEW s \in Services, SwapFails(s) PROVE RowKept(s)'
  <2>1. Here(s) /\ RowKept(s)
    BY AtService DEF Rows
  <2> QED
    BY <1>5, <2>1
    DEF RowKept, Here, Noted, Has, Old, Included, local, Types, RowTypes,
        StepTypes, SwapFails, Goto
<1>6. ASSUME NEW s \in Services, Run(s) PROVE RowKept(s)'
  <2>1. Here(s) /\ RowKept(s)
    BY AtService DEF Rows
  <2> QED
    BY <1>6, <2>1
    DEF RowKept, Here, Noted, Has, Old, Included, local, Types, RowTypes,
        StepTypes, Run, Goto, New
<1>7. ASSUME NEW s \in Services, Record(s) PROVE RowKept(s)'
  <2>1. Here(s) /\ RowKept(s)
    BY AtService DEF Rows
  <2> QED
    BY <1>7, <2>1
    DEF RowKept, Here, Noted, Has, Old, Included, local, Types, RowTypes,
        StepTypes, Record, Goto, Note, New
<1>8. ASSUME NEW s \in Services, Health(s) PROVE RowKept(s)'
  <2>1. Here(s) /\ RowKept(s)
    BY AtService DEF Rows
  <2> QED
    BY <1>8, <2>1
    DEF RowKept, Here, Noted, Has, Old, Included, local, Types, RowTypes,
        StepTypes, Health, Return, Note, Current
<1>9. ASSUME NEW s \in Services, Undo(s) PROVE RowKept(s)'
  <2>1. Here(s) /\ RowKept(s)
    BY AtService DEF Rows
  <2> QED
    BY <1>9, <2>1
    DEF RowKept, Here, Noted, Has, Old, Included, local, Types, RowTypes,
        StepTypes, Undo, Return
<1>10. ASSUME NEW s \in Services, UndoThrows(s) PROVE RowKept(s)'
  <2>1. Here(s) /\ RowKept(s)
    BY AtService DEF Rows
  <2> QED
    BY <1>10, <2>1
    DEF RowKept, Here, Noted, Has, Old, Included, local, Types, RowTypes,
        StepTypes, UndoThrows, Return
<1>11. ASSUME NEW s \in Services, Rollback(s) PROVE RowKept(s)'
  <2>1. Here(s) /\ RowKept(s) /\ res[s] = "deployed"
    BY <1>11, AtService DEF Rows, Rollback, LastExecuted, Executed
  <2>2. Has(s, "created") \/ Has(s, "reused")
    BY <2>1 DEF Here, Noted
  <2> QED
    BY <1>11, <2>1, <2>2
    DEF RowKept, Has, Old, Included, local, Types, StepTypes, Rollback, RollbackService
<1>12. ASSUME NEW s \in Services, RollbackThrows(s) PROVE RowKept(s)'
  <2>1. Here(s) /\ RowKept(s)
    BY AtService DEF Rows
  <2> QED
    BY <1>12, <2>1
    DEF RowKept, Here, Noted, Has, Old, Included, local, Types, RowTypes,
        StepTypes, RollbackThrows, New
<1>13. ASSUME NEW s \in Services, CatchRestore(s) PROVE RowKept(s)'
  <2>1. Here(s) /\ RowKept(s)
    BY AtService DEF Rows
  <2> QED
    BY <1>13, <2>1
    DEF RowKept, Here, Noted, Has, Old, Included, local, Types, RowTypes,
        StepTypes, CatchRestore
<1>14. ASSUME NEW s \in Services, CatchRestoreThrows(s) PROVE RowKept(s)'
  <2>1. Here(s) /\ RowKept(s)
    BY AtService DEF Rows
  <2> QED
    BY <1>14, <2>1
    DEF RowKept, Here, Noted, Has, Old, Included, local, Types, RowTypes,
        StepTypes, CatchRestoreThrows
<1>15. ASSUME NEW s \in Services, OfService(s) PROVE Rows'
  BY <1>15, <1>1, <1>2, <1>3, <1>4, <1>5, <1>6, <1>7, <1>8, <1>9, <1>10, <1>11,
     <1>12, <1>13, <1>14
  DEF OfService, ServiceStep, Rows
<1>16. ASSUME NEW active \in Files, NEW selected \in Selections(active),
             NEW changed \in SUBSET Applications(active),
             NEW approved \in SUBSET (Resources \cap active),
             Begin(active, selected, changed, approved)
      PROVE  Rows'
  BY <1>16, BeginSets
  DEF Begin, Rows, RowKept, Here, Noted, Has, Old, Included, Types, RowTypes,
      StepTypes
<1>17. CASE CleanOrphans
  BY <1>17 DEF CleanOrphans, RemoveOrphans, Orphans, Sets, Rows, RowKept, Has, Old, Included, local,
           Progress, Noted, Starting
<1>18. CASE OrphansThrow
  BY <1>18 DEF OrphansThrow, RemoveOrphans, Orphans, Sets, Rows, RowKept, Has, Old, Included, local,
           Progress, Noted, Starting
<1>19. CASE PrepareImages
  BY <1>19, AtService
  DEF Rows, RowKept, Here, Noted, Has, Old, Included, Types, RowTypes,
      StepTypes, PrepareImages, local
<1>20. CASE PreClean
  BY <1>20, AtService
  DEF Rows, RowKept, Here, Noted, Has, Old, Included, Types, RowTypes,
      StepTypes, PreClean, local, Reuses
<1>21. CASE StartGroup
  BY <1>21, AtService
  DEF Rows, RowKept, Here, Noted, Has, Old, Included, Types, RowTypes,
      StepTypes, StartGroup, local, NextGroup, Reuses, Attempted, Ended
<1>22. CASE GroupFailed
  BY <1>22, AtService
  DEF Rows, RowKept, Here, Noted, Has, Old, Included, Types, RowTypes,
      StepTypes, GroupFailed, local, Attempted, Ended, Failed
<1>23. CASE GroupsDone
  BY <1>23, AtService
  DEF Rows, RowKept, Here, Noted, Has, Old, Included, Types, RowTypes,
      StepTypes, GroupsDone, local, Ended, Failed
<1>24. CASE RolledBack
  BY <1>24, AtService
  DEF Rows, RowKept, Here, Noted, Has, Old, Included, Types, RowTypes,
      StepTypes, RolledBack, local, Executed
<1>25. CASE Reconcile
  BY <1>25, AtService
  DEF Rows, RowKept, Here, Noted, Has, Old, Included, Types, RowTypes,
      StepTypes, Reconcile, local, Reported, New, Failed
<1>26. CASE CatchClean
  BY <1>26, AtService
  DEF Rows, RowKept, Here, Noted, Has, Old, Included, Types, RowTypes,
      StepTypes, CatchClean, local, New
<1>27. CASE CatchRestored
  BY <1>27, AtService
  DEF Rows, RowKept, Here, Noted, Has, Old, Included, Types, RowTypes,
      StepTypes, CatchRestored, local, Swapped
<1>28. CASE CatchRows
  BY <1>28, AtService
  DEF Rows, RowKept, Here, Noted, Has, Old, Included, Types, RowTypes,
      StepTypes, CatchRows, local
<1>29. CASE StopCompose
  BY <1>29, AtService
  DEF Rows, RowKept, Here, Noted, Has, Old, Included, Types, RowTypes,
      StepTypes, StopCompose, local, Quiet, Forget, Existing
<1>30. CASE Crash
  BY <1>30, AtService
  DEF Rows, RowKept, Here, Noted, Has, Old, Included, Types, RowTypes,
      StepTypes, Crash, local, Forget, Quiet, Swapped
<1>31. CASE UNCHANGED vars
  BY <1>31
  DEF vars, local, Rows, RowKept, Same, Has, Old, Included
<1> QED
  BY <1>15, <1>16, <1>17, <1>18, <1>19, <1>20, <1>21, <1>22, <1>23, <1>24,
     <1>25, <1>26, <1>27, <1>28, <1>29, <1>30, <1>31
  DEF Next, DeployStep, OfService, Request

(* Every step keeps what became healthy until it is rolled back.           *)
LEMMA NextDeployed ==
  ASSUME Types, Sets, Progress, Numbers, Aside, Deployed, [Next]_vars
  PROVE  Deployed'
<1>1. ASSUME NEW s \in Services, OfService(s) PROVE \A t \in Services : t # s => UpIfDeployed(t)'
  BY <1>1, Others
  DEF Deployed, UpIfDeployed, Healthy, Same, Has, Old, Ordered, Current, Role
<1>2. ASSUME NEW s \in Services, Reuse(s) PROVE UpIfDeployed(s)'
  <2>1. Here(s) /\ UpIfDeployed(s)
    BY AtService DEF Deployed
  <2> QED
    BY <1>2, <2>1, ReuseDock
    DEF UpIfDeployed, Healthy, Here, Noted, Has, Old, Ordered, Starting, Role,
        Current, local, Types, StepTypes, Reuse, Goto, Return, Note
<1>3. ASSUME NEW s \in Services, Build(s) PROVE UpIfDeployed(s)'
  <2>1. Here(s) /\ UpIfDeployed(s)
    BY AtService DEF Deployed
  <2> QED
    BY <1>3, <2>1
    DEF UpIfDeployed, Healthy, Here, Noted, Has, Old, Ordered, Starting, Role,
        Current, local, Types, StepTypes, Build, Goto
<1>4. ASSUME NEW s \in Services, Take(s) PROVE UpIfDeployed(s)'
  <2>1. Here(s) /\ UpIfDeployed(s)
    BY AtService DEF Deployed
  <2> QED
    BY <1>4, <2>1, TakeDock
    DEF UpIfDeployed, Healthy, Here, Noted, Has, Old, Ordered, Starting, Role,
        Current, local, Types, StepTypes, Take, Goto, Note
<1>5. ASSUME NEW s \in Services, SwapFails(s) PROVE UpIfDeployed(s)'
  <2>1. Here(s) /\ UpIfDeployed(s)
    BY AtService DEF Deployed
  <2> QED
    BY <1>5, <2>1, SwapFailsDock
    DEF UpIfDeployed, Healthy, Here, Noted, Has, Old, Ordered, Starting, Role,
        Current, local, Types, StepTypes, SwapFails, Goto
<1>6. ASSUME NEW s \in Services, Run(s) PROVE UpIfDeployed(s)'
  <2>1. Here(s) /\ UpIfDeployed(s)
    BY AtService DEF Deployed
  <2> QED
    BY <1>6, <2>1, RunDock
    DEF UpIfDeployed, Healthy, Here, Noted, Has, Old, Ordered, Starting, Role,
        Current, local, Types, StepTypes, Run, Goto, New
<1>7. ASSUME NEW s \in Services, Record(s) PROVE UpIfDeployed(s)'
  <2>1. Here(s) /\ UpIfDeployed(s)
    BY AtService DEF Deployed
  <2> QED
    BY <1>7, <2>1
    DEF UpIfDeployed, Healthy, Here, Noted, Has, Old, Ordered, Starting, Role,
        Current, local, Types, StepTypes, Record, Goto, Note, New
<1>8. ASSUME NEW s \in Services, Health(s) PROVE UpIfDeployed(s)'
  <2>1. /\ Here(s) /\ phase' = phase /\ before' = before /\ gen' = gen /\ req' = req
        /\ pc[s] = "health"
    BY <1>8, AtService DEF Health, local
  <2>2. SUFFICES ASSUME Ordered, res'[s] = "deployed" PROVE Healthy(s)'
    BY <2>1 DEF UpIfDeployed, Ordered
  <2>3. /\ Has(s, "deployment") /\ (Has(s, "created") \/ Has(s, "reused"))
        /\ ~Has(s, "restored") /\ ~Has(s, "jobFailure") /\ gen # 0
    BY <2>1, <2>2 DEF Here, Noted, Ordered, Has
  <2>4. /\ notes'[s] = notes[s] \/ (notes'[s] = notes[s] \cup {"completed"} /\ Role(s) = "job")
        /\ Role(s) = "job" => "completed" \in notes'[s]
        /\ dock[s].box[Current(s)] # "none" /\ (Role(s) = "service" => dock[s].box[Current(s)] = "up")
    BY <1>8, <2>2 DEF Health, Return, Note, Role, Types, StepTypes
  <2>5. Current(s)' = Current(s) /\ Role(s)' = Role(s)
    BY <2>1, <2>4 DEF Current, Role, Has, Old
  <2>6. /\ Current(s) \in Gens /\ dock'[s].named = dock[s].named
        /\ dock'[s].box[Current(s)] # "none"
        /\ Role(s) = "service" => dock'[s].box[Current(s)] = "up"
    BY <1>8, <2>2, <2>4, HealthDock DEF Put, Role
  <2>7. ~Has(s, "reused") => dock[s].named = gen
    BY <2>1, <2>3, <2>4 DEF Current, Here, DockNumber
  <2> QED BY <2>1, <2>3, <2>4, <2>5, <2>6, <2>7 DEF Healthy, Has
<1>9. ASSUME NEW s \in Services, Undo(s) PROVE UpIfDeployed(s)'
  <2>1. Here(s) /\ UpIfDeployed(s)
    BY AtService DEF Deployed
  <2> QED
    BY <1>9, <2>1, UndoDock
    DEF UpIfDeployed, Healthy, Here, Noted, Has, Old, Ordered, Starting, Role,
        Current, local, Types, StepTypes, Undo, Return
<1>10. ASSUME NEW s \in Services, UndoThrows(s) PROVE UpIfDeployed(s)'
  <2>1. Here(s) /\ UpIfDeployed(s)
    BY AtService DEF Deployed
  <2> QED
    BY <1>10, <2>1, UndoThrowsDock
    DEF UpIfDeployed, Healthy, Here, Noted, Has, Old, Ordered, Starting, Role,
        Current, local, Types, StepTypes, UndoThrows, Return
<1>11. ASSUME NEW s \in Services, Rollback(s) PROVE UpIfDeployed(s)'
  <2>1. Here(s) /\ UpIfDeployed(s)
    BY AtService DEF Deployed
  <2> QED
    BY <1>11, <2>1, RollbackDock
    DEF UpIfDeployed, Healthy, Here, Noted, Has, Old, Ordered, Starting, Role,
        Current, local, Types, StepTypes, Rollback, RollbackService, New
<1>12. ASSUME NEW s \in Services, RollbackThrows(s) PROVE UpIfDeployed(s)'
  <2>1. Here(s) /\ UpIfDeployed(s)
    BY AtService DEF Deployed
  <2> QED
    BY <1>12, <2>1, RollbackThrowsDock
    DEF UpIfDeployed, Healthy, Here, Noted, Has, Old, Ordered, Starting, Role,
        Current, local, Types, StepTypes, RollbackThrows, New
<1>13. ASSUME NEW s \in Services, CatchRestore(s) PROVE UpIfDeployed(s)'
  <2>1. Here(s) /\ UpIfDeployed(s)
    BY AtService DEF Deployed
  <2> QED
    BY <1>13, <2>1, CatchRestoreDock
    DEF UpIfDeployed, Healthy, Here, Noted, Has, Old, Ordered, Starting, Role,
        Current, local, Types, StepTypes, CatchRestore
<1>14. ASSUME NEW s \in Services, CatchRestoreThrows(s) PROVE UpIfDeployed(s)'
  <2>1. Here(s) /\ UpIfDeployed(s)
    BY AtService DEF Deployed
  <2> QED
    BY <1>14, <2>1, CatchRestoreThrowsDock
    DEF UpIfDeployed, Healthy, Here, Noted, Has, Old, Ordered, Starting, Role,
        Current, local, Types, StepTypes, CatchRestoreThrows
<1>15. ASSUME NEW s \in Services, OfService(s) PROVE Deployed'
  BY <1>15, <1>1, <1>2, <1>3, <1>4, <1>5, <1>6, <1>7, <1>8, <1>9, <1>10, <1>11,
     <1>12, <1>13, <1>14
  DEF OfService, ServiceStep, Deployed
<1>16. ASSUME NEW active \in Files, NEW selected \in Selections(active),
             NEW changed \in SUBSET Applications(active),
             NEW approved \in SUBSET (Resources \cap active),
             Begin(active, selected, changed, approved)
      PROVE  Deployed'
  BY <1>16, BeginSets
  DEF Begin, Deployed, UpIfDeployed, Healthy, Here, Noted, Has, Old, Ordered,
      Current, Role
<1>17. CASE CleanOrphans
  <2>1. PICK S \in SUBSET Services : RemoveOrphans(S)
    BY <1>17 DEF CleanOrphans, Orphans
  <2> QED BY <1>17, <2>1, AtService, OrphansDock
    DEF Deployed, UpIfDeployed, Healthy, Here, Noted, Has, Old, Ordered,
        Current, Role, CleanOrphans, Loses, local
<1>18. CASE OrphansThrow
  <2>1. PICK S \in SUBSET Services : RemoveOrphans(S)
    BY <1>18 DEF OrphansThrow, Orphans
  <2> QED BY <1>18, <2>1, AtService, OrphansDock
    DEF Deployed, UpIfDeployed, Healthy, Here, Noted, Has, Old, Ordered,
        Current, Role, OrphansThrow, Loses, local
<1>19. CASE PrepareImages
  BY <1>19, AtService
  DEF Deployed, UpIfDeployed, Healthy, Here, Noted, Has, Old, Ordered, Current,
      Role, PrepareImages, local
<1>20. CASE PreClean
  BY <1>20 DEF PreClean, Progress, Noted, Starting, Deployed, UpIfDeployed
<1>21. CASE StartGroup
  BY <1>21, AtService
  DEF Deployed, UpIfDeployed, Healthy, Here, Noted, Has, Old, Ordered, Current,
      Role, StartGroup, local, NextGroup, Reuses, Attempted, Ended
<1>22. CASE GroupFailed
  BY <1>22, AtService
  DEF Deployed, UpIfDeployed, Healthy, Here, Noted, Has, Old, Ordered, Current,
      Role, GroupFailed, local, Attempted, Ended, Failed
<1>23. CASE GroupsDone
  BY <1>23, AtService
  DEF Deployed, UpIfDeployed, Healthy, Here, Noted, Has, Old, Ordered, Current,
      Role, GroupsDone, local, Ended, Failed
<1>24. CASE RolledBack
  BY <1>24, AtService
  DEF Deployed, UpIfDeployed, Healthy, Here, Noted, Has, Old, Ordered, Current,
      Role, RolledBack, local, Executed
<1>25. CASE Reconcile
  BY <1>25, AtService
  DEF Deployed, UpIfDeployed, Healthy, Here, Noted, Has, Old, Ordered, Current,
      Role, Reconcile, local, Reported, New, Failed
<1>26. CASE CatchClean
  BY <1>26, AtService, CatchCleanDock
  DEF Deployed, UpIfDeployed, Healthy, Here, Noted, Has, Old, Ordered, Current,
      Role, CatchClean, local, New, Loses
<1>27. CASE CatchRestored
  BY <1>27, AtService
  DEF Deployed, UpIfDeployed, Healthy, Here, Noted, Has, Old, Ordered, Current,
      Role, CatchRestored, local, Swapped
<1>28. CASE CatchRows
  BY <1>28, AtService
  DEF Deployed, UpIfDeployed, Healthy, Here, Noted, Has, Old, Ordered, Current,
      Role, CatchRows, local
<1>29. CASE StopCompose
  BY <1>29, AtService, StopDock
  DEF Deployed, UpIfDeployed, Healthy, Here, Noted, Has, Old, Ordered, Current,
      Role, StopCompose, local, Quiet, Forget, Existing, Loses
<1>30. CASE Crash
  BY <1>30, AtService
  DEF Deployed, UpIfDeployed, Healthy, Here, Noted, Has, Old, Ordered, Current,
      Role, Crash, local, Forget, Quiet, Swapped
<1>31. CASE UNCHANGED vars
  BY <1>31
  DEF vars, local, Deployed, UpIfDeployed, Healthy, Same, Has, Old, Ordered,
      Current, Role
<1> QED
  BY <1>15, <1>16, <1>17, <1>18, <1>19, <1>20, <1>21, <1>22, <1>23, <1>24,
     <1>25, <1>26, <1>27, <1>28, <1>29, <1>30, <1>31
  DEF Next, DeployStep, OfService, Request

(* Every step keeps the order of the groups.                               *)
LEMMA NextLayers ==
  ASSUME Types, Sets, Progress, Layers, [Next]_vars
  PROVE  Layers'
<1> USE DEF Layers, Depends, Included
<1>1. ASSUME NEW s \in Services, ServiceStep(s) PROVE Layers'
  <2>1. /\ res[s] = "none" /\ pc[s] \notin {"wait", "end"}
        /\ pc'[s] # "wait" /\ res'[s] \in {"none", "deployed", "failed"}
    BY <1>1 DEF ServiceStep, Reuse, Build, Take, SwapFails, Run, Record, Health, Undo, UndoThrows,
                Goto, Return, Progress, Noted, Types, StepTypes
  <2>2. phase \notin {"rollback", "reconcile"}
    BY <2>1 DEF Progress, Noted
  <2>3. /\ phase' = phase \/ phase' = "catch" \/ phase' = "done"
        /\ \A t \in Services : t # s => pc'[t] = pc[t] /\ res'[t] = res[t]
    BY <1>1, Others DEF OfService, Same
  <2>4. req' = req
    BY <1>1, Others DEF OfService
  <2>5. CASE phase' = phase /\ phase = "group"
    <3>1. ASSUME NEW t \in Services, pc'[t] # "wait", NEW d \in Depends(t) PROVE res'[d] = "deployed"
      <4>1. d \in Services /\ pc[t] # "wait"
        BY <2>1, <2>3, <3>1 DEF Types, StepTypes, Requests
      <4>2. res[d] = "deployed"
        BY <2>5, <3>1, <4>1
      <4> QED BY <2>1, <2>3, <4>1, <4>2
    <3> QED BY <2>1, <2>3, <2>4, <2>5, <3>1
  <2> QED BY <2>2, <2>3, <2>5
<1>2. ASSUME NEW s \in Services, Rollback(s) \/ RollbackThrows(s) PROVE Layers'
  <2>1. /\ phase = "rollback" /\ phase' = phase /\ req' = req /\ s \in LastExecuted
        /\ res' = [res EXCEPT ![s] = "rolled_back"] \/ res' = [res EXCEPT ![s] = "rollback_failed"]
    BY <1>2 DEF Rollback, RollbackThrows, local
  <2>2. /\ res'[s] \notin {"deployed", "failed"} /\ res[s] = "deployed"
        /\ \A t \in Services : t # s => res'[t] = res[t]
    BY <2>1 DEF Types, StepTypes, LastExecuted, Executed
  <2>3. Failed' # {}
    BY <2>1, <2>2 DEF Failed, Types, StepTypes, Requests
  <2>4. \A t \in Executed' : t \in Executed /\ t # s /\ s \notin Depends(t)
    BY <2>1, <2>2 DEF Executed, LastExecuted, Types, StepTypes, Requests
  <2>5. \A t \in Executed : t # s => t \in Executed'
    BY <2>1, <2>2 DEF Executed, Types, StepTypes, Requests
  <2> QED BY <2>1, <2>3, <2>4, <2>5
<1>3. ASSUME NEW s \in Services, CatchRestore(s) \/ CatchRestoreThrows(s) PROVE Layers'
  BY <1>3 DEF CatchRestore, CatchRestoreThrows
<1>4. CASE StartGroup
  <2>1. /\ phase = "group" /\ phase' = phase /\ req' = req /\ res' = res
        /\ Failed = {} /\ Ended(Attempted)
    BY <1>4 DEF StartGroup, local
  <2>2. ASSUME NEW s \in Services, pc'[s] # "wait", NEW d \in Depends(s) PROVE res[d] = "deployed"
    <3>1. CASE pc[s] # "wait"
      BY <2>1, <3>1
    <3>2. CASE pc[s] = "wait"
      <4>1. s \in NextGroup
        BY <1>4, <2>2, <3>2 DEF StartGroup
      <4>2. d \in Attempted /\ d \in Services
        BY <4>1 DEF NextGroup, Attempted, Types, StepTypes, Requests
      <4>3. pc[d] = "end" /\ res[d] # "none" /\ res[d] # "failed"
        BY <2>1, <4>2 DEF Ended, Progress, Noted, Failed
      <4> QED BY <2>1, <4>2, <4>3
    <3> QED BY <3>1, <3>2
  <2> QED BY <2>1, <2>2
<1>5. CASE GroupFailed
  BY <1>5 DEF GroupFailed, local, Failed, Executed, Progress, Noted, Types, StepTypes, Requests
<1>6. CASE GroupsDone
  BY <1>6 DEF GroupsDone, local, Failed, Ended, Progress, Noted, Types, StepTypes, Requests
<1>7. CASE RolledBack
  BY <1>7 DEF RolledBack, local, Failed
<1>8. CASE PreClean
  BY <1>8 DEF PreClean, local, Progress, Noted, Starting
<1>9. CASE \/ CleanOrphans \/ OrphansThrow \/ PrepareImages \/ Reconcile \/ CatchClean
           \/ CatchRestored \/ CatchRows \/ StopCompose \/ Crash
  BY <1>9 DEF CleanOrphans, OrphansThrow, PrepareImages, Reconcile, CatchClean,
              CatchRestored, CatchRows, StopCompose, Crash, Forget
<1>10. CASE Request
  BY <1>10 DEF Request, Begin
<1>11. CASE UNCHANGED vars
  BY <1>11 DEF vars, local, Failed, Executed
<1> HIDE DEF Layers, Depends, Included
<1> QED
  BY <1>1, <1>2, <1>3, <1>4, <1>5, <1>6, <1>7, <1>8, <1>9, <1>10, <1>11
  DEF Next, DeployStep

(* A spared service that takes a step is relied on and has its container.  *)
LEMMA SparedService ==
  ASSUME Types, Sets, Progress, Spares, NEW s \in Services, OfService(s),
         s \in served', Spared(s)'
  PROVE  /\ Keeps(s) /\ s \notin req.replace /\ s \in req.prereq /\ Role(s) = "service"
         /\ pc[s] \in {"reuse", "health", "end"} /\ phase # "idle"
<1>1. /\ gen' = gen /\ req' = req /\ before' = before /\ served' = served
  BY Others
<1>2. Noted(s) /\ Sparing(s)
  BY DEF Progress, Spares
<1>3. pc[s] # "wait" /\ pc'[s] # "wait"
  <2>1. CASE ServiceStep(s)
    BY <2>1 DEF ServiceStep, Reuse, Build, Take, SwapFails, Run, Record, Health, Undo, UndoThrows,
                Goto, Return, Types, StepTypes
  <2>2. CASE Rollback(s) \/ RollbackThrows(s)
    BY <1>2, <2>2 DEF Rollback, RollbackThrows, LastExecuted, Executed, Noted
  <2>3. CASE CatchRestore(s) \/ CatchRestoreThrows(s)
    BY <1>2, <2>3 DEF CatchRestore, CatchRestoreThrows, Noted, Has
  <2> QED BY <2>1, <2>2, <2>3 DEF OfService
<1>4. s \in Included /\ phase # "idle"
  BY <1>2, <1>3 DEF Noted, Starting
<1>5. s \notin req.replace /\ Role(s) = "service" /\ s \notin Orphans
  BY <1>1, <1>3, <1>4 DEF Spared, Included, Role, Orphans
<1>6. s \in req.prereq
  BY <1>4, <1>5 DEF Included, Sets, Role
<1>7. Keeps(s)
  BY <1>1, <1>2, <1>4, <1>5 DEF Sparing, Spared
<1> QED BY <1>3, <1>4, <1>5, <1>6, <1>7 DEF Keeps

(* Every step keeps what the deploy spares.                                *)
LEMMA NextSpares ==
  ASSUME Types, Sets, Progress, Numbers, Aside, Rows, Spares, [Next]_vars
  PROVE  Spares'
<1>1. ASSUME NEW s \in Services, OfService(s) PROVE \A t \in Services : t # s => Sparing(t)'
  BY <1>1, Others
  DEF Spares, Sparing, Spared, Keeps, Orphans, Role, Included, Same, Old
<1>2. ASSUME NEW s \in Services, Reuse(s) PROVE Sparing(s)'
  <2>1. SUFFICES ASSUME s \in served', Spared(s)' PROVE Keeps(s)'
    BY DEF Sparing
  <2>2. Keeps(s) /\ s \notin req.replace /\ Here(s) /\ s \in req.prereq
    BY <1>2, <2>1, SparedService, AtService DEF OfService, ServiceStep
  <2>3. /\ before' = before /\ req' = req /\ phase' = phase /\ outcome' = outcome /\ Old(s)' = Old(s)
        /\ pc[s] = "reuse" /\ notes[s] = {}
    BY <1>2, <2>2 DEF Reuse, local, Old, Here, Noted
  <2>4. \/ /\ pc'[s] = "health" /\ notes'[s] = {"deployment", "reused"}
           /\ row'[s].st = "running" /\ row'[s].cid = row[s].cid
        \/ pc'[s] = "end" /\ notes' = notes /\ row' = row
    BY <1>2, <2>2, <2>3 DEF Reuse, Goto, Return, Note, Keeps, Types, StepTypes, RowTypes
  <2>5. dock'[s].named = dock[s].named /\ dock'[s].box[Old(s)] = "up"
    BY <1>2, <2>2, ReuseDock DEF Put, Keeps
  <2> QED BY <2>2, <2>3, <2>4, <2>5 DEF Keeps
<1>3. ASSUME NEW s \in Services, Build(s) PROVE Sparing(s)'
  <2>1. SUFFICES ASSUME s \in served', Spared(s)' PROVE FALSE
    BY DEF Sparing
  <2>2. pc[s] \in {"reuse", "health", "end"}
    BY <1>3, <2>1, SparedService DEF OfService, ServiceStep
  <2> QED BY <1>3, <2>2 DEF Build
<1>4. ASSUME NEW s \in Services, Take(s) PROVE Sparing(s)'
  <2>1. SUFFICES ASSUME s \in served', Spared(s)' PROVE FALSE
    BY DEF Sparing
  <2>2. pc[s] \in {"reuse", "health", "end"}
    BY <1>4, <2>1, SparedService DEF OfService, ServiceStep
  <2> QED BY <1>4, <2>2 DEF Take
<1>5. ASSUME NEW s \in Services, SwapFails(s) PROVE Sparing(s)'
  <2>1. SUFFICES ASSUME s \in served', Spared(s)' PROVE FALSE
    BY DEF Sparing
  <2>2. pc[s] \in {"reuse", "health", "end"}
    BY <1>5, <2>1, SparedService DEF OfService, ServiceStep
  <2> QED BY <1>5, <2>2 DEF SwapFails
<1>6. ASSUME NEW s \in Services, Run(s) PROVE Sparing(s)'
  <2>1. SUFFICES ASSUME s \in served', Spared(s)' PROVE FALSE
    BY DEF Sparing
  <2>2. pc[s] \in {"reuse", "health", "end"}
    BY <1>6, <2>1, SparedService DEF OfService, ServiceStep
  <2> QED BY <1>6, <2>2 DEF Run
<1>7. ASSUME NEW s \in Services, Record(s) PROVE Sparing(s)'
  <2>1. SUFFICES ASSUME s \in served', Spared(s)' PROVE FALSE
    BY DEF Sparing
  <2>2. pc[s] \in {"reuse", "health", "end"}
    BY <1>7, <2>1, SparedService DEF OfService, ServiceStep
  <2> QED BY <1>7, <2>2 DEF Record
<1>8. ASSUME NEW s \in Services, Health(s) PROVE Sparing(s)'
  <2>1. SUFFICES ASSUME s \in served', Spared(s)' PROVE Keeps(s)'
    BY DEF Sparing
  <2>2. Keeps(s) /\ s \notin req.replace /\ Here(s) /\ s \in req.prereq /\ Role(s) = "service"
    BY <1>8, <2>1, SparedService, AtService DEF OfService, ServiceStep
  <2>3. /\ before' = before /\ req' = req /\ phase' = phase /\ outcome' = outcome /\ Old(s)' = Old(s)
        /\ row' = row /\ Has(s, "reused")
    BY <1>8, <2>2 DEF Health, local, Old, Here, Noted, Keeps, Has
  <2>4. dock' = dock /\ notes' = notes /\ pc'[s] = "end"
    BY <1>8, <2>2, <2>3 DEF Health, Return, Types, StepTypes
  <2> QED BY <2>2, <2>3, <2>4 DEF Keeps
<1>9. ASSUME NEW s \in Services, Undo(s) PROVE Sparing(s)'
  <2>1. SUFFICES ASSUME s \in served', Spared(s)' PROVE FALSE
    BY DEF Sparing
  <2>2. pc[s] \in {"reuse", "health", "end"}
    BY <1>9, <2>1, SparedService DEF OfService, ServiceStep
  <2> QED BY <1>9, <2>2 DEF Undo
<1>10. ASSUME NEW s \in Services, UndoThrows(s) PROVE Sparing(s)'
  <2>1. SUFFICES ASSUME s \in served', Spared(s)' PROVE FALSE
    BY DEF Sparing
  <2>2. pc[s] \in {"reuse", "health", "end"}
    BY <1>10, <2>1, SparedService DEF OfService, ServiceStep
  <2> QED BY <1>10, <2>2 DEF UndoThrows
<1>11. ASSUME NEW s \in Services, Rollback(s) PROVE Sparing(s)'
  <2>1. SUFFICES ASSUME s \in served', Spared(s)' PROVE Keeps(s)'
    BY DEF Sparing
  <2>2. Keeps(s) /\ s \notin req.replace
    BY <1>11, <2>1, SparedService DEF OfService
  <2>3. res[s] = "deployed" /\ Noted(s)
    BY <1>11 DEF Rollback, LastExecuted, Executed, Progress
  <2>4. Has(s, "reused")
    BY <2>2, <2>3 DEF Keeps, Has, Noted
  <2> QED BY <1>11, <2>2, <2>4 DEF Rollback, RollbackService, Keeps, Old, local
<1>12. ASSUME NEW s \in Services, RollbackThrows(s) PROVE Sparing(s)'
  <2>1. SUFFICES ASSUME s \in served', Spared(s)' PROVE FALSE
    BY DEF Sparing
  <2>2. Keeps(s)
    BY <1>12, <2>1, SparedService DEF OfService
  <2>3. res[s] = "deployed" /\ ~Has(s, "reused") /\ Noted(s)
    BY <1>12 DEF RollbackThrows, LastExecuted, Executed, Progress
  <2> QED BY <2>2, <2>3 DEF Keeps, Has, Noted
<1>13. ASSUME NEW s \in Services, CatchRestore(s) PROVE Sparing(s)'
  <2>1. SUFFICES ASSUME s \in served', Spared(s)' PROVE FALSE
    BY DEF Sparing
  <2>2. Keeps(s)
    BY <1>13, <2>1, SparedService DEF OfService
  <2> QED BY <1>13, <2>2 DEF CatchRestore, Keeps, Has
<1>14. ASSUME NEW s \in Services, CatchRestoreThrows(s) PROVE Sparing(s)'
  <2>1. SUFFICES ASSUME s \in served', Spared(s)' PROVE FALSE
    BY DEF Sparing
  <2>2. Keeps(s)
    BY <1>14, <2>1, SparedService DEF OfService
  <2> QED BY <1>14, <2>2 DEF CatchRestoreThrows, Keeps, Has
<1>15. ASSUME NEW s \in Services, OfService(s) PROVE Spares'
  BY <1>15, <1>1, <1>2, <1>3, <1>4, <1>5, <1>6, <1>7, <1>8, <1>9, <1>10, <1>11,
     <1>12, <1>13, <1>14
  DEF OfService, ServiceStep, Spares
<1>16. ASSUME NEW active \in Files, NEW selected \in Selections(active),
             NEW changed \in SUBSET Applications(active),
             NEW approved \in SUBSET (Resources \cap active),
             Begin(active, selected, changed, approved)
      PROVE  Spares'
  <2>1. /\ Sets' /\ before' = row /\ served' = {s \in Services : Serves(s)} /\ dock' = dock
        /\ phase' \in {"orphans", "images"}
        /\ pc' = [s \in Services |-> "wait"] /\ notes' = [s \in Services |-> {}]
        /\ row' = [s \in Services |->
                     IF \/ s \in req'.replace \cup req'.hooks
                        \/ s \in req'.prereq /\ row[s].cid = None
                     THEN [row[s] EXCEPT !.st = "building"] ELSE row[s]]
    BY <1>16, BeginSets DEF Begin
  <2>2. SUFFICES ASSUME NEW s \in Services, s \in served', Spared(s)' PROVE Keeps(s)'
    BY DEF Spares, Sparing
  <2>3. Serves(s)
    BY <2>1, <2>2
  <2>4. s \notin req'.hooks
    BY <2>1, <2>2 DEF Spared, Sets, Role, Included
  <2>5. row'[s].cid = row[s].cid /\ (s \notin req'.replace => row'[s] = row[s])
    BY <2>1, <2>3, <2>4 DEF Serves, Types, RowTypes
  <2> QED BY <2>1, <2>3, <2>5 DEF Serves, Keeps, Old
<1>17. CASE CleanOrphans
  <2>1. PICK S \in SUBSET Orphans : RemoveOrphans(S)
    BY <1>17 DEF CleanOrphans
  <2>2. SUFFICES ASSUME NEW s \in Services, s \in served, Spared(s) PROVE Keeps(s)'
    BY <1>17 DEF CleanOrphans, local, Spares, Sparing, Spared, Orphans, Role, Included
  <2>3. Keeps(s) /\ s \notin S
    BY <1>17, <2>1, <2>2 DEF CleanOrphans, Spares, Sparing, Spared
  <2>4. row'[s] = row[s] /\ dock'[s] = dock[s]
    BY <2>1, <2>3 DEF RemoveOrphans
  <2> QED BY <1>17, <2>3, <2>4 DEF CleanOrphans, local, Keeps, Old
<1>18. CASE OrphansThrow
  <2>1. PICK S \in SUBSET Orphans : RemoveOrphans(S)
    BY <1>18 DEF OrphansThrow
  <2>2. SUFFICES ASSUME NEW s \in Services, s \in served, Spared(s) PROVE Keeps(s)'
    BY <1>18 DEF OrphansThrow, local, Spares, Sparing, Spared, Orphans, Role, Included
  <2>3. Keeps(s) /\ s \notin S
    BY <1>18, <2>1, <2>2 DEF OrphansThrow, Spares, Sparing, Spared
  <2>4. row'[s] = row[s] /\ dock'[s] = dock[s]
    BY <2>1, <2>3 DEF RemoveOrphans
  <2> QED BY <1>18, <2>3, <2>4 DEF OrphansThrow, local, Keeps, Old
<1>19. CASE PrepareImages
  BY <1>19, AtService
  DEF Spares, Sparing, Spared, Keeps, Here, Noted, Has, Old, Included, Orphans,
      Role, Types, StepTypes, RowTypes, PrepareImages, local
<1>20. CASE PreClean
  <2>1. SUFFICES ASSUME NEW s \in Services, s \in served, Spared(s) PROVE Keeps(s)'
    BY <1>20 DEF PreClean, local, Spares, Sparing, Spared, Orphans, Role, Included
  <2>2. Keeps(s)
    BY <1>20, <2>1 DEF PreClean, Spares, Sparing
  <2>3. ~(s \in Included \ req.replace /\ ~Reuses(s))
    BY <2>1, <2>2 DEF Spared, Keeps, Reuses, Included, Sets, Role, Old
  <2>4. dock'[s] = dock[s]
    BY <1>20, <2>3, PreCleanDock
  <2> QED BY <1>20, <2>2, <2>4 DEF PreClean, local, Keeps, Old
<1>21. CASE StartGroup
  BY <1>21, AtService
  DEF Spares, Sparing, Spared, Keeps, Here, Noted, Has, Old, Included, Orphans,
      Role, Types, StepTypes, RowTypes, StartGroup, local, NextGroup, Reuses,
      Attempted, Ended
<1>22. CASE GroupFailed
  BY <1>22, AtService
  DEF Spares, Sparing, Spared, Keeps, Here, Noted, Has, Old, Included, Orphans,
      Role, Types, StepTypes, RowTypes, GroupFailed, local, Attempted, Ended,
      Failed
<1>23. CASE GroupsDone
  BY <1>23, AtService
  DEF Spares, Sparing, Spared, Keeps, Here, Noted, Has, Old, Included, Orphans,
      Role, Types, StepTypes, RowTypes, GroupsDone, local, Ended, Failed
<1>24. CASE RolledBack
  BY <1>24, AtService
  DEF Spares, Sparing, Spared, Keeps, Here, Noted, Has, Old, Included, Orphans,
      Role, Types, StepTypes, RowTypes, RolledBack, local, Executed
<1>25. CASE Reconcile
  BY <1>25, AtService
  DEF Spares, Sparing, Spared, Keeps, Here, Noted, Has, Old, Included, Orphans,
      Role, Types, StepTypes, RowTypes, Reconcile, local, Reported, New, Failed
<1>26. CASE CatchClean
  <2>1. SUFFICES ASSUME NEW s \in Services, s \in served, Spared(s) PROVE Keeps(s)'
    BY <1>26 DEF CatchClean, local, Spares, Sparing, Spared, Orphans, Role, Included
  <2>2. Keeps(s)
    BY <1>26, <2>1 DEF CatchClean, Spares, Sparing
  <2>3. ~Has(s, "created")
    BY <2>2 DEF Keeps, Has
  <2>4. dock'[s] = dock[s]
    BY <1>26, <2>3, CatchCleanDock
  <2> QED BY <1>26, <2>2, <2>4 DEF CatchClean, local, Keeps, Old
<1>27. CASE CatchRestored
  BY <1>27, AtService
  DEF Spares, Sparing, Spared, Keeps, Here, Noted, Has, Old, Included, Orphans,
      Role, Types, StepTypes, RowTypes, CatchRestored, local, Swapped
<1>28. CASE CatchRows
  BY SMTT(30), <1>28, AtService
  DEF Spares, Sparing, Spared, Keeps, Here, Noted, Has, Old, Included, Orphans,
      Role, Types, StepTypes, RowTypes, CatchRows, local
<1>29. CASE StopCompose
  BY <1>29, AtService, StopDock
  DEF Spares, Sparing, Spared, Keeps, Here, Noted, Has, Old, Included, Orphans,
      Role, Types, StepTypes, RowTypes, StopCompose, local, Quiet, Forget,
      Existing, Loses
<1>30. CASE Crash
  BY <1>30, AtService
  DEF Spares, Sparing, Spared, Keeps, Here, Noted, Has, Old, Included, Orphans,
      Role, Types, StepTypes, RowTypes, Crash, local, Forget, Quiet, Swapped
<1>31. CASE UNCHANGED vars
  BY <1>31
  DEF vars, local, Spares, Sparing, Spared, Keeps, Orphans, Role, Included,
      Same, Old
<1> QED
  BY <1>15, <1>16, <1>17, <1>18, <1>19, <1>20, <1>21, <1>22, <1>23, <1>24,
     <1>25, <1>26, <1>27, <1>28, <1>29, <1>30, <1>31
  DEF Next, DeployStep, OfService, Request

(* Every step keeps the containers of the rows under the names.            *)
LEMMA NextRecorded ==
  ASSUME Types, Sets, Progress, Numbers, Aside, Rows, Recorded, [Next]_vars
  PROVE  Recorded'
<1>1. ASSUME NEW s \in Services, OfService(s) PROVE \A t \in Services : t # s => Accounted(t)'
  BY <1>1, Others
  DEF Recorded, Accounted, Whole, Same, Has, Old
<1>2. ASSUME NEW s \in Services, Reuse(s) PROVE Accounted(s)'
  <2>1. /\ Here(s) /\ Accounted(s) /\ Old(s)' = Old(s) /\ torn' = torn
        /\ pc[s] = "reuse" /\ row'[s].cid = row[s].cid
    BY <1>2, AtService DEF Recorded, Reuse, local, Old, Types, RowTypes
  <2>2. (s \in torn \/ Whole(s)) /\ ~Has(s, "restored")' /\ row[s].cid \in Gens \cup {None}
    BY <1>2, <2>1 DEF Accounted, Here, Noted, Reuse, Note, Goto, Return, Has, Types, StepTypes
  <2>3. CASE pc'[s] = "health"
    <3>1. dock[s].box[Old(s)] # "none" /\ Put(s, dock[s].named, Old(s), "up")
      BY <1>2, <2>3, ReuseDock
    <3>2. s \in torn \/ Whole(s)'
      BY <2>1, <2>2, <3>1 DEF Whole, Put
    <3> QED BY <2>1, <2>2, <3>2 DEF Accounted
  <2>4. CASE dock' = dock
    BY <2>1, <2>2, <2>4 DEF Accounted, Whole
  <2> QED BY <1>2, <2>3, <2>4, ReuseDock
<1>3. ASSUME NEW s \in Services, Build(s) PROVE Accounted(s)'
  <2>1. Here(s) /\ Accounted(s) /\ RowKept(s)
    BY AtService DEF Recorded, Rows
  <2> QED
    BY <1>3, <2>1
    DEF Accounted, Whole, RowKept, Here, Noted, DockNumber, Has, Old, Included,
        local, Types, StepTypes, RowTypes, Put, Back, Build, Goto
<1>4. ASSUME NEW s \in Services, Take(s) PROVE Accounted(s)'
  <2>1. /\ Here(s) /\ Accounted(s) /\ Old(s)' = Old(s) /\ torn' = torn /\ row' = row /\ pc[s] = "take"
    BY <1>4, AtService DEF Recorded, Take, local, Old
  <2>2. /\ s \in torn \/ Whole(s)
        /\ notes[s] = {} /\ row[s].cid \in Gens \cup {None} /\ None \notin Gens
    BY <2>1 DEF Accounted, Here, Noted, Has
  <2>3. CASE s \in req.approved
    <3>1. pc'[s] = "run" /\ notes'[s] = {"swap"}
      BY <1>4, <2>2, <2>3 DEF Take, Goto, Note, Types, StepTypes
    <3> QED BY <3>1 DEF Accounted, Has
  <2>4. CASE s \notin req.approved
    <3>1. notes' = notes /\ Put(s, None, dock[s].named, "none")
      BY <1>4, <2>4, TakeDock DEF Take
    <3>2. s \in torn \/ Whole(s)'
      BY <2>1, <2>2, <3>1 DEF Whole, Put
    <3> QED BY <2>1, <2>2, <3>1, <3>2 DEF Accounted, Has
  <2> QED BY <2>3, <2>4
<1>5. ASSUME NEW s \in Services, SwapFails(s) PROVE Accounted(s)'
  <2>1. /\ Here(s) /\ Accounted(s) /\ Old(s)' = Old(s) /\ row' = row /\ pc[s] = "take"
        /\ notes' = notes
    BY <1>5, AtService DEF Recorded, SwapFails, local, Old
  <2>2. (s \in torn \/ Whole(s)) /\ notes[s] = {} /\ row[s].cid \in Gens \cup {None}
    BY <2>1 DEF Accounted, Here, Noted, Has
  <2>3. s \in torn' \/ Whole(s)'
    <3>1. CASE dock' = dock /\ torn' = torn
      BY <2>1, <2>2, <3>1 DEF Whole
    <3>2. CASE Put(s, dock[s].named, Old(s), "up") /\ torn' = torn /\ dock[s].box[Old(s)] # "none"
      BY <2>1, <2>2, <3>2 DEF Whole, Put
    <3>3. CASE torn' = torn \cup {s}
      BY <3>3
    <3> QED BY <1>5, <3>1, <3>2, <3>3, SwapFailsDock
  <2> QED BY <2>1, <2>2, <2>3 DEF Accounted, Has
<1>6. ASSUME NEW s \in Services, Run(s) PROVE Accounted(s)'
  <2>1. /\ Here(s) /\ Accounted(s) /\ RowKept(s) /\ Old(s)' = Old(s) /\ torn' = torn /\ row' = row
        /\ notes' = notes /\ pc[s] = "run" /\ pc'[s] \in {"record", "undo"}
    BY <1>6, AtService DEF Recorded, Rows, Run, Goto, local, Old, Types, StepTypes
  <2>2. /\ row[s].cid = Old(s) /\ row[s].cid \in Gens \cup {None} /\ gen \in Gens
        /\ Old(s) # gen /\ None \notin Gens
    BY <2>1 DEF Here, Noted, RowKept, Has, Old, Starting
  <2>3. CASE dock' = dock
    BY <2>1, <2>3 DEF Accounted, Whole, Has
  <2>4. CASE dock[s].named = None /\ \E st \in {"up", "down"} : Put(s, gen, gen, st)
    <3>1. dock'[s].box[Old(s)] = dock[s].box[Old(s)] \/ Old(s) = None
      BY <2>2, <2>4 DEF Put
    <3>2. (s \in torn \/ (Has(s, "swap") /\ pc'[s] \in {"run", "record", "undo"})) \/ Whole(s)'
      BY <2>1, <2>2, <2>4, <3>1 DEF Accounted, Whole
    <3>3. Has(s, "restored") => Old(s) # None /\ dock[s].box[Old(s)] = "none"
      BY <2>1, <2>2, <2>4 DEF Accounted
    <3> QED BY <2>1, <3>1, <3>2, <3>3 DEF Accounted, Has
  <2> QED BY <1>6, <2>3, <2>4, RunDock
<1>7. ASSUME NEW s \in Services, Record(s) PROVE Accounted(s)'
  <2>1. /\ Here(s) /\ Accounted(s) /\ Old(s)' = Old(s) /\ dock' = dock
        /\ row'[s].cid = gen /\ pc[s] = "record"
    BY <1>7, AtService DEF Recorded, Record, local, Old, New, Types, RowTypes
  <2>2. dock[s].box[gen] = "none" \/ dock[s].named = gen
    BY <2>1 DEF Here, Noted, DockNumber, Starting
  <2>3. Has(s, "restored")' <=> Has(s, "restored")
    BY <1>7 DEF Record, Note, Has, Types, StepTypes
  <2> QED BY <2>1, <2>2, <2>3 DEF Accounted, Whole
<1>8. ASSUME NEW s \in Services, Health(s) PROVE Accounted(s)'
  <2>1. /\ Here(s) /\ Accounted(s) /\ Old(s)' = Old(s) /\ torn' = torn /\ row' = row
        /\ pc[s] = "health"
    BY <1>8, AtService DEF Recorded, Health, local, Old
  <2>2. /\ s \in torn \/ Whole(s)
        /\ row[s].cid \in Gens \cup {None} /\ before[s].cid \in Gens \cup {None}
        /\ Has(s, "restored")' <=> Has(s, "restored")
    BY <1>8, <2>1 DEF Accounted, Here, Health, Note, Has, Types, StepTypes
  <2>3. CASE dock' = dock
    BY <2>1, <2>2, <2>3 DEF Accounted, Whole
  <2>4. CASE dock[s].box[Current(s)] # "none" /\ Put(s, dock[s].named, Current(s), "down")
    <3>1. s \in torn \/ Whole(s)'
      BY <2>1, <2>2, <2>4 DEF Whole, Put
    <3>2. Has(s, "restored") =>
            Old(s) # None /\ (dock'[s].box[Old(s)] = "none" \/ dock'[s].named = Old(s))
      BY <2>1, <2>2, <2>4 DEF Accounted, Put, Old
    <3> QED BY <2>1, <2>2, <3>1, <3>2 DEF Accounted
  <2> QED BY <1>8, <2>3, <2>4, HealthDock
<1>9. ASSUME NEW s \in Services, Undo(s) PROVE Accounted(s)'
  <2>1. Here(s) /\ Accounted(s) /\ Old(s)' = Old(s) /\ torn' = torn
    BY <1>9, AtService DEF Recorded, Undo, local, Old
  <2>2. CASE Has(s, "swap")
    <3>1. row'[s].cid = Old(s) /\ dock'[s].named = Old(s) /\ Old(s) \in Gens /\ Old(s) # None
      BY <1>9, <2>1, <2>2, UndoDock DEF Undo, Back, Here, Types, RowTypes
    <3> QED BY <2>1, <3>1 DEF Accounted, Whole
  <2>3. CASE ~Has(s, "swap")
    <3>1. Put(s, None, dock[s].named, "none")
      BY <1>9, <2>3, UndoDock
    <3>2. row'[s].cid = row[s].cid /\ notes' = notes /\ (s \in torn \/ Whole(s))
      BY <1>9, <2>1, <2>3 DEF Undo, Accounted, Types, RowTypes
    <3>3. row[s].cid \in Gens \cup {None} /\ before[s].cid \in Gens \cup {None} /\ None \notin Gens
      BY <2>1 DEF Here
    <3>4. s \in torn \/ Whole(s)'
      BY <3>1, <3>2, <3>3 DEF Whole, Put
    <3>5. Has(s, "restored") => Old(s) # None /\ dock'[s].box[Old(s)] = "none"
      BY <2>1, <3>1, <3>3 DEF Accounted, Put, Old
    <3> QED BY <2>1, <3>2, <3>4, <3>5 DEF Accounted, Has
  <2> QED BY <2>2, <2>3
<1>10. ASSUME NEW s \in Services, UndoThrows(s) PROVE Accounted(s)'
  <2>1. Here(s) /\ Accounted(s) /\ RowKept(s)
    BY AtService DEF Recorded, Rows
  <2> QED
    BY <1>10, <2>1, UndoThrowsDock
    DEF Accounted, Whole, RowKept, Here, Noted, DockNumber, Has, Old, Included,
        local, Types, StepTypes, RowTypes, Put, Back, UndoThrows, Return
<1>11. ASSUME NEW s \in Services, Rollback(s) PROVE Accounted(s)'
  <2>1. /\ Here(s) /\ Accounted(s) /\ Old(s)' = Old(s) /\ torn' = torn
        /\ pc' = pc /\ pc[s] \in {"wait", "end"}
    BY <1>11, AtService DEF Recorded, Rollback, local, Old, Here, Noted
  <2>2. CASE Has(s, "reused")
    BY <1>11, <2>1, <2>2 DEF Rollback, RollbackService, Accounted, Whole, Has
  <2>3. CASE ~Has(s, "reused") /\ Has(s, "swap")
    <3>1. dock'[s].named = Old(s) /\ Old(s) \in Gens
      BY <1>11, <2>3, RollbackDock DEF Back
    <3>2. row'[s].cid = Old(s)
      BY <1>11, <2>3 DEF Rollback, RollbackService, Types, RowTypes
    <3>3. Old(s) # None
      BY <2>1, <3>1 DEF Here
    <3> QED BY <2>1, <3>1, <3>2, <3>3 DEF Accounted, Whole
  <2>4. CASE ~Has(s, "reused") /\ ~Has(s, "swap")
    <3>1. Put(s, IF dock[s].named = gen THEN None ELSE dock[s].named, gen, "none")
      BY <1>11, <2>4, RollbackDock
    <3>2. row'[s].cid = None /\ (Has(s, "restored")' <=> Has(s, "restored"))
      BY <1>11, <2>4 DEF Rollback, RollbackService, Has, Types, RowTypes, StepTypes
    <3>3. Has(s, "restored") => Old(s) # None /\ Old(s) # gen /\ Old(s) \in Gens
      BY <2>1 DEF Accounted, Here, Old
    <3>4. Has(s, "restored") =>
            Old(s) # None /\ (dock'[s].box[Old(s)] = "none" \/ dock'[s].named = Old(s))
      BY <2>1, <3>1, <3>3 DEF Accounted, Put
    <3> QED BY <2>1, <3>2, <3>4 DEF Accounted, Whole
  <2> QED BY <2>2, <2>3, <2>4
<1>12. ASSUME NEW s \in Services, RollbackThrows(s) PROVE Accounted(s)'
  <2>1. /\ Here(s) /\ Accounted(s) /\ Old(s)' = Old(s) /\ row' = row /\ notes' = notes /\ pc' = pc
    BY <1>12, AtService DEF Recorded, RollbackThrows, local, Old
  <2>2. CASE dock' = dock /\ torn' = torn
    BY <2>1, <2>2 DEF Accounted, Whole, Has
  <2>3. CASE Has(s, "swap") /\ torn' = torn \cup {s}
    <3>1. ~Has(s, "restored")
      BY <2>1, <2>3 DEF Here, Noted
    <3> QED BY <2>1, <2>3, <3>1 DEF Accounted, Has
  <2> QED BY <1>12, <2>2, <2>3, RollbackThrowsDock
<1>13. ASSUME NEW s \in Services, CatchRestore(s) PROVE Accounted(s)'
  <2>1. Here(s) /\ Old(s)' = Old(s) /\ row'[s].cid = Old(s)
    BY <1>13, AtService DEF CatchRestore, local, Old, Types, RowTypes
  <2>2. dock'[s].named = Old(s) /\ Old(s) \in Gens /\ Old(s) # None
    BY <1>13, <2>1, CatchRestoreDock DEF Back, Here
  <2> QED BY <2>1, <2>2 DEF Accounted, Whole
<1>14. ASSUME NEW s \in Services, CatchRestoreThrows(s) PROVE Accounted(s)'
  <2>1. Here(s) /\ Has(s, "swap") /\ notes' = notes /\ s \in torn'
    BY <1>14, AtService DEF CatchRestoreThrows
  <2>2. ~Has(s, "restored")
    BY <2>1 DEF Here, Noted
  <2> QED BY <2>1, <2>2 DEF Accounted, Has
<1>15. ASSUME NEW s \in Services, OfService(s) PROVE Recorded'
  BY <1>15, <1>1, <1>2, <1>3, <1>4, <1>5, <1>6, <1>7, <1>8, <1>9, <1>10, <1>11,
     <1>12, <1>13, <1>14
  DEF OfService, ServiceStep, Recorded
<1>16. ASSUME NEW active \in Files, NEW selected \in Selections(active),
             NEW changed \in SUBSET Applications(active),
             NEW approved \in SUBSET (Resources \cap active),
             Begin(active, selected, changed, approved)
      PROVE  Recorded'
  <2>1. /\ dock' = dock /\ torn' = torn /\ notes' = [s \in Services |-> {}]
        /\ \A s \in Services : pc[s] \in {"wait", "end"} /\ row'[s].cid = row[s].cid
    BY <1>16 DEF Begin, Quiet, Types, RowTypes
  <2> QED BY <2>1 DEF Recorded, Accounted, Whole, Has
<1>17. CASE CleanOrphans
  <2>1. PICK S \in SUBSET Services : RemoveOrphans(S)
    BY <1>17 DEF CleanOrphans, Orphans
  <2>2. \A s \in Services : IF s \in S THEN row'[s].cid = None
                           ELSE row'[s] = row[s] /\ dock'[s] = dock[s]
    BY <2>1 DEF RemoveOrphans, NoRows
  <2>3. notes' = notes /\ torn' = torn /\ pc' = pc /\ \A s \in Services : notes[s] = {}
    BY <1>17 DEF CleanOrphans, Progress, Noted, Starting
  <2> QED BY <2>2, <2>3 DEF Recorded, Accounted, Whole, Has
<1>18. CASE OrphansThrow
  <2>1. PICK S \in SUBSET Services : RemoveOrphans(S)
    BY <1>18 DEF OrphansThrow, Orphans
  <2>2. \A s \in Services : IF s \in S THEN row'[s].cid = None
                           ELSE row'[s] = row[s] /\ dock'[s] = dock[s]
    BY <2>1 DEF RemoveOrphans, NoRows
  <2>3. notes' = notes /\ torn' = torn /\ pc' = pc /\ \A s \in Services : notes[s] = {}
    BY <1>18 DEF OrphansThrow, Progress, Noted, Starting
  <2> QED BY <2>2, <2>3 DEF Recorded, Accounted, Whole, Has
<1>19. CASE PrepareImages
  BY <1>19, AtService
  DEF Recorded, Accounted, Whole, Rows, RowKept, Here, Noted, DockNumber, Has,
      Old, Included, Types, StepTypes, RowTypes, PrepareImages, local
<1>20. CASE PreClean
  BY <1>20, AtService, PreCleanDock
  DEF Recorded, Accounted, Whole, Rows, RowKept, Here, Noted, DockNumber, Has,
      Old, Included, Types, StepTypes, RowTypes, PreClean, local, Reuses, Loses
<1>21. CASE StartGroup
  BY <1>21, AtService
  DEF Recorded, Accounted, Whole, Rows, RowKept, Here, Noted, DockNumber, Has,
      Old, Included, Types, StepTypes, RowTypes, StartGroup, local, NextGroup,
      Reuses, Attempted, Ended
<1>22. CASE GroupFailed
  BY <1>22, AtService
  DEF Recorded, Accounted, Whole, Rows, RowKept, Here, Noted, DockNumber, Has,
      Old, Included, Types, StepTypes, RowTypes, GroupFailed, local, Attempted,
      Ended, Failed
<1>23. CASE GroupsDone
  BY <1>23, AtService
  DEF Recorded, Accounted, Whole, Rows, RowKept, Here, Noted, DockNumber, Has,
      Old, Included, Types, StepTypes, RowTypes, GroupsDone, local, Ended,
      Failed
<1>24. CASE RolledBack
  BY <1>24, AtService
  DEF Recorded, Accounted, Whole, Rows, RowKept, Here, Noted, DockNumber, Has,
      Old, Included, Types, StepTypes, RowTypes, RolledBack, local, Executed
<1>25. CASE Reconcile
  BY SMTT(30), <1>25, AtService
  DEF Recorded, Accounted, Whole, Rows, RowKept, Here, Noted, DockNumber, Has,
      Old, Included, Types, StepTypes, RowTypes, Reconcile, local, Reported,
      New, Failed
<1>26. CASE CatchClean
  BY <1>26, AtService, CatchCleanDock
  DEF Recorded, Accounted, Whole, Rows, RowKept, Here, Noted, DockNumber, Has,
      Old, Included, Types, StepTypes, RowTypes, CatchClean, local, New, Loses
<1>27. CASE CatchRestored
  BY <1>27, AtService
  DEF Recorded, Accounted, Whole, Rows, RowKept, Here, Noted, DockNumber, Has,
      Old, Included, Types, StepTypes, RowTypes, CatchRestored, local, Swapped
<1>28. CASE CatchRows
  BY <1>28, AtService
  DEF Recorded, Accounted, Whole, Rows, RowKept, Here, Noted, DockNumber, Has,
      Old, Included, Types, StepTypes, RowTypes, CatchRows, local
<1>29. CASE StopCompose
  <2>1. /\ torn' = torn /\ notes' = [s \in Services |-> {}]
        /\ \A s \in Services : pc[s] \in {"wait", "end"} /\ row'[s].cid = row[s].cid
        /\ \A s \in Services : row[s].cid \in Gens \cup {None}
    BY <1>29 DEF StopCompose, Forget, Quiet, Types, RowTypes
  <2>2. \A s \in Services :
          dock'[s] = dock[s] \/ row[s].cid = None \/ dock'[s].box[row[s].cid] = "none"
    BY <1>29, <2>1, StopDock DEF Loses
  <2> QED BY <2>1, <2>2 DEF Recorded, Accounted, Whole, Has
<1>30. CASE Crash
  BY <1>30, AtService
  DEF Recorded, Accounted, Whole, Rows, RowKept, Here, Noted, DockNumber, Has,
      Old, Included, Types, StepTypes, RowTypes, Crash, local, Forget, Quiet,
      Swapped
<1>31. CASE UNCHANGED vars
  BY <1>31
  DEF vars, local, Recorded, Accounted, Whole, Same, Has, Old
<1> QED
  BY <1>15, <1>16, <1>17, <1>18, <1>19, <1>20, <1>21, <1>22, <1>23, <1>24,
     <1>25, <1>26, <1>27, <1>28, <1>29, <1>30, <1>31
  DEF Next, DeployStep, OfService, Request

(* A deploy reports success only when everything it relies on serves.      *)
LEMMA NextReports ==
  ASSUME Types, Sets, Progress, Numbers, Aside, Deployed, Layers, Rows, Recorded, Reports,
         [Next]_vars
  PROVE  Reports'
<1> SUFFICES ASSUME phase' = "done", outcome' = "success" PROVE Reports'
  BY DEF Reports
<1>1. ASSUME NEW s \in Services, OfService(s) PROVE Reports'
  <2>1. phase = "done" /\ outcome = "success"
    BY <1>1, Others
  <2>2. pc[s] \in {"wait", "end"}
    BY <2>1 DEF Reports
  <2> QED BY <1>1, <2>1, <2>2
      DEF OfService, ServiceStep, Reuse, Build, Take, SwapFails, Run, Record, Health, Undo,
          UndoThrows, Rollback, RollbackThrows, CatchRestore, CatchRestoreThrows
<1>2. CASE Reconcile
  <2>1. /\ phase = "reconcile" /\ Failed = {} /\ dock' = dock /\ gen' = gen /\ req' = req
        /\ before' = before /\ pc' = pc /\ res' = res /\ notes' = notes /\ torn' = torn
        /\ \A s \in Included : s \in Services /\ row'[s] = Reported(s)
    BY <1>2 DEF Reconcile, local, Included, Types, StepTypes, Requests
  <2>2. ASSUME NEW s \in Included, s \notin torn
        PROVE  IF Role(s) = "job" THEN row'[s].st = "stopped" \/ Has(s, "reused") ELSE Serves(s)'
    <3>1. /\ s \in Services /\ res[s] = "deployed" /\ Healthy(s) /\ Here(s)
          /\ RowKept(s) /\ Accounted(s) /\ pc[s] \in {"wait", "end"}
      BY <2>1, AtService DEF Layers, Deployed, UpIfDeployed, Ordered, Rows, Recorded, Progress, Noted
    <3>2. CASE Has(s, "reused")
      <4>1. row'[s] = row[s]
        BY <2>1, <3>1, <3>2 DEF Reported, Healthy
      <4>2. /\ row[s].cid = Old(s) /\ row[s].st = "running" /\ Old(s) \in Gens /\ None \notin Gens
            /\ Whole(s) /\ Current(s) = Old(s)
        BY <2>1, <2>2, <3>1, <3>2 DEF RowKept, Here, Noted, Accounted, Has, Current
      <4>3. Role(s) = "service" => dock[s].box[Old(s)] = "up" /\ dock[s].named = Old(s)
        BY <3>1, <4>2 DEF Healthy, Whole
      <4> QED BY <2>1, <3>2, <4>1, <4>2, <4>3 DEF Serves, Role
    <3>3. CASE ~Has(s, "reused")
      <4>1. /\ Has(s, "created") /\ dock[s].named = gen /\ Current(s) = gen /\ gen # None
            /\ Has(s, "deployment") /\ ~Has(s, "restored") /\ ~Has(s, "jobFailure")
            /\ Has(s, "completed") <=> Role(s) = "job"
        BY <3>1, <3>3 DEF Healthy, Current, Here, Noted
      <4>2. row'[s] = [st |-> IF Has(s, "completed") THEN "stopped" ELSE "running", cid |-> gen]
        BY <2>1, <3>1, <3>3, <4>1 DEF Reported, New
      <4> QED BY <2>1, <3>1, <4>1, <4>2 DEF Serves, Healthy, Role
    <3> QED BY <3>2, <3>3
  <2>3. \A s \in Services : pc[s] \in {"wait", "end"}
    BY <2>1 DEF Progress, Noted
  <2> QED BY <2>1, <2>2, <2>3 DEF Reports, StackServes, Role, Has, Included
<1>3. CASE UNCHANGED vars
  BY <1>3 DEF vars, local, Reports, StackServes, Serves, Role, Has, Included
<1>4. CASE \/ CleanOrphans \/ OrphansThrow \/ PrepareImages \/ PreClean \/ StartGroup \/ GroupFailed
           \/ GroupsDone \/ RolledBack \/ CatchClean \/ CatchRestored \/ CatchRows
           \/ StopCompose \/ Crash
  BY <1>4 DEF CleanOrphans, OrphansThrow, PrepareImages, PreClean, StartGroup, GroupFailed,
              GroupsDone, RolledBack, CatchClean, CatchRestored, CatchRows, StopCompose, Crash, Forget
<1>5. CASE Request
  BY <1>5 DEF Request, Begin
<1> QED BY <1>1, <1>2, <1>3, <1>4, <1>5 DEF Next, DeployStep, OfService

(* Initially.                                                              *)
LEMMA InitIInv ==
  ASSUME Init
  PROVE  IInv
<1>1. PICK present \in {{}, Services} :
        /\ row = [s \in Services |->
                    IF s \notin present THEN [st |-> "absent", cid |-> None]
                    ELSE [st |-> IF s \in Jobs(present) THEN "stopped" ELSE "running", cid |-> 0]]
        /\ dock = [s \in Services |->
                     [box |-> [k \in Gens |-> IF s \notin present \/ k # 0 THEN "none"
                                             ELSE IF s \in Jobs(present) THEN "down" ELSE "up"],
                      named |-> IF s \in present THEN 0 ELSE None]]
        /\ parent = IF present = {} THEN "none" ELSE "running"
  BY DEF Init
<1>2. /\ gen = 0 /\ phase = "idle"
      /\ req = NoReq /\ before = NoRows /\ served = {}
      /\ pc = [s \in Services |-> "wait"]
      /\ res = [s \in Services |-> "none"]
      /\ notes = [s \in Services |-> {}]
      /\ outcome = "none" /\ faults = 0 /\ torn = {}
  BY DEF Init
<1>3. 0 \in Gens /\ None \notin Gens /\ \A k \in Gens : k \in Nat
  BY ComposeAssumption DEF Gens
<1>4. RowTypes
  BY <1>1, <1>2, <1>3 DEF RowTypes, RowStatuses, NoRows
<1>5. DockTypes
  BY <1>1, <1>3 DEF DockTypes, Docks
<1>6. StepTypes
  BY <1>2, <1>3, ComposeAssumption DEF StepTypes, Phases, NoReq, Requests
<1>7. Sets
  BY <1>2 DEF Sets, NoReq, Included
<1>8. RowNumbers
  BY <1>1, <1>2, <1>3 DEF RowNumbers, RowNumber, NoRows
<1>9. DockNumbers
  <2> SUFFICES ASSUME NEW s \in Services PROVE DockNumber(s)
    BY DEF DockNumbers
  <2>1. CASE s \in present
    <3>1. dock[s].named = 0 /\ dock[s].box[0] # "none" /\ \A k \in Gens : k # 0 => dock[s].box[k] = "none"
      BY <1>1, <1>3, <2>1
    <3> QED BY <1>2, <1>3, <3>1 DEF DockNumber
  <2>2. CASE s \notin present
    <3>1. dock[s].named = None /\ \A k \in Gens : dock[s].box[k] = "none"
      BY <1>1, <2>2
    <3> QED BY <1>2, <3>1 DEF DockNumber
  <2> QED BY <2>1, <2>2
<1>10. Progress
  BY <1>2 DEF Progress, Noted, Starting, Has
<1>11. Aside /\ Deployed /\ Layers /\ Rows /\ Spares /\ Reports
  BY <1>2 DEF Aside, AsideKept, Deployed, UpIfDeployed, Ordered, Layers, Rows, RowKept,
              Spares, Sparing, Reports, Has
<1>12. Recorded
  BY <1>1, <1>2, <1>3 DEF Recorded, Accounted, Whole, Has
<1> QED BY <1>4, <1>5, <1>6, <1>7, <1>8, <1>9, <1>10, <1>11, <1>12 DEF IInv, Types, Numbers

(* The invariant is inductive for every stack and every dependency order,  *)
(* through the steps of deployComposeViaDockerode, executeOrdered and      *)
(* stopCompose.                                                            *)
THEOREM ComposeInvariant == Spec => []IInv
<1>1. ASSUME IInv, [Next]_vars PROVE IInv'
  <2>1. /\ Types /\ Sets /\ Progress /\ Numbers /\ Aside /\ Deployed /\ Layers /\ Rows /\ Spares
        /\ Recorded /\ Reports
    BY <1>1 DEF IInv
  <2>2. Types'
    BY <1>1, <2>1, NextRowTypes, NextDockTypes, NextStepTypes DEF Types
  <2>3. Sets' /\ Progress'
    BY <1>1, <2>1, NextSets, NextProgress
  <2>4. Numbers'
    BY <1>1, <2>1, NextRowNumbers, NextDockNumbers DEF Numbers
  <2>5. Aside' /\ Deployed' /\ Layers' /\ Rows'
    BY <1>1, <2>1, NextAside, NextDeployed, NextLayers, NextRows
  <2>6. Spares' /\ Recorded' /\ Reports'
    BY <1>1, <2>1, NextSpares, NextRecorded, NextReports
  <2> QED BY <2>2, <2>3, <2>4, <2>5, <2>6 DEF IInv
<1> QED BY InitIInv, <1>1, PTL DEF Spec

(* The variables of a stack keep their types through every deploy, stop    *)
(* and crash.                                                              *)
THEOREM StackTypes == Spec => []TypeOK
<1>1. IInv => TypeOK
  BY DEF IInv, Types, RowTypes, DockTypes, StepTypes, RowStatuses, Docks, Gens, TypeOK
<1> QED BY ComposeInvariant, <1>1, PTL

(* A stateful container that a deploy has set aside exists until it has    *)
(* its name back (restorePreservedStatefulContainer): whichever of the     *)
(* services of its group fail, and while the outer catch block puts        *)
(* containers back next to callbacks that still run.                       *)
THEOREM AsideIsNeverLost == Spec => []SetAsideIsKept
<1>1. IInv => SetAsideIsKept
  BY DEF IInv, Aside, AsideKept, SetAsideIsKept
<1> QED BY ComposeInvariant, <1>1, PTL

(* executeOrdered rolls back in an order that never takes away what a      *)
(* service still waiting for its rollback depends on, whatever the         *)
(* dependency graph.                                                       *)
THEOREM RollbackIsReverse == Spec => []RollbackKeepsOrder
<1>1. IInv => RollbackKeepsOrder
  <2> SUFFICES ASSUME IInv, phase = "rollback", NEW s \in Executed, NEW t \in Depends(s)
               PROVE  dock[t].box[Current(t)] # "none"
    BY DEF RollbackKeepsOrder
  <2>1. t \in Executed
    BY DEF IInv, Layers
  <2>2. t \in Services /\ res[t] = "deployed"
    BY <2>1 DEF Executed, Included, IInv, Types, StepTypes, Requests
  <2> QED BY <2>2 DEF IInv, Deployed, UpIfDeployed, Ordered, Healthy
<1> QED BY ComposeInvariant, <1>1, PTL

(* A deploy, however it ends, leaves a service that it did not replace in  *)
(* its container, running and recorded so.                                 *)
THEOREM SparedServicesStay == Spec => []SparedIsKept
<1>1. IInv => SparedIsKept
  <2> SUFFICES ASSUME IInv, phase = "done", NEW s \in served, Spared(s)
               PROVE  /\ row[s].cid = Old(s) /\ dock[s].named = Old(s) /\ dock[s].box[Old(s)] = "up"
                      /\ outcome # "threw" => row[s].st = "running"
    BY DEF SparedIsKept
  <2>1. s \in Services /\ Sparing(s)
    BY DEF IInv, Types, StepTypes, Spares
  <2> QED BY <2>1 DEF Sparing, Keeps
<1> QED BY ComposeInvariant, <1>1, PTL

(* A deploy that reports success leaves every service it deployed or       *)
(* relies on up under its name, in the container of its row.               *)
THEOREM SuccessServes == Spec => []StackServes
<1>1. IInv => StackServes
  BY DEF IInv, Reports, StackServes
<1> QED BY ComposeInvariant, <1>1, PTL
==============================================================================
