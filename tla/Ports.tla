------------------------------- MODULE Ports -------------------------------
(***************************************************************************)
(* Host port allocation (src/pipeline/port.ts) and the callers that turn a *)
(* port into a container and a database row.                               *)
(*                                                                         *)
(* allocatePort awaits a scan (database, Docker, operating system; cached  *)
(* for a second) and then, without another await, adds the in-memory       *)
(* reservations and reserves a port.  What happens between the scan and    *)
(* the reservation, and when each caller gives its reservation back, is    *)
(* what this module is about.  The callers differ:                         *)
(*   run      ContainerRunner.run, and a runtime environment refresh;      *)
(*   compose  the start of one Compose service;                            *)
(*   service  ServiceManager's creation of a managed service;              *)
(*   green    the green container of a blue-green redeploy;                *)
(*   record   unarchive: a port for the row, and no container.             *)
(***************************************************************************)
EXTENDS Integers

CONSTANTS
  Clients,    \* the callers of allocatePort
  PortRange,  \* portRangeStart .. portRangeEnd
  External,   \* ports of the range that some other program listens on
  MaxStarts,  \* how many operations begin in all
  MaxCrashes, \* how often the process dies
  NoPort

Kinds == {"run", "compose", "service", "green", "record"}

ASSUME PortsAssumption ==
  /\ PortRange \subseteq Nat
  /\ External \subseteq PortRange
  /\ MaxStarts \in Nat
  /\ MaxCrashes \in Nat
  /\ NoPort \notin Nat

VARIABLES
  reserved, \* reservedPorts
  cache,    \* portScanCache.result.all, or NoPort
  bound,    \* host ports of each client's running containers, in Docker
  row,      \* assigned_port of each client's row
  at,       \* where each client is
  seen,     \* the ports its scan has collected
  port,     \* its local variable `port`
  kind,     \* which caller of allocatePort it is
  attempt,  \* 0, or 1 after a port conflict
  starts,   \* how many operations have begun
  crashes,
  late,     \* history: ports freed by a client that no longer held them
  leaked    \* history: ports a caller left reserved when it returned

memory == <<reserved, cache>>
local == <<at, kind, seen, port, attempt>>
history == <<starts, crashes, late, leaked>>
portsVars == <<reserved, cache, bound, row, local, history>>

Scanning == {"alloc", "list", "os", "grant"}
Steps == {"idle", "prepare", "create", "row"} \cup Scanning

PortsTypeOK ==
  /\ reserved \subseteq PortRange
  /\ cache \in {NoPort} \cup (SUBSET PortRange)
  /\ bound \in [Clients -> SUBSET PortRange]
  /\ row \in [Clients -> PortRange \cup {NoPort}]
  /\ at \in [Clients -> Steps]
  /\ seen \in [Clients -> SUBSET PortRange]
  /\ port \in [Clients -> PortRange \cup {NoPort}]
  /\ kind \in [Clients -> Kinds]
  /\ attempt \in [Clients -> {0, 1}]
  /\ starts \in 0..MaxStarts
  /\ crashes \in 0..MaxCrashes
  /\ late \subseteq PortRange
  /\ leaked \subseteq PortRange

PortsInit ==
  /\ reserved = {}
  /\ cache = NoPort
  /\ bound = [c \in Clients |-> {}]
  /\ row = [c \in Clients |-> NoPort]
  /\ at = [c \in Clients |-> "idle"]
  /\ seen = [c \in Clients |-> {}]
  /\ port = [c \in Clients |-> NoPort]
  /\ kind = [c \in Clients |-> "run"]
  /\ attempt = [c \in Clients |-> 0]
  /\ starts = 0
  /\ crashes = 0
  /\ late = {}
  /\ leaked = {}

(* db.getUsedPorts: the assigned ports of all rows.                        *)
UsedPorts == {p \in PortRange : \E c \in Clients : row[c] = p}

(* What Docker will not give to a new container.                           *)
InDocker == UNION {bound[c] : c \in Clients}
Taken == InDocker \cup External

(* The client goes on at step s.                                           *)
Goto(c, s) == at' = [at EXCEPT ![c] = s]

(* The operation is over: its local variables are gone.                    *)
Return(c) ==
  /\ Goto(c, "idle")
  /\ seen' = [seen EXCEPT ![c] = {}]
  /\ port' = [port EXCEPT ![c] = NoPort]
  /\ kind' = [kind EXCEPT ![c] = "run"]
  /\ attempt' = [attempt EXCEPT ![c] = 0]

(* releasePortReservation.                                                 *)
Released(p) == reserved \ {p}

-----------------------------------------------------------------------------
(* When a caller of each kind exists: a managed service and an unarchived  *)
(* project have no container and no port yet, a blue-green redeploy        *)
(* replaces a deployed service.                                            *)
Startable(c, k) ==
  CASE k \in {"service", "record"} -> row[c] = NoPort /\ bound[c] = {}
    [] k = "green" -> row[c] # NoPort
    [] OTHER -> TRUE

(* An operation begins.  A Compose service's old container goes before a   *)
(* port is asked for; otherwise row and container stay until replaced.     *)
Start(c) ==
  /\ at[c] = "idle"
  /\ starts < MaxStarts
  /\ \E k \in Kinds :
       /\ Startable(c, k)
       /\ kind' = [kind EXCEPT ![c] = k]
       /\ bound' = IF k = "compose" THEN [bound EXCEPT ![c] = {}] ELSE bound
  /\ starts' = starts + 1
  /\ Goto(c, "alloc")
  /\ UNCHANGED <<memory, row, seen, port, attempt, crashes, late, leaked>>

(* scanUsedPorts with a fresh cache: no source is read.                    *)
ScanCached(c) ==
  /\ at[c] = "alloc"
  /\ cache # NoPort
  /\ seen' = [seen EXCEPT ![c] = cache]
  /\ Goto(c, "grant")
  /\ UNCHANGED <<kind, memory, bound, row, port, attempt, history>>

(* scanUsedPorts without one, first the database.                          *)
ScanDatabase(c) ==
  /\ at[c] = "alloc"
  /\ cache = NoPort
  /\ seen' = [seen EXCEPT ![c] = UsedPorts]
  /\ Goto(c, "list")
  /\ UNCHANGED <<kind, memory, bound, row, port, attempt, history>>

(* Then Docker, whose failure leaves an empty list.                        *)
ScanDocker(c) ==
  /\ at[c] = "list"
  /\ \E found \in {InDocker, {}} :
       seen' = [seen EXCEPT ![c] = @ \cup found]
  /\ Goto(c, "os")
  /\ UNCHANGED <<kind, memory, bound, row, port, attempt, history>>

(* Then the operating system, whose failure (or a network namespace of its *)
(* own) leaves an empty list too.  The result goes into the cache.         *)
ScanSystem(c) ==
  /\ at[c] = "os"
  /\ \E found \in {External, {}} :
       /\ seen' = [seen EXCEPT ![c] = @ \cup found]
       /\ cache' = seen[c] \cup found
  /\ Goto(c, "grant")
  /\ UNCHANGED <<kind, reserved, bound, row, port, attempt, history>>

(* PORT_SCAN_CACHE_TTL_MS has passed.                                      *)
CacheExpires ==
  /\ cache # NoPort
  /\ cache' = NoPort
  /\ UNCHANGED <<reserved, bound, row, local, history>>

FreeInScan(c) == PortRange \ seen[c]

(* What the rest of allocatePort may return: the preferred port, any port  *)
(* here, if it is free, otherwise the first free one.                      *)
Free(c) == PortRange \ (seen[c] \cup reserved)
Choices(c) == IF kind[c] = "run" /\ attempt[c] = 0 THEN Free(c)
              ELSE {p \in Free(c) : \A q \in Free(c) : p <= q}

(* The rest of allocatePort: no await between the test and the reservation.*)
Grant(c) ==
  /\ at[c] = "grant"
  /\ \E p \in Choices(c) :
       /\ reserved' = reserved \cup {p}
       /\ port' = [port EXCEPT ![c] = p]
  /\ seen' = [seen EXCEPT ![c] = {}]
  /\ Goto(c, IF kind[c] = "record" THEN "row"
             ELSE IF attempt[c] = 1 THEN "create" ELSE "prepare")
  /\ UNCHANGED <<kind, cache, bound, row, attempt, history>>

(* allocatePort throws: the range is exhausted, or the database cannot be  *)
(* read.  A Compose service in its second attempt gives back the ports of  *)
(* its first one, which it has given back before.                          *)
GivesBackAgain(c) == kind[c] = "compose" /\ port[c] # NoPort

AllocateFails(c) ==
  /\ \/ at[c] = "grant" /\ Free(c) = {}
     \/ at[c] = "alloc" /\ cache = NoPort
  /\ IF GivesBackAgain(c)
     THEN /\ reserved' = Released(port[c])
          /\ late' = late \cup (reserved \cap {port[c]})
     ELSE UNCHANGED <<reserved, late>>
  /\ Return(c)
  /\ UNCHANGED <<cache, bound, row, starts, crashes, leaked>>

-----------------------------------------------------------------------------
(* The awaits between the allocation and the container: resource limits,   *)
(* networks, images.  ContainerRunner.run removes the old container here.  *)
Prepare(c) ==
  /\ at[c] = "prepare"
  /\ bound' = IF kind[c] = "run" THEN [bound EXCEPT ![c] = {}] ELSE bound
  /\ Goto(c, "create")
  /\ UNCHANGED <<kind, memory, row, seen, port, attempt, history>>

ReleasesOnPrepare(c, step) == \/ kind[c] \in {"compose", "service"}
                              \/ kind[c] = "run" /\ step = "prepare"

(* Which callers give their port back when a step of theirs throws: run    *)
(* only around the creation itself, green never.                           *)
ReleasesOn(c, step) == \/ kind[c] \in {"compose", "service"}
                       \/ kind[c] = "run" /\ step = "create"

(* For the history: the ways out that are known to keep the reservation.   *)
KnownLeak(c, step) ==
  IF kind[c] \in {"green", "record"} \/ (kind[c] = "run" /\ step = "prepare")
  THEN {port[c]} ELSE {}

(* The operation ends in an exception.  A managed service clears the cache *)
(* in its finally block.                                                   *)
Abandon(c, step) ==
  /\ reserved' = IF ReleasesOn(c, step) THEN Released(port[c]) ELSE reserved
  /\ leaked' = leaked \cup KnownLeak(c, step)
  /\ cache' = IF kind[c] = "service" THEN NoPort ELSE cache
  /\ Return(c)
  /\ UNCHANGED <<row, starts, crashes, late>>

PrepareFails(c) ==
  /\ at[c] = "prepare"
  /\ Abandon(c, "prepare")
  /\ UNCHANGED bound

(* runContainer: Docker binds the port.  The facade clears the cache.      *)
Create(c) ==
  /\ at[c] = "create"
  /\ port[c] \notin Taken
  /\ bound' = [bound EXCEPT ![c] = @ \cup {port[c]}]
  /\ cache' = NoPort
  /\ reserved' = IF kind[c] = "run" THEN Released(port[c]) ELSE reserved
  /\ Goto(c, "row")
  /\ UNCHANGED <<kind, row, seen, port, attempt, history>>

(* Docker refuses the port, and the caller tries once more with another.   *)
Retries(c) == kind[c] \in {"run", "compose"} /\ attempt[c] = 0

ConflictRetry(c) ==
  /\ at[c] = "create"
  /\ port[c] \in Taken
  /\ Retries(c)
  /\ reserved' = Released(port[c])
  /\ cache' = NoPort
  /\ attempt' = [attempt EXCEPT ![c] = 1]
  /\ Goto(c, "alloc")
  /\ UNCHANGED <<kind, bound, row, seen, port, history>>

(* Docker refuses for the second time, or for another reason.              *)
CreateFails(c) ==
  /\ at[c] = "create"
  /\ port[c] \in Taken => ~Retries(c)
  /\ Abandon(c, "create")
  /\ UNCHANGED bound

(* The row gets the port.  Compose and managed services give the           *)
(* reservation back only now; green and unarchive keep it.                 *)
ReleasesAfterRow(c) == kind[c] \in {"compose", "service"}

WriteRow(c) ==
  /\ at[c] = "row"
  /\ row' = [row EXCEPT ![c] = port[c]]
  /\ bound' = IF kind[c] = "green" THEN [bound EXCEPT ![c] = {port[c]}] ELSE bound
  /\ reserved' = IF ReleasesAfterRow(c) THEN Released(port[c]) ELSE reserved
  /\ leaked' = leaked \cup KnownLeak(c, "row")
  /\ cache' = IF kind[c] = "service" THEN NoPort ELSE cache
  /\ Return(c)
  /\ UNCHANGED <<starts, crashes, late>>

(* The row cannot be written: the new container is removed again.          *)
WriteRowFails(c) ==
  /\ at[c] = "row"
  /\ kind[c] \in {"compose", "service"}
  /\ bound' = [bound EXCEPT ![c] = @ \ {port[c]}]
  /\ Abandon(c, "row")

(* The service is removed with its row, or archived without its port.      *)
Remove(c) ==
  /\ at[c] = "idle"
  /\ row[c] # NoPort
  /\ row' = [row EXCEPT ![c] = NoPort]
  /\ bound' = [bound EXCEPT ![c] = {}]
  /\ UNCHANGED <<memory, local, history>>

(* The process dies and starts again.  Docker and the rows stay.           *)
Crash ==
  /\ crashes < MaxCrashes
  /\ crashes' = crashes + 1
  /\ reserved' = {} /\ cache' = NoPort /\ late' = {} /\ leaked' = {}
  /\ at' = [c \in Clients |-> "idle"]
  /\ seen' = [c \in Clients |-> {}]
  /\ port' = [c \in Clients |-> NoPort]
  /\ kind' = [c \in Clients |-> "run"]
  /\ attempt' = [c \in Clients |-> 0]
  /\ UNCHANGED <<bound, row, starts>>

Proceed(c) ==
  \/ ScanCached(c) \/ ScanDatabase(c) \/ ScanDocker(c) \/ ScanSystem(c)
  \/ Grant(c) \/ AllocateFails(c)
  \/ Prepare(c) \/ PrepareFails(c)
  \/ Create(c) \/ ConflictRetry(c) \/ CreateFails(c)
  \/ WriteRow(c) \/ WriteRowFails(c)

PortsNext ==
  \/ \E c \in Clients : Start(c) \/ Proceed(c) \/ Remove(c)
  \/ CacheExpires
  \/ Crash

PortsSpec == PortsInit /\ [][PortsNext]_portsVars

-----------------------------------------------------------------------------
(* The client has been granted a port and has not given it back.           *)
Owns(c) == \/ at[c] \in {"prepare", "create"}
           \/ at[c] = "row" /\ kind[c] # "run"

(* Two callers never hold the same port, whatever their scans missed: the  *)
(* reservation is made in the step that tests it.  The exception is a port *)
(* that was freed from under its holder by a Compose service which gave    *)
(* its own back twice.                                                     *)
NoDoubleGrant ==
  \A c, d \in Clients :
    (c # d /\ Owns(c) /\ Owns(d) /\ port[c] = port[d]) => port[c] \in late

(* A reserved port has a holder, or was left behind by a caller that never *)
(* gives it back: every other way out of every operation releases it.      *)
ReservedIsHeld ==
  reserved \subseteq {port[c] : c \in {d \in Clients : Owns(d)}} \cup leaked

=============================================================================
