-------------------------- MODULE ExclusionProofs --------------------------
(***************************************************************************)
(* Who excludes whom.  Three components that share no state:               *)
(*                                                                         *)
(*   DeployLock   the lock in the database that every mutating operation   *)
(*                runs under.  For every set of projects and callers,      *)
(*                every nesting of frames and every lease.                 *)
(*   DeployQueue  the queue in memory that runs the agent jobs one at a    *)
(*                time.  For any number of jobs, any of them hung, and any *)
(*                staleness limit: no wakeup is lost, and until a job is   *)
(*                force-released the queue is a first come, first served   *)
(*                mutual exclusion lock.                                   *)
(*   Ports        the host ports that allocatePort reserves in memory.     *)
(*                For any number of services, any port range and any       *)
(*                number of operations: two callers never hold one port    *)
(*                (up to the double release of a Compose service), and a   *)
(*                reserved port has a holder or is one of the known leaks. *)
(***************************************************************************)
EXTENDS DeployLock, DeployQueue, Ports, FiniteSetTheorems, TLAPS

-----------------------------------------------------------------------------
(* The deploy lock.                                                        *)

(* Route[c] is a sequence of projects: what the frames below rely on.      *)
LEMMA RouteIndex ==
    \A c \in Callers : /\ Len(Route[c]) \in Nat
                       /\ \A i \in 1..Len(Route[c]) : Route[c][i] \in Projects
  BY RouteAssumption

(* The type invariant holds of every reachable state: in particular no     *)
(* caller leaves more frames than it entered, and Target is a project      *)
(* whenever acquireDeployLock runs.                                        *)
DepthOK == \A c \in Callers :
               stage[c] \in {"acquire", "swept"} => depth[c] < Len(Route[c])

TypeInv ==
    /\ LockTypeOK
    /\ DepthOK
    /\ \A c \in Callers : stage[c] = "body" => depth[c] >= 1

LEMMA InitType == LockInit => TypeInv
  BY RouteAssumption, CallerAssumption
     DEF LockInit, TypeInv, LockTypeOK, DepthOK, Sessions, PCs

(* A release leaves the two lock columns well typed, whatever it matches.  *)
LEMMA ReleaseType ==
    ASSUME lockSession \in [Projects -> Sessions], lockAt \in [Projects -> Nat],
           NEW p, NEW s, releaseDeployLock(p, s)
    PROVE  lockSession' \in [Projects -> Sessions] /\ lockAt' \in [Projects -> Nat]
<1>1. CASE clear(p)
  BY <1>1 DEF clear, Sessions
<1>2. CASE UNCHANGED <<lockSession, lockAt>>
  BY <1>2
<1>. QED BY <1>1, <1>2 DEF releaseDeployLock

LEMMA NextType == TypeInv /\ [LockNext]_lockVars => TypeInv'
<1> SUFFICES ASSUME TypeInv, [LockNext]_lockVars
             PROVE  TypeInv'
  OBVIOUS
<1> USE RouteIndex, CallerAssumption DEF TypeInv, LockTypeOK, DepthOK, Sessions, PCs
<1>1. ASSUME NEW c \in Callers, Sweep(c) PROVE TypeInv'
  BY <1>1 DEF Sweep, cleanExpiredDeployLocks
<1>2. ASSUME NEW c \in Callers, Enter(c) PROVE TypeInv'
  BY SMTT(30), <1>2 DEF Enter, Target
<1>3. ASSUME NEW c \in Callers, Refused(c) PROVE TypeInv'
  <2>1. Target(c) \in Projects
    BY <1>3 DEF Refused, Target
  <2>2. releases' \subseteq Events
    BY <2>1, <1>3 DEF Refused, Events
  <2>. QED BY <2>2, <1>3 DEF Refused
<1>4. ASSUME NEW c \in Callers, FinishBody(c) PROVE TypeInv'
  <2>1. Route[c][depth[c]] \in Projects
    BY <1>4 DEF FinishBody
  <2>2. releases' \subseteq Events
    BY <2>1, <1>4 DEF FinishBody, Events, TerminalSessions
  <2>. QED BY <2>2, <1>4 DEF FinishBody
<1>5. ASSUME NEW c \in Callers, Leave(c) PROVE TypeInv'
  <2>1. depth[c] \in Nat /\ depth[c] - 1 \in Nat /\ depth[c] - 1 < Len(Route[c])
    BY <1>5 DEF Leave
  <2>2. lockSession' \in [Projects -> Sessions] /\ lockAt' \in [Projects -> Nat]
    BY <1>5, ReleaseType DEF Leave
  <2>. QED BY SMTT(30), <2>1, <2>2, <1>5 DEF Leave
<1>6. ASSUME NEW c \in Callers, ReturnToCaller(c) PROVE TypeInv'
  BY <1>6 DEF ReturnToCaller
<1>7. ASSUME NEW e \in releases, AutoRelease(e) PROVE TypeInv'
  BY <1>7, ReleaseType DEF AutoRelease
<1>8. CASE ReconcilerSweep
  BY <1>8 DEF ReconcilerSweep, cleanExpiredDeployLocks
<1>9. CASE ProcessDies
  BY <1>9 DEF ProcessDies, InFlight
<1>10. CASE LockTick
  BY <1>10 DEF LockTick
<1>11. CASE UNCHANGED lockVars
  BY <1>11 DEF lockVars
<1>. QED
  BY <1>1, <1>2, <1>3, <1>4, <1>5, <1>6, <1>7, <1>8, <1>9, <1>10, <1>11 DEF LockNext

(* Type correctness of the lock rows, the frames and the pending releases. *)
THEOREM LockTypes == LockSpec => []LockTypeOK
<1>1. LockSpec => []TypeInv
  BY InitType, NextType, PTL DEF LockSpec
<1>2. TypeInv => LockTypeOK
  BY DEF TypeInv
<1>. QED BY <1>1, <1>2, PTL

-----------------------------------------------------------------------------
(* The inductive invariant behind exclusion.  A caller that claims a       *)
(* project and is within its lease is the session in the row, with the     *)
(* timestamp it wrote; and a pending release either names a caller that    *)
(* has finished its operation or falls on an exposed project.              *)
LeaseInv ==
    \A c \in Callers : \A p \in Projects \ Exposed :
        Claims(c, p) /\ InLease(c, p)
            => lockSession[p] = c /\ lockAt[p] = leaseAt[c][p]

ReleaseInv ==
    \A e \in releases :
        /\ e.session = NoSession => e.project \in Exposed
        /\ e.session # NoSession => stage[e.session] \in {"unwind", "done"}

LockInv == TypeInv /\ LeaseInv /\ ReleaseInv

LEMMA InitLock == LockInit => LockInv
<1> SUFFICES ASSUME LockInit PROVE LockInv
  OBVIOUS
<1>1. TypeInv
  BY InitType
<1>2. \A c \in Callers : 1..depth[c] = {}
  BY DEF LockInit
<1>. QED BY <1>1, <1>2 DEF LockInit, LockInv, LeaseInv, ReleaseInv, Claims

(* Sweeping the expired locks touches no lock that is within its lease.    *)
LEMMA CleanKeeps ==
    ASSUME LockTypeOK, cleanExpiredDeployLocks,
           NEW p \in Projects, lockAt[p] + TTL >= now
    PROVE  lockSession'[p] = lockSession[p] /\ lockAt'[p] = lockAt[p]
  BY ClockAssumption DEF cleanExpiredDeployLocks, Expired, LockTypeOK

(* A release that does not match the row of p leaves it alone.             *)
LEMMA ReleaseKeeps ==
    ASSUME LockTypeOK, NEW p \in Projects, NEW q \in Projects, NEW s,
           releaseDeployLock(q, s),
           q # p \/ (s # NoSession /\ lockSession[p] # s)
    PROVE  lockSession'[p] = lockSession[p] /\ lockAt'[p] = lockAt[p]
<1>1. CASE q = p
  BY <1>1 DEF releaseDeployLock
<1>2. CASE q # p /\ clear(q)
  BY <1>2 DEF clear, LockTypeOK
<1>3. CASE UNCHANGED <<lockSession, lockAt>>
  BY <1>3
<1>. QED BY <1>1, <1>2, <1>3 DEF releaseDeployLock

LEMMA NextLock == LockInv /\ [LockNext]_lockVars => LockInv'
<1> SUFFICES ASSUME LockInv, [LockNext]_lockVars
             PROVE  LockInv'
  OBVIOUS
<1>T. TypeInv /\ LockTypeOK /\ TypeInv' /\ LockTypeOK'
  BY NextType DEF LockInv, TypeInv
<1>E. Exposed' = Exposed
  BY DEF Exposed
<1>1. ASSUME NEW c \in Callers, Sweep(c) PROVE LeaseInv' /\ ReleaseInv'
  <2>1. LeaseInv'
    <3> SUFFICES ASSUME NEW d \in Callers, NEW p \in Projects \ Exposed,
                        Claims(d, p)', InLease(d, p)'
                 PROVE  (lockSession[p] = d /\ lockAt[p] = leaseAt[d][p])'
      BY <1>E DEF LeaseInv
    <3>1. Claims(d, p) /\ InLease(d, p)
      BY <1>1, <1>T DEF Sweep, Claims, InLease, LockTypeOK
    <3>2. lockSession[p] = d /\ lockAt[p] = leaseAt[d][p] /\ lockAt[p] + TTL >= now
      BY <3>1 DEF LockInv, LeaseInv, InLease
    <3>. QED BY <3>2, <1>1, <1>T, CleanKeeps DEF Sweep
  <2>2. ReleaseInv'
    BY <1>1, <1>T, <1>E DEF Sweep, LockInv, ReleaseInv, LockTypeOK, Events, Sessions
  <2>. QED BY <2>1, <2>2
<1>2. ASSUME NEW c \in Callers, Enter(c) PROVE LeaseInv' /\ ReleaseInv'
  <2>0. Target(c) \in Projects
    BY <1>2, <1>T, RouteIndex DEF Enter, Target, TypeInv, LockTypeOK, DepthOK
  <2>1. LeaseInv'
    <3> SUFFICES ASSUME NEW d \in Callers, NEW p \in Projects \ Exposed,
                        Claims(d, p)', InLease(d, p)'
                 PROVE  (lockSession[p] = d /\ lockAt[p] = leaseAt[d][p])'
      BY <1>E DEF LeaseInv
    <3>1. CASE d = c /\ p = Target(c)
      BY <3>1, <2>0, <1>2, <1>T DEF Enter, LockTypeOK
    <3>2. CASE ~(d = c /\ p = Target(c))
      <4>1. Claims(d, p) /\ InLease(d, p)
        <5>1. CASE d = c
          <6>1. PICK i \in 1..(depth[c] + 1) : Route[c][i] = p
            BY <5>1, <1>2, <1>T DEF Enter, Claims, LockTypeOK
          <6>2. i \in 1..depth[c]
            BY <6>1, <5>1, <3>2, <1>T DEF Target, LockTypeOK
          <6>. QED
            BY <6>1, <6>2, <5>1, <3>2, <2>0, <1>2, <1>T
               DEF Enter, Claims, InLease, LockTypeOK
        <5>2. CASE d # c
          BY <5>2, <1>2, <1>T DEF Enter, Claims, InLease, LockTypeOK
        <5>. QED BY <5>1, <5>2
      <4>2. lockSession[p] = d /\ lockAt[p] = leaseAt[d][p]
        BY <4>1 DEF LockInv, LeaseInv
      <4>3. p # Target(c)
        BY <4>2, <3>2, <1>2, CallerAssumption DEF Enter, FreeFor
      <4>. QED BY <4>2, <4>3, <3>2, <1>2, <1>T DEF Enter, LockTypeOK
    <3>. QED BY <3>1, <3>2
  <2>2. ReleaseInv'
    BY <1>2, <1>T, <1>E DEF Enter, LockInv, ReleaseInv, LockTypeOK, Events, Sessions
  <2>. QED BY <2>1, <2>2
<1>3. ASSUME NEW c \in Callers, Refused(c) PROVE LeaseInv' /\ ReleaseInv'
  <2>1. LeaseInv'
    BY <1>3, <1>T, <1>E DEF Refused, LockInv, LeaseInv, Claims, InLease, LockTypeOK
  <2>2. c \in Sessionless => Target(c) \in Exposed
    BY <1>3, <1>T, RouteIndex
       DEF Refused, Target, Exposed, TypeInv, LockTypeOK, DepthOK
  <2>3. ReleaseInv'
    BY <2>2, <1>3, <1>T, <1>E
       DEF Refused, LockInv, ReleaseInv, LockTypeOK, Events, Sessions
  <2>. QED BY <2>1, <2>3
<1>4. ASSUME NEW c \in Callers, FinishBody(c) PROVE LeaseInv' /\ ReleaseInv'
  <2>1. LeaseInv'
    BY <1>4, <1>T, <1>E DEF FinishBody, LockInv, LeaseInv, Claims, InLease, LockTypeOK
  <2>2. c \in Sessionless => Route[c][depth[c]] \in Exposed
    BY <1>4, <1>T, RouteIndex DEF FinishBody, Exposed, TypeInv, LockTypeOK
  <2>3. \A e \in releases' \ releases :
           /\ e.session = NoSession => e.project \in Exposed
           /\ e.session # NoSession => e.session = c
    BY <2>2, <1>4, CallerAssumption DEF FinishBody, TerminalSessions
  <2>4. stage'[c] = "unwind" /\ \A d \in Callers : d # c => stage'[d] = stage[d]
    BY <1>4, <1>T DEF FinishBody, LockTypeOK
  <2>5. ReleaseInv'
    BY <2>3, <2>4, <1>T, <1>E
       DEF LockInv, ReleaseInv, LockTypeOK, Events, Sessions
  <2>. QED BY <2>1, <2>5
<1>5. ASSUME NEW c \in Callers, Leave(c) PROVE LeaseInv' /\ ReleaseInv'
  <2>0. Route[c][depth[c]] \in Projects
    BY <1>5, <1>T, RouteIndex DEF Leave, LockTypeOK
  <2>1. LeaseInv'
    <3> SUFFICES ASSUME NEW d \in Callers, NEW p \in Projects \ Exposed,
                        Claims(d, p)', InLease(d, p)'
                 PROVE  (lockSession[p] = d /\ lockAt[p] = leaseAt[d][p])'
      BY <1>E DEF LeaseInv
    <3>1. d # c /\ Claims(d, p) /\ InLease(d, p)
      BY <1>5, <1>T DEF Leave, Claims, InLease, LockTypeOK
    <3>2. lockSession[p] = d /\ lockAt[p] = leaseAt[d][p]
      BY <3>1 DEF LockInv, LeaseInv
    <3>. QED BY <3>1, <3>2, <2>0, <1>5, <1>T, ReleaseKeeps, CallerAssumption DEF Leave
  <2>2. ReleaseInv'
    BY <1>5, <1>T, <1>E DEF Leave, LockInv, ReleaseInv
  <2>. QED BY <2>1, <2>2
<1>6. ASSUME NEW c \in Callers, ReturnToCaller(c) PROVE LeaseInv' /\ ReleaseInv'
  <2>1. LeaseInv'
    BY <1>6, <1>T, <1>E DEF ReturnToCaller, LockInv, LeaseInv, Claims, InLease, LockTypeOK
  <2>2. ReleaseInv'
    BY <1>6, <1>T, <1>E DEF ReturnToCaller, LockInv, ReleaseInv, LockTypeOK, Events, Sessions
  <2>. QED BY <2>1, <2>2
<1>7. ASSUME NEW e \in releases, AutoRelease(e) PROVE LeaseInv' /\ ReleaseInv'
  <2>0. e.project \in Projects /\ e.session \in Sessions
    BY <1>T DEF LockTypeOK, Events
  <2>1. LeaseInv'
    <3> SUFFICES ASSUME NEW d \in Callers, NEW p \in Projects \ Exposed,
                        Claims(d, p)', InLease(d, p)'
                 PROVE  (lockSession[p] = d /\ lockAt[p] = leaseAt[d][p])'
      BY <1>E DEF LeaseInv
    <3>1. Claims(d, p) /\ InLease(d, p)
      BY <1>7 DEF AutoRelease, Claims, InLease
    <3>2. lockSession[p] = d /\ lockAt[p] = leaseAt[d][p]
      BY <3>1 DEF LockInv, LeaseInv
    <3>3. e.project # p \/ (e.session # NoSession /\ lockSession[p] # e.session)
      BY <3>1, <3>2 DEF LockInv, ReleaseInv, Claims
    <3>. QED BY <3>2, <3>3, <2>0, <1>7, <1>T, ReleaseKeeps DEF AutoRelease
  <2>2. ReleaseInv'
    BY <1>7, <1>E DEF AutoRelease, LockInv, ReleaseInv
  <2>. QED BY <2>1, <2>2
<1>8. CASE ReconcilerSweep
  <2>1. LeaseInv'
    <3> SUFFICES ASSUME NEW d \in Callers, NEW p \in Projects \ Exposed,
                        Claims(d, p)', InLease(d, p)'
                 PROVE  (lockSession[p] = d /\ lockAt[p] = leaseAt[d][p])'
      BY <1>E DEF LeaseInv
    <3>1. lockSession[p] = d /\ lockAt[p] = leaseAt[d][p] /\ lockAt[p] + TTL >= now
      BY <1>8 DEF ReconcilerSweep, LockInv, LeaseInv, Claims, InLease
    <3>. QED BY <3>1, <1>8, <1>T, CleanKeeps DEF ReconcilerSweep
  <2>2. ReleaseInv'
    BY <1>8, <1>E DEF ReconcilerSweep, LockInv, ReleaseInv
  <2>. QED BY <2>1, <2>2, <1>T DEF LockInv
<1>9. CASE ProcessDies
  <2>1. LeaseInv'
    BY <1>9, <1>T, <1>E DEF ProcessDies, InFlight, LockInv, LeaseInv, Claims, InLease, LockTypeOK
  <2>2. ReleaseInv'
    BY <1>9 DEF ProcessDies, ReleaseInv
  <2>. QED BY <2>1, <2>2, <1>T DEF LockInv
<1>10. CASE LockTick
  <2>1. LeaseInv'
    <3> SUFFICES ASSUME NEW d \in Callers, NEW p \in Projects \ Exposed,
                        Claims(d, p)', InLease(d, p)'
                 PROVE  (lockSession[p] = d /\ lockAt[p] = leaseAt[d][p])'
      BY <1>E DEF LeaseInv
    <3>1. now \in Nat /\ now' = now + 1 /\ leaseAt[d][p] + TTL \in Nat
      BY <1>10, <1>T, ClockAssumption DEF LockTick, LockTypeOK
    <3>2. Claims(d, p) /\ InLease(d, p)
      BY <3>1, <1>10 DEF LockTick, Claims, InLease
    <3>. QED BY <3>2, <1>10 DEF LockTick, LockInv, LeaseInv
  <2>2. ReleaseInv'
    BY <1>10, <1>E DEF LockTick, LockInv, ReleaseInv
  <2>. QED BY <2>1, <2>2, <1>T DEF LockInv
<1>11. CASE UNCHANGED lockVars
  BY <1>11, <1>T, <1>E DEF lockVars, LockInv, LeaseInv, ReleaseInv, Claims, InLease
<1>. QED
  BY <1>1, <1>2, <1>3, <1>4, <1>5, <1>6, <1>7, <1>8, <1>9, <1>10, <1>11, <1>T
     DEF LockNext, LockInv

(* Mutual exclusion of operations on one project, for every nesting of     *)
(* withDeployLock frames and every schedule of sweeps, listeners, crashes  *)
(* and clock ticks: two operations overlap only when one has outlived its  *)
(* lease or a sessionless terminal event exists for the project.           *)
THEOREM ExclusionWithinLease == LockSpec => []LeaseExclusion
<1>1. LockSpec => []LockInv
  BY InitLock, NextLock, PTL DEF LockSpec
<1>2. LockInv => LeaseExclusion
  BY DEF LockInv, LeaseInv, LeaseExclusion
<1>. QED BY <1>1, <1>2, PTL

-----------------------------------------------------------------------------
(* The abstract lock.  Every step of the rows either makes one caller rely *)
(* on a project nobody else relies on, or only ends reliances.             *)

(* A step after which every relier of a protected project was one before   *)
(* is a Lose step of the abstract lock.                                    *)
LEMMA OnlyLosing ==
    ASSUME \A c \in Callers : \A p \in Protected :
               Claims(c, p)' /\ InLease(c, p)' => Claims(c, p) /\ InLease(c, p)
    PROVE  Abstract!Lose
<1>1. Protected' = Protected
  BY DEF Protected, Exposed
<1>2. Reliers' \in [Protected -> SUBSET Callers]
  BY <1>1 DEF Reliers
<1>3. \A p \in Protected : Reliers'[p] \subseteq Reliers[p]
  BY <1>1 DEF Reliers
<1>. QED BY <1>1, <1>2, <1>3 DEF Abstract!Lose

(* The UPDATE of acquireDeployLock is an abstract acquisition when the     *)
(* project is protected: the row was free or named the caller, so by       *)
(* LeaseInv nobody else relied on the project.                             *)
LEMMA EnterAcquires ==
    ASSUME LockInv, NEW c \in Callers, Enter(c),
           NEW t \in Protected, t = Target(c), InLease(c, t)'
    PROVE  Abstract!Acquire(t, c)
<1>T. TypeInv /\ LockTypeOK /\ t \in Projects
  BY DEF LockInv, TypeInv, Protected
<1>P. Protected' = Protected
  BY DEF Protected, Exposed
<1>1. Reliers[t] \subseteq {c}
  BY CallerAssumption DEF Reliers, LockInv, LeaseInv, Enter, FreeFor, Protected
<1>2. depth[c] \in Nat /\ depth'[c] = depth[c] + 1 /\ Route[c][depth[c] + 1] = t
  BY <1>T DEF Enter, Target, LockTypeOK
<1>3. \A d \in Callers : Claims(d, t)' /\ InLease(d, t)' => d = c
  <2> SUFFICES ASSUME NEW d \in Callers, Claims(d, t)', InLease(d, t)', d # c
               PROVE  FALSE
    OBVIOUS
  <2>1. Claims(d, t) /\ InLease(d, t)
    BY <1>T DEF Enter, Claims, InLease, LockTypeOK
  <2>. QED BY <2>1, <1>1 DEF Reliers
<1>4. Claims(c, t)'
  <2>1. stage'[c] \in {"acquire", "body"}
    BY <1>T DEF Enter, LockTypeOK
  <2>. QED BY <2>1, <1>2 DEF Claims
<1>5. \A p \in Protected \ {t} : \A d \in Callers :
          (Claims(d, p)' <=> Claims(d, p)) /\ (InLease(d, p)' <=> InLease(d, p))
  <2> SUFFICES ASSUME NEW p \in Protected \ {t}, NEW d \in Callers
               PROVE  (Claims(d, p)' <=> Claims(d, p)) /\ (InLease(d, p)' <=> InLease(d, p))
    OBVIOUS
  <2>1. InLease(d, p)' <=> InLease(d, p)
    BY <1>T DEF Enter, InLease, LockTypeOK, Protected
  <2>2. CASE d # c
    BY <2>1, <2>2, <1>T DEF Enter, Claims, LockTypeOK
  <2>3. CASE d = c
    <3>1. (\E i \in 1..depth'[c] : Route[c][i] = p) <=> (\E i \in 1..depth[c] : Route[c][i] = p)
      BY <1>2
    <3>2. stage[c] = "swept" /\ stage'[c] \in {"acquire", "body"}
      BY <1>T DEF Enter, LockTypeOK
    <3>. QED BY <2>1, <2>3, <3>1, <3>2 DEF Claims
  <2>. QED BY <2>2, <2>3
<1>6. Reliers' = [Reliers EXCEPT ![t] = {c}]
  <2>1. Reliers'[t] = {c}
    BY <1>3, <1>4, <1>P DEF Reliers
  <2>2. \A p \in Protected \ {t} : Reliers'[p] = Reliers[p]
    BY <1>5, <1>P DEF Reliers
  <2>. QED BY <2>1, <2>2, <1>P DEF Reliers
<1>. QED BY <1>1, <1>6 DEF Abstract!Acquire

LEMMA LockStep == LockInv /\ [LockNext]_lockVars => [Abstract!Next]_Reliers
<1> SUFFICES ASSUME LockInv, LockNext \/ UNCHANGED lockVars
             PROVE  Abstract!Next \/ Reliers' = Reliers
  OBVIOUS
<1>T. TypeInv /\ LockTypeOK
  BY DEF LockInv, TypeInv
<1>P. Protected' = Protected
  BY DEF Protected, Exposed
<1> DEFINE Shrinks == \A c \in Callers : \A p \in Protected :
               Claims(c, p)' /\ InLease(c, p)' => Claims(c, p) /\ InLease(c, p)
<1>1. ASSUME NEW c \in Callers, Sweep(c) PROVE Shrinks
  BY <1>1, <1>T DEF Sweep, Claims, InLease, LockTypeOK
<1>2. ASSUME NEW c \in Callers, Enter(c) PROVE Abstract!Next
  <2>0. Target(c) \in Projects
    <3>1. depth[c] \in Nat /\ depth[c] < Len(Route[c])
      BY <1>2, <1>T DEF Enter, TypeInv, LockTypeOK, DepthOK
    <3>2. depth[c] + 1 \in 1..Len(Route[c])
      BY <3>1, RouteIndex
    <3>. QED BY <3>2, RouteIndex DEF Target
  <2>1. PICK t : t = Target(c)
    OBVIOUS
  <2>2. now' = now /\ leaseAt'[c][t] = now
    BY <2>0, <2>1, <1>2, <1>T DEF Enter, LockTypeOK
  <2>3. InLease(c, t)'
    BY <2>2, <1>T, ClockAssumption DEF InLease, LockTypeOK
  <2>4. CASE t \in Protected
    BY <2>4, <2>1, <2>3, <1>2, EnterAcquires DEF Abstract!Next
  <2>5. CASE t \notin Protected
    <3> SUFFICES ASSUME NEW d \in Callers, NEW p \in Protected,
                        Claims(d, p)', InLease(d, p)'
                 PROVE  Claims(d, p) /\ InLease(d, p)
      BY OnlyLosing DEF Abstract!Next
    <3>1. InLease(d, p)
      BY <2>1, <2>5, <1>2, <1>T DEF Enter, InLease, LockTypeOK, Protected
    <3>2. CASE d # c
      BY <3>1, <3>2, <1>2, <1>T DEF Enter, Claims, LockTypeOK
    <3>3. CASE d = c
      <4>1. PICK i \in 1..(depth[c] + 1) : Route[c][i] = p
        BY <3>3, <1>2, <1>T DEF Enter, Claims, LockTypeOK
      <4>2. i \in 1..depth[c]
        BY <4>1, <2>1, <2>5, <1>T DEF Target, LockTypeOK
      <4>. QED BY <3>1, <3>3, <4>1, <4>2, <1>2 DEF Enter, Claims
    <3>. QED BY <3>2, <3>3
  <2>. QED BY <2>4, <2>5
<1>3. ASSUME NEW c \in Callers, Refused(c) PROVE Shrinks
  BY <1>3, <1>T DEF Refused, Claims, InLease, LockTypeOK
<1>4. ASSUME NEW c \in Callers, FinishBody(c) PROVE Shrinks
  BY <1>4, <1>T DEF FinishBody, Claims, InLease, LockTypeOK
<1>5. ASSUME NEW c \in Callers, Leave(c) PROVE Shrinks
  BY <1>5, <1>T DEF Leave, Claims, InLease, LockTypeOK
<1>6. ASSUME NEW c \in Callers, ReturnToCaller(c) PROVE Shrinks
  BY <1>6, <1>T DEF ReturnToCaller, Claims, InLease, LockTypeOK
<1>7. ASSUME NEW e \in releases, AutoRelease(e) PROVE Shrinks
  BY <1>7 DEF AutoRelease, Claims, InLease
<1>8. CASE ReconcilerSweep
  <2>1. Shrinks
    BY <1>8 DEF ReconcilerSweep, Claims, InLease
  <2>. QED BY <2>1, OnlyLosing DEF Abstract!Next
<1>9. CASE ProcessDies
  <2>1. Shrinks
    BY <1>9, <1>T DEF ProcessDies, InFlight, Claims, InLease, LockTypeOK
  <2>. QED BY <2>1, OnlyLosing DEF Abstract!Next
<1>10. CASE LockTick
  <2>1. Shrinks
    BY <1>10, <1>T, ClockAssumption DEF LockTick, Claims, InLease, LockTypeOK, Protected
  <2>. QED BY <2>1, OnlyLosing DEF Abstract!Next
<1>11. CASE UNCHANGED lockVars
  <2>1. Reliers' = Reliers
    BY <1>11, <1>P DEF lockVars, Reliers, Claims, InLease
  <2>. QED BY <2>1
<1>. QED
  BY <1>1, <1>2, <1>3, <1>4, <1>5, <1>6, <1>7, <1>8, <1>9, <1>10, <1>11, OnlyLosing
     DEF LockNext, Abstract!Next

(* The deploy lock implements the abstract lease lock on every project     *)
(* that no sessionless terminal event can be published for.                *)
THEOREM LockRefinement == LockSpec => ImplementsLeaseLock
<1>1. LockInit => Abstract!Init
  <2> SUFFICES ASSUME LockInit PROVE Reliers = [p \in Protected |-> {}]
    BY DEF Abstract!Init
  <2>1. \A c \in Callers : 1..depth[c] = {}
    BY DEF LockInit
  <2>. QED BY <2>1 DEF Reliers, Claims
<1>2. LockSpec => []LockInv
  BY InitLock, NextLock, PTL DEF LockSpec
<1>. QED BY <1>1, <1>2, LockStep, PTL DEF LockSpec, ImplementsLeaseLock, Abstract!Spec

-----------------------------------------------------------------------------
(* Refusals.  Whoever has swept the locks has seen every lock that is      *)
(* still there young enough.                                               *)
SweptInv ==
    \A c \in Callers :
        /\ sweptAt[c] <= now
        /\ stage[c] = "swept" =>
              \A p \in Projects :
                  lockSession[p] # NoSession => lockAt[p] + TTL >= sweptAt[c]

(* A release empties a row or leaves it as it was.                         *)
LEMMA ReleaseShape ==
    ASSUME LockTypeOK, NEW q \in Projects, NEW s, releaseDeployLock(q, s),
           NEW p \in Projects
    PROVE  \/ lockSession'[p] = NoSession
           \/ lockSession'[p] = lockSession[p] /\ lockAt'[p] = lockAt[p]
<1>1. CASE clear(q)
  BY <1>1 DEF clear, LockTypeOK
<1>2. CASE UNCHANGED <<lockSession, lockAt>>
  BY <1>2
<1>. QED BY <1>1, <1>2 DEF releaseDeployLock

LEMMA NextSwept == TypeInv /\ SweptInv /\ [LockNext]_lockVars => SweptInv'
<1> SUFFICES ASSUME TypeInv, SweptInv, [LockNext]_lockVars
             PROVE  SweptInv'
  OBVIOUS
<1>T. LockTypeOK
  BY DEF TypeInv
<1> USE ClockAssumption
<1>1. ASSUME NEW c \in Callers, Sweep(c) PROVE SweptInv'
  BY <1>1, <1>T DEF Sweep, cleanExpiredDeployLocks, Expired, SweptInv, LockTypeOK
<1>2. ASSUME NEW c \in Callers, Enter(c) PROVE SweptInv'
  <2>1. Target(c) \in Projects
    BY <1>2, RouteIndex DEF Enter, Target, TypeInv, LockTypeOK, DepthOK
  <2>. QED BY <2>1, <1>2, <1>T DEF Enter, SweptInv, LockTypeOK
<1>3. ASSUME NEW c \in Callers, Refused(c) PROVE SweptInv'
  BY <1>3, <1>T DEF Refused, SweptInv, LockTypeOK
<1>4. ASSUME NEW c \in Callers, FinishBody(c) PROVE SweptInv'
  BY <1>4, <1>T DEF FinishBody, SweptInv, LockTypeOK
<1>5. ASSUME NEW c \in Callers, Leave(c) PROVE SweptInv'
  <2>1. Route[c][depth[c]] \in Projects
    BY <1>5, <1>T, RouteIndex DEF Leave, LockTypeOK
  <2>2. \A p \in Projects :
           \/ lockSession'[p] = NoSession
           \/ lockSession'[p] = lockSession[p] /\ lockAt'[p] = lockAt[p]
    BY <2>1, <1>5, <1>T, ReleaseShape DEF Leave
  <2>. QED BY <2>2, <1>5, <1>T DEF Leave, SweptInv, LockTypeOK
<1>6. ASSUME NEW c \in Callers, ReturnToCaller(c) PROVE SweptInv'
  BY <1>6, <1>T DEF ReturnToCaller, SweptInv, LockTypeOK
<1>7. ASSUME NEW e \in releases, AutoRelease(e) PROVE SweptInv'
  <2>1. e.project \in Projects
    BY <1>T DEF LockTypeOK, Events
  <2>2. \A p \in Projects :
           \/ lockSession'[p] = NoSession
           \/ lockSession'[p] = lockSession[p] /\ lockAt'[p] = lockAt[p]
    BY <2>1, <1>7, <1>T, ReleaseShape DEF AutoRelease
  <2>. QED BY <2>2, <1>7, <1>T DEF AutoRelease, SweptInv, LockTypeOK
<1>8. CASE ReconcilerSweep
  BY <1>8, <1>T DEF ReconcilerSweep, cleanExpiredDeployLocks, Expired, SweptInv, LockTypeOK
<1>9. CASE ProcessDies
  BY <1>9, <1>T DEF ProcessDies, InFlight, SweptInv, LockTypeOK
<1>10. CASE LockTick
  BY <1>10, <1>T DEF LockTick, SweptInv, LockTypeOK
<1>11. CASE UNCHANGED lockVars
  BY <1>11 DEF lockVars, SweptInv
<1>. QED
  BY <1>1, <1>2, <1>3, <1>4, <1>5, <1>6, <1>7, <1>8, <1>9, <1>10, <1>11 DEF LockNext

(* A lock left behind by a dead process refuses nobody beyond its lease:   *)
(* a caller is refused only by a lock that was within TTL when it swept.   *)
THEOREM RefusalsJustified == LockSpec => RefusalJustified
<1> DEFINE Justified ==
      \A c \in Callers : stage[c] = "swept" /\ stage'[c] = "unwind"
          => lockAt[Target(c)] + TTL >= sweptAt[c]
<1>1. LockInit => SweptInv
  BY DEF LockInit, SweptInv
<1>2. TypeInv /\ SweptInv /\ [LockNext]_lockVars => Justified
  <2> SUFFICES ASSUME TypeInv, SweptInv, [LockNext]_lockVars, NEW c \in Callers,
                      stage[c] = "swept", stage'[c] = "unwind"
               PROVE  lockAt[Target(c)] + TTL >= sweptAt[c]
    OBVIOUS
  <2>1. Target(c) \in Projects
    <3>1. depth[c] \in Nat /\ depth[c] < Len(Route[c])
      BY DEF TypeInv, LockTypeOK, DepthOK
    <3>2. depth[c] + 1 \in 1..Len(Route[c])
      BY <3>1, RouteIndex
    <3>. QED BY <3>2, RouteIndex DEF Target
  <2>2. Refused(c)
    <3>1. ASSUME NEW d \in Callers, d # c \/ ~Refused(d),
                 Sweep(d) \/ Enter(d) \/ Refused(d) \/ FinishBody(d)
                     \/ Leave(d) \/ ReturnToCaller(d)
          PROVE  stage'[c] # "unwind"
      <4>1. stage' = stage \/ \E v \in PCs : stage' = [stage EXCEPT ![d] = v]
        BY <3>1 DEF Sweep, Enter, Refused, FinishBody, Leave, ReturnToCaller, PCs
      <4>2. CASE d # c
        BY <4>1, <4>2 DEF TypeInv, LockTypeOK
      <4>3. CASE d = c
        BY <3>1, <4>3 DEF Sweep, Enter, FinishBody, Leave, ReturnToCaller, TypeInv, LockTypeOK
      <4>. QED BY <4>2, <4>3
    <3>2. ASSUME NEW e \in releases, AutoRelease(e) PROVE stage' = stage
      BY <3>2 DEF AutoRelease
    <3>3. ReconcilerSweep \/ LockTick \/ UNCHANGED lockVars => stage' = stage
      BY DEF ReconcilerSweep, LockTick, lockVars
    <3>4. ProcessDies => stage'[c] # "unwind"
      BY DEF ProcessDies
    <3>. QED BY <3>1, <3>2, <3>3, <3>4 DEF LockNext
  <2>3. lockSession[Target(c)] # NoSession
    BY <2>2 DEF Refused, FreeFor
  <2>. QED BY <2>1, <2>3 DEF SweptInv
<1>3. LockSpec => [](TypeInv /\ SweptInv)
  BY InitType, NextType, <1>1, NextSwept, PTL DEF LockSpec
<1>. QED BY <1>2, <1>3, PTL DEF LockSpec, RefusalJustified

-----------------------------------------------------------------------------
(* Locks left behind.  A caller that has not died is named only by rows of *)
(* frames it is still in.                                                  *)
HoldInv ==
    \A c \in Callers : \A p \in Projects :
        lockSession[p] = c /\ stage[c] # "done" => \E i \in 1..depth[c] : Route[c][i] = p

LEMMA NextHold == TypeInv /\ HoldInv /\ [LockNext]_lockVars => HoldInv'
<1> SUFFICES ASSUME TypeInv, HoldInv, [LockNext]_lockVars,
                    NEW c \in Callers, NEW p \in Projects,
                    lockSession'[p] = c, stage'[c] # "done"
             PROVE  \E i \in 1..depth'[c] : Route[c][i] = p
  BY DEF HoldInv
<1>T. LockTypeOK
  BY DEF TypeInv
<1> USE CallerAssumption
<1>1. ASSUME NEW d \in Callers, Sweep(d) PROVE \E i \in 1..depth'[c] : Route[c][i] = p
  BY <1>1, <1>T DEF Sweep, cleanExpiredDeployLocks, HoldInv, LockTypeOK
<1>2. ASSUME NEW d \in Callers, Enter(d) PROVE \E i \in 1..depth'[c] : Route[c][i] = p
  <2>1. Target(d) \in Projects
    BY <1>2, RouteIndex DEF Enter, Target, TypeInv, LockTypeOK, DepthOK
  <2>2. CASE c = d /\ p = Target(d)
    BY <2>2, <1>2, <1>T DEF Enter, Target, LockTypeOK
  <2>3. CASE ~(c = d /\ p = Target(d))
    <3>1. lockSession[p] = c /\ stage[c] # "done"
      BY <2>1, <2>3, <1>2, <1>T DEF Enter, LockTypeOK
    <3>2. PICK i \in 1..depth[c] : Route[c][i] = p
      BY <3>1 DEF HoldInv
    <3>3. i \in 1..depth'[c]
      BY <1>2, <1>T DEF Enter, LockTypeOK
    <3>. QED BY <3>2, <3>3
  <2>. QED BY <2>2, <2>3
<1>3. ASSUME NEW d \in Callers, Refused(d) PROVE \E i \in 1..depth'[c] : Route[c][i] = p
  BY <1>3, <1>T DEF Refused, HoldInv, LockTypeOK
<1>4. ASSUME NEW d \in Callers, FinishBody(d) PROVE \E i \in 1..depth'[c] : Route[c][i] = p
  BY <1>4, <1>T DEF FinishBody, HoldInv, LockTypeOK
<1>5. ASSUME NEW d \in Callers, Leave(d) PROVE \E i \in 1..depth'[c] : Route[c][i] = p
  <2>1. Route[d][depth[d]] \in Projects
    BY <1>5, <1>T, RouteIndex DEF Leave, LockTypeOK
  <2>2. lockSession[p] = c /\ stage[c] # "done"
    BY <2>1, <1>5, <1>T, ReleaseShape DEF Leave
  <2>3. PICK i \in 1..depth[c] : Route[c][i] = p
    BY <2>2 DEF HoldInv
  <2>4. CASE c # d
    BY <2>3, <2>4, <1>5, <1>T DEF Leave, LockTypeOK
  <2>5. CASE c = d
    <3>1. p # Route[c][depth[c]]
      BY <2>1, <2>2, <2>5, <1>5, <1>T DEF Leave, releaseDeployLock, clear, LockTypeOK
    <3>2. depth[c] \in Nat /\ depth'[c] = depth[c] - 1
      BY <2>5, <1>5, <1>T DEF Leave, LockTypeOK
    <3>3. i \in 1..(depth[c] - 1)
      BY <2>3, <3>1, <3>2
    <3>. QED BY <2>3, <3>2, <3>3
  <2>. QED BY <2>4, <2>5
<1>6. ASSUME NEW d \in Callers, ReturnToCaller(d) PROVE \E i \in 1..depth'[c] : Route[c][i] = p
  BY <1>6, <1>T DEF ReturnToCaller, HoldInv, LockTypeOK
<1>7. ASSUME NEW e \in releases, AutoRelease(e) PROVE \E i \in 1..depth'[c] : Route[c][i] = p
  <2>1. e.project \in Projects
    BY <1>T DEF LockTypeOK, Events
  <2>2. lockSession[p] = c
    BY <2>1, <1>7, <1>T, ReleaseShape DEF AutoRelease
  <2>. QED BY <2>2, <1>7 DEF AutoRelease, HoldInv
<1>8. CASE ReconcilerSweep
  BY <1>8, <1>T DEF ReconcilerSweep, cleanExpiredDeployLocks, HoldInv, LockTypeOK
<1>9. CASE ProcessDies
  BY <1>9, <1>T DEF ProcessDies, HoldInv, LockTypeOK
<1>10. CASE LockTick
  BY <1>10 DEF LockTick, HoldInv
<1>11. CASE UNCHANGED lockVars
  BY <1>11 DEF lockVars, HoldInv
<1>. QED
  BY <1>1, <1>2, <1>3, <1>4, <1>5, <1>6, <1>7, <1>8, <1>9, <1>10, <1>11 DEF LockNext

(* A caller that returns leaves no row that names it, however its frames   *)
(* are nested or re-entered and whoever swept or released in between.      *)
THEOREM ReturnsLeaveNothing == LockSpec => LeavesNothing
<1> DEFINE Clean ==
      \A c \in Callers : stage[c] = "unwind" /\ stage'[c] = "done" /\ depth[c] = 0
          => \A p \in Projects : lockSession[p] # c
<1>1. LockInit => HoldInv
  BY CallerAssumption DEF LockInit, HoldInv
<1>2. HoldInv => Clean
  BY DEF HoldInv
<1>3. LockSpec => [](TypeInv /\ HoldInv)
  BY InitType, NextType, <1>1, NextHold, PTL DEF LockSpec
<1>. QED BY <1>2, <1>3, PTL DEF LockSpec, LeavesNothing
-----------------------------------------------------------------------------
(* The queue of agent jobs.                                                *)

(* The part of the type invariant the argument rests on: not the clocks.   *)
QueueTypes ==
  /\ running \in BOOLEAN
  /\ queue \in Seq(Jobs)
  /\ pc \in [Jobs -> {"new", "waiting", "woken", "holding", "done"}]
  /\ arrivals \in Seq(Jobs)
  /\ forced \in BOOLEAN

(* The queue holds the waiting jobs, each once.                            *)
QueueIsWaiting ==
  /\ \A j \in Jobs : pc[j] = "waiting" <=> \E i \in 1..Len(queue) : queue[i] = j
  /\ \A i, k \in 1..Len(queue) : queue[i] = queue[k] => i = k

(* Somebody is there to call release while `running` or a waiter says so.  *)
Served == running \/ queue # <<>> => Active # {}

(* Until a force-release: at most one job has the queue, and `running`     *)
(* says whether one has.                                                   *)
Alone ==
  ~forced => /\ \A i, j \in Active : i = j
             /\ Active # {} => running

(* Until a force-release the queue is the end of the list of arrivals.     *)
QueueIsSuffix ==
  ~forced =>
    /\ Len(queue) <= Len(arrivals)
    /\ \A i \in 1..Len(queue) : queue[i] = arrivals[Len(arrivals) - Len(queue) + i]

(* A job arrives once.                                                     *)
ArrivalsOnce ==
  /\ \A i \in 1..Len(arrivals) : pc[arrivals[i]] # "new"
  /\ \A i, k \in 1..Len(arrivals) : arrivals[i] = arrivals[k] => i = k

IInv ==
  QueueTypes /\ QueueIsWaiting /\ Served /\ Alone /\ QueueIsSuffix /\ ArrivalsOnce

(* What taking the first element leaves of a sequence.                     *)
LEMMA TailOf ==
  ASSUME NEW S, NEW s \in Seq(S), s # <<>>
  PROVE  /\ Len(s) \in Nat \ {0}
         /\ Head(s) = s[1] /\ s[1] \in S
         /\ Tail(s) \in Seq(S)
         /\ Len(Tail(s)) = Len(s) - 1
         /\ \A i \in 1..Len(s) - 1 : Tail(s)[i] = s[i + 1]
OBVIOUS

(* What adding an element does to a sequence.                              *)
LEMMA AppendOf ==
  ASSUME NEW S, NEW s \in Seq(S), NEW e \in S
  PROVE  /\ Append(s, e) \in Seq(S)
         /\ Len(Append(s, e)) = Len(s) + 1
         /\ \A i \in 1..Len(s) : Append(s, e)[i] = s[i]
         /\ Append(s, e)[Len(s) + 1] = e
OBVIOUS

(* An arrival is recorded once, behind the earlier ones.                   *)
LEMMA ArrivesOnce ==
  ASSUME QueueTypes, ArrivalsOnce, NEW j \in Jobs, pc[j] = "new",
         arrivals' = Append(arrivals, j),
         pc' \in [Jobs -> {"new", "waiting", "woken", "holding", "done"}],
         \A k \in Jobs : pc'[k] = "new" => pc[k] = "new" /\ k # j
  PROVE  ArrivalsOnce'
<1>1. \A i \in 1..Len(arrivals) : arrivals[i] # j /\ arrivals'[i] = arrivals[i]
  BY AppendOf DEF QueueTypes, ArrivalsOnce
<1>2. /\ Len(arrivals') = Len(arrivals) + 1
      /\ arrivals'[Len(arrivals) + 1] = j
      /\ Len(arrivals) \in Nat
  BY AppendOf DEF QueueTypes
<1>3. \A i \in 1..Len(arrivals') : i \in 1..Len(arrivals) \/ i = Len(arrivals) + 1
  BY <1>2
<1>4. \A i \in 1..Len(arrivals') : pc'[arrivals'[i]] # "new"
  <2> SUFFICES ASSUME NEW i \in 1..Len(arrivals') PROVE pc'[arrivals'[i]] # "new"
    OBVIOUS
  <2>1. CASE i \in 1..Len(arrivals)
    <3>1. arrivals[i] \in Jobs
      BY <2>1 DEF QueueTypes
    <3> QED BY <2>1, <3>1, <1>1 DEF ArrivalsOnce
  <2>2. CASE i = Len(arrivals) + 1
    BY <2>2, <1>2
  <2> QED BY <2>1, <2>2, <1>3
<1>5. ASSUME NEW i \in 1..Len(arrivals'), NEW k \in 1..Len(arrivals'), arrivals'[i] = arrivals'[k]
      PROVE  i = k
  BY <1>1, <1>2, <1>3, <1>5 DEF ArrivalsOnce
<1> QED BY <1>4, <1>5 DEF ArrivalsOnce

(* Nobody has asked for the queue yet.                                     *)
LEMMA InitIInv == Init => IInv
<1> SUFFICES ASSUME Init PROVE IInv
  OBVIOUS
<1>1. QueueTypes
  <2>1. <<>> \in Seq(Jobs)
    OBVIOUS
  <2>2. queue \in Seq(Jobs) /\ arrivals \in Seq(Jobs)
    BY <2>1, Zenon DEF Init
  <2> QED BY <2>2 DEF Init, QueueTypes
<1>2. Len(queue) = 0 /\ Len(arrivals) = 0 /\ Active = {}
  BY DEF Init, Active
<1>3. QueueIsWaiting
  <2>1. 1..Len(queue) = {} /\ \A j \in Jobs : pc[j] = "new"
    BY <1>2 DEF Init
  <2> QED BY <2>1 DEF QueueIsWaiting
<1>4. Served /\ Alone
  BY <1>2 DEF Init, Served, Alone
<1>5. QueueIsSuffix /\ ArrivalsOnce
  BY <1>2 DEF QueueIsSuffix, ArrivalsOnce
<1> QED BY <1>1, <1>3, <1>4, <1>5 DEF IInv

(* A job that takes the free queue: until a force-release nobody else has  *)
(* it and nobody waits.                                                    *)
LEMMA AcquireNowIInv ==
  ASSUME IInv, NEW j \in Jobs, AcquireNow(j) PROVE IInv'
<1> USE DEF IInv
<1>1. QueueTypes' /\ j \in Active'
  BY AppendOf DEF AcquireNow, QueueTypes, Active
<1>2. QueueIsWaiting'
  BY DEF AcquireNow, QueueTypes, QueueIsWaiting
<1>3. Served'
  BY <1>1 DEF Served
<1>4. Alone'
  BY DEF AcquireNow, QueueTypes, Alone, Active
<1>5. QueueIsSuffix'
  <2> SUFFICES ASSUME ~forced PROVE QueueIsSuffix'
    BY DEF AcquireNow, QueueIsSuffix
  <2>1. queue' = <<>>
    BY DEF AcquireNow, Alone, Served
  <2>2. Len(queue') = 0 /\ Len(arrivals') \in Nat
    BY <1>1, <2>1 DEF QueueTypes
  <2> QED BY <2>2 DEF QueueIsSuffix
<1>6. ArrivalsOnce'
  BY <1>1, ArrivesOnce DEF AcquireNow, QueueTypes
<1> QED BY <1>1, <1>2, <1>3, <1>4, <1>5, <1>6

(* A job that finds the queue taken goes behind the other waiters.         *)
LEMMA EnqueueIInv ==
  ASSUME IInv, NEW j \in Jobs, Enqueue(j) PROVE IInv'
<1> USE DEF IInv
<1>1. QueueTypes'
  BY AppendOf DEF Enqueue, QueueTypes
<1>2. /\ Len(queue) \in Nat
      /\ Len(queue') = Len(queue) + 1
      /\ \A i \in 1..Len(queue) : queue'[i] = queue[i] /\ queue[i] # j
      /\ queue'[Len(queue) + 1] = j
  <2>1. \A i \in 1..Len(queue) : queue[i] # j
    BY DEF Enqueue, QueueIsWaiting
  <2> QED BY <2>1, AppendOf DEF Enqueue, QueueTypes
<1>3. \A i \in 1..Len(queue') : i \in 1..Len(queue) \/ i = Len(queue) + 1
  BY <1>2
<1>4. QueueIsWaiting'
  <2>1. \A i, k \in 1..Len(queue') : queue'[i] = queue'[k] => i = k
    BY <1>2, <1>3 DEF QueueIsWaiting
  <2>2. ASSUME NEW a \in Jobs
        PROVE  pc'[a] = "waiting" <=> \E i \in 1..Len(queue') : queue'[i] = a
    <3>1. CASE a = j
      <4>1. Len(queue) + 1 \in 1..Len(queue')
        BY <1>2
      <4> QED BY <1>2, <3>1, <4>1 DEF Enqueue, QueueTypes
    <3>2. CASE a # j
      <4>1. pc'[a] = pc[a]
        BY <3>2 DEF Enqueue, QueueTypes
      <4>2. 1..Len(queue) \subseteq 1..Len(queue')
        BY <1>2
      <4>3. (\E i \in 1..Len(queue) : queue[i] = a) <=> (\E i \in 1..Len(queue') : queue'[i] = a)
        BY <1>2, <1>3, <3>2, <4>2
      <4> QED BY <4>1, <4>3 DEF QueueIsWaiting
    <3> QED BY <3>1, <3>2
  <2> QED BY <2>1, <2>2 DEF QueueIsWaiting
<1>5. Active' = Active
  BY DEF Enqueue, QueueTypes, Active
<1>6. Served' /\ Alone'
  BY <1>5 DEF Enqueue, Served, Alone
<1>7. QueueIsSuffix'
  <2> SUFFICES ASSUME ~forced
               PROVE  /\ Len(queue') <= Len(arrivals')
                      /\ \A i \in 1..Len(queue') :
                           queue'[i] = arrivals'[Len(arrivals') - Len(queue') + i]
    BY DEF Enqueue, QueueIsSuffix
  <2>1. /\ Len(arrivals) \in Nat
        /\ Len(arrivals') = Len(arrivals) + 1
        /\ \A i \in 1..Len(arrivals) : arrivals'[i] = arrivals[i]
        /\ arrivals'[Len(arrivals) + 1] = j
    BY AppendOf DEF Enqueue, QueueTypes
  <2>2. Len(queue) <= Len(arrivals)
    BY DEF QueueIsSuffix
  <2>3. ASSUME NEW i \in 1..Len(queue')
        PROVE  queue'[i] = arrivals'[Len(arrivals') - Len(queue') + i]
    <3>1. Len(arrivals') - Len(queue') + i = Len(arrivals) - Len(queue) + i
      BY <1>2, <2>1
    <3>2. CASE i \in 1..Len(queue)
      <4>1. Len(arrivals) - Len(queue) + i \in 1..Len(arrivals)
        BY <3>2, <1>2, <2>1, <2>2
      <4> QED BY <3>1, <3>2, <4>1, <1>2, <2>1 DEF QueueIsSuffix
    <3>3. CASE i = Len(queue) + 1
      <4>1. Len(arrivals) - Len(queue) + i = Len(arrivals) + 1
        BY <3>3, <1>2, <2>1
      <4> QED BY <3>1, <3>3, <4>1, <1>2, <2>1
    <3> QED BY <3>2, <3>3, <1>3
  <2> QED BY <1>2, <2>1, <2>2, <2>3
<1>8. ArrivalsOnce'
  BY <1>1, ArrivesOnce DEF Enqueue, QueueTypes
<1> QED BY <1>1, <1>4, <1>6, <1>7, <1>8

(* Waking the oldest waiter leaves the others in the queue.                *)
LEMMA PopKeepsWaiting ==
  ASSUME QueueTypes, QueueIsWaiting, queue # <<>>, queue' = Tail(queue),
         \A a \in Jobs : pc'[a] = "waiting" <=> pc[a] = "waiting" /\ a # Head(queue)
  PROVE  QueueIsWaiting'
<1>1. /\ Len(queue) \in Nat \ {0}
      /\ Head(queue) = queue[1]
      /\ Len(queue') = Len(queue) - 1
      /\ \A i \in 1..Len(queue) - 1 : queue'[i] = queue[i + 1]
  BY TailOf DEF QueueTypes
<1>2. ASSUME NEW i \in 1..Len(queue'), NEW k \in 1..Len(queue'), queue'[i] = queue'[k]
      PROVE  i = k
  <2>1. i + 1 \in 1..Len(queue) /\ k + 1 \in 1..Len(queue)
    BY <1>1
  <2>2. queue[i + 1] = queue[k + 1]
    BY <1>1, <1>2
  <2>3. i + 1 = k + 1
    BY <2>1, <2>2 DEF QueueIsWaiting
  <2> QED BY <2>3, <1>1
<1>3. ASSUME NEW a \in Jobs
      PROVE  pc'[a] = "waiting" <=> \E i \in 1..Len(queue') : queue'[i] = a
  <2>1. ASSUME pc'[a] = "waiting" PROVE \E i \in 1..Len(queue') : queue'[i] = a
    <3>1. PICK i \in 1..Len(queue) : queue[i] = a
      BY <2>1 DEF QueueIsWaiting
    <3>2. i # 1
      BY <2>1, <3>1, <1>1
    <3>3. i - 1 \in 1..Len(queue') /\ queue'[i - 1] = queue[i - 1 + 1] /\ i - 1 + 1 = i
      BY <3>2, <1>1
    <3> QED BY <3>1, <3>3
  <2>2. ASSUME NEW i \in 1..Len(queue'), queue'[i] = a PROVE pc'[a] = "waiting"
    <3>1. i + 1 \in 1..Len(queue) /\ queue[i + 1] = a /\ 1 \in 1..Len(queue) /\ i + 1 # 1
      BY <2>2, <1>1
    <3>2. a # queue[1]
      BY <3>1 DEF QueueIsWaiting
    <3>3. pc[a] = "waiting"
      BY <3>1 DEF QueueIsWaiting
    <3> QED BY <3>2, <3>3, <1>1
  <2> QED BY <2>1, <2>2
<1> QED BY <1>2, <1>3 DEF QueueIsWaiting

(* Waking the oldest waiter leaves an end of the list of arrivals.         *)
LEMMA PopKeepsSuffix ==
  ASSUME QueueTypes, QueueIsSuffix, queue # <<>>, queue' = Tail(queue),
         arrivals' = arrivals, forced' = forced
  PROVE  QueueIsSuffix'
<1> SUFFICES ASSUME ~forced
             PROVE  /\ Len(queue') <= Len(arrivals)
                    /\ \A i \in 1..Len(queue') :
                         queue'[i] = arrivals[Len(arrivals) - Len(queue') + i]
  BY DEF QueueIsSuffix
<1>1. /\ Len(queue) \in Nat \ {0}
      /\ Len(queue') = Len(queue) - 1
      /\ \A i \in 1..Len(queue) - 1 : queue'[i] = queue[i + 1]
      /\ Len(arrivals) \in Nat
  BY TailOf DEF QueueTypes
<1>2. Len(queue) <= Len(arrivals)
  BY DEF QueueIsSuffix
<1>3. ASSUME NEW i \in 1..Len(queue')
      PROVE  queue'[i] = arrivals[Len(arrivals) - Len(queue') + i]
  <2>1. i + 1 \in 1..Len(queue) /\ queue'[i] = queue[i + 1]
    BY <1>1
  <2>2. Len(arrivals) - Len(queue) + (i + 1) = Len(arrivals) - Len(queue') + i
    BY <1>1
  <2> QED BY <2>1, <2>2 DEF QueueIsSuffix
<1> QED BY <1>1, <1>2, <1>3

(* The head of the queue waits.                                            *)
LEMMA HeadWaits ==
  ASSUME QueueTypes, QueueIsWaiting, queue # <<>>
  PROVE  Head(queue) \in Jobs /\ pc[Head(queue)] = "waiting"
<1>1. Head(queue) = queue[1] /\ queue[1] \in Jobs /\ 1 \in 1..Len(queue)
  BY TailOf DEF QueueTypes
<1> QED BY <1>1 DEF QueueIsWaiting

(* An arrival that force-releases a stale job: two jobs may now have the   *)
(* queue, and the newcomer overtook whoever waits.                         *)
LEMMA AcquireStaleIInv ==
  ASSUME IInv, NEW j \in Jobs, AcquireStale(j) PROVE IInv'
<1> USE DEF IInv
<1>1. Alone' /\ QueueIsSuffix'
  BY DEF AcquireStale, Alone, QueueIsSuffix
<1>2. CASE queue = <<>>
  <2>1. QueueTypes' /\ j \in Active'
    BY <1>2, AppendOf DEF AcquireStale, QueueTypes, Active
  <2>2. QueueIsWaiting'
    BY <1>2 DEF AcquireStale, QueueTypes, QueueIsWaiting
  <2>3. Served'
    BY <2>1 DEF Served
  <2>4. ArrivalsOnce'
    BY <1>2, <2>1, ArrivesOnce DEF AcquireStale, QueueTypes
  <2> QED BY <1>1, <2>1, <2>2, <2>3, <2>4
<1>3. CASE queue # <<>>
  <2>1. Head(queue) \in Jobs /\ pc[Head(queue)] = "waiting" /\ Tail(queue) \in Seq(Jobs)
    BY <1>3, HeadWaits, TailOf DEF QueueTypes
  <2>2. QueueTypes' /\ j \in Active'
    BY <1>3, <2>1, AppendOf DEF AcquireStale, QueueTypes, Active
  <2>3. \A a \in Jobs : pc'[a] = "waiting" <=> pc[a] = "waiting" /\ a # Head(queue)
    BY <1>3, <2>1 DEF AcquireStale, QueueTypes
  <2>4. QueueIsWaiting'
    BY <1>3, <2>3, PopKeepsWaiting DEF AcquireStale
  <2>5. Served'
    BY <2>2 DEF Served
  <2>6. ArrivalsOnce'
    <3>1. \A k \in Jobs : pc'[k] = "new" => pc[k] = "new" /\ k # j
      BY <1>3, <2>1 DEF AcquireStale, QueueTypes
    <3> QED BY <3>1, <2>2, ArrivesOnce DEF AcquireStale, QueueTypes
  <2> QED BY <1>1, <2>2, <2>4, <2>5, <2>6
<1> QED BY <1>2, <1>3

(* A woken job continues: it had the queue already.                        *)
LEMMA ResumeIInv ==
  ASSUME IInv, NEW j \in Jobs, Resume(j) PROVE IInv'
<1> USE DEF IInv
<1>1. QueueTypes'
  BY DEF Resume, QueueTypes
<1>2. QueueIsWaiting'
  BY DEF Resume, QueueTypes, QueueIsWaiting
<1>3. Active' = Active
  BY DEF Resume, QueueTypes, Active
<1>4. Served' /\ Alone'
  BY <1>3 DEF Resume, Served, Alone
<1>5. QueueIsSuffix'
  BY DEF Resume, QueueIsSuffix
<1>6. ArrivalsOnce'
  BY DEF Resume, QueueTypes, ArrivalsOnce
<1> QED BY <1>1, <1>2, <1>4, <1>5, <1>6

(* A release passes the queue to the oldest waiter, or frees it.           *)
LEMMA ReleaseIInv ==
  ASSUME IInv, NEW j \in Jobs, Release(j) PROVE IInv'
<1> USE DEF IInv
<1>0. j \in Active
  BY DEF Release, Active
<1>1. CASE queue = <<>>
  <2>1. QueueTypes'
    BY <1>1 DEF Release, QueueTypes
  <2>2. QueueIsWaiting'
    BY <1>1 DEF Release, QueueTypes, QueueIsWaiting
  <2>3. Served'
    BY <1>1 DEF Release, Served
  <2>4. Alone'
    BY <1>0, <1>1 DEF Release, QueueTypes, Alone, Active
  <2>5. QueueIsSuffix'
    BY <1>1 DEF Release, QueueIsSuffix
  <2>6. ArrivalsOnce'
    BY <1>1 DEF Release, QueueTypes, ArrivalsOnce
  <2> QED BY <2>1, <2>2, <2>3, <2>4, <2>5, <2>6
<1>2. CASE queue # <<>>
  <2>1. Head(queue) \in Jobs /\ pc[Head(queue)] = "waiting" /\ Tail(queue) \in Seq(Jobs)
    BY <1>2, HeadWaits, TailOf DEF QueueTypes
  <2>2. QueueTypes' /\ Head(queue) \in Active'
    BY <1>2, <2>1 DEF Release, QueueTypes, Active
  <2>3. \A a \in Jobs : pc'[a] = "waiting" <=> pc[a] = "waiting" /\ a # Head(queue)
    BY <1>2, <2>1 DEF Release, QueueTypes
  <2>4. QueueIsWaiting'
    BY <1>2, <2>3, PopKeepsWaiting DEF Release
  <2>5. Served'
    BY <2>2 DEF Served
  <2>6. Alone'
    <3> SUFFICES ASSUME ~forced PROVE Alone'
      BY DEF Release, Alone
    <3>1. Active' = {Head(queue)}
      BY <1>0, <1>2, <2>1 DEF Release, QueueTypes, Alone, Active
    <3> QED BY <1>0, <1>2, <3>1 DEF Release, Alone
  <2>7. QueueIsSuffix'
    BY <1>2, PopKeepsSuffix DEF Release
  <2>8. ArrivalsOnce'
    BY <1>2, <2>1 DEF Release, QueueTypes, ArrivalsOnce
  <2> QED BY <2>2, <2>4, <2>5, <2>6, <2>7, <2>8
<1> QED BY <1>1, <1>2

(* The watchdog: it force-releases, or finds nothing running.              *)
LEMMA WatchdogIInv ==
  ASSUME IInv, Watchdog PROVE IInv'
<1> USE DEF IInv
<1>1. CASE ~running \/ queue = <<>>
  <2>1. QueueTypes' /\ QueueIsWaiting' /\ ArrivalsOnce'
    BY ZenonT(60), <1>1 DEF Watchdog, QueueTypes, QueueIsWaiting, ArrivalsOnce
  <2>2. Active' = Active
    BY <1>1 DEF Watchdog, Active
  <2>3. Served' /\ Alone' /\ QueueIsSuffix'
    BY <1>1, <2>2 DEF Watchdog, Served, Alone, QueueIsSuffix
  <2> QED BY <2>1, <2>3
<1>2. CASE running /\ queue # <<>>
  <2>1. Head(queue) \in Jobs /\ pc[Head(queue)] = "waiting" /\ Tail(queue) \in Seq(Jobs)
    BY <1>2, HeadWaits, TailOf DEF QueueTypes
  <2>2. QueueTypes' /\ Head(queue) \in Active'
    BY <1>2, <2>1 DEF Watchdog, QueueTypes, Active
  <2>3. \A a \in Jobs : pc'[a] = "waiting" <=> pc[a] = "waiting" /\ a # Head(queue)
    BY <1>2, <2>1 DEF Watchdog, QueueTypes
  <2>4. QueueIsWaiting'
    BY <1>2, <2>3, PopKeepsWaiting DEF Watchdog
  <2>5. Served' /\ Alone' /\ QueueIsSuffix'
    BY <1>2, <2>2 DEF Watchdog, Served, Alone, QueueIsSuffix
  <2>6. ArrivalsOnce'
    BY <1>2, <2>1 DEF Watchdog, QueueTypes, ArrivalsOnce
  <2> QED BY <2>2, <2>4, <2>5, <2>6
<1> QED BY <1>1, <1>2 DEF QueueTypes

(* IInv is inductive.                                                      *)
LEMMA NextIInv == IInv /\ [Next]_vars => IInv'
<1> SUFFICES ASSUME IInv, [Next]_vars PROVE IInv'
  OBVIOUS
<1>1. ASSUME NEW j \in Jobs, Arrive(j) \/ Resume(j) PROVE IInv'
  BY <1>1, AcquireNowIInv, EnqueueIInv, AcquireStaleIInv, ResumeIInv DEF Arrive
<1>2. ASSUME NEW j \in Jobs \ Hung, Release(j) PROVE IInv'
  BY <1>2, ReleaseIInv
<1>3. CASE Watchdog
  BY <1>3, WatchdogIInv
<1>4. CASE Tick \/ UNCHANGED vars
  <2>1. /\ running' = running /\ queue' = queue /\ pc' = pc
        /\ arrivals' = arrivals /\ forced' = forced
    BY <1>4 DEF Tick, vars
  <2>2. QueueTypes' /\ QueueIsWaiting' /\ QueueIsSuffix' /\ ArrivalsOnce'
    BY <2>1 DEF IInv, QueueTypes, QueueIsWaiting, QueueIsSuffix, ArrivalsOnce
  <2>3. Served' /\ Alone'
    BY <2>1 DEF IInv, Served, Alone, Active
  <2> QED BY <2>2, <2>3 DEF IInv
<1> QED BY <1>1, <1>2, <1>3, <1>4 DEF Next

(* What IInv says in the words of the runs' invariants.                    *)
LEMMA IInvImplies == IInv => WaitersHaveAServer /\ FairExclusion
<1> SUFFICES ASSUME IInv PROVE WaitersHaveAServer /\ FairExclusion
  OBVIOUS
<1>1. WaitersHaveAServer
  <2>1. \A j \in Jobs : pc[j] = "waiting" <=> j \in InQueue
    BY DEF IInv, QueueIsWaiting, InQueue
  <2> QED BY <2>1 DEF IInv, Served, WaitersHaveAServer
<1>2. OneAtATime
  <2> SUFFICES ASSUME ~forced PROVE Cardinality(Active) <= 1 /\ (running <=> Active # {})
    BY DEF OneAtATime
  <2>1. running <=> Active # {}
    BY DEF IInv, QueueTypes, Served, Alone
  <2>2. CASE Active = {}
    BY <2>1, <2>2, FS_EmptySet
  <2>3. CASE Active # {}
    <3>1. PICK j \in Active : Active = {j}
      BY <2>3 DEF IInv, Alone
    <3>2. Cardinality({j}) = 1
      BY FS_Singleton
    <3> QED BY <2>1, <3>1, <3>2
  <2> QED BY <2>2, <2>3
<1>3. FirstComeFirstServed
  <2> SUFFICES ASSUME ~forced, NEW m \in 1..Len(arrivals), NEW n \in 1..Len(arrivals),
                      m < n, pc[arrivals[m]] = "waiting"
               PROVE  pc[arrivals[n]] = "waiting"
    BY DEF FirstComeFirstServed
  <2> DEFINE k == Len(arrivals) - Len(queue)
  <2>1. Len(arrivals) \in Nat /\ Len(queue) \in Nat /\ Len(queue) <= Len(arrivals)
    BY DEF IInv, QueueTypes, QueueIsSuffix
  <2>2. arrivals[m] \in Jobs /\ arrivals[n] \in Jobs
    BY DEF IInv, QueueTypes
  <2>3. PICK i \in 1..Len(queue) : queue[i] = arrivals[m]
    BY <2>2 DEF IInv, QueueIsWaiting
  <2>4. k + i \in 1..Len(arrivals) /\ arrivals[k + i] = arrivals[m]
    BY <2>1, <2>3 DEF IInv, QueueIsSuffix
  <2>5. m = k + i
    BY <2>4 DEF IInv, ArrivalsOnce
  <2>6. n - k \in 1..Len(queue) /\ k + (n - k) = n
    BY <2>1, <2>5
  <2>7. queue[n - k] = arrivals[n]
    BY <2>6 DEF IInv, QueueIsSuffix
  <2> QED BY <2>2, <2>6, <2>7 DEF IInv, QueueIsWaiting
<1> QED BY <1>1, <1>2, <1>3 DEF FairExclusion

(* No wakeup is ever lost: whatever is force-released and whoever hangs, a *)
(* waiter is in the queue and some job that has not released will wake it  *)
(* (deploy-queue.ts acquire, release, forceReleaseCurrent).                *)
THEOREM NoLostWakeup == Spec => []WaitersHaveAServer
<1>1. IInv => WaitersHaveAServer
  BY IInvImplies
<1> QED BY InitIInv, NextIInv, <1>1, PTL DEF Spec

(* As long as no job is force-released, one job at a time has the queue,   *)
(* `running` says so, and jobs get it in the order they asked.             *)
THEOREM QueueIsFairLock == Spec => []FairExclusion
<1>1. IInv => FairExclusion
  BY IInvImplies
<1> QED BY InitIInv, NextIInv, <1>1, PTL DEF Spec

-----------------------------------------------------------------------------
(* The part of the type invariant of the ports the argument rests on.      *)
PortTypes ==
  /\ at \in [Clients -> Steps]
  /\ kind \in [Clients -> Kinds]
  /\ port \in [Clients -> PortRange \cup {NoPort}]

(* What a client holds is reserved, unless it was freed from under it.     *)
OwnedIsReserved ==
  \A c \in Clients : Owns(c) => port[c] \in reserved \cup late

(* ReservedIsHeld, port by port.                                           *)
HeldOrLeaked ==
  \A p \in reserved : p \in leaked \/ \E c \in Clients : Owns(c) /\ port[c] = p

GrantInv == PortTypes /\ OwnedIsReserved /\ NoDoubleGrant
HeldInv == PortTypes /\ HeldOrLeaked

(* Before anyone asks for a port nothing is reserved.                      *)
LEMMA InitPorts == PortsInit => GrantInv /\ HeldInv
BY DEF PortsInit, GrantInv, HeldInv, PortTypes, OwnedIsReserved, HeldOrLeaked,
   NoDoubleGrant, Owns, Steps, Scanning, Kinds

(* Every step keeps the local variables in their types.                    *)
LEMMA NextPortTypes == PortTypes /\ [PortsNext]_portsVars => PortTypes'
<1> SUFFICES ASSUME PortTypes, [PortsNext]_portsVars PROVE PortTypes'
  OBVIOUS
<1> USE DEF PortTypes, Steps, Scanning, Kinds, memory, local, history,
            Goto, Return
<1>1. ASSUME NEW c \in Clients, Start(c) PROVE PortTypes'
  BY <1>1 DEF Start
<1>2. ASSUME NEW c \in Clients, ScanCached(c) PROVE PortTypes'
  BY <1>2 DEF ScanCached
<1>3. ASSUME NEW c \in Clients, ScanDatabase(c) PROVE PortTypes'
  BY <1>3 DEF ScanDatabase
<1>4. ASSUME NEW c \in Clients, ScanDocker(c) PROVE PortTypes'
  BY <1>4 DEF ScanDocker
<1>5. ASSUME NEW c \in Clients, ScanSystem(c) PROVE PortTypes'
  BY <1>5 DEF ScanSystem
<1>6. ASSUME NEW c \in Clients, Grant(c) PROVE PortTypes'
  <2>1. PICK p \in PortRange \ reserved :
          reserved' = reserved \cup {p} /\ port' = [port EXCEPT ![c] = p]
    BY <1>6 DEF Grant, Choices, Free
  <2> QED BY <1>6, <2>1 DEF Grant
<1>7. ASSUME NEW c \in Clients, AllocateFails(c) PROVE PortTypes'
  BY <1>7 DEF AllocateFails, GivesBackAgain
<1>8. ASSUME NEW c \in Clients, Prepare(c) PROVE PortTypes'
  BY <1>8 DEF Prepare
<1>9. ASSUME NEW c \in Clients, PrepareFails(c) PROVE PortTypes'
  BY <1>9 DEF PrepareFails, Abandon
<1>10. ASSUME NEW c \in Clients, Create(c) PROVE PortTypes'
  BY <1>10 DEF Create
<1>11. ASSUME NEW c \in Clients, ConflictRetry(c) PROVE PortTypes'
  BY <1>11 DEF ConflictRetry
<1>12. ASSUME NEW c \in Clients, CreateFails(c) PROVE PortTypes'
  BY <1>12 DEF CreateFails, Abandon
<1>13. ASSUME NEW c \in Clients, WriteRow(c) PROVE PortTypes'
  BY <1>13 DEF WriteRow
<1>14. ASSUME NEW c \in Clients, WriteRowFails(c) PROVE PortTypes'
  BY <1>14 DEF WriteRowFails, Abandon
<1>15. ASSUME NEW c \in Clients, Remove(c) PROVE PortTypes'
  BY <1>15 DEF Remove
<1>16. CASE CacheExpires
  BY <1>16 DEF CacheExpires
<1>17. CASE Crash
  BY <1>17 DEF Crash
<1>18. CASE UNCHANGED portsVars
  BY <1>18 DEF portsVars
<1> QED
  BY <1>1, <1>2, <1>3, <1>4, <1>5, <1>6, <1>7, <1>8, <1>9, <1>10, <1>11, <1>12,
     <1>13, <1>14, <1>15, <1>16, <1>17, <1>18 DEF PortsNext, Proceed

(* Every step keeps holders apart: a grant takes a port that is not        *)
(* reserved, and only a release by its holder or a late one frees a port.  *)
LEMMA NextPortGrants == GrantInv /\ [PortsNext]_portsVars => OwnedIsReserved' /\ NoDoubleGrant'
<1> SUFFICES ASSUME GrantInv, [PortsNext]_portsVars PROVE OwnedIsReserved' /\ NoDoubleGrant'
  OBVIOUS
<1> USE DEF GrantInv, PortTypes, OwnedIsReserved, NoDoubleGrant, Owns, Released,
            memory, local, history, Goto, Return
<1>1. ASSUME NEW c \in Clients, Start(c) PROVE OwnedIsReserved' /\ NoDoubleGrant'
  BY <1>1 DEF Start
<1>2. ASSUME NEW c \in Clients, ScanCached(c) PROVE OwnedIsReserved' /\ NoDoubleGrant'
  BY <1>2 DEF ScanCached
<1>3. ASSUME NEW c \in Clients, ScanDatabase(c) PROVE OwnedIsReserved' /\ NoDoubleGrant'
  BY <1>3 DEF ScanDatabase
<1>4. ASSUME NEW c \in Clients, ScanDocker(c) PROVE OwnedIsReserved' /\ NoDoubleGrant'
  BY <1>4 DEF ScanDocker
<1>5. ASSUME NEW c \in Clients, ScanSystem(c) PROVE OwnedIsReserved' /\ NoDoubleGrant'
  BY <1>5 DEF ScanSystem
<1>6. ASSUME NEW c \in Clients, Grant(c) PROVE OwnedIsReserved' /\ NoDoubleGrant'
  <2>1. PICK p \in PortRange \ reserved :
          reserved' = reserved \cup {p} /\ port' = [port EXCEPT ![c] = p]
    BY <1>6 DEF Grant, Choices, Free
  <2> QED BY <1>6, <2>1 DEF Grant
<1>7. ASSUME NEW c \in Clients, AllocateFails(c) PROVE OwnedIsReserved' /\ NoDoubleGrant'
  BY <1>7 DEF AllocateFails, GivesBackAgain
<1>8. ASSUME NEW c \in Clients, Prepare(c) PROVE OwnedIsReserved' /\ NoDoubleGrant'
  BY <1>8 DEF Prepare
<1>9. ASSUME NEW c \in Clients, PrepareFails(c) PROVE OwnedIsReserved' /\ NoDoubleGrant'
  BY <1>9 DEF PrepareFails, Abandon
<1>10. ASSUME NEW c \in Clients, Create(c) PROVE OwnedIsReserved' /\ NoDoubleGrant'
  BY <1>10 DEF Create
<1>11. ASSUME NEW c \in Clients, ConflictRetry(c) PROVE OwnedIsReserved' /\ NoDoubleGrant'
  BY <1>11 DEF ConflictRetry
<1>12. ASSUME NEW c \in Clients, CreateFails(c) PROVE OwnedIsReserved' /\ NoDoubleGrant'
  BY <1>12 DEF CreateFails, Abandon
<1>13. ASSUME NEW c \in Clients, WriteRow(c) PROVE OwnedIsReserved' /\ NoDoubleGrant'
  BY <1>13 DEF WriteRow, ReleasesAfterRow
<1>14. ASSUME NEW c \in Clients, WriteRowFails(c) PROVE OwnedIsReserved' /\ NoDoubleGrant'
  BY <1>14 DEF WriteRowFails, Abandon
<1>15. ASSUME NEW c \in Clients, Remove(c) PROVE OwnedIsReserved' /\ NoDoubleGrant'
  BY <1>15 DEF Remove
<1>16. CASE CacheExpires
  BY <1>16 DEF CacheExpires
<1>17. CASE Crash
  BY <1>17 DEF Crash
<1>18. CASE UNCHANGED portsVars
  BY <1>18 DEF portsVars
<1> QED
  BY <1>1, <1>2, <1>3, <1>4, <1>5, <1>6, <1>7, <1>8, <1>9, <1>10, <1>11, <1>12,
     <1>13, <1>14, <1>15, <1>16, <1>17, <1>18 DEF PortsNext, Proceed

(* Every step keeps reserved ports held: whoever stops holding one either  *)
(* gives it back or leaks it in a known way.                               *)
LEMMA NextPortHeld == HeldInv /\ [PortsNext]_portsVars => HeldOrLeaked'
<1> SUFFICES ASSUME HeldInv, [PortsNext]_portsVars PROVE HeldOrLeaked'
  OBVIOUS
<1> USE DEF HeldInv, PortTypes, HeldOrLeaked, Owns, Released, Kinds, ReleasesOn, ReleasesAfterRow, KnownLeak,
           memory, local, history, Goto, Return
<1>1. ASSUME NEW c \in Clients, Start(c) PROVE HeldOrLeaked'
  BY <1>1 DEF Start
<1>2. ASSUME NEW c \in Clients, ScanCached(c) PROVE HeldOrLeaked'
  BY <1>2 DEF ScanCached
<1>3. ASSUME NEW c \in Clients, ScanDatabase(c) PROVE HeldOrLeaked'
  BY <1>3 DEF ScanDatabase
<1>4. ASSUME NEW c \in Clients, ScanDocker(c) PROVE HeldOrLeaked'
  BY <1>4 DEF ScanDocker
<1>5. ASSUME NEW c \in Clients, ScanSystem(c) PROVE HeldOrLeaked'
  BY <1>5 DEF ScanSystem
<1>6. ASSUME NEW c \in Clients, Grant(c) PROVE HeldOrLeaked'
  <2>1. PICK p \in PortRange \ reserved :
          reserved' = reserved \cup {p} /\ port' = [port EXCEPT ![c] = p]
    BY <1>6 DEF Grant, Choices, Free
  <2> QED BY <1>6, <2>1 DEF Grant
<1>7. ASSUME NEW c \in Clients, AllocateFails(c) PROVE HeldOrLeaked'
  BY <1>7 DEF AllocateFails, GivesBackAgain
<1>8. ASSUME NEW c \in Clients, Prepare(c) PROVE HeldOrLeaked'
  BY <1>8 DEF Prepare
<1>9. ASSUME NEW c \in Clients, PrepareFails(c) PROVE HeldOrLeaked'
  BY <1>9 DEF PrepareFails, Abandon
<1>10. ASSUME NEW c \in Clients, Create(c) PROVE HeldOrLeaked'
  BY <1>10 DEF Create
<1>11. ASSUME NEW c \in Clients, ConflictRetry(c) PROVE HeldOrLeaked'
  BY <1>11 DEF ConflictRetry
<1>12. ASSUME NEW c \in Clients, CreateFails(c) PROVE HeldOrLeaked'
  BY <1>12 DEF CreateFails, Abandon
<1>13. ASSUME NEW c \in Clients, WriteRow(c) PROVE HeldOrLeaked'
  BY <1>13 DEF WriteRow
<1>14. ASSUME NEW c \in Clients, WriteRowFails(c) PROVE HeldOrLeaked'
  BY <1>14 DEF WriteRowFails, Abandon
<1>15. ASSUME NEW c \in Clients, Remove(c) PROVE HeldOrLeaked'
  BY <1>15 DEF Remove
<1>16. CASE CacheExpires
  BY <1>16 DEF CacheExpires
<1>17. CASE Crash
  BY <1>17 DEF Crash
<1>18. CASE UNCHANGED portsVars
  BY <1>18 DEF portsVars
<1> QED
  BY <1>1, <1>2, <1>3, <1>4, <1>5, <1>6, <1>7, <1>8, <1>9, <1>10, <1>11, <1>12,
     <1>13, <1>14, <1>15, <1>16, <1>17, <1>18 DEF PortsNext, Proceed

(* Two callers of allocatePort never hold the same host port at once,     *)
(* unless a Compose service gave its first port back a second time.        *)
THEOREM PortsGrantedOnce == PortsSpec => []NoDoubleGrant
<1>1. PortsInit => GrantInv
  BY InitPorts
<1>2. GrantInv /\ [PortsNext]_portsVars => GrantInv'
  BY NextPortTypes, NextPortGrants DEF GrantInv
<1>3. GrantInv => NoDoubleGrant
  BY DEF GrantInv
<1> QED BY <1>1, <1>2, <1>3, PTL DEF PortsSpec

(* Apart from the known leaks, every reservation belongs to an operation   *)
(* that is still under way, whichever way the others ended.                *)
THEOREM ReservationsAreHeld == PortsSpec => []ReservedIsHeld
<1>1. PortsInit => HeldInv
  BY InitPorts
<1>2. HeldInv /\ [PortsNext]_portsVars => HeldInv'
  BY NextPortTypes, NextPortHeld DEF HeldInv
<1>3. HeldInv => ReservedIsHeld
  BY DEF HeldInv, HeldOrLeaked, ReservedIsHeld
<1> QED BY <1>1, <1>2, <1>3, PTL DEF PortsSpec

=============================================================================
