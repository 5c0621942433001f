-------------------------- MODULE FieldLeaseProofs --------------------------
(***************************************************************************)
(* FieldNetwork implements NetworkLease: every step grants, wastes or      *)
(* releases a lease, or changes what is on the air to what the leases      *)
(* allow.  That two networks never share anything follows from it, and so  *)
(* do the properties that rest on that.                                    *)
(***************************************************************************)
EXTENDS FieldNetworkProofs

RowsUnchanged == UNCHANGED <<used, live, net>>

LEMMA LeaseInit == Init => Lease!Init
BY DEF Init, StateInit, Lease!Init

(***************************************************************************)
(* The steps that touch a lease.                                           *)
(***************************************************************************)
\* create: the row is inserted, or the id is spent on a failed insert.
LEMMA CreateScanLease ==
  ASSUME IInv, NEW w \in Workers, CreateScan(w)
  PROVE  Lease!Next \/ RowsUnchanged
<1> DEFINE n == job[w].net
<1>1. n \in Ids \ used
  BY DEF CreateScan, Ready, IInv, RequestsOK, JobsOK, JobOK
<1>2. PICK s \in Slots :
        \/ /\ used' = used \cup {n}
           /\ \/ \E v \in Pool : Inserts(n, job[w].number, s, v)
              \/ UNCHANGED <<live, net>>
        \/ UNCHANGED <<live, net, used>>
  BY DEF CreateScan
<1>3. UNCHANGED ap
  BY DEF CreateScan, hardware, radio
<1>4. ASSUME NEW v \in Pool, used' = used \cup {n}, Inserts(n, job[w].number, s, v)
      PROVE  Lease!Grant(n)
  <2>1. /\ v \in Pool \ {Onboarding, Management} /\ v \notin AllocatedVlans(live)
        /\ job[w].number \notin TakenNumbers /\ s \notin TakenSlots
        /\ live' = live \cup {n}
        /\ net' = [net EXCEPT ![n] = [number |-> job[w].number, vlan |-> v, slot |-> s]]
    BY <1>4 DEF Inserts, Allocates, IsLeast
  <2>2. net'[n] = [number |-> job[w].number, vlan |-> v, slot |-> s]
        /\ \A m \in Ids \ {n} : net'[m] = net[m]
    BY <1>1, <2>1 DEF IInv, TypeOK, StateTypeOK
  <2>3. Lease!Exclusive(n, net'[n])
    BY <2>1, <2>2 DEF Lease!Exclusive, AllocatedVlans, TakenNumbers, TakenSlots
  <2>4. QED
    BY <1>1, <1>3, <1>4, <2>1, <2>2, <2>3 DEF Lease!Grant
<1>5. CASE used' = used \cup {n} /\ UNCHANGED <<live, net>>
  BY <1>1, <1>3, <1>5 DEF Lease!Next, Lease!Waste
<1>6. CASE UNCHANGED <<live, net, used>>
  BY <1>6 DEF RowsUnchanged
<1>7. QED
  BY <1>1, <1>2, <1>4, <1>5, <1>6 DEF Lease!Next

\* remove: the row is deleted when no slot broadcasts for it any more.
LEMMA RemoveClearedLease ==
  ASSUME IInv, HardwareOK', NEW w \in Workers, RemoveCleared(w)
  PROVE  Lease!Next \/ RowsUnchanged
<1> DEFINE n == job[w].net
<1>1. /\ UNCHANGED <<net, used>>
      /\ \/ RadioConfirms(w) /\ live' = live \ {n}
         \/ UNCHANGED live
  BY DEF RemoveCleared, DeleteRow
<1>2. CASE UNCHANGED live
  BY <1>1, <1>2 DEF RowsUnchanged
<1>3. CASE RadioConfirms(w) /\ live' = live \ {n} /\ n \in live
  <2>1. n \in Ids /\ n # None /\ ap' = ap
    BY <1>3, Unchanged, IdAssumption DEF RadioConfirms, None
  <2>2. \A s \in Slots : ap[s] # n
    BY <1>3, <2>1 DEF HardwareOK, DocOK
  <2>3. Lease!Release(n)
    BY <1>1, <1>3, <2>1, <2>2 DEF Lease!Release
  <2>4. QED
    BY <2>1, <2>3 DEF Lease!Next
<1>4. CASE live' = live \ {n} /\ n \notin live
  <2>1. UNCHANGED live
    BY <1>4
  <2>2. QED
    BY <1>1, <2>1 DEF RowsUnchanged
<1>5. QED
  BY <1>1, <1>2, <1>3, <1>4

(***************************************************************************)
(* The other steps leave the rows alone.                                   *)
(***************************************************************************)
LEMMA RequestLease ==
  ASSUME NEW w \in Workers, Request(w)
  PROVE  RowsUnchanged
BY DEF Request, PortRequest, TeamRequest, AssignStart, ReturnStart, RoleStart,
       EnableStart, BounceStart,
       CreateStart, RemoveStart, RefreshStart, ConnectStart, RowsUnchanged, database

LEMMA ReadLease ==
  ASSUME NEW w \in Workers, ReadSettles(w)
  PROVE  CreateScan(w) \/ RowsUnchanged
BY DEF ReadSettles, AssignCheck, ReturnCheck, RoleCheck, PortRead, PortUnreadable,
       RefreshRow, ConnectFound, ConnectLost, RowsUnchanged, database

LEMMA WriteLease ==
  ASSUME NEW w \in Workers, NEW o \in Outcomes, WriteSettles(w, o)
  PROVE  RowsUnchanged
BY DEF WriteSettles, AssignWritten, AssignUndone, ReturnVlan, ReturnEnable,
       ReturnWritten, ReturnFlush, RoleWritten, LastWrite, CreateTrunked,
       RemoveTrunked, RowsUnchanged, database

LEMMA RadioLease ==
  ASSUME NEW w \in Workers, RadioMoves(w)
  PROVE  RemoveCleared(w) \/ RowsUnchanged
BY DEF RadioMoves, RadioChecks, RadioPosts, CreateConfigured, RowsUnchanged, database

\* With the rows unchanged, whatever is on the air is lawful.
LEMMA BroadcastLease ==
  ASSUME HardwareOK', RowsUnchanged
  PROVE  Lease!Next
<1>1. ap' \in [Slots -> Ids \cup {None}] /\ UNCHANGED <<used, live, net>>
  BY DEF HardwareOK, Document, RowsUnchanged
<1>2. \A s \in Slots : ap'[s] # None => ap'[s] \in live /\ net[ap'[s]].slot = s
  BY <1>1 DEF HardwareOK, DocOK
<1>3. QED
  BY <1>1, <1>2 DEF Lease!Next, Lease!Broadcast

LEMMA LeaseStep == IInv /\ [Next]_vars => Lease!Next
<1> SUFFICES ASSUME IInv, [Next]_vars
             PROVE  Lease!Next \/ RowsUnchanged
  BY NextInv, BroadcastLease DEF IInv
<1>1. ASSUME NEW w \in Workers, Progress(w)
      PROVE  Lease!Next \/ RowsUnchanged
  <2>1. HardwareOK'
    BY <1>1, NextInv DEF IInv, Next
  <2>2. QED
    BY <1>1, <2>1, ReadLease, CreateScanLease, WriteLease, RadioLease,
       RemoveClearedLease DEF Progress
<1>2. CASE RadioApplies \/ RadioDrops \/ Crash \/ UNCHANGED vars
  BY <1>2 DEF RadioApplies, RadioDrops, Crash, vars, database, RowsUnchanged
<1>3. QED
  BY <1>1, <1>2, RequestLease DEF Next

\* TeamNetworkService implements the leases: in every interleaving, with every
\* write failure and crash, networks hold number, VLAN and slot exclusively.
THEOREM Refinement == Spec => ImplementsNetworkLease
BY LeaseInit, LeaseStep, Invariance, PTL
   DEF Spec, ImplementsNetworkLease, Lease!Spec

(***************************************************************************)
(* Consequences.                                                           *)
(***************************************************************************)
\* A slot broadcasts only for an existing network that holds the slot, in every
\* interleaving of creates and removals, with every failure and crash: also for
\* a document the radio applies after its write was given up.
THEOREM RadioTheorem == Spec => []RadioHasNetwork
<1>1. IInv => RadioHasNetwork
  BY DEF IInv, HardwareOK, DocOK, RadioHasNetwork
<1>2. QED
  BY <1>1, Invariance, PTL

\* What holding exclusively means for the rows.
RowsApart ==
  \A m, n \in live :
    m # n => /\ net[m].number # net[n].number
             /\ net[m].vlan # net[n].vlan
             /\ net[m].slot # net[n].slot

LEMMA RowsApartStep ==
  ASSUME IInv, RowsApart, [Next]_vars
  PROVE  RowsApart'
<1>1. Lease!Next
  BY LeaseStep
<1>2. ASSUME NEW n \in Ids, Lease!Grant(n)
      PROVE  RowsApart'
  <2>1. /\ live' = live \cup {n} /\ n \notin used
        /\ \A m \in Ids \ {n} : net'[m] = net[m]
        /\ \A m \in live \ {n} : /\ net'[n].number # net[m].number
                                 /\ net'[n].vlan # net[m].vlan
                                 /\ net'[n].slot # net[m].slot
    BY <1>2 DEF Lease!Grant, Lease!Exclusive
  <2>2. \A m \in live : m \in Ids \ {n} /\ net'[m] = net[m]
    BY <2>1, Unchanged
  <2>3. QED
    BY <2>1, <2>2 DEF RowsApart
<1>3. ASSUME NEW n \in Ids, Lease!Waste(n) \/ Lease!Release(n)
      PROVE  RowsApart'
  BY <1>3 DEF Lease!Waste, Lease!Release, RowsApart
<1>4. CASE Lease!Broadcast
  BY <1>4 DEF Lease!Broadcast, RowsApart
<1>5. QED
  BY <1>1, <1>2, <1>3, <1>4 DEF Lease!Next

\* TeamNetworkService.reserve and the unique columns of team_networks: whatever
\* requests overlap or fail, two networks never hold the same team number, VLAN
\* or radio slot.
THEOREM RowsApartInvariant == Spec => []RowsApart
<1>1. Init => RowsApart
  BY DEF Init, StateInit, RowsApart
<1>2. QED
  BY <1>1, RowsApartStep, Invariance, PTL DEF Spec

\* NetworkHealthService: a report without an issue means that client ports are
\* isolated, assigned ports are connected and networks are on the air, at any
\* moment of any behaviour.
THEOREM DiagnosisTheorem == Spec => []DriftIsDiagnosed
<1>1. ASSUME IInv, RowsApart, Healthy
      PROVE  DriftIsDiagnosed
  <2>1. ASSUME NEW n \in live, NEW p \in Ports, Assignable(p),
               sw[p].vlan = net[n].vlan
        PROVE  owner[p] = n
    <3>1. sw[p].vlan = IF owner[p] \in live THEN net[owner[p]].vlan ELSE Onboarding
      BY <1>1, <2>1 DEF Healthy, PortDrifts, Assignable
    <3>2. net[n].vlan # Onboarding
      BY <1>1 DEF IInv, RequestsOK, RowsGranted, Granted
    <3>3. QED
      BY <1>1, <2>1, <3>1, <3>2 DEF RowsApart
  <2>2. ASSUME NEW p \in Ports, owner[p] # None
        PROVE  InMode(p, "access") /\ sw[p].vlan = net[owner[p]].vlan
    <3>1. owner[p] \in live /\ role[p] = "client"
      BY <1>1, <2>2 DEF IInv, AssignmentIntegrity
    <3>2. QED
      BY <1>1, <3>1 DEF Healthy, PortDrifts
  <2>3. ASSUME NEW n \in live
        PROVE  ap[net[n].slot] = n
    <3>1. net[n].slot \in Slots /\ ap[net[n].slot] # None
      BY <1>1 DEF Healthy, RadioDrifts, IInv, RequestsOK, RowsGranted, Granted
    <3>2. ap[net[n].slot] \in live /\ net[ap[net[n].slot]].slot = net[n].slot
      BY <1>1, <3>1 DEF IInv, HardwareOK, DocOK
    <3>3. QED
      BY <1>1, <3>2 DEF RowsApart
  <2>4. QED
    BY <2>1, <2>2, <2>3 DEF DriftIsDiagnosed
<1>2. IInv /\ RowsApart => DriftIsDiagnosed
  BY <1>1 DEF DriftIsDiagnosed
<1>3. QED
  BY <1>2, Invariance, RowsApartInvariant, PTL

(***************************************************************************)
(* The radio keeps the other stations.                                     *)
(***************************************************************************)
\* Only the check lets a radio write go on to its post.
LEMMA StageMoves ==
  ASSUME [Next]_vars, stage' # stage, stage' = "post"
  PROVE  \E w \in Workers : RadioChecks(w)
<1>1. ASSUME NEW w \in Workers, Request(w)
      PROVE  FALSE
  BY <1>1
     DEF Request, PortRequest, TeamRequest, AssignStart, ReturnStart, RoleStart,
         EnableStart, BounceStart,
         CreateStart, RemoveStart, RefreshStart, ConnectStart, hardware, radio
<1>2. ASSUME NEW w \in Workers, ReadSettles(w)
      PROVE  FALSE
  BY <1>2
     DEF ReadSettles, AssignCheck, ReturnCheck, RoleCheck, PortRead, PortUnreadable,
         CreateScan, RefreshRow, ConnectFound, ConnectLost, hardware, radio
<1>3. ASSUME NEW w \in Workers, NEW o \in Outcomes, WriteSettles(w, o)
      PROVE  FALSE
  BY <1>3
     DEF WriteSettles, AssignWritten, AssignUndone, ReturnVlan, ReturnEnable,
         ReturnWritten, ReturnFlush, RoleWritten, LastWrite, CreateTrunked,
         RemoveTrunked, SwitchSettles, radio
<1>4. ASSUME NEW w \in Workers, RadioMoves(w)
      PROVE  RadioChecks(w)
  BY <1>4 DEF RadioMoves, RadioPosts, CreateConfigured, RemoveCleared, RadioConfirms,
              RadioRejects
<1>5. ~(RadioApplies \/ RadioDrops \/ Crash \/ UNCHANGED vars)
  BY DEF RadioApplies, RadioDrops, Crash, vars, hardware, radio
<1>6. QED
  BY <1>1, <1>2, <1>3, <1>4, <1>5 DEF Next, Progress

\* VH113AccessPoint: the document a write sends keeps every other network that was
\* on the air when the write read the status, whatever the radio applied late
\* before that and whatever the adapter remembers.
THEOREM PreservationTheorem == Spec => OthersStayOnAir
<1> DEFINE Kept ==
      \A w \in Workers : \A s \in Slots :
        /\ AtStage(w, "status") /\ stage' = "post"
        /\ s # SlotOf(job[w]) /\ ap[s] # None
        => NextDocument(job[w])[s] = ap[s]
<1>1. ASSUME IInv, RowsApart, [Next]_vars
      PROVE  Kept
  <2> SUFFICES ASSUME NEW w \in Workers, NEW s \in Slots,
                      AtStage(w, "status"), stage' = "post",
                      s # SlotOf(job[w]), ap[s] # None
               PROVE  NextDocument(job[w])[s] = ap[s]
    OBVIOUS
  <2>1. PICK v \in Workers : RadioChecks(v)
    BY <1>1, StageMoves DEF AtStage
  <2>2. v = w
    BY <2>1 DEF RadioChecks, AtStage, Serves
  <2>3. known[s] # None
    BY <2>1, <2>2 DEF RadioChecks, WriteAllowed, CanPreserveOthers
  <2>4. /\ known[s] \in live /\ net[known[s]].slot = s
        /\ ap[s] \in live /\ net[ap[s]].slot = s
    BY <1>1, <2>3 DEF IInv, HardwareOK, DocOK
  <2>5. known[s] = ap[s]
    BY <1>1, <2>4 DEF RowsApart
  <2>6. NextDocument(job[w])[s] = known[s]
    BY <1>1 DEF NextDocument, IInv, HardwareOK, Document
  <2>7. QED
    BY <2>5, <2>6
<1>2. QED
  BY <1>1, Invariance, RowsApartInvariant, PTL DEF Spec, OthersStayOnAir
=============================================================================
