---------------------------- MODULE FieldNetwork ----------------------------
(***************************************************************************)
(* The server as a whole: concurrent API requests over one database, the   *)
(* field switches and one access point, hardware faults, and a crash with  *)
(* its restart.  Ops selects the requests clients send.                    *)
(***************************************************************************)
EXTENDS TeamNetwork, Portal, Health

CONSTANTS
  Ops,         \* the kinds of request clients send, and "crash"
  AskedRoles   \* the roles they ask setRole for

ASSUME OpsAssumption ==
  Ops \subseteq {"assign", "return", "role", "enable", "bounce", "create",
                 "remove", "refresh", "connect", "crash"}

ASSUME AskedAssumption == AskedRoles \subseteq Role

Init == StateInit

\* The routes of a port; a PATCH that asks for several changes waits for one
\* after the other, as a client does that sends them one by one.
PortRequest(w) ==
  \/ /\ "assign" \in Ops
     /\ \E p \in Ports, n \in Ids, b \in BOOLEAN : AssignStart(w, p, n, b)
  \/ /\ "return" \in Ops
     /\ \E p \in Ports, b \in BOOLEAN : ReturnStart(w, p, b)
  \/ "role" \in Ops /\ \E p \in Ports, r \in AskedRoles : RoleStart(w, p, r)
  \/ "enable" \in Ops /\ \E p \in Ports, e \in BOOLEAN : EnableStart(w, p, e)
  \/ "bounce" \in Ops /\ \E p \in Ports : BounceStart(w, p)

\* The routes of a team network.
TeamRequest(w) ==
  \/ /\ "create" \in Ops
     /\ \E number \in Numbers, S \in {Slots} \cup {{s} : s \in Slots} :
          CreateStart(w, number, S)
  \/ "remove" \in Ops /\ \E n \in Ids : RemoveStart(w, n)

\* A page of the admin or of the portal is asked for.
Request(w) ==
  \/ PortRequest(w) \/ TeamRequest(w)
  \/ "refresh" \in Ops /\ RefreshStart(w)
  \/ "connect" \in Ops /\ \E number \in Numbers : ConnectStart(w, number)

ReadSettles(w) ==
  \/ AssignCheck(w) \/ ReturnCheck(w) \/ RoleCheck(w) \/ PortRead(w)
  \/ PortUnreadable(w) \/ CreateScan(w) \/ RefreshRow(w)
  \/ ConnectFound(w) \/ ConnectLost(w)

\* The radio write being served goes on, or settles.
RadioMoves(w) ==
  RadioChecks(w) \/ RadioPosts(w) \/ CreateConfigured(w) \/ RemoveCleared(w)

WriteSettles(w, o) ==
  \/ AssignWritten(w, o) \/ AssignUndone(w, o)
  \/ ReturnVlan(w, o) \/ ReturnEnable(w, o) \/ ReturnFlush(w, o)
  \/ RoleWritten(w, o) \/ LastWrite(w, o)
  \/ CreateTrunked(w, o) \/ RemoveTrunked(w, o)

Progress(w) ==
  ReadSettles(w) \/ RadioMoves(w) \/ \E o \in Outcomes : WriteSettles(w, o)

(***************************************************************************)
(* The process dies and starts again.  Every request and queue is lost; a  *)
(* write under way at the head of a queue took effect or not.  Start-up    *)
(* sets every role to the configured one, keeps the assignments, rebuilds  *)
(* what the radio adapter knows from the rows, and refuses to run when an  *)
(* assigned port is not configured as a client.  A document already posted *)
(* is in the radio's hands.                                                *)
(***************************************************************************)
StartupAccepts == \A p \in Ports : owner[p] # None => PortRole[p] = "client"

CutShort(p) ==
  LET q == swq[SwitchOf[p]]
  IN  IF q # <<>> /\ job[Head(q)].port = p
        THEN UNION {PortsAfter(job[Head(q)], o) : o \in {"lost", "late", "torn"}}
        ELSE {sw[p]}

Crash ==
  /\ "crash" \in Ops
  /\ StartupAccepts
  /\ sw' \in {f \in [Ports -> UNION {CutShort(p) : p \in Ports}] :
                \A p \in Ports : f[p] \in CutShort(p)}
  /\ known' = InitialConfigurations
  /\ stage' = "status"
  /\ role' = PortRole
  /\ job' = [w \in Workers |-> Idle]
  /\ swq' = [s \in Switches |-> <<>>]
  /\ apq' = <<>>
  /\ UNCHANGED <<live, net, status, cred, used, owner, ap, want>>

Next ==
  \/ \E w \in Workers : Request(w) \/ Progress(w)
  \/ RadioApplies \/ RadioDrops
  \/ Crash

Spec == Init /\ [][Next]_vars

(***************************************************************************)
(* Every adapter call settles: the transports have timeouts.  Clients need *)
(* not send anything, and nothing obliges a crash.                         *)
(***************************************************************************)
FairSpec == Spec /\ \A w \in Workers : WF_vars(Progress(w))

-----------------------------------------------------------------------------
(***************************************************************************)
(* Safety.                                                                 *)
(***************************************************************************)
TypeOK == StateTypeOK

Quiet == \A w \in Workers : job[w].pc = "idle"

\* The networks are leases: see NetworkLease.  Concurrent creates and removes,
\* failed radio writes and crashes never make two networks share a number, a
\* VLAN or a slot, never bring a removed network back, and never leave a slot
\* broadcasting for a network that is gone (TeamNetworkService).
Lease == INSTANCE NetworkLease
           WITH TeamVlans <- Pool \ {Onboarding, Management}, air <- ap

ImplementsNetworkLease == Lease!Spec

\* Only a client port has a team, and the team exists: whatever role changes,
\* returns and removals overlap with an assignToTeam or setRole that acts on
\* what it read before its write (PortAssignmentService).
AssignmentIntegrity ==
  \A p \in Ports : owner[p] # None => owner[p] \in live /\ role[p] = "client"

\* A slot broadcasts only for an existing network that holds that slot: a
\* remove overtaking the create's radio write is ordered behind it by the
\* adapter's queue, and the row goes only after the slot was cleared.
RadioHasNetwork ==
  \A s \in Slots : ap[s] # None => ap[s] \in live /\ net[ap[s]].slot = s

\* The key of a network outlives it: a restart can rebuild the radio document
\* of every row (context.ts, initialConfigurations) at any moment.
KeysKept == live \subseteq cred

\* With no write failing, an inspection finds every AP trunk tagged with the
\* VLANs of the networks and untagged for management, however creates and
\* removes overlapped: the last sync queued on a switch took the latest list
\* (syncAccessPointTrunks).
TrunksCarryTeams == Quiet => \A p \in Trunks : ~PortDrifts(p)

\* A network shown as up is on every AP trunk, at any moment and not only when
\* the trunks are at rest: no sync with an older list, of a creation or a removal
\* that was overtaken or given up on, takes its VLAN off again
\* (syncAccessPointTrunks).  Only a refresh can show it as up before that.
UpMeansTrunked ==
  \A n \in live :
    status[n] \in {"waiting-for-robot", "online"} =>
      \A p \in Trunks : net[n].vlan \in sw[p].tagged

\* Two requests wait for their turn at the same device.
SameQueue(j, k) ==
  \/ OnRadio(j) /\ OnRadio(k)
  \/ OnSwitch(j) /\ OnSwitch(k) /\ SwitchOf[j.port] = SwitchOf[k.port]

\* Not everyone waits for everyone: ahead of each request in flight, in the
\* queue of the device it waits for or itself, is one whose own wait may settle
\* now; a write that was rejected, or whose request is over, holds no place
\* (serializedWrite).
NobodyStuck ==
  \A w \in Workers : job[w].pc # "idle" =>
    \E v \in Workers :
      /\ Ready(v, job[v].pc)
      /\ v = w \/ SameQueue(job[v], job[w])

\* Between requests a client port is on the onboarding VLAN or on the VLAN of
\* the network it is assigned to: no failed write sequence strands it on a
\* VLAN that a later network may be given.
PortsIsolated ==
  Quiet => \A p \in Ports :
    InMode(p, "access") /\ Assignable(p) =>
      \/ sw[p].vlan = Onboarding
      \/ owner[p] \in live /\ sw[p].vlan = net[owner[p]].vlan

\* A network shown as up is on the air, whichever creates, removals and
\* refreshes ended before, also those that ended badly.
UpMeansOnAir ==
  Quiet => \A n \in live :
    status[n] \in {"waiting-for-robot", "online"} => ap[net[n].slot] = n

\* "If hardware succeeds but persistence fails, the operation remains diagnosable
\* as drift": at no moment, whatever overlaps or fails, is a report without an
\* issue given while a client port is on the VLAN of a network it is not
\* assigned to, an assigned port is elsewhere, or a network that is shown as up
\* is not on the air (NetworkHealthService).
DriftIsDiagnosed ==
  Healthy =>
    /\ \A n \in live, p \in Ports :
         Assignable(p) /\ InMode(p, "access") /\ sw[p].vlan = net[n].vlan
           => owner[p] = n
    /\ \A p \in Ports :
         owner[p] # None => InMode(p, "access") /\ sw[p].vlan = net[owner[p]].vlan
    /\ \A n \in live : ap[net[n].slot] = n

\* No port is on the VLAN of a network it is not assigned to.
TeamsIsolated ==
  Quiet => \A n \in live, p \in Ports :
    InMode(p, "access") /\ sw[p].vlan = net[n].vlan => owner[p] = n

\* "If a ... bounce fails, ... reconciliation reports desired-versus-actual drift":
\* where clients disable no port, an inspection that reports health, with no
\* request under way, has found every port enabled (bouncePort, inspect).
DisabledIsDrift ==
  Quiet /\ Healthy /\ "enable" \notin Ops => \A p \in Ports : sw[p].enabled

\* A restart with unchanged settings accepts the stored assignments.
RestartAccepted == StartupAccepts

(***************************************************************************)
(* Action properties.                                                      *)
(***************************************************************************)
\* "Returning it to onboarding is a complete safe reset": when an assignment
\* is dropped the port is on the onboarding VLAN and enabled.
ReturnResetsPort ==
  [][\A p \in Ports : owner[p] # None /\ owner'[p] = None =>
       InMode(p, "access")' /\ sw'[p].vlan = Onboarding /\ sw'[p].enabled]_vars

\* A VLAN becomes free for the next network only when no access port is on it.
VlanFreedClean ==
  [][\A n \in live \ live' : \A p \in Ports :
       InMode(p, "access")' => sw'[p].vlan # net[n].vlan]_vars

\* The document a radio write is about to send keeps every other station that
\* was on the air when the write read the status, stations that came on by a
\* document given up on included (assertCanPreserveOtherStations).
OthersStayOnAir ==
  [][\A w \in Workers : \A s \in Slots :
       /\ AtStage(w, "status") /\ stage' = "post"
       /\ s # SlotOf(job[w]) /\ ap[s] # None
       => NextDocument(job[w])[s] = ap[s]]_vars

\* How a request comes closer to its end: it begins to sync the trunks, or has
\* less to visit (ports of a loop, slots to ask, rows to refresh), or is at a
\* later wait.
Part(pc) == IF pc \in {"create.trunk", "remove.trunk"} THEN 1 ELSE 2

WaitsLeft(pc) ==
  CASE pc = "connect.find"                                 -> 6
    [] pc \in {"assign.read", "return.read", "create.scan"} -> 5
    [] pc \in {"assign.vlan", "return.vlan", "create.config"} -> 4
    [] pc = "return.enable"                                -> 3
    [] pc \in {"return.flush", "role.read", "enable.read", "bounce.read"} -> 2
    [] OTHER                                               -> 1

LeftTo(j) == [todo |-> j.todo, slots |-> j.slots, rows |-> Listed(j)]

NoMore(a, b) == a.todo \subseteq b.todo /\ a.slots \subseteq b.slots /\ a.rows \subseteq b.rows

Closer(k, j) ==
  \/ k.pc = "idle"
  \/ Part(k.pc) < Part(j.pc)
  \/ /\ Part(k.pc) = Part(j.pc)
     /\ NoMore(LeftTo(k), LeftTo(j))
     /\ LeftTo(k) # LeftTo(j) \/ WaitsLeft(k.pc) < WaitsLeft(j.pc)

\* No loop over ports, slots or rows begins again and no wait is repeated,
\* whatever fails: each step of a request ends it or brings it closer to its end,
\* and each step of the radio write it waits for brings that closer to its own.
RequestsAdvance ==
  [][/\ \A w \in Workers :
          job[w].pc # "idle" /\ job'[w] # job[w] => Closer(job'[w], job[w])
     /\ job' = job /\ stage' # stage =>
          <<stage, stage'>> \in {<<"status", "post">>, <<"post", "apply">>}]_vars

(***************************************************************************)
(* Liveness.                                                               *)
(***************************************************************************)
\* Every request is answered, whatever fails: no two requests wait for each
\* other and no loop over ports, slots or rows runs for ever.
RequestsFinish == \A w \in Workers : (job[w].pc # "idle") ~> (job[w].pc = "idle")

Removing(w, n) ==
  /\ job[w].net = n
  /\ job[w].pc \in {"return.read", "return.vlan", "return.enable",
                    "return.flush", "remove.clear"}

\* A removal deletes its network or leaves it marked for the operator, whatever
\* fails and whatever runs beside it, another removal of the network included.
RemovalSettles ==
  \A n \in Ids :
    (\E w \in Workers : Removing(w, n)) ~> (n \notin live \/ status[n] = "error")
=============================================================================
