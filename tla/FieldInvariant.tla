--------------------------- MODULE FieldInvariant ---------------------------
(***************************************************************************)
(* The inductive invariant of FieldNetwork: what the proofs of its safety  *)
(* properties need to know about requests in flight.                       *)
(***************************************************************************)
EXTENDS FieldNetwork

ReturnWaits == {"return.read", "return.vlan", "return.enable", "return.flush"}

PortWaits == SwitchWaits \cup ReturnWaits
               \cup {"assign.read", "role.read", "enable.read", "bounce.read"}

NetWaits == {"assign.read", "assign.vlan", "assign.undo", "create.config",
             "create.trunk", "remove.clear", "remove.trunk"}

\* n has, or had, a row: its VLAN and its slot are fixed for ever.
Granted(n) ==
  /\ n \in used
  /\ net[n].vlan \in Pool \ {Onboarding, Management}
  /\ net[n].slot \in Slots

(***************************************************************************)
(* What a request may rely on while it waits.  A create owns an id nobody  *)
(* else names until its row is there; its row outlives its radio write; a  *)
(* removal that reached the trunks has deleted its row for good; a setRole *)
(* that keeps a team keeps it on a client port.                            *)
(***************************************************************************)
JobOK(j) ==
  /\ j.pc \in PortWaits => j.port \in Ports
  /\ j.pc \in NetWaits => Granted(j.net)
  /\ j.pc \in ReturnWaits \cup {"role.write"} => j.net = None \/ Granted(j.net)
  /\ j.pc = "create.scan" => j.net \in Ids \ used
  /\ j.pc = "create.config" => j.net \in live
  /\ j.pc = "remove.trunk" => j.net \notin live
  /\ j.pc = "role.write" => j.net = None \/ j.role = "client"

JobsOK == \A w \in Workers : JobOK(job[w])

FreshApart ==
  \A v, w \in Workers :
    v # w /\ job[w].pc = "create.scan" => job[v].net # job[w].net

\* The radio's queue holds each waiting worker once, and the clear of a
\* network's slot behind the write that configures it.
RadioQueueOK ==
  /\ \A i \in 1 .. Len(apq) : OnRadio(job[apq[i]])
  /\ \A w \in Workers : OnRadio(job[w]) => \E i \in 1 .. Len(apq) : apq[i] = w
  /\ \A i, k \in 1 .. Len(apq) : apq[i] = apq[k] => i = k
  /\ \A i, k \in 1 .. Len(apq) :
       /\ job[apq[i]].pc = "remove.clear"
       /\ job[apq[k]].pc = "create.config"
       /\ job[apq[i]].net = job[apq[k]].net
       => k < i

RowsGranted == \A n \in live : Granted(n)

\* What a step must keep about the requests in flight.
RequestsOK == RowsGranted /\ JobsOK /\ FreshApart /\ RadioQueueOK

\* A document names only networks that exist, each at its own slot.
DocOK(doc) ==
  \A s \in Slots : doc[s] # None => doc[s] \in live /\ net[doc[s]].slot = s

\* What a step must keep about the devices: what is on the air, what the radio
\* was told last and what the adapter remembers may all become the air again.
HardwareOK ==
  /\ sw \in [Ports -> PortState]
  /\ ap \in Document /\ want \in Document /\ known \in Document
  /\ stage \in Stages
  /\ DocOK(ap) /\ DocOK(want) /\ DocOK(known)

\* What every step of FieldNetwork preserves: the types, the requests, the
\* devices, and what the database promises about ports and keys.
IInv == TypeOK /\ RequestsOK /\ HardwareOK /\ AssignmentIntegrity /\ KeysKept
-----------------------------------------------------------------------------
(***************************************************************************)
(* One request at a time.  What it read before an await still holds after  *)
(* it: the network it assigns is there, its port keeps its role and its    *)
(* owner, what a return wrote is what the port does, and a removal has     *)
(* returned or still lists every port of its network.                      *)
(***************************************************************************)
Removes(j) == j.pc \in ReturnWaits \cup {"remove.clear"} /\ j.net # None

SoleJobOK(j) ==
  /\ j.pc \in {"assign.read", "assign.vlan"} \/ Removes(j) => j.net \in live
  /\ j.pc # "assign.undo"
  /\ j.pc \in {"assign.vlan", "return.vlan"} => Assignable(j.port)
  /\ j.pc \in {"return.enable", "return.flush"} =>
       InMode(j.port, "access") /\ sw[j.port].vlan = Onboarding
  /\ j.pc = "return.flush" => sw[j.port].enabled
  /\ Removes(j) =>
       \A p \in Ports : owner[p] = j.net => p = j.port \/ p \in j.todo
  /\ j.pc = "remove.clear" => j.port = None /\ j.todo = {}
  /\ j.pc = "role.write" => j.net = owner[j.port]
  /\ j.pc \in {"create.trunk", "remove.trunk"} => {j.port} \cup j.todo \subseteq Trunks

\* No request takes the trunk role from a port built as an AP trunk: the
\* readback of its access VLAN never passes.
TrunksKept == \A p \in Ports : PortRole[p] = "ap-trunk" => role[p] = "ap-trunk"

SoleInv == (\A w \in Workers : SoleJobOK(job[w])) /\ TrunksKept

\* Where a port rests if no write fails half-way: with its team, or without one.
OnOwnVlan(p) ==
  \/ sw[p].vlan = Onboarding
  \/ owner[p] \in live /\ sw[p].vlan = net[owner[p]].vlan

PortsPlaced == \A p \in Ports : sw[p].vlan = Management \/ OnOwnVlan(p)

\* With no request for the trunk role, no other port gets it.
TrunksFixed ==
  /\ \A p \in Ports : role[p] = "ap-trunk" => PortRole[p] = "ap-trunk"
  /\ \A w \in Workers : job[w].role # "ap-trunk"

ClientsPlaced ==
  \A p \in Ports : PortRole[p] # "ap-trunk" /\ Assignable(p) => OnOwnVlan(p)

\* The radio does, and the adapter knows, what was posted last, unless the
\* document of the one request is on its way.
RadioSettled ==
  \/ stage # "apply" /\ want = ap /\ known = ap
  \/ /\ stage = "apply"
     /\ \E w \in Workers :
          OnRadio(job[w]) /\ want = NextDocument(job[w]) /\ ap \in {known, want}

RadioAtWork == stage = "status" \/ \E w \in Workers : OnRadio(job[w])

\* A network that counts as up is on the air, until its removal has posted the
\* document that takes it off; a create that syncs trunks has put it there.
UpOnAir ==
  /\ \A n \in live :
       status[n] \in {"waiting-for-robot", "online"} =>
         \/ ap[net[n].slot] = n
         \/ \E w \in Workers :
              job[w].pc = "remove.clear" /\ job[w].net = n /\ stage = "apply"
  /\ \A w \in Workers :
       job[w].pc = "create.trunk" => ap[net[job[w].net].slot] = job[w].net

RadioInv == RadioSettled /\ RadioAtWork /\ UpOnAir

\* All that one request at a time relies on, when a rejected write is one that
\* changed nothing.
SerialInv == SoleInv /\ PortsPlaced /\ TrunksFixed /\ ClientsPlaced /\ RadioInv
-----------------------------------------------------------------------------
(***************************************************************************)
(* The AP trunks.  Every sync visits them in the same order, and a write   *)
(* queue is first come first served, so the syncs stay in the order they   *)
(* began in: only the last one needs a list that is up to date.            *)
(***************************************************************************)
Syncs(j) == j.pc \in {"create.trunk", "remove.trunk"}

\* A switch's queue holds the workers that wait on the switch, each once.
SwitchQueueOK ==
  \A s \in Switches :
    /\ \A w \in Workers :
         (\E i \in 1 .. Len(swq[s]) : swq[s][i] = w)
           <=> OnSwitch(job[w]) /\ SwitchOf[job[w].port] = s
    /\ \A i, k \in 1 .. Len(swq[s]) : swq[s][i] = swq[s][k] => i = k

Before(q, v, w) == \E i, k \in 1 .. Len(q) : i < k /\ q[i] = v /\ q[k] = w

\* w is a sync that comes to every trunk after v does.
Behind(w, v) ==
  /\ Syncs(job[w])
  /\ \/ job[w].port < job[v].port
     \/ /\ job[w].port = job[v].port
        /\ Before(swq[SwitchOf[job[v].port]], v, w)

\* A create has stored its row and not begun its sync.
RowAhead == \E w \in Workers : job[w].pc = "create.config"

\* The last sync carries the VLANs of the rows.
LastListRight ==
  \A w \in Workers :
    Syncs(job[w]) =>
      \/ RowAhead
      \/ \E v \in Workers : Behind(v, w)
      \/ job[w].vlans = AllocatedVlans(live)

\* A trunk that no sync will come to any more has them.
VisitedRight ==
  \A p \in Trunks :
    \/ RowAhead
    \/ \E w \in Workers : Syncs(job[w]) /\ job[w].port <= p
    \/ sw[p].vlan = Management /\ sw[p].tagged = AllocatedVlans(live)

\* A sync has left the trunks up to its port, and a request that may make a
\* client port of its port is not about a trunk.
OnTrunks(j) ==
  /\ j.role # "ap-trunk"
  /\ Syncs(j) => j.port \in Trunks /\ j.todo = {p \in Trunks : p > j.port}
  /\ j.pc \in {"assign.vlan", "assign.undo", "return.vlan", "return.enable",
               "return.flush"} => j.port \notin Trunks

\* With no request for the trunk role the trunks are those built as such.
SyncsOnTrunks ==
  /\ \A p \in Ports : role[p] = "ap-trunk" <=> PortRole[p] = "ap-trunk"
  /\ \A w \in Workers : OnTrunks(job[w])

\* All that the trunks rely on, while their writes are not rejected.
TrunkInv == SwitchQueueOK /\ SyncsOnTrunks /\ LastListRight /\ VisitedRight
-----------------------------------------------------------------------------
(***************************************************************************)
(* The VLAN of one network, when writes to the trunks may be rejected.  A  *)
(* create that syncs is behind every sync whose list is from before its    *)
(* row, so none of them comes to a trunk after it; once it has ended well  *)
(* none of them is left.                                                   *)
(***************************************************************************)
Lists(v, n) == net[n].vlan \in job[v].vlans

Carries(p, n) == net[n].vlan \in sw[p].tagged

CreatesReach ==
  \A w \in Workers :
    job[w].pc = "create.trunk" /\ job[w].net \in live =>
      /\ Lists(w, job[w].net)
      /\ \A v \in Workers : Syncs(job[v]) => Lists(v, job[w].net) \/ Behind(w, v)
      /\ \A p \in Trunks : p < job[w].port => Carries(p, job[w].net)

UpCarried ==
  \A n \in live :
    status[n] \in {"waiting-for-robot", "online"} =>
      /\ \A v \in Workers : Syncs(job[v]) => Lists(v, n)
      /\ \A p \in Trunks : Carries(p, n)

\* Nobody asks for a refresh or for another role.
Undisturbed ==
  \A w \in Workers : job[w].pc \notin {"refresh", "role.read", "role.write"}

ReachInv ==
  SwitchQueueOK /\ SyncsOnTrunks /\ Undisturbed /\ CreatesReach /\ UpCarried
=============================================================================
