----------------------------- MODULE FieldState -----------------------------
(***************************************************************************)
(* The state the server's services share: the SQLite database, the field   *)
(* switches and the access point as they really are, and the API requests  *)
(* in flight.                                                              *)
(*                                                                         *)
(* The server is one Node.js process.  A request is an async function, so  *)
(* an action of the model is the code between two awaits: it runs without  *)
(* interruption, while other requests run between two such chunks.  SQLite *)
(* is called synchronously and never yields.  Each hardware adapter chains *)
(* its writes on a promise (serializedWrite), so the writes of one device  *)
(* are served first come first served, and the code after an awaited write *)
(* runs before the next queued write of that device takes effect.  Reads   *)
(* are not queued; a read tells what the device is when its answer is      *)
(* handled, so its staleness starts at the next await.                     *)
(***************************************************************************)
EXTENDS SwitchPort, Sequences

CONSTANTS
  Ports,       \* switch ports, numbered in the order listPortAssignments returns
  Switches,    \* managed switches
  SwitchOf,    \* [Ports -> Switches]
  PortRole,    \* [Ports -> Role]: the roles configured for this installation
  Slots,       \* AP station slots, numbered in the order the AP lists them
  RedSlots,    \* the slots of the red alliance; the others are blue
  SlotVlans,   \* [Slots -> SUBSET Nat]: supportedVlansBySlot
  Pool,        \* teamVlanStart..teamVlanEnd
  Onboarding,  \* config.onboardingVlan
  Management,  \* config.managementVlan
  Ids,         \* network ids (fresh UUIDs); bounds the creates of a behaviour
  Numbers,     \* FRC team numbers
  Workers,     \* concurrent API requests; bounds the requests in flight
  Faults,      \* how a switch write may fail, see Outcomes
  RadioFaults  \* how a radio write may fail, see AccessPoint

ASSUME TopologyAssumption ==
  /\ Ports \subseteq Nat \ {0}
  /\ SwitchOf \in [Ports -> Switches]
  /\ Slots \subseteq Nat \ {0}
  /\ RedSlots \subseteq Slots
  /\ SlotVlans \in [Slots -> SUBSET Nat]

ASSUME IdAssumption == Ids \subseteq Nat \ {0} /\ Numbers \subseteq Nat \ {0}

\* installation_config; the production start-up insists on Management # Onboarding.
ASSUME ConfigAssumption ==
  /\ Pool \subseteq Nat
  /\ Onboarding \in Nat \ {0}
  /\ Management \in Nat \ {0}
  /\ Management # Onboarding

ASSUME RoleAssumption == PortRole \in [Ports -> Role]

\* A switch write settles in one of these ways (SwitchAdapter shows which).
\* "lost": rejected, and the port did not change (unreachable, refused).
\* "late": rejected although the port did change (the save or the readback
\* failed, or the readback could not be as asked).  "torn": rejected with some of
\* its commands carried out.
Outcomes == {"ok", "late"} \cup Faults

ASSUME FaultAssumption ==
  Faults \subseteq {"lost", "late", "torn"} /\ RadioFaults \subseteq {"lost", "late"}

Vlans == Pool \cup {Onboarding, Management}

Statuses == {"provisioning", "waiting-for-robot", "online", "offline", "error"}

VARIABLES
  live,    \* ids of the rows of team_networks
  net,     \* the columns of a row that no statement changes after the INSERT
  status,  \* the status column
  cred,    \* ids whose wireless key is in the credential store
  used,    \* ids handed out so far: UUIDs never repeat
  role,    \* port_assignments.role
  owner,   \* port_assignments.team_network_id
  sw,      \* what each switch port really does
  ap,      \* the network each AP slot really broadcasts
  want,    \* the same, of the document the AP accepted last: pending if not ap
  known,   \* the adapter's configurations: what it believes the slots hold
  stage,   \* how far the radio write being served has come
  swq,     \* write queue of each switch adapter: the workers waiting on it
  apq,     \* write queue of the access point adapter
  job      \* each worker's request: where it is and what its locals hold

database == <<live, net, status, cred, used, role, owner>>
radio == <<ap, want, known, stage>>
hardware == <<sw, radio>>
requests == <<swq, apq, job>>
vars == <<database, hardware, requests>>

Network == [number : Numbers \cup {None}, vlan : Nat, slot : Slots \cup {None}]

NoNetwork == [number |-> None, vlan |-> 0, slot |-> None]

\* What a configuration document says of each slot.
Document == [Slots -> Ids \cup {None}]

\* A served radio write waits for the status it asked for, for the answer to
\* the document it posts, and for the document to be applied.
Stages == {"status", "post", "apply"}

PortState == [vlan : Vlans \cup {None}, tagged : SUBSET Nat, enabled : BOOLEAN]

(***************************************************************************)
(* Where a request waits.  A switch or radio wait is a place in the        *)
(* device's write queue; the others wait on a read, which is not queued.   *)
(***************************************************************************)
VlanWaits == {"assign.vlan", "assign.undo", "return.vlan", "role.write",
              "create.trunk", "remove.trunk"}

SwitchWaits == VlanWaits \cup {"return.enable", "return.flush", "enable.write",
                               "bounce"}

RadioWaits == {"create.config", "remove.clear"}

ReadWaits == {"assign.read", "return.read", "role.read", "enable.read",
              "bounce.read", "connect.find", "create.scan", "refresh"}

Job == [pc      : SwitchWaits \cup RadioWaits \cup ReadWaits \cup {"idle"},
        net     : Ids \cup {None},       \* the network the request is about
        port    : Ports \cup {None},     \* the port it is working on
        todo    : SUBSET Ports,          \* ports its loop has still to visit
        vlans   : SUBSET Nat,            \* VLAN list it took for a trunk
        vlan    : Vlans,                 \* previousVlan of assignToTeam
        role    : Role,                  \* requested role
        flag    : BOOLEAN,               \* requested enabled / bounce option
        number  : Numbers \cup {None},   \* requested team number
        slots   : SUBSET Slots,          \* station slots not yet looked at
        seen    : [Ids -> Statuses \cup {"-"}]]  \* rows a refresh listed

Idle == [pc |-> "idle", net |-> None, port |-> None, todo |-> {}, vlans |-> {},
         vlan |-> Onboarding, role |-> "client", flag |-> FALSE,
         number |-> None, slots |-> {}, seen |-> [n \in Ids |-> "-"]]

OnSwitch(j) == j.pc \in SwitchWaits

OnRadio(j) == j.pc \in RadioWaits

IsLeast(x, S) == x \in S /\ \A y \in S : x <= y

\* Mistake: a settled write keeps its place in the queue.
DequeuedNever(s, w) == swq[s]

(***************************************************************************)
(* Worker w goes on as job j: the write it was waiting for, if any, leaves *)
(* its queue, and the write j waits for, if any, is queued.                *)
(***************************************************************************)
Dequeued(s, w) ==
  IF OnSwitch(job[w]) /\ SwitchOf[job[w].port] = s THEN Tail(swq[s]) ELSE swq[s]

Become(w, j) ==
  /\ job' = [job EXCEPT ![w] = j]
  /\ swq' = [s \in Switches |->
               IF OnSwitch(j) /\ SwitchOf[j.port] = s
                 THEN Append(Dequeued(s, w), w) ELSE Dequeued(s, w)]
  /\ apq' = LET rest == IF OnRadio(job[w]) THEN Tail(apq) ELSE apq
            IN  IF OnRadio(j) THEN Append(rest, w) ELSE rest

Finish(w) == Become(w, Idle)

\* Mistake: a write does not wait for those queued before it.
ServesAnyone(q, w) == q # <<>>

\* The device serves the write w queued.
Serves(q, w) == q # <<>> /\ Head(q) = w

\* What w waits for at pc may now settle: a queued write only when served.
Ready(w, pc) ==
  /\ job[w].pc = pc
  /\ OnSwitch(job[w]) => Serves(swq[SwitchOf[job[w].port]], w)
  /\ OnRadio(job[w]) => Serves(apq, w)

(***************************************************************************)
(* The devices.  PortsAfter are the ports a switch write of job j may      *)
(* leave when it settles with outcome o.  A bounce disables the port,      *)
(* waits and enables it again if it was enabled: cut short, it stays       *)
(* disabled.  A VLAN write ends with a readback, which insists on the mode *)
(* asked for: a port with another configured role never passes it.         *)
(***************************************************************************)
InMode(p, mode) == Shows(PortRole[p], sw[p], mode)

RoleConfigured(port, r, V) ==
  CASE r = "ap-trunk"              -> Trunk(port, Management, V)
    [] r \in {"client", "unused"}  -> Access(port, Onboarding)
    [] OTHER                       -> Access(port, Management)

Written(port, j) ==
  CASE j.pc = "assign.vlan"   -> Access(port, net[j.net].vlan)
    [] j.pc = "assign.undo"   -> Access(port, j.vlan)
    [] j.pc = "return.vlan"   -> Access(port, Onboarding)
    [] j.pc = "return.enable" -> [port EXCEPT !.enabled = TRUE]
    [] j.pc = "enable.write"  -> [port EXCEPT !.enabled = j.flag]
    [] j.pc = "role.write"    -> RoleConfigured(port, j.role, j.vlans)
    [] j.pc \in {"create.trunk", "remove.trunk"} -> Trunk(port, Management, j.vlans)
    [] OTHER                  -> port          \* MAC flush, completed bounce

ModeAsked(j) ==
  IF \/ j.pc \in {"create.trunk", "remove.trunk"}
     \/ (j.pc = "role.write" /\ j.role = "ap-trunk")
    THEN "trunk" ELSE "access"

\* The readback can be as asked.
Confirmable(j) ==
  j.pc \in VlanWaits =>
    Shows(PortRole[j.port], Written(sw[j.port], j), ModeAsked(j))

MayEnd(j, o) ==
  \/ o \in Faults
  \/ o = IF Confirmable(j) THEN "ok" ELSE "late"

PortsAfter(j, o) ==
  LET old == sw[j.port]
      new == Written(old, j)
  IN  CASE o = "ok"   -> {new}
        [] o = "lost" -> {old}
        [] o = "late" -> {IF j.pc = "bounce" THEN [old EXCEPT !.enabled = FALSE]
                                             ELSE new}
        [] o = "torn" -> IF j.pc \in VlanWaits THEN Mixtures(old, new) ELSE {old}

SwitchSettles(w, o) ==
  /\ MayEnd(job[w], o)
  /\ \E port \in PortsAfter(job[w], o) : sw' = [sw EXCEPT ![job[w].port] = port]
  /\ UNCHANGED radio

(***************************************************************************)
(* The repository.                                                         *)
(***************************************************************************)
AllocatedVlans(L) == {net[n].vlan : n \in L}

Trunks == {p \in Ports : role[p] = "ap-trunk"}

\* ON CONFLICT DO UPDATE of one port_assignments row.
UpsertPort(p, n, r) ==
  /\ owner' = [owner EXCEPT ![p] = n]
  /\ role' = [role EXCEPT ![p] = r]

\* An UPDATE of a row that is gone changes nothing.
SetStatus(n, s) ==
  status' = IF n \in live THEN [status EXCEPT ![n] = s] ELSE status

\* port_assignments.team_network_id REFERENCES team_networks(id)
ForeignKeyHolds(n) == n = None \/ n \in live

StateTypeOK ==
  /\ live \subseteq used
  /\ used \subseteq Ids
  /\ cred \subseteq Ids
  /\ net \in [Ids -> Network]
  /\ status \in [Ids -> Statuses]
  /\ role \in [Ports -> Role]
  /\ owner \in [Ports -> Ids \cup {None}]
  /\ sw \in [Ports -> PortState]
  /\ ap \in Document
  /\ want \in Document
  /\ known \in Document
  /\ stage \in Stages
  /\ swq \in [Switches -> Seq(Workers)]
  /\ apq \in Seq(Workers)
  /\ job \in [Workers -> Job]

\* The field as commissioned: every port at its role's resting configuration.
StateInit ==
  /\ live = {}
  /\ net = [n \in Ids |-> NoNetwork]
  /\ status = [n \in Ids |-> "provisioning"]
  /\ cred = {}
  /\ used = {}
  /\ role = PortRole
  /\ owner = [p \in Ports |-> None]
  /\ sw = [p \in Ports |->
             RoleConfigured([vlan |-> Onboarding, tagged |-> {}, enabled |-> TRUE],
                            PortRole[p], {})]
  /\ ap = [s \in Slots |-> None]
  /\ want = ap
  /\ known = ap
  /\ stage = "status"
  /\ swq = [s \in Switches |-> <<>>]
  /\ apq = <<>>
  /\ job = [w \in Workers |-> Idle]
=============================================================================
