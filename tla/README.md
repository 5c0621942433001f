# Field Manager in TLA+

Models, model-checking runs and machine-checked proofs of Field Manager: its
server (`apps/server`, `packages/db`, `packages/switch`, `packages/ap`) and the
data flow of its operator page (`apps/web`). It gives every team on a practice field a network of its own: a VLAN, an access
point slot with its SSID and key, and any number of switch ports. File paths
below are relative to the repository (`src/` in `PROJECT.json`).

## 1. Inventory

| Component | State it keeps | Operations | Interacts with |
| --- | --- | --- | --- |
| `PortAssignmentService` | none of its own; locals between awaits | `assignToTeam`, `returnToOnboarding`, `setRole`, `setEnabled`, `bounce` | repository (synchronous), switch adapters (awaited) |
| `TeamNetworkService` | locals between awaits | `create`, `remove`, `refreshStatuses`, `syncAccessPointTrunks` | repository, `PortAssignmentService`, AP and switch adapters, credential store |
| `VlanAllocator` | none | `allocate` | repository, inside the transaction of `create` |
| Repository (`packages/db`) | `team_networks`, `port_assignments`, `local_credentials`, `installation_config` | one SQL statement each, transactions | SQLite, synchronous |
| Switch adapters (Extreme Switch Engine, Fabric Engine) | a write queue (promise chain); the device: VLAN memberships, untagged VLAN, enabled, and the saved configuration | `setAccessVlan`, `setTrunkVlans`, `setPortEnabled`, `bouncePort`, `clearMacsOnPort`, reads | switch over JSON-RPC or SSH |
| VH-113 adapter | a write queue, the configurations it believes are applied | `configureTeam`, `clearTeam`, `getStationStatus` | AP over HTTP, one document for all slots |
| HTTP API (`app.ts`) | overview cache, the shared refresh, a generation counter | routes, `GET /api/overview` | services, the browser's HTTP cache |
| Operator page (`apps/web`) | the overview it shows | `refresh`, `createTeam`, `disconnectTeam`, the inspector's port changes | the API, through the browser's HTTP cache |
| Start-up (`context.ts`) | none | checks stored assignments against the settings, restores roles, gives the AP adapter its configurations | repository, adapters |
| `CaptivePortalService`, `DnsmasqLeaseProvider` | none | `getSession`, `connect` | lease file, MAC tables, `assignToTeam` |
| `NetworkHealthService` (reconciliation) | none | `inspect` | reads everything |
| Mock hardware, `SimulationService` | simulated devices | development only | |
| Cisco adapter, other web pages, UI, deployment | not program state of the field | | |

What is hard here. The server is one Node.js process, but every request is an
async function: between two awaits other requests run. The database is
synchronous and transactional, the hardware is neither: a write takes seconds,
may be rejected, may be rejected after it took effect or half of it did, may
take effect after it was given up on, and the process may die meanwhile. Each operation spans both, in several steps, and acts on values it
read before its awaits. Writes to one device are queued, writes to different
devices and all reads are not. What must be right:

- *networks*: number, VLAN and slot are exclusive, a removed network never comes
  back, the radio broadcasts only for a network that exists and a network shown
  as up is on the air, its key exists as long as it does;
- *ports*: a port with a team is a client port and the team exists; a failed
  sequence strands no port on a VLAN that the next team may get; dropping an
  assignment leaves the port reset;
- *trunks*: when everything has settled they carry the VLANs of the networks, and
  at any moment that of a network shown as up;
- *drift*: whatever went wrong, an inspection does not report health while a port
  or a slot is on the wrong network;
- *switch writes*: no command of theirs is refused, a write tried again repairs
  what an earlier one left, a success survives a power cycle;
- *radio writes*: a document for one slot takes no other station off the air;
- *requests*: all of them end, none waits for something that cannot happen or does
  twice what its loop did, and a removal removes or leaves an error;
- *overview*: it never misses a change the server has acknowledged, reads the
  devices once per generation, and catches up with what nobody acknowledged;
- *page*: it shows nothing that did not happen, and comes to show what did.

The hazards behind these properties are listed line by line in `PROJECT.json`.

## 2. Modules

| Module | What it models |
| --- | --- |
| `SwitchPort` | a port as the adapters show it, and the two VLAN writes |
| `FieldState` | the shared state (database, devices, write queues, requests in flight), how a switch write settles, the repository's statements |
| `PortAssignment` | `port-assignment-service.ts`, one action per await |
| `AccessPoint` | `vh113.ts`: the radio write in stages, and the radio behind it |
| `TeamNetwork` | `team-network-service.ts` and `vlan-allocator.ts` |
| `Portal` | `captive-portal-service.ts`: `connect` |
| `Health` | `reconciliation-service.ts`: what `inspect` calls drift, as predicates |
| `FieldNetwork` | requests, crash and restart, specification and properties; composes the above |
| `NetworkLease` | an abstract specification: what the field promises about networks |
| `FieldInvariant` | the inductive invariants: `IInv`, `SerialInv` for one request at a time, `TrunkInv` for trunks at rest, `ReachInv` for trunks while syncs are under way |
| `FieldNetworkProofs`, `FieldLeaseProofs` | proofs about `FieldNetwork`: its invariant, and that it implements `NetworkLease` |
| `FieldSerialProofs` | proofs about `FieldNetwork` with one request at a time: ports, freed VLANs, networks shown as up |
| `FieldTrunkProofs` | proofs about the AP trunks under any overlap |
| `FieldProgressProofs` | proofs of how far requests get: their steps, their waits, how a removal ends, which trunks a create has reached |
| `SwitchAdapter` | one write of `extreme5420.ts` or `extreme5420-voss.ts`, command by command, and the switch |
| `SwitchPromise` | an abstract specification: what such a write promises, without commands |
| `SwitchAdapterProofs` | proofs about `SwitchAdapter` |
| `OverviewCache` | `GET /api/overview`: cache, shared build, generations (`app.ts`) |
| `Dashboard` | the composition of `OverviewCache`, the browser's HTTP cache and the operator page (`App.tsx`, `api.ts`) |
| `OverviewCacheProofs`, `DashboardProofs` | proofs about `OverviewCache` and `Dashboard` |
| `MCFieldNetwork`, `MCSwitchAdapter`, `MCDashboard` | instances for TLC |

**Requests.** A worker is a slot for one request in flight. `job[w]` holds where
the request awaits (`pc`) and the locals it will use afterwards: the network it
is about, the port, the ports its loop has still to visit, the VLAN list taken
for a trunk, the VLAN a rollback would restore, the statuses a refresh listed.
`Become(w, j)` is "run to the next await": it takes the worker out of the queue
of the write it awaited and appends it to that of its next write.

**Queues and devices.** `swq[s]` and `apq` are the promise chains of
`serializedWrite`. The head of a queue is the write under way; it settles in an
action together with the code that follows the await, since the continuation of
an await runs before the next queued write reaches the device. A switch write
settles as `"ok"`, `"lost"` (rejected, nothing changed), `"late"` (rejected
although the port changed: the save or the readback failed) or `"torn"`
(rejected with some of its commands carried out: `Mixtures`). A write that
contradicts the role its adapter was built with takes effect and is then
rejected by the readback, with no fault at all (`Confirmable`). A read shows the
device at the moment its answer is handled, so it is stale from the next await
on.

**One switch write.** `SwitchAdapter` is what happens inside the head of a queue:
the read, the list of commands made from it (for Switch Engine or Fabric
Engine), each command, the save, the readback; the session may break and the
switch may lose power at any point. Commands whose order cannot be observed
share a rank. `ImplementsSwitchPromise` is the refinement of `SwitchPromise`,
which is stated in the terms `FieldState` uses (`Mixtures`, `Access`, `Trunk`,
`Shows`): the four outcomes are all that a service can find. What the switch
accepts, and what a membership command does to the untagged VLAN, is in no file
of the repository: `Accepts`, `Without` and `Apply` state what the adapters and
their tests rely on, and are marked external.

**The radio.** A radio write waits for its turn, reads the status, refuses if it
would drop a station or mix the VLAN banks (`WriteAllowed`), posts a document
with all slots, and polls (`stage`). `want` is the document the radio accepted
last, `ap` what it broadcasts, `known` what the adapter remembers. The radio
applies `want` whenever it is ready, also after the poll gave up and another
write began, or drops it. `known` changes only when a poll confirms, so it may
be behind the radio; a restart rebuilds it from the rows and keys.

**Database.** `live` is the set of rows of `team_networks`; `net` their immutable
columns, which removed ids keep so that the properties can speak of them;
`status`, `cred`, `role`, `owner` the columns that change. UNIQUE columns and the
foreign key are the guards `Inserts`, `CannotInsert` and `ForeignKeyHolds`.

**Crash.** Every request and queue is lost, the write at the head of a queue took
effect, did not, or did in part, a posted document stays in the radio's hands,
and start-up runs: it refuses an assigned port that the settings do not make a
client, and otherwise writes the configured roles and keeps the assignments.
`StartupAccepts` guards the step: a refused start is no behaviour of the server;
the run `Restart` checks that it does not happen.

**Actions and code.** `AssignStart` .. `AssignUndone` are `assignToTeam`
(28-118), `ReturnStart` .. `ReturnFlush` `returnToOnboarding` (120-162, also
called by `remove`, which `Abort` and `NextPort` tell apart by the job's
network), `RoleStart` .. `RoleWritten` `setRole`, `EnableStart`, `BounceStart`,
`PortRead`, `LastWrite` the two short operations. `CreateStart`, `CreateScan`
(one station per step), `CreateConfigured`, `CreateTrunked` are `create`;
`RemoveStart`, the returns, `RemoveCleared`, `RemoveTrunked` are `remove`;
`RadioChecks`, `RadioPosts`, `RadioConfirms`, `RadioRejects` are the VH-113's
`configureTeam` and `clearTeam`, the last two inside the service's continuation.
`RefreshStart`, `RefreshRow` are `refreshStatuses`, `ConnectStart`,
`ConnectFound`, `ConnectLost` the portal's `connect`, which goes on as an assign.
Early returns that change nothing (unknown team, unknown port) are requests that
never start. A PATCH
that asks for several changes runs them one after the other; so does a client
that sends them separately, hence no action of its own.

**Overview.** An overview is the set of changes it is sure to show: those made
before its build began. A reader's `floor` is what had been acknowledged, to
anyone, when it asked. `Change`, then `Acknowledge` or `Refuse`, is any route
that changes the field: `invalidateOverview` is called only after success.

**Page.** `Dashboard` makes every reader of the overview a request of one browser.
`http` is the browser's copy with its age against `max-age=2,
stale-while-revalidate=30`: fresh copies answer without asking, stale ones while
a new one is fetched behind them. `page[m]` is how often the page shows change
`m`: `refresh` replaces everything it shows, `createTeam` appends the team,
`disconnectTeam` filters it out, and `told` are the changes whose success the
page has handled. Answers arrive in any order. The HTTP cache follows RFC 9111
and RFC 5861 and is marked external; the copy a browser revalidates may be
replaced by an older answer that arrives later, which browsers do not exclude.

## 3. Runs

| Run | Instance | Question |
| --- | --- | --- |
| `FieldRaces` | 2 requests at a time, client port + AP trunk on one switch, 1 slot, 2 VLANs, 2 ids; no faults | `TypeOK`, `AssignmentIntegrity`, `DriftIsDiagnosed`, `IInv` under every interleaving of assign, return, role, create, remove |
| `FieldFaults` | 2 requests, an AP trunk, 2 slots (one of either alliance) with overlapping VLAN sets, every fault of switch and radio, failing reads, crashes | `RadioHasNetwork`, `KeysKept`, `OthersStayOnAir`, refinement of `NetworkLease` |
| `TrunkSync` | 2 requests, 2 trunks on 2 switches, 3 ids, no faults | `TrunksCarryTeams`, `UpMeansTrunked`, `TrunkInv`, `ReachInv` |
| `SerialRequests` | 1 request at a time, all kinds, 2 client ports, 2 slots, lost writes and reads | `PortsIsolated`, `UpMeansOnAir`, `SerialInv`, `ReturnResetsPort`, `VlanFreedClean` |
| `Liveness` | 2 requests, client port + 2 trunks on 2 switches, 1 slot, lost switch writes, radio documents applied late or dropped, fairness | `NobodyStuck`, `RequestsFinish`, `RemovalSettles`, `RequestsAdvance` |
| `SwitchAdapter` | both engines, a client port and an AP trunk, 3 VLANs, 8 writes of all kinds, broken sessions, power cycles | `TypeOK`, `CommandsAccepted`, `RetrySucceeds`, `AdapterInv`, refinement of `SwitchPromise` |
| `Overview` | a creation and a removal or port change, 2 requests of the browser, 2 builds, failing builds, expiry, ageing copies, fairness | the overview's and the page's properties |
| `TeamIsolation` | 2 requests, 1 port: assign, create, remove | finding: `TeamsIsolated` is violated |
| `FailedBounce` | 1 request at a time: assign, create; a switch write may be rejected although it took effect, a bounce may end half-way | finding: `DisabledIsDrift` is violated |
| `DoubleRemoval` | 2 requests, 1 port: assign, create, remove | finding: `UpMeansOnAir` is violated |
| `Restart` | 1 request at a time, a port the settings leave unused, crash | finding: `RestartAccepted` is violated |
| `StaleDashboard` | one removal, the browser's cache, the page | finding: `ShowsOwnChanges` is violated |

**Bounds, and why they are enough.** Two concurrent requests are the smallest
number that overtake each other, and each hazard of the list is a pair of
requests; a third would only repeat a pair. Two ids let a VLAN, a slot and a
number be reused by another network (`TrunkSync` has three, so that two networks
may exist while a third is created). The pool has two VLANs, of two banks, so
that it runs out, is reused, and the banks of the alliances can clash. Two slots
with different VLAN sets make the allocator skip. `Liveness` has one slot: what
it asks of the radio is that a write given up on, and a radio that applies its
document whenever it likes, block nobody. `SwitchAdapter` has one VLAN that
exists from the start and two that have to be created, and an instance of each
pair of modes a port can be led through, a contradiction of its role included.
`Overview` has two builds at once, of two generations: a third, which two
changes during one build may call for, waits for one to end; the safety
properties are proved for any number. The smallest worlds are chosen per
question: faults are left out where a property promises nothing under faults,
with the reason in the comment of the property. Workers are symmetric in the
safety runs; the liveness runs use no symmetry. Ids are never reused, so a
behaviour of `TrunkSync`, `TeamIsolation` or `DoubleRemoval`, whose only requests
need a network, may end when they run out, and so may one of `StaleDashboard`:
these configurations do not check deadlock; the others do. `Ids` and `Mutations`
are the bounds of the otherwise unbounded behaviours; `Workers`, `Readers` and
`Builds` bound what is in flight at once, never what a step may do.

**Fairness.** `FairSpec` asks weak fairness of `Progress(w)`, the settling of the
call a request awaits: every transport call has a timeout (`requestTimeoutMs`,
SSH and HTTP timeouts, the polling deadline of `waitForApplied`), and a queued
write is enabled once it is at the head, which stays so until it settles.
(The access point's body is read after that timeout is cleared: there the
timeout is the HTTP client's own.) Nothing is asked of the radio: it may never
apply a document. No request needs
to be sent and no crash needs to happen. `FairPageSpec` asks it of builds, which
consist of such calls, of the passage of time on the server (`Expire`) and in
the browser (`GrowsOld`), and of the arrival of answers already sent; `CatchesUp`
and `PageCatchesUp` assume in their own statements that clients keep asking and
that builds end up succeeding. `SwitchAdapter` has no liveness property of its
own: that every call ends is what `FieldNetwork` builds on.

## 4. Findings

- **An assign that overlaps with the removal of its network** (`TeamIsolation`).
  `remove` lists the network's ports once; a port whose assignment is stored
  after that is only unassigned in the database (`clearTeamFromPorts`), never on
  the switch. Its VLAN is reused at once: the port is then on the network of
  another team, without any record of it. (`DriftIsDiagnosed`: an inspection does
  report it.)
- **A bounce cut short** (`FailedBounce`). The repository's README says that a bounce
  that fails is reported as drift, and `docs/architecture.md` that the enabled
  state is compared. `inspect` does not compare it, and no row records it: after
  an assign whose bounce lost its second command the team's port is disabled, and
  the inspection reports health.
- **Two removals of one network** (`DoubleRemoval`). The second, still returning a
  port, clears the slot after it was given to a new network, which stays
  "waiting-for-robot".
- **A restart after assigning an unused port** (`Restart`). With unchanged
  settings the server refuses to start.
- **The page reads its own change from the browser's cache** (`StaleDashboard`).
  The overview may be reused by the browser for up to 32 seconds, and the page
  does not ask it not to. After a removal that succeeded the page takes the team
  off its list, reloads, is given the copy from before, and lists the team again
  until the next reload. `PageCatchesUp` shows that it does not stay so while
  the operator refreshes.

Observed, but contradicted by no document in so many words, hence hazards with a
note and not findings: `setRole("client")` on a port with a team puts it on the
onboarding VLAN, keeps the team in its row and succeeds (an inspection reports
it); an assign queued between the three writes of a return leaves a port on
the team's VLAN without a team; so does a VLAN write that is reported as failed
although it took effect; `setRole("ap-trunk")` overlapping with a create leaves a
trunk with an old list; a removal whose trunk write fails leaves the VLAN on the
trunk and the key in the store; a port that a bounce left disabled is saved so by
the next write to its switch; the allocator can choose a VLAN whose
bank the access point then refuses; a role that contradicts the one the adapter
was built with is written to the switch and then reported as failed, however
often it is tried; a refresh shows as up a network whose trunks its create has
not reached yet, or failed to reach. `PortsIsolated`, `TrunksCarryTeams`,
`UpMeansTrunked` and `RetrySucceeds` are checked in the worlds without these, and say so.

## 5. Proofs

All theorems hold for every value of the constants that satisfies the named
assumptions of the modules (`TopologyAssumption`, `IdAssumption`,
`ConfigAssumption`, `RoleAssumption`, `FaultAssumption`, `OpsAssumption`,
`AskedAssumption`, `BuildAssumption` and those of `SwitchAdapter`); none
restricts the number of ports, slots, requests, faults or crashes. Where a
theorem does need such a restriction, it is a hypothesis in its statement.

**The field.** `AssignmentIntegrity` is not inductive: a `setRole` under way stores
the team it read. `IInv` (in `FieldInvariant`) adds what a request may rely on:
`JobOK` (the network a request names was granted once, so its VLAN and slot are
fixed for ever; a create owns its id until the row is there, and its row outlives
its radio write; a `setRole` that keeps a team keeps it on a client port),
`FreshApart` (creates under way have different ids), `HardwareOK` and `DocOK` (every document, the one on
the air, the one pending and the one remembered, has in each slot a network that
still exists and holds it) and `RadioQueueOK` (the clear of a network's slot is
queued behind the write that configures it; this is why a removal that overtakes
a create cannot delete the row under it). `BecomeRadioQueue` is the key lemma:
the queue keeps its order when a worker leaves its head, joins its tail, or both.
`Invariance` then goes through the actions of `Next`, one lemma each; most are
instances of `FinishInv` (the request ends) and `GoOnInv` (it goes on with locals
it may rely on).

- `TypeCorrect`, `IntegrityTheorem`, `KeysTheorem`: the invariants `TypeOK`,
  `AssignmentIntegrity`, `KeysKept`, from `Invariance`.
- `Refinement`: `FieldNetwork` implements `NetworkLease`. Each action maps to a
  grant, a waste of an id (a create SQLite rejected), a turn-on, a turn-off, a
  release, or a stutter; the turn-on needs the row to exist when the radio applies
  its document, which is `DocOK`, and that rests on `JobOK` and `RadioQueueOK`.
- `RadioTheorem`: `RadioHasNetwork`, from the same invariant.
- `RowsApartInvariant`: two rows differ in number, VLAN and slot; each step keeps
  it because it implements a step of `NetworkLease`.
- `DiagnosisTheorem`: `DriftIsDiagnosed`. If no port drifts, a client port on the
  VLAN of a network carries the VLAN its own row demands, and `RowsApart` makes
  that network its own; likewise for the slots.
- `PreservationTheorem`: `OthersStayOnAir`. The adapter remembers something for
  the slot (`CanPreserveOthers`), and by `DocOK` and `RowsApart` what it remembers
  and what is on the air are rows of the same slot, hence the same network.

**One request at a time.** What a request read before an await is stale after it
as soon as requests overlap (the findings and hazards above); these theorems
assume `OneWorker` and say what is then left to rely on. `SoleInv` is what one
request knows at each await: the network it assigns is there, its port keeps
role and owner, the port of a return is already on the onboarding VLAN at its
second write and enabled at its third, and a removal has returned, or still
lists, every port of its network. It holds through every failure and crash.

- `ResetTheorem`: `ReturnResetsPort`, from `SoleInv` alone: a team is dropped only
  by the upsert after three confirmed writes, or by the deletion of a row whose
  ports have all been returned.
- `FreedTheorem`: `VlanFreedClean`, if in addition a rejected switch write changed
  nothing (`WritesClean`; with `"late"` an assign that is reported as failed leaves
  its port on the VLAN). `PortsPlaced` is the invariant: every port is on the
  management VLAN, the onboarding VLAN or that of the network that owns it.
- `IsolationTheorem`: `PortsIsolated`, if in addition nobody asks `setRole` for
  another AP trunk (`NoTrunkAsked`; without networks such a request leaves a
  client port on the management VLAN and is then rejected by its readback).
  `TrunksFixed` and `ClientsPlaced` strengthen `PortsPlaced` for client ports.
- `UpTheorem`: `UpMeansOnAir`, whatever the switches do, if a rejected radio write
  changed nothing (`RadioClean`; a clear given up on can be applied after the
  statuses were refreshed). `RadioInv` relates the four views of the radio: what
  it does, was told last, is remembered to do, and what the rows say.

`SerialInv` is the conjunction of these invariants; `SerialRequests` checks it,
and `SerialTheorem` proves it under all the hypotheses together.

**The trunks.** `TrunksTheorem` is about any number of overlapping requests:
whenever none is in flight, every AP trunk carries exactly the VLANs of the
networks. Each sync takes its list before it visits the trunks, so an old list may
well be written after a newer one was taken. It is not written *last*, because
every sync visits the trunks in the same order and each queue is first come first
served: of two syncs at the same trunk the one behind came later (`Behind`), and
it cannot overtake. `TrunkInv` says so: the queues hold each waiting worker once
(`SwitchQueueOK`; `SwitchQueuesNext` proves it under every fault), a sync has left exactly the trunks after its port (`OnTrunks`),
a sync nobody is behind carries the present list (`LastListRight`), and a trunk no
sync will come to any more has it (`VisitedRight`); the last two are suspended
while a create has its row and waits for the radio (`RowAhead`), for its sync is
still to begin. `QueuesStep` shows what a step does to the order of the queues;
`SyncBegins`, `SyncGoesOn`, `SyncEnds` and `NoSync` what it does to the lists.
`TrunkInvariance` proves `TrunkInv`. Both theorems assume `NoTrunkAsked` and that every step is one of `TrunksServed`:
no write to a trunk is rejected, no create ends in error after its row was stored,
and the server does not crash. After each of the three a trunk keeps an old list
until the next sync: no later step of the same request repairs it. Writes to other
ports, reads, removals and refreshes may fail in every way. Every step of the run
`TrunkSync` is one of `TrunksServed`, so the hypothesis is no further restriction
there.

`ReachTheorem` is about every moment, and about one network: while it is shown as
up, every AP trunk carries its VLAN, although other trunks may be wrong and syncs
with other lists are still on their way. `ReachInv` says why. The sync of the
create lists its own network, and so does every sync that is not ahead of it in
some queue (`CreatesReach`), because whoever comes behind took its list after the
row was there; so the trunks the create has come past carry the VLAN and keep it.
When the create ends well nobody is left whose list lacks it (`UpCarried`), and
no later sync does before the row is deleted. Unlike `TrunksTheorem` this allows
rejected writes to trunks, whether nothing changed or all of it did: a create
whose sync is cut off ends in error and promises nothing. `Plain` excludes four
things. A write that stops half-way may leave a trunk without a VLAN it had and
was to keep, as may the last write before a crash; a `setRole` takes its VLAN list
without being a sync, and its row changes which ports are trunks; and a refresh
shows a network as up as soon as the radio does, before its create has reached
the trunks or after it failed to.

**Progress.** Under fairness a request ends because every wait settles and no
request waits or loops for ever. The second half is safety, and proved, for any
number of requests, ports and slots, under every fault and with crashes.

- `AdvanceTheorem`: `RequestsAdvance`. Every step that changes a request ends it
  or brings it `Closer`: it begins to sync the trunks; or it has fewer ports,
  slots or rows left to visit and none added; or the same ones, and a later wait.
  With finitely many ports, slots and ids, as in any installation, the order is
  well founded. The stages of a radio write go only forward. `GoesOn` lists the
  waits each action leads to; one lemma per action shows it.
- `NobodyStuckTheorem`: `NobodyStuck`. For every waiting request, itself or one in
  the queue it waits in can have its wait settled now. It rests on
  `SwitchQueueOK` and `RadioQueueOK`: the head of a queue is a request that waits
  for that very write, so no place is held by a write that is over, and no
  request is in two queues.
- `RemovalTheorem`: unless the server crashes, a removal goes on, or its network
  is gone, or its status is "error". This is what `RemovalSettles` says but for
  the removal ever ending. It is proved through every fault, and with other
  removals of the same network and refreshes of its status under way.

**One switch write.** `AdapterInv` relates the commands not yet sent to what the
port shows: `SwitchEngineProgress` and `FabricEngineProgress` say which
memberships the port has after each rank of commands, given what it was read as,
although the list was made up before the first command was sent. The induction
(`AdapterInvariance`) goes over the ranks, for both engines, any ports and VLANs,
and any port an earlier write cut short or a power cycle has left.

- `AcceptedTheorem`: `CommandsAccepted`; no command is refused by the switch.
- `RetryTheorem`: `RetrySucceeds`; a write that is not cut short is confirmed,
  whatever it found.
- `PromiseTheorem`: `SwitchAdapter` implements `SwitchPromise`. A write in progress
  maps to the port before it, after it, or a mixture (`Within`); the save maps to
  the promise's save.
- `TypeTheorem`: `TypeOK`.

Together with `SwitchPromise` being stated in the terms of `FieldState`, the four
outcomes of a switch write in `FieldNetwork` are what the adapters are proved to
leave.

**The overview and the page.** `CacheInv` says that what is cached, shared or
waited for shows every acknowledged change. Its crux is that the build of the
present generation is the shared one (`CurrentBuildsShared`): without it an
outdated build could be cached. `ReadYourWritesTheorem` and `OneBuildTheorem`
follow, and `TypeTheorem`. `ServerTheorem` shows that the composition with the browser refines the
server alone, so `ServedCurrent` and `ServedTyped` carry `ReadYourWrites` and `TypeOK` over
without a new induction; `DashboardInvariance` proves the composition's own invariant and
`HonestTheorem` draws `PageHonest` from it.

**Only model-checked.** Every invariant and action property of a passing run is
stated by a theorem. What stays with TLC are the four properties under fairness:
`RequestsFinish` and `RemovalSettles`, of which *Progress* above is the safety
half and only the step from "can settle" to "does" is missing, and `CatchesUp` and
`PageCatchesUp`. The prover does not handle ENABLED and fairness. The necessity of
the hypotheses is not proved either; the runs that end in a violation, and the
hazards with a note, show the behaviours.

## 6. Not modelled

- The services' messages, labels and time stamps; HTTP parsing and validation;
  the credential store's `await`, which yields only to already settled promises.
- Several access points: the registry allows them, the production start-up
  creates one.
- `PUT /api/config` while running: the settings are constants. A PATCH that asks
  for several changes is as many requests.
- Inside a switch: the Fabric Engine lines `encapsulation dot1q`,
  `tagged-frames-discard` and `untag-port-default-vlan` with their negations,
  which every VLAN write sends whatever it read, which no readback looks at, and
  of which the model therefore neither says that the switch accepts them nor what
  they do to frames; what is learned in the forwarding tables, how the text of a
  command or an answer is made and parsed, and a switch that goes on with a batch
  of commands after the adapter has given up on it. Assumed, and not stated by
  the repository: Fabric Engine accepts leaving a VLAN the port is not in, and
  keeps the default VLAN of a port that has left it.
- Inside the radio: a document that arrives after the adapter gave up on sending
  it; the bank an alliance without networks keeps; a status ERROR that persists.
- SSIDs and keys, hence the access point adapter's check of them
  (`validateConfiguration`), which start-up makes of every stored row and refuses
  to run if one fails. The API accepts longer names and keys than the adapter: a
  create with one ends in error and leaves its row and key, and the next start
  throws. `RestartAccepted` is about the assignments alone.
- DHCP leases and forwarding tables: their answers to the portal are left open.
- An inspection or an overview that mixes reads of several moments: `Health`
  speaks of one moment, and an overview is the set of changes it is sure to show.
- The page's demo mode (`?demo`), which asks the server nothing; the portal page; the simulation lab; mock hardware and
  `SimulationService`, which only the development start-up builds; the Cisco
  adapter, whose methods all reject; the shared UI and the deployment.

## 7. Plan

1. What holds of one request at a time when switch writes may also be `"late"` or
   `"torn"`, or the server crashes: which ports can be off their VLAN then, as an
   invariant in place of `PortsPlaced`.
2. `TrunksCarryTeams` after failures: that the next sync that is served repairs
   all trunks, whatever an earlier one left. `ReachTheorem` has what
   survives a rejected write, the VLANs of the networks shown as up; that the
   others come back, and that old ones go, is left.
3. `UpMeansTrunked` with refreshes, for networks whose create has ended well.
