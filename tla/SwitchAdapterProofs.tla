------------------------- MODULE SwitchAdapterProofs -------------------------
(***************************************************************************)
(* AdapterInv is an invariant of SwitchAdapter for any ports, VLANs,       *)
(* requests and both engines; what the runs check of the adapters, and     *)
(* that they implement SwitchPromise, follow from it.                      *)
(***************************************************************************)
EXTENDS SwitchAdapter, TLAPS

\* The step of Execute, for the command c it takes.
Carried(c) ==
  /\ step = "send"
  /\ Accepts(task.port, c)
  /\ conf' = [conf EXCEPT ![task.port] = Apply(@, c)]
  /\ vlans' = IF c.op = "create" THEN vlans \cup c.vlans ELSE vlans
  /\ todo' = todo \ {c}
  /\ UNCHANGED <<engine, saved, task, current, step, answer>>

\* Commands of another rank keep waiting.
LEMMA OthersWait ==
  ASSUME NEW rank, NEW op, NEW c, todo' = todo \ {c}, c.rank # rank
  PROVE  Waiting(rank, op)' = Waiting(rank, op)
<1>1. \A v : Cmd(rank, op, {v}) # c
  BY DEF Cmd
<1>2. QED
  BY <1>1 DEF Waiting

\* The VLAN of the command sent no longer waits for one like it.
LEMMA OneLess ==
  ASSUME NEW c \in Command, NEW x, c.vlans = {x}, todo' = todo \ {c}
  PROVE  Waiting(c.rank, c.op)' = Waiting(c.rank, c.op) \ {x}
<1>1. \A v : Cmd(c.rank, c.op, {v}) = c <=> v = x
  BY DEF Cmd, Command
<1>2. QED
  BY <1>1 DEF Waiting

\* Sending a command does not bring back one of a lower rank.
LEMMA PastStays ==
  ASSUME NEW rank, NEW c, todo' = todo \ {c}, Past(rank)
  PROVE  Past(rank)'
BY DEF Past

\* None is not a VLAN.
LEMMA NoneIsNoVlan == None \notin Vlans
BY AdapterAssumption DEF None

\* Every configuration shows a view, and every command leads to one.
LEMMA SeenType ==
  ASSUME NEW c \in Config
  PROVE  Seen(c) \in View
BY DEF Config, View, Seen, Native

\* Enabling and disabling change nothing else a port shows.
LEMMA SeenEnabled ==
  ASSUME NEW c \in Config, NEW b \in BOOLEAN
  PROVE  Seen([c EXCEPT !.enabled = b]) = [Seen(c) EXCEPT !.enabled = b]
BY DEF Seen, Native, Config

\* The cases of Commands and of Apply, one by one.
LEMMA CommandsOf ==
  ASSUME NEW r, NEW v
  PROVE  /\ r.kind = "enable" => Commands(r, v) = EnableCommands(r)
         /\ r.kind = "bounce" => Commands(r, v) = BounceCommands(v)
         /\ r.kind = "flush" => Commands(r, v) = FlushCommands
         /\ r.kind \in VlanKinds /\ engine = "switch" =>
              Commands(r, v) = SwitchEngineCommands(r, v)
         /\ r.kind \in VlanKinds /\ engine = "fabric" =>
              Commands(r, v) = FabricEngineCommands(r, v)
BY Zenon DEF Commands, VlanKinds

LEMMA ApplyOf ==
  ASSUME NEW c, NEW cmd
  PROVE  /\ cmd.op = "remove" => Apply(c, cmd) = Without(c, cmd.vlans)
         /\ cmd.op \in {"add", "tag"} =>
              Apply(c, cmd) = [c EXCEPT !.members = @ \cup cmd.vlans]
         /\ cmd.op = "untag" =>
              Apply(c, cmd) = [c EXCEPT !.members = @ \cup cmd.vlans,
                                        !.untagged = task.vlan]
         /\ cmd.op = "default" => Apply(c, cmd) = [c EXCEPT !.untagged = task.vlan]
         /\ cmd.op \in {"accept", "discard"} =>
              Apply(c, cmd) = [c EXCEPT !.discard = cmd.op = "discard"]
         /\ cmd.op \in {"enable", "disable"} =>
              Apply(c, cmd) = [c EXCEPT !.enabled = cmd.op = "enable"]
         /\ cmd.op \in {"create", "clear"} => Apply(c, cmd) = c
BY Zenon DEF Apply

LEMMA ApplyType ==
  ASSUME TypeOK, NEW c \in Config, NEW cmd \in Command
  PROVE  Apply(c, cmd) \in Config
<1>1. CASE cmd.op = "remove"
  <2>1. Apply(c, cmd) = Without(c, cmd.vlans)
    BY <1>1, ApplyOf
  <2>2. QED
    BY <2>1 DEF Config, Without
<1>2. CASE cmd.op \in {"add", "tag"}
  <2>1. Apply(c, cmd) = [c EXCEPT !.members = @ \cup cmd.vlans]
    BY <1>2, ApplyOf
  <2>2. QED
    BY <2>1 DEF Config, Command
<1>3. CASE cmd.op \in {"untag", "default"}
  <2>1. task.vlan \in Vlans \cup {None}
    BY DEF TypeOK, Request
  <2>2. \/ Apply(c, cmd) = [c EXCEPT !.members = @ \cup cmd.vlans, !.untagged = task.vlan]
        \/ Apply(c, cmd) = [c EXCEPT !.untagged = task.vlan]
    BY <1>3, ApplyOf
  <2>3. QED
    BY <2>1, <2>2 DEF Config, Command
<1>4. CASE cmd.op \in {"accept", "discard", "enable", "disable"}
  <2>1. \E b \in BOOLEAN : \/ Apply(c, cmd) = [c EXCEPT !.discard = b]
                          \/ Apply(c, cmd) = [c EXCEPT !.enabled = b]
    BY <1>4, ApplyOf
  <2>2. QED
    BY <2>1 DEF Config
<1>5. CASE cmd.op \in {"create", "clear"}
  <2>1. Apply(c, cmd) = c
    BY <1>5, ApplyOf
  <2>2. QED
    BY <2>1
<1>6. QED
  BY <1>1, <1>2, <1>3, <1>4, <1>5 DEF Command

\* The commands of a write are commands.
LEMMA CommandsType ==
  ASSUME TypeOK, NEW r \in Requests, NEW v \in View
  PROVE  Commands(r, v) \subseteq Command
<1>1. r \in Request /\ Desired(r) \subseteq Vlans /\ Left(v) \subseteq Vlans
  BY RequestAssumption DEF Request, View, Desired, Left
<1>2. \A x \in Vlans : /\ Cmd(1, "remove", {x}) \in Command
                       /\ Cmd(2, "create", {x}) \in Command
                       /\ Cmd(3, "untag", {x}) \in Command
                       /\ Cmd(3, "add", {x}) \in Command
                       /\ Cmd(4, "default", {x}) \in Command
  BY DEF Cmd, Command
<1>3. /\ Cmd(4, "tag", r.tagged) \in Command
      /\ \A op \in {"enable", "disable", "clear"} : Cmd(1, op, {}) \in Command
      /\ Cmd(2, "enable", {}) \in Command
      /\ Cmd(5, "discard", {}) \in Command /\ Cmd(5, "accept", {}) \in Command
  BY <1>1 DEF Cmd, Command, Request
<1>4. r.vlan \in Vlans \cup {None}
  BY <1>1 DEF Request
<1>5. CASE r.kind \in VlanKinds /\ engine = "switch"
  <2>1. Commands(r, v) = SwitchEngineCommands(r, v)
    BY <1>5, CommandsOf
  <2>2. QED
    BY <1>1, <1>2, <1>3, <1>4, <2>1 DEF SwitchEngineCommands, Replacement, Each
<1>6. CASE r.kind \in VlanKinds /\ engine = "fabric"
  <2>1. Commands(r, v) = FabricEngineCommands(r, v)
    BY <1>6, CommandsOf
  <2>2. QED
    BY <1>1, <1>2, <1>3, <1>4, <2>1 DEF FabricEngineCommands, Replacement, Each
<1>7. CASE r.kind \in {"enable", "bounce", "flush"}
  BY <1>3, <1>7, CommandsOf DEF EnableCommands, BounceCommands, FlushCommands
<1>8. QED
  BY <1>1, <1>5, <1>6, <1>7 DEF TypeOK, Engines, Request, VlanKinds

\* What a command does to the port of the write, whichever it is.
LEMMA CarriedOut ==
  ASSUME AdapterInv, NEW cmd \in Due, Carried(cmd)
  PROVE  /\ cmd \in todo /\ cmd \in Command /\ todo' = todo \ {cmd}
         /\ task.port \in Ports /\ conf[task.port] \in Config
         /\ conf' = [conf EXCEPT ![task.port] = Apply(conf[task.port], cmd)]
         /\ conf'[task'.port] = Apply(conf[task.port], cmd)
         /\ cmd.op # "create" => vlans' = vlans
         /\ UNCHANGED <<engine, saved, task, current, step, answer>>
         /\ TypeOK /\ task \in Request /\ task \in Requests /\ Asked(task)
         /\ ConfigOK(conf[task.port], vlans) /\ Progress(conf[task.port])
<1>1. task.port \in Ports /\ conf[task.port] \in Config
  BY DEF AdapterInv, TypeOK, Request
<1>2. conf' = [conf EXCEPT ![task.port] = Apply(conf[task.port], cmd)]
  BY DEF Carried
<1>3. conf'[task.port] = Apply(conf[task.port], cmd) /\ task' = task
  BY <1>1, <1>2 DEF AdapterInv, TypeOK, Carried
<1>4. /\ cmd \in todo /\ cmd \in Command /\ todo' = todo \ {cmd}
      /\ cmd.op # "create" => vlans' = vlans
      /\ UNCHANGED <<engine, saved, task, current, step, answer>>
      /\ TypeOK /\ task \in Request /\ task \in Requests
      /\ Progress(conf[task.port])
  BY DEF AdapterInv, TypeOK, Carried, Due
<1>5. ConfigOK(conf[task.port], vlans) /\ Asked(task)
  BY <1>1, <1>4, RequestAssumption DEF AdapterInv
<1>6. QED
  BY <1>1, <1>2, <1>3, <1>4, <1>5

LEMMA PlansStay ==
  ASSUME task' = task, current' = current
  PROVE  SwitchEnginePlan' = SwitchEnginePlan /\ FabricEnginePlan' = FabricEnginePlan
BY DEF SwitchEnginePlan, FabricEnginePlan

\* When a command is due, those of a lower rank have been sent.
LEMMA DueIsPast ==
  ASSUME AdapterInv, NEW cmd \in Due, NEW rank \in Nat, cmd.rank >= rank
  PROVE  Past(rank)
<1>1. \A c \in todo : c.rank \in 1 .. 5 /\ cmd.rank <= c.rank /\ cmd.rank \in 1 .. 5
  BY DEF Due, AdapterInv, TypeOK, Command
<1>2. QED
  BY <1>1 DEF Past

(***************************************************************************)
(* A command of a VLAN write on Switch Engine (extreme5420.ts).            *)
(***************************************************************************)
SwitchVlanGoal ==
  LET c == conf[task.port]
  IN  /\ SwitchEngineProgress(c)
      /\ ConfigOK(c, vlans)
      /\ Waiting(2, "create") = Desired(task) \ vlans
      /\ c.enabled = current.enabled

\* What is known before the command.
LEMMA SwitchBefore ==
  ASSUME AdapterInv, NEW cmd \in Due, Carried(cmd), engine = "switch",
         task.kind \in VlanKinds
  PROVE  SwitchVlanGoal
BY CarriedOut, Zenon DEF SwitchVlanGoal, Progress, VlanProgress, VlanKinds

\* A membership is left.
LEMMA SwitchRemove ==
  ASSUME AdapterInv, NEW x \in Left(current), NEW cmd \in Due, Carried(cmd),
         cmd.rank = 1, cmd.op = "remove", cmd.vlans = {x},
         engine = "switch", task.kind \in VlanKinds
  PROVE  SwitchVlanGoal'
<1> DEFINE c == conf[task.port]
<1>1. /\ c \in Config /\ SwitchEngineProgress(c) /\ ConfigOK(c, vlans)
      /\ Waiting(2, "create") = Desired(task) \ vlans /\ c.enabled = current.enabled
  BY CarriedOut, SwitchBefore DEF SwitchVlanGoal
<1>2. x # None
  BY DEF Left
<1>3. /\ cmd \in todo /\ cmd \in Command /\ todo' = todo \ {cmd} /\ vlans' = vlans
      /\ UNCHANGED <<engine, task, current>>
      /\ conf'[task'.port] = Apply(c, cmd)
  BY CarriedOut
<1>4. conf'[task'.port] = Without(c, {x})
  <2>1. Apply(c, cmd) = Without(c, cmd.vlans)
    BY ApplyOf
  <2>2. QED
    BY <1>3, <2>1 DEF Without
<1>5. /\ task.vlan # None => Untagging
      /\ task.tagged # {} => Tagging
  <2>1. ~Past(3) /\ ~Past(4)
    BY <1>3 DEF Past
  <2>2. QED
    BY <1>1, <2>1 DEF SwitchEngineProgress
<1>6. /\ Waiting(1, "remove")' = Waiting(1, "remove") \ {x}
      /\ Waiting(2, "create")' = Waiting(2, "create")
  BY <1>3, OneLess, OthersWait
<1>7. Untagging' = Untagging /\ Tagging' = Tagging
  BY <1>3 DEF Untagging, Tagging, Cmd
<1>8. c.members = Waiting(1, "remove")
  BY <1>1, <1>5 DEF SwitchEngineProgress
<1>9. c.untagged = IF current.vlan \in Waiting(1, "remove") THEN current.vlan ELSE None
  BY <1>1, <1>5 DEF SwitchEngineProgress
<1>10. SwitchEngineProgress(c)'
  BY PlansStay, <1>1, <1>2, <1>3, <1>4, <1>5, <1>6, <1>7, <1>8, <1>9
     DEF SwitchEngineProgress, Without, Config, Left
<1>11. ConfigOK(c, vlans)' /\ (c.enabled = current.enabled)'
  BY <1>1, <1>3, <1>4 DEF ConfigOK, Without, Config
<1>12. QED
  BY <1>1, <1>3, <1>6, <1>10, <1>11 DEF SwitchVlanGoal, Desired

\* A VLAN is created.
LEMMA SwitchCreate ==
  ASSUME AdapterInv, NEW x \in Desired(task), NEW cmd \in Due, Carried(cmd),
         cmd.rank = 2, cmd.op = "create", cmd.vlans = {x},
         engine = "switch", task.kind \in VlanKinds
  PROVE  SwitchVlanGoal'
<1> DEFINE c == conf[task.port]
<1>1. /\ c \in Config /\ SwitchEngineProgress(c) /\ ConfigOK(c, vlans)
      /\ Waiting(2, "create") = Desired(task) \ vlans /\ c.enabled = current.enabled
  BY CarriedOut, SwitchBefore DEF SwitchVlanGoal
<1>2. vlans' = vlans \cup {x}
  BY DEF Carried
<1>3. /\ cmd \in todo /\ cmd \in Command /\ todo' = todo \ {cmd}
      /\ UNCHANGED <<engine, task, current>>
      /\ conf'[task'.port] = c
  <2>1. Apply(c, cmd) = c
    BY ApplyOf
  <2>2. QED
    BY <2>1, CarriedOut
<1>4. /\ Waiting(1, "remove")' = Waiting(1, "remove")
      /\ Waiting(2, "create")' = Waiting(2, "create") \ {x}
  BY <1>3, OneLess, OthersWait
<1>5. Untagging' = Untagging /\ Tagging' = Tagging
  BY <1>3 DEF Untagging, Tagging, Cmd
<1>6. /\ ~Past(3) /\ ~Past(4)
  BY <1>3 DEF Past
<1>7. SwitchEngineProgress(c)'
  BY PlansStay, <1>1, <1>3, <1>4, <1>5, <1>6 DEF SwitchEngineProgress
<1>8. ConfigOK(c, vlans)' /\ (c.enabled = current.enabled)'
  BY <1>1, <1>2, <1>3 DEF ConfigOK
<1>9. QED
  BY <1>1, <1>2, <1>3, <1>4, <1>7, <1>8 DEF SwitchVlanGoal, Desired

\* The untagged VLAN is joined.
LEMMA SwitchUntag ==
  ASSUME AdapterInv, NEW cmd \in Due, Carried(cmd), task.vlan # None,
         cmd.rank = 3, cmd.op = "untag", cmd.vlans = {task.vlan},
         engine = "switch", task.kind \in VlanKinds
  PROVE  SwitchVlanGoal'
<1> DEFINE c == conf[task.port]
<1>1. /\ c \in Config /\ SwitchEngineProgress(c) /\ ConfigOK(c, vlans)
      /\ Waiting(2, "create") = Desired(task) \ vlans /\ c.enabled = current.enabled
  BY CarriedOut, SwitchBefore DEF SwitchVlanGoal
<1>2. /\ cmd \in todo /\ cmd \in Command /\ todo' = todo \ {cmd} /\ vlans' = vlans
      /\ UNCHANGED <<engine, task, current>>
      /\ conf'[task'.port] = Apply(c, cmd)
  BY CarriedOut
<1>3. conf'[task'.port] = [c EXCEPT !.members = @ \cup {task.vlan},
                                    !.untagged = task.vlan]
  <2>1. Apply(c, cmd) = [c EXCEPT !.members = @ \cup cmd.vlans,
                                  !.untagged = task.vlan]
    BY Zenon DEF Apply
  <2>2. QED
    BY <1>2, <2>1
<1>4. Past(3) /\ ~Past(4)
  BY <1>2 DEF Past, Due
<1>5. Waiting(1, "remove") = {} /\ Waiting(2, "create") = {}
  BY <1>4 DEF Past, Waiting, Cmd
<1>6. /\ Waiting(1, "remove")' = {} /\ Waiting(2, "create")' = {}
  BY <1>2, <1>5, OthersWait
<1>7. Untagging /\ ~Untagging' /\ Tagging' = Tagging /\ Past(3)'
  BY <1>2, <1>4, PastStays DEF Untagging, Tagging, Cmd, Command
<1>8. task.tagged # {} => Tagging
  BY <1>1, <1>4 DEF SwitchEngineProgress
<1>9. SwitchEngineProgress(c)'
  BY PlansStay, <1>1, <1>2, <1>3, <1>4, <1>5, <1>6, <1>7, <1>8, NoneIsNoVlan
     DEF SwitchEngineProgress, Config
<1>10. task.vlan \in vlans
  BY <1>1, <1>5 DEF Desired
<1>11. ConfigOK(c, vlans)' /\ (c.enabled = current.enabled)'
  BY <1>1, <1>2, <1>3, <1>10 DEF ConfigOK, Config
<1>12. QED
  BY <1>1, <1>2, <1>5, <1>6, <1>9, <1>11 DEF SwitchVlanGoal, Desired

\* The tagged VLANs are joined.
LEMMA SwitchTag ==
  ASSUME AdapterInv, NEW cmd \in Due, Carried(cmd), task.tagged # {},
         cmd.rank = 4, cmd.op = "tag", cmd.vlans = task.tagged,
         engine = "switch", task.kind \in VlanKinds
  PROVE  SwitchVlanGoal'
<1> DEFINE c == conf[task.port]
<1>1. /\ c \in Config /\ SwitchEngineProgress(c) /\ ConfigOK(c, vlans)
      /\ Waiting(2, "create") = Desired(task) \ vlans /\ c.enabled = current.enabled
  BY CarriedOut, SwitchBefore DEF SwitchVlanGoal
<1>2. /\ cmd \in todo /\ cmd \in Command /\ todo' = todo \ {cmd} /\ vlans' = vlans
      /\ UNCHANGED <<engine, task, current>>
      /\ conf'[task'.port] = Apply(c, cmd)
  BY CarriedOut
<1>3. conf'[task'.port] = [c EXCEPT !.members = @ \cup task.tagged]
  <2>1. Apply(c, cmd) = [c EXCEPT !.members = @ \cup cmd.vlans]
    BY ApplyOf
  <2>2. QED
    BY <1>2, <2>1
<1>4. Past(4)
  BY <1>2 DEF Past, Due
<1>5. Waiting(1, "remove") = {} /\ Waiting(2, "create") = {} /\ ~Untagging
  BY <1>4 DEF Past, Waiting, Untagging, Cmd
<1>6. /\ Waiting(1, "remove")' = {} /\ Waiting(2, "create")' = {}
  BY <1>2, <1>5, OthersWait
<1>7. Tagging /\ ~Tagging' /\ ~Untagging' /\ Past(4)' /\ Past(3)'
  <2>1. Past(3)
    BY <1>4 DEF Past, Due, TypeOK, AdapterInv, Command
  <2>2. Past(4)' /\ Past(3)'
    BY <1>2, <1>4, <2>1, PastStays
  <2>3. QED
    BY <1>2, <1>5, <2>2 DEF Untagging, Tagging, Cmd, Command
<1>8. SwitchEngineProgress(c)'
  BY PlansStay, <1>1, <1>2, <1>3, <1>4, <1>5, <1>6, <1>7 DEF SwitchEngineProgress, Config
<1>9. task.tagged \subseteq vlans
  <2>1. None \notin task.tagged
    BY CarriedOut, NoneIsNoVlan DEF Request
  <2>2. QED
    BY <1>1, <1>5, <2>1 DEF Desired
<1>10. ConfigOK(c, vlans)' /\ (c.enabled = current.enabled)'
  BY <1>1, <1>2, <1>3, <1>9 DEF ConfigOK, Config
<1>11. QED
  BY <1>1, <1>2, <1>5, <1>6, <1>8, <1>10 DEF SwitchVlanGoal, Desired

\* Any command of a VLAN write.
LEMMA SwitchExecute ==
  ASSUME AdapterInv, NEW cmd \in Due, Carried(cmd), engine = "switch",
         task.kind \in VlanKinds
  PROVE  SwitchVlanGoal'
<1>1. cmd \in todo /\ SwitchEngineProgress(conf[task.port])
  BY CarriedOut, SwitchBefore DEF SwitchVlanGoal
<1>2. cmd \in SwitchEnginePlan
  BY <1>1 DEF SwitchEngineProgress
<1>3. \/ \E x \in Left(current) : cmd.rank = 1 /\ cmd.op = "remove" /\ cmd.vlans = {x}
      \/ \E x \in Desired(task) : cmd.rank = 2 /\ cmd.op = "create" /\ cmd.vlans = {x}
      \/ /\ task.vlan # None
         /\ cmd.rank = 3 /\ cmd.op = "untag" /\ cmd.vlans = {task.vlan}
      \/ /\ task.tagged # {}
         /\ cmd.rank = 4 /\ cmd.op = "tag" /\ cmd.vlans = task.tagged
  BY <1>2 DEF SwitchEnginePlan, Each, Cmd
<1>4. QED
  BY <1>3, SwitchRemove, SwitchCreate, SwitchUntag, SwitchTag

(***************************************************************************)
(* A command of a VLAN write on Fabric Engine (extreme5420-voss.ts).       *)
(***************************************************************************)
FabricVlanGoal ==
  LET c == conf[task.port]
  IN  /\ FabricEngineProgress(c)
      /\ ConfigOK(c, vlans)
      /\ Waiting(2, "create") = Desired(task) \ vlans
      /\ c.enabled = current.enabled

LEMMA FabricBefore ==
  ASSUME AdapterInv, NEW cmd \in Due, Carried(cmd), engine = "fabric",
         task.kind \in VlanKinds
  PROVE  /\ FabricVlanGoal
         /\ Deciding
<1>1. FabricVlanGoal
  BY CarriedOut, Zenon DEF FabricVlanGoal, Progress, VlanProgress, VlanKinds
<1>2. cmd \in todo
  BY CarriedOut
<1>3. QED
  BY <1>1, <1>2 DEF FabricVlanGoal, FabricEngineProgress

\* A membership is left: what untagged frames are given stays.
LEMMA FabricRemove ==
  ASSUME AdapterInv, NEW x \in Left(current), NEW cmd \in Due, Carried(cmd),
         cmd.rank = 1, cmd.op = "remove", cmd.vlans = {x},
         engine = "fabric", task.kind \in VlanKinds
  PROVE  FabricVlanGoal'
<1> DEFINE c == conf[task.port]
<1>1. /\ c \in Config /\ FabricEngineProgress(c) /\ ConfigOK(c, vlans) /\ Deciding
      /\ Waiting(2, "create") = Desired(task) \ vlans /\ c.enabled = current.enabled
  BY CarriedOut, FabricBefore DEF FabricVlanGoal
<1>2. /\ cmd \in todo /\ cmd \in Command /\ todo' = todo \ {cmd} /\ vlans' = vlans
      /\ UNCHANGED <<engine, task, current>>
      /\ conf'[task'.port] = Apply(c, cmd)
  BY CarriedOut
<1>3. conf'[task'.port] = [c EXCEPT !.members = @ \ {x}]
  <2>1. Apply(c, cmd) = Without(c, cmd.vlans)
    BY ApplyOf
  <2>2. Apply(c, cmd) = [c EXCEPT !.members = @ \ {x}]
    BY <1>1, <2>1 DEF Without, Config
  <2>3. QED
    BY <1>2, <2>2
<1>4. ~Past(3) /\ ~Past(4)
  BY <1>2 DEF Past
<1>5. /\ Waiting(1, "remove")' = Waiting(1, "remove") \ {x}
      /\ Waiting(2, "create")' = Waiting(2, "create")
      /\ Waiting(3, "add")' = Waiting(3, "add")
  BY <1>2, OneLess, OthersWait
<1>6. Defaulting' = Defaulting /\ Deciding'
  BY <1>1, <1>2 DEF Defaulting, Deciding, Cmd
<1>7. FabricEngineProgress(c)'
  BY PlansStay, <1>1, <1>2, <1>3, <1>4, <1>5, <1>6 DEF FabricEngineProgress, Config
<1>8. ConfigOK(c, vlans)' /\ (c.enabled = current.enabled)'
  BY <1>1, <1>2, <1>3 DEF ConfigOK, Config
<1>9. QED
  BY <1>1, <1>2, <1>5, <1>7, <1>8 DEF FabricVlanGoal, Desired

\* A VLAN is created.
LEMMA FabricCreate ==
  ASSUME AdapterInv, NEW x \in Desired(task), NEW cmd \in Due, Carried(cmd),
         cmd.rank = 2, cmd.op = "create", cmd.vlans = {x},
         engine = "fabric", task.kind \in VlanKinds
  PROVE  FabricVlanGoal'
<1> DEFINE c == conf[task.port]
<1>1. /\ c \in Config /\ FabricEngineProgress(c) /\ ConfigOK(c, vlans) /\ Deciding
      /\ Waiting(2, "create") = Desired(task) \ vlans /\ c.enabled = current.enabled
  BY CarriedOut, FabricBefore DEF FabricVlanGoal
<1>2. vlans' = vlans \cup {x}
  BY DEF Carried
<1>3. /\ cmd \in todo /\ cmd \in Command /\ todo' = todo \ {cmd}
      /\ UNCHANGED <<engine, task, current>>
      /\ conf'[task'.port] = c
  <2>1. Apply(c, cmd) = c
    BY ApplyOf
  <2>2. QED
    BY <2>1, CarriedOut
<1>4. ~Past(3) /\ ~Past(4)
  BY <1>3 DEF Past
<1>5. /\ Waiting(1, "remove")' = Waiting(1, "remove")
      /\ Waiting(2, "create")' = Waiting(2, "create") \ {x}
      /\ Waiting(3, "add")' = Waiting(3, "add")
  BY <1>3, OneLess, OthersWait
<1>6. Defaulting' = Defaulting /\ Deciding'
  BY <1>1, <1>3 DEF Defaulting, Deciding, Cmd
<1>7. FabricEngineProgress(c)'
  BY PlansStay, <1>1, <1>3, <1>4, <1>5, <1>6 DEF FabricEngineProgress
<1>8. ConfigOK(c, vlans)' /\ (c.enabled = current.enabled)'
  BY <1>1, <1>2, <1>3 DEF ConfigOK
<1>9. QED
  BY <1>1, <1>2, <1>3, <1>5, <1>7, <1>8 DEF FabricVlanGoal, Desired

\* A VLAN is joined.
LEMMA FabricAdd ==
  ASSUME AdapterInv, NEW x \in Desired(task), NEW cmd \in Due, Carried(cmd),
         cmd.rank = 3, cmd.op = "add", cmd.vlans = {x},
         engine = "fabric", task.kind \in VlanKinds
  PROVE  FabricVlanGoal'
<1> DEFINE c == conf[task.port]
<1>1. /\ c \in Config /\ FabricEngineProgress(c) /\ ConfigOK(c, vlans) /\ Deciding
      /\ Waiting(2, "create") = Desired(task) \ vlans /\ c.enabled = current.enabled
  BY CarriedOut, FabricBefore DEF FabricVlanGoal
<1>2. /\ cmd \in todo /\ cmd \in Command /\ todo' = todo \ {cmd} /\ vlans' = vlans
      /\ UNCHANGED <<engine, task, current>>
      /\ conf'[task'.port] = Apply(c, cmd)
  BY CarriedOut
<1>3. conf'[task'.port] = [c EXCEPT !.members = @ \cup {x}]
  <2>1. Apply(c, cmd) = [c EXCEPT !.members = @ \cup cmd.vlans]
    BY ApplyOf
  <2>2. QED
    BY <1>2, <2>1
<1>4. Past(3) /\ ~Past(4)
  BY <1>2 DEF Past, Due
<1>5. Waiting(1, "remove") = {} /\ Waiting(2, "create") = {}
  BY <1>4 DEF Past, Waiting, Cmd
<1>6. /\ Waiting(1, "remove")' = {} /\ Waiting(2, "create")' = {}
      /\ Waiting(3, "add")' = Waiting(3, "add") \ {x}
  BY <1>2, <1>5, OneLess, OthersWait
<1>7. Defaulting' = Defaulting /\ Deciding' /\ Past(3)'
  BY <1>1, <1>2, <1>4, PastStays DEF Defaulting, Deciding, Cmd
<1>8. FabricEngineProgress(c)'
  BY PlansStay, <1>1, <1>2, <1>3, <1>4, <1>5, <1>6, <1>7 DEF FabricEngineProgress, Config
<1>9. x \in vlans
  BY <1>1, <1>5
<1>10. ConfigOK(c, vlans)' /\ (c.enabled = current.enabled)'
  BY <1>1, <1>2, <1>3, <1>9 DEF ConfigOK, Config
<1>11. QED
  BY <1>1, <1>2, <1>5, <1>6, <1>8, <1>10 DEF FabricVlanGoal, Desired

\* Untagged frames are given the VLAN asked for.
LEMMA FabricDefault ==
  ASSUME AdapterInv, NEW cmd \in Due, Carried(cmd), task.vlan # None,
         cmd.rank = 4, cmd.op = "default", cmd.vlans = {task.vlan},
         engine = "fabric", task.kind \in VlanKinds
  PROVE  FabricVlanGoal'
<1> DEFINE c == conf[task.port]
<1>1. /\ c \in Config /\ FabricEngineProgress(c) /\ ConfigOK(c, vlans) /\ Deciding
      /\ Waiting(2, "create") = Desired(task) \ vlans /\ c.enabled = current.enabled
  BY CarriedOut, FabricBefore DEF FabricVlanGoal
<1>2. /\ cmd \in todo /\ cmd \in Command /\ todo' = todo \ {cmd} /\ vlans' = vlans
      /\ UNCHANGED <<engine, task, current>>
      /\ conf'[task'.port] = Apply(c, cmd)
  BY CarriedOut
<1>3. conf'[task'.port] = [c EXCEPT !.untagged = task.vlan]
  <2>1. Apply(c, cmd) = [c EXCEPT !.untagged = task.vlan]
    BY ApplyOf
  <2>2. QED
    BY <1>2, <2>1
<1>4. Past(3) /\ Past(4)
  BY <1>2, DueIsPast
<1>5. Waiting(1, "remove") = {} /\ Waiting(2, "create") = {} /\ Waiting(3, "add") = {}
  BY <1>4 DEF Past, Waiting, Cmd
<1>6. /\ Waiting(1, "remove")' = {} /\ Waiting(2, "create")' = {}
      /\ Waiting(3, "add")' = {}
  BY <1>2, <1>5, OthersWait
<1>7. ~Defaulting' /\ Deciding' /\ Past(3)' /\ Past(4)'
  <2>1. Past(3)' /\ Past(4)'
    BY <1>2, <1>4, PastStays
  <2>2. QED
    BY <1>1, <1>2, <2>1 DEF Defaulting, Deciding, Cmd, Command
<1>8. FabricEngineProgress(c)'
  BY PlansStay, <1>1, <1>2, <1>3, <1>4, <1>5, <1>6, <1>7 DEF FabricEngineProgress, Config
<1>9. ConfigOK(c, vlans)' /\ (c.enabled = current.enabled)'
  BY <1>1, <1>2, <1>3 DEF ConfigOK, Config
<1>10. QED
  BY <1>1, <1>2, <1>5, <1>6, <1>8, <1>9 DEF FabricVlanGoal, Desired

\* Untagged frames are accepted or discarded: the last command.
LEMMA FabricDecide ==
  ASSUME AdapterInv, NEW cmd \in Due, Carried(cmd),
         cmd.rank = 5, cmd.op \in {"accept", "discard"},
         cmd.op = "discard" <=> task.vlan = None,
         engine = "fabric", task.kind \in VlanKinds
  PROVE  FabricVlanGoal'
<1> DEFINE c == conf[task.port]
<1>1. /\ c \in Config /\ FabricEngineProgress(c) /\ ConfigOK(c, vlans) /\ Deciding
      /\ Waiting(2, "create") = Desired(task) \ vlans /\ c.enabled = current.enabled
  BY CarriedOut, FabricBefore DEF FabricVlanGoal
<1>2. /\ cmd \in todo /\ cmd \in Command /\ todo' = todo \ {cmd} /\ vlans' = vlans
      /\ UNCHANGED <<engine, task, current>>
      /\ conf'[task'.port] = Apply(c, cmd)
  BY CarriedOut
<1>3. conf'[task'.port] = [c EXCEPT !.discard = task.vlan = None]
  <2>1. Apply(c, cmd) = [c EXCEPT !.discard = cmd.op = "discard"]
    BY Zenon DEF Apply
  <2>2. (cmd.op = "discard") = (task.vlan = None)
    OBVIOUS
  <2>3. QED
    BY <1>2, <2>1, <2>2
<1>4. Past(3) /\ Past(4) /\ Past(5)
  BY <1>2, DueIsPast
<1>5. Waiting(1, "remove") = {} /\ Waiting(2, "create") = {} /\ Waiting(3, "add") = {}
      /\ ~Defaulting
  BY <1>4 DEF Past, Waiting, Defaulting, Cmd
<1>6. todo' = {}
  <2>1. todo \subseteq {Cmd(5, IF task.vlan = None THEN "discard" ELSE "accept", {})}
    BY <1>1, <1>4 DEF FabricEngineProgress, FabricEnginePlan, Past, Each, Cmd
  <2>2. QED
    BY <1>2, <2>1
<1>7. /\ Waiting(1, "remove")' = {} /\ Waiting(2, "create")' = {}
      /\ Waiting(3, "add")' = {} /\ ~Defaulting' /\ ~Deciding' /\ Past(3)' /\ Past(4)'
  BY <1>6 DEF Waiting, Defaulting, Deciding, Past
<1>8. FabricEngineProgress(c)'
  BY PlansStay, <1>1, <1>2, <1>3, <1>4, <1>5, <1>6, <1>7 DEF FabricEngineProgress, Config
<1>9. ConfigOK(c, vlans)' /\ (c.enabled = current.enabled)'
  BY <1>1, <1>2, <1>3 DEF ConfigOK, Config
<1>10. QED
  BY <1>1, <1>2, <1>5, <1>7, <1>8, <1>9 DEF FabricVlanGoal, Desired

\* Any command of a VLAN write.
LEMMA FabricExecute ==
  ASSUME AdapterInv, NEW cmd \in Due, Carried(cmd), engine = "fabric",
         task.kind \in VlanKinds
  PROVE  FabricVlanGoal'
<1>1. cmd \in todo /\ FabricEngineProgress(conf[task.port])
  BY CarriedOut, FabricBefore DEF FabricVlanGoal
<1>2. cmd \in FabricEnginePlan
  BY <1>1 DEF FabricEngineProgress
<1>3. \/ \E x \in Left(current) : cmd.rank = 1 /\ cmd.op = "remove" /\ cmd.vlans = {x}
      \/ \E x \in Desired(task) : cmd.rank = 2 /\ cmd.op = "create" /\ cmd.vlans = {x}
      \/ \E x \in Desired(task) : cmd.rank = 3 /\ cmd.op = "add" /\ cmd.vlans = {x}
      \/ /\ task.vlan # None
         /\ cmd.rank = 4 /\ cmd.op = "default" /\ cmd.vlans = {task.vlan}
      \/ /\ cmd.rank = 5 /\ cmd.op \in {"accept", "discard"}
         /\ cmd.op = "discard" <=> task.vlan = None
  BY <1>2 DEF FabricEnginePlan, Each, Cmd
<1>4. QED
  BY <1>3, FabricRemove, FabricCreate, FabricAdd, FabricDefault, FabricDecide

(***************************************************************************)
(* A command of the other writes.                                          *)
(***************************************************************************)
\* A port is enabled or disabled.
LEMMA EnableExecute ==
  ASSUME AdapterInv, NEW cmd \in Due, Carried(cmd), task.kind = "enable"
  PROVE  (EnableProgress(conf[task.port]) /\ ConfigOK(conf[task.port], vlans))'
<1> DEFINE c == conf[task.port]
<1>1. /\ cmd \in todo /\ todo' = todo \ {cmd} /\ c \in Config /\ ConfigOK(c, vlans)
      /\ UNCHANGED <<engine, task, current>> /\ EnableProgress(c)
      /\ conf'[task'.port] = Apply(c, cmd) /\ task \in Request
  BY CarriedOut DEF Progress, VlanKinds
<1>2. /\ todo = EnableCommands(task) /\ todo' = {}
      /\ cmd = Cmd(1, IF task.enabled THEN "enable" ELSE "disable", {})
  BY <1>1 DEF EnableProgress, EnableCommands
<1>3. /\ cmd.op \in {"enable", "disable"} /\ cmd.op # "create"
      /\ (cmd.op = "enable") = task.enabled
  BY <1>1, <1>2 DEF Cmd, Request
<1>4. conf'[task'.port] = [c EXCEPT !.enabled = task.enabled] /\ vlans' = vlans
  <2>1. Apply(c, cmd) = [c EXCEPT !.enabled = cmd.op = "enable"]
    BY <1>3, Zenon DEF Apply
  <2>2. QED
    BY <1>1, <1>3, <2>1, CarriedOut
<1>5. Seen(c)' = [current EXCEPT !.enabled = task.enabled]
  BY <1>1, <1>2, <1>4 DEF Seen, Native, Config, EnableProgress
<1>6. QED
  BY <1>1, <1>2, <1>4, <1>5 DEF EnableProgress, ConfigOK, Config

\* A port is bounced.
LEMMA BounceExecute ==
  ASSUME AdapterInv, NEW cmd \in Due, Carried(cmd), task.kind = "bounce"
  PROVE  (BounceProgress(conf[task.port]) /\ ConfigOK(conf[task.port], vlans))'
<1> DEFINE c == conf[task.port]
           off == Cmd(1, "disable", {})
           on == Cmd(2, "enable", {})
<1>1. /\ cmd \in todo /\ todo' = todo \ {cmd} /\ c \in Config /\ ConfigOK(c, vlans)
      /\ UNCHANGED <<engine, task, current>> /\ BounceProgress(c)
      /\ conf'[task'.port] = Apply(c, cmd) /\ current \in View
  BY CarriedOut DEF Progress, VlanKinds, TypeOK
<1>2. /\ todo \subseteq {off, on} /\ off # on /\ off.rank = 1 /\ on.rank = 2
      /\ off.op = "disable" /\ on.op = "enable"
      /\ ~current.enabled => todo \subseteq {off}
  BY <1>1 DEF BounceProgress, BounceCommands, Cmd
<1>3. cmd.op \in {"enable", "disable"} /\ cmd.op # "create"
  BY <1>1, <1>2
<1>4. /\ conf'[task'.port] = [c EXCEPT !.enabled = cmd.op = "enable"]
      /\ vlans' = vlans
  <2>1. Apply(c, cmd) = [c EXCEPT !.enabled = cmd.op = "enable"]
    BY <1>3, Zenon DEF Apply
  <2>2. QED
    BY <1>1, <1>3, <2>1, CarriedOut
<1>5. CASE cmd = off
  <2>1. /\ Seen(c) = current
        /\ current.enabled => on \in todo
    BY <1>1, <1>2, <1>5 DEF BounceProgress, View
  <2>2. /\ current.enabled => todo' = {on}
        /\ ~current.enabled => todo' = {}
    BY <1>1, <1>2, <1>5, <2>1
  <2>3. c' = [c EXCEPT !.enabled = FALSE]
    <3>1. (cmd.op = "enable") = FALSE
      BY <1>2, <1>5
    <3>2. QED
      BY <1>4, <3>1
  <2>4. Seen(c)' = [current EXCEPT !.enabled = FALSE]
    BY <1>1, <2>1, <2>3, SeenEnabled
  <2>5. BounceProgress(c)'
    <3>1. (current.enabled /\ (todo' = {} \/ off \in todo')) = FALSE
      BY <1>2, <2>2
    <3>2. /\ todo' \subseteq BounceCommands(current)
          /\ current.enabled => on \in todo'
      BY <1>1, <2>2 DEF BounceProgress
    <3>3. current' = current
      BY <1>1
    <3>4. QED
      BY <2>4, <3>1, <3>2, <3>3 DEF BounceProgress
  <2>6. QED
    BY <1>1, <1>4, <2>5 DEF ConfigOK, Config
<1>6. CASE cmd = on
  <2>1. off \notin todo
    <3> SUFFICES ASSUME off \in todo PROVE on.rank <= off.rank
      BY <1>2
    <3>1. QED
      BY <1>6 DEF Due
  <2>2. current.enabled /\ todo' = {}
    <3>1. on \in todo /\ on # off
      BY <1>1, <1>2, <1>6
    <3>2. current.enabled
      BY <1>1, <1>2, <3>1 DEF View
    <3>3. QED
      BY <1>1, <1>2, <1>6, <2>1, <3>2
  <2>3. Seen(c) = [current EXCEPT !.enabled = FALSE]
    BY <1>1, <1>6, <2>1 DEF BounceProgress, View
  <2>4. Seen(c)' = current
    BY <1>1, <1>2, <1>4, <1>6, <2>2, <2>3 DEF Seen, Native, Config, View
  <2>5. BounceProgress(c)'
    BY <1>1, <1>2, <2>2, <2>4 DEF BounceProgress, View
  <2>6. QED
    BY <1>1, <1>4, <2>5 DEF ConfigOK, Config
<1>7. QED
  BY <1>1, <1>2, <1>5, <1>6

\* What a port has learned is cleared.
LEMMA FlushExecute ==
  ASSUME AdapterInv, NEW cmd \in Due, Carried(cmd), task.kind = "flush"
  PROVE  (FlushProgress(conf[task.port]) /\ ConfigOK(conf[task.port], vlans))'
<1> DEFINE c == conf[task.port]
<1>1. /\ cmd \in todo /\ todo' = todo \ {cmd} /\ c \in Config /\ ConfigOK(c, vlans)
      /\ UNCHANGED <<engine, task, current>> /\ FlushProgress(c)
      /\ conf'[task'.port] = Apply(c, cmd)
  BY CarriedOut DEF Progress, VlanKinds
<1>2. cmd.op = "clear"
  BY <1>1 DEF FlushProgress, FlushCommands, Cmd
<1>3. Apply(c, cmd) = c
  BY <1>2, Zenon DEF Apply
<1>4. conf'[task'.port] = c /\ vlans' = vlans
  BY <1>1, <1>2, <1>3, CarriedOut
<1>5. QED
  BY <1>1, <1>4 DEF FlushProgress, ConfigOK, Seen, Native

(***************************************************************************)
(* The steps of a write.                                                   *)
(***************************************************************************)
\* What a command leaves of the port it is about.
LEMMA CommandProgress ==
  ASSUME AdapterInv, NEW cmd \in Due, Carried(cmd)
  PROVE  (Progress(conf[task.port]) /\ ConfigOK(conf[task.port], vlans))'
<1>1. UNCHANGED <<engine, task>> /\ task \in Request /\ engine \in Engines
  BY CarriedOut DEF TypeOK
<1>2. CASE task.kind \in VlanKinds /\ engine = "switch"
  <2>1. SwitchVlanGoal'
    BY <1>2, SwitchExecute
  <2>2. VlanProgress(conf[task.port])' /\ ConfigOK(conf[task.port], vlans)'
    BY <1>1, <1>2, <2>1 DEF SwitchVlanGoal, VlanProgress
  <2>3. task'.kind \in VlanKinds
    BY <1>1, <1>2
  <2>4. Progress(conf[task.port])'
    BY <2>2, <2>3, Zenon DEF Progress, VlanKinds
  <2>5. QED
    BY <2>2, <2>4
<1>3. CASE task.kind \in VlanKinds /\ engine = "fabric"
  <2>1. FabricVlanGoal'
    BY <1>3, FabricExecute
  <2>2. VlanProgress(conf[task.port])' /\ ConfigOK(conf[task.port], vlans)'
    BY <1>1, <1>3, <2>1 DEF FabricVlanGoal, VlanProgress
  <2>3. task'.kind \in VlanKinds
    BY <1>1, <1>3
  <2>4. Progress(conf[task.port])'
    BY <2>2, <2>3, Zenon DEF Progress, VlanKinds
  <2>5. QED
    BY <2>2, <2>4
<1>4. CASE task.kind = "enable"
  BY <1>1, <1>4, EnableExecute, Zenon DEF Progress, VlanKinds
<1>5. CASE task.kind = "bounce"
  BY <1>1, <1>5, BounceExecute, Zenon DEF Progress, VlanKinds
<1>6. CASE task.kind = "flush"
  BY <1>1, <1>6, FlushExecute, Zenon DEF Progress, VlanKinds
<1>7. QED
  BY <1>1, <1>2, <1>3, <1>4, <1>5, <1>6 DEF Engines, Request

\* A command of a write, whatever the switch may hold.
LEMMA ExecuteInv ==
  ASSUME AdapterInv, Execute
  PROVE  AdapterInv'
<1>1. PICK cmd \in Due : Carried(cmd)
  BY DEF Execute, Carried
<1>2. /\ cmd \in todo /\ cmd \in Command /\ todo' = todo \ {cmd}
      /\ task.port \in Ports /\ conf[task.port] \in Config
      /\ conf' = [conf EXCEPT ![task.port] = Apply(conf[task.port], cmd)]
      /\ UNCHANGED <<engine, saved, task, current, step, answer>>
      /\ TypeOK /\ task \in Requests
  BY <1>1, CarriedOut
<1>3. step = "send" /\ vlans \subseteq vlans' /\ vlans' \subseteq Vlans
  BY <1>1, <1>2 DEF Carried, TypeOK, Command
<1>4. TypeOK'
  BY <1>2, <1>3, ApplyType DEF TypeOK
<1>5. (Progress(conf[task.port]) /\ ConfigOK(conf[task.port], vlans))'
  BY <1>1, CommandProgress
<1>6. ASSUME NEW p \in Ports
      PROVE  (ConfigOK(conf[p], vlans) /\ ConfigOK(saved.conf[p], saved.vlans))'
  <2>1. ConfigOK(saved.conf[p], saved.vlans)'
    BY <1>2 DEF AdapterInv, ConfigOK
  <2>2. CASE p = task.port
    BY <1>2, <1>5, <2>1, <2>2
  <2>3. CASE p # task.port
    <3>1. conf'[p] = conf[p] /\ ConfigOK(conf[p], vlans)
      BY <1>2, <2>3 DEF AdapterInv, TypeOK
    <3>2. ConfigOK(conf[p], vlans)'
      BY <1>2, <1>3, <3>1 DEF ConfigOK
    <3>3. QED
      BY <2>1, <3>2
  <2>4. QED
    BY <2>2, <2>3
<1>7. QED
  BY <1>2, <1>3, <1>4, <1>5, <1>6 DEF AdapterInv

\* What a port is read as stands for where its VLANs and its frames are.
LEMMA SeenBefore ==
  ASSUME NEW c \in Config, ConfigOK(c, vlans), engine \in Engines
  PROVE  /\ engine = "switch" => c.members = Left(Seen(c)) /\ c.untagged = Seen(c).vlan
         /\ engine = "fabric" => /\ c.members \subseteq Left(Seen(c))
                                 /\ c.discard = (Seen(c).vlan = None)
                                 /\ Seen(c).vlan \in {None, c.untagged}
<1>1. None \notin c.members
  BY NoneIsNoVlan DEF Config
<1>2. QED
  BY <1>1 DEF ConfigOK, Left, Seen, Native, Config

\* What a write begins with.
LEMMA Begun ==
  ASSUME AdapterInv, NEW r \in Requests, Begin(r)
  PROVE  /\ r \in Request /\ Asked(r) /\ r.port \in Ports
         /\ conf[r.port] \in Config /\ ConfigOK(conf[r.port], vlans)
         /\ engine \in Engines /\ UNCHANGED <<engine, conf, vlans, saved>>
         /\ task' = r /\ current' = Seen(conf[r.port]) /\ current' \in View
         /\ todo' = Commands(r, Seen(conf[r.port])) /\ todo' \subseteq Command
         /\ conf'[task'.port] = conf[r.port] /\ step' = "send" /\ answer' = "served"
         /\ Left(Seen(conf[r.port])) \subseteq Vlans /\ Desired(r) \subseteq Vlans
         /\ engine = "fabric" /\ r.kind = "trunk" => Desired(r) # {}
<1>1. /\ r \in Request /\ Asked(r) /\ r.port \in Ports
      /\ conf[r.port] \in Config /\ ConfigOK(conf[r.port], vlans)
  BY RequestAssumption DEF Request, AdapterInv, TypeOK
<1>2. Seen(conf[r.port]) \in View
  BY <1>1, SeenType
<1>3. /\ engine \in Engines /\ UNCHANGED <<engine, conf, vlans, saved>>
      /\ task' = r /\ current' = Seen(conf[r.port])
      /\ step' = "send" /\ answer' = "served"
      /\ engine = "fabric" /\ r.kind = "trunk" => Desired(r) # {}
  BY DEF Begin, switch, AdapterInv, TypeOK
<1>4. todo' = Commands(r, Seen(conf[r.port]))
  BY DEF Begin
<1>5. todo' \subseteq Command
  BY <1>2, <1>4, CommandsType DEF AdapterInv
<1>6. Left(Seen(conf[r.port])) \subseteq Vlans /\ Desired(r) \subseteq Vlans
  BY <1>1, <1>2 DEF Left, View, Desired, Request
<1>7. QED
  BY <1>1, <1>2, <1>3, <1>4, <1>5, <1>6

\* A VLAN write begins on Switch Engine.
LEMMA SwitchBegin ==
  ASSUME AdapterInv, NEW r \in Requests, Begin(r),
         engine = "switch", r.kind \in VlanKinds
  PROVE  VlanProgress(conf[task.port])'
<1> DEFINE c == conf[r.port]
<1>1. /\ r \in Request /\ Asked(r) /\ c \in Config /\ ConfigOK(c, vlans)
      /\ engine \in Engines /\ UNCHANGED <<engine, conf, vlans>>
      /\ task' = r /\ current' = Seen(c) /\ conf'[task'.port] = c
      /\ Left(Seen(c)) \subseteq Vlans /\ Desired(r) \subseteq Vlans
  BY Begun
<1>2. todo' = SwitchEngineCommands(r, Seen(c))
  BY Begun, CommandsOf
<1>3. /\ Waiting(1, "remove")' = Left(Seen(c))
      /\ Waiting(2, "create")' = Desired(r) \ vlans
  <2>1. \A v : /\ Cmd(1, "remove", {v}) \in todo' <=> v \in Left(Seen(c))
               /\ Cmd(2, "create", {v}) \in todo' <=> v \in Desired(r) \ vlans
    BY <1>2 DEF SwitchEngineCommands, Replacement, Each, Cmd
  <2>2. QED
    BY <1>1, <2>1 DEF Waiting
<1>4. /\ r.vlan # None => Untagging'
      /\ r.tagged # {} => Tagging'
  BY <1>1, <1>2 DEF SwitchEngineCommands, Each, Untagging, Tagging
<1>5. (todo \subseteq SwitchEnginePlan)'
  BY <1>1, <1>2 DEF SwitchEngineCommands, Replacement, SwitchEnginePlan, Each
<1>6. c.members = Left(Seen(c)) /\ c.untagged = Seen(c).vlan
  BY <1>1, SeenBefore
<1>7. c.untagged \in c.members \cup {None} /\ None \notin c.members
  BY <1>1, NoneIsNoVlan DEF ConfigOK, Config
<1>8. SwitchEngineProgress(conf[task.port])'
  BY <1>1, <1>3, <1>4, <1>5, <1>6, <1>7 DEF SwitchEngineProgress
<1>9. QED
  BY <1>1, <1>3, <1>8 DEF VlanProgress, Seen

\* A VLAN write begins on Fabric Engine.
LEMMA FabricBegin ==
  ASSUME AdapterInv, NEW r \in Requests, Begin(r),
         engine = "fabric", r.kind \in VlanKinds
  PROVE  VlanProgress(conf[task.port])'
<1> DEFINE c == conf[r.port]
<1>1. /\ r \in Request /\ Asked(r) /\ c \in Config /\ ConfigOK(c, vlans)
      /\ engine \in Engines /\ UNCHANGED <<engine, conf, vlans>>
      /\ task' = r /\ current' = Seen(c) /\ conf'[task'.port] = c
      /\ Left(Seen(c)) \subseteq Vlans /\ Desired(r) \subseteq Vlans
      /\ r.kind = "trunk" => Desired(r) # {}
  BY Begun
<1>2. todo' = FabricEngineCommands(r, Seen(c))
  BY Begun, CommandsOf
<1>3. /\ Waiting(1, "remove")' = Left(Seen(c))
      /\ Waiting(2, "create")' = Desired(r) \ vlans
      /\ Waiting(3, "add")' = Desired(r)
  <2>1. \A v : /\ Cmd(1, "remove", {v}) \in todo' <=> v \in Left(Seen(c))
               /\ Cmd(2, "create", {v}) \in todo' <=> v \in Desired(r) \ vlans
               /\ Cmd(3, "add", {v}) \in todo' <=> v \in Desired(r)
    BY <1>2 DEF FabricEngineCommands, Replacement, Each, Cmd
  <2>2. QED
    BY <1>1, <2>1 DEF Waiting
<1>4. /\ r.vlan # None => Defaulting'
      /\ Deciding'
  BY <1>1, <1>2 DEF FabricEngineCommands, Each, Defaulting, Deciding
<1>5. (todo \subseteq FabricEnginePlan)'
  BY <1>1, <1>2 DEF FabricEngineCommands, Replacement, FabricEnginePlan, Each
<1>6. /\ c.members \subseteq Left(Seen(c)) /\ c.discard = (Seen(c).vlan = None)
      /\ Seen(c).vlan \in {None, c.untagged}
  BY <1>1, SeenBefore
<1>7. FabricEngineProgress(conf[task.port])'
  BY <1>1, <1>3, <1>4, <1>5, <1>6 DEF FabricEngineProgress
<1>8. QED
  BY <1>1, <1>3, <1>7 DEF VlanProgress, Seen

\* A write begins.
LEMMA BeginInv ==
  ASSUME AdapterInv, NEW r \in Requests, Begin(r)
  PROVE  AdapterInv'
<1> DEFINE c == conf[r.port]
<1>1. /\ r \in Request /\ c \in Config /\ engine \in Engines
      /\ UNCHANGED <<engine, conf, vlans, saved>>
      /\ task' = r /\ current' = Seen(c) /\ current' \in View
      /\ todo' = Commands(r, Seen(c)) /\ todo' \subseteq Command
      /\ conf'[task'.port] = c /\ step' = "send" /\ answer' = "served"
  BY Begun
<1>2. ASSUME r.kind \in VlanKinds
      PROVE  Progress(conf[task.port])'
  <2>1. VlanProgress(conf[task.port])'
    BY <1>1, <1>2, SwitchBegin, FabricBegin DEF Engines
  <2>2. task'.kind \in VlanKinds
    BY <1>1, <1>2
  <2>3. QED
    BY <2>1, <2>2, Zenon DEF Progress, VlanKinds
<1>3. ASSUME r.kind = "enable"
      PROVE  Progress(conf[task.port])'
  <2>1. todo' = EnableCommands(r) /\ todo' # {}
    BY <1>1, <1>3, CommandsOf DEF EnableCommands
  <2>2. EnableProgress(conf[task.port])'
    BY <1>1, <2>1 DEF EnableProgress, View
  <2>3. task'.kind = "enable"
    BY <1>1, <1>3
  <2>4. QED
    BY <2>2, <2>3, Zenon DEF Progress, VlanKinds
<1>4. ASSUME r.kind = "bounce"
      PROVE  Progress(conf[task.port])'
  <2>1. todo' = BounceCommands(Seen(c))
    BY <1>1, <1>4, CommandsOf
  <2>2. BounceProgress(conf[task.port])'
    BY <1>1, <2>1 DEF BounceProgress, BounceCommands, View
  <2>3. task'.kind = "bounce"
    BY <1>1, <1>4
  <2>4. QED
    BY <2>2, <2>3, Zenon DEF Progress, VlanKinds
<1>5. ASSUME r.kind = "flush"
      PROVE  Progress(conf[task.port])'
  <2>1. todo' = FlushCommands
    BY <1>1, <1>5, CommandsOf
  <2>2. FlushProgress(conf[task.port])'
    BY <1>1, <2>1 DEF FlushProgress
  <2>3. task'.kind = "flush"
    BY <1>1, <1>5
  <2>4. QED
    BY <2>2, <2>3, Zenon DEF Progress, VlanKinds
<1>6. Progress(conf[task.port])'
  BY <1>1, <1>2, <1>3, <1>4, <1>5 DEF Request
<1>7. QED
  BY <1>1, <1>6 DEF AdapterInv, TypeOK, ConfigOK

\* The end of a write, however it ends.
LEMMA EndsInv ==
  ASSUME AdapterInv, NEW a \in {"ok", "rejected"}, Ends(a),
         UNCHANGED <<engine, conf, vlans, task, current>>,
         saved' \in {saved, [conf |-> conf, vlans |-> vlans]}
  PROVE  AdapterInv'
<1>1. saved'.conf \in {saved.conf, conf} /\ saved'.vlans \in {saved.vlans, vlans}
      /\ saved' \in [conf : [Ports -> Config], vlans : SUBSET Vlans]
  BY DEF AdapterInv, TypeOK
<1>2. TypeOK'
  BY <1>1 DEF AdapterInv, TypeOK, Ends
<1>3. \A p \in Ports : (ConfigOK(conf[p], vlans) /\ ConfigOK(saved.conf[p], saved.vlans))'
  BY DEF AdapterInv, ConfigOK
<1>4. QED
  BY <1>2, <1>3 DEF AdapterInv, Ends

\* A step that sends no command leaves a write where it is.
LEMMA ProgressStays ==
  ASSUME AdapterInv, step # "idle",
         UNCHANGED <<engine, conf, vlans, task, current, todo>>
  PROVE  Progress(conf[task.port])'
<1>1. task \in Request /\ task' = task /\ Progress(conf[task.port])
  BY DEF AdapterInv, TypeOK
<1>2. ASSUME task.kind \in VlanKinds
      PROVE  Progress(conf[task.port])'
  <2>1. VlanProgress(conf[task.port])
    BY <1>1, <1>2, Zenon DEF Progress, VlanKinds
  <2>2. VlanProgress(conf[task.port])'
    BY <2>1 DEF VlanProgress, SwitchEngineProgress, FabricEngineProgress, Waiting, Past,
                SwitchEnginePlan, FabricEnginePlan, Untagging, Tagging, Defaulting, Deciding
  <2>3. task'.kind \in VlanKinds
    BY <1>1, <1>2
  <2>4. QED
    BY <2>2, <2>3, Zenon DEF Progress, VlanKinds
<1>3. ASSUME task.kind = "enable"
      PROVE  Progress(conf[task.port])'
  <2>1. EnableProgress(conf[task.port])
    BY <1>1, <1>3, Zenon DEF Progress, VlanKinds
  <2>2. EnableProgress(conf[task.port])' /\ task'.kind = "enable"
    BY <1>3, <2>1 DEF EnableProgress
  <2>3. QED
    BY <2>2, Zenon DEF Progress, VlanKinds
<1>4. ASSUME task.kind = "bounce"
      PROVE  Progress(conf[task.port])'
  <2>1. BounceProgress(conf[task.port])
    BY <1>1, <1>4, Zenon DEF Progress, VlanKinds
  <2>2. BounceProgress(conf[task.port])' /\ task'.kind = "bounce"
    BY <1>4, <2>1 DEF BounceProgress
  <2>3. QED
    BY <2>2, Zenon DEF Progress, VlanKinds
<1>5. ASSUME task.kind = "flush"
      PROVE  Progress(conf[task.port])'
  <2>1. FlushProgress(conf[task.port])
    BY <1>1, <1>5, Zenon DEF Progress, VlanKinds
  <2>2. FlushProgress(conf[task.port])' /\ task'.kind = "flush"
    BY <1>5, <2>1 DEF FlushProgress
  <2>3. QED
    BY <2>2, Zenon DEF Progress, VlanKinds
<1>6. QED
  BY <1>1, <1>2, <1>3, <1>4, <1>5 DEF Request

\* All commands are sent.
LEMMA SentInv ==
  ASSUME AdapterInv, Sent
  PROVE  AdapterInv'
<1>1. /\ step = "send" /\ todo = {} /\ UNCHANGED <<engine, conf, vlans, saved, task, current>>
      /\ task \in Request
  BY DEF Sent, switch, AdapterInv, TypeOK
<1>2. CASE Ends("ok")
  BY <1>1, <1>2, EndsInv
<1>3. ASSUME UNCHANGED <<todo, answer>>, step' \in {"save", "check"},
             step' = "save" => Saves,
             step' = "check" => ~Saves /\ task.kind \notin {"bounce", "flush"}
      PROVE  AdapterInv'
  <2>1. TypeOK'
    BY <1>1, <1>3 DEF AdapterInv, TypeOK
  <2>2. \A p \in Ports : (ConfigOK(conf[p], vlans) /\ ConfigOK(saved.conf[p], saved.vlans))'
    BY <1>1 DEF AdapterInv, ConfigOK
  <2>3. Progress(conf[task.port])'
    BY <1>1, <1>3, ProgressStays
  <2>4. Saves' = Saves
    BY <1>1 DEF Saves
  <2>5. step' = "check" => ~Saving
    BY <1>3 DEF Saves
  <2>6. QED
    BY <1>1, <1>3, <2>1, <2>2, <2>3, <2>4, <2>5 DEF AdapterInv
<1>4. QED
  BY <1>1, <1>2, <1>3 DEF Sent, GoesOn

\* The running configuration is saved.
LEMMA SaveInv ==
  ASSUME AdapterInv, Save
  PROVE  AdapterInv'
<1>1. /\ step = "save" /\ todo = {} /\ UNCHANGED <<engine, conf, vlans, task, current>>
      /\ saved' = [conf |-> conf, vlans |-> vlans]
  BY DEF Save, AdapterInv
<1>2. CASE Ends("ok")
  BY <1>1, <1>2, EndsInv
<1>3. CASE /\ task.kind \notin {"bounce", "flush"}
           /\ step' = "check" /\ UNCHANGED <<todo, answer>>
  <2>1. TypeOK'
    BY <1>1, <1>3 DEF AdapterInv, TypeOK
  <2>2. \A p \in Ports : (ConfigOK(conf[p], vlans) /\ ConfigOK(saved.conf[p], saved.vlans))'
    BY <1>1 DEF AdapterInv, ConfigOK
  <2>3. Progress(conf[task.port])'
    BY <1>1, <1>3, ProgressStays
  <2>4. QED
    BY <1>1, <1>3, <2>1, <2>2, <2>3 DEF AdapterInv
<1>4. QED
  BY <1>2, <1>3 DEF Save, GoesOn

\* The readback, a broken session.
LEMMA AnswerInv ==
  ASSUME AdapterInv, Check \/ Break
  PROVE  AdapterInv'
<1>1. UNCHANGED <<engine, conf, vlans, saved, task, current>>
  BY DEF Check, Break, switch
<1>2. Ends("ok") \/ Ends("rejected")
  BY DEF Check, Break
<1>3. QED
  BY <1>1, <1>2, EndsInv

\* A power cycle: what was saved is as possible as what was running.
LEMMA PowerCycleInv ==
  ASSUME AdapterInv, PowerCycle
  PROVE  AdapterInv'
<1>1. /\ conf' = saved.conf /\ vlans' = saved.vlans /\ UNCHANGED <<engine, saved, task, current>>
      /\ step' = "idle" /\ todo' = {}
      /\ answer' = IF answer = "served" THEN "rejected" ELSE answer
  BY DEF PowerCycle, Ends
<1>2. TypeOK'
  BY <1>1 DEF AdapterInv, TypeOK
<1>3. \A p \in Ports : (ConfigOK(conf[p], vlans) /\ ConfigOK(saved.conf[p], saved.vlans))'
  BY <1>1 DEF AdapterInv, ConfigOK
<1>4. answer' # "served"
  BY <1>1
<1>5. QED
  BY <1>1, <1>2, <1>3, <1>4 DEF AdapterInv

\* The start-up state.
LEMMA InitAdapterInv == Init => AdapterInv
<1> SUFFICES ASSUME Init PROVE AdapterInv
  OBVIOUS
<1> DEFINE c == [members |-> {Resting}, untagged |-> Resting,
                 discard |-> FALSE, enabled |-> TRUE]
<1>1. c \in Config /\ Resting # None
  BY AdapterAssumption DEF Config, None
<1>2. /\ engine \in Engines /\ conf = [p \in Ports |-> c] /\ vlans = {Resting}
      /\ saved = [conf |-> conf, vlans |-> vlans] /\ todo = {}
      /\ step = "idle" /\ answer = "none" /\ current = Seen(conf[task.port])
  BY DEF Init
<1>3. task \in Request /\ task.port \in Ports
  <2>1. (CHOOSE p \in Ports : TRUE) \in Ports
    BY AdapterAssumption
  <2>2. QED
    BY <2>1 DEF Init, Request
<1>4. TypeOK
  BY <1>1, <1>2, <1>3, SeenType, AdapterAssumption DEF TypeOK
<1>5. ASSUME NEW p \in Ports
      PROVE  ConfigOK(conf[p], vlans) /\ ConfigOK(saved.conf[p], saved.vlans)
  BY <1>1, <1>2 DEF ConfigOK
<1>6. QED
  BY <1>2, <1>4, <1>5 DEF AdapterInv

\* Every step of the adapter and of the switch.
LEMMA NextAdapterInv ==
  ASSUME AdapterInv, [Next]_vars
  PROVE  AdapterInv'
<1>1. CASE \E r \in Requests : Begin(r)
  BY <1>1, BeginInv
<1>2. CASE Execute
  BY <1>2, ExecuteInv
<1>3. CASE Sent
  BY <1>3, SentInv
<1>4. CASE Save
  BY <1>4, SaveInv
<1>5. CASE Check \/ Break
  BY <1>5, AnswerInv
<1>6. CASE PowerCycle
  BY <1>6, PowerCycleInv
<1>7. CASE UNCHANGED vars
  <2>1. UNCHANGED <<engine, conf, vlans, saved, task, current, todo, step, answer>>
    BY <1>7 DEF vars, switch
  <2>2. TypeOK'
    BY <2>1 DEF AdapterInv, TypeOK
  <2>3. \A p \in Ports : (ConfigOK(conf[p], vlans) /\ ConfigOK(saved.conf[p], saved.vlans))'
    BY <2>1 DEF AdapterInv, ConfigOK
  <2>4. step # "idle" => Progress(conf[task.port])'
    BY <2>1, ProgressStays
  <2>5. Saves' = Saves
    BY <2>1 DEF Saves
  <2>6. QED
    BY <2>1, <2>2, <2>3, <2>4, <2>5 DEF AdapterInv
<1>8. QED
  BY <1>1, <1>2, <1>3, <1>4, <1>5, <1>6, <1>7 DEF Next

\* The commands left of a write and its port always fit together, on both
\* engines, whatever earlier writes and power cycles left (buildVlanCommands).
THEOREM AdapterInvariance == Spec => []AdapterInv
BY InitAdapterInv, NextAdapterInv, PTL DEF Spec

\* The adapter handles only VLANs it is asked for: what it reads back from a
\* port never makes it send a command about no VLAN.
THEOREM TypeTheorem == Spec => []TypeOK
<1>1. AdapterInv => TypeOK
  BY DEF AdapterInv
<1>2. QED
  BY AdapterInvariance, <1>1, PTL

(***************************************************************************)
(* What follows from the invariant.                                        *)
(***************************************************************************)
\* Where the port of a VLAN write is, on either engine.
LEMMA WriteUnderWay ==
  ASSUME AdapterInv, step # "idle", task.kind \in VlanKinds
  PROVE  /\ engine = "switch" => SwitchEngineProgress(conf[task.port])
         /\ engine = "fabric" => FabricEngineProgress(conf[task.port])
         /\ Waiting(2, "create") = Desired(task) \ vlans
         /\ conf[task.port].enabled = current.enabled
         /\ task \in Request /\ Asked(task) /\ current \in View /\ engine \in Engines
         /\ conf[task.port] \in Config /\ ConfigOK(conf[task.port], vlans)
<1>1. /\ task \in Request /\ current \in View /\ engine \in Engines
      /\ conf[task.port] \in Config /\ ConfigOK(conf[task.port], vlans)
      /\ Progress(conf[task.port]) /\ task \in Requests
  BY DEF AdapterInv, TypeOK, Request
<1>2. VlanProgress(conf[task.port])
  BY <1>1, Zenon DEF Progress, VlanKinds
<1>3. Asked(task)
  BY <1>1, RequestAssumption
<1>4. QED
  BY <1>1, <1>2, <1>3 DEF VlanProgress

\* The switch carries out the commands of a VLAN write in the order sent.
LEMMA VlanCommandAccepted ==
  ASSUME AdapterInv, step = "send", task.kind \in VlanKinds, NEW cmd \in Due
  PROVE  Accepts(task.port, cmd)
<1> DEFINE c == conf[task.port]
<1>1. /\ engine = "switch" => SwitchEngineProgress(c)
      /\ engine = "fabric" => FabricEngineProgress(c)
      /\ Waiting(2, "create") = Desired(task) \ vlans
      /\ task \in Request /\ Asked(task) /\ engine \in Engines
      /\ c \in Config
  BY WriteUnderWay
<1>2. /\ cmd \in todo /\ cmd \in Command
      /\ cmd.rank >= 3 => Past(3)
      /\ cmd.rank >= 4 => Past(3) /\ Past(4)
  BY DueIsPast DEF Due, AdapterInv, TypeOK, Command
<1>3. /\ Desired(task) \subseteq Vlans
      /\ None \notin Vlans
      /\ task.vlan \notin task.tagged
  BY <1>1, NoneIsNoVlan DEF Desired, Request, Asked, VlanKinds
<1>4. Past(3) => /\ Waiting(1, "remove") = {} /\ Waiting(2, "create") = {}
                 /\ Desired(task) \subseteq vlans
  <2>1. Past(3) => Waiting(1, "remove") = {} /\ Waiting(2, "create") = {}
    BY DEF Past, Waiting, Cmd
  <2>2. QED
    BY <1>1, <2>1
<1>5. CASE cmd.op = "create"
  <2>1. \E x \in Vlans : cmd = Cmd(2, "create", {x})
    BY <1>1, <1>2, <1>3, <1>5
       DEF SwitchEngineProgress, FabricEngineProgress, SwitchEnginePlan,
           FabricEnginePlan, Each, Cmd, Engines
  <2>2. cmd.vlans \cap vlans = {}
    BY <1>1, <1>2, <2>1 DEF Waiting, Cmd
  <2>3. QED
    BY <1>5, <2>2 DEF Accepts
<1>6. CASE engine = "fabric" /\ cmd.op # "create"
  <2>1. \/ cmd.op \notin {"add", "untag", "tag", "default"}
        \/ cmd.rank >= 3 /\ cmd.vlans \subseteq Desired(task)
    BY <1>1, <1>2, <1>6 DEF FabricEngineProgress, FabricEnginePlan, Each, Cmd, Desired
  <2>2. QED
    BY <1>2, <1>4, <1>6, <2>1 DEF Accepts
<1>7. CASE engine = "switch" /\ cmd.op # "create"
  <2>1. \/ \E x \in Left(current) : cmd = Cmd(1, "remove", {x})
        \/ task.vlan # None /\ cmd = Cmd(3, "untag", {task.vlan})
        \/ task.tagged # {} /\ cmd = Cmd(4, "tag", task.tagged)
    BY <1>1, <1>2, <1>7 DEF SwitchEngineProgress, SwitchEnginePlan, Each, Cmd
  <2>2. ASSUME NEW x \in Left(current), cmd = Cmd(1, "remove", {x})
        PROVE  Accepts(task.port, cmd)
    <3>1. x \in Waiting(1, "remove")
      BY <1>2, <2>2 DEF Waiting, Left, AdapterInv, TypeOK, View
    <3>2. QED
      BY <1>1, <1>7, <2>2, <3>1 DEF Accepts, Cmd, SwitchEngineProgress
  <2>3. ASSUME task.vlan # None, cmd = Cmd(3, "untag", {task.vlan})
        PROVE  Accepts(task.port, cmd)
    <3>1. Untagging /\ Past(3) /\ ~Past(4)
      BY <1>2, <2>3 DEF Untagging, Past, Cmd
    <3>2. c.members = {} /\ c.untagged = None
      BY <1>1, <1>4, <1>7, <3>1 DEF SwitchEngineProgress
    <3>3. {task.vlan} \subseteq vlans
      BY <1>4, <2>3, <3>1 DEF Desired
    <3>4. QED
      BY <1>7, <2>3, <3>2, <3>3 DEF Accepts, Cmd
  <2>4. ASSUME task.tagged # {}, cmd = Cmd(4, "tag", task.tagged)
        PROVE  Accepts(task.port, cmd)
    <3>1. Tagging /\ Past(3) /\ Past(4)
      BY <1>2, <2>4 DEF Tagging, Cmd
    <3>2. c.members \subseteq {task.vlan}
      BY <1>1, <1>4, <1>7, <3>1 DEF SwitchEngineProgress
    <3>3. task.tagged \subseteq vlans
      BY <1>1, <1>3, <1>4, <3>1 DEF Desired, Request
    <3>4. QED
      BY <1>3, <1>7, <2>4, <3>2, <3>3 DEF Accepts, Cmd
  <2>5. QED
    BY <2>1, <2>2, <2>3, <2>4
<1>8. QED
  BY <1>1, <1>5, <1>6, <1>7 DEF Engines

\* No write sends a command that the switch refuses: on both engines the list
\* is sound although it is made up before its first command is sent
\* (buildVlanCommands, membershipReplacementCommands).
THEOREM AcceptedTheorem == Spec => []CommandsAccepted
<1>1. ASSUME AdapterInv, step = "send", NEW cmd \in Due
      PROVE  Accepts(task.port, cmd)
  <2>1. CASE task.kind \in VlanKinds
    BY <1>1, <2>1, VlanCommandAccepted
  <2>2. CASE task.kind \in {"enable", "bounce", "flush"}
    <3>1. /\ cmd \in todo /\ Progress(conf[task.port])
      BY <1>1 DEF AdapterInv, Due
    <3>2. cmd.op \in {"enable", "disable", "clear"}
      <4>1. task.kind = "enable" => EnableProgress(conf[task.port])
        BY <3>1, Zenon DEF Progress, VlanKinds
      <4>2. task.kind = "bounce" => BounceProgress(conf[task.port])
        BY <3>1, Zenon DEF Progress, VlanKinds
      <4>3. task.kind = "flush" => FlushProgress(conf[task.port])
        BY <3>1, Zenon DEF Progress, VlanKinds
      <4>4. QED
        BY <2>2, <3>1, <4>1, <4>2, <4>3
           DEF EnableProgress, BounceProgress, FlushProgress, EnableCommands,
               BounceCommands, FlushCommands, Cmd
    <3>3. QED
      BY <3>2 DEF Accepts
  <2>3. QED
    BY <1>1, <2>1, <2>2 DEF AdapterInv, TypeOK, Request
<1>2. AdapterInv => CommandsAccepted
  BY <1>1 DEF CommandsAccepted
<1>3. QED
  BY AdapterInvariance, <1>2, PTL

\* A VLAN write whose commands are all carried out has made the port as asked.
LEMMA VlanWriteDone ==
  ASSUME AdapterInv, step # "idle", todo = {}, task.kind \in VlanKinds
  PROVE  /\ Seen(conf[task.port]) = [vlan |-> task.vlan, tagged |-> task.tagged,
                                     enabled |-> current.enabled]
         /\ conf[task.port].discard => task.tagged # {}
         /\ ~conf[task.port].discard =>
              conf[task.port].members \ {conf[task.port].untagged} = task.tagged
<1> DEFINE c == conf[task.port]
<1>1. /\ engine = "switch" => SwitchEngineProgress(c)
      /\ engine = "fabric" => FabricEngineProgress(c)
      /\ c.enabled = current.enabled
      /\ task \in Request /\ Asked(task) /\ current \in View /\ engine \in Engines
      /\ c \in Config /\ ConfigOK(c, vlans)
  BY WriteUnderWay
<1>2. /\ task.vlan \notin task.tagged /\ None \notin task.tagged
      /\ task.kind = "access" => task.vlan # None
      /\ task.kind \in {"access", "trunk"}
  BY <1>1, NoneIsNoVlan DEF Request, Asked, VlanKinds
<1>3. /\ Waiting(1, "remove") = {} /\ Waiting(3, "add") = {}
      /\ ~Untagging /\ ~Tagging /\ ~Defaulting /\ ~Deciding
  BY DEF Waiting, Untagging, Tagging, Defaulting, Deciding
<1>4. CASE engine = "switch"
  <2>1. c.members = Desired(task) /\ c.untagged = task.vlan /\ ~c.discard
    BY <1>1, <1>2, <1>3, <1>4 DEF SwitchEngineProgress, Desired, ConfigOK
  <2>2. QED
    BY <1>1, <1>2, <2>1 DEF Seen, Native, Desired
<1>5. CASE engine = "fabric"
  <2>1. /\ c.members = Desired(task) /\ c.discard = (task.vlan = None)
        /\ task.vlan # None => c.untagged = task.vlan
        /\ task.kind = "trunk" => Desired(task) # {}
    BY <1>1, <1>3, <1>5 DEF FabricEngineProgress
  <2>2. QED
    BY <1>1, <1>2, <2>1 DEF Seen, Native, Desired
<1>6. QED
  BY <1>1, <1>4, <1>5 DEF Engines

\* A write that is neither cut short nor contradicted by the role its port is
\* configured with is confirmed, whatever was left on the port before
\* (setAccessVlan, setTrunkVlans and setPortEnabled).
THEOREM RetryTheorem == Spec => []RetrySucceeds
<1>1. ASSUME AdapterInv, step = "check", RoleAllows(task)
      PROVE  Matches(task.port)
  <2> DEFINE c == conf[task.port]
  <2>1. /\ todo = {} /\ task.kind \in VlanKinds \cup {"enable"}
        /\ Progress(c) /\ task \in Request /\ task \in Requests /\ c \in Config
    BY <1>1 DEF AdapterInv, TypeOK, Request
  <2>2. CASE task.kind = "enable"
    <3>1. EnableProgress(c)
      BY <2>1, <2>2, Zenon DEF Progress, VlanKinds
    <3>2. Seen(c).enabled = task.enabled
      BY <1>1, <2>1, <3>1 DEF EnableProgress, AdapterInv, TypeOK, View
    <3>3. QED
      BY <2>2, <3>2, Zenon DEF Matches
  <2>3. ASSUME task.kind \in VlanKinds
        PROVE  /\ Seen(c).vlan = task.vlan /\ Seen(c).tagged = task.tagged
               /\ IsTrunk(task.port, c) <=> task.kind = "trunk"
    <3>1. /\ Seen(c) = [vlan |-> task.vlan, tagged |-> task.tagged,
                        enabled |-> current.enabled]
          /\ c.discard => task.tagged # {}
          /\ ~c.discard => c.members \ {c.untagged} = task.tagged
      BY <1>1, <2>1, <2>3, VlanWriteDone
    <3>2. task.kind = "trunk" <=> task.tagged # {} \/ PortRole[task.port] = "ap-trunk"
      BY <1>1, <2>3 DEF RoleAllows, Shows
    <3>3. QED
      BY <3>1, <3>2 DEF IsTrunk
  <2>4. CASE task.kind = "access"
    <3>1. Seen(c).vlan = task.vlan /\ ~IsTrunk(task.port, c)
      BY <2>3, <2>4 DEF VlanKinds
    <3>2. QED
      BY <2>4, <3>1, Zenon DEF Matches
  <2>5. CASE task.kind = "trunk"
    <3>1. Seen(c).vlan = task.vlan /\ Seen(c).tagged = task.tagged /\ IsTrunk(task.port, c)
      BY <2>3, <2>5 DEF VlanKinds
    <3>2. QED
      BY <2>5, <3>1, Zenon DEF Matches
  <2>6. QED
    BY <2>1, <2>2, <2>4, <2>5 DEF VlanKinds
<1>2. AdapterInv => RetrySucceeds
  BY <1>1 DEF RetrySucceeds
<1>3. QED
  BY AdapterInvariance, <1>2, PTL

(***************************************************************************)
(* The adapters implement SwitchPromise.                                   *)
(***************************************************************************)
\* The cases of the promise, one by one.
LEMMA PromiseOf ==
  ASSUME NEW v, NEW r
  PROVE  /\ r.kind = "access" => Promise!Target(v, r) = Promise!Access(v, r.vlan)
         /\ r.kind = "trunk" => Promise!Target(v, r) = Promise!Trunk(v, r.vlan, r.tagged)
         /\ r.kind = "enable" => Promise!Target(v, r) = [v EXCEPT !.enabled = r.enabled]
         /\ r.kind \in VlanKinds =>
              Promise!During(v, r) = Promise!Mixtures(v, Promise!Target(v, r))
         /\ r.kind = "enable" => Promise!During(v, r) = {v, Promise!Target(v, r)}
         /\ r.kind = "bounce" => Promise!During(v, r) = {v, [v EXCEPT !.enabled = FALSE]}
         /\ r.kind = "flush" => Promise!During(v, r) = {v}
BY Zenon DEF Promise!Target, Promise!During, VlanKinds, Promise!VlanKinds

LEMMA FulfilledOf ==
  ASSUME NEW v, NEW r
  PROVE  /\ r.kind \in VlanKinds =>
              Promise!Fulfilled(v, r) = (/\ v.vlan = r.vlan
                                         /\ v.tagged = Promise!Target(v, r).tagged
                                         /\ Promise!Shows(PortRole[r.port], v, r.kind))
         /\ r.kind = "enable" => Promise!Fulfilled(v, r) = (v.enabled = r.enabled)
         /\ r.kind \in {"bounce", "flush"} => Promise!Fulfilled(v, r) = TRUE
BY Zenon DEF Promise!Fulfilled, VlanKinds, Promise!VlanKinds

\* A VLAN write shows a mixture of the port as it was and as it shall be.
LEMMA VlanWriteShows ==
  ASSUME AdapterInv, step # "idle", task.kind \in VlanKinds
  PROVE  Seen(conf[task.port]) \in Promise!During(current, task)
<1> DEFINE c == conf[task.port]
           new == Promise!Target(current, task)
<1>1. /\ engine = "switch" => SwitchEngineProgress(c)
      /\ engine = "fabric" => FabricEngineProgress(c)
      /\ c.enabled = current.enabled
      /\ task \in Request /\ Asked(task) /\ current \in View /\ engine \in Engines
      /\ c \in Config /\ ConfigOK(c, vlans) /\ todo \subseteq Command
  BY WriteUnderWay DEF AdapterInv, TypeOK
<1>2. new.vlan = task.vlan /\ new.tagged = task.tagged
  <2>1. CASE task.kind = "access"
    <3>1. new = Promise!Access(current, task.vlan)
      BY <2>1, PromiseOf
    <3>2. QED
      BY <1>1, <2>1, <3>1 DEF Promise!Access, Asked, View
  <2>2. CASE task.kind = "trunk"
    <3>1. new = Promise!Trunk(current, task.vlan, task.tagged)
      BY <2>2, PromiseOf
    <3>2. QED
      BY <1>1, <3>1 DEF Promise!Trunk, View
  <2>3. QED
    BY <2>1, <2>2 DEF VlanKinds
<1>3. Waiting(1, "remove") \subseteq current.tagged \cup {current.vlan}
  <2>1. \A v \in Waiting(1, "remove") : v \in Left(current)
    BY <1>1 DEF SwitchEngineProgress, FabricEngineProgress, SwitchEnginePlan,
                FabricEnginePlan, Waiting, Each, Cmd, Engines
  <2>2. QED
    BY <2>1 DEF Left
<1>4. /\ Native(c) \in {None, current.vlan, task.vlan}
      /\ c.members \ {Native(c)} \subseteq current.tagged \cup task.tagged \cup {task.vlan}
  <2>1. CASE engine = "switch"
    <3>1. /\ c.members \subseteq Waiting(1, "remove") \cup {task.vlan} \cup task.tagged
          /\ c.untagged \in {None, current.vlan, task.vlan} /\ ~c.discard
          /\ current.vlan \in Waiting(1, "remove") => c.untagged = current.vlan
      BY <1>1, <2>1 DEF SwitchEngineProgress, ConfigOK
    <3>2. QED
      BY <1>3, <3>1 DEF Native
  <2>2. CASE engine = "fabric"
    <3>1. c.members \subseteq Waiting(1, "remove") \cup {task.vlan} \cup task.tagged
      BY <1>1, <2>2 DEF FabricEngineProgress, Desired
    <3>2. /\ c.discard = IF Deciding THEN current.vlan = None ELSE task.vlan = None
          /\ task.vlan # None /\ ~Defaulting => c.untagged = task.vlan
          /\ task.vlan = None \/ Defaulting => current.vlan \in {None, c.untagged}
          /\ ~Deciding => todo = {}
      BY <1>1, <2>2 DEF FabricEngineProgress
    <3>3. Native(c) \in {None, current.vlan, task.vlan}
      BY <3>2 DEF Native, Defaulting
    <3>4. current.vlan \in Waiting(1, "remove") => Native(c) = current.vlan
      <4> SUFFICES ASSUME current.vlan \in Waiting(1, "remove")
                   PROVE  Native(c) = current.vlan
        OBVIOUS
      <4>1. ~Past(4) /\ todo # {} /\ current.vlan # None
        BY NoneIsNoVlan DEF Waiting, Past, Cmd
      <4>2. task.vlan = None \/ Defaulting
        BY <1>1, <2>2, <4>1 DEF FabricEngineProgress
      <4>3. QED
        BY <3>2, <4>1, <4>2 DEF Native
    <3>5. QED
      BY <1>3, <3>1, <3>3, <3>4
  <2>3. QED
    BY <1>1, <2>1, <2>2 DEF Engines
<1>5. Seen(c) \in Promise!Mixtures(current, new)
  BY <1>1, <1>2, <1>4 DEF Promise!Mixtures, Promise!None, None, Seen
<1>6. QED
  BY <1>5, PromiseOf

\* What the port of a write shows at any moment.
Within == step # "idle" => Seen(conf[task.port]) \in Promise!During(current, task)

LEMMA WriteShows == AdapterInv => Within
<1> SUFFICES ASSUME AdapterInv, step # "idle"
             PROVE  Seen(conf[task.port]) \in Promise!During(current, task)
  BY DEF Within
<1> DEFINE c == conf[task.port]
<1>1. Progress(c) /\ task \in Request /\ current \in View
  BY DEF AdapterInv, TypeOK
<1>2. CASE task.kind \in VlanKinds
  BY <1>2, VlanWriteShows
<1>3. CASE task.kind = "enable"
  <2>1. EnableProgress(c)
    BY <1>1, <1>3, Zenon DEF Progress, VlanKinds
  <2>2. Seen(c) \in {current, [current EXCEPT !.enabled = task.enabled]}
    BY <1>1, <2>1 DEF EnableProgress, View
  <2>3. QED
    BY <1>3, <2>2, PromiseOf
<1>4. CASE task.kind = "bounce"
  <2>1. BounceProgress(c)
    BY <1>1, <1>4, Zenon DEF Progress, VlanKinds
  <2>2. Seen(c) \in {current, [current EXCEPT !.enabled = FALSE]}
    BY <1>1, <2>1 DEF BounceProgress, View
  <2>3. QED
    BY <1>4, <2>2, PromiseOf
<1>5. CASE task.kind = "flush"
  <2>1. FlushProgress(c)
    BY <1>1, <1>5, Zenon DEF Progress, VlanKinds
  <2>2. QED
    BY <1>5, <2>1, PromiseOf DEF FlushProgress
<1>6. QED
  BY <1>1, <1>2, <1>3, <1>4, <1>5 DEF Request

\* What the promise's variables stand for.
Views == [p \in Ports |-> Seen(conf[p])]

Kept == [p \in Ports |-> Seen(saved.conf[p])]

\* A step that neither changes nor answers is none of the promise's.
LEMMA PromiseStays ==
  ASSUME UNCHANGED <<conf, saved, task, current, answer>>
  PROVE  UNCHANGED Promise!vars
BY DEF Promise!vars

LEMMA PromiseBegins ==
  ASSUME AdapterInv, NEW r \in Requests, Begin(r)
  PROVE  Promise!Begin
<1>1. /\ r \in Request /\ r.port \in Ports
      /\ UNCHANGED <<engine, conf, vlans, saved>>
      /\ task' = r /\ current' = Seen(conf[r.port]) /\ answer' = "served"
  BY Begun
<1>2. answer # "served"
  BY DEF Begin, AdapterInv
<1>3. task' \in Promise!Task
  BY <1>1 DEF Request, Promise!Task, VlanKinds, Promise!VlanKinds, None, Promise!None
<1>4. current' = Views[task'.port]
  BY <1>1 DEF Views
<1>5. QED
  BY <1>1, <1>2, <1>3, <1>4 DEF Promise!Begin, Views

\* A command changes the port of the write, within what is promised.
LEMMA PromiseChanges ==
  ASSUME AdapterInv, Execute, Within'
  PROVE  Promise!Change
<1>1. PICK cmd \in Due : Carried(cmd)
  BY DEF Execute, Carried
<1>2. /\ task.port \in Ports /\ step # "idle" /\ step' # "idle"
      /\ conf' = [conf EXCEPT ![task.port] = Apply(conf[task.port], cmd)]
      /\ UNCHANGED <<saved, task, current, answer>> /\ conf \in [Ports -> Config]
  BY <1>1, CarriedOut DEF Carried, TypeOK
<1>3. answer = "served"
  BY <1>2 DEF AdapterInv
<1>4. Seen(conf'[task.port]) \in Promise!During(current, task)
  BY <1>2 DEF Within
<1>5. Views' = [Views EXCEPT ![task.port] = Seen(conf'[task.port])]
  BY <1>2 DEF Views
<1>6. QED
  BY <1>2, <1>3, <1>4, <1>5 DEF Promise!Change, Views

\* An answer "ok" without a readback: a bounce or a flush.
LEMMA PromiseUnread ==
  ASSUME AdapterInv, step # "idle", todo = {}, task.kind \in {"bounce", "flush"}
  PROVE  /\ answer = "served"
         /\ Views[task.port].enabled = current.enabled
         /\ Promise!Fulfilled(Views[task.port], task)
         /\ Promise!Fulfilled(Kept[task.port], task)
<1>1. /\ answer = "served" /\ Progress(conf[task.port]) /\ task.port \in Ports
      /\ current \in View
  BY DEF AdapterInv, TypeOK, Request
<1>2. Seen(conf[task.port]).enabled = current.enabled
  <2>1. CASE task.kind = "bounce"
    <3>1. BounceProgress(conf[task.port])
      BY <1>1, <2>1, Zenon DEF Progress, VlanKinds
    <3>2. QED
      BY <1>1, <3>1 DEF BounceProgress, View
  <2>2. CASE task.kind = "flush"
    <3>1. FlushProgress(conf[task.port])
      BY <1>1, <2>2, Zenon DEF Progress, VlanKinds
    <3>2. QED
      BY <3>1 DEF FlushProgress
  <2>3. QED
    BY <2>1, <2>2
<1>3. \A v : Promise!Fulfilled(v, task)
  BY FulfilledOf
<1>4. QED
  BY <1>1, <1>2, <1>3 DEF Views

\* All commands are sent.
LEMMA PromiseSent ==
  ASSUME AdapterInv, Sent
  PROVE  Promise!Confirm \/ UNCHANGED Promise!vars
<1>1. step = "send" /\ todo = {} /\ UNCHANGED <<conf, saved, task, current>>
  BY DEF Sent, switch
<1>2. CASE UNCHANGED answer
  BY <1>1, <1>2, PromiseStays
<1>3. CASE task.kind \in {"bounce", "flush"} /\ answer' = "ok"
  BY <1>1, <1>3, PromiseUnread DEF Promise!Confirm, Views, Kept
<1>4. QED
  BY <1>2, <1>3 DEF Sent, GoesOn, Ends

\* The running configuration is saved.
LEMMA PromiseKeeps ==
  ASSUME AdapterInv, Save
  PROVE  Promise!Keep
<1>1. /\ step = "save" /\ todo = {} /\ Saves /\ answer = "served"
      /\ UNCHANGED <<conf, task, current>> /\ saved'.conf = conf
  BY DEF Save, AdapterInv
<1>2. \/ UNCHANGED answer
      \/ task.kind = "bounce" /\ answer' = "ok"
  BY <1>1 DEF Save, GoesOn, Ends, Saves
<1>3. task.kind = "bounce" => Views[task.port].enabled
  BY <1>1, PromiseUnread DEF Saves
<1>4. Kept' = Views
  BY <1>1 DEF Kept, Views
<1>5. QED
  BY <1>1, <1>2, <1>3, <1>4 DEF Promise!Keep, Saves, Views, Kept

\* The readback.
LEMMA PromiseAnswers ==
  ASSUME AdapterInv, Check
  PROVE  Promise!Confirm \/ Promise!Reject
<1> DEFINE c == conf[task.port]
           v == Seen(c)
<1>1. /\ step = "check" /\ answer = "served" /\ UNCHANGED <<conf, saved, task, current>>
      /\ answer' = IF Matches(task.port) THEN "ok" ELSE "rejected"
      /\ task.kind \notin {"bounce", "flush"}
      /\ Saving => saved.conf = conf
      /\ task \in Request /\ task \in Requests /\ task.port \in Ports /\ c \in Config
      /\ v \in View /\ todo = {}
  BY SeenType DEF Check, Ends, switch, AdapterInv, TypeOK, Request
<1>2. CASE ~Matches(task.port)
  BY <1>1, <1>2 DEF Promise!Reject
<1>3. CASE Matches(task.port)
  <2>1. Promise!Fulfilled(v, task)
    <3>1. CASE task.kind = "enable"
      <4>1. v.enabled = task.enabled
        BY <1>3, <3>1, Zenon DEF Matches
      <4>2. QED
        BY <3>1, <4>1, FulfilledOf
    <3>2. CASE task.kind = "access"
      <4>1. ~IsTrunk(task.port, c) /\ v.vlan = task.vlan
        BY <1>3, <3>2, Zenon DEF Matches
      <4>2. v.tagged = {} /\ PortRole[task.port] # "ap-trunk"
        BY <4>1 DEF IsTrunk, Seen, Native
      <4>3. Promise!Target(v, task).tagged = {}
        <5>1. Promise!Target(v, task) = Promise!Access(v, task.vlan)
          BY <3>2, PromiseOf
        <5>2. QED
          BY <1>1, <5>1 DEF Promise!Access, View
      <4>4. Promise!Shows(PortRole[task.port], v, task.kind)
        BY <3>2, <4>2 DEF Promise!Shows
      <4>5. Promise!Fulfilled(v, task) =
              (/\ v.vlan = task.vlan
               /\ v.tagged = Promise!Target(v, task).tagged
               /\ Promise!Shows(PortRole[task.port], v, task.kind))
        BY <3>2, FulfilledOf DEF VlanKinds
      <4>6. QED
        BY <4>1, <4>2, <4>3, <4>4, <4>5
    <3>3. CASE task.kind = "trunk"
      <4>1. IsTrunk(task.port, c) /\ v.vlan = task.vlan /\ v.tagged = task.tagged
        BY <1>3, <3>3, Zenon DEF Matches
      <4>2. c.discard => task.tagged # {}
        BY <1>1, <3>3, VlanWriteDone DEF VlanKinds
      <4>3. v.tagged # {} \/ PortRole[task.port] = "ap-trunk"
        BY <4>1, <4>2 DEF IsTrunk, Seen, Native
      <4>4. Promise!Target(v, task).tagged = task.tagged
        <5>1. Promise!Target(v, task) = Promise!Trunk(v, task.vlan, task.tagged)
          BY <3>3, PromiseOf
        <5>2. QED
          BY <1>1, <5>1 DEF Promise!Trunk, View
      <4>5. Promise!Shows(PortRole[task.port], v, task.kind)
        BY <3>3, <4>3 DEF Promise!Shows
      <4>6. Promise!Fulfilled(v, task) =
              (/\ v.vlan = task.vlan
               /\ v.tagged = Promise!Target(v, task).tagged
               /\ Promise!Shows(PortRole[task.port], v, task.kind))
        BY <3>3, FulfilledOf DEF VlanKinds
      <4>7. QED
        BY <4>1, <4>4, <4>5, <4>6
    <3>4. QED
      BY <1>1, <3>1, <3>2, <3>3 DEF Request, VlanKinds
  <2>2. Views[task.port] = v /\ Saving => Kept[task.port] = v
    BY <1>1 DEF Views, Kept
  <2>3. QED
    BY <1>1, <1>3, <2>1, <2>2 DEF Promise!Confirm, Views, Kept
<1>4. QED
  BY <1>2, <1>3

\* A broken session and a power cycle.
LEMMA PromiseBreaks ==
  ASSUME AdapterInv, Break
  PROVE  Promise!Reject
BY DEF AdapterInv, Break, Ends, switch, Promise!Reject

LEMMA PromisePowerCycles ==
  ASSUME PowerCycle
  PROVE  Promise!PowerCycle
BY DEF PowerCycle, Ends, Promise!PowerCycle

\* Every step is one of the promise, or none.
LEMMA PromiseStep ==
  ASSUME AdapterInv, Within', [Next]_vars
  PROVE  [Promise!Next]_(Promise!vars)
<1>1. CASE \E r \in Requests : Begin(r)
  BY <1>1, PromiseBegins DEF Promise!Next
<1>2. CASE Execute
  BY <1>2, PromiseChanges DEF Promise!Next
<1>3. CASE Sent
  BY <1>3, PromiseSent DEF Promise!Next
<1>4. CASE Save
  BY <1>4, PromiseKeeps DEF Promise!Next
<1>5. CASE Check
  BY <1>5, PromiseAnswers DEF Promise!Next
<1>6. CASE Break
  BY <1>6, PromiseBreaks DEF Promise!Next
<1>7. CASE PowerCycle
  BY <1>7, PromisePowerCycles DEF Promise!Next
<1>8. CASE UNCHANGED vars
  BY <1>8, PromiseStays DEF vars, switch
<1>9. QED
  BY <1>1, <1>2, <1>3, <1>4, <1>5, <1>6, <1>7, <1>8 DEF Next

\* The start-up state of the promise.
LEMMA PromiseInit == Init => Promise!Init
<1> SUFFICES ASSUME Init PROVE Promise!Init
  OBVIOUS
<1>1. TypeOK /\ saved.conf = conf /\ answer = "none"
  BY InitAdapterInv DEF AdapterInv, Init
<1>2. \A p \in Ports : Seen(conf[p]) \in View
  BY <1>1, SeenType DEF TypeOK
<1>3. View = Promise!View /\ Request = Promise!Task
  BY DEF View, Promise!View, Request, Promise!Task, VlanKinds, Promise!VlanKinds,
         None, Promise!None
<1>4. QED
  BY <1>1, <1>2, <1>3 DEF Promise!Init, TypeOK

\* Both adapters do what SwitchPromise says, wherever a write is cut short: what
\* the operators' services assume of a switch is what its drivers give.
THEOREM PromiseTheorem == Spec => ImplementsSwitchPromise
<1>1. Spec => [](AdapterInv /\ Within)
  BY AdapterInvariance, WriteShows, PTL
<1>2. AdapterInv /\ Within' /\ [Next]_vars => [Promise!Next]_(Promise!vars)
  BY PromiseStep
<1>3. QED
  BY <1>1, <1>2, PromiseInit, PTL DEF Spec, ImplementsSwitchPromise, Promise!Spec
=============================================================================
