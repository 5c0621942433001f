---------------------------- MODULE SwitchAdapter ----------------------------
(***************************************************************************)
(* One write of the Extreme 5420 adapters, command by command: the write   *)
(* whose turn it is in the queue FieldState models.  engine says which     *)
(* adapter runs: "switch" is extreme5420.ts (Switch Engine, commands over  *)
(* JSON-RPC), "fabric" is extreme5420-voss.ts (Fabric Engine, over SSH).   *)
(*                                                                         *)
(* A write reads the port and the VLANs, sends commands, saves the running *)
(* configuration if it is told to, and reads the port back.  The session   *)
(* may break at any point, and the switch may lose power, which brings the *)
(* saved configuration back.  Only this adapter writes to the switch, and  *)
(* a read that fails ends the write before it changes anything.            *)
(***************************************************************************)
EXTENDS SwitchPort

CONSTANTS
  Ports,
  PortRole,   \* the roles the adapter was built with
  Vlans,      \* VLANs it is asked for
  Resting,    \* the VLAN every port starts in
  Saving,     \* saveConfiguration
  Requests    \* the writes the services ask for

ASSUME AdapterAssumption ==
  /\ PortRole \in [Ports -> Role]
  /\ Vlans \subseteq Nat \ {0}
  /\ Resting \in Vlans
  /\ Saving \in BOOLEAN
  /\ Ports # {}

\* The adapter the start-up builds, by FM_SWITCH_OS.
Engines == {"switch", "fabric"}

VlanKinds == {"access", "trunk"}

Request == [kind : VlanKinds \cup {"enable", "bounce", "flush"}, port : Ports,
            vlan : Vlans \cup {None}, tagged : SUBSET Vlans, enabled : BOOLEAN]

\* The parameters of setAccessVlan and setTrunkVlans, and their RangeErrors.
Asked(r) ==
  /\ r.kind = "access" => r.vlan # None /\ r.tagged = {}
  /\ r.kind = "trunk" => r.vlan \notin r.tagged

ASSUME RequestAssumption ==
  Requests \subseteq Request /\ \A r \in Requests : Asked(r)

VARIABLES
  engine,   \* the operating system of the switch
  conf,     \* running configuration of each port
  vlans,    \* the VLANs that exist
  saved,    \* what is loaded after a power cycle
  task,     \* the write served last
  current,  \* the port as it was read when the write began
  todo,     \* the commands still to be carried out
  step,     \* where the write is
  answer    \* how it ended, or "served"

switch == <<conf, vlans, saved>>
vars == <<engine, switch, task, current, todo, step, answer>>

\* untagged is where untagged frames go; discard drops them (Fabric Engine).
Config == [members : SUBSET Vlans, untagged : Vlans \cup {None},
           discard : BOOLEAN, enabled : BOOLEAN]

Command == [rank : 1 .. 5,
            op : {"remove", "create", "add", "untag", "tag", "default",
                  "accept", "discard", "enable", "disable", "clear"},
            vlans : SUBSET Vlans]

View == [vlan : Vlans \cup {None}, tagged : SUBSET Vlans, enabled : BOOLEAN]

(***************************************************************************)
(* parsePort.                                                              *)
(***************************************************************************)
\* Mistake: a VLAN is shown as native although untagged frames are discarded.
NativeAlways(c) == c.untagged

Native(c) == IF c.discard THEN None ELSE c.untagged

Seen(c) == [vlan    |-> Native(c),
            tagged  |-> c.members \ {Native(c)},
            enabled |-> c.enabled]

IsTrunk(p, c) ==
  c.members \ {c.untagged} # {} \/ c.discard \/ PortRole[p] = "ap-trunk"

(***************************************************************************)
(* The commands of a write.  Commands of one rank are independent; those   *)
(* of a lower rank are sent first.                                         *)
(***************************************************************************)
Cmd(rank, op, V) == [rank |-> rank, op |-> op, vlans |-> V]

Each(rank, op, V) == {Cmd(rank, op, {v}) : v \in V}

\* Mistakes: the native VLAN is not among those the port leaves, or is when
\* there is none.
TaggedOnly(v) == v.tagged

LeftBlindly(v) == v.tagged \cup {v.vlan}

Left(v) == (v.tagged \cup {v.vlan}) \ {None}

Desired(r) == (r.tagged \cup {r.vlan}) \ {None}

\* Mistake: a VLAN is created whether it exists or not.
ReplacementBlind(r, v) == Each(1, "remove", Left(v)) \cup Each(2, "create", Desired(r))

\* membershipReplacementCommands: leave every VLAN, create the missing ones.
Replacement(r, v) ==
  Each(1, "remove", Left(v)) \cup Each(2, "create", Desired(r) \ vlans)

SwitchEngineCommands(r, v) ==
  Replacement(r, v)
    \cup Each(3, "untag", {r.vlan} \ {None})
    \cup (IF r.tagged = {} THEN {} ELSE {Cmd(4, "tag", r.tagged)})

\* Left out: the encapsulation, tagged-frames-discard and untag-port-default-vlan
\* lines, which are always sent and never read back.
FabricEngineCommands(r, v) ==
  Replacement(r, v)
    \cup Each(3, "add", Desired(r))
    \cup Each(4, "default", {r.vlan} \ {None})
    \cup {Cmd(5, IF r.vlan = None THEN "discard" ELSE "accept", {})}

EnableCommands(r) == {Cmd(1, IF r.enabled THEN "enable" ELSE "disable", {})}

\* The delay of a bounce is between its two commands.
BounceCommands(v) ==
  {Cmd(1, "disable", {})} \cup (IF v.enabled THEN {Cmd(2, "enable", {})} ELSE {})

\* clearMacsOnPort.  What the port has learned is left out; Fabric Engine has a
\* command for each address, Switch Engine one for all.
FlushCommands == {Cmd(1, "clear", {})}

Commands(r, v) ==
  CASE r.kind = "enable" -> EnableCommands(r)
    [] r.kind = "bounce" -> BounceCommands(v)
    [] r.kind = "flush"  -> FlushCommands
    [] r.kind \in VlanKinds /\ engine = "switch" -> SwitchEngineCommands(r, v)
    [] r.kind \in VlanKinds /\ engine = "fabric" -> FabricEngineCommands(r, v)

(***************************************************************************)
(* The switch: what it accepts, and what a command does to a port.         *)
(***************************************************************************)
Accepts(p, c) ==
  /\ c.op = "create" => c.vlans \cap vlans = {}
  /\ c.op \in {"add", "untag", "tag", "default"} => c.vlans \subseteq vlans
  /\ engine = "switch" =>
       /\ c.op = "remove" => c.vlans \subseteq conf[p].members
       /\ c.op = "untag" => conf[p].untagged = None
       /\ c.op \in {"untag", "tag"} => c.vlans \cap conf[p].members = {}

\* The port loses its untagged VLAN with its membership on Switch Engine only.
Without(c, V) ==
  [c EXCEPT !.members = @ \ V,
            !.untagged = IF engine = "switch" /\ @ \in V THEN None ELSE @]

Apply(c, cmd) ==
  CASE cmd.op = "remove"             -> Without(c, cmd.vlans)
    [] cmd.op \in {"add", "tag"}     -> [c EXCEPT !.members = @ \cup cmd.vlans]
    [] cmd.op = "untag"              -> [c EXCEPT !.members = @ \cup cmd.vlans,
                                                  !.untagged = task.vlan]
    [] cmd.op = "default"            -> [c EXCEPT !.untagged = task.vlan]
    [] cmd.op \in {"accept", "discard"} -> [c EXCEPT !.discard = cmd.op = "discard"]
    [] cmd.op \in {"enable", "disable"} -> [c EXCEPT !.enabled = cmd.op = "enable"]
    [] cmd.op \in {"create", "clear"} -> c

(***************************************************************************)
(* The write.                                                              *)
(***************************************************************************)
Init ==
  /\ engine \in Engines
  /\ conf = [p \in Ports |-> [members |-> {Resting}, untagged |-> Resting,
                              discard |-> FALSE, enabled |-> TRUE]]
  /\ vlans = {Resting}
  /\ saved = [conf |-> conf, vlans |-> vlans]
  /\ task = [kind |-> "enable", port |-> CHOOSE p \in Ports : TRUE,
             vlan |-> None, tagged |-> {}, enabled |-> TRUE]
  /\ current = Seen(conf[task.port])
  /\ todo = {}
  /\ step = "idle"
  /\ answer = "none"

Begin(r) ==
  /\ step = "idle"
  /\ engine = "fabric" /\ r.kind = "trunk" => Desired(r) # {}
  /\ task' = r
  /\ current' = Seen(conf[r.port])
  /\ todo' = Commands(r, current')
  /\ step' = "send"
  /\ answer' = "served"
  /\ UNCHANGED <<engine, switch>>

Due == {c \in todo : \A d \in todo : c.rank <= d.rank}

Execute ==
  /\ step = "send"
  /\ \E c \in Due :
       /\ Accepts(task.port, c)
       /\ conf' = [conf EXCEPT ![task.port] = Apply(@, c)]
       /\ vlans' = IF c.op = "create" THEN vlans \cup c.vlans ELSE vlans
       /\ todo' = todo \ {c}
  /\ UNCHANGED <<engine, saved, task, current, step, answer>>

Ends(a) == step' = "idle" /\ todo' = {} /\ answer' = a

\* A bounce and a flush read nothing back.
GoesOn ==
  \/ task.kind \notin {"bounce", "flush"} /\ step' = "check" /\ UNCHANGED <<todo, answer>>
  \/ task.kind \in {"bounce", "flush"} /\ Ends("ok")

\* Mistake: a bounce saves whatever it has done.
SavesAlways == Saving

\* A bounce saves with the enabling, not with the disabling; a flush never.
Saves ==
  /\ Saving
  /\ task.kind # "flush"
  /\ task.kind = "bounce" => current.enabled

Sent ==
  /\ step = "send" /\ todo = {}
  /\ \/ Saves /\ step' = "save" /\ UNCHANGED <<todo, answer>>
     \/ ~Saves /\ GoesOn
  /\ UNCHANGED <<engine, switch, task, current>>

Save ==
  /\ step = "save"
  /\ saved' = [conf |-> conf, vlans |-> vlans]
  /\ GoesOn
  /\ UNCHANGED <<engine, conf, vlans, task, current>>

\* The comparison that ends setAccessVlan, setTrunkVlans and setPortEnabled.
Matches(p) ==
  LET v == Seen(conf[p])
  IN  CASE task.kind = "enable" -> v.enabled = task.enabled
        [] task.kind = "access" -> ~IsTrunk(p, conf[p]) /\ v.vlan = task.vlan
        [] task.kind = "trunk"  -> /\ IsTrunk(p, conf[p])
                                   /\ v.vlan = task.vlan
                                   /\ v.tagged = task.tagged

Check ==
  /\ step = "check"
  /\ Ends(IF Matches(task.port) THEN "ok" ELSE "rejected")
  /\ UNCHANGED <<engine, switch, task, current>>

\* Unreachable, timed out, or refused: before or after any command or save.
Break ==
  /\ step # "idle"
  /\ Ends("rejected")
  /\ UNCHANGED <<engine, switch, task, current>>

\* The switch takes longer to start than any call waits for it.
PowerCycle ==
  /\ conf' = saved.conf
  /\ vlans' = saved.vlans
  /\ Ends(IF answer = "served" THEN "rejected" ELSE answer)
  /\ UNCHANGED <<engine, saved, task, current>>

Next ==
  \/ \E r \in Requests : Begin(r)
  \/ Execute \/ Sent \/ Save \/ Check \/ Break \/ PowerCycle

Spec == Init /\ [][Next]_vars

-----------------------------------------------------------------------------
TypeOK ==
  /\ engine \in Engines
  /\ conf \in [Ports -> Config]
  /\ vlans \subseteq Vlans
  /\ saved \in [conf : [Ports -> Config], vlans : SUBSET Vlans]
  /\ task \in Request
  /\ current \in View
  /\ todo \subseteq Command
  /\ step \in {"idle", "send", "save", "check"}
  /\ answer \in {"none", "served", "ok", "rejected"}

\* Whatever is cut short, and wherever: see SwitchPromise.
Promise == INSTANCE SwitchPromise
             WITH view <- [p \in Ports |-> Seen(conf[p])],
                  kept <- [p \in Ports |-> Seen(saved.conf[p])],
                  base <- current

ImplementsSwitchPromise == Promise!Spec

\* The configured role lets the readback be as asked (FieldState, Confirmable).
RoleAllows(r) ==
  r.kind \in VlanKinds =>
    Shows(PortRole[r.port], [vlan |-> r.vlan, tagged |-> r.tagged], r.kind)

\* A write that is carried out to its readback is confirmed, whatever earlier
\* writes cut short, by a broken session or a power cycle, left on the port;
\* so trying again repairs it.  Only a role that contradicts it forbids this.
RetrySucceeds == step = "check" /\ RoleAllows(task) => Matches(task.port)

\* The switch refuses no command of a write: none joins a VLAN that does not
\* exist, leaves one the port is not in, or takes the untagged place twice,
\* although the list is made up before the first command is sent.
CommandsAccepted == step = "send" => \A c \in Due : Accepts(task.port, c)

-----------------------------------------------------------------------------
(***************************************************************************)
(* The inductive invariant: what the commands not sent yet say of the port *)
(* the write is about, which it holds from the first command to the last.  *)
(***************************************************************************)
\* What a command sequence cut short anywhere leaves in a port, next to which
\* VLANs: Switch Engine has no port that discards, Fabric Engine none without
\* a default VLAN, and no port is in a VLAN that does not exist.
ConfigOK(c, V) ==
  /\ c.members \subseteq V
  /\ engine = "switch" => ~c.discard /\ c.untagged \in c.members \cup {None}
  /\ engine = "fabric" => c.untagged # None

Waiting(rank, op) == {v \in Vlans : Cmd(rank, op, {v}) \in todo}

Past(rank) == \A c \in todo : c.rank >= rank

Untagging == Cmd(3, "untag", {task.vlan}) \in todo

Tagging == Cmd(4, "tag", task.tagged) \in todo

\* What may be left of the commands, whichever VLANs existed.
SwitchEnginePlan ==
  Each(1, "remove", Left(current)) \cup Each(2, "create", Desired(task))
    \cup Each(3, "untag", {task.vlan} \ {None})
    \cup (IF task.tagged = {} THEN {} ELSE {Cmd(4, "tag", task.tagged)})

SwitchEngineProgress(c) ==
  /\ todo \subseteq SwitchEnginePlan
  /\ task.vlan # None /\ ~Untagging => Past(3)
  /\ task.tagged # {} /\ ~Tagging => Past(4)
  /\ c.members = Waiting(1, "remove")
                   \cup (IF Untagging THEN {} ELSE {task.vlan} \ {None})
                   \cup (IF Tagging THEN {} ELSE task.tagged)
  /\ c.untagged = IF current.vlan \in Waiting(1, "remove") THEN current.vlan
                  ELSE IF Untagging THEN None ELSE task.vlan

Defaulting == Cmd(4, "default", {task.vlan}) \in todo

Deciding == Cmd(5, IF task.vlan = None THEN "discard" ELSE "accept", {}) \in todo

FabricEnginePlan ==
  Each(1, "remove", Left(current)) \cup Each(2, "create", Desired(task))
    \cup Each(3, "add", Desired(task))
    \cup Each(4, "default", {task.vlan} \ {None})
    \cup {Cmd(5, IF task.vlan = None THEN "discard" ELSE "accept", {})}

FabricEngineProgress(c) ==
  /\ todo \subseteq FabricEnginePlan
  /\ Desired(task) \subseteq Waiting(3, "add") \/ Past(3)
  /\ task.vlan # None /\ ~Defaulting => Past(4) /\ c.untagged = task.vlan
  /\ task.vlan = None \/ Defaulting => current.vlan \in {None, c.untagged}
  /\ ~Deciding => todo = {}
  /\ c.discard = IF Deciding THEN current.vlan = None ELSE task.vlan = None
  /\ Desired(task) \ Waiting(3, "add") \subseteq c.members
  /\ c.members \subseteq Waiting(1, "remove") \cup (Desired(task) \ Waiting(3, "add"))
  /\ task.kind = "trunk" => Desired(task) # {}

VlanProgress(c) ==
  /\ engine = "switch" => SwitchEngineProgress(c)
  /\ engine = "fabric" => FabricEngineProgress(c)
  /\ Waiting(2, "create") = Desired(task) \ vlans
  /\ c.enabled = current.enabled

EnableProgress(c) ==
  /\ todo \subseteq EnableCommands(task)
  /\ Seen(c) = [current EXCEPT !.enabled = IF todo = {} THEN task.enabled ELSE @]

BounceProgress(c) ==
  /\ todo \subseteq BounceCommands(current)
  /\ current.enabled /\ Cmd(2, "enable", {}) \notin todo => todo = {}
  /\ Seen(c) = [current EXCEPT !.enabled = @ /\ (todo = {} \/ Cmd(1, "disable", {}) \in todo)]

FlushProgress(c) == todo \subseteq FlushCommands /\ Seen(c) = current

Progress(c) ==
  CASE task.kind \in VlanKinds -> VlanProgress(c)
    [] task.kind = "enable"    -> EnableProgress(c)
    [] task.kind = "bounce"    -> BounceProgress(c)
    [] task.kind = "flush"     -> FlushProgress(c)

\* What every step preserves: a port never holds what its engine cannot hold,
\* the port of a write is where its remaining commands expect it, and a write
\* that reads back has saved what it did, if it saves.
AdapterInv ==
  /\ TypeOK
  /\ \A p \in Ports : ConfigOK(conf[p], vlans) /\ ConfigOK(saved.conf[p], saved.vlans)
  /\ answer = "served" <=> step # "idle"
  /\ step # "idle" => task \in Requests /\ Progress(conf[task.port])
  /\ step # "send" => todo = {}
  /\ step = "save" => Saves
  /\ step = "check" =>
       /\ task.kind \notin {"bounce", "flush"}
       /\ Saving => saved.conf = conf
=============================================================================
