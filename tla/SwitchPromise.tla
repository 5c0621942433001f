---------------------------- MODULE SwitchPromise ----------------------------
(***************************************************************************)
(* What a switch adapter promises about the write it serves, without its   *)
(* commands: only the port it is about changes; a VLAN write shows at any  *)
(* moment a mixture of the port as it was and as it shall be; an answer    *)
(* "ok" means that the port is as asked and, if the adapter saves, stays   *)
(* so over a power cycle; a bounce never saves the port disabled, and a    *)
(* flush of learned addresses neither changes the port nor saves.          *)
(* FieldState builds on this: a rejected write leaves some such mixture.   *)
(***************************************************************************)
EXTENDS SwitchPort

CONSTANTS Ports, PortRole, Vlans, Saving

VARIABLES
  view,     \* what each port shows
  kept,     \* what it would show after a power cycle
  task,     \* the write served last
  base,     \* what its port showed when it was its turn
  answer    \* how it ended, or "served"

vars == <<view, kept, task, base, answer>>

VlanKinds == {"access", "trunk"}

View == [vlan : Vlans \cup {None}, tagged : SUBSET Vlans, enabled : BOOLEAN]

Task == [kind : VlanKinds \cup {"enable", "bounce", "flush"}, port : Ports,
         vlan : Vlans \cup {None}, tagged : SUBSET Vlans, enabled : BOOLEAN]

\* The port as task r wants it, when it was v before.
Target(v, r) ==
  CASE r.kind = "access" -> Access(v, r.vlan)
    [] r.kind = "trunk"  -> Trunk(v, r.vlan, r.tagged)
    [] r.kind = "enable" -> [v EXCEPT !.enabled = r.enabled]
    [] r.kind \in {"bounce", "flush"} -> v

\* What the port may show while r is served.
During(v, r) ==
  CASE r.kind \in VlanKinds -> Mixtures(v, Target(v, r))
    [] r.kind = "enable"    -> {v, Target(v, r)}
    [] r.kind = "bounce"    -> {v, [v EXCEPT !.enabled = FALSE]}
    [] r.kind = "flush"     -> {v}

\* The readback is as asked.
Fulfilled(v, r) ==
  CASE r.kind \in VlanKinds ->
         /\ v.vlan = r.vlan
         /\ v.tagged = Target(v, r).tagged
         /\ Shows(PortRole[r.port], v, r.kind)
    [] r.kind = "enable" -> v.enabled = r.enabled
    [] r.kind \in {"bounce", "flush"} -> TRUE

Init ==
  /\ view \in [Ports -> View]
  /\ kept = view
  /\ task \in Task
  /\ base \in View
  /\ answer = "none"

Begin ==
  /\ answer # "served"
  /\ task' \in Task
  /\ base' = view[task'.port]
  /\ answer' = "served"
  /\ UNCHANGED <<view, kept>>

Change ==
  /\ answer = "served"
  /\ \E v \in During(base, task) : view' = [view EXCEPT ![task.port] = v]
  /\ UNCHANGED <<kept, task, base, answer>>

\* Saving stores the whole configuration, what earlier writes left included.
Keep ==
  /\ answer = "served" /\ Saving
  /\ task.kind # "flush"
  /\ task.kind = "bounce" => view[task.port].enabled
  /\ kept' = view
  /\ \/ UNCHANGED answer
     \/ task.kind = "bounce" /\ answer' = "ok"
  /\ UNCHANGED <<view, task, base>>

Confirm ==
  /\ answer = "served"
  /\ Fulfilled(view[task.port], task)
  /\ task.kind = "bounce" => view[task.port].enabled = base.enabled
  /\ Saving => Fulfilled(kept[task.port], task)
  /\ answer' = "ok"
  /\ UNCHANGED <<view, kept, task, base>>

Reject ==
  /\ answer = "served"
  /\ answer' = "rejected"
  /\ UNCHANGED <<view, kept, task, base>>

PowerCycle ==
  /\ view' = kept
  /\ answer' = IF answer = "served" THEN "rejected" ELSE answer
  /\ UNCHANGED <<kept, task, base>>

Next == Begin \/ Change \/ Keep \/ Confirm \/ Reject \/ PowerCycle

Spec == Init /\ [][Next]_vars
=============================================================================
