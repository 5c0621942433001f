----------------------------- MODULE SwitchPort -----------------------------
(***************************************************************************)
(* A switch port as the adapters show it (SwitchPort of packages/core),    *)
(* and the VLAN writes asked of them.  A port shows a VLAN, which is the   *)
(* access VLAN of an access port and the native VLAN of a trunk, and the   *)
(* tagged VLANs.  Whether it counts as a trunk follows from the tagged     *)
(* VLANs and the role the adapter was built with, not from what was asked. *)
(***************************************************************************)
EXTENDS Integers

None == 0                           \* SQL NULL, no port, no slot, no VLAN

\* PortRole of packages/core.
Role == {"client", "ap-trunk", "management", "server", "unused"}

\* parsePort: port is shown in this mode, if the adapter knows it in role r.
Shows(r, port, mode) ==
  mode = "trunk" <=> port.tagged # {} \/ r = "ap-trunk"

Access(port, v) == [port EXCEPT !.vlan = v, !.tagged = {}]

Trunk(port, native, V) == [port EXCEPT !.vlan = native, !.tagged = V]

\* What a VLAN write that leads from old to new shows of the port if it is cut
\* short: the port leaves its VLANs and joins the new ones command by command.
Mixtures(old, new) ==
  [vlan    : {None, old.vlan, new.vlan},
   tagged  : SUBSET (old.tagged \cup new.tagged \cup {new.vlan}),
   enabled : {old.enabled}]
=============================================================================
