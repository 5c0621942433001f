--------------------------- MODULE MCSwitchAdapter ---------------------------
(***************************************************************************)
(* An instance of SwitchAdapter for TLC: port 1 is configured as a client, *)
(* port 2 as an AP trunk.  Port 1 is asked for an access VLAN, for a trunk *)
(* with and without a native VLAN, and for a trunk without a tagged VLAN,  *)
(* which contradicts its role, as the access write on port 2 does.  Port 2 *)
(* is disabled by a bounce that is cut short.  Port 1 is flushed.          *)
(***************************************************************************)
EXTENDS SwitchAdapter

ClientTrunk == [p \in Ports |-> IF p = 1 THEN "client" ELSE "ap-trunk"]

Write(kind, p, v, T) ==
  [kind |-> kind, port |-> p, vlan |-> v, tagged |-> T, enabled |-> TRUE]

MCRequests ==
  {Write("access", 1, 10, {}), Write("trunk", 1, 5, {10, 20}),
   Write("trunk", 1, None, {20}), Write("trunk", 1, 5, {}),
   Write("access", 2, 5, {}), Write("bounce", 2, None, {}),
   Write("enable", 2, None, {}), Write("flush", 1, None, {})}
=============================================================================
