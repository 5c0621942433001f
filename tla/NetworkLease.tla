---------------------------- MODULE NetworkLease ----------------------------
(***************************************************************************)
(* What the field promises about team networks, without any of the         *)
(* machinery: a network holds a team number, a team VLAN and an AP slot    *)
(* exclusively from the moment it is granted until it is released, an id   *)
(* is granted once, and a slot broadcasts only for the network holding it. *)
(***************************************************************************)
EXTENDS Integers

CONSTANTS Ids, Slots, TeamVlans, None

VARIABLES
  used,    \* ids granted so far
  live,    \* ids that hold their network now
  net,     \* what each id holds, or held
  air      \* the network each slot broadcasts

vars == <<used, live, net, air>>

Exclusive(n, lease) ==
  \A m \in live \ {n} : /\ lease.number # net[m].number
                        /\ lease.vlan # net[m].vlan
                        /\ lease.slot # net[m].slot

Init == used = {} /\ live = {} /\ air = [s \in Slots |-> None]

Waste(n) ==
  /\ n \notin used
  /\ used' = used \cup {n}
  /\ UNCHANGED <<live, net, air>>

Grant(n) ==
  /\ n \notin used
  /\ used' = used \cup {n}
  /\ live' = live \cup {n}
  /\ \A m \in Ids \ {n} : net'[m] = net[m]
  /\ net'[n].vlan \in TeamVlans
  /\ net'[n].slot \in Slots
  /\ Exclusive(n, net'[n])
  /\ UNCHANGED air

\* Any number of slots may come on, go off or change at once.
Broadcast ==
  /\ air' \in [Slots -> Ids \cup {None}]
  /\ \A s \in Slots : air'[s] # None => air'[s] \in live /\ net[air'[s]].slot = s
  /\ UNCHANGED <<used, live, net>>

Release(n) ==
  /\ n \in live
  /\ \A s \in Slots : air[s] # n
  /\ live' = live \ {n}
  /\ UNCHANGED <<used, net, air>>

Next == Broadcast \/ \E n \in Ids : Waste(n) \/ Grant(n) \/ Release(n)

Spec == Init /\ [][Next]_vars
=============================================================================
