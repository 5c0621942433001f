------------------------------- MODULE Health -------------------------------
(***************************************************************************)
(* NetworkHealthService.inspect: the report that compares what the         *)
(* database wants with what the devices do.  It changes nothing, so it is  *)
(* a predicate of the state: the report of an inspection no request        *)
(* overlaps with.                                                          *)
(***************************************************************************)
EXTENDS FieldState

\* Mistake: any VLAN of a team will do.
DriftsLoosely(p) ==
  CASE role[p] \in {"client", "unused"} ->
         \/ ~InMode(p, "access")
         \/ sw[p].vlan \notin AllocatedVlans(live) \cup {Onboarding}
    [] role[p] = "ap-trunk" ->
         \/ ~InMode(p, "trunk")
         \/ sw[p].vlan # Management
         \/ sw[p].tagged # AllocatedVlans(live)
    [] OTHER -> FALSE

\* switch-port-drift.  Management and server ports are not compared.
PortDrifts(p) ==
  CASE role[p] \in {"client", "unused"} ->
         \/ ~InMode(p, "access")
         \/ sw[p].vlan # IF owner[p] \in live THEN net[owner[p]].vlan ELSE Onboarding
    [] role[p] = "ap-trunk" ->
         \/ ~InMode(p, "trunk")
         \/ sw[p].vlan # Management
         \/ sw[p].tagged # AllocatedVlans(live)
    [] OTHER -> FALSE

\* access-point-drift: the station is not up with the team and its VLAN.
RadioDrifts(n) ==
  LET m == ap[net[n].slot]
  IN  m = None \/ net[m].number # net[n].number \/ net[m].vlan # net[n].vlan

\* No issue, when every device answers.
Healthy == (\A p \in Ports : ~PortDrifts(p)) /\ \A n \in live : ~RadioDrifts(n)
=============================================================================
