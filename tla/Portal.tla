------------------------------- MODULE Portal -------------------------------
(***************************************************************************)
(* CaptivePortalService: a client asks to join a team by its number.  The  *)
(* network is looked up first; then the client's lease and its port are    *)
(* looked for, one switch after the other.  Those answers come from the    *)
(* DHCP server and the forwarding tables, which this model leaves open: a  *)
(* client may be found on any port, or on none.  The waits in between read *)
(* nothing that other requests change, so they are one wait here.          *)
(***************************************************************************)
EXTENDS PortAssignment

ConnectStart(w, number) ==
  /\ Ready(w, "idle")
  /\ \E n \in live :
       /\ net[n].number = number
       /\ Become(w, [Idle EXCEPT !.pc = "connect.find", !.net = n])
  /\ UNCHANGED <<database, hardware>>

\* The client is on port p: assignToTeam, with the network looked up before.
ConnectFound(w) ==
  /\ Ready(w, "connect.find")
  /\ \E p \in Ports :
       \/ /\ job[w].net \in live
          /\ Become(w, [job[w] EXCEPT !.pc = "assign.read", !.port = p,
                                      !.flag = TRUE])
       \/ job[w].net \notin live /\ Finish(w)
  /\ UNCHANGED <<database, hardware>>

\* No lease, a stale one, no switch knows the client, or none answers.
ConnectLost(w) ==
  /\ Ready(w, "connect.find")
  /\ Finish(w)
  /\ UNCHANGED <<database, hardware>>
=============================================================================
