--------------------------- MODULE MCFieldNetwork ---------------------------
(***************************************************************************)
(* Instances of FieldNetwork for TLC.  Port 1 rests as a client port, port *)
(* 2 as an AP trunk; larger layouts add a second client or a second trunk. *)
(***************************************************************************)
EXTENDS FieldInvariant, TLC

CONSTANTS w1, w2, s1, s2

MCSymmetry == Permutations(Workers)

\* One switch: a client port and the AP trunk.
OneSwitch == [p \in Ports |-> s1]
ClientTrunk == [p \in Ports |-> IF p = 1 THEN "client" ELSE "ap-trunk"]

\* Two clients, no trunk.
AllClients == [p \in Ports |-> "client"]

\* Ports the settings leave unused.
AllUnused == [p \in Ports |-> "unused"]

\* Two AP trunks on two switches.
TwoSwitches == [p \in Ports |-> IF p = 1 THEN s1 ELSE s2]
AllTrunks == [p \in Ports |-> "ap-trunk"]

\* The VH-113 layout: slots 1 to 3 are red1 to red3, 4 to 6 blue1 to blue3.
StationVlans ==
  [s \in Slots |-> {bank + 10 * ((s - 1) % 3) : bank \in {10, 40, 70}}]
RedStations == Slots \cap 1 .. 3
=============================================================================
