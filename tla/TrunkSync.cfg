\* Creates and removes overlap over two AP trunks on two switches.  Ids run out,
\* so a behaviour may end.
SPECIFICATION Spec
CONSTANTS
  w1 = w1
  w2 = w2
  s1 = s1
  s2 = s2
  Ports = {1, 2}
  Switches = {s1, s2}
  SwitchOf <- TwoSwitches
  PortRole <- AllTrunks
  Slots = {1, 4}
  RedSlots <- RedStations
  SlotVlans <- StationVlans
  Pool = {10, 40}
  Onboarding = 99
  Management = 5
  Ids = {1, 2, 3}
  Numbers = {1, 2}
  Workers = {w1, w2}
  Faults = {}
  RadioFaults = {}
  Ops = {"create", "remove"}
  AskedRoles = {"client", "ap-trunk", "management"}
SYMMETRY MCSymmetry
INVARIANTS TrunksCarryTeams UpMeansTrunked TrunkInv ReachInv
CHECK_DEADLOCK FALSE
