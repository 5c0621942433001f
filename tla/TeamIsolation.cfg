\* An assign overlaps with the removal of its network, whose VLAN is reused.
SPECIFICATION Spec
CONSTANTS
  w1 = w1
  w2 = w2
  s1 = s1
  s2 = s2
  Ports = {1}
  Switches = {s1}
  SwitchOf <- OneSwitch
  PortRole <- ClientTrunk
  Slots = {1}
  RedSlots <- RedStations
  SlotVlans <- StationVlans
  Pool = {10, 40}
  Onboarding = 99
  Management = 5
  Ids = {1, 2}
  Numbers = {1}
  Workers = {w1, w2}
  Faults = {}
  RadioFaults = {}
  Ops = {"assign", "create", "remove"}
  AskedRoles = {"client", "ap-trunk", "management"}
SYMMETRY MCSymmetry
INVARIANTS TeamsIsolated
CHECK_DEADLOCK FALSE
