\* Two requests at a time under fairness, any write or read may be rejected: a
\* client port and two AP trunks on two switches, one network.
SPECIFICATION FairSpec
CONSTANTS
  w1 = w1
  w2 = w2
  s1 = s1
  s2 = s2
  Ports = {1, 2, 3}
  Switches = {s1, s2}
  SwitchOf <- TwoSwitches
  PortRole <- ClientTrunk
  Slots = {1}
  RedSlots <- RedStations
  SlotVlans <- StationVlans
  Pool = {10, 40}
  Onboarding = 99
  Management = 5
  Ids = {1}
  Numbers = {1}
  Workers = {w1, w2}
  Faults = {"lost"}
  RadioFaults = {"lost", "late"}
  Ops = {"assign", "return", "create", "remove", "refresh"}
  AskedRoles = {}
INVARIANTS NobodyStuck
PROPERTIES RequestsFinish RemovalSettles RequestsAdvance
