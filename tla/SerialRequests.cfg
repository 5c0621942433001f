\* One request at a time, any write or read may be rejected: two client ports,
\* two AP slots, every kind of request.
SPECIFICATION Spec
CONSTANTS
  w1 = w1
  w2 = w2
  s1 = s1
  s2 = s2
  Ports = {1, 2}
  Switches = {s1}
  SwitchOf <- OneSwitch
  PortRole <- AllClients
  Slots = {1, 4}
  RedSlots <- RedStations
  SlotVlans <- StationVlans
  Pool = {10, 40}
  Onboarding = 99
  Management = 5
  Ids = {1, 2}
  Numbers = {1, 2}
  Workers = {w1}
  Faults = {"lost"}
  RadioFaults = {"lost"}
  Ops = {"assign", "return", "role", "enable", "bounce", "create", "remove", "refresh", "connect"}
  AskedRoles = {"client", "unused"}
INVARIANTS PortsIsolated UpMeansOnAir SerialInv
PROPERTIES ReturnResetsPort VlanFreedClean
