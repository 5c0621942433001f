\* Two requests at a time over one AP trunk and two AP slots, one of either
\* alliance: every read and write may fail, a failed write may have taken
\* effect or take effect later, and the server may crash.
SPECIFICATION Spec
CONSTANTS
  w1 = w1
  w2 = w2
  s1 = s1
  s2 = s2
  Ports = {1}
  Switches = {s1}
  SwitchOf <- OneSwitch
  PortRole <- AllTrunks
  Slots = {1, 4}
  RedSlots <- RedStations
  SlotVlans <- StationVlans
  Pool = {10, 40}
  Onboarding = 99
  Management = 5
  Ids = {1, 2}
  Numbers = {1, 2}
  Workers = {w1, w2}
  Faults = {"lost", "late", "torn"}
  RadioFaults = {"lost", "late"}
  Ops = {"create", "remove", "crash"}
  AskedRoles = {"client", "ap-trunk", "management"}
SYMMETRY MCSymmetry
INVARIANTS RadioHasNetwork KeysKept
PROPERTIES ImplementsNetworkLease OthersStayOnAir
