\* Both engines, two ports, three VLANs; the configuration is saved.
SPECIFICATION Spec
CONSTANTS
  Ports = {1, 2}
  PortRole <- ClientTrunk
  Vlans = {5, 10, 20}
  Resting = 5
  Saving = TRUE
  Requests <- MCRequests
INVARIANTS TypeOK RetrySucceeds CommandsAccepted AdapterInv
PROPERTIES ImplementsSwitchPromise
