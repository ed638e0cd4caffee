CONSTANTS
  Builder = {b1, b2}
  Arch = {a1, a2}
  ServedArch = {a1}
  NoArch = NoArch
  Backends <- Both
  PortTries = 2
  CloudInitTries = 2
  SSHTries = 2
SPECIFICATION FairProvSpec
INVARIANTS ProvTypeOK KubernetesCleansUp ServersOnRecord
PROPERTIES ImplementsContract CallsEnd
CHECK_DEADLOCK FALSE
