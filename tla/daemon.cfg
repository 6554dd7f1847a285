CONSTANTS
  Pids = {p1, p2, p3}
  Files = {f1, f2}
  Configs <- AllConfigs
SYMMETRY Symmetry
SPECIFICATION Spec
INVARIANT TypeOK
INVARIANT OneUnaskedDaemon
INVARIANT PidFileNamesItsDaemon
INVARIANT StopStops
INVARIANT SettingsAsConfigured
INVARIANT IInv
