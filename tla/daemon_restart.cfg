CONSTANTS
  Pids = {p1, p2}
  Files = {f1, f2}
  Configs <- OneConfig
SPECIFICATION Spec
INVARIANT OneDaemon
