CONSTANTS
  i1 = i1
  i2 = i2
  port = port
  tag = tag
  Unset = Unset
  None = None
  Procs = {p1, p2}
  Ips <- MCIps
  Ports <- MCPorts
  Tags <- MCTags
  Configs <- MCConfigs
  Rejected <- MCRejected
  Commands = {"recreate", "unblock"}
  Faults = {"nft", "s6", "core", "crash", "api", "agent"}
  MaxRequests = 5
SPECIFICATION Spec
CHECK_DEADLOCK FALSE
INVARIANTS TypeOK Honest CoreBlocks
