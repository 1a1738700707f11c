---------------------------- MODULE MCPluginSync ----------------------------
(* Values of the configurations of plugins for TLC.                        *)
EXTENDS PluginSync
CONSTANTS i1, i2, port, tag

Blocking == [ingress |-> {i1}, egress |-> {}, ports |-> {}, blocker |-> TRUE, tags |-> Unset]
Tagged == [ingress |-> {i1, i2}, egress |-> {i1}, ports |-> {port}, blocker |-> TRUE, tags |-> {tag}]
Filtering == [ingress |-> {i2}, egress |-> {i2}, ports |-> {}, blocker |-> FALSE, tags |-> Unset]
Unblocking == [ingress |-> {}, egress |-> {}, ports |-> {port}, blocker |-> FALSE, tags |-> {}]

MCIps == {i1, i2}
MCPorts == {port}
MCTags == {tag}
Refused == [Unblocking EXCEPT !.tags = {tag}]

MCConfigs == {Blocking, Tagged, Filtering, Unblocking, Refused}
MCRejected == {Refused}
=============================================================================
