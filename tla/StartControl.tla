---------------------------- MODULE StartControl ----------------------------
(***************************************************************************)
(* What XrayService.startXray promises the panel, whatever else the node   *)
(* handles and whatever fails: starts take turns.  One that finds another  *)
(* at it is refused.  One that is admitted leaves the core alone, if the   *)
(* configuration it last replaced has the same base, or replaces the       *)
(* configuration, and reports success only if the core that came up, and   *)
(* has not died since, runs what this start was asked for.                 *)
(***************************************************************************)
CONSTANTS Procs, Bases, Configs, None

Down == [core |-> "down"]
Boot == [core |-> "boot"]
\* What the core runs, apart from its users.
Image(c) == [core |-> "up", base |-> c.base, tags |-> c.tags]

VARIABLES
  call,     \* what has become of each request to start, and what it asks for
  config,   \* the configuration a core that boots will fetch
  running   \* the core

vars == <<call, config, running>>

NoCall == [state |-> "none", cfg |-> None]
Turn == {"admitted", "replaced"}
Busy == \E q \in Procs : call[q].state \in Turn

Init ==
  /\ call = [p \in Procs |-> NoCall] /\ config = None /\ running = Down

Becomes(p, state) == call' = [call EXCEPT ![p].state = state]

Ask(p) ==
  /\ call[p] = NoCall
  /\ call'[p].state = "asked"  \* spares the choice of c in most steps
  /\ \E c \in Configs :
       call' = [call EXCEPT ![p] = [state |-> "asked", cfg |-> c]]
  /\ UNCHANGED <<config, running>>

Refuse(p) ==
  /\ call[p].state = "asked" /\ Busy
  /\ Becomes(p, "busy")
  /\ UNCHANGED <<config, running>>

Admit(p) ==
  /\ call[p].state = "asked" /\ ~Busy
  /\ Becomes(p, "admitted")
  /\ UNCHANGED <<config, running>>

Replace(p) ==
  /\ call[p].state = "admitted" \/ (call[p].state = "asked" /\ ~Busy)
  /\ Becomes(p, "replaced") /\ config' = call[p].cfg
  /\ UNCHANGED running

Skip(p) ==
  /\ call[p].state = "admitted"
  /\ config # None /\ config.base = call[p].cfg.base
  /\ Becomes(p, "uptodate")
  /\ UNCHANGED <<config, running>>

Succeed(p) ==
  /\ call[p].state = "replaced" /\ running \in {Down, Image(call[p].cfg)}
  /\ Becomes(p, "started")
  /\ UNCHANGED <<config, running>>

Fail(p) ==
  /\ call[p].state = "replaced"
  /\ Becomes(p, "fail")
  /\ running' \in {running, Down, Boot}
  /\ UNCHANGED config

Forget(p) ==
  /\ call[p].state \notin {"asked"} \cup Turn
  /\ call' = [call EXCEPT ![p] = NoCall]
  /\ UNCHANGED <<config, running>>

\* Only a start that has its turn lets a core boot.
Spawn ==
  /\ \E p \in Procs : call[p].state = "replaced"
  /\ running' = Boot
  /\ UNCHANGED <<call, config>>

Fetch ==
  /\ running = Boot /\ config # None
  /\ running' = Image(config)
  /\ UNCHANGED <<call, config>>

Die ==
  /\ running' = Down
  /\ UNCHANGED <<call, config>>

\* stopXray
Clear ==
  /\ config' = None
  /\ UNCHANGED <<call, running>>

Next ==
  \/ \E p \in Procs : \/ Ask(p) \/ Refuse(p) \/ Admit(p) \/ Replace(p) \/ Skip(p)
                      \/ Succeed(p) \/ Fail(p) \/ Forget(p)
  \/ Spawn \/ Fetch \/ Die \/ Clear

Spec == Init /\ [][Next]_vars
=============================================================================
