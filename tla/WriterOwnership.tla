--------------------------- MODULE WriterOwnership ---------------------------
(***************************************************************************)
(* Who may write one board: the lifetime writer lease, the launch gate,    *)
(* the launch ticket and the service descriptor (service_ownership.py), as *)
(* board services (api_endpoint.py), workspace gateways (workspace.py) and *)
(* offline maintenance (board_state.py) use them.                          *)
(*                                                                         *)
(* Lease and gate are operating-system locks: the death of their holder    *)
(* frees them.  The ticket and the descriptor are files: they stay.  A     *)
(* ticket's random token is known to one child, so it is that child.       *)
(***************************************************************************)
EXTENDS FiniteSets, Integers

CONSTANTS
  Server,      \* board service processes, each started at most once
  Legacy,      \* those of an older build, which offer no browser session
  Gateway, Keeper,
  None,
  MaxCrashes

ASSUME OwnershipAssumption ==
  /\ Legacy \subseteq Server
  /\ Server \cap Gateway = {} /\ Server \cap Keeper = {} /\ Gateway \cap Keeper = {}
  /\ None \notin Server \cup Gateway \cup Keeper
  /\ MaxCrashes \in Nat

VARIABLES
  lease, gate,         \* the holder of .writer.lock, of .workspace.lock
  ticket, descriptor,  \* the child a ticket is for; the published server
  pc,                  \* of every process
  child, parent,       \* the last child of a process; who started a server
  restart, shut,       \* servers asked to restart, to shut down
  crashes

files == <<ticket, descriptor>>
flags == <<restart, shut>>
kin   == <<child, parent>>
vars  == <<lease, gate, files, pc, kin, flags, crashes>>

Process == Server \cup Gateway \cup Keeper

At(p, step) == pc[p] = step
Goto(p, step) == pc' = [pc EXCEPT ![p] = step]

(* The process ends; its locks go with it.                                 *)
Without(lock, p) == IF lock = p THEN None ELSE lock

(* Between admission and the join of its last worker a server may write.   *)
Writing == {"load", "publish", "serving", "draining"}

(* The descriptor names a listener that answers for this board.  Only a    *)
(* current build offers the browser session that service_is_healthy and a  *)
(* gateway ask for, and either may miss an answer that is late.            *)
Answers == descriptor \in {s \in Server : At(s, "serving")}
Healthy == Answers /\ descriptor \notin Legacy

(* A process to come, which nobody waits for yet.                          *)
Unused(s) == At(s, "unborn") /\ \A p \in Server \cup Gateway : child[p] # s

Init ==
  /\ lease = None /\ gate = None /\ ticket = None /\ descriptor = None
  /\ pc = [p \in Process |-> IF p \in Server THEN "unborn" ELSE "idle"]
  /\ child = [p \in Server \cup Gateway |-> None]
  /\ parent = [s \in Server |-> None]
  /\ restart = {} /\ shut = {} /\ crashes = 0

-----------------------------------------------------------------------------
(* Starting a service.                                                     *)

(* A person runs the service by hand.                                      *)
Run(s) ==
  /\ Unused(s)
  /\ Goto(s, "enter")
  /\ UNCHANGED <<lease, gate, files, kin, flags, crashes>>

(* launch_locked, or a timeout of it.                                      *)
EnterGate(s) ==
  /\ At(s, "enter")
  /\ \/ gate = None /\ gate' = s /\ Goto(s, "check")
     \/ Goto(s, "gone") /\ UNCHANGED gate
  /\ UNCHANGED <<lease, files, kin, flags, crashes>>

Check(s) ==
  /\ At(s, "check")
  /\ \/ Healthy /\ Goto(s, "gone") /\ gate' = None
     \/ Goto(s, "claim") /\ UNCHANGED gate
  /\ UNCHANGED <<lease, files, kin, flags, crashes>>

(* _validate_launch: the ticket is mine,                                   *)
ReadTicket(s) ==
  /\ At(s, "ticket")
  /\ Goto(s, IF ticket = s THEN "guarded" ELSE "gone")
  /\ UNCHANGED <<lease, gate, files, kin, flags, crashes>>

(* somebody holds the gate,                                                *)
ProbeGate(s) ==
  /\ At(s, "guarded")
  /\ Goto(s, IF gate # None THEN "consume" ELSE "gone")
  /\ UNCHANGED <<lease, gate, files, kin, flags, crashes>>

(* and the file is still there to be removed.                              *)
Consume(s) ==
  /\ At(s, "consume")
  /\ Goto(s, IF ticket # None THEN "claim" ELSE "gone")
  /\ ticket' = None
  /\ UNCHANGED <<lease, gate, descriptor, kin, flags, crashes>>

(* MUTANT of Claim: a launch that was delegated needs no claim of its own. *)
ClaimUnlessDelegated(s) ==
  /\ At(s, "claim")
  /\ \/ (lease = None \/ parent[s] # None) /\ lease' = s /\ Goto(s, "load")
     \/ lease # None /\ parent[s] = None /\ Goto(s, "gone") /\ UNCHANGED lease
  /\ gate' = Without(gate, s)
  /\ UNCHANGED <<files, kin, flags, crashes>>

(* writer_claim, tried once; a direct start leaves the gate now.           *)
Claim(s) ==
  /\ At(s, "claim")
  /\ \/ lease = None /\ lease' = s /\ Goto(s, "load")
     \/ lease # None /\ Goto(s, "gone") /\ UNCHANGED lease
  /\ gate' = Without(gate, s)
  /\ UNCHANGED <<files, kin, flags, crashes>>

(* Store construction and the listener; either may fail.                   *)
Load(s) ==
  /\ At(s, "load")
  /\ Goto(s, "publish") \/ Goto(s, "leave")
  /\ UNCHANGED <<lease, gate, files, kin, flags, crashes>>

(* publish_service; it may fail.                                           *)
Publish(s) ==
  /\ At(s, "publish")
  /\ \/ descriptor' = s /\ Goto(s, "serving")
     \/ Goto(s, "unpublish") /\ UNCHANGED descriptor
  /\ UNCHANGED <<lease, gate, ticket, kin, flags, crashes>>

-----------------------------------------------------------------------------
(* Stopping and replacing one.                                             *)

(* A shutdown that was not refused, or an interrupt, stops the serve loop. *)
(* The request may be one that is already being drained.                   *)
Shutdown(s) ==
  /\ pc[s] \in {"serving", "draining"}
  /\ s \notin shut /\ shut' = shut \cup {s}
  /\ Goto(s, "draining")
  /\ UNCHANGED <<lease, gate, files, kin, restart, crashes>>

(* _reserve_board_restart: the gate is taken before anything is stopped.   *)
Reserve(s) ==
  /\ pc[s] \in {"serving", "draining"} /\ gate = None
  /\ gate' = s
  /\ UNCHANGED <<lease, files, pc, kin, flags, crashes>>

(* Shutdown takes priority over a restart that is only reserved.           *)
Restart(s) ==
  /\ pc[s] \in {"serving", "draining"} /\ gate = s /\ s \notin restart
  /\ IF s \in shut THEN gate' = None /\ UNCHANGED <<restart, pc>>
                   ELSE restart' = restart \cup {s} /\ Goto(s, "draining") /\ UNCHANGED gate
  /\ UNCHANGED <<lease, files, kin, shut, crashes>>

(* server_close joins every worker, then the publisher is joined.          *)
Joined(s) ==
  /\ At(s, "draining")
  /\ Goto(s, IF s \in restart \ shut THEN "issue" ELSE "unpublish")
  /\ UNCHANGED <<lease, gate, files, kin, flags, crashes>>

(* MUTANT of Unpublish: the descriptor is removed whoever it names.        *)
UnpublishAny(s) ==
  /\ At(s, "unpublish")
  /\ descriptor' = None
  /\ Goto(s, "leave")
  /\ UNCHANGED <<lease, gate, ticket, kin, flags, crashes>>

(* remove_service.                                                         *)
Unpublish(s) ==
  /\ At(s, "unpublish")
  /\ descriptor' = Without(descriptor, s)
  /\ Goto(s, "leave")
  /\ UNCHANGED <<lease, gate, ticket, kin, flags, crashes>>

(* _release_restart_gate: a ticket nobody used goes along with the gate.   *)
Leave(s) ==
  /\ s \in Server /\ At(s, "leave")
  /\ ticket' = IF gate = s /\ child[s] # None THEN Without(ticket, child[s]) ELSE ticket
  /\ gate' = Without(gate, s)
  /\ Goto(s, "exit")
  /\ UNCHANGED <<lease, descriptor, kin, flags, crashes>>

(* The writer claim of _serve_board ends.                                  *)
Exit(s) ==
  /\ At(s, "exit")
  /\ lease' = Without(lease, s) /\ Goto(s, "gone")
  /\ UNCHANGED <<gate, files, kin, flags, crashes>>

(* child_environment: a token for a child to come, of the current build.   *)
IssueTicket(p) ==
  \E c \in {s \in Server \ Legacy : Unused(s)} :
    ticket' = c /\ child' = [child EXCEPT ![p] = c]

Issue(s) ==
  /\ At(s, "issue")
  /\ \/ IssueTicket(s) /\ Goto(s, "unlease")
     \/ Goto(s, "unpublish") /\ UNCHANGED <<ticket, child>>
  /\ UNCHANGED <<lease, gate, descriptor, parent, flags, crashes>>

(* _handoff_board frees the lease before the child exists.                 *)
Unlease(s) ==
  /\ At(s, "unlease")
  /\ lease' = None /\ Goto(s, "spawn")
  /\ UNCHANGED <<gate, files, kin, flags, crashes>>

(* Popen, which may fail.                                                  *)
Spawn(p) ==
  /\ At(p, "spawn")
  /\ \/ /\ pc' = [pc EXCEPT ![p] = "watch", ![child[p]] = "ticket"]
        /\ parent' = [parent EXCEPT ![child[p]] = p]
     \/ Goto(p, IF p \in Server THEN "unpublish" ELSE "leave") /\ UNCHANGED parent
  /\ UNCHANGED <<lease, gate, files, child, flags, crashes>>

(* The replacement is seen to be healthy: leave; it died or is late:       *)
(* remove it, even when it is published meanwhile.                         *)
WatchReplacement(s) ==
  /\ s \in Server /\ At(s, "watch")
  /\ \/ descriptor = child[s] /\ Healthy /\ Goto(s, "leave")
     \/ Goto(s, "reap")
  /\ UNCHANGED <<lease, gate, files, kin, flags, crashes>>

Alive(c) == c # None /\ ~At(c, "gone")

(* The child is killed, and what it held is free.                          *)
Kill(p, next) ==
  LET c == child[p]
  IN  /\ pc' = [pc EXCEPT ![p] = next, ![c] = "gone"]
      /\ lease' = Without(lease, c) /\ gate' = Without(gate, c)

(* MUTANT of Reap: a killed replacement keeps its descriptor.              *)
ReapOnly(s) ==
  /\ s \in Server /\ At(s, "reap")
  /\ Kill(s, "unpublish")
  /\ UNCHANGED <<files, kin, flags, crashes>>

(* _remove_failed_replacement.                                             *)
Reap(s) ==
  /\ s \in Server /\ At(s, "reap")
  /\ Kill(s, "unpublish")
  /\ descriptor' = Without(descriptor, child[s])
  /\ UNCHANGED <<ticket, kin, flags, crashes>>

-----------------------------------------------------------------------------
(* A gateway that wants the endpoint of the board.                         *)

Want(g) ==
  /\ At(g, "idle")
  /\ gate = None /\ gate' = g /\ Goto(g, "look")
  /\ UNCHANGED <<lease, files, kin, flags, crashes>>

(* _existing: reuse it; an older service is left to its own upgrade and    *)
(* waited for without the gate.                                            *)
Look(g) ==
  /\ pc[g] \in {"look", "await"}
  /\ \/ Healthy /\ Goto(g, "idle") /\ gate' = Without(gate, g)
     \/ Answers /\ ~Healthy /\ Goto(g, "await") /\ gate' = Without(gate, g)
     \/ Goto(g, IF At(g, "look") THEN "probe" ELSE "probeAlone") /\ UNCHANGED gate
  /\ UNCHANGED <<lease, files, kin, flags, crashes>>

(* writer_busy tries the lease itself and, if it gets it, gives it back.   *)
(* A session known for the descriptor of a busy writer is taken on trust.  *)
Probe(g) ==
  /\ pc[g] \in {"probe", "probeAlone"}
  /\ LET alone == At(g, "probeAlone")
     IN  \/ /\ lease = None
            /\ lease' = g /\ Goto(g, IF alone THEN "freeAlone" ELSE "free")
            /\ UNCHANGED gate
         \/ /\ lease # None
            /\ Goto(g, IF alone THEN "await" ELSE "look")
            /\ UNCHANGED <<lease, gate>>
         \/ /\ lease # None /\ descriptor # None
            /\ Goto(g, "idle") /\ gate' = Without(gate, g)
            /\ UNCHANGED lease
  /\ UNCHANGED <<files, kin, flags, crashes>>

(* Nobody writes: launch, or come back for the gate.                       *)
Unprobe(g) ==
  /\ pc[g] \in {"free", "freeAlone"}
  /\ lease' = None
  /\ Goto(g, IF At(g, "free") THEN "launch" ELSE "idle")
  /\ UNCHANGED <<gate, files, kin, flags, crashes>>

(* MUTANT of GiveUp: the wait under the gate has no deadline.              *)
GiveUpOutside(g) ==
  /\ At(g, "await")
  /\ Goto(g, "idle")
  /\ UNCHANGED <<lease, gate, files, kin, flags, crashes>>

(* START_WAIT_SECONDS are over.                                            *)
GiveUp(g) ==
  /\ pc[g] \in {"look", "await"}
  /\ Goto(g, "idle") /\ gate' = Without(gate, g)
  /\ UNCHANGED <<lease, files, kin, flags, crashes>>

(* _endpoint_under_gate: an earlier child is removed first.                *)
Launch(g) ==
  /\ At(g, "launch")
  /\ \/ /\ Alive(child[g])
        /\ Kill(g, "launch")
        /\ UNCHANGED <<ticket, child>>
     \/ /\ ~Alive(child[g])
        /\ \/ IssueTicket(g) /\ Goto(g, "spawn")
           \/ Goto(g, "leave") /\ UNCHANGED <<ticket, child>>
        /\ UNCHANGED <<lease, gate>>
  /\ UNCHANGED <<descriptor, parent, flags, crashes>>

(* MUTANT of WatchChild: a late child is left to itself.                   *)
WatchChildOnly(g) ==
  /\ g \in Gateway /\ At(g, "watch")
  /\ Goto(g, "leave")
  /\ UNCHANGED <<lease, gate, files, kin, flags, crashes>>

(* The endpoint is there; or the child failed; or it is late and removed.  *)
WatchChild(g) ==
  /\ g \in Gateway /\ At(g, "watch")
  /\ \/ Healthy /\ Goto(g, "leave") /\ UNCHANGED <<lease, gate>>
     \/ ~Alive(child[g]) /\ lease = None /\ Goto(g, "leave") /\ UNCHANGED <<lease, gate>>
     \/ Kill(g, "leave")
  /\ UNCHANGED <<files, kin, flags, crashes>>

(* LaunchGate.cleanup, then the gate.                                      *)
LeaveGate(g) ==
  /\ g \in Gateway /\ At(g, "leave")
  /\ ticket' = IF child[g] # None THEN Without(ticket, child[g]) ELSE ticket
  /\ gate' = None /\ Goto(g, "idle")
  /\ UNCHANGED <<lease, descriptor, kin, flags, crashes>>

-----------------------------------------------------------------------------
(* Offline maintenance: gate, lease, edit, and out in reverse order.       *)

Maintain(k) ==
  /\ At(k, "idle") /\ gate = None
  /\ gate' = k /\ Goto(k, "claim")
  /\ UNCHANGED <<lease, files, kin, flags, crashes>>

ClaimOffline(k) ==
  /\ At(k, "claim")
  /\ IF lease = None THEN lease' = k /\ Goto(k, "edit")
                     ELSE Goto(k, "leave") /\ UNCHANGED lease
  /\ UNCHANGED <<gate, files, kin, flags, crashes>>

Edit(k) ==
  /\ At(k, "edit")
  /\ lease' = None /\ Goto(k, "leave")
  /\ UNCHANGED <<gate, files, kin, flags, crashes>>

EndMaintenance(k) ==
  /\ At(k, "leave") /\ gate' = None /\ Goto(k, "idle")
  /\ UNCHANGED <<lease, files, kin, flags, crashes>>

Crash(p) ==
  /\ crashes < MaxCrashes /\ crashes' = crashes + 1
  /\ pc[p] \notin {"unborn", "gone", "idle"}
  /\ Goto(p, IF p \in Server THEN "gone" ELSE "idle")
  /\ lease' = Without(lease, p) /\ gate' = Without(gate, p)
  /\ UNCHANGED <<files, kin, flags>>

-----------------------------------------------------------------------------
StartStep(s) == EnterGate(s) \/ Check(s) \/ ReadTicket(s) \/ ProbeGate(s) \/ Consume(s)
                \/ Claim(s) \/ Load(s) \/ Publish(s)
StopStep(s) == Restart(s) \/ Joined(s) \/ Unpublish(s) \/ Leave(s) \/ Exit(s) \/ Issue(s) \/ Unlease(s)
               \/ Spawn(s) \/ WatchReplacement(s) \/ Reap(s)
GatewayStep(g) == Look(g) \/ Probe(g) \/ Unprobe(g) \/ GiveUp(g) \/ Launch(g) \/ Spawn(g)
                  \/ WatchChild(g) \/ LeaveGate(g)
KeeperStep(k) == ClaimOffline(k) \/ Edit(k) \/ EndMaintenance(k)

Next ==
  \/ \E s \in Server : StartStep(s) \/ StopStep(s) \/ Run(s) \/ Shutdown(s) \/ Reserve(s)
  \/ \E g \in Gateway : GatewayStep(g) \/ Want(g)
  \/ \E k \in Keeper : KeeperStep(k) \/ Maintain(k)
  \/ \E p \in Process : Crash(p)

Spec == Init /\ [][Next]_vars

(* Whatever has begun goes on; nobody has to begin anything.  A wait that   *)
(* polls meets its deadline.                                               *)
FairSpec ==
  /\ Spec
  /\ \A s \in Server : WF_vars(StartStep(s)) /\ WF_vars(StopStep(s))
  /\ \A g \in Gateway : WF_vars(GatewayStep(g)) /\ SF_vars(GiveUp(g))
  /\ \A k \in Keeper : WF_vars(KeeperStep(k))

-----------------------------------------------------------------------------
Steps == {"unborn", "enter", "check", "ticket", "guarded", "consume", "claim", "load",
          "publish", "serving", "draining", "unpublish", "leave", "issue", "unlease",
          "spawn", "watch", "reap", "exit", "gone", "idle", "look", "await", "probe", "probeAlone",
          "free", "freeAlone", "launch", "edit"}

TypeOK ==
  /\ {lease, gate} \subseteq Process \cup {None}
  /\ {ticket, descriptor} \subseteq Server \cup {None}
  /\ pc \in [Process -> Steps]
  /\ child \in [Server \cup Gateway -> Server \cup {None}]
  /\ parent \in [Server -> Server \cup Gateway \cup {None}]
  /\ restart \subseteq Server /\ shut \subseteq Server
  /\ crashes \in 0..MaxCrashes

(* _serve_board, "Acquire sole-writer ownership before loading or          *)
(* publishing any board state": a server that may still write, and         *)
(* maintenance that edits, hold the lease, through drains, handoffs,       *)
(* kills, probes and crashes.                                              *)
WritersHoldTheLease ==
  /\ \A s \in Server : pc[s] \in Writing => lease = s
  /\ \A k \in Keeper : At(k, "edit") => lease = k

(* remove_service, "Remove only the rendezvous file published by this      *)
(* process": while a server answers, the descriptor clients find names it. *)
ServersCanBeFound == \A s \in Server : At(s, "serving") => descriptor = s

(* "A restart's launch gate excludes maintenance during handoff", and      *)
(* "restart coordination prevents another launch from taking ownership":   *)
(* while a child starts, nobody having died, the lease is free, its        *)
(* parent's, its own, or probed by a gateway.                              *)
LaunchesAreUndisturbed ==
  crashes = 0 => \A c \in Server :
    pc[c] \in {"ticket", "guarded", "consume", "claim"} /\ parent[c] # None =>
      lease \in {None, parent[c], c} \cup Gateway

(* "Failed replacement stops its owned child and releases ownership": at   *)
(* the end of a handoff, failed or not, the descriptor clients follow does *)
(* not name a process that was killed on the way.                          *)
HandoffsLeaveNoCorpse ==
  crashes = 0 => \A s \in Server : At(s, "leave") /\ child[s] # None =>
    descriptor = None \/ pc[descriptor] \notin {"unborn", "gone"}

(* Launch admission is always given back: no start, restart, wait for a    *)
(* child or maintenance keeps the gate for good.                           *)
GateIsReleased == []<>(gate = None)
=============================================================================
