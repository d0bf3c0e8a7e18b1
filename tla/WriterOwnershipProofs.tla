------------------------ MODULE WriterOwnershipProofs ------------------------
(***************************************************************************)
(* Proofs about WriterOwnership: for any number of servers, gateways,      *)
(* maintainers and crashes, who writes holds the lease, and the server     *)
(* that answers is the one the descriptor names; and, as long as nobody    *)
(* dies, launches and handoffs are disturbed by nothing else.              *)
(***************************************************************************)
EXTENDS WriterOwnership, TLAPS

USE OwnershipAssumption

(* The steps at which a process may count on the lease: those of a writer, *)
(* the two of a handoff that still has it, a probe, an edit.               *)
Owning == Writing \cup {"issue", "unlease", "free", "freeAlone", "edit"}

OwnersHold == \A p \in Process : pc[p] \in Owning => lease = p

(* What the writers' safety rests on.                                      *)
OwnershipInv == TypeOK /\ OwnersHold

LEMMA InitTyped == Init => TypeOK
  BY DEF Init, TypeOK, Process, Steps, kin

LEMMA InitOwned == Init => OwnersHold
  BY DEF Init, OwnersHold, Owning, Writing, Process

(* Every step of the start of a service keeps the types.                   *)
LEMMA StartTyped == ASSUME TypeOK, NEW s \in Server, StartStep(s) PROVE TypeOK'
<1> USE DEF TypeOK, Process, Steps, At, Goto, Without, files, kin, flags
<1>1. CASE EnterGate(s) BY <1>1 DEF EnterGate
<1>2. CASE Check(s) BY <1>2 DEF Check
<1>3. CASE ReadTicket(s) BY <1>3 DEF ReadTicket
<1>4. CASE ProbeGate(s) BY <1>4 DEF ProbeGate
<1>5. CASE Consume(s) BY <1>5 DEF Consume
<1>6. CASE Claim(s) BY <1>6 DEF Claim
<1>7. CASE Load(s) BY <1>7 DEF Load
<1>8. CASE Publish(s) BY <1>8 DEF Publish
<1> QED BY <1>1, <1>2, <1>3, <1>4, <1>5, <1>6, <1>7, <1>8 DEF StartStep

(* So does every step of its end,                                          *)
LEMMA StopTyped ==
  ASSUME TypeOK, NEW s \in Server, StopStep(s) \/ Run(s) \/ Shutdown(s) \/ Reserve(s)
  PROVE  TypeOK'
<1> USE DEF TypeOK, Process, Steps, At, Goto, Without, files, kin, flags
<1>1. CASE Restart(s) BY <1>1 DEF Restart
<1>2. CASE Joined(s) BY <1>2 DEF Joined
<1>3. CASE Unpublish(s) BY <1>3 DEF Unpublish
<1>4. CASE Leave(s) BY <1>4 DEF Leave
<1>5. CASE Exit(s) BY <1>5 DEF Exit
<1>6. CASE Issue(s) BY <1>6 DEF Issue, IssueTicket
<1>7. CASE Unlease(s) BY <1>7 DEF Unlease
<1>8. CASE Spawn(s) BY <1>8 DEF Spawn
<1>9. CASE WatchReplacement(s) BY <1>9 DEF WatchReplacement
<1>10. CASE Reap(s) BY <1>10 DEF Reap, Kill
<1>11. CASE Run(s) BY <1>11 DEF Run
<1>12. CASE Shutdown(s) BY <1>12 DEF Shutdown
<1>13. CASE Reserve(s) BY <1>13 DEF Reserve
<1> QED BY <1>1, <1>2, <1>3, <1>4, <1>5, <1>6, <1>7, <1>8, <1>9, <1>10, <1>11, <1>12, <1>13
        DEF StopStep

(* of a gateway,                                                           *)
LEMMA GatewayTyped ==
  ASSUME TypeOK, NEW g \in Gateway, GatewayStep(g) \/ Want(g)
  PROVE  TypeOK'
<1> USE DEF TypeOK, Process, Steps, At, Goto, Without, files, kin, flags
<1>1. CASE Look(g) BY <1>1 DEF Look
<1>2. CASE Probe(g) BY <1>2 DEF Probe
<1>3. CASE Unprobe(g) BY <1>3 DEF Unprobe
<1>4. CASE GiveUp(g) BY <1>4 DEF GiveUp
<1>5. CASE Launch(g) BY <1>5 DEF Launch, IssueTicket, Kill
<1>6. CASE Spawn(g) BY <1>6 DEF Spawn
<1>7. CASE WatchChild(g) BY <1>7 DEF WatchChild, Kill
<1>8. CASE LeaveGate(g) BY <1>8 DEF LeaveGate
<1>9. CASE Want(g) BY <1>9 DEF Want
<1> QED BY <1>1, <1>2, <1>3, <1>4, <1>5, <1>6, <1>7, <1>8, <1>9 DEF GatewayStep

(* of maintenance, and a crash.                                            *)
LEMMA OtherTyped ==
  ASSUME TypeOK,
         \/ \E k \in Keeper : KeeperStep(k) \/ Maintain(k)
         \/ \E p \in Process : Crash(p)
  PROVE  TypeOK'
<1> USE DEF TypeOK, Process, Steps, At, Goto, Without, files, kin, flags
<1>1. ASSUME NEW k \in Keeper, ClaimOffline(k) PROVE TypeOK' BY <1>1 DEF ClaimOffline
<1>2. ASSUME NEW k \in Keeper, Edit(k) PROVE TypeOK' BY <1>2 DEF Edit
<1>3. ASSUME NEW k \in Keeper, EndMaintenance(k) PROVE TypeOK' BY <1>3 DEF EndMaintenance
<1>4. ASSUME NEW k \in Keeper, Maintain(k) PROVE TypeOK' BY <1>4 DEF Maintain
<1>5. ASSUME NEW p \in Process, Crash(p) PROVE TypeOK' BY <1>5 DEF Crash
<1> QED BY <1>1, <1>2, <1>3, <1>4, <1>5 DEF KeeperStep

LEMMA NextTyped == TypeOK /\ [Next]_vars => TypeOK'
<1> SUFFICES ASSUME TypeOK, [Next]_vars PROVE TypeOK'
  OBVIOUS
<1>1. CASE UNCHANGED vars BY <1>1 DEF vars, files, flags, kin, TypeOK
<1>2. CASE Next BY <1>2, StartTyped, StopTyped, GatewayTyped, OtherTyped DEF Next
<1> QED BY <1>1, <1>2
(* Type correctness: locks, files and kinship stay what they are.          *)
THEOREM TypesHold == Spec => []TypeOK
<1>1. Init => TypeOK BY InitTyped
<1>2. TypeOK /\ [Next]_vars => TypeOK' BY NextTyped
<1> QED BY <1>1, <1>2, PTL DEF Spec

-----------------------------------------------------------------------------
(* Nobody takes the lease from its holder: Claim, Probe and ClaimOffline   *)
(* want it free, Unlease, Unprobe and Edit leave what is their own, and    *)
(* Kill and Crash free only what a dead process held.                      *)
LEMMA StartOwned ==
  ASSUME OwnershipInv, NEW s \in Server, StartStep(s)
  PROVE  OwnersHold'
<1> USE DEF OwnershipInv, OwnersHold, Owning, Writing, TypeOK, Process, Steps, At, Goto,
            Without
<1>1. CASE EnterGate(s) BY <1>1 DEF EnterGate
<1>2. CASE Check(s) BY <1>2 DEF Check
<1>3. CASE ReadTicket(s) BY <1>3 DEF ReadTicket
<1>4. CASE ProbeGate(s) BY <1>4 DEF ProbeGate
<1>5. CASE Consume(s) BY <1>5 DEF Consume
<1>6. CASE Claim(s) BY <1>6 DEF Claim
<1>7. CASE Load(s) BY <1>7 DEF Load
<1>8. CASE Publish(s) BY <1>8 DEF Publish
<1> QED BY <1>1, <1>2, <1>3, <1>4, <1>5, <1>6, <1>7, <1>8 DEF StartStep

LEMMA StopOwned ==
  ASSUME OwnershipInv, NEW s \in Server,
         StopStep(s) \/ Run(s) \/ Shutdown(s) \/ Reserve(s)
  PROVE  OwnersHold'
<1> USE DEF OwnershipInv, OwnersHold, Owning, Writing, TypeOK, Process, Steps, At, Goto,
            Without
<1>1. CASE Restart(s) BY <1>1 DEF Restart
<1>2. CASE Joined(s) BY <1>2 DEF Joined
<1>3. CASE Unpublish(s) BY <1>3 DEF Unpublish
<1>4. CASE Leave(s) BY <1>4 DEF Leave
<1>5. CASE Exit(s) BY <1>5 DEF Exit
<1>6. CASE Issue(s) BY <1>6 DEF Issue, IssueTicket
<1>7. CASE Unlease(s) BY <1>7 DEF Unlease
<1>8. CASE Spawn(s) BY <1>8 DEF Spawn
<1>9. CASE WatchReplacement(s) BY <1>9 DEF WatchReplacement
<1>10. CASE Reap(s) BY <1>10 DEF Reap, Kill
<1>11. CASE Run(s) BY <1>11 DEF Run
<1>12. CASE Shutdown(s) BY <1>12 DEF Shutdown
<1>13. CASE Reserve(s) BY <1>13 DEF Reserve
<1> QED BY <1>1, <1>2, <1>3, <1>4, <1>5, <1>6, <1>7, <1>8, <1>9, <1>10, <1>11, <1>12, <1>13
        DEF StopStep

LEMMA GatewayOwned ==
  ASSUME OwnershipInv, NEW g \in Gateway, GatewayStep(g) \/ Want(g)
  PROVE  OwnersHold'
<1> USE DEF OwnershipInv, OwnersHold, Owning, Writing, TypeOK, Process, Steps, At, Goto,
            Without
<1>1. CASE Look(g) BY <1>1 DEF Look
<1>2. CASE Probe(g) BY <1>2 DEF Probe
<1>3. CASE Unprobe(g) BY <1>3 DEF Unprobe
<1>4. CASE GiveUp(g) BY <1>4 DEF GiveUp
<1>5. CASE Launch(g) BY <1>5 DEF Launch, IssueTicket, Kill
<1>6. CASE Spawn(g) BY <1>6 DEF Spawn
<1>7. CASE WatchChild(g) BY <1>7 DEF WatchChild, Kill
<1>8. CASE LeaveGate(g) BY <1>8 DEF LeaveGate
<1>9. CASE Want(g) BY <1>9 DEF Want
<1> QED BY <1>1, <1>2, <1>3, <1>4, <1>5, <1>6, <1>7, <1>8, <1>9 DEF GatewayStep

LEMMA OtherOwned ==
  ASSUME OwnershipInv,
         \/ \E k \in Keeper : KeeperStep(k) \/ Maintain(k)
         \/ \E p \in Process : Crash(p)
  PROVE  OwnersHold'
<1> USE DEF OwnershipInv, OwnersHold, Owning, Writing, TypeOK, Process, Steps, At, Goto,
            Without
<1>1. ASSUME NEW k \in Keeper, ClaimOffline(k) PROVE OwnersHold' BY <1>1 DEF ClaimOffline
<1>2. ASSUME NEW k \in Keeper, Edit(k) PROVE OwnersHold' BY <1>2 DEF Edit
<1>3. ASSUME NEW k \in Keeper, EndMaintenance(k) PROVE OwnersHold'
  BY <1>3 DEF EndMaintenance
<1>4. ASSUME NEW k \in Keeper, Maintain(k) PROVE OwnersHold' BY <1>4 DEF Maintain
<1>5. ASSUME NEW p \in Process, Crash(p) PROVE OwnersHold' BY <1>5 DEF Crash
<1> QED BY <1>1, <1>2, <1>3, <1>4, <1>5 DEF KeeperStep

LEMMA OwnershipStep == OwnershipInv /\ [Next]_vars => OwnershipInv'
<1> SUFFICES ASSUME OwnershipInv, [Next]_vars PROVE OwnershipInv'
  OBVIOUS
<1>1. TypeOK' BY NextTyped DEF OwnershipInv
<1>2. OwnersHold'
  <2>1. CASE UNCHANGED vars BY <2>1 DEF vars, OwnershipInv, OwnersHold
  <2>2. CASE Next BY <2>2, StartOwned, StopOwned, GatewayOwned, OtherOwned DEF Next
  <2> QED BY <2>1, <2>2
<1> QED BY <1>1, <1>2 DEF OwnershipInv

(* A server that may still write and maintenance that edits hold the       *)
(* writer lease of _serve_board and _maintenance_locked, whatever starts,  *)
(* restarts, hands over, probes, is killed or crashes around them.         *)
THEOREM WritersAreOwners == Spec => []WritersHoldTheLease
<1>1. Init => OwnershipInv BY InitTyped, InitOwned DEF OwnershipInv
<1>2. OwnershipInv /\ [Next]_vars => OwnershipInv' BY OwnershipStep
<1>3. OwnershipInv => WritersHoldTheLease
  BY DEF OwnershipInv, OwnersHold, Owning, Process, WritersHoldTheLease, At
<1> QED BY <1>1, <1>2, <1>3, PTL DEF Spec

-----------------------------------------------------------------------------
(* The descriptor changes in three places: its publisher holds the lease,  *)
(* so no other server answers; Unpublish removes what names the server     *)
(* that leaves; Reap removes what names a child it has just killed.        *)
LEMMA FoundStep ==
  OwnershipInv /\ ServersCanBeFound /\ [Next]_vars => ServersCanBeFound'
<1> SUFFICES ASSUME OwnershipInv, ServersCanBeFound, [Next]_vars PROVE ServersCanBeFound'
  OBVIOUS
<1> USE DEF ServersCanBeFound, OwnershipInv, TypeOK, Process, Steps, At, Goto, Without
<1>1. ASSUME NEW s \in Server, Publish(s) PROVE ServersCanBeFound'
  BY <1>1 DEF Publish, OwnersHold, Owning, Writing
<1>2. ASSUME NEW s \in Server, Unpublish(s) PROVE ServersCanBeFound'
  BY <1>2 DEF Unpublish
<1>3. ASSUME NEW s \in Server, Reap(s) PROVE ServersCanBeFound'
  BY <1>3 DEF Reap, Kill
<1>4. ASSUME NEW s \in Server,
             StartStep(s) \/ StopStep(s) \/ Run(s) \/ Shutdown(s) \/ Reserve(s),
             ~Publish(s), ~Unpublish(s), ~Reap(s)
      PROVE  ServersCanBeFound'
  <2>1. descriptor' = descriptor
    BY <1>4 DEF StartStep, StopStep, Run, Shutdown, Reserve, EnterGate, Check, ReadTicket,
       ProbeGate, Consume, Claim, Load, Restart, Joined, Leave, Exit, Issue, Unlease,
       Spawn, WatchReplacement, files
  <2>2. \A t \in Server : pc'[t] = "serving" => pc[t] = "serving"
    <3>1. CASE StartStep(s)
      BY <1>4, <3>1 DEF StartStep, EnterGate, Check, ReadTicket, ProbeGate, Consume, Claim,
         Load
    <3>2. CASE StopStep(s)
      BY <1>4, <3>2 DEF StopStep, Restart, Joined, Leave, Exit, Issue, Unlease, Spawn,
         WatchReplacement
    <3>3. CASE Run(s) \/ Shutdown(s) \/ Reserve(s)
      BY <3>3 DEF Run, Shutdown, Reserve
    <3> QED BY <1>4, <3>1, <3>2, <3>3
  <2> QED BY <2>1, <2>2
<1>5. ASSUME NEW g \in Gateway, GatewayStep(g) \/ Want(g) PROVE ServersCanBeFound'
  <2>1. descriptor' = descriptor
    BY <1>5 DEF GatewayStep, Want, Look, Probe, Unprobe, GiveUp, Launch, Spawn, WatchChild,
       LeaveGate, files
  <2>2. \A t \in Server : pc'[t] = "serving" => pc[t] = "serving"
    BY <1>5 DEF GatewayStep, Want, Look, Probe, Unprobe, GiveUp, Launch, Spawn, WatchChild,
       LeaveGate, Kill, IssueTicket
  <2> QED BY <2>1, <2>2
<1>6. ASSUME NEW k \in Keeper, KeeperStep(k) \/ Maintain(k) PROVE ServersCanBeFound'
  BY <1>6 DEF KeeperStep, Maintain, ClaimOffline, Edit, EndMaintenance, files
<1>7. ASSUME NEW p \in Process, Crash(p) PROVE ServersCanBeFound'
  BY <1>7 DEF Crash, files
<1>8. CASE UNCHANGED vars BY <1>8 DEF vars, files
<1> QED BY <1>1, <1>2, <1>3, <1>4, <1>5, <1>6, <1>7, <1>8 DEF Next

(* remove_service and _remove_failed_replacement never take the descriptor *)
(* of a server that answers: clients that follow it find that server.      *)
THEOREM AnsweringServersAreFound == Spec => []ServersCanBeFound
<1>1. Init => OwnershipInv BY InitTyped, InitOwned DEF OwnershipInv
<1>2. Init => ServersCanBeFound BY DEF Init, ServersCanBeFound, At, Process
<1>3. OwnershipInv /\ [Next]_vars => OwnershipInv' BY OwnershipStep
<1>4. OwnershipInv /\ ServersCanBeFound /\ [Next]_vars => ServersCanBeFound' BY FoundStep
<1> QED BY <1>1, <1>2, <1>3, <1>4, PTL DEF Spec

-----------------------------------------------------------------------------
(* Launches and handoffs.  That nothing disturbs them rests on the gate,   *)
(* on who is whose child, on the lease and on the descriptor together; a   *)
(* crash frees locks in the middle of any of it, so all is said of runs    *)
(* in which nobody has died.                                               *)

(* Between the first look at the board and the end of a launch, handoff or *)
(* maintenance a process holds the launch gate.                            *)
HoldsGate(p) ==
  \/ p \in Server /\ \/ pc[p] \in {"check", "issue", "unlease", "spawn", "watch", "reap"}
                     \/ At(p, "claim") /\ parent[p] = None
                     \/ At(p, "draining") /\ p \in restart
                     \/ pc[p] \in {"unpublish", "leave"} /\ child[p] # None
  \/ p \in Gateway /\ pc[p] \in {"look", "probe", "free", "launch", "spawn", "watch", "leave"}
  \/ p \in Keeper /\ pc[p] \in {"claim", "edit", "leave"}

GateIsHeld == \A p \in Process : HoldsGate(p) => gate = p

Starting == {"ticket", "guarded", "consume", "claim"}
Unhurried == {"unborn", "enter", "check", "load", "publish", "serving"} \cup Starting

Watching(p) == At(p, "watch") \/ (p \in Server /\ At(p, "reap"))

(* A child is new when its ticket is issued, and starts only while its     *)
(* parent watches it.                                                      *)
KinAreKept ==
  /\ \A s \in Server : child[s] # s
  /\ \A s \in Server : pc[s] \in {"unborn", "enter", "check"} => parent[s] = None
  /\ \A s \in Server : pc[s] \in {"ticket", "guarded", "consume"} => parent[s] # None
  /\ \A s \in Server : pc[s] \in Unhurried => s \notin restart
  /\ \A s \in Server : pc[s] \in Unhurried \cup {"draining", "issue"} => child[s] = None
  /\ \A p \in Server \cup Gateway :
       At(p, "spawn") \/ (p \in Server /\ At(p, "unlease")) =>
         child[p] \in Server /\ At(child[p], "unborn")
  /\ \A c \in Server : pc[c] \in Starting /\ parent[c] # None =>
       child[parent[c]] = c /\ Watching(parent[c])
  /\ \A s \in Server : At(s, "unpublish") /\ child[s] # None => pc[child[s]] \in {"unborn", "gone"}

(* From the end of its own claim to the end of a handoff or a launch a     *)
(* parent leaves the lease to its child, or to a gateway that probes it.   *)
LeaseIsReserved ==
  /\ \A p \in Server \cup Gateway :
       At(p, "spawn") \/ (p \in Gateway /\ At(p, "launch")) => lease \in {None} \cup Gateway
  /\ \A p \in Server \cup Gateway :
       Watching(p) \/ (p \in Server /\ pc[p] \in {"unpublish", "leave"} /\ child[p] # None) =>
         lease \in {None, child[p]} \cup Gateway

DescriptorFollows ==
  /\ \A s \in Server :
       pc[s] \in (Unhurried \ {"serving"}) \cup {"leave", "exit"} => descriptor # s
  /\ \A s \in Server :
       /\ pc[s] \in {"serving", "draining", "issue", "unlease", "spawn"} => descriptor = s
       /\ pc[s] \in {"watch", "reap"} => descriptor \in {None, s, child[s]}
       /\ At(s, "unpublish") /\ child[s] # None => descriptor \in {None, s}
       /\ At(s, "leave") /\ child[s] # None => descriptor \in {None, child[s]}
       /\ pc[s] \in {"watch", "reap", "leave"} /\ child[s] # None /\ descriptor = child[s] =>
            pc[child[s]] \notin {"unborn", "gone"}

LaunchesKept == GateIsHeld /\ KinAreKept /\ LeaseIsReserved /\ DescriptorFollows

LaunchInv == crashes = 0 => LaunchesKept

(* The gate: taken only when it is free, given up only by its holder.      *)
LEMMA StartGate ==
  ASSUME OwnershipInv, LaunchesKept, NEW s \in Server,
         StartStep(s)
  PROVE  GateIsHeld'
<1> USE DEF LaunchesKept, GateIsHeld, HoldsGate, KinAreKept, Starting, Unhurried,
            OwnershipInv, TypeOK, Process, At, Goto, Without, files, kin, flags
<1>1. CASE EnterGate(s) BY <1>1 DEF EnterGate
<1>2. CASE Check(s) BY <1>2 DEF Check
<1>3. CASE ReadTicket(s) BY <1>3 DEF ReadTicket
<1>4. CASE ProbeGate(s) BY <1>4 DEF ProbeGate
<1>5. CASE Consume(s) BY <1>5 DEF Consume
<1>6. CASE Claim(s) BY <1>6 DEF Claim
<1>7. CASE Load(s) BY <1>7 DEF Load
<1>8. CASE Publish(s) BY <1>8 DEF Publish
<1> QED BY <1>1, <1>2, <1>3, <1>4, <1>5, <1>6, <1>7, <1>8 DEF StartStep

LEMMA StopGate ==
  ASSUME OwnershipInv, LaunchesKept, NEW s \in Server,
         StopStep(s) \/ Run(s) \/ Shutdown(s) \/ Reserve(s)
  PROVE  GateIsHeld'
<1> USE DEF LaunchesKept, GateIsHeld, HoldsGate, KinAreKept, Starting, Unhurried,
            OwnershipInv, TypeOK, Process, At, Goto, Without, files, kin, flags
<1>1. CASE Restart(s) BY <1>1 DEF Restart
<1>2. CASE Joined(s) BY <1>2 DEF Joined
<1>3. CASE Unpublish(s) BY <1>3 DEF Unpublish
<1>4. CASE Leave(s) BY <1>4 DEF Leave
<1>5. CASE Exit(s) BY <1>5 DEF Exit
<1>6. CASE Issue(s) BY <1>6 DEF Issue, IssueTicket, Unused
<1>7. CASE Unlease(s) BY <1>7 DEF Unlease
<1>8. CASE Spawn(s) BY <1>8 DEF Spawn
<1>9. CASE WatchReplacement(s) BY <1>9 DEF WatchReplacement, Healthy, Answers
<1>10. CASE Reap(s) BY <1>10 DEF Reap, Kill
<1>11. CASE Run(s) BY <1>11 DEF Run, Unused
<1>12. CASE Shutdown(s) BY <1>12 DEF Shutdown
<1>13. CASE Reserve(s) BY <1>13 DEF Reserve
<1> QED BY <1>1, <1>2, <1>3, <1>4, <1>5, <1>6, <1>7, <1>8, <1>9, <1>10, <1>11, <1>12, <1>13
        DEF StopStep

LEMMA GatewayGate ==
  ASSUME OwnershipInv, LaunchesKept, NEW g \in Gateway,
         GatewayStep(g) \/ Want(g)
  PROVE  GateIsHeld'
<1> USE DEF LaunchesKept, GateIsHeld, HoldsGate, KinAreKept, Starting, Unhurried,
            OwnershipInv, TypeOK, Process, At, Goto, Without, files, kin, flags
<1>1. CASE Look(g) BY <1>1 DEF Look
<1>2. CASE Probe(g) BY <1>2 DEF Probe
<1>3. CASE Unprobe(g) BY <1>3 DEF Unprobe
<1>4. CASE GiveUp(g) BY <1>4 DEF GiveUp
<1>5. CASE Launch(g) BY <1>5 DEF Launch, IssueTicket, Unused, Kill, Alive
<1>6. CASE Spawn(g) BY <1>6 DEF Spawn
<1>7. CASE WatchChild(g) BY <1>7 DEF WatchChild, Kill, Alive
<1>8. CASE LeaveGate(g) BY <1>8 DEF LeaveGate
<1>9. CASE Want(g) BY <1>9 DEF Want
<1> QED BY <1>1, <1>2, <1>3, <1>4, <1>5, <1>6, <1>7, <1>8, <1>9 DEF GatewayStep

LEMMA KeeperGate ==
  ASSUME OwnershipInv, LaunchesKept, NEW k \in Keeper,
         KeeperStep(k) \/ Maintain(k)
  PROVE  GateIsHeld'
<1> USE DEF LaunchesKept, GateIsHeld, HoldsGate, KinAreKept, Starting, Unhurried,
            OwnershipInv, TypeOK, Process, At, Goto, Without, files, kin, flags
<1>1. CASE ClaimOffline(k) BY <1>1 DEF ClaimOffline
<1>2. CASE Edit(k) BY <1>2 DEF Edit
<1>3. CASE EndMaintenance(k) BY <1>3 DEF EndMaintenance
<1>4. CASE Maintain(k) BY <1>4 DEF Maintain
<1> QED BY <1>1, <1>2, <1>3, <1>4 DEF KeeperStep

(* A child that is spawned becomes the only one that starts under its      *)
(* parent's gate.                                                          *)
LEMMA SpawnKin ==
  ASSUME OwnershipInv, LaunchesKept, NEW p \in Server \cup Gateway, Spawn(p)
  PROVE  KinAreKept'
<1> DEFINE c == child[p]
<1> USE DEF At, Goto
<1>1. c \in Server /\ c # p /\ At(c, "unborn") /\ At(p, "spawn")
  BY DEF Spawn, LaunchesKept, KinAreKept
<1>2. ASSUME NEW q \in Process, HoldsGate(q) PROVE q = p
  BY <1>1, <1>2 DEF LaunchesKept, GateIsHeld, HoldsGate, Process
<1>3. child' = child /\ restart' = restart
  BY DEF Spawn, flags
<1>4. \A q \in Process \ {p, c} : pc'[q] = pc[q]
  BY <1>1 DEF Spawn, OwnershipInv, TypeOK, Process
<1>5. \A s \in Server \ {c} : parent'[s] = parent[s]
  BY <1>1 DEF Spawn, OwnershipInv, TypeOK
<1>6. \/ pc'[p] = "watch" /\ pc'[c] = "ticket" /\ parent'[c] = p
      \/ pc'[p] \in {"unpublish", "leave"} /\ pc'[c] = "unborn" /\ parent'[c] = parent[c]
         /\ (p \in Gateway => pc'[p] = "leave")
  BY <1>1 DEF Spawn, OwnershipInv, TypeOK, Process
<1> HIDE DEF c
<1>7. \A s \in Server : child'[s] # s
  BY <1>3 DEF LaunchesKept, KinAreKept
<1>8. \A s \in Server : pc'[s] \in {"unborn", "enter", "check"} => parent'[s] = None
  BY <1>1, <1>4, <1>5, <1>6 DEF LaunchesKept, KinAreKept, Process
<1>9. \A s \in Server : pc'[s] \in {"ticket", "guarded", "consume"} => parent'[s] # None
  BY <1>1, <1>4, <1>5, <1>6 DEF LaunchesKept, KinAreKept, Process
<1>10. \A s \in Server : pc'[s] \in Unhurried => s \notin restart'
  <2> SUFFICES ASSUME NEW s \in Server, pc'[s] \in Unhurried
               PROVE s \notin restart'
    OBVIOUS
  <2>1. pc[s] \in Unhurried
    BY <1>1, <1>4, <1>6 DEF Unhurried, Starting, Process
  <2> QED BY <2>1, <1>3 DEF LaunchesKept, KinAreKept
<1>11. \A s \in Server : pc'[s] \in Unhurried \cup {"draining", "issue"} => child'[s] = None
  <2> SUFFICES ASSUME NEW s \in Server, pc'[s] \in Unhurried \cup {"draining", "issue"}
               PROVE child'[s] = None
    OBVIOUS
  <2>1. pc[s] \in Unhurried \cup {"draining", "issue"}
    BY <1>1, <1>4, <1>6 DEF Unhurried, Starting, Process
  <2> QED BY <2>1, <1>3 DEF LaunchesKept, KinAreKept
<1>12. \A q \in Server \cup Gateway : ~(pc'[q] = "spawn" \/ (q \in Server /\ pc'[q] = "unlease"))
  <2> SUFFICES ASSUME NEW q \in Server \cup Gateway,
                      pc'[q] = "spawn" \/ (q \in Server /\ pc'[q] = "unlease")
               PROVE  FALSE
    OBVIOUS
  <2>1. q # p /\ HoldsGate(q)
    BY <1>1, <1>4, <1>6 DEF HoldsGate, Process
  <2> QED BY <1>2, <2>1 DEF Process
<1>13. ASSUME NEW d \in Server, pc'[d] \in Starting, parent'[d] # None
       PROVE  child'[parent'[d]] = d /\ Watching(parent[d])'
  <2>1. CASE d = c /\ pc'[c] = "ticket"
    BY <1>1, <1>3, <1>6, <2>1 DEF c, Watching
  <2>2. CASE d = c /\ pc'[c] = "unborn"
    BY <1>13, <2>2 DEF Starting
  <2>3. CASE d # c
    <3>1. d # p /\ pc'[d] = pc[d] /\ parent'[d] = parent[d]
      BY <1>1, <1>4, <1>5, <1>6, <1>13, <2>3 DEF Starting, Process
    <3>2. Watching(parent[d]) /\ parent[d] \in Server \cup Gateway
      BY <1>13, <3>1 DEF LaunchesKept, KinAreKept, OwnershipInv, TypeOK, Process
    <3>3. HoldsGate(parent[d]) /\ parent[d] # p
      BY <1>1, <3>2 DEF HoldsGate, Watching, Process
    <3> QED BY <1>2, <3>2, <3>3 DEF Process
  <2> QED BY <1>6, <2>1, <2>2, <2>3
<1>14. \A s \in Server :
         pc'[s] = "unpublish" /\ child'[s] # None => pc'[child'[s]] \in {"unborn", "gone"}
  <2> SUFFICES ASSUME NEW s \in Server, pc'[s] = "unpublish", child[s] # None
               PROVE  pc'[child[s]] \in {"unborn", "gone"}
    BY <1>3
  <2>1. s = p
    BY <1>1, <1>2, <1>4, <1>6 DEF HoldsGate, Process
  <2> QED BY <1>6, <2>1 DEF c
<1> QED BY <1>7, <1>8, <1>9, <1>10, <1>11, <1>12, <1>13, <1>14 DEF KinAreKept

(* Who kills its child holds the gate, so no other launch is going on.     *)
LEMMA KillKin ==
  ASSUME OwnershipInv, LaunchesKept, NEW p \in Server \cup Gateway, NEW next \in Steps,
         HoldsGate(p), child[p] # p, pc[p] \in {"reap", "watch", "launch"},
         next \in {"unpublish", "leave", "launch"},
         Kill(p, next), parent' = parent, child' = child, restart' = restart
  PROVE  KinAreKept'
<1> DEFINE c == child[p]
<1> USE DEF At
<1>2. ASSUME NEW q \in Process, HoldsGate(q) PROVE q = p
  BY <1>2 DEF LaunchesKept, GateIsHeld, Process
<1>3. pc'[p] = next
  BY DEF Kill, OwnershipInv, TypeOK, Process
<1>4. \A q \in Process \ {p, c} : pc'[q] = pc[q]
  BY DEF Kill, OwnershipInv, TypeOK, Process
<1>5. c \in Process => pc'[c] = "gone"
  BY DEF Kill, OwnershipInv, TypeOK
<1>6. c \in Server \cup {None}
  BY DEF OwnershipInv, TypeOK
<1> HIDE DEF c
<1>7. \A s \in Server : child'[s] # s
  BY DEF LaunchesKept, KinAreKept
<1>8. \A s \in Server : pc'[s] \in {"unborn", "enter", "check"} => parent'[s] = None
  BY <1>3, <1>4, <1>5 DEF LaunchesKept, KinAreKept, Process
<1>9. \A s \in Server : pc'[s] \in {"ticket", "guarded", "consume"} => parent'[s] # None
  BY <1>3, <1>4, <1>5 DEF LaunchesKept, KinAreKept, Process
<1>10. \A s \in Server : pc'[s] \in Unhurried => s \notin restart'
  <2> SUFFICES ASSUME NEW s \in Server, pc'[s] \in Unhurried
               PROVE s \notin restart'
    OBVIOUS
  <2>1. pc[s] \in Unhurried
    BY <1>3, <1>4, <1>5 DEF Unhurried, Starting, Process
  <2> QED BY <2>1 DEF LaunchesKept, KinAreKept
<1>11. \A s \in Server : pc'[s] \in Unhurried \cup {"draining", "issue"} => child'[s] = None
  <2> SUFFICES ASSUME NEW s \in Server, pc'[s] \in Unhurried \cup {"draining", "issue"}
               PROVE child'[s] = None
    OBVIOUS
  <2>1. pc[s] \in Unhurried \cup {"draining", "issue"}
    BY <1>3, <1>4, <1>5 DEF Unhurried, Starting, Process
  <2> QED BY <2>1 DEF LaunchesKept, KinAreKept
<1>12. \A q \in Server \cup Gateway : ~(pc'[q] = "spawn" \/ (q \in Server /\ pc'[q] = "unlease"))
  <2> SUFFICES ASSUME NEW q \in Server \cup Gateway,
                      pc'[q] = "spawn" \/ (q \in Server /\ pc'[q] = "unlease")
               PROVE  FALSE
    OBVIOUS
  <2>1. q # p /\ HoldsGate(q)
    BY <1>3, <1>4, <1>5 DEF HoldsGate, Process
  <2> QED BY <1>2, <2>1 DEF Process
<1>13. ASSUME NEW d \in Server, pc'[d] \in Starting, parent'[d] # None PROVE FALSE
  <2>1. d # p /\ d # c /\ pc'[d] = pc[d]
    BY <1>3, <1>4, <1>5, <1>13 DEF Starting, Process
  <2>2. Watching(parent[d]) /\ parent[d] \in Server \cup Gateway /\ child[parent[d]] = d
    BY <1>13, <2>1 DEF LaunchesKept, KinAreKept, OwnershipInv, TypeOK, Process
  <2>3. HoldsGate(parent[d])
    BY <2>2 DEF HoldsGate, Watching, Process
  <2> QED BY <1>2, <2>1, <2>2, <2>3 DEF c, Process
<1>14. \A s \in Server :
         pc'[s] = "unpublish" /\ child'[s] # None => pc'[child'[s]] \in {"unborn", "gone"}
  <2> SUFFICES ASSUME NEW s \in Server, pc'[s] = "unpublish", child[s] # None
               PROVE  pc'[child[s]] \in {"unborn", "gone"}
    OBVIOUS
  <2>1. s = p
    BY <1>2, <1>3, <1>4, <1>5 DEF HoldsGate, Process
  <2> QED BY <1>5, <1>6, <2>1 DEF c, Process
<1> QED BY <1>7, <1>8, <1>9, <1>10, <1>11, <1>12, <1>13, <1>14 DEF KinAreKept

(* Kinship: a child is issued unborn, and only its parent starts it.       *)
LEMMA StartKin ==
  ASSUME OwnershipInv, LaunchesKept, NEW s \in Server,
         StartStep(s)
  PROVE  KinAreKept'
<1> USE DEF LaunchesKept, GateIsHeld, HoldsGate, KinAreKept, Starting, Unhurried,
            Watching, OwnershipInv, TypeOK, Process, At, Goto, Without, files, kin, flags
<1>1. CASE EnterGate(s) BY <1>1 DEF EnterGate
<1>2. CASE Check(s) BY <1>2 DEF Check
<1>3. CASE ReadTicket(s) BY <1>3 DEF ReadTicket
<1>4. CASE ProbeGate(s) BY <1>4 DEF ProbeGate
<1>5. CASE Consume(s) BY <1>5 DEF Consume
<1>6. CASE Claim(s) BY <1>6 DEF Claim
<1>7. CASE Load(s) BY <1>7 DEF Load
<1>8. CASE Publish(s) BY <1>8 DEF Publish
<1> QED BY <1>1, <1>2, <1>3, <1>4, <1>5, <1>6, <1>7, <1>8 DEF StartStep

LEMMA StopKin ==
  ASSUME OwnershipInv, LaunchesKept, NEW s \in Server,
         StopStep(s) \/ Run(s) \/ Shutdown(s) \/ Reserve(s)
  PROVE  KinAreKept'
<1> USE DEF LaunchesKept, GateIsHeld, HoldsGate, KinAreKept, Starting, Unhurried,
            Watching, OwnershipInv, TypeOK, Process, At, Goto, Without, files, kin, flags
<1>1. CASE Restart(s) BY <1>1 DEF Restart
<1>2. CASE Joined(s) BY <1>2 DEF Joined
<1>3. CASE Unpublish(s) BY <1>3 DEF Unpublish
<1>4. CASE Leave(s) BY <1>4 DEF Leave
<1>5. CASE Exit(s) BY <1>5 DEF Exit
<1>6. CASE Issue(s) BY <1>6 DEF Issue, IssueTicket, Unused
<1>7. CASE Unlease(s) BY <1>7 DEF Unlease
<1>8. CASE Spawn(s) BY <1>8, SpawnKin
<1>9. CASE WatchReplacement(s) BY <1>9 DEF WatchReplacement, Healthy, Answers
<1>10. CASE Reap(s) BY <1>10, KillKin DEF Reap, Steps
<1>11. CASE Run(s) BY <1>11 DEF Run, Unused
<1>12. CASE Shutdown(s) BY <1>12 DEF Shutdown
<1>13. CASE Reserve(s) BY <1>13 DEF Reserve
<1> QED BY <1>1, <1>2, <1>3, <1>4, <1>5, <1>6, <1>7, <1>8, <1>9, <1>10, <1>11, <1>12, <1>13
        DEF StopStep

LEMMA GatewayKin ==
  ASSUME OwnershipInv, LaunchesKept, NEW g \in Gateway,
         GatewayStep(g) \/ Want(g)
  PROVE  KinAreKept'
<1> USE DEF LaunchesKept, GateIsHeld, HoldsGate, KinAreKept, Starting, Unhurried,
            Watching, OwnershipInv, TypeOK, Process, At, Goto, Without, files, kin, flags
<1>1. CASE Look(g) BY <1>1 DEF Look
<1>2. CASE Probe(g) BY <1>2 DEF Probe
<1>3. CASE Unprobe(g) BY <1>3 DEF Unprobe
<1>4. CASE GiveUp(g) BY <1>4 DEF GiveUp
<1>5. CASE Launch(g)
  <2>1. HoldsGate(g) /\ child[g] # g
    BY <1>5 DEF Launch
  <2>2. CASE Kill(g, "launch") /\ child' = child
    BY <1>5, <2>1, <2>2, KillKin DEF Launch, Steps
  <2>3. CASE ~(Kill(g, "launch") /\ child' = child)
    BY <1>5, <2>3 DEF Launch, IssueTicket, Unused
  <2> QED BY <2>2, <2>3
<1>6. CASE Spawn(g) BY <1>6, SpawnKin
<1>7. CASE WatchChild(g)
  <2>1. HoldsGate(g) /\ child[g] # g
    BY <1>7 DEF WatchChild
  <2>2. CASE Kill(g, "leave") /\ child' = child
    BY <1>7, <2>1, <2>2, KillKin DEF WatchChild, Steps
  <2>3. CASE ~(Kill(g, "leave") /\ child' = child)
    BY <1>7, <2>3 DEF WatchChild, Alive, Healthy, Answers, LeaseIsReserved, OwnersHold, Owning,
       Writing
  <2> QED BY <2>2, <2>3
<1>8. CASE LeaveGate(g) BY <1>8 DEF LeaveGate
<1>9. CASE Want(g) BY <1>9 DEF Want
<1> QED BY <1>1, <1>2, <1>3, <1>4, <1>5, <1>6, <1>7, <1>8, <1>9 DEF GatewayStep

LEMMA KeeperKin ==
  ASSUME OwnershipInv, LaunchesKept, NEW k \in Keeper,
         KeeperStep(k) \/ Maintain(k)
  PROVE  KinAreKept'
<1> USE DEF LaunchesKept, GateIsHeld, HoldsGate, KinAreKept, Starting, Unhurried,
            Watching, OwnershipInv, TypeOK, Process, At, Goto, Without, files, kin, flags
<1>1. CASE ClaimOffline(k) BY <1>1 DEF ClaimOffline
<1>2. CASE Edit(k) BY <1>2 DEF Edit
<1>3. CASE EndMaintenance(k) BY <1>3 DEF EndMaintenance
<1>4. CASE Maintain(k) BY <1>4 DEF Maintain
<1> QED BY <1>1, <1>2, <1>3, <1>4 DEF KeeperStep

(* The lease: whoever could claim it during a launch needs the gate.       *)
LEMMA StartLease ==
  ASSUME OwnershipInv, LaunchesKept, NEW s \in Server,
         StartStep(s)
  PROVE  LeaseIsReserved'
<1> USE DEF LaunchesKept, GateIsHeld, HoldsGate, KinAreKept, Starting, Unhurried,
            Watching, LeaseIsReserved, OwnershipInv, OwnersHold, Owning, Writing, TypeOK,
            Process, At, Goto, Without, files, kin, flags
<1>1. CASE EnterGate(s) BY <1>1 DEF EnterGate
<1>2. CASE Check(s) BY <1>2 DEF Check
<1>3. CASE ReadTicket(s) BY <1>3 DEF ReadTicket
<1>4. CASE ProbeGate(s) BY <1>4 DEF ProbeGate
<1>5. CASE Consume(s) BY <1>5 DEF Consume
<1>6. CASE Claim(s) BY <1>6 DEF Claim
<1>7. CASE Load(s) BY <1>7 DEF Load
<1>8. CASE Publish(s) BY <1>8 DEF Publish
<1> QED BY <1>1, <1>2, <1>3, <1>4, <1>5, <1>6, <1>7, <1>8 DEF StartStep

LEMMA StopLease ==
  ASSUME OwnershipInv, LaunchesKept, NEW s \in Server,
         StopStep(s) \/ Run(s) \/ Shutdown(s) \/ Reserve(s)
  PROVE  LeaseIsReserved'
<1> USE DEF LaunchesKept, GateIsHeld, HoldsGate, KinAreKept, Starting, Unhurried,
            Watching, LeaseIsReserved, OwnershipInv, OwnersHold, Owning, Writing, TypeOK,
            Process, At, Goto, Without, files, kin, flags
<1>1. CASE Restart(s) BY <1>1 DEF Restart
<1>2. CASE Joined(s) BY <1>2 DEF Joined
<1>3. CASE Unpublish(s) BY <1>3 DEF Unpublish
<1>4. CASE Leave(s) BY <1>4 DEF Leave
<1>5. CASE Exit(s) BY <1>5 DEF Exit
<1>6. CASE Issue(s) BY <1>6 DEF Issue, IssueTicket, Unused
<1>7. CASE Unlease(s) BY <1>7 DEF Unlease
<1>8. CASE Spawn(s) BY <1>8 DEF Spawn
<1>9. CASE WatchReplacement(s) BY <1>9 DEF WatchReplacement, Healthy, Answers
<1>10. CASE Reap(s) BY <1>10 DEF Reap, Kill
<1>11. CASE Run(s) BY <1>11 DEF Run, Unused
<1>12. CASE Shutdown(s) BY <1>12 DEF Shutdown
<1>13. CASE Reserve(s) BY <1>13 DEF Reserve
<1> QED BY <1>1, <1>2, <1>3, <1>4, <1>5, <1>6, <1>7, <1>8, <1>9, <1>10, <1>11, <1>12, <1>13
        DEF StopStep

LEMMA GatewayLease ==
  ASSUME OwnershipInv, LaunchesKept, NEW g \in Gateway,
         GatewayStep(g) \/ Want(g)
  PROVE  LeaseIsReserved'
<1> USE DEF LaunchesKept, GateIsHeld, HoldsGate, KinAreKept, Starting, Unhurried,
            Watching, LeaseIsReserved, OwnershipInv, OwnersHold, Owning, Writing, TypeOK,
            Process, At, Goto, Without, files, kin, flags
<1>1. CASE Look(g) BY <1>1 DEF Look
<1>2. CASE Probe(g) BY <1>2 DEF Probe
<1>3. CASE Unprobe(g) BY <1>3 DEF Unprobe
<1>4. CASE GiveUp(g) BY <1>4 DEF GiveUp
<1>5. CASE Launch(g) BY <1>5 DEF Launch, IssueTicket, Unused, Kill, Alive
<1>6. CASE Spawn(g) BY <1>6 DEF Spawn
<1>7. CASE WatchChild(g) BY <1>7 DEF WatchChild, Kill, Alive
<1>8. CASE LeaveGate(g) BY <1>8 DEF LeaveGate
<1>9. CASE Want(g) BY <1>9 DEF Want
<1> QED BY <1>1, <1>2, <1>3, <1>4, <1>5, <1>6, <1>7, <1>8, <1>9 DEF GatewayStep

LEMMA KeeperLease ==
  ASSUME OwnershipInv, LaunchesKept, NEW k \in Keeper,
         KeeperStep(k) \/ Maintain(k)
  PROVE  LeaseIsReserved'
<1> USE DEF LaunchesKept, GateIsHeld, HoldsGate, KinAreKept, Starting, Unhurried,
            Watching, LeaseIsReserved, OwnershipInv, OwnersHold, Owning, Writing, TypeOK,
            Process, At, Goto, Without, files, kin, flags
<1>1. CASE ClaimOffline(k) BY <1>1 DEF ClaimOffline
<1>2. CASE Edit(k) BY <1>2 DEF Edit
<1>3. CASE EndMaintenance(k) BY <1>3 DEF EndMaintenance
<1>4. CASE Maintain(k) BY <1>4 DEF Maintain
<1> QED BY <1>1, <1>2, <1>3, <1>4 DEF KeeperStep

(* The descriptor: it is written by the owner of the lease alone.          *)
LEMMA StartDescriptor ==
  ASSUME OwnershipInv, LaunchesKept, NEW s \in Server,
         StartStep(s)
  PROVE  DescriptorFollows'
<1> USE DEF LaunchesKept, GateIsHeld, HoldsGate, KinAreKept, Starting, Unhurried,
            Watching, LeaseIsReserved, DescriptorFollows, OwnershipInv, OwnersHold, Owning,
            Writing, TypeOK, Process, At, Goto, Without, files, kin, flags
<1>1. CASE EnterGate(s) BY <1>1 DEF EnterGate
<1>2. CASE Check(s) BY <1>2 DEF Check
<1>3. CASE ReadTicket(s) BY <1>3 DEF ReadTicket
<1>4. CASE ProbeGate(s) BY <1>4 DEF ProbeGate
<1>5. CASE Consume(s) BY <1>5 DEF Consume
<1>6. CASE Claim(s) BY <1>6 DEF Claim
<1>7. CASE Load(s) BY <1>7 DEF Load
<1>8. CASE Publish(s) BY <1>8 DEF Publish
<1> QED BY <1>1, <1>2, <1>3, <1>4, <1>5, <1>6, <1>7, <1>8 DEF StartStep

LEMMA StopDescriptor ==
  ASSUME OwnershipInv, LaunchesKept, NEW s \in Server,
         StopStep(s) \/ Run(s) \/ Shutdown(s) \/ Reserve(s)
  PROVE  DescriptorFollows'
<1> USE DEF LaunchesKept, GateIsHeld, HoldsGate, KinAreKept, Starting, Unhurried,
            Watching, LeaseIsReserved, DescriptorFollows, OwnershipInv, OwnersHold, Owning,
            Writing, TypeOK, Process, At, Goto, Without, files, kin, flags
<1>1. CASE Restart(s) BY <1>1 DEF Restart
<1>2. CASE Joined(s) BY <1>2 DEF Joined
<1>3. CASE Unpublish(s) BY <1>3 DEF Unpublish
<1>4. CASE Leave(s) BY <1>4 DEF Leave
<1>5. CASE Exit(s) BY <1>5 DEF Exit
<1>6. CASE Issue(s) BY <1>6 DEF Issue, IssueTicket, Unused
<1>7. CASE Unlease(s) BY <1>7 DEF Unlease
<1>8. CASE Spawn(s) BY <1>8 DEF Spawn
<1>9. CASE WatchReplacement(s) BY <1>9 DEF WatchReplacement, Healthy, Answers
<1>10. CASE Reap(s) BY <1>10 DEF Reap, Kill
<1>11. CASE Run(s) BY <1>11 DEF Run, Unused
<1>12. CASE Shutdown(s) BY <1>12 DEF Shutdown
<1>13. CASE Reserve(s) BY <1>13 DEF Reserve
<1> QED BY <1>1, <1>2, <1>3, <1>4, <1>5, <1>6, <1>7, <1>8, <1>9, <1>10, <1>11, <1>12, <1>13
        DEF StopStep

LEMMA GatewayDescriptor ==
  ASSUME OwnershipInv, LaunchesKept, NEW g \in Gateway,
         GatewayStep(g) \/ Want(g)
  PROVE  DescriptorFollows'
<1> USE DEF LaunchesKept, GateIsHeld, HoldsGate, KinAreKept, Starting, Unhurried,
            Watching, LeaseIsReserved, DescriptorFollows, OwnershipInv, OwnersHold, Owning,
            Writing, TypeOK, Process, At, Goto, Without, files, kin, flags
<1>1. CASE Look(g) BY <1>1 DEF Look
<1>2. CASE Probe(g) BY <1>2 DEF Probe
<1>3. CASE Unprobe(g) BY <1>3 DEF Unprobe
<1>4. CASE GiveUp(g) BY <1>4 DEF GiveUp
<1>5. CASE Launch(g) BY <1>5 DEF Launch, IssueTicket, Unused, Kill, Alive
<1>6. CASE Spawn(g) BY <1>6 DEF Spawn
<1>7. CASE WatchChild(g) BY <1>7 DEF WatchChild, Kill, Alive
<1>8. CASE LeaveGate(g) BY <1>8 DEF LeaveGate
<1>9. CASE Want(g) BY <1>9 DEF Want
<1> QED BY <1>1, <1>2, <1>3, <1>4, <1>5, <1>6, <1>7, <1>8, <1>9 DEF GatewayStep

LEMMA KeeperDescriptor ==
  ASSUME OwnershipInv, LaunchesKept, NEW k \in Keeper,
         KeeperStep(k) \/ Maintain(k)
  PROVE  DescriptorFollows'
<1> USE DEF LaunchesKept, GateIsHeld, HoldsGate, KinAreKept, Starting, Unhurried,
            Watching, LeaseIsReserved, DescriptorFollows, OwnershipInv, OwnersHold, Owning,
            Writing, TypeOK, Process, At, Goto, Without, files, kin, flags
<1>1. CASE ClaimOffline(k) BY <1>1 DEF ClaimOffline
<1>2. CASE Edit(k) BY <1>2 DEF Edit
<1>3. CASE EndMaintenance(k) BY <1>3 DEF EndMaintenance
<1>4. CASE Maintain(k) BY <1>4 DEF Maintain
<1> QED BY <1>1, <1>2, <1>3, <1>4 DEF KeeperStep

LEMMA InitLaunch == Init => LaunchInv
  BY DEF Init, LaunchInv, LaunchesKept, GateIsHeld, HoldsGate, KinAreKept, Starting,
     Unhurried, Watching, LeaseIsReserved, DescriptorFollows, At, Process

LEMMA LaunchStep == OwnershipInv /\ LaunchInv /\ [Next]_vars => LaunchInv'
<1> SUFFICES ASSUME OwnershipInv, LaunchInv, [Next]_vars, crashes' = 0 PROVE LaunchesKept'
  BY DEF LaunchInv
<1>1. CASE UNCHANGED vars
  <2>1. LaunchesKept
    BY <1>1 DEF LaunchInv, vars
  <2> QED
    BY <1>1, <2>1 DEF LaunchesKept, GateIsHeld, HoldsGate, KinAreKept, Watching,
       LeaseIsReserved, DescriptorFollows, At, vars, files, kin, flags
<1>2. ASSUME NEW s \in Server, StartStep(s) PROVE LaunchesKept'
  <2>1. LaunchesKept
    BY <1>2 DEF LaunchInv, StartStep, EnterGate, Check, ReadTicket, ProbeGate, Consume, Claim,
       Load, Publish
  <2> QED
    BY <1>2, <2>1, StartGate, StartKin, StartLease, StartDescriptor DEF LaunchesKept
<1>3. ASSUME NEW s \in Server, StopStep(s) \/ Run(s) \/ Shutdown(s) \/ Reserve(s)
      PROVE  LaunchesKept'
  <2>1. LaunchesKept
    BY <1>3 DEF LaunchInv, StopStep, Run, Shutdown, Reserve, Restart, Joined, Unpublish, Leave,
       Exit, Issue, Unlease, Spawn, WatchReplacement, Reap
  <2> QED
    BY <1>3, <2>1, StopGate, StopKin, StopLease, StopDescriptor DEF LaunchesKept
<1>4. ASSUME NEW g \in Gateway, GatewayStep(g) \/ Want(g) PROVE LaunchesKept'
  <2>1. LaunchesKept
    BY <1>4 DEF LaunchInv, GatewayStep, Want, Look, Probe, Unprobe, GiveUp, Launch, Spawn,
       WatchChild, LeaveGate
  <2> QED
    BY <1>4, <2>1, GatewayGate, GatewayKin, GatewayLease, GatewayDescriptor DEF LaunchesKept
<1>5. ASSUME NEW k \in Keeper, KeeperStep(k) \/ Maintain(k) PROVE LaunchesKept'
  <2>1. LaunchesKept
    BY <1>5 DEF LaunchInv, KeeperStep, Maintain, ClaimOffline, Edit, EndMaintenance
  <2> QED
    BY <1>5, <2>1, KeeperGate, KeeperKin, KeeperLease, KeeperDescriptor DEF LaunchesKept
<1>6. ASSUME NEW p \in Process, Crash(p) PROVE FALSE
  BY <1>6 DEF Crash, OwnershipInv, TypeOK
<1> QED BY <1>1, <1>2, <1>3, <1>4, <1>5, <1>6 DEF Next

LEMMA LaunchesHold == Spec => [](OwnershipInv /\ LaunchInv)
<1>1. Init => OwnershipInv /\ LaunchInv
  BY InitTyped, InitOwned, InitLaunch DEF OwnershipInv
<1>2. OwnershipInv /\ LaunchInv /\ [Next]_vars => (OwnershipInv /\ LaunchInv)'
  BY OwnershipStep, LaunchStep
<1> QED BY <1>1, <1>2, PTL DEF Spec

(* A restart's gate excludes maintenance and other launches: as long as    *)
(* nobody has died, a child that starts finds the lease free, its          *)
(* parent's, its own or briefly probed, however many services, gateways    *)
(* and maintainers contend (writer_claim, launch_locked, _handoff_board).  *)
THEOREM ChildrenStartUndisturbed == Spec => []LaunchesAreUndisturbed
<1>1. OwnershipInv /\ LaunchInv => LaunchesAreUndisturbed
  <2> SUFFICES ASSUME LaunchInv, crashes = 0, NEW c \in Server, pc[c] \in Starting,
                      parent[c] # None, TypeOK
               PROVE  lease \in {None, parent[c], c} \cup Gateway
    BY DEF LaunchesAreUndisturbed, Starting, OwnershipInv
  <2>1. child[parent[c]] = c /\ Watching(parent[c]) /\ parent[c] \in Server \cup Gateway
    BY DEF LaunchInv, LaunchesKept, KinAreKept, TypeOK
  <2> QED BY <2>1 DEF LaunchInv, LaunchesKept, LeaseIsReserved
<1> QED BY <1>1, LaunchesHold, PTL

(* _remove_failed_replacement and remove_service: at the end of a handoff  *)
(* the descriptor names no process that was killed on the way.             *)
THEOREM HandoffsEndClean == Spec => []HandoffsLeaveNoCorpse
<1>1. OwnershipInv /\ LaunchInv => HandoffsLeaveNoCorpse
  BY DEF OwnershipInv, TypeOK, LaunchInv, LaunchesKept, DescriptorFollows, HandoffsLeaveNoCorpse,
     At
<1> QED BY <1>1, LaunchesHold, PTL
=============================================================================
