-------------------------------- MODULE Monitor --------------------------------
(***************************************************************************)
(* A monitor beside a board service (monitor.py, monitor_pool.py): it sees *)
(* the file change, asks the service's activity feed who did it, and       *)
(* queues an alert unless the automation did all of it.  Its memory is     *)
(* saved in a status file, from which its successor goes on.               *)
(*                                                                         *)
(* The feed is here what ActivityFeed promises (CoverageIsHonest): it may  *)
(* decline at any time, and if it claims to be complete it names whoever   *)
(* replaced the file since the moment it was asked about.  Whoever it does *)
(* not know is an actor about whom it declines.  One member of a pool; the *)
(* worker serves the others between two cycles, which is only time that    *)
(* passes.                                                                 *)
(***************************************************************************)
EXTENDS Integers, Sequences

CONSTANTS
  Actor,        \* who replaces the board file
  Automation,   \* automation_actor
  None,
  MaxTime,      \* bound on the clock
  MaxWrites,    \* bound on versions of the file
  MaxMisses,    \* MAX_SERVICE_MISSES
  MaxClaims     \* bound on starts of a monitor

(* PendingAlert, and MonitorRuntime as far as it is kept here.             *)
Interval == [start : Nat, first : Nat, last : Nat, low : Nat]
Memory == [signature : Nat, identity : Nat, pending : Interval \cup {None},
           lookedAt : Nat, seenAt : Nat]

ASSUME MonitorAssumption ==
  /\ Automation \in Actor
  /\ None \notin Interval \cup Memory /\ \A names \in SUBSET Actor : names # None
  /\ MaxTime \in Nat /\ MaxWrites \in Nat
  /\ MaxMisses \in Nat \ {0} /\ MaxClaims \in Nat

VARIABLES
  now,
  wrote,        \* for every version of the file who wrote it and when (history)
  pc,
  runtime,      \* MonitorRuntime; None while no monitor runs
  look,         \* the observation under way
  due,          \* this cycle reconciles
  misses, well, \* service_misses; whether last_health does not say otherwise
  answer,       \* what read_activity returned
  after,        \* where to go on once the status is saved
  saved,        \* the status file; None before the first
  heard,        \* what was read of the target file
  claims,       \* starts so far
  owed          \* versions somebody has to be told of: not by the automation,
                \* after the first status ever, not alerted yet (history)

env     == <<now, wrote>>
flow    == <<due, after>>
health  == <<misses, well>>
memory  == <<runtime, look, health, answer, heard>>
world   == <<saved, claims>>
vars    == <<env, pc, flow, memory, world, owed>>

Version == Len(wrote)
Request == {"stop", "reload", "drain"}
NoLook == [why |-> "none"]

Init ==
  /\ now = 1 /\ wrote = <<[by |-> Automation, at |-> 0]>>
  /\ pc = "off" /\ runtime = None /\ look = NoLook /\ due = FALSE
  /\ misses = 0 /\ well = TRUE
  /\ answer = None /\ after = "off" /\ saved = None
  /\ heard = {}
  /\ claims = 0 /\ owed = {}

-----------------------------------------------------------------------------
(* Time, and the board.                                                    *)

Tick == now < MaxTime /\ now' = now + 1
  /\ UNCHANGED <<wrote, pc, flow, memory, world, owed>>

Write ==
  /\ Version < MaxWrites
  /\ \E who \in Actor :
       /\ wrote' = Append(wrote, [by |-> who, at |-> now])
       /\ owed' = IF saved # None /\ who # Automation THEN owed \cup {Version'} ELSE owed
  /\ UNCHANGED <<now, pc, flow, memory, world>>

Since(start) == {v \in 1 .. Version : wrote[v].at >= start}

-----------------------------------------------------------------------------
(* MUTANT of Noted: an interval under way is left as it is.                *)
NotedFirst(pending, from, to, low) ==
  IF pending = None
  THEN [start |-> from, first |-> to, last |-> to, low |-> low]
  ELSE pending

(* note_board_write: one interval from the previous observation to this.   *)
(* "low" names the version the interval begins behind (history).           *)
Noted(pending, from, to, low) ==
  IF pending = None
  THEN [start |-> from, first |-> to, last |-> to, low |-> low]
  ELSE [pending EXCEPT !.last = to]

(* MUTANT of IntervalStart: the interval begins when the last stat was done. *)
IntervalStartAfterStat == runtime.seenAt

(* last_observation_started_at: taken before the previous stat.            *)
IntervalStart == runtime.lookedAt

(* MonitorRuntime after the observation under way: its stat, the identity  *)
(* that follows it, and the moments before and after.                      *)
Runtime(pending, at) ==
  [signature |-> look.signature, identity |-> Version, pending |-> pending,
   lookedAt |-> look.from, seenAt |-> at]

SaveThen(next) == pc' = "save" /\ after' = next

(* The process ends; the operating system frees its lifetime lock.         *)
Ended ==
  /\ pc' = "off" /\ runtime' = None /\ look' = NoLook /\ due' = FALSE
  /\ misses' = 0 /\ well' = TRUE /\ answer' = None /\ after' = "off"
  /\ heard' = {}

(* Coordinator.observe: the moment before the stat, and the signature.     *)
Look(why) ==
  /\ pc' = "look"
  /\ look' = [why |-> why, from |-> now, signature |-> Version]

(* Where Coordinator.cycle_entry goes on after an observation.             *)
Observer(why, pending) ==
  CASE why = "dirty"  -> IF due THEN "reconcile" ELSE "control"
    [] why = "due"    -> "control"
    [] why = "reload" -> IF pending = None THEN "leave" ELSE "idle"
    [] why = "drain"  -> IF pending = None THEN "drained" ELSE "query"
    [] why = "final"  -> "leave"

-----------------------------------------------------------------------------
(* Ownership and recovery.                                                 *)

(* validate_orphaned_status: only a status whose interval and cursor agree *)
(* is gone on from.                                                        *)
Recoverable(status) ==
  /\ status.lookedAt <= status.seenAt
  /\ status.pending # None =>
       /\ status.pending.start <= status.pending.first
       /\ status.pending.first <= status.pending.last
       /\ status.pending.last = status.seenAt
       /\ status.pending.start <= status.lookedAt

(* acquire_lock: the lifetime lock is free once its holder is gone.        *)
Unowned == pc = "off"

(* A start, by hand or in place of another: the first stat of              *)
(* resume_runtime.                                                         *)
Claim ==
  /\ Unowned /\ claims < MaxClaims /\ claims' = claims + 1
  /\ saved # None => Recoverable(saved)
  /\ pc' = "resume"
  /\ look' = [why |-> "resume", from |-> now, signature |-> Version]
  /\ UNCHANGED <<env, flow, runtime, health, answer, heard, saved, owed>>

(* resume_runtime: what changed since the saved signature or identity, and *)
(* what was pending, is pending.                                           *)
Resume ==
  /\ pc = "resume"
  /\ LET changed == saved # None /\ (saved.signature # look.signature \/ saved.identity # Version)
         gap == IF changed THEN Noted(None, saved.lookedAt, now, saved.signature) ELSE None
         pending ==
           IF saved = None \/ saved.pending = None THEN gap
           ELSE IF gap = None THEN saved.pending ELSE [saved.pending EXCEPT !.last = now]
     IN  runtime' = IF saved = None \/ changed THEN Runtime(pending, now)
                    ELSE [Runtime(pending, saved.seenAt) EXCEPT !.lookedAt = saved.lookedAt]
  /\ look' = NoLook /\ SaveThen("idle")
  /\ UNCHANGED <<env, due, health, answer, heard, world, owed>>

(* publish_runtime_status: write_atomic_json replaces the file, or raises. *)
Saved ==
  /\ saved' = runtime
  /\ owed' = IF saved # None THEN owed
             ELSE {v \in runtime.signature + 1 .. Version : wrote[v].by # Automation}
NotSaved == UNCHANGED <<saved, owed>>

(* An exception ends the monitor, but a drain goes on to its last look.    *)
Failing ==
  IF "drain" \in heard /\ look.why # "final"
  THEN pc' = "drained" ELSE pc' = "leave"

Save ==
  /\ pc = "save" /\ after' = "off"
  /\ \/ Saved /\ pc' = after
     \/ NotSaved /\ Failing
  /\ UNCHANGED <<env, due, memory, claims>>

(* "stopped", "reload-ready" or "failed": the last status, if it can be    *)
(* saved, and the end of the process.                                      *)
Leave ==
  /\ pc = "leave"
  /\ Saved \/ NotSaved
  /\ Ended
  /\ UNCHANGED <<env, claims>>

Crash ==
  /\ pc # "off" /\ Ended
  /\ UNCHANGED <<env, world, owed>>

-----------------------------------------------------------------------------
(* A cycle of the worker.                                                  *)

(* cycle: the operating system may have told of the file, late, more than  *)
(* once or not at all (DirtyBoards.take); every thirty seconds the monitor *)
(* looks by itself.                                                        *)
Cycle ==
  /\ pc = "idle"
  /\ due' \in BOOLEAN
  /\ \/ Look("dirty")
     \/ due' /\ Look("due")
     \/ ~due' /\ pc' = "control" /\ UNCHANGED look
  /\ UNCHANGED <<env, after, runtime, health, answer, heard, world, owed>>

Reconcile ==
  /\ pc = "reconcile" /\ Look("due")
  /\ UNCHANGED <<env, flow, runtime, health, answer, heard, world, owed>>

(* observe: the second stat.  A change of either, or a notification, is    *)
(* noted.                                                                  *)
Observe ==
  /\ pc = "look"
  /\ look' = IF look.why = "final" THEN look ELSE NoLook
  /\ IF look.signature = runtime.signature /\ Version = runtime.identity /\ look.why # "dirty"
     THEN pc' = Observer(look.why, runtime.pending) /\ UNCHANGED <<after, runtime>>
     ELSE /\ runtime' = Runtime(Noted(runtime.pending, IntervalStart, now, runtime.signature), now)
          /\ SaveThen(Observer(look.why, runtime'.pending))
  /\ UNCHANGED <<env, due, health, answer, heard, world, owed>>

(* The board cannot be read, not even after the waits of board_signature.  *)
Unreadable ==
  /\ pc = "look" /\ Failing
  /\ look' = NoLook
  /\ UNCHANGED <<env, due, after, runtime, health, answer, heard, world, owed>>

(* What the target file asks of this owner at one moment.  A launcher or   *)
(* request_pool_stop may ask for something at any time, and it may be      *)
(* taken back: by refresh_reload with cancel, or by a later request_target,*)
(* which writes the whole target.  Of a drain, a stop and a reload, the    *)
(* first is acted upon, whatever else is asked.                            *)
Asked == {{}} \cup {{r} : r \in Request}

(* stop_requested, drain_requested: the target file is read after a        *)
(* notification of its own, and at every reconciliation; otherwise what    *)
(* was read of it stands.                                                  *)
Heard == Asked \cup (IF due THEN {} ELSE {heard})

Control ==
  /\ pc = "control"
  /\ heard' \in Heard
  /\ IF "drain" \in heard' THEN Look("drain")
     ELSE UNCHANGED look /\ pc' = (IF "stop" \in heard' THEN "stopping" ELSE "act")
  /\ UNCHANGED <<env, flow, runtime, health, answer, world, owed>>

(* stop_pending: nothing is flushed while the service is well; the first   *)
(* reconciliation that finds it gone ends the monitor.  The request may be *)
(* gone by the next cycle; this probe does not count as a miss.            *)
Stopping ==
  /\ pc = "stopping"
  /\ well' \in (IF due THEN BOOLEAN ELSE {well}) /\ UNCHANGED misses
  /\ \/ ~well' /\ pc' = "leave" /\ UNCHANGED after
     \/ well' /\ SaveThen("idle")
     \/ well' /\ pc' = "idle" /\ UNCHANGED after
  /\ due' = FALSE
  /\ UNCHANGED <<env, runtime, look, answer, heard, world, owed>>

(* handle_idle_cycle probes a service that may be gone or slow.            *)
Probe ==
  IF due
  THEN /\ well' \in BOOLEAN
       /\ misses' = (IF well' THEN 0 ELSE IF misses < MaxMisses THEN misses + 1 ELSE misses)
  ELSE UNCHANGED health

(* MUTANT of Act: nothing is flushed in a cycle that does not reconcile,   *)
(* and a reconciling one only looks after the service.                     *)
ActIdle ==
  /\ pc = "act" /\ Probe /\ pc' = "settled"
  /\ UNCHANGED <<env, flow, runtime, look, answer, heard, world, owed>>

(* handle_idle_cycle, or without it: the quiet window may have elapsed.    *)
Act ==
  /\ pc = "act" /\ Probe
  /\ \/ pc' = "settled"
     \/ runtime.pending # None /\ pc' = "query"
  /\ UNCHANGED <<env, flow, runtime, look, answer, heard, world, owed>>

(* The end of a cycle: too many misses and nothing pending end the         *)
(* monitor; a reload is only ready after one more look.                    *)
Settled ==
  /\ pc = "settled" /\ due' = FALSE
  /\ IF due /\ misses >= MaxMisses /\ runtime.pending = None
     THEN pc' = "leave" /\ UNCHANGED look
     ELSE IF "reload" \in heard /\ runtime.pending = None
     THEN Look("reload")
     ELSE pc' = "idle" /\ UNCHANGED look
  /\ UNCHANGED <<env, after, runtime, health, answer, heard, world, owed>>

(* drain_entry has observed and delivered; finish_drain looks once more.   *)
Drained ==
  /\ pc = "drained" /\ Look("final")
  /\ UNCHANGED <<env, flow, runtime, health, answer, heard, world, owed>>

-----------------------------------------------------------------------------
(* flush_pending_alert.                                                    *)

(* _validate: an answer that claims to be complete and names nobody, or    *)
(* that is not about the file as it is, is none.                           *)
Validated(names) == {None} \cup ({names} \ {{}})

(* read_activity: localswim-cli activity monitor-between.                  *)
Query ==
  /\ pc = "query" /\ pc' = "deliver"
  /\ answer' \in Validated({wrote[v].by : v \in Since(runtime.pending.start)})
  /\ UNCHANGED <<env, flow, runtime, look, health, heard, world, owed>>

AfterFlush == IF "drain" \in heard THEN "drained" ELSE "settled"

(* bot_only_events: a complete and nonempty answer names nobody else.      *)
BotOnly == answer = {Automation}

Suppress ==
  /\ pc = "deliver" /\ BotOnly
  /\ runtime' = [runtime EXCEPT !.pending = None]
  /\ answer' = None /\ SaveThen(AfterFlush)
  /\ UNCHANGED <<env, due, look, health, heard, world, owed>>

(* queue_alert.  A queue that fails keeps the interval for a successor.    *)
Alert ==
  /\ pc = "deliver" /\ ~BotOnly
  /\ answer' = None
  /\ \/ /\ owed' = owed \ (runtime.pending.low + 1 .. runtime.signature)
        /\ runtime' = [runtime EXCEPT !.pending = None]
        /\ SaveThen(AfterFlush)
     \/ UNCHANGED <<owed, runtime, after>> /\ Failing
  /\ UNCHANGED <<env, due, look, health, heard, world>>

-----------------------------------------------------------------------------
Worker ==
  \/ Resume \/ Save \/ Leave \/ Cycle \/ Reconcile \/ Observe \/ Unreadable \/ Control \/ Stopping
  \/ Act \/ Settled \/ Drained \/ Query \/ Suppress \/ Alert

Next ==
  \/ Tick \/ Write
  \/ Claim \/ Worker \/ Crash

Spec == Init /\ [][Next]_vars

(* The worker is a thread.  A reconciliation comes every thirty seconds,   *)
(* and a quiet window elapses when nothing new is noted.                   *)
FairSpec == Spec /\ WF_vars(Worker) /\ SF_vars(Cycle /\ due') /\ SF_vars(Act /\ pc' = "query")

-----------------------------------------------------------------------------
(* Types.                                                                  *)
Step == {"off", "resume", "save", "leave", "idle", "look", "reconcile", "control", "stopping",
         "act", "settled", "drained", "query", "deliver"}
Looking == [why : {"resume", "dirty", "due", "reload", "drain", "final"},
            from : Nat, signature : Nat]

TypeOK ==
  /\ now \in Nat /\ wrote \in Seq([by : Actor, at : Nat])
  /\ pc \in Step /\ after \in Step
  /\ runtime \in Memory \cup {None} /\ saved \in Memory \cup {None}
  /\ look \in Looking \cup {NoLook}
  /\ due \in BOOLEAN /\ misses \in 0 .. MaxMisses /\ well \in BOOLEAN
  /\ answer \in (SUBSET Actor) \cup {None}
  /\ heard \subseteq Request
  /\ claims \in 0 .. MaxClaims /\ owed \subseteq 1 .. Version

(* Versions a memory stands for: not seen yet, or in its pending interval. *)
Remembered(memo) ==
  (memo.signature + 1 .. Version) \cup
  (IF memo.pending = None THEN {} ELSE memo.pending.low + 1 .. memo.signature)

(* README, "Unknown, empty, incomplete and failed queries alert" and "At-  *)
(* least-once delivery": if anybody but the automation wrote the file, the *)
(* change was alerted, or the running monitor and the saved status both    *)
(* still know of it, whatever was late, failed or died in between.         *)
NothingIsForgotten ==
  /\ runtime # None => owed \subseteq Remembered(runtime)
  /\ saved # None => owed \subseteq Remembered(saved)

(* "Preserve the strict pending invariant: pending end must equal          *)
(* lastSignatureAt": a successor accepts every status a monitor leaves.    *)
StatusIsRecoverable == saved # None => Recoverable(saved)

(* Every change is alerted in the end, unless the monitor ends or hears    *)
(* that it is asked to, and then its status knows of it.                   *)
AlertsComeOut == (owed # {} /\ pc # "off") ~> (owed = {} \/ pc = "off" \/ heard # {})
=============================================================================
