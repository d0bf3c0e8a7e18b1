--------------------------- MODULE ServiceShutdown ---------------------------
(***************************************************************************)
(* One board service from its first request to the moment it gives up      *)
(* writing: request threads, the command gate, the drain of the transport, *)
(* the flush before a shutdown, the restart thread and the autopush thread *)
(* (api_endpoint.py).  WriterOwnership takes over where this one leaves.   *)
(*                                                                         *)
(* A version of the board is the number of writes the file has seen.       *)
(***************************************************************************)
EXTENDS Integers

CONSTANTS
  Conn,        \* connections, each of one request
  Loop,        \* the autopush thread
  None,
  Autopush,    \* --autopush was given
  Remote,      \* the board's repository can be pushed
  MaxRepairs   \* hand edits that leave a defect for a read to repair

ASSUME ShutdownAssumption ==
  /\ Loop \notin Conn /\ None \notin Conn \cup {Loop}
  /\ Autopush \in BOOLEAN /\ Remote \in BOOLEAN /\ MaxRepairs \in Nat

VARIABLES
  pc, kind, answer,              \* of a connection; pc of the loop too
  ran,                           \* connections whose command was saved
  gate, pushing,                 \* who has _command_gate, _push_operation_lock
  stopping, restart, halt,       \* shutdown flag, restart, a call of server.shutdown
  listener, interrupted,
  disk, command, repairs,        \* newest version, newest of a command; repairs so far
  committed, pushed, status,     \* what git has; push_status()
  seen, dirty, retry             \* of the loop

conns   == <<kind, answer, ran>>
service == <<stopping, restart, halt, listener, interrupted>>
board   == <<disk, command, repairs>>
git     == <<committed, pushed>>
watch   == <<seen, dirty, retry>>
vars    == <<pc, conns, gate, pushing, service, board, git, status, watch>>

Actor == Conn \cup {Loop}

At(a, step) == pc[a] = step
Goto(a, step) == pc' = [pc EXCEPT ![a] = step]
Answer(c, what) == answer' = [answer EXCEPT ![c] = what]

(* _reading: sockets whose request is not admitted yet and not cut off.    *)
Reading(c) == pc[c] \in {"reading", "gate"} /\ answer[c] # "cut"

Init ==
  /\ pc = [a \in Actor |-> IF a # Loop THEN "idle"
                           ELSE IF Autopush /\ Remote THEN "tick" ELSE "ended"]
  /\ kind = [c \in Conn |-> "none"] /\ answer = [c \in Conn |-> "none"] /\ ran = {}
  /\ gate = None /\ pushing = None
  /\ stopping = FALSE /\ restart = "no" /\ halt = FALSE
  /\ listener = "up" /\ interrupted = FALSE
  /\ disk = 1 /\ command = 0 /\ repairs = 0
  /\ committed = 0 /\ pushed = 0
  /\ status = IF Autopush /\ Remote THEN "ok" ELSE "off"
  /\ seen = 1 /\ dirty = TRUE /\ retry = FALSE

-----------------------------------------------------------------------------
(* Requests.                                                               *)

(* process_request: nobody is accepted once a drain has begun.             *)
Connect(c) ==
  /\ At(c, "idle") /\ listener = "up"
  /\ \E k \in {"get", "command", "shutdown"} : kind' = [kind EXCEPT ![c] = k]
  /\ Goto(c, "reading")
  /\ UNCHANGED <<answer, ran, gate, pushing, service, board, git, status, watch>>

(* The input ends: a command goes to the gate, others are admitted here.   *)
Receive(c) ==
  /\ At(c, "reading") /\ Reading(c)
  /\ \/ kind[c] = "command" /\ Goto(c, "gate")
     \/ kind[c] = "get" /\ Goto(c, "running")
     \/ kind[c] = "shutdown" /\ Goto(c, "asking")
  /\ UNCHANGED <<conns, gate, pushing, service, board, git, status, watch>>

(* A client goes away, or its socket was shut down under the reader.       *)
Lose(c) ==
  /\ At(c, "reading")
  /\ Goto(c, "done") /\ Answer(c, "cut")
  /\ UNCHANGED <<kind, ran, gate, pushing, service, board, git, status, watch>>

(* MUTANT of EnterGate: an input that expired while it waited is admitted. *)
EnterGateExpired(c) ==
  /\ At(c, "gate") /\ gate = None
  /\ \/ stopping /\ Answer(c, "refused") /\ Goto(c, "done") /\ UNCHANGED gate
     \/ ~stopping /\ gate' = c /\ Goto(c, "running") /\ UNCHANGED answer
  /\ UNCHANGED <<kind, ran, pushing, service, board, git, status, watch>>

(* MUTANT of EnterGate: the flag was read before the gate was taken.       *)
EnterGateUnchecked(c) ==
  /\ At(c, "gate") /\ gate = None
  /\ \/ ~Reading(c) /\ Goto(c, "done") /\ UNCHANGED gate
     \/ Reading(c) /\ gate' = c /\ Goto(c, "running")
  /\ UNCHANGED <<conns, pushing, service, board, git, status, watch>>

(* do_POST, inside the gate: admission, the flag, then the command.        *)
EnterGate(c) ==
  /\ At(c, "gate") /\ gate = None
  /\ \/ ~Reading(c) /\ Goto(c, "done") /\ UNCHANGED <<gate, answer>>
     \/ /\ Reading(c) /\ stopping
        /\ Answer(c, "refused") /\ Goto(c, "done") /\ UNCHANGED gate
     \/ Reading(c) /\ ~stopping /\ gate' = c /\ Goto(c, "running") /\ UNCHANGED answer
  /\ UNCHANGED <<kind, ran, pushing, service, board, git, status, watch>>

(* The command is saved, and defects with it, or refused.                  *)
RunCommand(c) ==
  /\ At(c, "running") /\ kind[c] = "command"
  /\ \/ /\ disk' = disk + 1 /\ command' = disk'
        /\ ran' = ran \cup {c}
        /\ answer' = IF answer[c] = "cut" THEN answer ELSE [answer EXCEPT ![c] = "ok"]
     \/ Answer(c, "refused") /\ UNCHANGED <<disk, command, ran>>
  /\ gate' = None /\ Goto(c, "done")
  /\ UNCHANGED <<kind, pushing, service, repairs, git, status, watch>>

(* A read admits the file first, outside the gate.  If a person has edited *)
(* it and left a blocker below its floor, the read repairs it.             *)
RunGet(c) ==
  /\ At(c, "running") /\ kind[c] = "get"
  /\ \/ /\ repairs < MaxRepairs /\ repairs' = repairs + 1
        /\ disk' = disk + 1
     \/ UNCHANGED <<disk, repairs>>
  /\ Answer(c, "ok") /\ Goto(c, "done")
  /\ UNCHANGED <<kind, ran, gate, pushing, service, command, git, status, watch>>

-----------------------------------------------------------------------------
(* Commit and push, by the loop or by a shutdown.                          *)

(* MUTANT of Failed: the loop forgets a push that failed.                  *)
FailedForGood(a) ==
  /\ pushing' = None /\ status' = "failed"
  /\ Goto(a, IF a = Loop THEN "tick" ELSE "flushFailed")
  /\ UNCHANGED retry

(* _push_once returns: publish the verdict and go back to the caller.      *)
Failed(a) ==
  /\ pushing' = None /\ status' = "failed"
  /\ Goto(a, IF a = Loop THEN "tick" ELSE "flushFailed")
  /\ retry' = (retry \/ a = Loop)

Lock(a) ==
  /\ At(a, "flush") /\ pushing = None
  /\ pushing' = a /\ Goto(a, "commit")
  /\ UNCHANGED <<conns, gate, service, board, git, status, watch>>

(* _commit_board_snapshot, under the gate.                                 *)
Commit(a) ==
  /\ At(a, "commit") /\ gate = None
  /\ committed' = disk /\ Goto(a, "push")
  /\ UNCHANGED <<conns, gate, pushing, service, board, pushed, status, watch>>

Push(a) ==
  /\ At(a, "push") /\ Remote
  /\ pushed' = committed /\ status' = "ok" /\ pushing' = None
  /\ Goto(a, IF a = Loop THEN "tick" ELSE "flushed")
  /\ UNCHANGED <<conns, gate, service, board, committed, watch>>

(* The repository lock, a git command of the commit, or the push fails.    *)
PushFails(a) ==
  /\ At(a, "push") \/ (At(a, "commit") /\ gate = None)
  /\ Failed(a)
  /\ UNCHANGED <<conns, gate, service, board, git, seen, dirty>>

-----------------------------------------------------------------------------
(* The autopush loop.                                                      *)

Stopped == listener = "publisher"

(* A changed file is noticed before anything that is due.                  *)
Notice ==
  /\ At(Loop, "tick") /\ ~Stopped /\ seen # disk
  /\ seen' = disk /\ dirty' = TRUE /\ retry' = FALSE /\ status' = "pending"
  /\ UNCHANGED <<pc, conns, gate, pushing, service, board, git>>

(* Quiet for long enough, or time to retry.                                *)
Due ==
  /\ At(Loop, "tick") /\ ~Stopped /\ seen = disk /\ (dirty \/ retry)
  /\ dirty' = FALSE /\ retry' = FALSE
  /\ status' = status \/ (retry /\ status' = "pending")
  /\ Goto(Loop, "flush")
  /\ UNCHANGED <<conns, gate, pushing, service, board, git, seen>>

EndLoop ==
  /\ At(Loop, "tick") /\ Stopped
  /\ Goto(Loop, "ended")
  /\ UNCHANGED <<conns, gate, pushing, service, board, git, status, watch>>

-----------------------------------------------------------------------------
(* Shutdown, restart and the end of the service.                           *)

(* MUTANT of Ask: the gate is kept until the flush is over.                *)
AskHolding(c) ==
  /\ At(c, "asking") /\ gate = None
  /\ \/ stopping /\ Answer(c, "ok") /\ Goto(c, "done") /\ UNCHANGED <<gate, stopping, status>>
     \/ /\ ~stopping /\ stopping' = TRUE /\ gate' = c
        /\ IF Autopush THEN Goto(c, "flush") /\ status' = "pending"
                       ELSE Goto(c, "flushed") /\ UNCHANGED status
        /\ UNCHANGED answer
  /\ UNCHANGED <<kind, ran, pushing, restart, halt, listener, interrupted, board, git, watch>>

(* request_service_shutdown: the flag is set under the gate, the flush     *)
(* follows without it.                                                     *)
Ask(c) ==
  /\ At(c, "asking") /\ gate = None
  /\ \/ stopping /\ Answer(c, "ok") /\ Goto(c, "done") /\ UNCHANGED <<stopping, status>>
     \/ /\ ~stopping /\ stopping' = TRUE
        /\ IF Autopush THEN Goto(c, "flush") /\ status' = "pending"
                       ELSE Goto(c, "flushed") /\ UNCHANGED status
        /\ UNCHANGED answer
  /\ UNCHANGED <<kind, ran, gate, pushing, restart, halt, listener, interrupted, board, git,
                 watch>>

Schedule(c) ==
  /\ At(c, "flushed")
  /\ halt' = TRUE /\ Answer(c, "ok") /\ Goto(c, "done")
  /\ UNCHANGED <<kind, ran, gate, pushing, stopping, restart, listener, interrupted, board,
                 git, status, watch>>

Cancel(c) ==
  /\ At(c, "flushFailed")
  /\ stopping' = FALSE /\ Answer(c, "refused") /\ Goto(c, "done")
  /\ UNCHANGED <<kind, ran, gate, pushing, restart, halt, listener, interrupted, board, git,
                 status, watch>>

(* restart_when_stable: shutdown has priority over a restart that has not  *)
(* been requested yet; the flag may still be set right after this look.    *)
CheckRestart ==
  /\ restart = "no" /\ ~stopping /\ restart' = "checked"
  /\ UNCHANGED <<pc, conns, gate, pushing, stopping, halt, listener, interrupted, board, git,
                 status, watch>>

RequestRestart ==
  /\ restart = "checked" /\ restart' = "requested" /\ halt' = TRUE
  /\ UNCHANGED <<pc, conns, gate, pushing, stopping, listener, interrupted, board, git,
                 status, watch>>

(* BoardHttpServer.shutdown, or server_close after an interrupt.           *)
Drain ==
  /\ listener = "up"
  /\ \/ halt /\ UNCHANGED interrupted
     \/ ~halt /\ interrupted' = TRUE
  /\ listener' = "draining"
  /\ UNCHANGED <<pc, conns, gate, pushing, stopping, restart, halt, board, git, status, watch>>

(* MUTANT of Expire: only requests that were read completely are cut off.  *)
ExpireReceived ==
  /\ listener = "draining" /\ \E c \in Conn : Reading(c) /\ At(c, "gate")
  /\ answer' = [c \in Conn |-> IF Reading(c) /\ At(c, "gate") THEN "cut" ELSE answer[c]]
  /\ UNCHANGED <<pc, kind, ran, gate, pushing, service, board, git, status, watch>>

(* _expire_incomplete: the deadline cuts off whatever is not admitted.     *)
Expire ==
  /\ listener = "draining" /\ \E c \in Conn : Reading(c)
  /\ answer' = [c \in Conn |-> IF Reading(c) THEN "cut" ELSE answer[c]]
  /\ UNCHANGED <<pc, kind, ran, gate, pushing, service, board, git, status, watch>>

(* MUTANT of Join: only the commands that are running are waited for.      *)
JoinRunning ==
  /\ listener = "draining"
  /\ \A c \in Conn : ~At(c, "running")
  /\ listener' = "publisher"
  /\ UNCHANGED <<pc, conns, gate, pushing, stopping, restart, halt, interrupted, board, git,
                 status, watch>>

(* server_close joins every request thread; then the loop is told to stop. *)
Join ==
  /\ listener = "draining"
  /\ \A c \in Conn : pc[c] \in {"idle", "done"}
  /\ listener' = "publisher"
  /\ UNCHANGED <<pc, conns, gate, pushing, stopping, restart, halt, interrupted, board, git,
                 status, watch>>

(* worker.join(), and the writer lease may go to somebody else.            *)
Leave ==
  /\ listener = "publisher" /\ At(Loop, "ended")
  /\ listener' = IF restart = "requested" /\ ~stopping /\ ~interrupted THEN "handoff" ELSE "left"
  /\ UNCHANGED <<pc, conns, gate, pushing, stopping, restart, halt, interrupted, board, git,
                 status, watch>>

-----------------------------------------------------------------------------
PushStep(a) == Lock(a) \/ Commit(a) \/ Push(a) \/ PushFails(a)
Request(c) == EnterGate(c) \/ RunCommand(c) \/ RunGet(c) \/ Ask(c) \/ Schedule(c) \/ Cancel(c)
              \/ PushStep(c) \/ (answer[c] = "cut" /\ Lose(c))
LoopStep == Notice \/ Due \/ EndLoop \/ PushStep(Loop)
Ending == (halt /\ Drain) \/ Expire \/ Join \/ Leave

Next ==
  \/ \E c \in Conn : Connect(c) \/ Receive(c) \/ Lose(c) \/ Request(c)
  \/ LoopStep
  \/ CheckRestart \/ RequestRestart
  \/ Drain \/ Expire \/ Join \/ Leave

Spec == Init /\ [][Next]_vars

(* Threads and timers go on; git ends or is killed; the loop sleeps        *)
(* between two pushes, so that a flush gets its turn.  Nobody has to ask   *)
(* for anything or to send what he began.                                  *)
FairSpec ==
  /\ Spec
  /\ \A c \in Conn : WF_vars(Request(c)) /\ SF_vars(Lock(c))
  /\ WF_vars(LoopStep) /\ WF_vars(Ending)

-----------------------------------------------------------------------------
Steps == {"idle", "reading", "gate", "running", "asking", "flush", "commit", "push",
          "flushed", "flushFailed", "done", "tick", "ended"}

FlagsOK ==
  /\ stopping \in BOOLEAN /\ halt \in BOOLEAN /\ interrupted \in BOOLEAN
  /\ dirty \in BOOLEAN /\ retry \in BOOLEAN

DataOK ==
  /\ pc \in [Actor -> Steps]
  /\ kind \in [Conn -> {"none", "get", "command", "shutdown"}]
  /\ answer \in [Conn -> {"none", "ok", "refused", "cut"}]
  /\ ran \subseteq Conn
  /\ gate \in Conn \cup {None} /\ pushing \in Actor \cup {None}
  /\ restart \in {"no", "checked", "requested"}
  /\ listener \in {"up", "draining", "publisher", "handoff", "left"}
  /\ disk \in Nat /\ command \in 0..disk /\ repairs \in 0..MaxRepairs
  /\ seen \in 0..disk /\ committed \in 0..disk /\ pushed \in 0..committed
  /\ status \in {"ok", "off", "failed", "pending"}

TypeOK == DataOK /\ FlagsOK

(* BoardHttpServer, "join every admitted worker": when the lease may go to *)
(* another process, no thread of this one is left that writes the board,   *)
(* runs git on it or answers for it.                                       *)
NothingRunsAfterwards ==
  /\ listener \in {"publisher", "handoff", "left"} =>
       gate = None /\ \A c \in Conn : pc[c] \in {"idle", "done"}
  /\ listener \in {"handoff", "left"} => pushing = None /\ At(Loop, "ended")

(* A client that is cut off by the drain may safely repeat its command: it *)
(* was not executed.                                                       *)
CutMeansNotExecuted == \A c \in ran : answer[c] # "cut"

(* README, "stops accepting mutations, performs one final commit-and-push":*)
(* a service that ended by shutdown has pushed every command it accepted.  *)
FinalPushHoldsCommands ==
  listener = "left" /\ stopping /\ ~interrupted /\ Autopush => command <= pushed

(* Whoever asks for a shutdown gets an answer, and a drain that has begun  *)
(* ends, whatever clients leave half sent.                                 *)
ShutdownIsAnswered == \A c \in Conn : At(c, "asking") ~> At(c, "done")
DrainsEnd == listener = "draining" ~> listener \in {"handoff", "left"}

(* _push_loop, as long as git succeeds now and then when it is tried again *)
(* and again: every version of the file is pushed in the end, with no      *)
(* further write needed after a failure, unless the service ends before.   *)
GitSucceeds == SF_vars(Commit(Loop)) /\ SF_vars(Push(Loop))
WritesArePushed == GitSucceeds => []<>(pushed = disk \/ listener # "up")
=============================================================================
