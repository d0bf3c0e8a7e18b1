------------------------ MODULE ServiceShutdownProofs ------------------------
(***************************************************************************)
(* Proofs about ServiceShutdown: for any number of connections and repairs *)
(* of reads, nothing runs once the writer lease may go, a request that was *)
(* cut off did not run, and the final push holds every accepted command.   *)
(***************************************************************************)
EXTENDS ServiceShutdown, TLAPS

USE ShutdownAssumption

(* Who has the command gate, or the push lock, is at a step that needs it. *)
Holders ==
  /\ \A c \in Conn : gate = c <=> At(c, "running") /\ kind[c] = "command"
  /\ \A c \in Conn : At(c, "gate") => kind[c] = "command"
  /\ \A a \in Actor : pushing = a <=> pc[a] \in {"commit", "push"}

(* A saved command was admitted, and the drain cuts off only what is not.  *)
Admitted ==
  \A c \in Conn :
    /\ At(c, "running") => answer[c] # "cut"
    /\ c \in ran => At(c, "done") /\ answer[c] # "cut"

(* A request that has set the shutdown flag and has not answered yet.      *)
Flushing(c) == pc[c] \in {"flush", "commit", "push", "flushed", "flushFailed"}

(* The flag has one owner; while it is set no command runs; so what the    *)
(* owner commits and pushes stays the newest command.                      *)
Quiesced ==
  /\ \A c, d \in Conn : Flushing(c) /\ Flushing(d) => c = d
  /\ \A c \in Conn : Flushing(c) => stopping
  /\ stopping => gate = None
  /\ \A c \in Conn : At(c, "push") => command <= committed
  /\ \A c \in Conn : At(c, "flushed") /\ Autopush => command <= pushed
  /\ stopping /\ Autopush /\ (\A c \in Conn : ~Flushing(c)) => command <= pushed

LEMMA Distinct == Loop \notin Conn /\ None \notin Actor /\ Conn \subseteq Actor
  BY DEF Actor

LEMMA InitTyped == Init => TypeOK
<1> SUFFICES ASSUME Init PROVE TypeOK
  OBVIOUS
<1>1. status \in {"ok", "off"}
  BY DEF Init
<1>2. pc \in [Actor -> Steps]
  BY DEF Init, Steps
<1>3. FlagsOK
  BY DEF Init, FlagsOK
<1> QED BY <1>1, <1>2, <1>3 DEF Init, TypeOK, DataOK, Actor

LEMMA DataStep == ASSUME DataOK, [Next]_vars PROVE DataOK'
<1> USE DEF DataOK, Actor, Steps, At, Goto, Answer, Reading, Stopped, conns, service, board,
        git, watch
<1>1. ASSUME NEW c \in Conn, Connect(c) PROVE DataOK'
  BY <1>1 DEF Connect
<1>2. ASSUME NEW c \in Conn, Receive(c) PROVE DataOK'
  BY <1>2 DEF Receive
<1>3. ASSUME NEW c \in Conn, Lose(c) PROVE DataOK'
  BY <1>3 DEF Lose
<1>4. ASSUME NEW c \in Conn, EnterGate(c) PROVE DataOK'
  BY <1>4 DEF EnterGate
<1>5. ASSUME NEW c \in Conn, RunCommand(c) PROVE DataOK'
  BY <1>5 DEF RunCommand
<1>6. ASSUME NEW c \in Conn, RunGet(c) PROVE DataOK'
  BY <1>6 DEF RunGet
<1>7. ASSUME NEW c \in Conn, Ask(c) PROVE DataOK'
  BY <1>7 DEF Ask
<1>8. ASSUME NEW c \in Conn, Schedule(c) PROVE DataOK'
  BY <1>8 DEF Schedule
<1>9. ASSUME NEW c \in Conn, Cancel(c) PROVE DataOK'
  BY <1>9 DEF Cancel
<1>10. ASSUME NEW a \in Actor, Lock(a) PROVE DataOK'
  BY <1>10 DEF Lock
<1>11. ASSUME NEW a \in Actor, Commit(a) PROVE DataOK'
  BY <1>11 DEF Commit
<1>12. ASSUME NEW a \in Actor, Push(a) PROVE DataOK'
  BY <1>12 DEF Push
<1>13. ASSUME NEW a \in Actor, PushFails(a) PROVE DataOK'
  BY <1>13 DEF PushFails, Failed
<1>14. CASE Notice BY <1>14 DEF Notice
<1>15. CASE Due BY <1>15 DEF Due
<1>16. CASE EndLoop BY <1>16 DEF EndLoop
<1>17. CASE CheckRestart BY <1>17 DEF CheckRestart
<1>18. CASE RequestRestart BY <1>18 DEF RequestRestart
<1>19. CASE Drain BY <1>19 DEF Drain
<1>20. CASE Expire BY <1>20 DEF Expire
<1>21. CASE Join BY <1>21 DEF Join
<1>22. CASE Leave BY <1>22 DEF Leave
<1>23. CASE UNCHANGED vars BY <1>23 DEF vars
<1> QED BY <1>1, <1>2, <1>3, <1>4, <1>5, <1>6, <1>7, <1>8, <1>9, <1>10, <1>11, <1>12,
         <1>13, <1>14, <1>15, <1>16, <1>17, <1>18, <1>19, <1>20, <1>21, <1>22, <1>23
         DEF Next, Request, LoopStep, PushStep, Actor

LEMMA FlagsStep == ASSUME FlagsOK, [Next]_vars PROVE FlagsOK'
<1> USE DEF FlagsOK, service, board, watch
<1>1. ASSUME NEW c \in Conn, Connect(c) PROVE FlagsOK'
  BY <1>1, Zenon DEF Connect
<1>2. ASSUME NEW c \in Conn, Receive(c) PROVE FlagsOK'
  BY <1>2, Zenon DEF Receive
<1>3. ASSUME NEW c \in Conn, Lose(c) PROVE FlagsOK'
  BY <1>3, Zenon DEF Lose
<1>4. ASSUME NEW c \in Conn, EnterGate(c) PROVE FlagsOK'
  BY <1>4, Zenon DEF EnterGate
<1>5. ASSUME NEW c \in Conn, RunCommand(c) PROVE FlagsOK'
  BY <1>5, Zenon DEF RunCommand
<1>6. ASSUME NEW c \in Conn, RunGet(c) PROVE FlagsOK'
  BY <1>6, Zenon DEF RunGet
<1>7. ASSUME NEW c \in Conn, Ask(c) PROVE FlagsOK'
  BY <1>7, Zenon DEF Ask
<1>8. ASSUME NEW c \in Conn, Schedule(c) PROVE FlagsOK'
  BY <1>8, Zenon DEF Schedule
<1>9. ASSUME NEW c \in Conn, Cancel(c) PROVE FlagsOK'
  BY <1>9, Zenon DEF Cancel
<1>10. ASSUME NEW a \in Actor, Lock(a) PROVE FlagsOK'
  BY <1>10, Zenon DEF Lock
<1>11. ASSUME NEW a \in Actor, Commit(a) PROVE FlagsOK'
  BY <1>11, Zenon DEF Commit
<1>12. ASSUME NEW a \in Actor, Push(a) PROVE FlagsOK'
  BY <1>12, Zenon DEF Push
<1>13. ASSUME NEW a \in Actor, PushFails(a) PROVE FlagsOK'
  BY <1>13, Zenon DEF PushFails, Failed
<1>14. CASE Notice BY <1>14, Zenon DEF Notice
<1>15. CASE Due BY <1>15, Zenon DEF Due
<1>16. CASE EndLoop BY <1>16, Zenon DEF EndLoop
<1>17. CASE CheckRestart BY <1>17, Zenon DEF CheckRestart
<1>18. CASE RequestRestart BY <1>18, Zenon DEF RequestRestart
<1>19. CASE Drain BY <1>19, Zenon DEF Drain
<1>20. CASE Expire BY <1>20, Zenon DEF Expire
<1>21. CASE Join BY <1>21, Zenon DEF Join
<1>22. CASE Leave BY <1>22, Zenon DEF Leave
<1>23. CASE UNCHANGED vars BY <1>23, Zenon DEF vars
<1> QED BY <1>1, <1>2, <1>3, <1>4, <1>5, <1>6, <1>7, <1>8, <1>9, <1>10, <1>11, <1>12,
         <1>13, <1>14, <1>15, <1>16, <1>17, <1>18, <1>19, <1>20, <1>21, <1>22, <1>23
         DEF Next, Request, LoopStep, PushStep, Actor

LEMMA NextTyped == ASSUME TypeOK, [Next]_vars PROVE TypeOK'
  BY DataStep, FlagsStep DEF TypeOK

(* Type correctness; in particular git never has what was not committed,   *)
(* nor a commit what was not written.                                      *)
THEOREM TypesHold == Spec => []TypeOK
<1>1. Init => TypeOK BY InitTyped
<1>2. TypeOK /\ [Next]_vars => TypeOK' BY NextTyped
<1> QED BY <1>1, <1>2, PTL DEF Spec

-----------------------------------------------------------------------------
(* Both locks are taken when free and given back by their holder.          *)
LEMMA HoldersStep == ASSUME TypeOK, Holders, [Next]_vars PROVE Holders'
<1> USE Distinct DEF Holders, TypeOK, DataOK, Actor, At, Goto, Answer, Reading, Stopped, conns,
        service, board, git, watch
<1>1. ASSUME NEW c \in Conn, Connect(c) PROVE Holders'
  BY <1>1 DEF Connect
<1>2. ASSUME NEW c \in Conn, Receive(c) PROVE Holders'
  BY <1>2 DEF Receive
<1>3. ASSUME NEW c \in Conn, Lose(c) PROVE Holders'
  BY <1>3 DEF Lose
<1>4. ASSUME NEW c \in Conn, EnterGate(c) PROVE Holders'
  BY <1>4 DEF EnterGate
<1>5. ASSUME NEW c \in Conn, RunCommand(c) PROVE Holders'
  BY <1>5 DEF RunCommand
<1>6. ASSUME NEW c \in Conn, RunGet(c) PROVE Holders'
  BY <1>6 DEF RunGet
<1>7. ASSUME NEW c \in Conn, Ask(c) PROVE Holders'
  BY <1>7 DEF Ask
<1>8. ASSUME NEW c \in Conn, Schedule(c) PROVE Holders'
  BY <1>8 DEF Schedule
<1>9. ASSUME NEW c \in Conn, Cancel(c) PROVE Holders'
  BY <1>9 DEF Cancel
<1>10. ASSUME NEW a \in Actor, Lock(a) PROVE Holders'
  BY <1>10 DEF Lock
<1>11. ASSUME NEW a \in Actor, Commit(a) PROVE Holders'
  BY <1>11 DEF Commit
<1>12. ASSUME NEW a \in Actor, Push(a) PROVE Holders'
  BY <1>12 DEF Push
<1>13. ASSUME NEW a \in Actor, PushFails(a) PROVE Holders'
  BY <1>13 DEF PushFails, Failed
<1>14. CASE Notice BY <1>14 DEF Notice
<1>15. CASE Due BY <1>15 DEF Due
<1>16. CASE EndLoop BY <1>16 DEF EndLoop
<1>17. CASE CheckRestart BY <1>17 DEF CheckRestart
<1>18. CASE RequestRestart BY <1>18 DEF RequestRestart
<1>19. CASE Drain BY <1>19 DEF Drain
<1>20. CASE Expire BY <1>20 DEF Expire
<1>21. CASE Join BY <1>21 DEF Join
<1>22. CASE Leave BY <1>22 DEF Leave
<1>23. CASE UNCHANGED vars BY <1>23 DEF vars
<1> QED BY <1>1, <1>2, <1>3, <1>4, <1>5, <1>6, <1>7, <1>8, <1>9, <1>10, <1>11, <1>12,
         <1>13, <1>14, <1>15, <1>16, <1>17, <1>18, <1>19, <1>20, <1>21, <1>22, <1>23
         DEF Next, Request, LoopStep, PushStep, Actor

LEMMA EndedStep ==
  ASSUME TypeOK, Holders, NothingRunsAfterwards, [Next]_vars
  PROVE  NothingRunsAfterwards'
<1> USE Distinct DEF Holders, NothingRunsAfterwards, TypeOK, DataOK, Actor, At, Goto, Answer, Reading,
        Stopped, conns, service, board, git, watch
<1>1. ASSUME NEW c \in Conn, Connect(c) PROVE NothingRunsAfterwards'
  BY <1>1 DEF Connect
<1>2. ASSUME NEW c \in Conn, Receive(c) PROVE NothingRunsAfterwards'
  BY <1>2 DEF Receive
<1>3. ASSUME NEW c \in Conn, Lose(c) PROVE NothingRunsAfterwards'
  BY <1>3 DEF Lose
<1>4. ASSUME NEW c \in Conn, EnterGate(c) PROVE NothingRunsAfterwards'
  BY <1>4 DEF EnterGate
<1>5. ASSUME NEW c \in Conn, RunCommand(c) PROVE NothingRunsAfterwards'
  BY <1>5 DEF RunCommand
<1>6. ASSUME NEW c \in Conn, RunGet(c) PROVE NothingRunsAfterwards'
  BY <1>6 DEF RunGet
<1>7. ASSUME NEW c \in Conn, Ask(c) PROVE NothingRunsAfterwards'
  BY <1>7 DEF Ask
<1>8. ASSUME NEW c \in Conn, Schedule(c) PROVE NothingRunsAfterwards'
  BY <1>8 DEF Schedule
<1>9. ASSUME NEW c \in Conn, Cancel(c) PROVE NothingRunsAfterwards'
  BY <1>9 DEF Cancel
<1>10. ASSUME NEW a \in Actor, Lock(a) PROVE NothingRunsAfterwards'
  BY <1>10 DEF Lock
<1>11. ASSUME NEW a \in Actor, Commit(a) PROVE NothingRunsAfterwards'
  BY <1>11 DEF Commit
<1>12. ASSUME NEW a \in Actor, Push(a) PROVE NothingRunsAfterwards'
  BY <1>12 DEF Push
<1>13. ASSUME NEW a \in Actor, PushFails(a) PROVE NothingRunsAfterwards'
  BY <1>13 DEF PushFails, Failed
<1>14. CASE Notice BY <1>14 DEF Notice
<1>15. CASE Due BY <1>15 DEF Due
<1>16. CASE EndLoop BY <1>16 DEF EndLoop
<1>17. CASE CheckRestart BY <1>17 DEF CheckRestart
<1>18. CASE RequestRestart BY <1>18 DEF RequestRestart
<1>19. CASE Drain BY <1>19 DEF Drain
<1>20. CASE Expire BY <1>20 DEF Expire
<1>21. CASE Join BY <1>21 DEF Join
<1>22. CASE Leave BY <1>22 DEF Leave
<1>23. CASE UNCHANGED vars BY <1>23 DEF vars
<1> QED BY <1>1, <1>2, <1>3, <1>4, <1>5, <1>6, <1>7, <1>8, <1>9, <1>10, <1>11, <1>12,
         <1>13, <1>14, <1>15, <1>16, <1>17, <1>18, <1>19, <1>20, <1>21, <1>22, <1>23
         DEF Next, Request, LoopStep, PushStep, Actor

LEMMA AdmittedStep == ASSUME TypeOK, Admitted, [Next]_vars PROVE Admitted'
<1> USE Distinct DEF Admitted, TypeOK, DataOK, Actor, At, Goto, Answer, Reading, Stopped, conns,
        service, board, git, watch
<1>1. ASSUME NEW c \in Conn, Connect(c) PROVE Admitted'
  BY <1>1 DEF Connect
<1>2. ASSUME NEW c \in Conn, Receive(c) PROVE Admitted'
  BY <1>2 DEF Receive
<1>3. ASSUME NEW c \in Conn, Lose(c) PROVE Admitted'
  BY <1>3 DEF Lose
<1>4. ASSUME NEW c \in Conn, EnterGate(c) PROVE Admitted'
  BY <1>4 DEF EnterGate
<1>5. ASSUME NEW c \in Conn, RunCommand(c) PROVE Admitted'
  BY <1>5 DEF RunCommand
<1>6. ASSUME NEW c \in Conn, RunGet(c) PROVE Admitted'
  BY <1>6 DEF RunGet
<1>7. ASSUME NEW c \in Conn, Ask(c) PROVE Admitted'
  BY <1>7 DEF Ask
<1>8. ASSUME NEW c \in Conn, Schedule(c) PROVE Admitted'
  BY <1>8 DEF Schedule
<1>9. ASSUME NEW c \in Conn, Cancel(c) PROVE Admitted'
  BY <1>9 DEF Cancel
<1>10. ASSUME NEW a \in Actor, Lock(a) PROVE Admitted'
  BY <1>10 DEF Lock
<1>11. ASSUME NEW a \in Actor, Commit(a) PROVE Admitted'
  BY <1>11 DEF Commit
<1>12. ASSUME NEW a \in Actor, Push(a) PROVE Admitted'
  BY <1>12 DEF Push
<1>13. ASSUME NEW a \in Actor, PushFails(a) PROVE Admitted'
  BY <1>13 DEF PushFails, Failed
<1>14. CASE Notice BY <1>14 DEF Notice
<1>15. CASE Due BY <1>15 DEF Due
<1>16. CASE EndLoop BY <1>16 DEF EndLoop
<1>17. CASE CheckRestart BY <1>17 DEF CheckRestart
<1>18. CASE RequestRestart BY <1>18 DEF RequestRestart
<1>19. CASE Drain BY <1>19 DEF Drain
<1>20. CASE Expire BY <1>20 DEF Expire
<1>21. CASE Join BY <1>21 DEF Join
<1>22. CASE Leave BY <1>22 DEF Leave
<1>23. CASE UNCHANGED vars BY <1>23 DEF vars
<1> QED BY <1>1, <1>2, <1>3, <1>4, <1>5, <1>6, <1>7, <1>8, <1>9, <1>10, <1>11, <1>12,
         <1>13, <1>14, <1>15, <1>16, <1>17, <1>18, <1>19, <1>20, <1>21, <1>22, <1>23
         DEF Next, Request, LoopStep, PushStep, Actor

LEMMA QuiescedStep ==
  ASSUME TypeOK, Holders, Quiesced, [Next]_vars
  PROVE  Quiesced'
<1> USE Distinct DEF Holders, Quiesced, Flushing, TypeOK, DataOK, Actor, At, Goto, Answer, Reading,
        Stopped, conns, service, board, git, watch
<1>1. ASSUME NEW c \in Conn, Connect(c) PROVE Quiesced'
  BY <1>1 DEF Connect
<1>2. ASSUME NEW c \in Conn, Receive(c) PROVE Quiesced'
  BY <1>2 DEF Receive
<1>3. ASSUME NEW c \in Conn, Lose(c) PROVE Quiesced'
  BY <1>3 DEF Lose
<1>4. ASSUME NEW c \in Conn, EnterGate(c) PROVE Quiesced'
  BY <1>4 DEF EnterGate
<1>5. ASSUME NEW c \in Conn, RunCommand(c) PROVE Quiesced'
  BY <1>5 DEF RunCommand
<1>6. ASSUME NEW c \in Conn, RunGet(c) PROVE Quiesced'
  BY <1>6 DEF RunGet
<1>7. ASSUME NEW c \in Conn, Ask(c) PROVE Quiesced'
  BY <1>7 DEF Ask
<1>8. ASSUME NEW c \in Conn, Schedule(c) PROVE Quiesced'
  BY <1>8 DEF Schedule
<1>9. ASSUME NEW c \in Conn, Cancel(c) PROVE Quiesced'
  BY <1>9 DEF Cancel
<1>10. ASSUME NEW a \in Actor, Lock(a) PROVE Quiesced'
  BY <1>10 DEF Lock
<1>11. ASSUME NEW a \in Actor, Commit(a) PROVE Quiesced'
  BY <1>11 DEF Commit
<1>12. ASSUME NEW a \in Actor, Push(a) PROVE Quiesced'
  BY <1>12 DEF Push
<1>13. ASSUME NEW a \in Actor, PushFails(a) PROVE Quiesced'
  BY <1>13 DEF PushFails, Failed
<1>14. CASE Notice BY <1>14 DEF Notice
<1>15. CASE Due BY <1>15 DEF Due
<1>16. CASE EndLoop BY <1>16 DEF EndLoop
<1>17. CASE CheckRestart BY <1>17 DEF CheckRestart
<1>18. CASE RequestRestart BY <1>18 DEF RequestRestart
<1>19. CASE Drain BY <1>19 DEF Drain
<1>20. CASE Expire BY <1>20 DEF Expire
<1>21. CASE Join BY <1>21 DEF Join
<1>22. CASE Leave BY <1>22 DEF Leave
<1>23. CASE UNCHANGED vars BY <1>23 DEF vars
<1> QED BY <1>1, <1>2, <1>3, <1>4, <1>5, <1>6, <1>7, <1>8, <1>9, <1>10, <1>11, <1>12,
         <1>13, <1>14, <1>15, <1>16, <1>17, <1>18, <1>19, <1>20, <1>21, <1>22, <1>23
         DEF Next, Request, LoopStep, PushStep, Actor

-----------------------------------------------------------------------------
SafetyInv == TypeOK /\ Holders /\ NothingRunsAfterwards /\ Admitted /\ Quiesced

LEMMA SafetyHolds == Spec => []SafetyInv
<1>1. Init => SafetyInv
  BY InitTyped, Distinct DEF Init, SafetyInv, Holders, NothingRunsAfterwards, Admitted,
     Quiesced, Flushing, At, Actor
<1>2. SafetyInv /\ [Next]_vars => SafetyInv'
  BY NextTyped, HoldersStep, EndedStep, AdmittedStep, QuiescedStep DEF SafetyInv
<1> QED BY <1>1, <1>2, PTL DEF Spec

(* server_close and worker.join: when the lease may go to somebody else no *)
(* thread of the service writes, pushes or answers any more.               *)
THEOREM NothingRuns == Spec => []NothingRunsAfterwards
<1>1. SafetyInv => NothingRunsAfterwards BY DEF SafetyInv
<1> QED BY <1>1, SafetyHolds, PTL

(* admit_request: a request the drain has cut off was not executed.        *)
THEOREM CutIsSafeToRepeat == Spec => []CutMeansNotExecuted
<1>1. SafetyInv => CutMeansNotExecuted
  BY DEF SafetyInv, Admitted, CutMeansNotExecuted, TypeOK, DataOK
<1> QED BY <1>1, SafetyHolds, PTL

(* request_service_shutdown: the final push holds every accepted command.  *)
THEOREM FinalPushIsComplete == Spec => []FinalPushHoldsCommands
<1>1. SafetyInv => FinalPushHoldsCommands
  BY DEF SafetyInv, Quiesced, NothingRunsAfterwards, Flushing, FinalPushHoldsCommands
<1> QED BY <1>1, SafetyHolds, PTL
=============================================================================
