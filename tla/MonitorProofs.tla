---------------------------- MODULE MonitorProofs ----------------------------
(***************************************************************************)
(* Proofs about Monitor: for any number of writers, versions, misses and   *)
(* starts, and whatever the clock shows, no change of the board that       *)
(* somebody has to be told of is forgotten, and every status file a        *)
(* monitor leaves is one its successor accepts.                            *)
(***************************************************************************)
EXTENDS Monitor, SequenceTheorems, TLAPS

USE MonitorAssumption

(* Where a monitor may go on after saving its status.                      *)
Resumption == {"idle", "reconcile", "control", "leave", "drained", "query", "settled"}

(* Every version behind v was written at m or later.                       *)
WrittenSince(v, m) == \A w \in v + 1 .. Version : m <= wrote[w].at

(* A memory bounds what it does not know: whatever was written behind its  *)
(* signature, or behind the low end of its interval, is no older than the  *)
(* moment it gives for it.                                                 *)
Sound(memo) ==
  /\ memo.signature <= Version /\ memo.seenAt <= now
  /\ Recoverable(memo)
  /\ WrittenSince(memo.signature, memo.lookedAt)
  /\ memo.pending # None =>
       /\ memo.pending.low <= memo.signature
       /\ WrittenSince(memo.pending.low, memo.pending.start)

MemoriesAreSound ==
  /\ runtime # None => Sound(runtime)
  /\ saved # None => Sound(saved)

(* An observation under way is newer than what it will replace.            *)
LooksAreSound ==
  pc \in {"look", "resume"} =>
    /\ look # NoLook /\ look.signature <= Version /\ look.from <= now
    /\ WrittenSince(look.signature, look.from)
    /\ pc = "look" =>
         look.why # "resume" /\ runtime.signature <= look.signature /\ runtime.seenAt <= look.from
    /\ pc = "resume" /\ saved # None =>
         saved.signature <= look.signature /\ saved.seenAt <= look.from

(* Who runs, where it goes on, and what it asks the feed about.            *)
FlowIsSound ==
  /\ runtime = None <=> pc \in {"off", "resume"}
  /\ pc = "save" => after \in Resumption
  /\ pc \in {"query", "deliver"} \/ (pc = "save" /\ after = "query") => runtime.pending # None

(* An answer names whoever wrote a version of the interval.                *)
AnswersAreSound ==
  pc = "deliver" /\ answer # None =>
    \A v \in runtime.pending.low + 1 .. runtime.signature : wrote[v].by \in answer

(* Only versions by others are owed, and none before there is a status.    *)
DebtsAreSound ==
  /\ \A v \in owed : wrote[v].by # Automation
  /\ saved = None => owed = {}
  /\ \A v \in 1 .. Version : wrote[v].at <= now

MonitorInv ==
  /\ TypeOK
  /\ MemoriesAreSound /\ LooksAreSound /\ FlowIsSound /\ AnswersAreSound /\ DebtsAreSound
  /\ NothingIsForgotten

-----------------------------------------------------------------------------
(* Every version has an author and a moment.                               *)
LEMMA WroteTyped ==
  ASSUME TypeOK, NEW v \in 1 .. Version
  PROVE  wrote[v].by \in Actor /\ wrote[v].at \in Nat
<1>1. wrote \in Seq([by : Actor, at : Nat]) /\ v \in 1 .. Len(wrote)
  BY DEF TypeOK, Version
<1>2. wrote[v] \in [by : Actor, at : Nat]
  BY <1>1, ElementOfSeq
<1> QED BY <1>2

(* What note_board_write makes of an interval, or of none.                 *)
LEMMA NotedInterval ==
  ASSUME NEW pending \in Interval \cup {None}, NEW from \in Nat, NEW to \in Nat, NEW low \in Nat,
         NEW p, p = Noted(pending, from, to, low)
  PROVE  /\ p \in Interval /\ p # None /\ p.last = to
         /\ pending = None => p.start = from /\ p.first = to /\ p.low = low
         /\ pending # None =>
              p.start = pending.start /\ p.first = pending.first /\ p.low = pending.low
<1>1. CASE pending = None BY <1>1 DEF Noted, Interval
<1>2. CASE pending # None
  <2>1. pending \in Interval
    BY <1>2
  <2>2. p = [pending EXCEPT !.last = to]
    BY <1>2 DEF Noted
  <2> QED BY <1>2, <2>1, <2>2 DEF Interval
<1> QED BY <1>1, <1>2

(* A write is the next version, of this moment; the others stay.           *)
LEMMA WriteAppends ==
  ASSUME TypeOK, Write
  PROVE  /\ wrote' \in Seq([by : Actor, at : Nat])
         /\ Version' = Version + 1 /\ Version \in Nat
         /\ wrote'[Version + 1].at = now
         /\ \A v \in 1 .. Version : wrote'[v] = wrote[v]
         /\ owed' = IF saved # None /\ wrote'[Version + 1].by # Automation
                    THEN owed \cup {Version + 1} ELSE owed
<1>1. PICK who \in Actor :
        /\ wrote' = Append(wrote, [by |-> who, at |-> now])
        /\ owed' = IF saved # None /\ who # Automation THEN owed \cup {Version'} ELSE owed
  BY DEF Write
<1>2. now \in Nat /\ wrote \in Seq([by : Actor, at : Nat])
  BY DEF TypeOK
<1> QED BY <1>1, <1>2 DEF Version

(* What an observation leaves in memory.                                   *)
LEMMA ObserveRemembers ==
  ASSUME MonitorInv, Observe
  PROVE  \/ UNCHANGED <<runtime, after>> /\ pc' = Observer(look.why, runtime.pending)
         \/ /\ runtime' \in Memory /\ runtime' # None
            /\ runtime'.signature = look.signature /\ runtime'.lookedAt = look.from
            /\ runtime'.seenAt = now
            /\ runtime'.pending = Noted(runtime.pending, runtime.lookedAt, now, runtime.signature)
            /\ pc' = "save" /\ after' = Observer(look.why, runtime'.pending)
<1>1. runtime \in Memory /\ look \in Looking /\ now \in Nat /\ Version \in Nat
  BY DEF MonitorInv, TypeOK, FlowIsSound, LooksAreSound, Observe, Version
<1>2. Noted(runtime.pending, runtime.lookedAt, now, runtime.signature) \in Interval
  BY <1>1, NotedInterval DEF Memory
<1> QED BY <1>1, <1>2 DEF Observe, Runtime, IntervalStart, SaveThen, Memory, Looking

(* What a successor starts from: what the status says if the board is as   *)
(* the status knows it, and an interval from there to now if it is not.    *)
LEMMA ResumeRemembers ==
  ASSUME MonitorInv, Resume
  PROVE  /\ runtime' \in Memory /\ runtime'.signature = look.signature
         /\ saved # None => saved \in Memory
         /\ \/ /\ saved = None \/ saved.signature = look.signature
               /\ saved = None => runtime'.pending = None /\ runtime'.lookedAt = look.from
                                  /\ runtime'.seenAt = now
               /\ saved # None =>
                    /\ runtime'.pending = saved.pending
                    /\ runtime'.lookedAt = saved.lookedAt /\ runtime'.seenAt = saved.seenAt
            \/ /\ saved # None
               /\ runtime'.lookedAt = look.from /\ runtime'.seenAt = now
               /\ runtime'.pending = Noted(saved.pending, saved.lookedAt, now, saved.signature)
<1>1. /\ look \in Looking /\ now \in Nat /\ Version \in Nat
      /\ saved # None => saved \in Memory
  BY DEF MonitorInv, TypeOK, LooksAreSound, Resume, Version
<1> DEFINE changed == saved # None /\ (saved.signature # look.signature \/ saved.identity # Version)
<1>2. CASE ~changed
  <2>1. runtime' = IF saved = None THEN Runtime(None, now)
                   ELSE [Runtime(saved.pending, saved.seenAt) EXCEPT !.lookedAt = saved.lookedAt]
    BY <1>2 DEF Resume
  <2> QED BY <1>1, <1>2, <2>1 DEF Runtime, Memory, Looking
<1>3. CASE changed
  <2>1. saved \in Memory /\ saved # None
    BY <1>1, <1>3
  <2>2. runtime' = Runtime(Noted(saved.pending, saved.lookedAt, now, saved.signature), now)
    <3>1. CASE saved.pending = None BY <1>3, <3>1 DEF Resume, Noted
    <3>2. CASE saved.pending # None
      <4>1. Noted(None, saved.lookedAt, now, saved.signature) # None
        BY <1>1, <2>1, NotedInterval DEF Memory
      <4> QED BY <1>3, <3>2, <4>1 DEF Resume, Noted
    <3> QED BY <3>1, <3>2
  <2>3. Noted(saved.pending, saved.lookedAt, now, saved.signature) \in Interval
    BY <1>1, <2>1, NotedInterval DEF Memory
  <2> QED BY <1>1, <2>1, <2>2, <2>3 DEF Runtime, Memory, Looking
<1> QED BY <1>2, <1>3

(* Where an observation leads.                                             *)
LEMMA ObserverResumes ==
  ASSUME NEW why \in {"dirty", "due", "reload", "drain", "final"}, NEW pending
  PROVE  /\ Observer(why, pending) \in Resumption
         /\ Observer(why, pending) = "query" => pending # None
BY DEF Observer, Resumption

(* A worker that has a state has a memory.                                 *)
LEMMA RunningRemembers ==
  ASSUME MonitorInv, pc \notin {"off", "resume"}
  PROVE  runtime \in Memory /\ runtime # None /\ runtime.signature \in Nat
BY DEF MonitorInv, TypeOK, FlowIsSound, Memory

-----------------------------------------------------------------------------
LEMMA InitSound == Init => MonitorInv
<1> SUFFICES ASSUME Init PROVE MonitorInv
  OBVIOUS
<1>1. wrote \in Seq([by : Actor, at : Nat]) /\ Len(wrote) = 1 /\ wrote[1].at = 0
  BY DEF Init
<1>2. pc \in Step /\ after \in Step
  BY DEF Init, Step
<1>3. now \in Nat /\ misses \in 0 .. MaxMisses /\ well \in BOOLEAN /\ claims \in 0 .. MaxClaims
  BY DEF Init
<1>4. TypeOK
  BY <1>1, <1>2, <1>3 DEF Init, TypeOK
<1> QED BY <1>1, <1>4 DEF Init, MonitorInv, MemoriesAreSound, LooksAreSound, FlowIsSound,
           AnswersAreSound,
       DebtsAreSound, NothingIsForgotten, Version

(* Each action keeps the types.                                            *)
LEMMA TypeStep == MonitorInv /\ [Next]_vars => TypeOK'
<1> SUFFICES ASSUME MonitorInv, [Next]_vars PROVE TypeOK'
  OBVIOUS
<1> USE DEF MonitorInv, TypeOK, LooksAreSound, FlowIsSound, env, flow, health, memory,
           world, Resumption
<1>1. CASE Tick BY <1>1 DEF Tick, Version, Step, Looking, Memory, Interval, NoLook, Request
<1>2. CASE Write
  <2>1. (now \in Nat /\ wrote \in Seq([by : Actor, at : Nat]))'
    BY WriteAppends, <1>2 DEF Write
  <2>2. (pc \in Step /\ after \in Step)'
    BY <1>2 DEF Write, Step, Resumption
  <2>3. (runtime \in Memory \cup {None} /\ saved \in Memory \cup {None})'
    BY <1>2 DEF Write, NoLook
  <2>4. (look \in Looking \cup {NoLook})'
    BY <1>2 DEF Write, Looking, NoLook, Version
  <2>5. (due \in BOOLEAN)'
    BY <1>2 DEF Write
  <2>6. (misses \in 0 .. MaxMisses /\ well \in BOOLEAN)'
    BY <1>2 DEF Write
  <2>7. (answer \in (SUBSET Actor) \cup {None})'
    BY <1>2 DEF Write
  <2>8. (heard \subseteq Request /\ claims \in 0 .. MaxClaims)'
    BY <1>2 DEF Write, Request
  <2>9. (owed \subseteq 1 .. Version)'
    <3>1. owed' \subseteq owed \cup {Version + 1} /\ Version' = Version + 1 /\ Version \in Nat
      BY <1>2, WriteAppends
    <3> QED BY <3>1
  <2> QED BY <2>1, <2>2, <2>3, <2>4, <2>5, <2>6, <2>7, <2>8, <2>9
<1>3. CASE Claim
  BY <1>3 DEF Claim, Unowned, Version, Step, Looking, Memory, Interval, NoLook, Request
<1>4. CASE Resume
  BY <1>4, ResumeRemembers DEF Resume, SaveThen, Version, Step, Looking, Memory, Interval, NoLook,
     Request
<1>5. CASE Save
  <2>1. (now \in Nat /\ wrote \in Seq([by : Actor, at : Nat]))'
    BY <1>5 DEF Save, Saved, NotSaved, Failing
  <2>2. (pc \in Step /\ after \in Step)'
    BY <1>5 DEF Save, Saved, NotSaved, Failing, Step, Resumption
  <2>3. (runtime \in Memory \cup {None} /\ saved \in Memory \cup {None})'
    BY <1>5 DEF Save, Saved, NotSaved, Failing, NoLook
  <2>4. (look \in Looking \cup {NoLook})'
    BY <1>5 DEF Save, Saved, NotSaved, Failing, Looking, NoLook, Version
  <2>5. (due \in BOOLEAN)'
    BY <1>5 DEF Save, Saved, NotSaved, Failing
  <2>6. (misses \in 0 .. MaxMisses /\ well \in BOOLEAN)'
    BY <1>5 DEF Save, Saved, NotSaved, Failing
  <2>7. (answer \in (SUBSET Actor) \cup {None})'
    BY <1>5 DEF Save, Saved, NotSaved, Failing
  <2>8. (heard \subseteq Request /\ claims \in 0 .. MaxClaims)'
    BY <1>5 DEF Save, Saved, NotSaved, Failing, Request
  <2>9. (owed \subseteq 1 .. Version)'
    <3>1. runtime.signature \in Nat /\ owed' \subseteq owed \cup (runtime.signature + 1 .. Version)
      BY <1>5, RunningRemembers DEF Save, Saved, NotSaved
    <3>2. Version \in Nat /\ Version' = Version
      BY <1>5 DEF Save, Version
    <3> QED BY <3>1, <3>2
  <2> QED BY <2>1, <2>2, <2>3, <2>4, <2>5, <2>6, <2>7, <2>8, <2>9
<1>6. CASE Leave
  <2>1. (now \in Nat /\ wrote \in Seq([by : Actor, at : Nat]))'
    BY <1>6 DEF Leave, Saved, NotSaved, Ended
  <2>2. (pc \in Step /\ after \in Step)'
    BY <1>6 DEF Leave, Saved, NotSaved, Ended, Step, Resumption
  <2>3. (runtime \in Memory \cup {None} /\ saved \in Memory \cup {None})'
    BY <1>6 DEF Leave, Saved, NotSaved, Ended, NoLook
  <2>4. (look \in Looking \cup {NoLook})'
    BY <1>6 DEF Leave, Saved, NotSaved, Ended, Looking, NoLook, Version
  <2>5. (due \in BOOLEAN)'
    BY <1>6 DEF Leave, Saved, NotSaved, Ended
  <2>6. (misses \in 0 .. MaxMisses /\ well \in BOOLEAN)'
    BY <1>6 DEF Leave, Saved, NotSaved, Ended
  <2>7. (answer \in (SUBSET Actor) \cup {None})'
    BY <1>6 DEF Leave, Saved, NotSaved, Ended
  <2>8. (heard \subseteq Request /\ claims \in 0 .. MaxClaims)'
    BY <1>6 DEF Leave, Saved, NotSaved, Ended, Request
  <2>9. (owed \subseteq 1 .. Version)'
    <3>1. runtime.signature \in Nat /\ owed' \subseteq owed \cup (runtime.signature + 1 .. Version)
      BY <1>6, RunningRemembers DEF Leave, Saved, NotSaved
    <3>2. Version \in Nat /\ Version' = Version
      BY <1>6 DEF Leave, Version
    <3> QED BY <3>1, <3>2
  <2> QED BY <2>1, <2>2, <2>3, <2>4, <2>5, <2>6, <2>7, <2>8, <2>9
<1>7. CASE Cycle
  BY <1>7 DEF Cycle, Look, Version, Step, Looking, Memory, Interval, NoLook, Request
<1>8. CASE Reconcile
  BY <1>8 DEF Reconcile, Look, Version, Step, Looking, Memory, Interval, NoLook, Request
<1>9. CASE Observe
  <2>1. look.why \in {"dirty", "due", "reload", "drain", "final"}
    BY <1>9 DEF Observe, Looking
  <2>2. \A p : Observer(look.why, p) \in Step
    BY <2>1, ObserverResumes DEF Step
  <2>3. "save" \in Step
    BY DEF Step
  <2>4. runtime' \in Memory \cup {None} /\ pc' \in Step /\ after' \in Step
    BY <2>2, <2>3, <1>9, ObserveRemembers
  <2>5. Version' = Version /\ NoLook' = NoLook
    BY <1>9 DEF Observe, Version, NoLook
  <2> QED BY <1>9, <2>4, <2>5 DEF Observe
<1>10. CASE Unreadable
  <2>1. (now \in Nat /\ wrote \in Seq([by : Actor, at : Nat]))'
    BY <1>10 DEF Unreadable, Failing
  <2>2. (pc \in Step /\ after \in Step)'
    BY <1>10 DEF Unreadable, Failing, Step, Resumption
  <2>3. (runtime \in Memory \cup {None} /\ saved \in Memory \cup {None})'
    BY <1>10 DEF Unreadable, Failing, NoLook
  <2>4. (look \in Looking \cup {NoLook})'
    BY <1>10 DEF Unreadable, Failing, Looking, NoLook, Version
  <2>5. (due \in BOOLEAN)'
    BY <1>10 DEF Unreadable, Failing
  <2>6. (misses \in 0 .. MaxMisses /\ well \in BOOLEAN)'
    BY <1>10 DEF Unreadable, Failing
  <2>7. (answer \in (SUBSET Actor) \cup {None})'
    BY <1>10 DEF Unreadable, Failing
  <2>8. (heard \subseteq Request /\ claims \in 0 .. MaxClaims)'
    BY <1>10 DEF Unreadable, Failing, Request
  <2>9. (owed \subseteq 1 .. Version)'
    BY <1>10 DEF Unreadable, Failing, Version
  <2> QED BY <2>1, <2>2, <2>3, <2>4, <2>5, <2>6, <2>7, <2>8, <2>9
<1>11. CASE Control
  <2>1. (now \in Nat /\ wrote \in Seq([by : Actor, at : Nat]))'
    BY <1>11 DEF Control, Heard, Asked, Look
  <2>2. (pc \in Step /\ after \in Step)'
    BY <1>11 DEF Control, Heard, Asked, Look, Step, Resumption
  <2>3. (runtime \in Memory \cup {None} /\ saved \in Memory \cup {None})'
    BY <1>11 DEF Control, Heard, Asked, Look, NoLook
  <2>4. (look \in Looking \cup {NoLook})'
    BY <1>11 DEF Control, Heard, Asked, Look, Looking, NoLook, Version
  <2>5. (due \in BOOLEAN)'
    BY <1>11 DEF Control, Heard, Asked, Look
  <2>6. (misses \in 0 .. MaxMisses /\ well \in BOOLEAN)'
    BY <1>11 DEF Control, Heard, Asked, Look
  <2>7. (answer \in (SUBSET Actor) \cup {None})'
    BY <1>11 DEF Control, Heard, Asked, Look
  <2>8. (heard \subseteq Request /\ claims \in 0 .. MaxClaims)'
    BY <1>11 DEF Control, Heard, Asked, Look, Request
  <2>9. (owed \subseteq 1 .. Version)'
    BY <1>11 DEF Control, Heard, Asked, Look, Version
  <2> QED BY <2>1, <2>2, <2>3, <2>4, <2>5, <2>6, <2>7, <2>8, <2>9
<1>12. CASE Stopping
  <2>1. (now \in Nat /\ wrote \in Seq([by : Actor, at : Nat]))'
    BY <1>12 DEF Stopping, SaveThen
  <2>2. (pc \in Step /\ after \in Step)'
    BY <1>12 DEF Stopping, SaveThen, Step, Resumption
  <2>3. (runtime \in Memory \cup {None} /\ saved \in Memory \cup {None})'
    BY <1>12 DEF Stopping, SaveThen, NoLook
  <2>4. (look \in Looking \cup {NoLook})'
    BY <1>12 DEF Stopping, SaveThen, Looking, NoLook, Version
  <2>5. (due \in BOOLEAN)'
    BY <1>12 DEF Stopping, SaveThen
  <2>6. (misses \in 0 .. MaxMisses /\ well \in BOOLEAN)'
    BY <1>12 DEF Stopping, SaveThen
  <2>7. (answer \in (SUBSET Actor) \cup {None})'
    BY <1>12 DEF Stopping, SaveThen
  <2>8. (heard \subseteq Request /\ claims \in 0 .. MaxClaims)'
    BY <1>12 DEF Stopping, SaveThen, Request
  <2>9. (owed \subseteq 1 .. Version)'
    BY <1>12 DEF Stopping, SaveThen, Version
  <2> QED BY <2>1, <2>2, <2>3, <2>4, <2>5, <2>6, <2>7, <2>8, <2>9
<1>13. CASE Act BY <1>13 DEF Act, Probe, Version, Step, Looking, Memory, Interval, NoLook, Request
<1>14. CASE Settled
  <2>1. (now \in Nat /\ wrote \in Seq([by : Actor, at : Nat]))'
    BY <1>14 DEF Settled, Look
  <2>2. (pc \in Step /\ after \in Step)'
    BY <1>14 DEF Settled, Look, Step, Resumption
  <2>3. (runtime \in Memory \cup {None} /\ saved \in Memory \cup {None})'
    BY <1>14 DEF Settled, Look, NoLook
  <2>4. (look \in Looking \cup {NoLook})'
    BY <1>14 DEF Settled, Look, Looking, NoLook, Version
  <2>5. (due \in BOOLEAN)'
    BY <1>14 DEF Settled, Look
  <2>6. (misses \in 0 .. MaxMisses /\ well \in BOOLEAN)'
    BY <1>14 DEF Settled, Look
  <2>7. (answer \in (SUBSET Actor) \cup {None})'
    BY <1>14 DEF Settled, Look
  <2>8. (heard \subseteq Request /\ claims \in 0 .. MaxClaims)'
    BY <1>14 DEF Settled, Look, Request
  <2>9. (owed \subseteq 1 .. Version)'
    BY <1>14 DEF Settled, Look, Version
  <2> QED BY <2>1, <2>2, <2>3, <2>4, <2>5, <2>6, <2>7, <2>8, <2>9
<1>15. CASE Drained
  BY <1>15 DEF Drained, Look, Version, Step, Looking, Memory, Interval, NoLook, Request
<1>16. CASE Query
  <2>1. (now \in Nat /\ wrote \in Seq([by : Actor, at : Nat]))'
    BY <1>16 DEF Query, Validated, Since
  <2>2. (pc \in Step /\ after \in Step)'
    BY <1>16 DEF Query, Validated, Since, Step, Resumption
  <2>3. (runtime \in Memory \cup {None} /\ saved \in Memory \cup {None})'
    BY <1>16 DEF Query, Validated, Since, NoLook
  <2>4. (look \in Looking \cup {NoLook})'
    BY <1>16 DEF Query, Validated, Since, Looking, NoLook, Version
  <2>5. (due \in BOOLEAN)'
    BY <1>16 DEF Query, Validated, Since
  <2>6. (misses \in 0 .. MaxMisses /\ well \in BOOLEAN)'
    BY <1>16 DEF Query, Validated, Since
  <2>7. (answer \in (SUBSET Actor) \cup {None})'
    <3>1. \A v \in Since(runtime.pending.start) : wrote[v].by \in Actor
      BY WroteTyped DEF Since
    <3> QED BY <1>16, <3>1 DEF Query, Validated
  <2>8. (heard \subseteq Request /\ claims \in 0 .. MaxClaims)'
    BY <1>16 DEF Query, Validated, Since, Request
  <2>9. (owed \subseteq 1 .. Version)'
    BY <1>16 DEF Query, Validated, Since, Version
  <2> QED BY <2>1, <2>2, <2>3, <2>4, <2>5, <2>6, <2>7, <2>8, <2>9
<1>17. CASE Suppress
  BY <1>17 DEF Suppress, BotOnly, SaveThen, AfterFlush, Version, Step, Looking, Memory, Interval,
     NoLook, Request
<1>18. CASE Alert
  <2>1. runtime \in Memory
    BY <1>18 DEF Alert
  <2>2. /\ runtime' \in Memory \cup {None}
        /\ pc' \in {"save", "drained", "leave"} /\ after' \in {after, "drained", "settled"}
        /\ owed' \subseteq owed
    BY <1>18, <2>1 DEF Alert, SaveThen, AfterFlush, Failing, Memory
  <2>3. NoLook' = NoLook /\ Version' = Version
    BY <1>18 DEF Alert, NoLook, Version
  <2> QED BY <1>18, <2>2, <2>3 DEF Alert, Step
<1>19. CASE Crash
  <2>1. (now \in Nat /\ wrote \in Seq([by : Actor, at : Nat]))'
    BY <1>19 DEF Crash, Ended
  <2>2. (pc \in Step /\ after \in Step)'
    BY <1>19 DEF Crash, Ended, Step, Resumption
  <2>3. (runtime \in Memory \cup {None} /\ saved \in Memory \cup {None})'
    BY <1>19 DEF Crash, Ended, NoLook
  <2>4. (look \in Looking \cup {NoLook})'
    BY <1>19 DEF Crash, Ended, Looking, NoLook, Version
  <2>5. (due \in BOOLEAN)'
    BY <1>19 DEF Crash, Ended
  <2>6. (misses \in 0 .. MaxMisses /\ well \in BOOLEAN)'
    BY <1>19 DEF Crash, Ended
  <2>7. (answer \in (SUBSET Actor) \cup {None})'
    BY <1>19 DEF Crash, Ended
  <2>8. (heard \subseteq Request /\ claims \in 0 .. MaxClaims)'
    BY <1>19 DEF Crash, Ended, Request
  <2>9. (owed \subseteq 1 .. Version)'
    BY <1>19 DEF Crash, Ended, Version
  <2> QED BY <2>1, <2>2, <2>3, <2>4, <2>5, <2>6, <2>7, <2>8, <2>9
<1>20. CASE UNCHANGED vars BY <1>20 DEF vars, Version
<1> QED BY <1>1, <1>2, <1>3, <1>4, <1>5, <1>6, <1>7, <1>8, <1>9, <1>10, <1>11, <1>12, <1>13,
           <1>14, <1>15, <1>16, <1>17, <1>18, <1>19, <1>20 DEF Next, Worker

-----------------------------------------------------------------------------
(* The harder cases, one by one.                                           *)

(* The interval a change begins or goes on with, told by its low end.      *)
LEMMA IntervalGoesOn ==
  ASSUME NEW memo \in Memory, Sound(memo), now \in Nat,
         NEW n \in Nat, memo.signature <= n, n <= Version, Version \in Nat,
         NEW from \in Nat, memo.seenAt <= from, from <= now,
         NEW p, p = Noted(memo.pending, memo.lookedAt, now, memo.signature)
  PROVE  /\ p \in Interval /\ p # None /\ p.last = now
         /\ p.start <= p.first /\ p.first <= p.last /\ p.start <= from
         /\ p.low <= n /\ WrittenSince(p.low, p.start)
         /\ p.low = IF memo.pending = None THEN memo.signature ELSE memo.pending.low
<1>1. memo.signature \in Nat /\ memo.lookedAt \in Nat /\ memo.seenAt \in Nat
      /\ memo.pending \in Interval \cup {None}
  BY DEF Memory
<1>2. p \in Interval /\ p # None /\ p.last = now
      /\ (memo.pending = None => p.start = memo.lookedAt /\ p.first = now /\ p.low = memo.signature)
      /\ (memo.pending # None =>
            /\ p.start = memo.pending.start /\ p.first = memo.pending.first
            /\ p.low = memo.pending.low)
  <2>1. CASE memo.pending = None BY <1>1, <2>1 DEF Noted, Interval
  <2>2. CASE memo.pending # None
    <3>1. memo.pending \in Interval /\ p = [memo.pending EXCEPT !.last = now]
      BY <1>1, <2>2 DEF Noted
    <3> QED BY <1>1, <2>2, <3>1 DEF Interval
  <2> QED BY <2>1, <2>2
<1>3. /\ memo.lookedAt <= memo.seenAt /\ memo.seenAt <= now
      /\ WrittenSince(memo.signature, memo.lookedAt)
  BY DEF Sound, Recoverable
<1>4. CASE memo.pending = None BY <1>1, <1>2, <1>3, <1>4
<1>5. CASE memo.pending # None
  <2>1. /\ memo.pending.start <= memo.pending.first /\ memo.pending.first <= memo.pending.last
        /\ memo.pending.last = memo.seenAt /\ memo.pending.start <= memo.lookedAt
        /\ memo.pending.low <= memo.signature /\ WrittenSince(memo.pending.low, memo.pending.start)
    BY <1>5 DEF Sound, Recoverable
  <2>2. memo.pending.start \in Nat /\ memo.pending.first \in Nat /\ memo.pending.last \in Nat
        /\ memo.pending.low \in Nat
    BY <1>1, <1>5 DEF Interval
  <2> QED BY <1>1, <1>2, <1>3, <1>5, <2>1, <2>2
<1> QED BY <1>4, <1>5

(* A memory that goes on from a sound one, at a look newer than it.        *)
LEMMA SuccessorIsSound ==
  ASSUME NEW memo \in Memory, Sound(memo), now \in Nat, Version \in Nat,
         look \in Looking, look.signature <= Version, look.from <= now,
         WrittenSince(look.signature, look.from),
         memo.signature <= look.signature, memo.seenAt <= look.from,
         UNCHANGED <<now, wrote>>,
         NEW next \in Memory,
         next.signature = look.signature, next.lookedAt = look.from, next.seenAt = now,
         next.pending = Noted(memo.pending, memo.lookedAt, now, memo.signature)
  PROVE  /\ Sound(next) /\ next.pending # None
         /\ next.pending.low = IF memo.pending = None THEN memo.signature ELSE memo.pending.low
<1>1. look.signature \in Nat /\ look.from \in Nat
  BY DEF Looking
<1> DEFINE p == next.pending
<1>2. /\ p \in Interval /\ p # None /\ p.last = now
      /\ p.start <= p.first /\ p.first <= p.last /\ p.start <= look.from
      /\ p.low <= look.signature /\ WrittenSince(p.low, p.start)
      /\ p.low = IF memo.pending = None THEN memo.signature ELSE memo.pending.low
  BY <1>1, IntervalGoesOn
<1> QED BY <1>1, <1>2 DEF Sound, Recoverable

(* A write changes nothing that a memory says.                             *)
LEMMA WriteKeepsMemories ==
  ASSUME MonitorInv, Write, NEW memo \in Memory, Sound(memo)
  PROVE  /\ memo.signature <= Version' /\ memo.seenAt <= now'
         /\ \A w \in memo.signature + 1 .. Version' : memo.lookedAt <= wrote'[w].at
         /\ memo.pending # None =>
              \A w \in memo.pending.low + 1 .. Version' : memo.pending.start <= wrote'[w].at
<1>1. now' = now /\ now \in Nat /\ Version' = Version + 1 /\ Version \in Nat
      /\ wrote'[Version + 1].at = now /\ \A v \in 1 .. Version : wrote'[v] = wrote[v]
  BY WriteAppends DEF Write, MonitorInv, TypeOK
<1>2. /\ memo.signature \in Nat /\ memo.seenAt \in Nat /\ memo.lookedAt \in Nat
      /\ memo.lookedAt <= memo.seenAt /\ memo.seenAt <= now /\ memo.signature <= Version
      /\ \A w \in memo.signature + 1 .. Version : memo.lookedAt <= wrote[w].at
  BY DEF Memory, Sound, Recoverable, WrittenSince
<1>3. ASSUME memo.pending # None
      PROVE  \A w \in memo.pending.low + 1 .. Version' : memo.pending.start <= wrote'[w].at
  <2>1. /\ memo.pending.start \in Nat /\ memo.pending.low \in Nat
        /\ memo.pending.start <= memo.lookedAt /\ memo.pending.low <= memo.signature
        /\ \A w \in memo.pending.low + 1 .. Version : memo.pending.start <= wrote[w].at
    BY <1>3 DEF Memory, Interval, Sound, Recoverable, WrittenSince
  <2> QED BY <1>1, <1>2, <2>1
<1> QED BY <1>1, <1>2, <1>3

LEMMA MemoriesAreSoundWrite ==
  ASSUME MonitorInv, TypeOK', Write
  PROVE  MemoriesAreSound'
<1>1. UNCHANGED <<now, runtime, saved>>
  BY DEF Write, health, memory, world
<1>2. ASSUME NEW memo \in Memory, Sound(memo) PROVE Recoverable(memo)
  BY <1>2 DEF Sound
<1>3. runtime # None => Sound(runtime)'
  BY <1>1, <1>2, WriteKeepsMemories DEF MonitorInv, TypeOK, MemoriesAreSound, Sound, WrittenSince,
     Recoverable
<1>4. saved # None => Sound(saved)'
  BY <1>1, <1>2, WriteKeepsMemories DEF MonitorInv, TypeOK, MemoriesAreSound, Sound, WrittenSince,
     Recoverable
<1> QED BY <1>1, <1>3, <1>4 DEF MemoriesAreSound

(* What an observation of a change needs to know.                          *)
LEMMA ObserveLooks ==
  ASSUME MonitorInv, Observe
  PROVE  /\ runtime \in Memory /\ Sound(runtime) /\ look \in Looking
         /\ look.signature <= Version /\ look.from <= now /\ now \in Nat /\ Version \in Nat
         /\ WrittenSince(look.signature, look.from)
         /\ runtime.signature <= look.signature /\ runtime.seenAt <= look.from
         /\ look.why \in {"dirty", "due", "reload", "drain", "final"}
         /\ UNCHANGED <<now, wrote, saved, owed>>
<1>1. look.why # "resume" /\ look # NoLook /\ runtime # None
  BY DEF MonitorInv, LooksAreSound, FlowIsSound, Observe
<1> QED BY <1>1 DEF MonitorInv, TypeOK, MemoriesAreSound, LooksAreSound, Observe, Looking, env,
           world, Version

LEMMA MemoriesAreSoundObserve ==
  ASSUME MonitorInv, TypeOK', Observe
  PROVE  MemoriesAreSound'
<1>1. CASE runtime' = runtime
  BY <1>1, ObserveLooks DEF MonitorInv, MemoriesAreSound, Sound, WrittenSince, Recoverable, Version
<1>2. CASE runtime' # runtime
  <2>1. /\ runtime' \in Memory
        /\ runtime'.signature = look.signature /\ runtime'.lookedAt = look.from
        /\ runtime'.seenAt = now
        /\ runtime'.pending = Noted(runtime.pending, runtime.lookedAt, now, runtime.signature)
    BY <1>2, ObserveRemembers
  <2>2. Sound(runtime')
    BY <2>1, ObserveLooks, SuccessorIsSound
  <2> QED BY <2>2, ObserveLooks DEF MonitorInv, MemoriesAreSound, Sound, WrittenSince,
             Recoverable, Version
<1> QED BY <1>1, <1>2

(* What a successor finds.                                                 *)
LEMMA ResumeLooks ==
  ASSUME MonitorInv, Resume
  PROVE  /\ look \in Looking
         /\ look.signature <= Version /\ look.from <= now /\ now \in Nat /\ Version \in Nat
         /\ WrittenSince(look.signature, look.from)
         /\ saved # None => /\ saved \in Memory /\ Sound(saved)
                            /\ saved.signature <= look.signature /\ saved.seenAt <= look.from
         /\ UNCHANGED <<now, wrote, saved, owed>>
BY DEF MonitorInv, TypeOK, MemoriesAreSound, LooksAreSound, Resume, env, world, Version

LEMMA MemoriesAreSoundResume ==
  ASSUME MonitorInv, TypeOK', Resume
  PROVE  MemoriesAreSound'
<1>1. saved # None => Sound(saved)'
  BY ResumeLooks DEF MonitorInv, MemoriesAreSound, Sound, WrittenSince, Recoverable, Version
<1>2. Sound(runtime')
  <2>1. CASE saved = None BY <2>1, ResumeLooks, ResumeRemembers DEF Sound, Recoverable, Looking
  <2>2. CASE /\ saved # None /\ saved.signature = look.signature
             /\ runtime'.pending = saved.pending
             /\ runtime'.lookedAt = saved.lookedAt /\ runtime'.seenAt = saved.seenAt
    BY <2>2, ResumeLooks, ResumeRemembers DEF Sound, Recoverable, WrittenSince
  <2>3. CASE /\ saved # None
             /\ runtime'.lookedAt = look.from /\ runtime'.seenAt = now
             /\ runtime'.pending = Noted(saved.pending, saved.lookedAt, now, saved.signature)
    <3>1. runtime' \in Memory /\ runtime'.signature = look.signature
      BY ResumeRemembers
    <3> QED BY <2>3, <3>1, ResumeLooks, SuccessorIsSound
  <2> QED BY <2>1, <2>2, <2>3, ResumeRemembers
<1>3. UNCHANGED <<now, wrote, saved>>
  BY ResumeLooks
<1>4. Sound(runtime)'
  BY <1>2, <1>3 DEF Sound, WrittenSince, Recoverable, Version
<1> QED BY <1>1, <1>3, <1>4 DEF MemoriesAreSound, Sound, WrittenSince, Recoverable

LEMMA FlowIsSoundObserve ==
  ASSUME MonitorInv, TypeOK', Observe
  PROVE  FlowIsSound'
<1>1. /\ pc = "look" /\ look.why \in {"dirty", "due", "reload", "drain", "final"}
      /\ runtime # None
  BY ObserveLooks DEF Observe, MonitorInv, FlowIsSound
<1>2. \A p : Observer(look.why, p) \in Resumption /\ (Observer(look.why, p) = "query" => p # None)
  BY <1>1, ObserverResumes
<1>3. CASE UNCHANGED <<runtime, after>> /\ pc' = Observer(look.why, runtime.pending)
  <2>1. pc' \in Resumption /\ (pc' = "query" => runtime'.pending # None) /\ runtime' # None
    BY <1>1, <1>2, <1>3
  <2> QED BY <2>1 DEF FlowIsSound, Resumption
<1>4. CASE /\ runtime' # None /\ pc' = "save"
           /\ after' = Observer(look.why, runtime'.pending)
  BY <1>1, <1>2, <1>4 DEF FlowIsSound
<1> QED BY <1>3, <1>4, ObserveRemembers

LEMMA AnswersAreSoundQuery ==
  ASSUME MonitorInv, TypeOK', Query
  PROVE  AnswersAreSound'
<1>1. runtime \in Memory /\ runtime.pending \in Interval /\ Sound(runtime) /\ runtime.pending # None
  BY DEF Query, MonitorInv, TypeOK, FlowIsSound, MemoriesAreSound, Memory
<1>2. /\ runtime.pending.low \in Nat /\ runtime.signature \in Nat /\ Version \in Nat
      /\ runtime.signature <= Version
      /\ \A w \in runtime.pending.low + 1 .. Version : runtime.pending.start <= wrote[w].at
      /\ runtime.pending.start \in Nat
  <2>1. /\ runtime.pending.low \in Nat /\ runtime.signature \in Nat
        /\ runtime.pending.start \in Nat
    BY <1>1 DEF Memory, Interval
  <2>2. Version \in Nat
    BY DEF MonitorInv, TypeOK, Version
  <2>3. runtime.signature <= Version
    BY <1>1 DEF Sound
  <2>4. \A w \in runtime.pending.low + 1 .. Version : runtime.pending.start <= wrote[w].at
    BY <1>1 DEF Sound, WrittenSince
  <2> QED BY <2>1, <2>2, <2>3, <2>4
<1>3. \A w \in 1 .. Version : wrote[w].at \in Nat
  BY WroteTyped DEF MonitorInv
<1>4. runtime.pending.low + 1 .. runtime.signature \subseteq Since(runtime.pending.start)
  BY <1>2, <1>3 DEF Since
<1>5. answer' # None => answer' = {wrote[v].by : v \in Since(runtime.pending.start)}
  BY DEF Query, Validated
<1>6. UNCHANGED <<runtime, wrote>>
  BY DEF Query, env
<1> QED BY <1>4, <1>5, <1>6 DEF AnswersAreSound

LEMMA DebtsAreSoundTick ==
  ASSUME MonitorInv, TypeOK', Tick
  PROVE  DebtsAreSound'
<1>1. UNCHANGED <<wrote, owed, saved>> /\ now' = now + 1 /\ now \in Nat
  BY DEF Tick, world, MonitorInv, TypeOK
<1>2. \A v \in 1 .. Version : wrote[v].at \in Nat /\ wrote[v].at <= now
  BY WroteTyped DEF MonitorInv, DebtsAreSound
<1>3. \A v \in 1 .. Version : wrote[v].at <= now + 1
  BY <1>1, <1>2
<1> QED BY <1>1, <1>3 DEF DebtsAreSound, MonitorInv, Version

LEMMA NothingIsForgottenWrite ==
  ASSUME MonitorInv, TypeOK', Write
  PROVE  NothingIsForgotten'
<1>1. UNCHANGED <<runtime, saved>> /\ Version' = Version + 1 /\ Version \in Nat
      /\ owed' \subseteq owed \cup {Version + 1}
  BY WriteAppends DEF Write, health, memory, world, MonitorInv
<1>2. ASSUME NEW memo \in Memory, memo.signature <= Version,
             owed \subseteq (memo.signature + 1 .. Version) \cup
               (IF memo.pending = None THEN {} ELSE memo.pending.low + 1 .. memo.signature)
      PROVE  owed' \subseteq (memo.signature + 1 .. Version') \cup
               (IF memo.pending = None THEN {} ELSE memo.pending.low + 1 .. memo.signature)
  <2>1. memo.signature \in Nat
    BY DEF Memory
  <2>2. memo.signature + 1 .. Version' = (memo.signature + 1 .. Version) \cup {Version + 1}
    BY <1>1, <1>2, <2>1
  <2> QED BY <1>1, <1>2, <2>2
<1>3. runtime # None => (owed \subseteq Remembered(runtime))'
  BY <1>1, <1>2 DEF MonitorInv, TypeOK, MemoriesAreSound, Sound, NothingIsForgotten, Remembered
<1>4. saved # None => (owed \subseteq Remembered(saved))'
  BY <1>1, <1>2 DEF MonitorInv, TypeOK, MemoriesAreSound, Sound, NothingIsForgotten, Remembered
<1> QED BY <1>1, <1>3, <1>4 DEF NothingIsForgotten

(* A memory that goes on behind another stands for as much.                *)
LEMMA SuccessorRemembers ==
  ASSUME NEW memo \in Memory, NEW next \in Memory, Version \in Nat,
         memo.signature <= next.signature, Sound(memo), owed \subseteq 1 .. Version,
         owed \subseteq Remembered(memo),
         \/ memo.signature = next.signature /\ next.pending = memo.pending
         \/ /\ next.pending # None
            /\ next.pending.low = IF memo.pending = None THEN memo.signature ELSE memo.pending.low
  PROVE  owed \subseteq Remembered(next)
<1>1. /\ memo.signature \in Nat /\ next.signature \in Nat
      /\ memo.pending # None => memo.pending.low \in Nat /\ memo.pending.low <= memo.signature
  BY DEF Memory, Interval, Sound
<1> SUFFICES ASSUME NEW v \in owed, v \notin next.signature + 1 .. Version
             PROVE  next.pending # None /\ v \in next.pending.low + 1 .. next.signature
  BY DEF Remembered
<1>2. v \in 1 .. Version /\ v <= next.signature
  <2>1. v \in 1 .. Version
    OBVIOUS
  <2> QED BY <1>1, <2>1
<1>3. CASE memo.pending = None
  <2>1. v \in memo.signature + 1 .. Version
    BY <1>3 DEF Remembered
  <2> QED BY <1>1, <1>2, <1>3, <2>1
<1>4. CASE memo.pending # None
  <2>1. v \in (memo.signature + 1 .. Version) \cup (memo.pending.low + 1 .. memo.signature)
    BY <1>4 DEF Remembered
  <2> QED BY <1>1, <1>2, <1>4, <2>1
<1> QED BY <1>3, <1>4

LEMMA NothingIsForgottenObserve ==
  ASSUME MonitorInv, TypeOK', Observe
  PROVE  NothingIsForgotten'
<1>1. owed \subseteq Remembered(runtime) /\ owed \subseteq 1 .. Version
  BY ObserveLooks DEF MonitorInv, NothingIsForgotten, TypeOK, Memory
<1>2. ASSUME runtime' # runtime PROVE owed \subseteq Remembered(runtime')
  <2>1. /\ runtime' \in Memory
        /\ runtime'.signature = look.signature /\ runtime'.lookedAt = look.from
        /\ runtime'.seenAt = now
        /\ runtime'.pending = Noted(runtime.pending, runtime.lookedAt, now, runtime.signature)
    BY <1>2, ObserveRemembers
  <2>2. /\ runtime'.pending # None
        /\ runtime'.pending.low = IF runtime.pending = None THEN runtime.signature
                                  ELSE runtime.pending.low
    BY <2>1, ObserveLooks, SuccessorIsSound
  <2> QED BY <1>1, <2>1, <2>2, ObserveLooks, SuccessorRemembers
<1>3. owed \subseteq Remembered(runtime')
  BY <1>1, <1>2
<1> QED BY <1>3, ObserveLooks DEF MonitorInv, NothingIsForgotten, Remembered, Version

LEMMA NothingIsForgottenResume ==
  ASSUME MonitorInv, TypeOK', Resume
  PROVE  NothingIsForgotten'
<1>1. CASE saved = None BY <1>1, ResumeLooks DEF MonitorInv, DebtsAreSound, NothingIsForgotten
<1>2. CASE saved # None
  <2>1. owed \subseteq Remembered(saved) /\ owed \subseteq 1 .. Version
    BY <1>2 DEF MonitorInv, NothingIsForgotten, TypeOK
  <2>2. runtime' \in Memory /\ runtime'.signature = look.signature /\ runtime'.seenAt \in Nat
    BY ResumeRemembers DEF Memory
  <2>3. \/ saved.signature = runtime'.signature /\ runtime'.pending = saved.pending
        \/ /\ runtime'.pending # None
           /\ runtime'.pending.low = IF saved.pending = None THEN saved.signature
                                     ELSE saved.pending.low
    <3>1. CASE saved.signature = look.signature /\ runtime'.pending = saved.pending BY <2>2, <3>1
    <3>2. CASE /\ runtime'.lookedAt = look.from /\ runtime'.seenAt = now
               /\ runtime'.pending = Noted(saved.pending, saved.lookedAt, now, saved.signature)
      BY <1>2, <2>2, <3>2, ResumeLooks, SuccessorIsSound
    <3> QED BY <1>2, <3>1, <3>2, ResumeRemembers
  <2>4. owed \subseteq Remembered(runtime')
    BY <1>2, <2>1, <2>2, <2>3, ResumeLooks, SuccessorRemembers
  <2> QED BY <2>1, <2>4, ResumeLooks DEF NothingIsForgotten, Remembered, Version
<1> QED BY <1>1, <1>2

(* An observation begins where the previous one looked, so that what it   *)
(* finds changed lies behind the moment it starts the interval at.         *)
LEMMA MemoriesAreSoundStep == MonitorInv /\ TypeOK' /\ [Next]_vars => MemoriesAreSound'
<1> SUFFICES ASSUME MonitorInv, TypeOK', [Next]_vars PROVE MemoriesAreSound'
  OBVIOUS
<1> USE DEF MonitorInv, TypeOK, MemoriesAreSound, FlowIsSound, Sound, WrittenSince, Recoverable,
            Version, Memory, env, flow, health, memory, world
<1>1. CASE Tick
  <2>1. now' = now + 1 /\ now \in Nat /\ UNCHANGED <<wrote, runtime, saved>>
    BY <1>1 DEF Tick
  <2>2. ASSUME NEW memo \in Memory, memo.seenAt <= now PROVE memo.seenAt <= now'
    BY <2>1, <2>2
  <2> QED BY <2>1, <2>2
<1>2. CASE Write BY <1>2, MemoriesAreSoundWrite
<1>3. CASE Claim BY <1>3 DEF Claim, Unowned
<1>4. CASE Resume BY <1>4, MemoriesAreSoundResume
<1>5. CASE Save BY <1>5 DEF Save, Saved, NotSaved, Failing
<1>6. CASE Leave BY <1>6 DEF Leave, Saved, NotSaved, Ended
<1>7. CASE Cycle BY <1>7 DEF Cycle, Look
<1>8. CASE Reconcile BY <1>8 DEF Reconcile, Look
<1>9. CASE Observe BY <1>9, MemoriesAreSoundObserve
<1>10. CASE Unreadable BY <1>10 DEF Unreadable, Failing
<1>11. CASE Control BY <1>11 DEF Control, Heard, Asked, Look
<1>12. CASE Stopping BY <1>12 DEF Stopping, SaveThen
<1>13. CASE Act BY <1>13 DEF Act, Probe
<1>14. CASE Settled BY <1>14 DEF Settled, Look
<1>15. CASE Drained BY <1>15 DEF Drained, Look
<1>16. CASE Query BY <1>16 DEF Query, Validated, Since
<1>17. CASE Suppress BY <1>17 DEF Suppress, BotOnly, SaveThen, AfterFlush
<1>18. CASE Alert BY <1>18 DEF Alert, BotOnly, SaveThen, AfterFlush, Failing
<1>19. CASE Crash BY <1>19 DEF Crash, Ended
<1>20. CASE UNCHANGED vars BY <1>20 DEF vars
<1> QED BY <1>1, <1>2, <1>3, <1>4, <1>5, <1>6, <1>7, <1>8, <1>9, <1>10, <1>11, <1>12, <1>13,
           <1>14, <1>15, <1>16, <1>17, <1>18, <1>19, <1>20 DEF Next, Worker

(* A new look begins now, behind whatever the monitor remembers.           *)
LEMMA NewLookIsSound ==
  ASSUME MonitorInv, runtime # None, UNCHANGED <<env, runtime>>,
         NEW why \in {"dirty", "due", "reload", "drain", "final"}, Look(why)
  PROVE  LooksAreSound'
<1>1. /\ runtime \in Memory /\ Sound(runtime)
      /\ now \in Nat /\ Version \in Nat
  BY DEF MonitorInv, TypeOK, MemoriesAreSound, Version
<1>2. runtime.signature <= Version /\ runtime.seenAt <= now
  BY <1>1 DEF Sound
<1>3. /\ pc' = "look" /\ look'.why = why /\ look'.from = now /\ look'.signature = Version
      /\ look' # NoLook
  BY DEF Look, NoLook
<1>4. UNCHANGED <<now, wrote, runtime, Version>>
  BY DEF env, Version
<1>5. NoLook' = NoLook
  BY DEF NoLook
<1>6. WrittenSince(look.signature, look.from)'
  BY <1>1, <1>3, <1>4 DEF WrittenSince
<1> QED BY <1>1, <1>2, <1>3, <1>4, <1>5, <1>6 DEF LooksAreSound

(* A write under a look is no older than it.                               *)
LEMMA LooksAreSoundWrite ==
  ASSUME MonitorInv, Write, pc \in {"look", "resume"}
  PROVE  LooksAreSound'
<1>1. UNCHANGED <<now, pc, look, runtime, saved>> /\ NoLook' = NoLook
  BY DEF Write, health, memory, world, NoLook
<1>2. /\ Version' = Version + 1 /\ Version \in Nat /\ wrote'[Version + 1].at = now
      /\ \A v \in 1 .. Version : wrote'[v] = wrote[v]
  BY WriteAppends DEF MonitorInv
<1>3. /\ look \in Looking /\ look # NoLook /\ now \in Nat
      /\ look.signature <= Version /\ look.from <= now
      /\ WrittenSince(look.signature, look.from)
  BY DEF MonitorInv, TypeOK, LooksAreSound
<1>4. look.signature \in Nat /\ look.from \in Nat
  BY <1>3 DEF Looking
<1>5. look.signature <= Version'
  BY <1>2, <1>3, <1>4
<1>6. ASSUME NEW w \in look.signature + 1 .. Version' PROVE look.from <= wrote'[w].at
  <2>1. CASE w = Version + 1 BY <1>2, <1>3, <2>1
  <2>2. CASE w \in look.signature + 1 .. Version
    <3>1. w \in 1 .. Version
      BY <1>2, <1>4, <2>2
    <3> QED BY <1>2, <1>3, <2>2, <3>1 DEF WrittenSince
  <2> QED BY <1>2, <1>4, <2>1, <2>2
<1>7. WrittenSince(look.signature, look.from)'
  BY <1>1, <1>6 DEF WrittenSince
<1> QED BY <1>1, <1>3, <1>5, <1>7 DEF MonitorInv, LooksAreSound

(* A look is taken of the file as it is.                                   *)
LEMMA LooksAreSoundStep == MonitorInv /\ TypeOK' /\ [Next]_vars => LooksAreSound'
<1> SUFFICES ASSUME MonitorInv, TypeOK', [Next]_vars PROVE LooksAreSound'
  OBVIOUS
<1> USE DEF MonitorInv, TypeOK, MemoriesAreSound, LooksAreSound, FlowIsSound, Sound, WrittenSince,
            Version, Looking, NoLook, Memory, Resumption, env, flow, health, memory, world
<1>1. CASE Tick BY <1>1 DEF Tick
<1>2. CASE Write
  <2>1. CASE pc \in {"look", "resume"} BY <1>2, <2>1, LooksAreSoundWrite
  <2>2. CASE pc \notin {"look", "resume"} BY <1>2, <2>2 DEF Write
  <2> QED BY <2>1, <2>2
<1>3. CASE Claim BY <1>3 DEF Claim, Unowned
<1>4. CASE Resume BY <1>4, ResumeRemembers, NotedInterval DEF Resume, SaveThen
<1>5. CASE Save BY <1>5 DEF Save, Saved, NotSaved, Failing
<1>6. CASE Leave BY <1>6 DEF Leave, Saved, NotSaved, Ended
<1>7. CASE Cycle
  <2>1. Look("dirty") \/ Look("due") \/ pc' = "control"
    BY <1>7 DEF Cycle
  <2>2. runtime # None /\ UNCHANGED <<env, runtime>>
    BY <1>7 DEF Cycle
  <2> QED BY <2>1, <2>2, NewLookIsSound
<1>8. CASE Reconcile BY <1>8, NewLookIsSound DEF Reconcile
<1>9. CASE Observe BY <1>9, ObserveRemembers, NotedInterval DEF Observe, SaveThen, Observer
<1>10. CASE Unreadable BY <1>10 DEF Unreadable, Failing
<1>11. CASE Control
  <2>1. Look("drain") \/ pc' \in {"stopping", "act"}
    BY <1>11 DEF Control
  <2>2. runtime # None /\ UNCHANGED <<env, runtime>>
    BY <1>11 DEF Control
  <2> QED BY <2>1, <2>2, NewLookIsSound
<1>12. CASE Stopping BY <1>12 DEF Stopping, SaveThen
<1>13. CASE Act BY <1>13 DEF Act, Probe
<1>14. CASE Settled
  <2>1. Look("reload") \/ pc' \in {"leave", "idle"}
    BY <1>14 DEF Settled
  <2>2. runtime # None /\ UNCHANGED <<env, runtime>>
    BY <1>14 DEF Settled
  <2> QED BY <2>1, <2>2, NewLookIsSound
<1>15. CASE Drained BY <1>15, NewLookIsSound DEF Drained
<1>16. CASE Query BY <1>16 DEF Query, Validated, Since
<1>17. CASE Suppress BY <1>17 DEF Suppress, BotOnly, SaveThen, AfterFlush
<1>18. CASE Alert BY <1>18 DEF Alert, BotOnly, SaveThen, AfterFlush, Failing
<1>19. CASE Crash BY <1>19 DEF Crash, Ended
<1>20. CASE UNCHANGED vars BY <1>20 DEF vars
<1> QED BY <1>1, <1>2, <1>3, <1>4, <1>5, <1>6, <1>7, <1>8, <1>9, <1>10, <1>11, <1>12, <1>13,
           <1>14, <1>15, <1>16, <1>17, <1>18, <1>19, <1>20 DEF Next, Worker

(* Control flow: the feed is only asked about an interval.                 *)
LEMMA FlowIsSoundStep == MonitorInv /\ TypeOK' /\ [Next]_vars => FlowIsSound'
<1> SUFFICES ASSUME MonitorInv, TypeOK', [Next]_vars PROVE FlowIsSound'
  OBVIOUS
<1> USE DEF MonitorInv, TypeOK, Memory, LooksAreSound, FlowIsSound, NoLook, Resumption,
            env, flow, health, memory, world
<1>1. CASE Tick BY <1>1 DEF Tick
<1>2. CASE Write BY <1>2 DEF Write
<1>3. CASE Claim BY <1>3 DEF Claim, Unowned
<1>4. CASE Resume BY <1>4, ResumeRemembers DEF Resume, SaveThen
<1>5. CASE Save BY <1>5 DEF Save, Saved, NotSaved, Failing
<1>6. CASE Leave BY <1>6 DEF Leave, Saved, NotSaved, Ended
<1>7. CASE Cycle BY <1>7 DEF Cycle, Look
<1>8. CASE Reconcile BY <1>8 DEF Reconcile, Look
<1>9. CASE Observe BY <1>9, FlowIsSoundObserve
<1>10. CASE Unreadable BY <1>10 DEF Unreadable, Failing
<1>11. CASE Control BY <1>11 DEF Control, Heard, Asked, Look
<1>12. CASE Stopping BY <1>12 DEF Stopping, SaveThen
<1>13. CASE Act BY <1>13 DEF Act, Probe
<1>14. CASE Settled BY <1>14 DEF Settled, Look
<1>15. CASE Drained BY <1>15 DEF Drained, Look
<1>16. CASE Query BY <1>16 DEF Query, Validated, Since
<1>17. CASE Suppress BY <1>17 DEF Suppress, BotOnly, SaveThen, AfterFlush
<1>18. CASE Alert BY <1>18 DEF Alert, BotOnly, SaveThen, AfterFlush, Failing
<1>19. CASE Crash BY <1>19 DEF Crash, Ended
<1>20. CASE UNCHANGED vars BY <1>20 DEF vars
<1> QED BY <1>1, <1>2, <1>3, <1>4, <1>5, <1>6, <1>7, <1>8, <1>9, <1>10, <1>11, <1>12, <1>13,
           <1>14, <1>15, <1>16, <1>17, <1>18, <1>19, <1>20 DEF Next, Worker

(* The pending interval lies within what has been written.                 *)
LEMMA PendingIsWritten ==
  ASSUME MonitorInv, runtime \in Memory, runtime.pending # None
  PROVE  runtime.pending.low + 1 .. runtime.signature \subseteq 1 .. Version
<1>1. runtime.pending.low \in Nat /\ runtime.signature \in Nat
  BY DEF Memory, Interval
<1>2. runtime.signature <= Version /\ Version \in Nat
  BY DEF MonitorInv, TypeOK, MemoriesAreSound, Sound, Version
<1> QED BY <1>1, <1>2

(* What the feed says of an interval stays true of it until it is used.    *)
LEMMA AnswersAreSoundStep == MonitorInv /\ TypeOK' /\ [Next]_vars => AnswersAreSound'
<1> SUFFICES ASSUME MonitorInv, TypeOK', [Next]_vars PROVE AnswersAreSound'
  OBVIOUS
<1> USE DEF MonitorInv, TypeOK, FlowIsSound, AnswersAreSound, Resumption, env, flow, health,
           memory, world
<1>1. CASE Tick BY <1>1 DEF Tick
<1>2. CASE Write
  <2>1. /\ UNCHANGED <<pc, answer, runtime>> /\ Version \in Nat
        /\ \A v \in 1 .. Version : wrote'[v] = wrote[v]
    BY <1>2, WriteAppends DEF Write
  <2>2. ASSUME pc = "deliver"
        PROVE  runtime.pending.low + 1 .. runtime.signature \subseteq 1 .. Version
    BY <2>2, PendingIsWritten DEF Memory
  <2> QED BY <2>1, <2>2
<1>3. CASE Claim BY <1>3 DEF Claim, Unowned
<1>4. CASE Resume BY <1>4 DEF Resume, Runtime, Noted, SaveThen
<1>5. CASE Save BY <1>5 DEF Save, Saved, NotSaved, Failing
<1>6. CASE Leave BY <1>6 DEF Leave, Saved, NotSaved, Ended
<1>7. CASE Cycle BY <1>7 DEF Cycle, Look
<1>8. CASE Reconcile BY <1>8 DEF Reconcile, Look
<1>9. CASE Observe
  <2>1. \A q : Observer(look.why, q) # "deliver"
    BY <1>9, ObserveLooks, ObserverResumes
  <2> QED BY <1>9, <2>1, ObserveRemembers
<1>10. CASE Unreadable BY <1>10 DEF Unreadable, Failing
<1>11. CASE Control BY <1>11 DEF Control, Heard, Asked, Look
<1>12. CASE Stopping BY <1>12 DEF Stopping, SaveThen
<1>13. CASE Act BY <1>13 DEF Act, Probe
<1>14. CASE Settled BY <1>14 DEF Settled, Look
<1>15. CASE Drained BY <1>15 DEF Drained, Look
<1>16. CASE Query BY <1>16, AnswersAreSoundQuery
<1>17. CASE Suppress BY <1>17 DEF Suppress, BotOnly, SaveThen, AfterFlush
<1>18. CASE Alert BY <1>18 DEF Alert, BotOnly, SaveThen, AfterFlush, Failing
<1>19. CASE Crash BY <1>19 DEF Crash, Ended
<1>20. CASE UNCHANGED vars BY <1>20 DEF vars
<1> QED BY <1>1, <1>2, <1>3, <1>4, <1>5, <1>6, <1>7, <1>8, <1>9, <1>10, <1>11, <1>12, <1>13,
           <1>14, <1>15, <1>16, <1>17, <1>18, <1>19, <1>20 DEF Next, Worker

(* Nothing of the automation's own is owed.                                *)
LEMMA DebtsAreSoundStep == MonitorInv /\ TypeOK' /\ [Next]_vars => DebtsAreSound'
<1> SUFFICES ASSUME MonitorInv, TypeOK', [Next]_vars PROVE DebtsAreSound'
  OBVIOUS
<1> USE DEF MonitorInv, TypeOK, FlowIsSound, DebtsAreSound, Version, env, flow, health,
           memory, world
<1>1. CASE Tick BY <1>1, DebtsAreSoundTick
<1>2. CASE Write BY <1>2, WriteAppends DEF Write
<1>3. CASE Claim BY <1>3 DEF Claim, Unowned
<1>4. CASE Resume BY <1>4 DEF Resume, Runtime, Noted, SaveThen
<1>5. CASE Save BY <1>5 DEF Save, Saved, NotSaved, Failing
<1>6. CASE Leave BY <1>6 DEF Leave, Saved, NotSaved, Ended
<1>7. CASE Cycle BY <1>7 DEF Cycle, Look
<1>8. CASE Reconcile BY <1>8 DEF Reconcile, Look
<1>9. CASE Observe BY <1>9 DEF Observe, Runtime, Noted, IntervalStart, SaveThen, Observer
<1>10. CASE Unreadable BY <1>10 DEF Unreadable, Failing
<1>11. CASE Control BY <1>11 DEF Control, Heard, Asked, Look
<1>12. CASE Stopping BY <1>12 DEF Stopping, SaveThen
<1>13. CASE Act BY <1>13 DEF Act, Probe
<1>14. CASE Settled BY <1>14 DEF Settled, Look
<1>15. CASE Drained BY <1>15 DEF Drained, Look
<1>16. CASE Query BY <1>16 DEF Query, Validated, Since
<1>17. CASE Suppress BY <1>17 DEF Suppress, BotOnly, SaveThen, AfterFlush
<1>18. CASE Alert BY <1>18 DEF Alert, BotOnly, SaveThen, AfterFlush, Failing
<1>19. CASE Crash BY <1>19 DEF Crash, Ended
<1>20. CASE UNCHANGED vars BY <1>20 DEF vars
<1> QED BY <1>1, <1>2, <1>3, <1>4, <1>5, <1>6, <1>7, <1>8, <1>9, <1>10, <1>11, <1>12, <1>13,
           <1>14, <1>15, <1>16, <1>17, <1>18, <1>19, <1>20 DEF Next, Worker

(* An alert or a suppression settles only what the interval stands for.    *)
LEMMA NothingIsForgottenStep == MonitorInv /\ TypeOK' /\ [Next]_vars => NothingIsForgotten'
<1> SUFFICES ASSUME MonitorInv, TypeOK', [Next]_vars PROVE NothingIsForgotten'
  OBVIOUS
<1> USE DEF MonitorInv, TypeOK, MemoriesAreSound, FlowIsSound, AnswersAreSound,
            DebtsAreSound, NothingIsForgotten, Remembered, Sound, Version, Memory, Interval,
            env, flow, health, memory, world
<1>1. CASE Tick BY <1>1 DEF Tick
<1>2. CASE Write BY <1>2, NothingIsForgottenWrite
<1>3. CASE Claim BY <1>3 DEF Claim, Unowned
<1>4. CASE Resume BY <1>4, NothingIsForgottenResume
<1>5. CASE Save BY <1>5 DEF Save, Saved, NotSaved, Failing
<1>6. CASE Leave BY <1>6 DEF Leave, Saved, NotSaved, Ended
<1>7. CASE Cycle BY <1>7 DEF Cycle, Look
<1>8. CASE Reconcile BY <1>8 DEF Reconcile, Look
<1>9. CASE Observe BY <1>9, NothingIsForgottenObserve
<1>10. CASE Unreadable BY <1>10 DEF Unreadable, Failing
<1>11. CASE Control BY <1>11 DEF Control, Heard, Asked, Look
<1>12. CASE Stopping BY <1>12 DEF Stopping, SaveThen
<1>13. CASE Act BY <1>13 DEF Act, Probe
<1>14. CASE Settled BY <1>14 DEF Settled, Look
<1>15. CASE Drained BY <1>15 DEF Drained, Look
<1>16. CASE Query BY <1>16 DEF Query, Validated, Since
<1>17. CASE Suppress BY <1>17 DEF Suppress, BotOnly, SaveThen, AfterFlush
<1>18. CASE Alert BY <1>18 DEF Alert, BotOnly, SaveThen, AfterFlush, Failing
<1>19. CASE Crash BY <1>19 DEF Crash, Ended
<1>20. CASE UNCHANGED vars BY <1>20 DEF vars
<1> QED BY <1>1, <1>2, <1>3, <1>4, <1>5, <1>6, <1>7, <1>8, <1>9, <1>10, <1>11, <1>12, <1>13,
           <1>14, <1>15, <1>16, <1>17, <1>18, <1>19, <1>20 DEF Next, Worker

-----------------------------------------------------------------------------
(* The inductive invariant.                                                *)
THEOREM MonitorIsSound == Spec => []MonitorInv
<1>1. MonitorInv /\ [Next]_vars => MonitorInv'
  BY TypeStep, MemoriesAreSoundStep, LooksAreSoundStep, FlowIsSoundStep, AnswersAreSoundStep,
     DebtsAreSoundStep, NothingIsForgottenStep DEF MonitorInv
<1> QED BY InitSound, <1>1, PTL DEF Spec

(* "Unknown, empty, incomplete and failed queries alert": a change by      *)
(* anybody but the automation has been alerted, or the running monitor and *)
(* the status file both still stand for it, whatever failed or died.       *)
THEOREM NothingIsEverForgotten == Spec => []NothingIsForgotten
<1>1. MonitorInv => NothingIsForgotten
  BY DEF MonitorInv
<1> QED BY MonitorIsSound, <1>1, PTL

(* "pending end must equal lastSignatureAt": a successor accepts whatever  *)
(* status file a monitor leaves, at any moment it may die.                 *)
THEOREM StatusStaysRecoverable == Spec => []StatusIsRecoverable
<1>1. MonitorInv => StatusIsRecoverable
  BY DEF MonitorInv, MemoriesAreSound, Sound, StatusIsRecoverable
<1> QED BY MonitorIsSound, <1>1, PTL
=============================================================================
