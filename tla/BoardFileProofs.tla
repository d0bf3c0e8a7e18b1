---------------------------- MODULE BoardFileProofs ----------------------------
(***************************************************************************)
(* Proofs about the file of a board.  The lock under which it is written   *)
(* excludes, for any number of processes, crashes and leaked lock files,   *)
(* as long as no thief removed another thief's fresh lock.  The feed that  *)
(* reports who wrote it is complete when it claims to be, for any number   *)
(* of actors, commands, restarts and records.                              *)
(***************************************************************************)
EXTENDS BoardFileLock, ActivityFeed, SequenceTheorems, TLAPS

-----------------------------------------------------------------------------
(* The lock.                                                               *)

(* Who holds the lock owns the lock file, and it is not old; what it       *)
(* loaded is still the board file; and what was saved is there.            *)
Sole    == \A p \in Proc : pc[p] \in Holding => lock = p /\ ~old
Current == \A p \in Proc : At(p, "save") => copy[p] = disk
Kept    == \A p \in Proc : pc[p] \in {"release", "done"} => p \in disk

LockInv == TypeOK /\ (~raced => Sole /\ Current /\ Kept)

USE DEF At, Goto, Unlink

(* A step of the lock keeps the types.                                     *)
LEMMA LockTypeStep == ASSUME TypeOK, [Next]_vars PROVE TypeOK'
<1> USE LockAssumption DEF LockAssumption, TypeOK, Waiting, Holding, Over
<1>1. CASE Age
  BY <1>1 DEF Age
<1>2. CASE UNCHANGED vars
  BY <1>2 DEF vars
<1>3. ASSUME NEW p \in Proc, Step(p) PROVE TypeOK'
  <2>1. CASE Create(p)  BY <2>1 DEF Create
  <2>2. CASE Stat(p)    BY <2>2 DEF Stat
  <2>3. CASE Steal(p)   BY <2>3 DEF Steal
  <2>4. CASE WritePid(p)   BY <2>4 DEF WritePid
  <2>5. CASE Load(p)    BY <2>5 DEF Load
  <2>6. CASE Save(p)    BY <2>6 DEF Save
  <2>7. CASE Raise(p)   BY <2>7 DEF Raise
  <2>8. CASE Release(p)
    <3>1. (IF At(p, "release") THEN "done" ELSE "refused") \in {"done", "refused"}  OBVIOUS
    <3>2. pc' \in [Proc -> Waiting \cup Holding \cup Over]  BY <2>8, <3>1 DEF Release
    <3>3. lock' \in Proc \cup {NoLock} /\ old' \in BOOLEAN /\ (lock' = NoLock => ~old')
      <4>1. CASE lock' = NoLock /\ old' = FALSE  BY <4>1
      <4>2. CASE UNCHANGED <<lock, old>>  BY <4>2
      <4> QED BY <2>8, <4>1, <4>2 DEF Release
    <3>4. leaks' \in 0..MaxLeaks
      <4>1. CASE leaks' = leaks  BY <4>1
      <4>2. CASE leaks < MaxLeaks /\ leaks' = leaks + 1  BY <4>2
      <4> QED BY <2>8, <4>1, <4>2 DEF Release
    <3>5. UNCHANGED <<disk, copy, crashes, raced>>  BY <2>8 DEF Release
    <3> QED BY <3>2, <3>3, <3>4, <3>5
  <2> QED BY <1>3, <2>1, <2>2, <2>3, <2>4, <2>5, <2>6, <2>7, <2>8 DEF Step
<1>4. ASSUME NEW p \in Proc, Crash(p) PROVE TypeOK'
  BY <1>4 DEF Crash
<1> QED BY <1>1, <1>2, <1>3, <1>4 DEF Next, Finished

(* Each step of a process keeps the three parts.                           *)
LEMMA LockProcessStep ==
  ASSUME LockInv, NEW p \in Proc, Step(p), ~raced'
  PROVE  Sole' /\ Current' /\ Kept'
<1> USE LockAssumption
    DEF LockAssumption, LockInv, TypeOK, Sole, Current, Kept, Waiting, Holding, Over
<1>1. CASE Create(p)  BY <1>1 DEF Create
<1>2. CASE Stat(p)    BY <1>2 DEF Stat
<1>3. CASE Steal(p)
  <2>1. ~raced /\ (lock = NoLock \/ old)  BY <1>3 DEF Steal
  <2>2. \A q \in Proc : pc[q] \notin Holding  BY <2>1
  <2> QED BY <1>3, <2>1, <2>2 DEF Steal
<1>4. CASE WritePid(p)   BY <1>4 DEF WritePid
<1>5. CASE Load(p)    BY <1>5 DEF Load
<1>6. CASE Save(p)
  <2>1. \A q \in Proc : pc[q] \in Holding => q = p  BY <1>6 DEF Save
  <2>2. disk \subseteq disk'  BY <1>6 DEF Save
  <2> QED BY <1>6, <2>1, <2>2 DEF Save
<1>7. CASE Raise(p)   BY <1>7 DEF Raise
<1>8. CASE Release(p)
  <2>1. \A q \in Proc : pc[q] \in Holding => q = p  BY <1>8 DEF Release
  <2> QED BY <1>8, <2>1 DEF Release
<1> QED BY <1>1, <1>2, <1>3, <1>4, <1>5, <1>6, <1>7, <1>8 DEF Step

LEMMA LockStep == ASSUME LockInv, [Next]_vars PROVE LockInv'
<1>1. TypeOK'
  BY LockTypeStep DEF LockInv
<1>2. ASSUME ~raced' PROVE Sole' /\ Current' /\ Kept'
  <2> USE DEF Sole, Current, Kept
  <2>1. CASE UNCHANGED vars
    BY <1>2, <2>1 DEF LockInv, vars
  <2>2. CASE Age
    <3>1. ~raced /\ lock \in Proc /\ pc[lock] \notin Holding  BY <1>2, <2>2 DEF Age, LockInv, TypeOK
    <3>2. \A q \in Proc : pc[q] \notin Holding  BY <3>1 DEF LockInv
    <3> QED BY <2>2, <3>1, <3>2 DEF Age, LockInv
  <2>3. ASSUME NEW p \in Proc, Step(p) PROVE Sole' /\ Current' /\ Kept'
    BY <1>2, <2>3, LockProcessStep
  <2>4. ASSUME NEW p \in Proc, Crash(p) PROVE Sole' /\ Current' /\ Kept'
    BY <1>2, <2>4 DEF Crash, LockInv, TypeOK, Holding, Waiting, Over
  <2> QED BY <2>1, <2>2, <2>3, <2>4 DEF Next, Finished
<1> QED BY <1>1, <1>2 DEF LockInv

LEMMA LockHolds == Spec => []LockInv
<1>1. Init => LockInv
  <2>1. Init => TypeOK
    <3> SUFFICES ASSUME Init PROVE TypeOK  OBVIOUS
    <3>1. pc \in [Proc -> Waiting \cup Holding \cup Over]  BY DEF Init, Waiting
    <3>2. copy \in [Proc -> SUBSET Proc]  BY DEF Init
    <3>3. crashes \in 0..MaxCrashes /\ leaks \in 0..MaxLeaks
      BY LockAssumption DEF LockAssumption, Init
    <3> QED BY <3>1, <3>2, <3>3 DEF Init, TypeOK
  <2>2. Init => Sole /\ Current /\ Kept
    BY DEF Init, Sole, Current, Kept, Holding
  <2> QED BY <2>1, <2>2 DEF LockInv
<1>2. LockInv /\ [Next]_vars => LockInv'
  BY LockStep
<1> QED BY <1>1, <1>2, PTL DEF Spec

(* locked: two processes are inside the lock of one board at the same time *)
(* only after two of them removed the same stale lock.                     *)
THEOREM LockExcludes == Spec => []ExclusiveUnlessRaced
<1>1. LockInv => ExclusiveUnlessRaced
  BY DEF LockInv, Sole, ExclusiveUnlessRaced, MutualExclusion
<1> QED BY <1>1, LockHolds, PTL

(* edit: and until then no saved edit is ever overwritten.                 *)
THEOREM SavedEditsStay == Spec => []NoEditLost
<1>1. LockInv => NoEditLost
  BY DEF LockInv, Kept, NoEditLost
<1> QED BY <1>1, LockHolds, PTL

HIDE DEF At, Goto, Unlink

-----------------------------------------------------------------------------
(* The feed.                                                               *)

USE FeedAssumption

(* The version the newest record left; only this one can match the stamp.  *)
Known == IF records = <<>> THEN base ELSE records[Len(records)].version

(* The clock only advances, and so do the moments of the replacements.     *)
TimesAscend ==
  /\ base \in 1 .. Version
  /\ \A v \in 1 .. Version : wrote[v].at <= now
  /\ \A v, w \in 1 .. Version : v <= w => wrote[v].at <= wrote[w].at

(* What is gone from the feed is older than what it says it is.            *)
RetentionIsHonest ==
  up => IF evicted = None THEN wrote[base].at < started ELSE wrote[base].at <= evicted

(* Each record is of a replacement behind the one before it, was published *)
(* after it, and names its author if it claims to be complete.             *)
RecordsAreSound ==
  /\ \A i \in 1 .. Len(records) :
       /\ records[i].sequence = sequence - Len(records) + i
       /\ base < records[i].version /\ records[i].version <= Version
       /\ wrote[records[i].version].at <= records[i].observed
       /\ records[i].complete =>
            \E e \in records[i].events : e.by = wrote[records[i].version].by
  /\ \A i, j \in 1 .. Len(records) : i < j => records[i].version < records[j].version
  /\ Len(records) <= sequence

(* A replacement the feed has no record of is followed by a record that    *)
(* does not claim to be complete, or by none.                              *)
GapsAreMarked ==
  \A v \in 1 .. Version : v \notin lost /\ base < v /\ v <= Known =>
    \E i \in 1 .. Len(records) :
      /\ v <= records[i].version
      /\ v = records[i].version \/ ~records[i].complete

(* A command under way knows whether the file was as the feed left it.     *)
CommandsAreSound ==
  /\ stamp # None => stamp = Known
  /\ ~up => op = Idle
  /\ op.step \in {"prepared", "replace", "publish"} => \A e \in op.events : e.by = op.by
  /\ op.step = "replace" =>
       /\ Known <= op.read /\ op.read <= Version
       /\ op.predecessor => op.read = Known
  /\ op.step = "publish" =>
       /\ Known < op.saved /\ op.saved <= Version /\ wrote[op.saved].by = op.by
       /\ op.predecessor => \A v \in 1 .. Version : Known < v /\ v < op.saved => v \in lost

FeedInv ==
  /\ FeedTypeOK
  /\ TimesAscend /\ RetentionIsHonest /\ RecordsAreSound /\ GapsAreMarked /\ CommandsAreSound

-----------------------------------------------------------------------------
(* Every version has an author and a moment.                               *)
LEMMA WroteTyped ==
  ASSUME FeedTypeOK, NEW v \in 1 .. Version
  PROVE  wrote[v] \in [by : Actor \cup {"hand", "repair"}, at : Nat]
<1>1. wrote \in Seq([by : Actor \cup {"hand", "repair"}, at : Nat]) /\ v \in 1 .. Len(wrote)
  BY DEF FeedTypeOK, Version
<1> QED BY <1>1, ElementOfSeq

LEMMA RecordsTyped ==
  ASSUME FeedTypeOK, NEW i \in 1 .. Len(records)
  PROVE  records[i] \in Record
<1>1. records \in Seq(Record)
  BY DEF FeedTypeOK
<1> QED BY <1>1, ElementOfSeq

(* A write is the next version, of this moment; the others stay.           *)
LEMMA WriteAppends ==
  ASSUME FeedTypeOK, NEW who \in Actor \cup {"hand", "repair"}, Write(who)
  PROVE  /\ wrote' \in Seq([by : Actor \cup {"hand", "repair"}, at : Nat])
         /\ Version \in Nat /\ Version' = Version + 1
         /\ wrote'[Version + 1].by = who /\ wrote'[Version + 1].at = now
         /\ \A v \in 1 .. Version : wrote'[v] = wrote[v]
<1>1. wrote \in Seq([by : Actor \cup {"hand", "repair"}, at : Nat]) /\ now \in Nat
      /\ wrote' = Append(wrote, [by |-> who, at |-> now])
  BY DEF FeedTypeOK, Write
<1>2. [by |-> who, at |-> now] \in [by : Actor \cup {"hand", "repair"}, at : Nat]
  BY <1>1
<1> QED BY <1>1, <1>2, AppendProperties DEF Version

(* A new record comes last, and at most one gives way for it.              *)
LEMMA AppendedRecords ==
  ASSUME FeedTypeOK, NEW record \in Record, Appended(record)
  PROVE  /\ records' \in Seq(Record) /\ Len(records') <= MaxRecords /\ sequence' = sequence + 1
         /\ \E k \in {0, 1} :
              /\ Len(records') = Len(records) + 1 - k
              /\ \A i \in 1 .. Len(records) - k : records'[i] = records[i + k]
              /\ records'[Len(records')] = record
              /\ k = 0 => base' = base /\ evicted' = evicted
              /\ k = 1 => /\ 1 <= Len(records)
                          /\ base' = records[1].version /\ evicted' = records[1].observed
<1> DEFINE all == Append(records, record)
           surplus == IF Len(all) > MaxRecords THEN Len(all) - MaxRecords ELSE 0
           Gone(k) ==
              /\ Len(records') = Len(records) + 1 - k
              /\ \A i \in 1 .. Len(records) - k : records'[i] = records[i + k]
              /\ records'[Len(records')] = record
              /\ k = 0 => base' = base /\ evicted' = evicted
              /\ k = 1 => /\ 1 <= Len(records)
                          /\ base' = records[1].version /\ evicted' = records[1].observed
<1>1. records \in Seq(Record) /\ Len(records) \in Nat /\ Len(records) <= MaxRecords
  BY LenProperties DEF FeedTypeOK
<1>2. /\ all \in Seq(Record) /\ Len(all) = Len(records) + 1
      /\ \A i \in 1 .. Len(records) : all[i] = records[i]
      /\ all[Len(records) + 1] = record
  BY <1>1, AppendProperties
<1>3. surplus = IF Len(records) = MaxRecords THEN 1 ELSE 0
  BY <1>1, <1>2
<1>4. \A i \in surplus + 1 .. Len(all) : all[i] \in Record
  BY <1>2, <1>3, ElementOfSeq
<1>5. /\ records' = SubSeq(all, surplus + 1, Len(all)) /\ sequence' = sequence + 1
      /\ evicted' = IF surplus = 0 THEN evicted ELSE all[surplus].observed
      /\ base' = IF surplus = 0 THEN base ELSE all[surplus].version
  BY DEF Appended
<1> HIDE DEF all, surplus
<1>6. surplus + 1 \in Int /\ Len(all) \in Int
      /\ Len(all) - (surplus + 1) + 1 = Len(records) + 1 - surplus
  BY <1>1, <1>2, <1>3
<1>7. /\ records' \in Seq(Record)
      /\ Len(records') = Len(records) + 1 - surplus
      /\ \A i \in 1 .. Len(records) + 1 - surplus : records'[i] = all[i + surplus]
  <2>1. /\ SubSeq(all, surplus + 1, Len(all)) \in Seq(Record)
        /\ Len(SubSeq(all, surplus + 1, Len(all)))
             = IF surplus + 1 <= Len(all) THEN Len(all) - (surplus + 1) + 1 ELSE 0
        /\ \A i \in 1 .. Len(all) - (surplus + 1) + 1 :
             SubSeq(all, surplus + 1, Len(all))[i] = all[surplus + 1 + i - 1]
    BY <1>4, <1>6, SubSeqProperties
  <2>2. surplus + 1 <= Len(all) /\ surplus \in Nat
    BY <1>1, <1>2, <1>3, FeedAssumption
  <2>3. \A i \in 1 .. Len(records) + 1 - surplus : surplus + 1 + i - 1 = i + surplus
    BY <2>2
  <2> QED BY <1>5, <1>6, <2>1, <2>2, <2>3
<1>8. Len(records') <= MaxRecords
  BY <1>1, <1>3, <1>7
<1>9. ASSUME surplus = 0 PROVE Gone(0)
  <2>1. Len(records') = Len(records) + 1 - 0 /\ base' = base /\ evicted' = evicted
    BY <1>1, <1>5, <1>7, <1>9
  <2>2. \A i \in 1 .. Len(records) - 0 : records'[i] = records[i + 0]
    BY <1>1, <1>2, <1>7, <1>9
  <2>3. records'[Len(records')] = record
    BY <1>1, <1>2, <1>7, <1>9
  <2> QED BY <2>1, <2>2, <2>3
<1>10. ASSUME surplus = 1 PROVE Gone(1)
  <2>1. 1 <= Len(records)
    BY <1>1, <1>3, <1>10
  <2>2. Len(records') = Len(records) + 1 - 1
        /\ base' = records[1].version /\ evicted' = records[1].observed
    BY <1>1, <1>2, <1>5, <1>7, <1>10, <2>1
  <2>3. ASSUME NEW i \in 1 .. Len(records) - 1 PROVE records'[i] = records[i + 1]
    <3>1. i \in 1 .. Len(records) + 1 - surplus /\ i + 1 \in 1 .. Len(records)
      BY <1>1, <1>10
    <3> QED BY <1>2, <1>7, <1>10, <3>1
  <2>4. records'[Len(records')] = record
    BY <1>1, <1>2, <1>7, <1>10, <2>1
  <2> QED BY <2>1, <2>2, <2>3, <2>4
<1>11. \E k \in {0, 1} : Gone(k)
  <2> HIDE DEF Gone
  <2> QED BY <1>3, <1>9, <1>10
<1> QED BY <1>5, <1>7, <1>8, <1>11

-----------------------------------------------------------------------------
(* The initial state.                                                      *)
LEMMA FeedInitSound == FeedInit => FeedInv
<1> SUFFICES ASSUME FeedInit PROVE FeedInv
  OBVIOUS
<1>1. wrote \in Seq([by : Actor \cup {"hand", "repair"}, at : Nat]) /\ Len(wrote) = 1
      /\ wrote[1].at = 0
  BY DEF FeedInit
<1>2. records \in Seq(Record) /\ Len(records) = 0
  BY EmptySeq DEF FeedInit
<1>3. FeedTypeOK
  BY <1>1, <1>2 DEF FeedInit, FeedTypeOK, Command
<1>4. TimesAscend /\ RetentionIsHonest
  BY <1>1 DEF FeedInit, TimesAscend, RetentionIsHonest, Version
<1>5. RecordsAreSound /\ GapsAreMarked
  BY <1>1, <1>2 DEF FeedInit, RecordsAreSound, GapsAreMarked, Known, Version
<1>6. CommandsAreSound
  BY <1>1, <1>2 DEF FeedInit, CommandsAreSound, Known, Version, Idle
<1> QED BY <1>3, <1>4, <1>5, <1>6 DEF FeedInv

-----------------------------------------------------------------------------
(* What only looks leaves the feed as it is.                               *)
LEMMA LooksKeepTheFeed ==
  ASSUME FeedInv, now \in Nat, now' \in Nat, now <= now', up' => up,
         UNCHANGED <<wrote, lost, started, records, sequence, evicted, base>>
  PROVE  TimesAscend' /\ RetentionIsHonest' /\ RecordsAreSound' /\ GapsAreMarked'
<1>1. Version' = Version /\ Known' = Known
  BY DEF Version, Known
<1>2. TimesAscend'
  <2>1. ASSUME NEW v \in 1 .. Version PROVE wrote[v].at <= now'
    <3>1. wrote[v].at \in Nat /\ wrote[v].at <= now
      BY WroteTyped DEF FeedInv, TimesAscend
    <3> QED BY <3>1
  <2> QED BY <1>1, <2>1 DEF FeedInv, TimesAscend
<1>3. RetentionIsHonest'
  BY DEF FeedInv, RetentionIsHonest
<1>4. RecordsAreSound' /\ GapsAreMarked'
  BY <1>1 DEF FeedInv, RecordsAreSound, GapsAreMarked
<1> QED BY <1>2, <1>3, <1>4

(* The feed knows a version of the file, and none behind it.               *)
LEMMA KnownIsWritten ==
  ASSUME FeedInv
  PROVE  /\ Version \in Nat /\ Known \in 1 .. Version /\ base <= Known
         /\ \A i \in 1 .. Len(records) :
              records[i].version \in 1 .. Version /\ records[i].version <= Known
<1>1. base \in 1 .. Version /\ Version \in Nat /\ Len(records) \in Nat
  BY LenProperties DEF FeedInv, FeedTypeOK, TimesAscend, Version
<1>2. \A i \in 1 .. Len(records) :
        records[i].version \in 1 .. Version /\ base < records[i].version
  BY <1>1, RecordsTyped DEF FeedInv, RecordsAreSound, Record
<1>3. CASE records = <<>> BY <1>1, <1>3 DEF Known
<1>4. CASE records # <<>>
  <2>1. Len(records) \in 1 .. Len(records)
    BY <1>1, <1>4, EmptySeq DEF FeedInv, FeedTypeOK
  <2>2. \A i \in 1 .. Len(records) :
          i # Len(records) => records[i].version < records[Len(records)].version
    BY <1>1, <2>1 DEF FeedInv, RecordsAreSound
  <2> QED BY <1>1, <1>2, <1>4, <2>1, <2>2 DEF Known
<1> QED BY <1>3, <1>4

(* A replacement of the file is behind all the feed has recorded.          *)
LEMMA WritesKeepTheFeed ==
  ASSUME FeedInv, NEW who \in Actor \cup {"hand", "repair"}, Write(who), lost \subseteq lost',
         UNCHANGED <<now, up, started, records, sequence, evicted, base>>
  PROVE  /\ TimesAscend' /\ RetentionIsHonest' /\ RecordsAreSound' /\ GapsAreMarked'
         /\ Known' = Known /\ Known <= Version
<1>1. /\ Version \in Nat /\ Version' = Version + 1
      /\ wrote'[Version + 1].by = who /\ wrote'[Version + 1].at = now
      /\ \A v \in 1 .. Version : wrote'[v] = wrote[v]
  BY WriteAppends DEF FeedInv
<1>2. now \in Nat /\ \A v \in 1 .. Version : wrote[v].at \in Nat /\ wrote[v].at <= now
  BY WroteTyped DEF FeedInv, FeedTypeOK, TimesAscend
<1>3. base \in 1 .. Version /\ \A v, w \in 1 .. Version : v <= w => wrote[v].at <= wrote[w].at
  BY DEF FeedInv, TimesAscend
<1>4. TimesAscend'
  <2>1. base' \in 1 .. Version'
    BY <1>1, <1>3
  <2>2. ASSUME NEW v \in 1 .. Version' PROVE wrote'[v].at <= now'
    <3>1. CASE v = Version + 1 BY <1>1, <1>2, <3>1
    <3>2. CASE v \in 1 .. Version BY <1>1, <1>2, <3>2
    <3> QED BY <1>1, <3>1, <3>2
  <2>3. ASSUME NEW v \in 1 .. Version', NEW w \in 1 .. Version', v <= w
        PROVE  wrote'[v].at <= wrote'[w].at
    <3>1. CASE w = Version + 1 BY <1>1, <2>2, <3>1
    <3>2. CASE w \in 1 .. Version /\ v \in 1 .. Version BY <1>1, <1>3, <2>3, <3>2
    <3> QED BY <1>1, <2>3, <3>1, <3>2
  <2> QED BY <2>1, <2>2, <2>3 DEF TimesAscend
<1>5. RetentionIsHonest'
  BY <1>1, <1>3 DEF FeedInv, RetentionIsHonest
<1>7. RecordsAreSound'
  <2>1. ASSUME NEW i \in 1 .. Len(records)
        PROVE  /\ records[i].version <= Version'
               /\ wrote'[records[i].version] = wrote[records[i].version]
    BY <1>1, KnownIsWritten
  <2> QED BY <2>1 DEF FeedInv, RecordsAreSound
<1>8. Known' = Known /\ Known \in 1 .. Version
  BY KnownIsWritten DEF Known
<1>10. GapsAreMarked'
  <2> SUFFICES ASSUME NEW v \in 1 .. Version', v \notin lost', base < v, v <= Known
               PROVE  \E i \in 1 .. Len(records) :
                        /\ v <= records[i].version
                        /\ v = records[i].version \/ ~records[i].complete
    BY <1>8 DEF GapsAreMarked
  <2>1. v \in 1 .. Version /\ v \notin lost
    BY <1>1, <1>8
  <2> QED BY <2>1 DEF FeedInv, GapsAreMarked
<1> QED BY <1>1, <1>4, <1>5, <1>7, <1>8, <1>10

(* A publication: the new record, or nothing but the loss of the stamp.    *)
LEMMA PublishAppends ==
  ASSUME FeedInv, Publish
  PROVE  /\ op.step = "publish" /\ UNCHANGED <<now, wrote, lost, up, started>>
         /\ \/ stamp' = None /\ UNCHANGED <<records, sequence, evicted, base>>
            \/ \E record \in Record :
                 /\ Appended(record)
                 /\ stamp' \in {None, op.saved}
                 /\ record.sequence = sequence + 1 /\ record.observed = now
                 /\ record.version = op.saved
                 /\ record.complete => op.predecessor
                 /\ record.complete => record.events = op.events /\ op.events # {}
<1>1. op \in [step : {"publish"}, by : Actor, events : SUBSET Event, predecessor : BOOLEAN,
              saved : Nat] /\ now \in Nat /\ sequence \in Nat
  BY DEF Publish, FeedInv, FeedTypeOK, Command, Idle
<1> DEFINE bound == IF Version = op.saved THEN Version ELSE None
           whole == op.predecessor /\ bound # None /\ op.events # {}
<1>2. whole \in BOOLEAN
  OBVIOUS
<1>3. bound \in {None, op.saved}
  OBVIOUS
<1>4. ASSUME NEW complete \in BOOLEAN, NEW events \in SUBSET Event
      PROVE  RecordOf(events, complete) \in Record
  BY <1>1, <1>4 DEF RecordOf, Record
<1>5. CASE Appended(RecordOf(op.events, whole)) /\ stamp' = bound
  <2>1. RecordOf(op.events, whole) \in Record
    BY <1>1, <1>2, <1>4
  <2>2. /\ RecordOf(op.events, whole).sequence = sequence + 1
        /\ RecordOf(op.events, whole).observed = now
        /\ RecordOf(op.events, whole).version = op.saved
        /\ RecordOf(op.events, whole).events = op.events
        /\ RecordOf(op.events, whole).complete <=> whole
    BY DEF RecordOf
  <2> QED BY <1>1, <1>3, <1>5, <2>1, <2>2 DEF Publish, file
<1>6. CASE Appended(RecordOf({}, FALSE)) /\ stamp' = bound
  <2>1. RecordOf({}, FALSE) \in Record
    BY <1>4
  <2>2. /\ RecordOf({}, FALSE).sequence = sequence + 1
        /\ RecordOf({}, FALSE).observed = now
        /\ RecordOf({}, FALSE).version = op.saved
        /\ ~RecordOf({}, FALSE).complete
    BY DEF RecordOf
  <2> QED BY <1>1, <1>3, <1>6, <2>1, <2>2 DEF Publish, file
<1>7. CASE stamp' = None /\ UNCHANGED <<records, sequence, evicted, base>>
  BY <1>7 DEF Publish, file
<1> QED BY <1>5, <1>6, <1>7 DEF Publish

(* A new record is behind the others, and whoever gives way for it takes   *)
(* the floor of the feed along.                                            *)
LEMMA AppendKeepsTheFeed ==
  ASSUME FeedInv, op.step = "publish", UNCHANGED <<now, wrote, lost, up, started>>,
         NEW record \in Record, Appended(record),
         record.sequence = sequence + 1, record.observed = now, record.version = op.saved,
         record.complete => op.predecessor,
         record.complete => record.events = op.events /\ op.events # {}
  PROVE  /\ TimesAscend' /\ RetentionIsHonest' /\ RecordsAreSound' /\ GapsAreMarked'
         /\ Known' = op.saved
<1>1. /\ records' \in Seq(Record) /\ sequence' = sequence + 1
      /\ sequence \in Nat /\ Len(records) \in Nat /\ Version' = Version /\ now \in Nat
  BY AppendedRecords, LenProperties DEF FeedInv, FeedTypeOK, Version
<1>2. PICK k \in {0, 1} :
        /\ Len(records') = Len(records) + 1 - k
        /\ \A i \in 1 .. Len(records) - k : records'[i] = records[i + k]
        /\ records'[Len(records')] = record
        /\ k = 0 => base' = base /\ evicted' = evicted
        /\ k = 1 => /\ 1 <= Len(records)
                    /\ base' = records[1].version /\ evicted' = records[1].observed
  BY AppendedRecords DEF FeedInv
<1>3. /\ op.saved \in 1 .. Version /\ Known < op.saved
      /\ Known \in 1 .. Version /\ base <= Known /\ base \in 1 .. Version
      /\ \A i \in 1 .. Len(records) :
           records[i].version \in 1 .. Version /\ records[i].version <= Known
  BY KnownIsWritten DEF FeedInv, CommandsAreSound, TimesAscend, Record
<1>4. Len(records') \in 1 .. Len(records) + 1 /\ Len(records') = Len(records) + 1 - k
  BY <1>1, <1>2
<1>5. ASSUME NEW i \in 1 .. Len(records'), i # Len(records')
      PROVE  i + k \in 1 .. Len(records) /\ records'[i] = records[i + k]
  BY <1>1, <1>2, <1>4, <1>5
<1>6. Known' = op.saved
  BY <1>1, <1>2, <1>4, EmptySeq DEF Known
<1>7. base' \in 1 .. Version /\ base <= base' /\ base' <= Known
  <2>1. CASE k = 0 BY <1>2, <1>3, <2>1
  <2>2. CASE k = 1
    <3>1. 1 \in 1 .. Len(records) /\ base' = records[1].version
      BY <1>1, <1>2, <2>2
    <3>2. base < records[1].version
      BY <3>1 DEF FeedInv, RecordsAreSound
    <3> QED BY <1>3, <3>1, <3>2
  <2> QED BY <2>1, <2>2
<1>8. TimesAscend'
  BY <1>1, <1>7 DEF FeedInv, TimesAscend
<1>9. RetentionIsHonest'
  <2>1. CASE k = 0 BY <1>2, <2>1 DEF FeedInv, RetentionIsHonest
  <2>2. CASE k = 1
    <3>1. records[1] \in Record /\ wrote[records[1].version].at <= records[1].observed
      BY <1>1, <1>2, <2>2, RecordsTyped DEF FeedInv, RecordsAreSound
    <3>2. evicted' \in Nat
      BY <1>2, <2>2, <3>1 DEF Record
    <3> QED BY <1>2, <2>2, <3>1, <3>2 DEF RetentionIsHonest
  <2> QED BY <2>1, <2>2
<1>10. RecordsAreSound'
  <2>1. \A i \in 1 .. Len(records') : records'[i].sequence = sequence' - Len(records') + i
    <3>1. ASSUME NEW i \in 1 .. Len(records'), i # Len(records')
          PROVE  records'[i].sequence = sequence' - Len(records') + i
      <4>1. records'[i].sequence = sequence - Len(records) + (i + k)
        BY <1>5, <3>1 DEF FeedInv, RecordsAreSound
      <4>2. sequence' - Len(records') = sequence - Len(records) + k
        BY <1>1, <1>4
      <4> QED BY <1>1, <1>4, <4>1, <4>2
    <3>2. records'[Len(records')].sequence = sequence' - Len(records') + Len(records')
      BY <1>1, <1>2, <1>4
    <3> QED BY <3>1, <3>2
  <2>2. \A i \in 1 .. Len(records') : base' < records'[i].version
    <3>1. k = 1 => \A j \in 2 .. Len(records) : records[1].version < records[j].version
      BY <1>1, <1>2 DEF FeedInv, RecordsAreSound
    <3>2. ASSUME NEW i \in 1 .. Len(records'), i # Len(records') PROVE base' < records'[i].version
      <4>1. CASE k = 0 BY <1>2, <1>5, <3>2, <4>1 DEF FeedInv, RecordsAreSound
      <4>2. CASE k = 1
        <5>1. i + 1 \in 2 .. Len(records) /\ records'[i] = records[i + 1]
          BY <1>1, <1>5, <3>2, <4>2
        <5> QED BY <1>2, <3>1, <4>2, <5>1
      <4> QED BY <4>1, <4>2
    <3>3. base' < records'[Len(records')].version
      BY <1>2, <1>3, <1>7
    <3> QED BY <3>2, <3>3
  <2>3. ASSUME NEW i \in 1 .. Len(records')
        PROVE  /\ records'[i].version <= Version
               /\ wrote[records'[i].version].at <= records'[i].observed
               /\ records'[i].complete =>
                    \E e \in records'[i].events : e.by = wrote[records'[i].version].by
    <3>1. CASE i = Len(records')
      <4>1. wrote[op.saved].at <= now /\ wrote[op.saved].by = op.by
            /\ \A e \in op.events : e.by = op.by
        BY <1>3 DEF FeedInv, TimesAscend, CommandsAreSound
      <4>2. records'[i] = record
        BY <1>2, <3>1
      <4> QED BY <1>3, <4>1, <4>2
    <3>2. CASE i # Len(records')
      <4>1. i + k \in 1 .. Len(records) /\ records'[i] = records[i + k]
        BY <1>1, <1>4, <1>5, <3>2
      <4> QED BY <4>1 DEF FeedInv, RecordsAreSound
    <3> QED BY <3>1, <3>2
  <2>4. ASSUME NEW i \in 1 .. Len(records'), NEW j \in 1 .. Len(records'), i < j
        PROVE  records'[i].version < records'[j].version
    <3>1. i # Len(records') /\ i + k \in 1 .. Len(records) /\ records'[i] = records[i + k]
      BY <1>1, <1>4, <1>5, <2>4
    <3>2. CASE j = Len(records')
      <4>1. records'[i].version \in 1 .. Version /\ records'[i].version <= Known
        BY <1>3, <3>1
      <4>2. records'[j].version = op.saved
        BY <1>2, <3>2
      <4> QED BY <1>3, <4>1, <4>2
    <3>3. CASE j # Len(records')
      <4>1. j + k \in 1 .. Len(records) /\ records'[j] = records[j + k] /\ i + k < j + k
        BY <1>5, <2>4, <3>3
      <4> QED BY <3>1, <4>1 DEF FeedInv, RecordsAreSound
    <3> QED BY <3>2, <3>3
  <2>5. Len(records') <= sequence'
    BY <1>1, <1>4 DEF FeedInv, RecordsAreSound
  <2> QED BY <1>1, <2>1, <2>2, <2>3, <2>4, <2>5 DEF RecordsAreSound
<1>11. GapsAreMarked'
  <2> SUFFICES ASSUME NEW v \in 1 .. Version, v \notin lost, base' < v, v <= op.saved
               PROVE  \E i \in 1 .. Len(records') :
                        /\ v <= records'[i].version
                        /\ v = records'[i].version \/ ~records'[i].complete
    BY <1>1, <1>6 DEF GapsAreMarked
  <2>1. CASE v <= Known
    <3>1. PICK j \in 1 .. Len(records) :
            v <= records[j].version /\ (v = records[j].version \/ ~records[j].complete)
      BY <1>3, <1>7, <2>1 DEF FeedInv, GapsAreMarked
    <3>2. j - k \in 1 .. Len(records') /\ j - k # Len(records') /\ (j - k) + k = j
      <4>1. k = 1 => j # 1
        BY <1>2, <1>3, <3>1
      <4> QED BY <1>1, <1>2, <1>4, <4>1
    <3>3. records'[j - k] = records[j]
      BY <1>5, <3>2
    <3> QED BY <3>1, <3>2, <3>3
  <2>2. CASE Known < v
    <3>1. v = op.saved \/ ~record.complete
      BY <1>3, <2>2 DEF FeedInv, CommandsAreSound
    <3>2. Len(records') \in 1 .. Len(records')
      BY <1>1, <1>4
    <3> QED BY <1>2, <3>1, <3>2
  <2> QED BY <1>3, <2>1, <2>2
<1> QED BY <1>6, <1>8, <1>9, <1>10, <1>11
(* A start of the service, on the file as it is.                           *)
LEMMA StartKeepsTheFeed ==
  ASSUME FeedInv, StartService
  PROVE  FeedInv'
<1>1. /\ now \in Nat /\ now' = now + 1 /\ started' = now + 1 /\ UNCHANGED <<wrote, lost, op>>
      /\ up' = TRUE /\ epoch' = epoch + 1 /\ records' = <<>> /\ sequence' = 0 /\ evicted' = None
      /\ stamp' \in {Version, None} /\ base' = Version /\ op = Idle
  BY DEF StartService, FeedInv, FeedTypeOK, CommandsAreSound, file
<1>2. /\ Version' = Version /\ Version \in 1 .. Version /\ Known' = Version
      /\ \A v \in 1 .. Version : wrote[v].at \in Nat /\ wrote[v].at <= now
  BY <1>1, WroteTyped, KnownIsWritten DEF FeedInv, TimesAscend, Version, Known
<1>3. records' \in Seq(Record) /\ Len(records') = 0
  BY <1>1, EmptySeq
<1>4. FeedTypeOK'
  BY <1>1, <1>2, <1>3 DEF FeedInv, FeedTypeOK, Command
<1>5. TimesAscend' /\ RetentionIsHonest'
  BY <1>1, <1>2 DEF FeedInv, TimesAscend, RetentionIsHonest
<1>6. RecordsAreSound' /\ GapsAreMarked'
  BY <1>1, <1>2, <1>3 DEF RecordsAreSound, GapsAreMarked
<1>7. CommandsAreSound'
  BY <1>1, <1>2 DEF FeedInv, CommandsAreSound, Idle
<1> QED BY <1>4, <1>5, <1>6, <1>7 DEF FeedInv

(* A look keeps the stamp only where it matches, and so where it is known. *)
LEMMA LookMatches ==
  ASSUME FeedInv
  PROVE  /\ Observed \in Nat \cup {None} /\ Matches \in BOOLEAN
         /\ Observed # None => Observed = Known
         /\ Matches => Version = Known
<1>1. Version \in Nat
  BY LenProperties DEF FeedInv, FeedTypeOK, Version
<1> QED BY <1>1 DEF FeedInv, FeedTypeOK, CommandsAreSound, Observed, Matches

(* What a command under way looks like.                                    *)
LEMMA CommandTyped ==
  ASSUME FeedTypeOK, op # Idle
  PROVE  /\ op.step \in {"load", "prepared", "replace", "publish"}
         /\ op.by \in Actor /\ op.predecessor \in BOOLEAN
         /\ op.step # "load" => op.events \in SUBSET Event
         /\ op.step = "replace" => op.read \in Nat
         /\ op.step = "publish" => op.saved \in Nat
BY DEF FeedTypeOK, Command

-----------------------------------------------------------------------------
(* One lemma for each step of a command.                                   *)

LEMMA BeginKeeps ==
  ASSUME FeedInv, NEW a \in Actor, Begin(a)
  PROVE  FeedInv'
<1>1. /\ stamp' = Observed /\ op' = [step |-> "load", by |-> a, predecessor |-> Matches]
      /\ UNCHANGED <<now, wrote, lost, up, epoch, started, records, sequence, evicted, base>> /\ up
  BY DEF Begin, Free, file
<1>2. [step |-> "load", by |-> a, predecessor |-> Matches] \in Command
  BY LookMatches DEF Command
<1>3. FeedTypeOK'
  BY <1>1, <1>2, LookMatches DEF FeedInv, FeedTypeOK
<1>4. TimesAscend' /\ RetentionIsHonest' /\ RecordsAreSound' /\ GapsAreMarked'
  BY <1>1, LooksKeepTheFeed DEF FeedInv, FeedTypeOK
<1>5. CommandsAreSound'
  BY <1>1, LookMatches DEF CommandsAreSound, Known
<1> QED BY <1>3, <1>4, <1>5 DEF FeedInv

LEMMA RunFeedCommandKeeps ==
  ASSUME FeedInv, RunFeedCommand
  PROVE  FeedInv'
<1> DEFINE command(events) == [step |-> "prepared", by |-> op.by, events |-> events,
                               predecessor |-> op.predecessor /\ Matches]
<1>1. /\ stamp' = Observed /\ op # Idle
      /\ UNCHANGED <<now, wrote, lost, up, epoch, started, records, sequence, evicted, base>>
  BY DEF RunFeedCommand, file, Idle
<1>2. PICK events \in {{}, {[by |-> op.by, at |-> now]}} : op' = command(events)
  BY DEF RunFeedCommand
<1>3. op.by \in Actor /\ now \in Nat
  BY <1>1, CommandTyped DEF FeedInv, FeedTypeOK
<1>4. events \in SUBSET Event /\ \A e \in events : e.by = op.by
  BY <1>2, <1>3 DEF Event
<1>5. command(events) \in Command
  BY <1>3, <1>4 DEF Command
<1>6. FeedTypeOK'
  BY <1>1, <1>2, <1>5, LookMatches DEF FeedInv, FeedTypeOK
<1>7. TimesAscend' /\ RetentionIsHonest' /\ RecordsAreSound' /\ GapsAreMarked'
  BY <1>1, LooksKeepTheFeed DEF FeedInv, FeedTypeOK
<1>8. CommandsAreSound'
  BY <1>1, <1>2, <1>4, LookMatches DEF FeedInv, CommandsAreSound, Known
<1> QED BY <1>6, <1>7, <1>8 DEF FeedInv

LEMMA PrepareKeeps ==
  ASSUME FeedInv, Prepare
  PROVE  FeedInv'
<1>1. /\ op.step = "prepared" /\ stamp' = Observed /\ op # Idle
      /\ op' = [step |-> "replace", by |-> op.by, events |-> op.events, read |-> Version,
                predecessor |-> op.predecessor /\ Matches]
      /\ UNCHANGED <<now, wrote, lost, up, epoch, started, records, sequence, evicted, base>>
  BY DEF Prepare, file, Idle
<1>2. op.by \in Actor /\ op.events \in SUBSET Event /\ Version \in Nat
  BY <1>1, CommandTyped, KnownIsWritten DEF FeedInv
<1>3. op' \in Command
  BY <1>1, <1>2 DEF Command
<1>4. FeedTypeOK'
  BY <1>1, <1>3, LookMatches DEF FeedInv, FeedTypeOK
<1>5. TimesAscend' /\ RetentionIsHonest' /\ RecordsAreSound' /\ GapsAreMarked'
  BY <1>1, LooksKeepTheFeed DEF FeedInv, FeedTypeOK
<1>6. CommandsAreSound'
  <2>1. Known' = Known /\ Version' = Version /\ Known <= Version
    BY <1>1, KnownIsWritten DEF Known, Version
  <2>2. \A e \in op.events : e.by = op.by
    BY <1>1 DEF FeedInv, CommandsAreSound
  <2>3. /\ op'.step = "replace" /\ op'.read = Version /\ op'.events = op.events /\ op'.by = op.by
        /\ op'.predecessor => Matches
    BY <1>1
  <2>4. op' # Idle' /\ (up \/ op = Idle)
    BY <2>3 DEF FeedInv, CommandsAreSound, Idle
  <2> QED BY <1>1, <1>2, <2>1, <2>2, <2>3, <2>4, LookMatches DEF CommandsAreSound
<1> QED BY <1>4, <1>5, <1>6 DEF FeedInv

LEMMA ReplaceKeeps ==
  ASSUME FeedInv, Replace
  PROVE  FeedInv'
<1>1. /\ op.step = "replace" /\ Write(op.by) /\ op # Idle
      /\ lost' = lost \cup (op.read + 1 .. Version)
      /\ UNCHANGED <<now, up, epoch, started, records, sequence, evicted, stamp, base>>
  BY DEF Replace, feed, Idle
<1>2. op.by \in Actor /\ op.events \in SUBSET Event /\ op.read \in Nat /\ op.predecessor \in BOOLEAN
  BY <1>1, CommandTyped DEF FeedInv
<1>3. /\ wrote' \in Seq([by : Actor \cup {"hand", "repair"}, at : Nat])
      /\ Version \in Nat /\ Version' = Version + 1 /\ wrote'[Version + 1].by = op.by
  BY <1>1, <1>2, WriteAppends DEF FeedInv
<1>4. /\ TimesAscend' /\ RetentionIsHonest' /\ RecordsAreSound' /\ GapsAreMarked'
      /\ Known' = Known /\ Known <= Version /\ Known \in Nat
  BY <1>1, <1>2, WritesKeepTheFeed, KnownIsWritten
<1>5. lost' \subseteq Nat
  <2>1. op.read + 1 .. Version \subseteq Nat
    BY <1>2, <1>3
  <2>2. lost \subseteq Nat
    BY DEF FeedInv, FeedTypeOK
  <2> QED BY <1>1, <2>1, <2>2
<1>6. CASE op' = Idle
  <2>1. FeedTypeOK'
    BY <1>1, <1>3, <1>5, <1>6 DEF FeedInv, FeedTypeOK, Command
  <2>2. CommandsAreSound'
    BY <1>1, <1>4, <1>6 DEF FeedInv, CommandsAreSound, Idle
  <2> QED BY <1>4, <2>1, <2>2 DEF FeedInv
<1>7. CASE op' = [step |-> "publish", by |-> op.by, events |-> op.events, saved |-> Version + 1,
                  predecessor |-> op.predecessor]
  <2>1. op' \in Command
    BY <1>2, <1>3, <1>7 DEF Command
  <2>2. FeedTypeOK'
    BY <1>1, <1>3, <1>5, <2>1 DEF FeedInv, FeedTypeOK
  <2>3. /\ op'.step = "publish" /\ op'.saved = Version + 1 /\ op'.by = op.by
        /\ op'.events = op.events /\ op'.predecessor = op.predecessor
    BY <1>7
  <2>4. /\ \A e \in op.events : e.by = op.by
        /\ Known <= op.read /\ (op.predecessor => op.read = Known) /\ (up \/ op = Idle)
    BY <1>1 DEF FeedInv, CommandsAreSound
  <2>5. op.predecessor => \A v \in 1 .. Version' : Known < v /\ v < Version + 1 => v \in lost'
    BY <1>1, <1>2, <1>3, <1>4, <2>4
  <2>6. stamp' # None => stamp' = Known'
    BY <1>1, <1>4 DEF FeedInv, CommandsAreSound
  <2>7. Known' < op'.saved /\ op'.saved <= Version' /\ wrote'[op'.saved].by = op'.by
    BY <1>3, <1>4, <2>3
  <2>8. up' \/ op' = Idle'
    BY <1>1, <2>4 DEF Idle
  <2>9. CommandsAreSound'
    BY <1>4, <2>3, <2>4, <2>5, <2>6, <2>7, <2>8 DEF CommandsAreSound
  <2> QED BY <1>4, <2>2, <2>9 DEF FeedInv
<1> QED BY <1>6, <1>7 DEF Replace

LEMMA PublishKeeps ==
  ASSUME FeedInv, Publish
  PROVE  FeedInv'
<1>1. /\ op.step = "publish" /\ UNCHANGED <<now, wrote, lost, up, epoch, started>> /\ op' = Idle
      /\ Version' = Version
  BY DEF Publish, file, Version
<1>2. CASE stamp' = None /\ UNCHANGED <<records, sequence, evicted, base>>
  <2>1. FeedTypeOK'
    BY <1>1, <1>2 DEF FeedInv, FeedTypeOK, Command
  <2>2. TimesAscend' /\ RetentionIsHonest' /\ RecordsAreSound' /\ GapsAreMarked'
    BY <1>1, <1>2, LooksKeepTheFeed DEF FeedInv, FeedTypeOK
  <2>3. CommandsAreSound'
    BY <1>1, <1>2 DEF CommandsAreSound, Idle
  <2> QED BY <2>1, <2>2, <2>3 DEF FeedInv
<1>3. ASSUME NEW record \in Record, Appended(record), stamp' \in {None, op.saved},
             record.sequence = sequence + 1, record.observed = now, record.version = op.saved,
             record.complete => op.predecessor,
             record.complete => record.events = op.events /\ op.events # {}
      PROVE  FeedInv'
  <2>1. /\ TimesAscend' /\ RetentionIsHonest' /\ RecordsAreSound' /\ GapsAreMarked'
        /\ Known' = op.saved
    BY <1>1, <1>3, AppendKeepsTheFeed
  <2>2. op.saved \in Nat
    BY <1>1, CommandTyped DEF FeedInv, Idle
  <2>3. evicted' \in Nat \cup {None} /\ base' \in Nat
    <3>1. Len(records) >= 1 => records[1].version \in Nat /\ records[1].observed \in Nat
      BY RecordsTyped, LenProperties DEF FeedInv, FeedTypeOK, Record
    <3> QED BY <1>3, <3>1, AppendedRecords DEF FeedInv, FeedTypeOK
  <2>4. records' \in Seq(Record) /\ Len(records') <= MaxRecords /\ sequence' = sequence + 1
    BY <1>3, AppendedRecords DEF FeedInv
  <2>5. FeedTypeOK'
    BY <1>1, <1>3, <2>2, <2>3, <2>4 DEF FeedInv, FeedTypeOK, Command
  <2>6. CommandsAreSound'
    BY <1>1, <1>3, <2>1 DEF CommandsAreSound, Idle
  <2> QED BY <2>1, <2>5, <2>6 DEF FeedInv
<1> QED BY <1>2, <1>3, PublishAppends

(* Whoever replaces the file without the feed.                             *)
LEMMA StrangersKeep ==
  ASSUME FeedInv, HandEdit \/ ReadRepair
  PROVE  FeedInv'
<1>1. PICK who \in {"hand", "repair"} : Write(who)
  BY DEF HandEdit, ReadRepair
<1>2. UNCHANGED <<now, lost, up, epoch, started, records, sequence, evicted, stamp, base, op>>
  BY DEF HandEdit, ReadRepair, feed
<1>3. /\ wrote' \in Seq([by : Actor \cup {"hand", "repair"}, at : Nat])
      /\ Version \in Nat /\ Version' = Version + 1
      /\ \A v \in 1 .. Version : wrote'[v] = wrote[v]
  BY <1>1, WriteAppends DEF FeedInv
<1>4. /\ TimesAscend' /\ RetentionIsHonest' /\ RecordsAreSound' /\ GapsAreMarked'
      /\ Known' = Known /\ Known <= Version /\ Known \in Nat
  BY <1>1, <1>2, WritesKeepTheFeed, KnownIsWritten
<1>5. FeedTypeOK'
  BY <1>2, <1>3 DEF FeedInv, FeedTypeOK
<1>6. CommandsAreSound'
  <2>1. op.step \in {"replace"} => op.read \in Nat
    BY CommandTyped DEF FeedInv, Idle
  <2>2. op.step = "publish" => op.saved \in Nat
    BY CommandTyped DEF FeedInv, Idle
  <2>3. /\ stamp' # None => stamp' = Known'
        /\ ~up' => op' = Idle'
        /\ op'.step \in {"prepared", "replace", "publish"} => \A e \in op'.events : e.by = op'.by
    BY <1>2, <1>4 DEF FeedInv, CommandsAreSound, Idle
  <2>4. op'.step = "replace" =>
          /\ Known' <= op'.read /\ op'.read <= Version'
          /\ op'.predecessor => op'.read = Known'
    BY <1>2, <1>3, <1>4, <2>1 DEF FeedInv, CommandsAreSound
  <2>5. ASSUME op.step = "publish"
        PROVE  /\ Known < op.saved /\ op.saved <= Version' /\ wrote'[op.saved].by = op.by
               /\ op.predecessor => \A v \in 1 .. Version' : Known < v /\ v < op.saved => v \in lost
    <3>1. /\ Known < op.saved /\ op.saved <= Version /\ wrote[op.saved].by = op.by
          /\ op.predecessor => \A v \in 1 .. Version : Known < v /\ v < op.saved => v \in lost
      BY <2>5 DEF FeedInv, CommandsAreSound
    <3>2. op.saved \in 1 .. Version
      BY <1>3, <1>4, <2>2, <2>5, <3>1
    <3> QED BY <1>3, <3>1, <3>2
  <2> QED BY <1>2, <1>4, <2>3, <2>4, <2>5 DEF CommandsAreSound
<1> QED BY <1>4, <1>5, <1>6 DEF FeedInv

(* What only ends a command, or the service, or lets time pass.            *)
LEMMA IdlingKeeps ==
  ASSUME FeedInv, Tick \/ Refuse \/ StopService
  PROVE  FeedInv'
<1>1. /\ now \in Nat /\ now' \in Nat /\ now <= now' /\ (up' => up) /\ up' \in BOOLEAN
      /\ UNCHANGED <<wrote, lost, started, epoch, records, sequence, evicted, stamp, base>>
  <2>1. UNCHANGED <<wrote, lost, started, epoch, records, sequence, evicted, stamp, base>>
    BY DEF Tick, Refuse, StopService, file, feed
  <2>2. now' = now \/ now' = now + 1
    BY DEF Tick, Refuse, StopService
  <2>3. up' = up \/ up' = FALSE
    BY DEF Tick, Refuse, StopService, feed
  <2>4. now \in Nat
    BY DEF FeedInv, FeedTypeOK
  <2>5. up \in BOOLEAN
    BY DEF FeedInv, FeedTypeOK
  <2>6. up' => up
    BY <2>3, Zenon
  <2>7. up' \in BOOLEAN
    BY <2>3, <2>5, Zenon
  <2> QED BY <2>1, <2>2, <2>4, <2>6, <2>7
<1>2. op' = Idle \/ (UNCHANGED <<op, up>>)
  BY DEF Tick, Refuse, StopService, feed
<1>3. op' \in Command
  BY <1>2 DEF FeedInv, FeedTypeOK, Command
<1>4. FeedTypeOK'
  BY <1>1, <1>3 DEF FeedInv, FeedTypeOK
<1>5. TimesAscend' /\ RetentionIsHonest' /\ RecordsAreSound' /\ GapsAreMarked'
  BY <1>1, LooksKeepTheFeed
<1>6. Known' = Known /\ Version' = Version
  BY <1>1 DEF Known, Version
<1>7. CommandsAreSound'
  <2>1. CASE op' = Idle
    <3>1. op'.step = "idle" /\ Idle' = Idle
      BY <2>1 DEF Idle
    <3> QED BY <1>1, <1>6, <2>1, <3>1 DEF FeedInv, CommandsAreSound
  <2>2. CASE UNCHANGED <<op, up>>
    <3>1. Idle' = Idle
      BY DEF Idle
    <3> QED BY <1>1, <1>6, <2>2, <3>1 DEF FeedInv, CommandsAreSound
  <2> QED BY <1>2, <2>1, <2>2
<1> QED BY <1>4, <1>5, <1>7 DEF FeedInv

-----------------------------------------------------------------------------
(* The inductive invariant: what the stamp names is the last the feed      *)
(* knows of, and between its records nothing is missing that a record does *)
(* not own up to.                                                          *)
THEOREM FeedIsSound == FeedSpec => []FeedInv
<1>1. FeedInv /\ [FeedNext]_feedVars => FeedInv'
  <2> SUFFICES ASSUME FeedInv, [FeedNext]_feedVars PROVE FeedInv'
    OBVIOUS
  <2>1. CASE UNCHANGED feedVars
    <3>1. UNCHANGED <<now, wrote, lost, up, epoch, started,
                      records, sequence, evicted, stamp, base, op>>
      BY <2>1 DEF feedVars, file, feed
    <3> QED BY <3>1 DEF FeedInv, FeedTypeOK, TimesAscend, RetentionIsHonest, RecordsAreSound,
                        GapsAreMarked, CommandsAreSound, Known, Version
  <2>2. CASE FeedNext
    BY <2>2, IdlingKeeps, StrangersKeep, BeginKeeps, RunFeedCommandKeeps, PrepareKeeps,
       ReplaceKeeps, PublishKeeps, StartKeepsTheFeed DEF FeedNext
  <2> QED BY <2>1, <2>2
<1> QED BY FeedInitSound, <1>1, PTL DEF FeedSpec

(* The records and their cursors count in step.                            *)
LEMMA CursorsCount ==
  ASSUME FeedInv
  PROVE  /\ sequence \in Nat /\ Len(records) \in Nat /\ Len(records) <= sequence
         /\ Oldest = sequence - Len(records)
         /\ \A i \in 1 .. Len(records) :
              /\ records[i] \in Record /\ records[i].sequence = Oldest + i
              /\ records[i] \in ToSet(records)
         /\ \A r \in ToSet(records) : \E i \in 1 .. Len(records) : r = records[i]
<1>1. /\ sequence \in Nat /\ Len(records) \in Nat /\ Len(records) <= sequence
      /\ records \in Seq(Record)
  BY LenProperties DEF FeedInv, FeedTypeOK, RecordsAreSound
<1>2. \A i \in 1 .. Len(records) :
        records[i] \in Record /\ records[i].sequence = sequence - Len(records) + i
  BY RecordsTyped DEF FeedInv, RecordsAreSound
<1>3. Oldest = sequence - Len(records)
  <2>1. CASE records = <<>> BY <1>1, <2>1, EmptySeq DEF Oldest
  <2>2. CASE records # <<>>
    <3>1. 1 \in 1 .. Len(records) /\ Head(records) = records[1]
      BY <1>1, <2>2, EmptySeq
    <3> QED BY <1>1, <1>2, <2>2, <3>1 DEF Oldest
  <2> QED BY <2>1, <2>2
<1>4. DOMAIN records = 1 .. Len(records)
  BY <1>1, LenProperties
<1> QED BY <1>1, <1>2, <1>3, <1>4 DEF ToSet

(* The version a cursor stands on.                                         *)
LEMMA CursorStands ==
  ASSUME FeedInv, NEW cursor \in Oldest .. sequence
  PROVE  \/ cursor = Oldest /\ CursorVersion(cursor) = base
         \/ /\ cursor - Oldest \in 1 .. Len(records)
            /\ CursorVersion(cursor) = records[cursor - Oldest].version
<1>1. CASE cursor = Oldest BY <1>1 DEF CursorVersion
<1>2. CASE cursor # Oldest
  <2>1. cursor - Oldest \in 1 .. Len(records) /\ Oldest + (cursor - Oldest) = cursor
    BY <1>2, CursorsCount
  <2>2. /\ records[cursor - Oldest] \in ToSet(records)
        /\ records[cursor - Oldest].sequence = cursor
    BY <2>1, CursorsCount
  <2>3. ASSUME NEW r \in ToSet(records), r.sequence = cursor PROVE r = records[cursor - Oldest]
    <3>1. PICK i \in 1 .. Len(records) : r = records[i]
      BY CursorsCount
    <3>2. i = cursor - Oldest
      BY <2>1, <2>3, <3>1, CursorsCount
    <3> QED BY <3>1, <3>2
  <2>4. (CHOOSE r \in ToSet(records) : r.sequence = cursor) = records[cursor - Oldest]
    BY <2>2, <2>3
  <2> QED BY <1>2, <2>1, <2>4 DEF CursorVersion
<1> QED BY <1>1, <1>2

(* A complete record among those asked for tells of its replacement.       *)
LEMMA CompleteTells ==
  ASSUME FeedInv, NEW start, NEW cursor, NEW i \in 1 .. Len(records),
         records[i] \in Selected(start, cursor), records[i].complete
  PROVE  records[i].version \in Told(start, cursor)
<1>1. \E e \in records[i].events : e.by = wrote[records[i].version].by
  BY DEF FeedInv, RecordsAreSound
<1> QED BY <1>1 DEF Told

(* "Only complete results suppress": an answer that claims to be complete  *)
(* tells of every replacement since the moment, or the cursor, it was      *)
(* asked for, and by whom it was.                                          *)
THEOREM CoverageStaysHonest == FeedSpec => []CoverageIsHonest
<1>1. FeedInv => CoverageIsHonest
  <2> SUFFICES ASSUME FeedInv, Free, NEW start \in 0 .. now, NEW end \in 0 .. now
               PROVE  /\ Complete(start, end, None) =>
                           {v \in Visible : wrote[v].at >= start} \subseteq Told(start, None)
                      /\ \A cursor \in Oldest .. sequence :
                           Complete(start, end, cursor) =>
                             {v \in Visible : v > CursorVersion(cursor)}
                               \subseteq Told(start, cursor)
    BY DEF CoverageIsHonest
  <2>1. /\ Version \in Nat /\ Known \in 1 .. Version /\ base \in 1 .. Version
        /\ \A i \in 1 .. Len(records) : records[i].version \in 1 .. Version
        /\ start \in Nat /\ started \in Nat /\ up /\ None \notin Nat
    BY KnownIsWritten DEF FeedInv, FeedTypeOK, TimesAscend, Free
  <2>2. \A v \in 1 .. Version : wrote[v].at \in Nat
    BY WroteTyped DEF FeedInv
  <2>3. ASSUME Complete(start, end, None), NEW v \in Visible, wrote[v].at >= start
        PROVE  v \in Told(start, None)
    <3>1. Version = Known /\ v \in 1 .. Version /\ v \notin lost
      BY <2>3, LookMatches DEF Complete, Visible
    <3>2. base < v
      <4>1. start >= started /\ (evicted # None => start > evicted)
        BY <2>1, <2>3 DEF Complete, OutOfReach, FeedInv, FeedTypeOK
      <4>2. wrote[base].at < start
        BY <2>1, <2>2, <4>1 DEF FeedInv, FeedTypeOK, RetentionIsHonest
      <4>3. v <= base => wrote[v].at <= wrote[base].at
        BY <2>1, <3>1 DEF FeedInv, TimesAscend
      <4> QED BY <2>1, <2>2, <2>3, <3>1, <4>2, <4>3
    <3>3. PICK i \in 1 .. Len(records) :
            v <= records[i].version /\ (v = records[i].version \/ ~records[i].complete)
      BY <3>1, <3>2 DEF FeedInv, GapsAreMarked
    <3>4. records[i] \in Selected(start, None)
      <4>1. wrote[v].at <= wrote[records[i].version].at
        BY <2>1, <3>1, <3>3 DEF FeedInv, TimesAscend
      <4>2. wrote[records[i].version].at <= records[i].observed /\ records[i].observed \in Nat
        BY CursorsCount DEF FeedInv, RecordsAreSound, Record
      <4>3. records[i].observed >= start
        BY <2>1, <2>2, <2>3, <3>1, <4>1, <4>2
      <4> QED BY <4>3, CursorsCount DEF Selected
    <3>5. records[i].complete
      BY <2>3, <3>4 DEF Complete
    <3> QED BY <3>3, <3>4, <3>5, CompleteTells
  <2>4. ASSUME NEW cursor \in Oldest .. sequence, Complete(start, end, cursor),
               NEW v \in Visible, v > CursorVersion(cursor)
        PROVE  v \in Told(start, cursor)
    <3>1. Version = Known /\ v \in 1 .. Version /\ v \notin lost
      BY <2>4, LookMatches DEF Complete, Visible
    <3>2. cursor \in Nat /\ cursor # None
      BY <2>1, CursorsCount
    <3>3. base < v
      <4>1. CASE cursor = Oldest /\ CursorVersion(cursor) = base BY <2>1, <2>4, <3>1, <4>1
      <4>2. CASE /\ cursor - Oldest \in 1 .. Len(records)
                 /\ CursorVersion(cursor) = records[cursor - Oldest].version
        <5>1. base < records[cursor - Oldest].version
          BY <4>2 DEF FeedInv, RecordsAreSound
        <5> QED BY <2>1, <2>4, <3>1, <4>2, <5>1
      <4> QED BY <4>1, <4>2, CursorStands
    <3>4. PICK i \in 1 .. Len(records) :
            v <= records[i].version /\ (v = records[i].version \/ ~records[i].complete)
      BY <3>1, <3>3 DEF FeedInv, GapsAreMarked
    <3>5. records[i].sequence > cursor
      <4>1. CASE cursor = Oldest BY <3>2, <4>1, CursorsCount
      <4>2. CASE /\ cursor - Oldest \in 1 .. Len(records)
                 /\ CursorVersion(cursor) = records[cursor - Oldest].version
        <5>1. records[cursor - Oldest].version < records[i].version
          BY <2>1, <2>4, <3>1, <3>4, <4>2
        <5>2. ~(i <= cursor - Oldest)
          BY <2>1, <4>2, <5>1 DEF FeedInv, RecordsAreSound
        <5>3. records[i].sequence = Oldest + i /\ Oldest \in Int
          BY CursorsCount
        <5> QED BY <3>2, <4>2, <5>2, <5>3
      <4> QED BY <4>1, <4>2, CursorStands
    <3>6. records[i] \in Selected(start, cursor)
      BY <3>2, <3>5, CursorsCount DEF Selected
    <3>7. records[i].complete
      BY <2>4, <3>6 DEF Complete
    <3> QED BY <3>4, <3>6, <3>7, CompleteTells
  <2> QED BY <2>3, <2>4
<1> QED BY FeedIsSound, <1>1, PTL
=============================================================================
