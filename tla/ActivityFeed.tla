----------------------------- MODULE ActivityFeed -----------------------------
(***************************************************************************)
(* The evidence a board service keeps for monitors (activity_feed.py): a   *)
(* bounded list of what its own commands wrote, and the stamp of the file  *)
(* as it last wrote it.  Whoever else writes the file is noticed only by   *)
(* its stamp, so the feed must know when it does not know.                 *)
(*                                                                         *)
(* A version of the file is the number of times it was replaced; a stamp   *)
(* names a version.  Time is the wall clock, as coarse as it likes.        *)
(***************************************************************************)
EXTENDS Integers, Sequences, SequencesExt

CONSTANTS
  Actor,        \* who sends commands
  None,         \* no stamp, no cursor, no answer
  MaxTime,      \* bound on the clock
  MaxWrites,    \* bound on versions of the file
  MaxStarts,    \* bound on starts of the service
  MaxRecords    \* MAX_RECORDS, and the limits on events and bytes

ASSUME FeedAssumption ==
  /\ None \notin Actor \cup Nat /\ {"hand", "repair"} \cap Actor = {}
  /\ MaxTime \in Nat /\ MaxWrites \in Nat /\ MaxStarts \in Nat
  /\ MaxRecords \in Nat \ {0}

VARIABLES
  now,
  wrote,       \* for every version who wrote it and when (history)
  lost,        \* versions overwritten before anybody could see them (history)
  up, epoch, started,
  records, sequence, evicted, stamp,   \* the feed; None stands for no stamp
  base,        \* the version the oldest record built on (history)
  op           \* the command that holds the store's mutex

file    == <<wrote, lost>>
feed    == <<up, epoch, started, records, sequence, evicted, stamp, base>>
feedVars == <<now, file, feed, op>>

Version == Len(wrote)
Idle == [step |-> "idle"]
Free == up /\ op = Idle

(* ActivityFeed.observe: a stamp that does not match is given up for good. *)
Observed == IF stamp = Version THEN stamp ELSE None
Matches == Observed # None

FeedInit ==
  /\ now = 1
  /\ wrote = <<[by |-> "hand", at |-> 0]>> /\ lost = {}
  /\ up = TRUE /\ epoch = 1 /\ started = 1
  /\ records = <<>> /\ sequence = 0 /\ evicted = None /\ stamp = 1 /\ base = 1
  /\ op = Idle

-----------------------------------------------------------------------------
(* The world.                                                              *)

Tick == now < MaxTime /\ now' = now + 1 /\ UNCHANGED <<file, feed, op>>

Write(who) ==
  Version < MaxWrites /\ wrote' = Append(wrote, [by |-> who, at |-> now])

(* Somebody replaces the file without the service.                         *)
HandEdit == Write("hand") /\ UNCHANGED <<now, lost, feed, op>>

-----------------------------------------------------------------------------
(* One command of BoardStore.execute, between taking and leaving _mutex.   *)

Begin(a) ==
  /\ Free
  /\ stamp' = Observed
  /\ op' = [step |-> "load", by |-> a, predecessor |-> Matches]
  /\ UNCHANGED <<now, file, up, epoch, started, records, sequence, evicted, base>>

(* The transaction loads the file, looks again and runs the command, whose *)
(* events bear this moment.  Some commands leave no event.                 *)
RunFeedCommand ==
  /\ op.step = "load"
  /\ stamp' = Observed
  /\ \E events \in {{}, {[by |-> op.by, at |-> now]}} :
       op' = [step |-> "prepared", by |-> op.by, events |-> events,
              predecessor |-> op.predecessor /\ Matches]
  /\ UNCHANGED <<now, file, up, epoch, started, records, sequence, evicted, base>>

(* MUTANT of Prepare: nobody looks after the command was prepared.         *)
PrepareBlind ==
  /\ op.step = "prepared"
  /\ op' = [step |-> "replace", by |-> op.by, events |-> op.events, read |-> Version,
            predecessor |-> op.predecessor]
  /\ UNCHANGED <<now, file, feed>>

(* The last look before the replacement.                                   *)
Prepare ==
  /\ op.step = "prepared"
  /\ stamp' = Observed
  /\ op' = [step |-> "replace", by |-> op.by, events |-> op.events, read |-> Version,
            predecessor |-> op.predecessor /\ Matches]
  /\ UNCHANGED <<now, file, up, epoch, started, records, sequence, evicted, base>>

(* The file is replaced; what was written since the last look is gone and  *)
(* nobody can tell.  A failure after the replacement ends the command      *)
(* before anything is published.                                           *)
Replace ==
  /\ op.step = "replace"
  /\ Write(op.by)
  /\ lost' = lost \cup (op.read + 1 .. Version)
  /\ \/ op' = [step |-> "publish", by |-> op.by, events |-> op.events, saved |-> Version + 1,
               predecessor |-> op.predecessor]
     \/ op' = Idle
  /\ UNCHANGED <<now, feed>>

(* The command is refused, or cannot be saved.                             *)
Refuse ==
  /\ op.step \in {"load", "prepared", "replace"}
  /\ op' = Idle
  /\ UNCHANGED <<now, file, feed>>

(* append: the new record, and the oldest ones give way.                   *)
Appended(record) ==
  LET all == Append(records, record)
      surplus == IF Len(all) > MaxRecords THEN Len(all) - MaxRecords ELSE 0
  IN  /\ sequence' = sequence + 1
      /\ records' = SubSeq(all, surplus + 1, Len(all))
      /\ evicted' = IF surplus = 0 THEN evicted ELSE all[surplus].observed
      /\ base' = IF surplus = 0 THEN base ELSE all[surplus].version

RecordOf(events, complete) ==
  [sequence |-> sequence + 1, observed |-> now, events |-> events,
   complete |-> complete, version |-> op.saved]

(* publish: bind_written gives a stamp only if the file still holds what   *)
(* was saved.  A commit too large to keep becomes a gap, and an exception  *)
(* leaves no record and no stamp.                                          *)
Publish ==
  /\ op.step = "publish"
  /\ \/ LET bound == IF Version = op.saved THEN Version ELSE None
        IN  /\ \/ Appended(RecordOf(op.events,
                             op.predecessor /\ bound # None /\ op.events # {}))
               \/ Appended(RecordOf({}, FALSE))
            /\ stamp' = bound
     \/ stamp' = None /\ UNCHANGED <<records, sequence, evicted, base>>
  /\ op' = Idle
  /\ UNCHANGED <<now, file, up, epoch, started>>

(* A read finds a blocker below its floor and repairs the file, without a  *)
(* word to the feed.                                                       *)
ReadRepair == Free /\ Write("repair") /\ UNCHANGED <<now, lost, feed, op>>

-----------------------------------------------------------------------------
(* The service ends, or dies in the middle of a command, and another one   *)
(* starts.  Starting a process takes longer than a tick of the clock.      *)

StopService ==
  /\ up /\ epoch < MaxStarts
  /\ up' = FALSE /\ op' = Idle
  /\ UNCHANGED <<now, file, epoch, started, records, sequence, evicted, stamp, base>>

StartService ==
  /\ ~up /\ now < MaxTime
  /\ up' = TRUE /\ epoch' = epoch + 1
  /\ now' = now + 1 /\ started' = now'
  /\ records' = <<>> /\ sequence' = 0 /\ evicted' = None
  /\ stamp' \in {Version, None} /\ base' = Version
  /\ UNCHANGED <<file, op>>

FeedNext ==
  \/ Tick \/ HandEdit \/ ReadRepair
  \/ \E a \in Actor : Begin(a)
  \/ RunFeedCommand \/ Prepare \/ Replace \/ Refuse \/ Publish
  \/ StopService \/ StartService

FeedSpec == FeedInit /\ [][FeedNext]_feedVars

-----------------------------------------------------------------------------
(* ActivityFeed.query, under the mutex.                                    *)

Oldest == IF records = <<>> THEN sequence ELSE Head(records).sequence - 1

(* The records asked for: after a cursor, or observed since a moment.      *)
Selected(start, cursor) ==
  {r \in ToSet(records) :
     IF cursor # None THEN r.sequence > cursor ELSE r.observed >= start}

EventsSince(start, cursor) == UNION {r.events : r \in Selected(start, cursor)}

(* What the cursor, or the moment, is too old for.                         *)
OutOfReach(start, cursor) ==
  IF cursor # None THEN cursor \notin Oldest .. sequence
  ELSE start < started \/ (evicted # None /\ start <= evicted)

(* coverage.complete: nothing is out of reach, no gap is among the         *)
(* records, no event lies outside the window, and the file is as written.  *)
Complete(start, end, cursor) ==
  /\ ~OutOfReach(start, cursor)
  /\ \A r \in Selected(start, cursor) : r.complete
  /\ \A e \in EventsSince(start, cursor) : start <= e.at /\ e.at <= end
  /\ Matches
  /\ EventsSince(start, cursor) # {}

-----------------------------------------------------------------------------
(* Types.                                                                  *)
Event == [by : Actor, at : Nat]
Record == [sequence : Nat, observed : Nat, events : SUBSET Event, complete : BOOLEAN,
           version : Nat]
Command ==
  {Idle} \cup [step : {"load"}, by : Actor, predecessor : BOOLEAN]
  \cup [step : {"prepared"}, by : Actor, events : SUBSET Event, predecessor : BOOLEAN]
  \cup [step : {"replace"}, by : Actor, events : SUBSET Event, predecessor : BOOLEAN, read : Nat]
  \cup [step : {"publish"}, by : Actor, events : SUBSET Event, predecessor : BOOLEAN, saved : Nat]

FeedTypeOK ==
  /\ now \in Nat /\ started \in Nat
  /\ wrote \in Seq([by : Actor \cup {"hand", "repair"}, at : Nat]) /\ lost \subseteq Nat
  /\ up \in BOOLEAN /\ epoch \in Nat
  /\ records \in Seq(Record) /\ Len(records) <= MaxRecords
  /\ sequence \in Nat /\ evicted \in Nat \cup {None} /\ stamp \in Nat \cup {None}
  /\ base \in Nat
  /\ op \in Command

(* Versions the feed can be asked about: not those nobody could see.       *)
Visible == 1 .. Version \ lost

(* The versions whose author the answer names.                             *)
Told(start, cursor) ==
  {r.version : r \in {r \in Selected(start, cursor) :
                        \E e \in r.events : e.by = wrote[r.version].by}}

(* The version a cursor stands on.                                         *)
CursorVersion(cursor) ==
  IF cursor = Oldest THEN base
  ELSE LET r == CHOOSE r \in ToSet(records) : r.sequence = cursor IN r.version

(* README, "Only complete [...] results suppress": an answer that claims   *)
(* to be complete tells of every replacement of the file since the moment, *)
(* or since the cursor, it was asked for, by whom it was; whatever hands,  *)
(* read repairs, evictions, failed publications and restarts came between. *)
CoverageIsHonest ==
  Free =>
    \A start \in 0 .. now, end \in 0 .. now :
      /\ Complete(start, end, None) =>
           {v \in Visible : wrote[v].at >= start} \subseteq Told(start, None)
      /\ \A cursor \in Oldest .. sequence :
           Complete(start, end, cursor) =>
             {v \in Visible : v > CursorVersion(cursor)} \subseteq Told(start, cursor)
=============================================================================
