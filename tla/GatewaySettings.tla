---------------------------- MODULE GatewaySettings ----------------------------
(***************************************************************************)
(* The pinned boards of a workspace: browser windows that queue changes    *)
(* and repeat them until they are answered (workspace.js), gateways that   *)
(* apply them to one file under a lock (workspace.py, workspace_config.py) *)
(* and the thread that commits and pushes the file (gateway_publish.py).   *)
(*                                                                         *)
(* Gateways of one root differ only in their credential, so requests name  *)
(* none; one of them publishes.  Board services commit other files of the  *)
(* repository and push the whole branch.                                   *)
(***************************************************************************)
EXTENDS Integers, SequencesExt

CONSTANTS
  Window, Key, None,
  Publishing,    \* who holds the lock while the publisher commits
  Legacy,        \* pins a window kept for itself before they were shared
  Toggled, Dragged,  \* bound on what users do: boards, and moves <<board, target, after>>
  MaxCommands,   \* bound on changes users make
  MaxTroubles    \* bound on answers lost, waits given up, git failures, crashes

(* What a window asks for, and the request it sends.                       *)
Command ==
  [action : {"initialize"}, pins : Seq(Key)] \cup [action : {"pin", "unpin"}, key : Key] \cup
  [action : {"move"}, key : Key, target : Key, after : BOOLEAN]
Request ==
  [win : Window, num : Nat \ {0}, given : Nat, cmd : Command, stale : BOOLEAN, rev : Nat]

ASSUME SettingsAssumption ==
  /\ Legacy \in [Window -> Seq(Key)]
  /\ Toggled \subseteq Key /\ Dragged \subseteq Key \X Key \X BOOLEAN
  /\ {None, Publishing} \cap (Window \cup Key) = {} /\ None # Publishing
  /\ None \notin Request /\ Publishing \notin Request
  /\ MaxCommands \in Nat /\ MaxTroubles \in Nat

VARIABLES
  disk,       \* the preferences: revision, pinsInitialized, pinnedBoards
  lock,       \* who holds the file's lock: a request, Publishing or None
  read,       \* what the request that holds the lock has read
  window,     \* per window: its queue, what it knows and what it waits for
  net,        \* requests no gateway has answered
  applied,    \* changes of the file, in order, and what each left there (history)
  pub,        \* the publisher
  committed, pushed, status,   \* revisions git and its remote have; status()
  commands, troubles

store  == <<disk, lock, read, applied>>
page   == <<window, net>>
git    == <<pub, committed, pushed, status>>
bounds == <<commands, troubles>>
vars   == <<store, page, git, bounds>>

Trouble == troubles < MaxTroubles /\ troubles' = troubles + 1

(* GatewayPreferences, while no file has been written.                     *)
Defaults == [rev |-> 0, init |-> FALSE, pins |-> <<>>]

Init ==
  /\ disk = Defaults
  /\ lock = None /\ read = None /\ net = {} /\ applied = <<>>
  /\ window = [w \in Window |->
       [step |-> "closed", queue |-> <<>>, done |-> 0, knows |-> None,
        given |-> 0, stale |-> FALSE]]
  /\ pub = [pc |-> "watch", seen |-> 0, again |-> TRUE]
  /\ committed = 0 /\ pushed = 0 /\ status = "pending"
  /\ commands = 0 /\ troubles = 0

-----------------------------------------------------------------------------
(* What a command makes of the pins, in the window and in the store alike. *)

Moved(pins, key, target, after) ==
  LET rest == Remove(pins, key)
      at == CHOOSE i \in DOMAIN rest : rest[i] = target
  IN  InsertAt(rest, IF after THEN at + 1 ELSE at, key)

Effect(doc, c) ==
  LET has(k) == Contains(doc.pins, k)
      with(pins) == [doc EXCEPT !.init = TRUE, !.pins = pins]
  IN  CASE c.action = "initialize" -> IF doc.init THEN doc ELSE with(c.pins)
        [] c.action = "pin"        -> with(IF has(c.key) THEN doc.pins ELSE Append(doc.pins, c.key))
        [] c.action = "unpin"      -> with(Remove(doc.pins, c.key))
        [] c.action = "move"       ->
             IF has(c.key) /\ has(c.target) /\ c.key # c.target
             THEN with(Moved(doc.pins, c.key, c.target, c.after)) ELSE with(doc.pins)

(* GatewayConfigStore._command refuses a board it does not find, which may *)
(* be any, and a move of what is not pinned.                               *)
MayRefuse(doc, c) ==
  \/ c.action \in {"initialize", "pin"}
  \/ c.action = "unpin" /\ ~Contains(doc.pins, c.key)
MustRefuse(doc, c) ==
  c.action = "move" /\ {c.key, c.target} \ ToSet(doc.pins) # {}

-----------------------------------------------------------------------------
(* A browser window.                                                       *)

(* projectPins: what the user sees, with the queue already done.           *)
Projected(w) == FoldLeft(Effect, window[w].knows, window[w].queue)

Queued(w, c) ==
  /\ commands < MaxCommands /\ commands' = commands + 1
  /\ window' = [window EXCEPT ![w].queue = Append(@, c)]
  /\ UNCHANGED <<store, net, git, troubles>>

(* togglePin and reorderPin offer what the window shows.                   *)
TogglePin(w, k) ==
  /\ window[w].knows # None
  /\ Queued(w, [action |-> IF Contains(Projected(w).pins, k) THEN "unpin" ELSE "pin", key |-> k])

ReorderPin(w, k, target, after) ==
  /\ window[w].knows # None
  /\ k # target /\ {k, target} \subseteq ToSet(Projected(w).pins)
  /\ Queued(w, [action |-> "move", key |-> k, target |-> target, after |-> after])

(* refresh: the first catalog may queue the window's own pins; a later one *)
(* brings the credential of a gateway started since.                       *)
Newer(w) == IF window[w].knows = None \/ disk.rev >= window[w].knows.rev THEN disk
            ELSE window[w].knows

Refresh(w) ==
  /\ lock = None
  /\ window[w].knows # disk \/ window[w].stale
  /\ window' = [window EXCEPT
       ![w].knows = Newer(w), ![w].stale = FALSE,
       ![w].step = IF @ = "closed" THEN "idle" ELSE @,
       ![w].queue = IF window[w].step = "closed" /\ ~disk.init /\ Legacy[w] # <<>>
                    THEN <<[action |-> "initialize", pins |-> Legacy[w]]>> ELSE @]
  /\ UNCHANGED <<store, net, git, bounds>>

(* The first command of the queue is done with.                            *)
Shifted(me) == [me EXCEPT !.queue = Tail(@), !.done = @ + 1, !.step = "idle"]

RequestOf(w) ==
  [win |-> w, num |-> window[w].done + 1, given |-> window[w].given,
   cmd |-> Head(window[w].queue), stale |-> window[w].stale,
   rev |-> window[w].knows.rev]

(* savePinCommand, one attempt; after four in a row the window only pauses. *)
(* An import somebody else has made is done.                               *)
SendCommand(w) ==
  /\ window[w].step = "idle" /\ window[w].queue # <<>>
  /\ LET me == window[w]
     IN  IF Head(me.queue).action = "initialize" /\ me.knows.init
         THEN window' = [window EXCEPT ![w] = Shifted(me)] /\ UNCHANGED net
         ELSE /\ net' = net \cup {RequestOf(w)}
              /\ window' = [window EXCEPT ![w].step = "waiting"]
  /\ UNCHANGED <<store, git, bounds>>

(* The connection breaks, or twenty seconds pass; the request lives on,    *)
(* and the command stays where it is to be tried again.                    *)
GiveUp(w) ==
  /\ window[w].step = "waiting"
  /\ IF \E r \in net : r.win = w /\ r.num = window[w].done + 1 /\ r.given = window[w].given
     THEN Trouble ELSE UNCHANGED troubles
  /\ window' = [window EXCEPT ![w].step = "idle", ![w].given = @ + 1]
  /\ UNCHANGED <<store, net, git, commands>>

(* After 412 the window reads the preferences again.                       *)
Reread(w) ==
  /\ window[w].step = "refresh" /\ lock = None
  /\ window' = [window EXCEPT ![w].step = "idle", ![w].knows = Newer(w)]
  /\ UNCHANGED <<store, net, git, bounds>>

-----------------------------------------------------------------------------
(* _preferences_write and GatewayConfigStore.apply.                        *)

Waits(r) ==
  /\ window[r.win].step = "waiting" /\ window[r.win].done + 1 = r.num
  /\ window[r.win].given = r.given

Deliver(r, me) ==
  net' = net \ {r} /\ window' = IF Waits(r) THEN [window EXCEPT ![r.win] = me] ELSE window

(* The answer, to a window that still waits for it; it may get lost.       *)
Answer(r, me) ==
  \/ Deliver(r, me) /\ UNCHANGED troubles
  \/ Waits(r) /\ Trouble /\ net' = net \ {r} /\ UNCHANGED window

Saved(r, doc) ==
  LET me == window[r.win]
  IN  Shifted([me EXCEPT !.knows = IF doc.rev >= @.rev THEN doc ELSE @])
Refused(r)     == Shifted(window[r.win])
Conflict(r)    == [window[r.win] EXCEPT !.step = "refresh"]
Unavailable(r) == [window[r.win] EXCEPT !.step = "idle"]
(* 401: the window fetches the new credential and tries again.             *)
Stranger(r)    == [window[r.win] EXCEPT !.step = "idle", !.stale = FALSE]

Unauthorised(r) ==
  /\ r \in net /\ r.stale
  /\ Answer(r, Stranger(r))
  /\ UNCHANGED <<store, git, commands>>

(* locked(), and the read.                                                 *)
Take(r) ==
  /\ r \in net /\ ~r.stale /\ lock = None
  /\ lock' = r /\ read' = disk
  /\ UNCHANGED <<disk, applied, page, git, bounds>>

Change(r, before) ==
  /\ disk' = [Effect(before, r.cmd) EXCEPT !.rev = before.rev + 1]
  /\ applied' = Append(applied, [win |-> r.win, num |-> r.num, cmd |-> r.cmd, left |-> disk'])

(* MUTANT of LockTimesOut: the command is carried out all the same.        *)
LockTimesOutAnyway(r) ==
  /\ r \in net /\ ~r.stale /\ lock \notin {None, r}
  /\ Trouble /\ net' = net \ {r}
  /\ r.rev = disk.rev /\ Change(r, disk)
  /\ UNCHANGED <<lock, read, window, git, commands>>

(* Fifteen seconds were not enough.                                        *)
LockTimesOut(r) ==
  /\ r \in net /\ ~r.stale /\ lock \notin {None, r}
  /\ Trouble /\ Deliver(r, Unavailable(r))
  /\ UNCHANGED <<store, git, commands>>

Unlock == lock' = None /\ read' = None

(* MUTANT of Compared: the revision the window names is not compared.      *)
ComparedNever(r) == TRUE

(* expected_revision.                                                      *)
Compared(r) == r.rev = read.rev

(* The rest of the transaction; the file is written only if it changes.    *)
Work(r) ==
  /\ lock = r /\ Unlock
  /\ \/ /\ ~Compared(r) /\ Answer(r, Conflict(r)) /\ UNCHANGED <<disk, applied>>
     \/ /\ Compared(r) /\ (MayRefuse(read, r.cmd) \/ MustRefuse(read, r.cmd))
        /\ Answer(r, Refused(r)) /\ UNCHANGED <<disk, applied>>
     \/ /\ Compared(r) /\ ~MustRefuse(read, r.cmd)
        /\ Effect(read, r.cmd) = read
        /\ Answer(r, Saved(r, read)) /\ UNCHANGED <<disk, applied>>
     \/ /\ Compared(r) /\ ~MustRefuse(read, r.cmd)
        /\ Effect(read, r.cmd) # read
        /\ Change(r, read)
        /\ Answer(r, Saved(r, disk'))
  /\ UNCHANGED <<pub, committed, pushed, status, commands>>

(* The file cannot be read or replaced.                                    *)
WorkFails(r) ==
  /\ lock = r /\ Unlock
  /\ Trouble /\ Deliver(r, Unavailable(r))
  /\ UNCHANGED <<disk, applied, git, commands>>

-----------------------------------------------------------------------------
(* GatewayPublisher.                                                       *)

(* _run: what changed since the last look, or failed before, is flushed    *)
(* once it has been quiet; so is everything when the thread starts.        *)
BeginFlush ==
  /\ pub.pc = "watch" /\ lock = None
  /\ disk.rev # pub.seen \/ pub.again
  /\ pub' = [pub EXCEPT !.pc = "wait", !.seen = disk.rev]
  /\ status' = "pending"
  /\ UNCHANGED <<store, page, committed, pushed, bounds>>

(* _flush: the repository's lock before the store's.                       *)
LockStore ==
  /\ pub.pc = "wait" /\ lock = None
  /\ lock' = Publishing /\ pub' = [pub EXCEPT !.pc = "commit"]
  /\ UNCHANGED <<disk, read, applied, page, committed, pushed, status, bounds>>

(* MUTANT of Commit: nothing new to commit is nothing to push.             *)
CommitOnlyNew ==
  /\ pub.pc = "commit"
  /\ committed' = disk.rev /\ lock' = None
  /\ IF committed = disk.rev
     THEN pub' = [pub EXCEPT !.pc = "watch", !.again = FALSE] /\ status' = "ok"
     ELSE pub' = [pub EXCEPT !.pc = "push"] /\ UNCHANGED status
  /\ UNCHANGED <<disk, read, applied, page, pushed, bounds>>

(* _commit: the file as it is while nobody can write it.                   *)
Commit ==
  /\ pub.pc = "commit"
  /\ committed' = disk.rev /\ lock' = None
  /\ pub' = [pub EXCEPT !.pc = "push"]
  /\ UNCHANGED <<disk, read, applied, page, pushed, status, bounds>>

(* MUTANT of Flushed: nothing is tried again.                              *)
FlushedForgets(ok) == pub' = [pub EXCEPT !.pc = "watch", !.again = FALSE]

Flushed(ok) == pub' = [pub EXCEPT !.pc = "watch", !.again = ~ok]

Push ==
  /\ pub.pc = "push"
  /\ pushed' = committed /\ status' = "ok" /\ Flushed(TRUE)
  /\ UNCHANGED <<store, page, committed, bounds>>

(* A lock that stays taken, a git command or the push fails.  A probe of   *)
(* the repository that fails says there is nothing to publish to.          *)
FlushFails ==
  /\ pub.pc # "watch" /\ Trouble
  /\ \/ Flushed(FALSE) /\ status' = "failed"
     \/ pub.pc = "wait" /\ Flushed(TRUE) /\ status' = "off"
  /\ lock' = IF lock = Publishing THEN None ELSE lock
  /\ UNCHANGED <<disk, read, applied, page, committed, pushed, commands>>

-----------------------------------------------------------------------------
(* The gateway dies or restarts; its credential is a new one.              *)

Die ==
  /\ Trouble /\ Unlock /\ net' = {}
  /\ pub' = [pub EXCEPT !.pc = "watch", !.again = TRUE] /\ status' = "pending"
  /\ window' = [w \in Window |-> [window[w] EXCEPT !.stale = window[w].knows # None]]
  /\ UNCHANGED <<disk, applied, committed, pushed, commands>>

User ==
  \/ \E w \in Window, k \in Toggled : TogglePin(w, k)
  \/ \E w \in Window, m \in Dragged : ReorderPin(w, m[1], m[2], m[3])

Threads ==
  \/ \E r \in net : Unauthorised(r) \/ Take(r) \/ Work(r)
  \/ \E w \in Window : Refresh(w) \/ SendCommand(w) \/ Reread(w) \/ GiveUp(w)
  \/ BeginFlush \/ LockStore \/ Commit \/ Push

Next ==
  \/ User \/ Threads
  \/ \E r \in net : LockTimesOut(r) \/ WorkFails(r)
  \/ FlushFails \/ Die

Spec == Init /\ [][Next]_vars

(* Windows repeat and wait no longer than they do, and threads run: while  *)
(* any of them can go on, one does.                                        *)
FairSpec == Spec /\ WF_vars(Threads)

-----------------------------------------------------------------------------
(* apply, "Serialize read/modify/replace transactions across threads and   *)
(* processes": every change ever made, whoever made it, waited or died,    *)
(* was made to what the one before it had left, each is counted once, and  *)
(* the file is what the last one left.                                     *)
Before(i) == IF i = 1 THEN Defaults ELSE applied[i - 1].left
NoSettingIsLost ==
  /\ \A i \in DOMAIN applied :
       applied[i].left = [Effect(Before(i), applied[i].cmd) EXCEPT !.rev = i]
  /\ disk = Before(Len(applied) + 1) /\ disk.rev = Len(applied)

(* A request a window has given up on, and that is carried out late, never *)
(* undoes what the window has changed since.                               *)
WindowOrderKept ==
  \A i, j \in DOMAIN applied :
    i < j /\ applied[i].win = applied[j].win => applied[i].num <= applied[j].num

(* flush, "Publish current settings synchronously, including a previous    *)
(* unpushed commit": "ok" says the remote has what the flush set out with. *)
OkMeansPushed == status = "ok" => pushed >= pub.seen

(* "concurrent changes are refreshed and reconciled": every change a user  *)
(* makes is answered for good and its outcome reaches the remote, whatever *)
(* conflicts, losses and restarts it meets, unless the publisher says that *)
(* it is off.                                                              *)
Unsettled == \/ \E w \in Window : window[w].queue # <<>>
             \/ pushed < disk.rev /\ status # "off"
EveryChangeSettles == Unsettled ~> ~Unsettled
=============================================================================
