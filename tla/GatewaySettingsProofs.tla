------------------------- MODULE GatewaySettingsProofs -------------------------
(***************************************************************************)
(* Proofs about GatewaySettings, for any number of windows, boards,        *)
(* changes and troubles.                                                   *)
(***************************************************************************)
EXTENDS GatewaySettings, SequenceTheorems, TLAPS

(* A window at a time the file has a revision; what it knows is no newer.  *)
(* What its pins are is left open: no invariant below reads them.          *)
Knows(doc, rev) == doc.rev \in Nat /\ doc.rev <= rev

WindowIsSound(me, rev) ==
  /\ DOMAIN me = {"step", "queue", "done", "knows", "given", "stale"}
  /\ me.done \in Nat /\ me.given \in Nat /\ me.stale \in BOOLEAN /\ me.queue \in Seq(Command)
  /\ me.step \in {"waiting", "refresh"} => me.queue # <<>>
  /\ me.knows = None \/ Knows(me.knows, rev)
  /\ me.step # "closed" => Knows(me.knows, rev)

TypesAreSound ==
  /\ DOMAIN disk = {"rev", "init", "pins"} /\ disk.rev \in Nat
  /\ committed \in Nat /\ pushed \in Nat
  /\ pub \in [pc : {"watch", "wait", "commit", "push"}, seen : Nat, again : BOOLEAN]
  /\ applied \in Seq(ToSet(applied))
  /\ \A i \in DOMAIN applied : applied[i].win \in Window /\ applied[i].num \in Nat
  /\ net \subseteq Request

WindowsAreSound ==
  /\ window = [w \in Window |-> window[w]]
  /\ \A w \in Window : WindowIsSound(window[w], disk.rev)

(* A request that holds the lock works on the file as it is.               *)
LockIsSound ==
  lock \notin {None, Publishing} => lock \in net /\ ~lock.stale /\ read = disk

(* Every change was made to what the one before it had left; a window's    *)
(* are applied in its order, none before it is sent.                       *)
HistoryIsSound ==
  /\ NoSettingIsLost /\ WindowOrderKept
  /\ \A i \in DOMAIN applied : applied[i].num <= window[applied[i].win].done + 1

(* A request that a later change of its window has overtaken names a       *)
(* revision the file has left behind, so that it will not be applied.      *)
RequestsAreOvertaken ==
  \A r \in net :
    /\ r.rev <= disk.rev /\ r.num <= window[r.win].done + 1
    /\ \A i \in DOMAIN applied :
         applied[i].win = r.win /\ r.num < applied[i].num => r.rev < disk.rev

(* What is committed is no older than what the flush set out with.         *)
PublisherIsSound ==
  /\ pub.seen <= disk.rev
  /\ pub.pc = "push" => committed >= pub.seen
  /\ OkMeansPushed

SettingsInv ==
  /\ TypesAreSound /\ WindowsAreSound /\ LockIsSound
  /\ HistoryIsSound /\ RequestsAreOvertaken /\ PublisherIsSound

-----------------------------------------------------------------------------
(* Whatever a command makes of the preferences, they stay preferences.     *)
LEMMA EffectKeepsFields ==
  ASSUME NEW doc, DOMAIN doc = {"rev", "init", "pins"}, NEW c \in Command
  PROVE  DOMAIN Effect(doc, c) = {"rev", "init", "pins"}
<1> DEFINE with(pins) == [doc EXCEPT !.init = TRUE, !.pins = pins]
<1>1. \A pins : DOMAIN with(pins) = {"rev", "init", "pins"}
  OBVIOUS
<1>2. CASE c.action = "initialize"
  BY <1>1, <1>2 DEF Effect
<1>3. CASE c.action = "pin"
  BY <1>1, <1>3 DEF Effect
<1>4. CASE c.action = "unpin"
  BY <1>1, <1>4 DEF Effect
<1>5. CASE c.action = "move"
  BY <1>1, <1>5 DEF Effect
<1> QED BY <1>2, <1>3, <1>4, <1>5 DEF Command

(* Nothing a window knows gets newer than the file.                        *)
LEMMA StaysSound ==
  ASSUME NEW me, NEW old \in Nat, NEW new \in Nat, old <= new, WindowIsSound(me, old)
  PROVE  WindowIsSound(me, new)
<1>1. \A doc : Knows(doc, old) => Knows(doc, new)
  BY DEF Knows
<1> QED BY <1>1 DEF WindowIsSound

(* A window changed, and the file no older: all windows are sound.         *)
LEMMA OneWindow ==
  ASSUME WindowsAreSound, disk.rev \in Nat, disk'.rev \in Nat, disk.rev <= disk'.rev,
         NEW w \in Window, NEW me, window' = [window EXCEPT ![w] = me] \/ window' = window,
         WindowIsSound(me, disk'.rev)
  PROVE  WindowsAreSound'
<1>1. \A v \in Window : WindowIsSound(window[v], disk'.rev)
  BY StaysSound DEF WindowsAreSound
<1>2. window' = [v \in Window |-> window'[v]] /\ \A v \in Window : window'[v] \in {me, window[v]}
  BY DEF WindowsAreSound
<1> QED BY <1>1, <1>2 DEF WindowsAreSound

(* The first command done with: the rest of the queue, and what is known.  *)
LEMMA ShiftedIsSound ==
  ASSUME NEW me, NEW rev \in Nat, WindowIsSound(me, rev), me.queue # <<>>, me.step # "closed"
  PROVE  WindowIsSound(Shifted(me), rev) /\ Shifted(me).done = me.done + 1
<1>1. /\ Shifted(me).queue = Tail(me.queue) /\ Shifted(me).done = me.done + 1
      /\ Shifted(me).step = "idle" /\ Shifted(me).knows = me.knows
      /\ Shifted(me).given = me.given /\ Shifted(me).stale = me.stale
      /\ DOMAIN Shifted(me) = DOMAIN me
  BY DEF Shifted, WindowIsSound
<1>2. Tail(me.queue) \in Seq(Command)
  BY DEF WindowIsSound
<1> QED BY <1>1, <1>2 DEF WindowIsSound

(* An answer takes the request off the wire; a window that waits for it    *)
(* becomes me.                                                             *)
Answered(r, me) ==
  /\ net' = net \ {r}
  /\ window' = (IF Waits(r) THEN [window EXCEPT ![r.win] = me] ELSE window) \/ window' = window

(* Answers leave windows sound, and their counts where they were or one up.*)
LEMMA AnswersAreSound ==
  ASSUME SettingsInv, disk'.rev \in Nat, disk.rev <= disk'.rev, NEW r \in net, NEW me,
         Waits(r) => WindowIsSound(me, disk'.rev) /\ window[r.win].done <= me.done,
         Answered(r, me)
  PROVE  /\ WindowsAreSound' /\ net' \subseteq net
         /\ \A w \in Window : window'[w].done >= window[w].done
<1>1. r.win \in Window /\ disk.rev \in Nat /\ WindowsAreSound
  BY DEF SettingsInv, TypesAreSound, Request
<1>2. window = [v \in Window |-> window[v]] /\ \A w \in Window : window[w].done \in Nat
  BY <1>1 DEF WindowsAreSound, WindowIsSound
<1>3. CASE Waits(r) /\ window' = [window EXCEPT ![r.win] = me]
  <2>1. WindowsAreSound'
    BY <1>1, <1>3, OneWindow
  <2>2. \A w \in Window : window'[w] = window[w] \/ (w = r.win /\ window'[w] = me)
    BY <1>1, <1>2, <1>3
  <2> QED BY <1>2, <1>3, <2>1, <2>2 DEF Answered, WindowIsSound
<1>4. CASE window' = window
  <2>1. WindowsAreSound'
    BY <1>1, <1>4, StaysSound DEF WindowsAreSound
  <2> QED BY <1>2, <1>4, <2>1 DEF Answered
<1> QED BY <1>3, <1>4 DEF Answered

(* Changes of windows and of the net alone, with counts that only grow.    *)
LEMMA PageStep ==
  ASSUME SettingsInv, WindowsAreSound', UNCHANGED <<disk, applied>>, net' \subseteq net,
         \A w \in Window : window'[w].done >= window[w].done
  PROVE  HistoryIsSound' /\ RequestsAreOvertaken'
<1>1. \A w \in Window : window[w].done \in Nat /\ window'[w].done \in Nat
  BY DEF SettingsInv, WindowsAreSound, WindowIsSound
<1>2. \A i \in DOMAIN applied : applied[i].win \in Window /\ applied[i].num \in Nat
  BY DEF SettingsInv, TypesAreSound
<1>3. \A r \in net : r.win \in Window /\ r.num \in Nat
  BY DEF SettingsInv, TypesAreSound, Request
<1>4. HistoryIsSound'
  <2>1. NoSettingIsLost' /\ WindowOrderKept'
    BY DEF SettingsInv, HistoryIsSound, WindowOrderKept, NoSettingIsLost, Before
  <2> QED BY <1>1, <1>2, <2>1 DEF SettingsInv, HistoryIsSound
<1>5. RequestsAreOvertaken'
  BY <1>1, <1>3 DEF SettingsInv, RequestsAreOvertaken
<1> QED BY <1>4, <1>5

-----------------------------------------------------------------------------
(* A window's own steps: w becomes me, nothing is sent, nothing is written. *)
LEMMA WindowStep ==
  ASSUME SettingsInv, NEW w \in Window, NEW me, window' = [window EXCEPT ![w] = me],
         WindowIsSound(me, disk.rev), window[w].done <= me.done,
         UNCHANGED <<store, net, git>>
  PROVE  SettingsInv'
<1>1. disk.rev \in Nat /\ WindowsAreSound /\ UNCHANGED <<disk, lock, read, applied>>
  BY DEF SettingsInv, TypesAreSound, store
<1>2. window = [v \in Window |-> window[v]] /\ \A v \in Window : window[v].done \in Nat
  BY <1>1 DEF WindowsAreSound, WindowIsSound
<1>3. WindowsAreSound'
  <2>1. WindowIsSound(me, disk'.rev) /\ disk'.rev \in Nat /\ disk.rev <= disk'.rev
    BY <1>1
  <2> QED BY <1>1, <2>1, OneWindow
<1>4. \A v \in Window : window'[v].done >= window[v].done
  <2>1. \A v \in Window : window'[v] = window[v] \/ (v = w /\ window'[v] = me)
    BY <1>2
  <2>2. me.done \in Nat
    BY DEF WindowIsSound
  <2> QED BY <1>2, <2>1, <2>2
<1>5. HistoryIsSound' /\ RequestsAreOvertaken'
  BY <1>1, <1>3, <1>4, PageStep
<1>6. TypesAreSound' /\ LockIsSound' /\ PublisherIsSound'
  BY <1>1 DEF SettingsInv, TypesAreSound, LockIsSound, PublisherIsSound, OkMeansPushed, git
<1> QED BY <1>3, <1>5, <1>6 DEF SettingsInv

(* What users do: a command at the end of the queue.                       *)
LEMMA QueuedStep ==
  ASSUME SettingsInv, NEW w \in Window, NEW c \in Command, Queued(w, c)
  PROVE  SettingsInv'
<1> DEFINE me == [window[w] EXCEPT !.queue = Append(@, c)]
<1>1. WindowIsSound(window[w], disk.rev)
  BY DEF SettingsInv, WindowsAreSound
<1>2. /\ me.queue = Append(window[w].queue, c) /\ me.done = window[w].done
      /\ me.step = window[w].step /\ me.knows = window[w].knows
      /\ me.given = window[w].given /\ me.stale = window[w].stale
      /\ DOMAIN me = DOMAIN window[w]
  BY <1>1 DEF WindowIsSound
<1>3. Append(window[w].queue, c) \in Seq(Command) /\ Append(window[w].queue, c) # <<>>
  <2>1. window[w].queue \in Seq(Command)
    BY <1>1 DEF WindowIsSound
  <2> QED BY <2>1, AppendProperties
<1>4. window' = [window EXCEPT ![w] = me] /\ UNCHANGED <<store, net, git>>
  BY DEF Queued
<1> HIDE DEF me
<1>5. WindowIsSound(me, disk.rev) /\ window[w].done <= me.done
  BY <1>1, <1>2, <1>3 DEF WindowIsSound
<1> QED BY <1>4, <1>5, WindowStep

LEMMA UserStep == SettingsInv /\ User => SettingsInv'
<1>1. ASSUME SettingsInv, NEW w \in Window, NEW k \in Toggled, TogglePin(w, k)
      PROVE  SettingsInv'
  <2> DEFINE c == [action |-> IF Contains(Projected(w).pins, k) THEN "unpin" ELSE "pin", key |-> k]
  <2>1. c \in Command /\ Queued(w, c)
    BY <1>1, SettingsAssumption DEF Command, TogglePin
  <2> QED BY <1>1, <2>1, QueuedStep
<1>2. ASSUME SettingsInv, NEW w \in Window, NEW m \in Dragged, ReorderPin(w, m[1], m[2], m[3])
      PROVE  SettingsInv'
  <2> DEFINE c == [action |-> "move", key |-> m[1], target |-> m[2], after |-> m[3]]
  <2>1. c \in Command /\ Queued(w, c)
    BY <1>2, SettingsAssumption DEF Command, ReorderPin
  <2> QED BY <1>2, <2>1, QueuedStep
<1> QED BY <1>1, <1>2 DEF User

(* What a window reads is the file, or what it knows already.              *)
LEMMA NewerIsKnown ==
  ASSUME SettingsInv, NEW w \in Window
  PROVE  Knows(Newer(w), disk.rev)
<1>1. WindowIsSound(window[w], disk.rev) /\ disk.rev \in Nat
  BY DEF SettingsInv, WindowsAreSound, TypesAreSound
<1> QED BY <1>1 DEF WindowIsSound, Knows, Newer

LEMMA RefreshStep ==
  ASSUME SettingsInv, NEW w \in Window, Refresh(w)
  PROVE  SettingsInv'
<1> DEFINE own == <<[action |-> "initialize", pins |-> Legacy[w]]>>
           queue == IF window[w].step = "closed" /\ ~disk.init /\ Legacy[w] # <<>>
                    THEN own ELSE window[w].queue
           step == IF window[w].step = "closed" THEN "idle" ELSE window[w].step
           me == [window[w] EXCEPT !.knows = Newer(w), !.stale = FALSE, !.step = step,
                                   !.queue = queue]
<1>1. WindowIsSound(window[w], disk.rev) /\ w \in DOMAIN window
  BY DEF SettingsInv, WindowsAreSound
<1>2. own \in Seq(Command)
  BY SettingsAssumption DEF Command
<1>3. queue \in Seq(Command) /\ (step \in {"waiting", "refresh"} => queue # <<>>)
  BY <1>1, <1>2 DEF WindowIsSound
<1>4. window' = [window EXCEPT ![w] = me] /\ UNCHANGED <<store, net, git>>
  BY <1>1 DEF Refresh, WindowIsSound
<1> HIDE DEF queue, step
<1>5. /\ me.queue = queue /\ me.done = window[w].done /\ me.step = step /\ me.knows = Newer(w)
      /\ me.given = window[w].given /\ me.stale = FALSE /\ DOMAIN me = DOMAIN window[w]
  BY <1>1 DEF WindowIsSound
<1> HIDE DEF me
<1>6. Knows(Newer(w), disk.rev)
  BY NewerIsKnown
<1>7. WindowIsSound(me, disk.rev) /\ window[w].done <= me.done
  <2>1. /\ window[w].done \in Nat /\ window[w].given \in Nat
        /\ DOMAIN window[w] = {"step", "queue", "done", "knows", "given", "stale"}
    BY <1>1 DEF WindowIsSound
  <2>2. Knows(me.knows, disk.rev)
    BY <1>5, <1>6
  <2>3. me.queue \in Seq(Command) /\ (me.step \in {"waiting", "refresh"} => me.queue # <<>>)
    BY <1>3, <1>5
  <2>4. me.stale \in BOOLEAN
    BY <1>5
  <2>5. /\ me.done = window[w].done /\ me.given = window[w].given
        /\ DOMAIN me = DOMAIN window[w]
    BY <1>5
  <2> QED BY <2>1, <2>2, <2>3, <2>4, <2>5 DEF WindowIsSound
<1> QED BY <1>4, <1>7, WindowStep

LEMMA RereadStep ==
  ASSUME SettingsInv, NEW w \in Window, Reread(w)
  PROVE  SettingsInv'
<1> DEFINE me == [window[w] EXCEPT !.step = "idle", !.knows = Newer(w)]
<1>1. WindowIsSound(window[w], disk.rev) /\ w \in DOMAIN window
  BY DEF SettingsInv, WindowsAreSound
<1>2. window' = [window EXCEPT ![w] = me] /\ UNCHANGED <<store, net, git>>
  BY <1>1 DEF Reread
<1>3. WindowIsSound(me, disk.rev) /\ window[w].done <= me.done
  BY <1>1, NewerIsKnown DEF WindowIsSound
<1> HIDE DEF me
<1> QED BY <1>2, <1>3, WindowStep

LEMMA GiveUpStep ==
  ASSUME SettingsInv, NEW w \in Window, GiveUp(w)
  PROVE  SettingsInv'
<1> DEFINE me == [window[w] EXCEPT !.step = "idle", !.given = @ + 1]
<1>1. WindowIsSound(window[w], disk.rev) /\ w \in DOMAIN window
  BY DEF SettingsInv, WindowsAreSound
<1>2. window' = [window EXCEPT ![w] = me] /\ UNCHANGED <<store, net, git>>
  BY <1>1 DEF GiveUp
<1>3. WindowIsSound(me, disk.rev) /\ window[w].done <= me.done
  BY <1>1 DEF WindowIsSound, GiveUp
<1> HIDE DEF me
<1> QED BY <1>2, <1>3, WindowStep

(* Requests.                                                               *)
LEMMA SendStep ==
  ASSUME SettingsInv, NEW w \in Window, SendCommand(w)
  PROVE  SettingsInv'
<1>1. WindowIsSound(window[w], disk.rev) /\ disk.rev \in Nat /\ WindowsAreSound
  BY DEF SettingsInv, WindowsAreSound, TypesAreSound
<1>2. /\ window[w].step = "idle" /\ window[w].queue # <<>> /\ window[w].step # "closed"
      /\ UNCHANGED <<disk, lock, read, applied>> /\ UNCHANGED git
  BY DEF SendCommand, store
<1>3. CASE window' = [window EXCEPT ![w] = Shifted(window[w])] /\ UNCHANGED net
  <2>1. WindowIsSound(Shifted(window[w]), disk.rev) /\ window[w].done <= Shifted(window[w]).done
    <3>1. WindowIsSound(Shifted(window[w]), disk.rev)
          /\ Shifted(window[w]).done = window[w].done + 1
      BY <1>1, <1>2, ShiftedIsSound
    <3>2. window[w].done \in Nat
      BY <1>1 DEF WindowIsSound
    <3> QED BY <3>1, <3>2
  <2> QED BY <1>2, <1>3, <2>1, WindowStep DEF store
<1>4. CASE /\ net' = net \cup {RequestOf(w)}
           /\ window' = [window EXCEPT ![w].step = "waiting"]
  <2> DEFINE me == [window[w] EXCEPT !.step = "waiting"]
             new == RequestOf(w)
  <2>1. WindowIsSound(me, disk.rev) /\ me.done = window[w].done
    BY <1>1, <1>2 DEF WindowIsSound
  <2>2. window' = [window EXCEPT ![w] = me]
    BY <1>4
  <2>3. Head(window[w].queue) \in Command
    BY <1>1, <1>2 DEF WindowIsSound
  <2>4. /\ new \in Request /\ new.rev <= disk.rev
        /\ new.win = w /\ new.num = window[w].done + 1
    BY <1>1, <1>2, <2>3 DEF RequestOf, Request, WindowIsSound, Knows
  <2> HIDE DEF me, new
  <2>5. WindowsAreSound'
    <3>1. WindowIsSound(me, disk'.rev) /\ disk'.rev \in Nat /\ disk.rev <= disk'.rev
      BY <1>1, <1>2, <2>1
    <3> QED BY <1>1, <2>2, <3>1, OneWindow
  <2>6. \A v \in Window : window'[v].done = window[v].done
    <3>1. window = [v \in Window |-> window[v]]
      BY <1>1 DEF WindowsAreSound
    <3>2. \A v \in Window : window'[v] = window[v] \/ (v = w /\ window'[v] = me)
      BY <2>2, <3>1
    <3> QED BY <2>1, <3>2
  <2>7. \A i \in DOMAIN applied : applied[i].win \in Window /\ applied[i].num \in Nat
    BY DEF SettingsInv, TypesAreSound
  <2>8. HistoryIsSound'
    BY <1>2, <2>6, <2>7 DEF SettingsInv, HistoryIsSound, WindowOrderKept, NoSettingIsLost, Before
  <2>9. RequestsAreOvertaken'
    <3> SUFFICES ASSUME NEW r \in net'
                 PROVE  /\ r.rev <= disk.rev /\ r.num <= window'[r.win].done + 1
                        /\ \A i \in DOMAIN applied :
                             applied[i].win = r.win /\ r.num < applied[i].num => r.rev < disk.rev
      BY <1>2 DEF RequestsAreOvertaken
    <3>1. CASE r \in net
      <4>1. r.win \in Window
        BY <3>1 DEF SettingsInv, TypesAreSound, Request
      <4> QED BY <2>6, <3>1, <4>1 DEF SettingsInv, RequestsAreOvertaken
    <3>2. CASE r = new
      <4>1. \A i \in DOMAIN applied : applied[i].win = w => applied[i].num <= window[w].done + 1
        BY DEF SettingsInv, HistoryIsSound
      <4>2. window[w].done \in Nat
        BY <1>1 DEF WindowIsSound
      <4> QED BY <2>4, <2>6, <2>7, <3>2, <4>1, <4>2
    <3> QED BY <1>4, <3>1, <3>2 DEF new
  <2>10. TypesAreSound'
    BY <1>2, <1>4, <2>4 DEF SettingsInv, TypesAreSound, git, new
  <2>11. LockIsSound'
    BY <1>2, <1>4 DEF SettingsInv, LockIsSound
  <2>12. PublisherIsSound'
    BY <1>2 DEF SettingsInv, PublisherIsSound, OkMeansPushed, git
  <2> QED BY <2>5, <2>8, <2>9, <2>10, <2>11, <2>12 DEF SettingsInv
<1> QED BY <1>3, <1>4 DEF SendCommand

(* A request that is answered without the lock, or left without an answer. *)
LEMMA AnswerStep ==
  ASSUME SettingsInv, NEW r \in net, NEW me,
         Waits(r) => WindowIsSound(me, disk.rev) /\ window[r.win].done <= me.done,
         Answered(r, me), UNCHANGED <<disk, applied, git>>,
         (lock' = None) \/ (lock # r /\ UNCHANGED <<lock, read>>)
  PROVE  SettingsInv'
<1>1. disk.rev \in Nat /\ disk' = disk
  BY DEF SettingsInv, TypesAreSound
<1>2. /\ Waits(r) => WindowIsSound(me, disk'.rev) /\ window[r.win].done <= me.done
      /\ disk'.rev \in Nat /\ disk.rev <= disk'.rev
  BY <1>1
<1>3. /\ WindowsAreSound' /\ net' \subseteq net
      /\ \A w \in Window : window'[w].done >= window[w].done
  BY <1>2, AnswersAreSound
<1>4. HistoryIsSound' /\ RequestsAreOvertaken'
  BY <1>3, PageStep
<1>5. LockIsSound'
  BY <1>1 DEF SettingsInv, LockIsSound, Answered
<1>6. TypesAreSound' /\ PublisherIsSound'
  BY <1>3 DEF SettingsInv, TypesAreSound, PublisherIsSound, OkMeansPushed, git
<1> QED BY <1>3, <1>4, <1>5, <1>6 DEF SettingsInv

(* The answers a waiting window may get.                                   *)
LEMMA AnsweredSoundly ==
  ASSUME SettingsInv, NEW r \in net, Waits(r), NEW rev \in Nat, disk.rev <= rev
  PROVE  /\ WindowIsSound(Refused(r), rev) /\ window[r.win].done <= Refused(r).done
         /\ WindowIsSound(Conflict(r), rev) /\ window[r.win].done <= Conflict(r).done
         /\ WindowIsSound(Unavailable(r), rev) /\ window[r.win].done <= Unavailable(r).done
         /\ WindowIsSound(Stranger(r), rev) /\ window[r.win].done <= Stranger(r).done
         /\ \A doc : Knows(doc, rev) =>
              WindowIsSound(Saved(r, doc), rev) /\ window[r.win].done <= Saved(r, doc).done
<1> DEFINE me == window[r.win]
<1>1. r.win \in Window /\ me.step = "waiting"
  BY DEF SettingsInv, TypesAreSound, Request, Waits
<1>2. WindowIsSound(me, rev)
  BY <1>1, StaysSound DEF SettingsInv, TypesAreSound, WindowsAreSound
<1>3. me.done \in Nat /\ me.queue # <<>> /\ me.step # "closed" /\ Knows(me.knows, rev)
  BY <1>1, <1>2 DEF WindowIsSound
<1>4. WindowIsSound(Refused(r), rev) /\ me.done <= Refused(r).done
  <2>1. WindowIsSound(Shifted(me), rev) /\ Shifted(me).done = me.done + 1
    BY <1>2, <1>3, ShiftedIsSound
  <2> QED BY <1>3, <2>1 DEF Refused
<1>5. /\ WindowIsSound(Conflict(r), rev) /\ me.done <= Conflict(r).done
      /\ WindowIsSound(Unavailable(r), rev) /\ me.done <= Unavailable(r).done
      /\ WindowIsSound(Stranger(r), rev) /\ me.done <= Stranger(r).done
  BY <1>2, <1>3 DEF Conflict, Unavailable, Stranger, WindowIsSound
<1>6. ASSUME NEW doc, Knows(doc, rev)
      PROVE  WindowIsSound(Saved(r, doc), rev) /\ me.done <= Saved(r, doc).done
  <2> DEFINE knows == IF doc.rev >= me.knows.rev THEN doc ELSE me.knows
             it == [me EXCEPT !.knows = knows]
  <2>1. Knows(knows, rev)
    BY <1>3, <1>6
  <2> HIDE DEF knows
  <2>2. WindowIsSound(it, rev) /\ it.done = me.done /\ it.queue # <<>> /\ it.step # "closed"
    BY <1>2, <1>3, <2>1 DEF WindowIsSound
  <2>3. Saved(r, doc) = Shifted(it)
    BY DEF Saved, knows
  <2> HIDE DEF it
  <2>4. WindowIsSound(Shifted(it), rev) /\ Shifted(it).done = it.done + 1
    BY <2>2, ShiftedIsSound
  <2> QED BY <1>3, <2>2, <2>3, <2>4
<1> QED BY <1>4, <1>5, <1>6

(* A change is that of a request nothing of its window has overtaken.      *)
LEMMA ChangeStep ==
  ASSUME SettingsInv, NEW r \in net, lock = r, lock' = None, Compared(r), Change(r, read),
         Answer(r, Saved(r, disk')), UNCHANGED git
  PROVE  SettingsInv'
<1> DEFINE entry == [win |-> r.win, num |-> r.num, cmd |-> r.cmd, left |-> disk']
<1>1. r \in Request /\ r.win \in Window /\ r.num \in Nat \ {0} /\ r.cmd \in Command
  BY DEF SettingsInv, TypesAreSound, Request
<1>2. lock \notin {None, Publishing}
  BY <1>1, SettingsAssumption
<1>3. read = disk /\ r.rev = disk.rev
  BY <1>2 DEF SettingsInv, LockIsSound, Compared
<1>4. disk.rev \in Nat /\ DOMAIN disk = {"rev", "init", "pins"}
  BY DEF SettingsInv, TypesAreSound
<1>5. disk'.rev = disk.rev + 1 /\ DOMAIN disk' = {"rev", "init", "pins"}
  BY <1>1, <1>3, <1>4, EffectKeepsFields DEF Change
<1>6. applied' = Append(applied, entry)
  BY DEF Change
<1>7. disk'.rev \in Nat /\ disk.rev <= disk'.rev /\ Knows(disk', disk'.rev)
  BY <1>4, <1>5 DEF Knows
<1>8. Waits(r) => WindowIsSound(Saved(r, disk'), disk'.rev)
                  /\ window[r.win].done <= Saved(r, disk').done
  BY <1>7, AnsweredSoundly
<1>9. /\ WindowsAreSound' /\ net' \subseteq net
      /\ \A w \in Window : window'[w].done >= window[w].done
  <2>1. Answered(r, Saved(r, disk'))
    BY DEF Answer, Deliver, Answered
  <2> QED BY <1>7, <1>8, <2>1, AnswersAreSound
<1>10. \A w \in Window : window[w].done \in Nat /\ window'[w].done \in Nat
  BY <1>9 DEF SettingsInv, WindowsAreSound, WindowIsSound
<1> DEFINE Entry == ToSet(applied) \cup {entry}
<1>11. applied \in Seq(Entry) /\ entry \in Entry
  BY SeqMonotonic DEF SettingsInv, TypesAreSound
<1>12. entry.win = r.win /\ entry.num = r.num /\ entry.cmd = r.cmd /\ entry.left = disk'
  OBVIOUS
<1> HIDE DEF Entry, entry
<1>13. /\ applied' \in Seq(Entry) /\ DOMAIN applied = 1 .. Len(applied) /\ Len(applied) \in Nat
       /\ DOMAIN applied' = 1 .. Len(applied) + 1
       /\ \A i \in 1 .. Len(applied) : applied'[i] = applied[i]
       /\ applied'[Len(applied) + 1] = entry
  BY <1>6, <1>11, AppendProperties, LenProperties
<1>14. \A i \in DOMAIN applied : applied[i].win \in Window /\ applied[i].num \in Nat
  BY DEF SettingsInv, TypesAreSound
<1>15. \A i \in DOMAIN applied : applied[i].win = r.win => applied[i].num <= r.num
  BY <1>1, <1>3, <1>4, <1>14 DEF SettingsInv, RequestsAreOvertaken
<1>16. r.num <= window[r.win].done + 1
  BY DEF SettingsInv, RequestsAreOvertaken
<1>17. WindowOrderKept'
  <2> SUFFICES ASSUME NEW i \in DOMAIN applied', NEW j \in DOMAIN applied', i < j,
                      applied'[i].win = applied'[j].win
               PROVE  applied'[i].num <= applied'[j].num
    BY DEF WindowOrderKept
  <2>1. i \in DOMAIN applied /\ applied'[i] = applied[i]
    BY <1>13
  <2>2. CASE j \in DOMAIN applied
    BY <1>13, <2>1, <2>2 DEF SettingsInv, HistoryIsSound, WindowOrderKept, NoSettingIsLost, Before
  <2>3. CASE j = Len(applied) + 1
    BY <1>12, <1>13, <1>15, <2>1, <2>3
  <2> QED BY <1>13, <2>2, <2>3
<1>18. \A i \in DOMAIN applied' : applied'[i].num <= window'[applied'[i].win].done + 1
  <2> SUFFICES ASSUME NEW i \in DOMAIN applied'
               PROVE  applied'[i].num <= window'[applied'[i].win].done + 1
    OBVIOUS
  <2>1. CASE i \in DOMAIN applied
    <3>1. applied[i].num <= window[applied[i].win].done + 1
      BY <2>1 DEF SettingsInv, HistoryIsSound
    <3>2. applied'[i] = applied[i] /\ applied[i].win \in Window /\ applied[i].num \in Nat
      BY <1>13, <1>14, <2>1
    <3>3. /\ window'[applied[i].win].done >= window[applied[i].win].done
          /\ window'[applied[i].win].done \in Nat /\ window[applied[i].win].done \in Nat
      BY <1>9, <1>10, <3>2
    <3> QED BY <3>1, <3>2, <3>3
  <2>2. CASE i = Len(applied) + 1
    <3>1. applied'[i].num = r.num /\ applied'[i].win = r.win
      BY <1>12, <1>13, <2>2
    <3>2. /\ window'[r.win].done >= window[r.win].done
          /\ window'[r.win].done \in Nat /\ window[r.win].done \in Nat
      BY <1>1, <1>9, <1>10
    <3> QED BY <1>1, <1>16, <3>1, <3>2
  <2> QED BY <1>13, <2>1, <2>2
<1>19. RequestsAreOvertaken'
  <2> SUFFICES ASSUME NEW q \in net' PROVE q.rev < disk'.rev /\ q.num <= window'[q.win].done + 1
    <3>1. \A q \in net' : q.rev \in Nat
      BY <1>9 DEF SettingsInv, TypesAreSound, Request
    <3> QED BY <1>7, <3>1 DEF RequestsAreOvertaken
  <2>1. q \in net /\ q.win \in Window /\ q.rev \in Nat /\ q.num \in Nat
    BY <1>9 DEF SettingsInv, TypesAreSound, Request
  <2>2. q.rev <= disk.rev /\ q.num <= window[q.win].done + 1
    BY <2>1 DEF SettingsInv, RequestsAreOvertaken
  <2> QED BY <1>4, <1>5, <1>9, <1>10, <2>1, <2>2
<1>20. TypesAreSound'
  <2>1. Entry = ToSet(applied')
    BY <1>13 DEF Entry, ToSet
  <2>2. applied' \in Seq(ToSet(applied'))
    BY <1>13, <2>1
  <2>3. \A i \in DOMAIN applied' : applied'[i].win \in Window /\ applied'[i].num \in Nat
    BY <1>1, <1>12, <1>13, <1>14
  <2> QED BY <1>5, <1>7, <1>9, <2>2, <2>3 DEF SettingsInv, TypesAreSound, git
<1>21. LockIsSound'
  BY DEF LockIsSound
<1>23. NoSettingIsLost'
  <2>1. /\ \A i \in DOMAIN applied :
             applied[i].left = [Effect(Before(i), applied[i].cmd) EXCEPT !.rev = i]
        /\ disk = Before(Len(applied) + 1) /\ disk.rev = Len(applied)
    BY DEF SettingsInv, HistoryIsSound, NoSettingIsLost
  <2>2. \A i \in 1 .. Len(applied) + 1 : Before(i)' = Before(i)
    BY <1>13 DEF Before
  <2>3. Len(applied') = Len(applied) + 1
    BY <1>13, LenProperties
  <2>4. disk' = [Effect(disk, r.cmd) EXCEPT !.rev = disk.rev + 1]
    BY <1>3 DEF Change
  <2>5. ASSUME NEW i \in DOMAIN applied'
        PROVE  applied'[i].left = [Effect(Before(i)', applied'[i].cmd) EXCEPT !.rev = i]
    <3>1. CASE i \in DOMAIN applied
      BY <1>13, <2>1, <2>2, <3>1
    <3>2. CASE i = Len(applied) + 1
      <4>1. applied'[i].left = disk' /\ applied'[i].cmd = r.cmd
        BY <1>12, <1>13, <3>2
      <4>2. Before(i)' = disk /\ disk.rev + 1 = i
        BY <1>13, <2>1, <2>2, <3>2
      <4> QED BY <2>4, <4>1, <4>2
    <3> QED BY <1>13, <3>1, <3>2
  <2>6. (disk = Before(Len(applied) + 1))'
    BY <1>12, <1>13, <2>3 DEF Before
  <2> QED BY <1>5, <2>1, <2>3, <2>5, <2>6 DEF NoSettingIsLost
<1>22. PublisherIsSound'
  <2>1. /\ pub.seen \in Nat /\ pub' = pub /\ committed' = committed /\ pushed' = pushed
        /\ status' = status
    BY DEF SettingsInv, TypesAreSound, git
  <2> QED BY <1>4, <1>7, <2>1 DEF SettingsInv, PublisherIsSound, OkMeansPushed
<1> QED BY <1>9, <1>17, <1>18, <1>19, <1>20, <1>21, <1>22, <1>23 DEF SettingsInv, HistoryIsSound

-----------------------------------------------------------------------------
(* Gateways: one case per step a request is met with.                      *)
LEMMA RequestStep ==
  ASSUME SettingsInv, NEW r \in net,
         Unauthorised(r) \/ Take(r) \/ Work(r) \/ LockTimesOut(r) \/ WorkFails(r)
  PROVE  SettingsInv'
<1>1. /\ disk.rev \in Nat /\ disk.rev <= disk.rev /\ r \in Request
  BY DEF SettingsInv, TypesAreSound
<1>2. r \notin {None, Publishing}
  BY <1>1, SettingsAssumption
<1>3. lock = r => ~r.stale /\ read = disk
  BY <1>2 DEF SettingsInv, LockIsSound
<1>4. CASE Unauthorised(r)
  <2>1. Answered(r, Stranger(r)) /\ UNCHANGED <<disk, lock, read, applied>> /\ UNCHANGED git
    BY <1>4 DEF Unauthorised, Answer, Deliver, Answered, store
  <2>2. lock # r
    BY <1>3, <1>4 DEF Unauthorised
  <2>3. Waits(r) => WindowIsSound(Stranger(r), disk.rev) /\ window[r.win].done <= Stranger(r).done
    BY <1>1, AnsweredSoundly
  <2> QED BY <2>1, <2>2, <2>3, AnswerStep
<1>5. CASE Take(r)
  <2>1. /\ r \in net /\ ~r.stale /\ lock' = r /\ read' = disk
        /\ UNCHANGED <<disk, applied, window, net, git>>
    BY <1>5 DEF Take, page
  <2>2. LockIsSound'
    BY <2>1 DEF LockIsSound
  <2>3. WindowsAreSound' /\ HistoryIsSound' /\ RequestsAreOvertaken'
    BY <2>1 DEF SettingsInv, WindowsAreSound, HistoryIsSound, RequestsAreOvertaken, WindowOrderKept,
              NoSettingIsLost, Before
  <2>4. TypesAreSound' /\ PublisherIsSound'
    BY <2>1 DEF SettingsInv, TypesAreSound, PublisherIsSound, OkMeansPushed, git
  <2> QED BY <2>2, <2>3, <2>4 DEF SettingsInv
<1>6. CASE LockTimesOut(r)
  <2>1. /\ Answered(r, Unavailable(r)) /\ UNCHANGED <<disk, lock, read, applied>>
        /\ UNCHANGED git /\ lock # r
    BY <1>6 DEF LockTimesOut, Deliver, Answered, store
  <2>2. Waits(r) =>
          WindowIsSound(Unavailable(r), disk.rev) /\ window[r.win].done <= Unavailable(r).done
    BY <1>1, AnsweredSoundly
  <2> QED BY <2>1, <2>2, AnswerStep
<1>7. CASE WorkFails(r)
  <2>1. /\ Answered(r, Unavailable(r)) /\ UNCHANGED <<disk, applied>>
        /\ UNCHANGED git /\ lock' = None
    BY <1>7 DEF WorkFails, Deliver, Answered, Unlock
  <2>2. Waits(r) =>
          WindowIsSound(Unavailable(r), disk.rev) /\ window[r.win].done <= Unavailable(r).done
    BY <1>1, AnsweredSoundly
  <2> QED BY <2>1, <2>2, AnswerStep
<1>8. CASE Work(r)
  <2>1. lock = r /\ lock' = None /\ UNCHANGED git
    BY <1>8 DEF Work, Unlock, git
  <2>2. ASSUME NEW me, Answer(r, me), UNCHANGED <<disk, applied>>,
               Waits(r) => WindowIsSound(me, disk.rev) /\ window[r.win].done <= me.done
        PROVE  SettingsInv'
    <3>1. Answered(r, me)
      BY <2>2 DEF Answer, Deliver, Answered
    <3> QED BY <2>1, <2>2, <3>1, AnswerStep
  <2>3. CASE Answer(r, Conflict(r)) /\ UNCHANGED <<disk, applied>>
    BY <1>1, <2>2, <2>3, AnsweredSoundly
  <2>4. CASE Answer(r, Refused(r)) /\ UNCHANGED <<disk, applied>>
    BY <1>1, <2>2, <2>4, AnsweredSoundly
  <2>5. CASE Answer(r, Saved(r, read)) /\ UNCHANGED <<disk, applied>>
    <3>1. Knows(read, disk.rev)
      BY <1>1, <1>3, <2>1 DEF Knows
    <3> QED BY <1>1, <2>2, <2>5, <3>1, AnsweredSoundly
  <2>6. CASE Compared(r) /\ Change(r, read) /\ Answer(r, Saved(r, disk'))
    BY <2>1, <2>6, ChangeStep
  <2> QED BY <1>8, <2>3, <2>4, <2>5, <2>6 DEF Work
<1> QED BY <1>4, <1>5, <1>6, <1>7, <1>8

(* The publisher: nothing of the windows, of their requests and the file.  *)
LEMMA PublisherStep ==
  SettingsInv /\ (BeginFlush \/ LockStore \/ Commit \/ Push \/ FlushFails) => SettingsInv'
<1> SUFFICES ASSUME SettingsInv, BeginFlush \/ LockStore \/ Commit \/ Push \/ FlushFails
             PROVE  SettingsInv'
  OBVIOUS
<1>1. UNCHANGED <<disk, read, applied, window, net>>
  BY DEF BeginFlush, LockStore, Commit, Push, FlushFails, store, page
<1>2. /\ disk.rev \in Nat /\ committed \in Nat /\ pushed \in Nat
      /\ pub \in [pc : {"watch", "wait", "commit", "push"}, seen : Nat, again : BOOLEAN]
      /\ pub.seen <= disk.rev /\ (pub.pc = "push" => committed >= pub.seen)
      /\ (status = "ok" => pushed >= pub.seen)
  BY DEF SettingsInv, TypesAreSound, PublisherIsSound, OkMeansPushed
<1>3. lock' \in {lock, None, Publishing}
  BY DEF BeginFlush, LockStore, Commit, Push, FlushFails, store
<1>4. LockIsSound'
  BY <1>1, <1>3 DEF SettingsInv, LockIsSound
<1>5. WindowsAreSound' /\ HistoryIsSound' /\ RequestsAreOvertaken'
  BY <1>1 DEF SettingsInv, WindowsAreSound, HistoryIsSound, RequestsAreOvertaken, WindowOrderKept,
              NoSettingIsLost, Before
<1>6. /\ committed' \in Nat /\ pushed' \in Nat
      /\ pub' \in [pc : {"watch", "wait", "commit", "push"}, seen : Nat, again : BOOLEAN]
      /\ pub'.seen <= disk.rev /\ (pub'.pc = "push" => committed' >= pub'.seen)
      /\ (status' = "ok" => pushed' >= pub'.seen)
  <2>1. CASE BeginFlush
    <3>1. /\ pub' = [pub EXCEPT !.pc = "wait", !.seen = disk.rev] /\ status' = "pending"
          /\ committed' = committed /\ pushed' = pushed
      BY <2>1 DEF BeginFlush
    <3>2. pub' \in [pc : {"watch", "wait", "commit", "push"}, seen : Nat, again : BOOLEAN]
      BY <1>2, <3>1
    <3>3. pub'.pc = "wait" /\ pub'.seen = disk.rev
      BY <1>2, <3>1
    <3> QED BY <1>2, <3>1, <3>2, <3>3
  <2>2. CASE LockStore BY <1>2, <2>2 DEF LockStore
  <2>3. CASE Commit BY <1>2, <2>3 DEF Commit
  <2>4. CASE Push BY <1>2, <2>4 DEF Push, Flushed
  <2>5. CASE FlushFails BY <1>2, <2>5 DEF FlushFails, Flushed
  <2> QED BY <2>1, <2>2, <2>3, <2>4, <2>5
<1>7. TypesAreSound' /\ PublisherIsSound'
  BY <1>1, <1>6 DEF SettingsInv, TypesAreSound, PublisherIsSound, OkMeansPushed
<1> QED BY <1>4, <1>5, <1>7 DEF SettingsInv

LEMMA DieStep == SettingsInv /\ Die => SettingsInv'
<1> SUFFICES ASSUME SettingsInv, Die PROVE SettingsInv'
  OBVIOUS
<1>1. /\ UNCHANGED <<disk, applied, committed, pushed>> /\ lock' = None /\ net' = {}
      /\ pub' = [pub EXCEPT !.pc = "watch", !.again = TRUE] /\ status' = "pending"
      /\ window' = [w \in Window |-> [window[w] EXCEPT !.stale = window[w].knows # None]]
  BY DEF Die, Unlock
<1>2. ASSUME NEW w \in Window
      PROVE  WindowIsSound(window'[w], disk.rev) /\ window'[w].done = window[w].done
  <2> DEFINE stale == (window[w].knows # None)
  <2>1. WindowIsSound(window[w], disk.rev)
    BY DEF SettingsInv, WindowsAreSound
  <2>2. window'[w] = [window[w] EXCEPT !.stale = stale] /\ stale \in BOOLEAN
    BY <1>1
  <2> HIDE DEF stale
  <2> QED BY <2>1, <2>2 DEF WindowIsSound
<1>3. WindowsAreSound'
  BY <1>1, <1>2 DEF WindowsAreSound
<1>4. \A w \in Window : window'[w].done >= window[w].done
  <2>1. \A w \in Window : window[w].done \in Nat
    BY DEF SettingsInv, WindowsAreSound, WindowIsSound
  <2> QED BY <1>2, <2>1
<1>5. HistoryIsSound' /\ RequestsAreOvertaken'
  BY <1>1, <1>3, <1>4, PageStep
<1>6. TypesAreSound' /\ LockIsSound' /\ PublisherIsSound'
  BY <1>1 DEF SettingsInv, TypesAreSound, LockIsSound, PublisherIsSound, OkMeansPushed
<1> QED BY <1>3, <1>5, <1>6 DEF SettingsInv

(* The start.                                                              *)
LEMMA InitSound == Init => SettingsInv
<1> SUFFICES ASSUME Init PROVE SettingsInv
  OBVIOUS
<1>1. ASSUME NEW w \in Window PROVE WindowIsSound(window[w], 0)
  <2>1. window[w] = [step |-> "closed", queue |-> <<>>, done |-> 0, knows |-> None,
                     given |-> 0, stale |-> FALSE]
    BY DEF Init
  <2>2. <<>> \in Seq(Command)
    OBVIOUS
  <2> QED BY <2>1, <2>2 DEF WindowIsSound
<1>2. disk.rev = 0 /\ DOMAIN disk = {"rev", "init", "pins"} /\ applied = <<>> /\ net = {}
      /\ committed = 0 /\ pushed = 0 /\ pub = [pc |-> "watch", seen |-> 0, again |-> TRUE]
      /\ status = "pending" /\ lock = None
  BY DEF Init, Defaults
<1>3. WindowsAreSound
  BY <1>1, <1>2 DEF Init, WindowsAreSound
<1>4. applied \in Seq(ToSet(applied)) /\ DOMAIN applied = {} /\ Len(applied) = 0
  BY <1>2, EmptySeq
<1>5. HistoryIsSound /\ RequestsAreOvertaken
  BY <1>2, <1>4 DEF HistoryIsSound, RequestsAreOvertaken, WindowOrderKept, NoSettingIsLost,
                    Before, Init, Defaults
<1> QED BY <1>2, <1>3, <1>4, <1>5 DEF SettingsInv, TypesAreSound, LockIsSound, PublisherIsSound,
                                      OkMeansPushed

(* SettingsInv is inductive.                                               *)
THEOREM SettingsAreSound == Spec => []SettingsInv
<1>1. ASSUME SettingsInv, UNCHANGED vars PROVE SettingsInv'
  BY <1>1 DEF vars, store, page, git, SettingsInv, TypesAreSound, WindowsAreSound, LockIsSound,
              HistoryIsSound, WindowOrderKept, NoSettingIsLost, Before, RequestsAreOvertaken,
              PublisherIsSound, OkMeansPushed
<1>2. ASSUME SettingsInv, NEW w \in Window, Refresh(w) \/ SendCommand(w) \/ Reread(w) \/ GiveUp(w)
      PROVE  SettingsInv'
  BY <1>2, RefreshStep, SendStep, RereadStep, GiveUpStep
<1>3. SettingsInv /\ [Next]_vars => SettingsInv'
  BY <1>1, <1>2, UserStep, RequestStep, PublisherStep, DieStep DEF Next, Threads
<1> QED BY InitSound, <1>3, PTL DEF Spec

(* GatewayConfigStore.apply: no change that was ever saved is undone by    *)
(* one that did not know of it, whoever else waits for the lock, gives up  *)
(* on it or dies with it.                                                  *)
THEOREM SettingsStay == Spec => []NoSettingIsLost
BY SettingsAreSound, PTL DEF SettingsInv, HistoryIsSound

(* workspace.js repeats a command until it is answered and sends the next  *)
(* one only then; apply compares revisions: what is applied of one window  *)
(* is applied in its order, however late its requests are carried out.     *)
THEOREM OrderIsKept == Spec => []WindowOrderKept
BY SettingsAreSound, PTL DEF SettingsInv, HistoryIsSound

(* GatewayPublisher says "ok" only of what the remote has.                 *)
THEOREM OkIsPushed == Spec => []OkMeansPushed
BY SettingsAreSound, PTL DEF SettingsInv, PublisherIsSound
=============================================================================
