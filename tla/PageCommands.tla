----------------------------- MODULE PageCommands -----------------------------
(***************************************************************************)
(* The page that sends commands over a network that loses, delays and      *)
(* fails (apiPost and acknowledgeSnapshot, the JavaScript of               *)
(* api_endpoint.py), against a service that does what AtomicBoard          *)
(* promises.  One card is edited and commented by the page and by others;  *)
(* an addition makes a card of its own.                                    *)
(*                                                                         *)
(* Revisions and card versions are numbered; 0 is none.                    *)
(***************************************************************************)
EXTENDS Integers

CONSTANTS
  Act,          \* the submissions of this page
  Value,        \* what the card's field can be set to
  None,
  MaxForeign,   \* changes made by others
  MaxReloads

(* The board as it is read, a request, and what the service answers.       *)
Snapshot == [rev : Nat, ver : Nat, val : Value \cup {None}, added : SUBSET Act]
Request  == [act : Act, nth : {1, 2}, rev : Nat, ver : Nat]
Reply    == [what : {"ok", "revision", "refused"}, rev : Nat, ver : Nat]

ASSUME PageAssumption ==
  /\ None \notin Act \cup Value \cup {"add", "comment"} \cup Reply
  /\ Value \cap {"add", "comment"} = {}
  /\ MaxForeign \in Nat /\ MaxReloads \in Nat

VARIABLES
  board,        \* what the service has saved
  landed,       \* how often a submission was executed
  outside,      \* the card version that others made last
  wire, reply,  \* requests on their way; the answer to the one waited for
  back,         \* what the submission that is running has read back
  auth, floor, poll,  \* authoritativeData, revisionFloors, a snapshot in flight
  local,        \* localActions, which earlier puts in their order
  unsure, hidden,     \* those of phase unknown, those no longer projected
  pc, body, ver, pred, doubt, verdict,  \* of a submission
  earlier,      \* those that were in localActions before it
  base,         \* the card version its author saw
  confirmed,    \* its confirmedRevision and confirmedVersion
  foreign, reloads

server == <<board, landed, outside, foreign>>
net    == <<wire, reply, back>>
view   == <<auth, floor>>
tasks  == <<local, unsure, hidden>>
fixed  == <<body, pred, base, earlier>>
vars   == <<server, net, view, poll, tasks, fixed, pc, ver, doubt, verdict, confirmed, reloads>>

Body == Value \cup {"add", "comment"}
Edit(a) == body[a] \in Value
Waiting == {"sent", "resent"}
Reading == {"reread", "final", "confirm"}
Judging == {"judge", "verify"}
Running == Waiting \cup Reading \cup Judging

At(a, step) == pc[a] = step
Goto(a, step) == pc' = [pc EXCEPT ![a] = step]
Say(a, what) == verdict' = [verdict EXCEPT ![a] = what]
NoConfirmation == [rev |-> 0, ver |-> 0]

Init ==
  /\ board = [rev |-> 1, ver |-> 1, val |-> None, added |-> {}]
  /\ landed = [a \in Act |-> 0] /\ outside = 1
  /\ wire = {} /\ reply = None /\ back = None
  /\ auth = board /\ floor = 0 /\ poll = None
  /\ local = {} /\ unsure = {} /\ hidden = {}
  /\ pc = [a \in Act |-> "new"] /\ body = [a \in Act |-> None]
  /\ ver = [a \in Act |-> 0] /\ base = [a \in Act |-> 0]
  /\ pred = [a \in Act |-> None] /\ earlier = [a \in Act |-> {}]
  /\ doubt = [a \in Act |-> FALSE] /\ verdict = [a \in Act |-> "none"]
  /\ confirmed = [a \in Act |-> NoConfirmation]
  /\ foreign = 0 /\ reloads = 0

-----------------------------------------------------------------------------
(* What a snapshot says of the submissions (acknowledgeSnapshot).          *)

(* MUTANT of Acceptable: only what is shown counts, not what is confirmed. *)
AcceptableToView(s) == s.rev >= auth.rev

(* Neither older than what is confirmed nor than what is shown.            *)
Acceptable(s) == s.rev >= floor /\ s.rev >= auth.rev

(* The snapshot holds what the submission asked for.                       *)
Satisfied(s, a) ==
  \/ body[a] = "add" /\ a \in s.added
  \/ Edit(a) /\ s.val = body[a]

(* An unconfirmed edit whose card has moved on.                            *)
Conflicts(s, a) == Edit(a) /\ s.ver # ver[a]

(* Of phase unknown are U, and conf are the confirmations: the snapshot    *)
(* settles these.                                                          *)
Settled(s, U, conf) ==
  {a \in local : \/ conf[a].rev > 0 /\ s.rev >= conf[a].rev
                 \/ a \in U /\ (Satisfied(s, a) \/ Conflicts(s, a))}

(* They are forgotten, as those are that end; an addition that is found    *)
(* closes its form, so that its author knows, and the author of one that   *)
(* ends is told.  The others of phase unknown are no longer projected.     *)
Acknowledge(s, ending) ==
  LET gone == Settled(s, unsure, confirmed) \cup ending
  IN  /\ auth' = s
      /\ local' = local \ gone
      /\ unsure' = unsure \ gone
      /\ hidden' = (hidden \cup unsure) \ gone
      /\ verdict' = [a \in Act |->
           IF a \in ending \/ (a \in gone /\ body[a] = "add") THEN "ok" ELSE verdict[a]]

(* What the page paints over the snapshot (projectActions).                *)
Projected == local \ hidden

Unacknowledged == UNCHANGED <<auth, local, unsure, hidden, verdict>>

(* The poll reads the board now and hears of it later, but never within    *)
(* the synchronous code that judges a read.                                *)
PollRead ==
  /\ poll = None /\ poll' = board
  /\ UNCHANGED <<server, net, view, tasks, fixed, pc, ver, doubt, verdict, confirmed, reloads>>

PollArrives ==
  /\ poll # None /\ poll' = None /\ \A a \in Act : pc[a] \notin Judging
  /\ IF Acceptable(poll) THEN Acknowledge(poll, {}) ELSE Unacknowledged
  /\ UNCHANGED <<server, net, floor, fixed, pc, ver, doubt, confirmed, reloads>>

-----------------------------------------------------------------------------
(* The author.                                                             *)

(* An editor, a drag or a menu keeps the card version it began with.       *)
Open(a) ==
  /\ At(a, "new") /\ \E v \in Value : body' = [body EXCEPT ![a] = v]
  /\ Goto(a, "open")
  /\ base' = [base EXCEPT ![a] = auth.ver]
  /\ UNCHANGED <<server, net, view, poll, tasks, ver, pred, earlier, doubt, verdict, confirmed,
                 reloads>>

OnCard == {b \in local : body[b] # "add"}

(* The action before it on the card: the one that has all the others       *)
(* before it.                                                              *)
Predecessors(b) ==
  IF b = "add" \/ OnCard = {} THEN {None}
                              ELSE {p \in OnCard : OnCard \ {p} \subseteq earlier[p]}

(* describeAction and the reference to the predecessor.                    *)
Enqueue(a, b, v) ==
  /\ body' = [body EXCEPT ![a] = b]
  /\ base' = [base EXCEPT ![a] = v] /\ ver' = [ver EXCEPT ![a] = v]
  /\ \E p \in Predecessors(b) : pred' = [pred EXCEPT ![a] = p]
  /\ local' = local \cup {a} /\ earlier' = [earlier EXCEPT ![a] = local]
  /\ Goto(a, "queued")
  /\ UNCHANGED <<server, net, view, poll, unsure, hidden, doubt, verdict, confirmed, reloads>>

(* MUTANT of Pending: what is unconfirmed may be submitted once more.      *)
PendingForSure(b) == \E a \in local \ unsure : body[a] = b

(* A submission of the same content is still in localActions.              *)
Pending(b) == \E a \in local : body[a] = b

Save(a) ==
  /\ At(a, "open") /\ ~Pending(body[a])
  /\ Enqueue(a, body[a], base[a])

(* A card or a comment is submitted until its author is told of success,   *)
(* or finds it: "Inspect the board before trying again", and what was      *)
(* confirmed is on the board that is shown (ConfirmedStaysVisible).        *)
Submit(a) ==
  /\ At(a, "new")
  /\ \E b \in {"add", "comment"} :
       /\ ~Pending(b)
       /\ \A c \in Act : body[c] = b =>
            verdict[c] \in {"refused", "unknown", "lost"} /\ confirmed[c].rev = 0
       /\ Enqueue(a, b, IF b = "add" THEN 0 ELSE auth.ver)

-----------------------------------------------------------------------------
(* execute: one submission of the board after the other.                   *)

Queued == {a \in local : At(a, "queued")}

Send(a, nth, rev, v) == wire' = wire \cup {[act |-> a, nth |-> nth, rev |-> rev, ver |-> v]}

Forget(a) ==
  /\ local' = local \ {a}
  /\ unsure' = unsure \ {a} /\ hidden' = hidden \ {a}

Refuse(a) == Forget(a) /\ Say(a, "refused") /\ Goto(a, "done")
Doubt(a) == unsure' = unsure \cup {a} /\ Say(a, "unknown") /\ Goto(a, "done")

(* "Our own earlier serialized actions may advance this card."             *)
Current(a) ==
  IF pred[a] # None /\ confirmed[pred[a]].ver # 0 THEN confirmed[pred[a]].ver ELSE ver[a]

Start(a) ==
  /\ a \in Queued /\ Queued \cap earlier[a] = {} /\ \A b \in Act : pc[b] \notin Running
  /\ ver' = [ver EXCEPT ![a] = Current(a)]
  /\ \/ /\ Edit(a) /\ auth.ver # ver'[a]
        /\ Refuse(a) /\ UNCHANGED wire
     \/ /\ ~Edit(a) \/ auth.ver = ver'[a]
        /\ Send(a, 1, auth.rev, ver'[a]) /\ Goto(a, "sent")
        /\ UNCHANGED <<local, unsure, hidden, verdict>>
  /\ UNCHANGED <<server, reply, back, view, poll, fixed, doubt, confirmed, reloads>>

(* The outcome is known; what is read from now on has to reach revision r. *)
(* The form of an addition is closed at once; the author of anything else  *)
(* is told when apiPost returns.                                           *)
Confirm(a, r, v) ==
  /\ confirmed' = [confirmed EXCEPT ![a] = [rev |-> r, ver |-> v]]
  /\ floor' = IF r > floor THEN r ELSE floor
  /\ IF body[a] = "add" THEN Say(a, "ok") ELSE UNCHANGED verdict
  /\ Goto(a, "confirm")

Unconfirmed == UNCHANGED <<confirmed, floor>>

Succeeds(a) ==
  /\ pc[a] \in Waiting /\ reply # None /\ reply.what = "ok" /\ reply' = None
  /\ Confirm(a, reply.rev, reply.ver)
  /\ UNCHANGED <<server, wire, back, auth, poll, tasks, fixed, ver, doubt, reloads>>

(* MUTANT of Refused: a refused repetition settles the submission.         *)
RefusedForGood(a) ==
  /\ pc[a] \in Waiting /\ reply # None /\ reply.what # "ok" /\ reply' = None
  /\ \/ reply.what = "revision" /\ At(a, "sent") /\ Goto(a, "reread")
        /\ UNCHANGED <<tasks, verdict>>
     \/ (reply.what # "revision" \/ At(a, "resent")) /\ Refuse(a)
  /\ UNCHANGED <<server, wire, back, view, poll, fixed, ver, doubt, confirmed, reloads>>

(* A first refusal for the board's revision is looked into; any refusal of *)
(* a repetition says nothing of the first request, if that is in doubt.    *)
Refused(a) ==
  /\ pc[a] \in Waiting /\ reply # None /\ reply.what # "ok" /\ reply' = None
  /\ \/ reply.what = "revision" /\ At(a, "sent") /\ Goto(a, "reread")
        /\ UNCHANGED <<tasks, verdict>>
     \/ (reply.what # "revision" \/ At(a, "resent")) /\ ~doubt[a] /\ Refuse(a)
     \/ At(a, "resent") /\ doubt[a] /\ Goto(a, "final") /\ UNCHANGED <<tasks, verdict>>
  /\ UNCHANGED <<server, wire, back, view, poll, fixed, ver, doubt, confirmed, reloads>>

(* The request or its answer is lost or late, or the service is unsure.    *)
GivesUp(a) ==
  /\ pc[a] \in Waiting /\ reply' = None
  /\ doubt' = [doubt EXCEPT ![a] = TRUE]
  /\ \/ At(a, "sent") /\ Goto(a, "reread") /\ UNCHANGED <<tasks, verdict>>
     \/ At(a, "resent") /\ Doubt(a) /\ UNCHANGED <<local, hidden>>
  /\ UNCHANGED <<server, wire, back, view, poll, fixed, ver, confirmed, reloads>>

(* reread: the board is read, and heard of later; a poll may come between. *)
ReadBack(a) ==
  /\ pc[a] \in Reading /\ back = None /\ back' = board
  /\ UNCHANGED <<server, wire, reply, view, poll, tasks, fixed, pc, ver, doubt, verdict,
                 confirmed, reloads>>

(* What is read back is judged, whether or not it may still be shown.      *)
Reread(a) ==
  /\ pc[a] \in {"reread", "final"} /\ back # None /\ back.rev >= floor
  /\ IF Acceptable(back) THEN Acknowledge(back, {}) ELSE Unacknowledged
  /\ Goto(a, IF At(a, "reread") THEN "judge" ELSE "verify")
  /\ UNCHANGED <<server, net, floor, poll, fixed, ver, doubt, confirmed, reloads>>

(* After a confirmed submission that is all: it is forgotten, and told of. *)
Finish(a) ==
  /\ At(a, "confirm") /\ back # None /\ back.rev >= floor /\ back' = None
  /\ IF Acceptable(back) THEN Acknowledge(back, {a})
                         ELSE Forget(a) /\ Say(a, "ok") /\ UNCHANGED auth
  /\ Goto(a, "done")
  /\ UNCHANGED <<server, wire, reply, floor, poll, fixed, ver, doubt, confirmed, reloads>>

RereadFails(a) ==
  /\ pc[a] \in Reading /\ back' = None
  /\ unsure' = unsure \cup ({a} \cap local) /\ Goto(a, "done")
  /\ Say(a, IF At(a, "confirm") THEN "ok" ELSE "unknown")
  /\ UNCHANGED <<server, wire, reply, view, poll, local, hidden, fixed, ver, doubt, confirmed,
                 reloads>>

Proven(a) == doubt[a] /\ Satisfied(back, a)

(* A repetition is safe: the card is as the author saw it, or not there;   *)
(* what is added to a card is not repeated in doubt.                       *)
Repeatable(a) ==
  \/ body[a] = "add" /\ a \notin back.added
  \/ body[a] # "add" /\ (~doubt[a] \/ Edit(a)) /\ back.ver = ver[a]

(* After a first request that was refused or is in doubt.                  *)
Judge(a) ==
  /\ At(a, "judge") /\ back' = None
  /\ \/ /\ Proven(a) /\ Confirm(a, back.rev, 0)
        /\ UNCHANGED <<wire, tasks>>
     \/ /\ ~Proven(a) /\ Repeatable(a)
        /\ Send(a, 2, back.rev, ver[a]) /\ Goto(a, "resent")
        /\ Unconfirmed /\ UNCHANGED <<tasks, verdict>>
     \/ /\ ~Proven(a) /\ ~Repeatable(a)
        /\ \/ ~doubt[a] /\ Refuse(a)
           \/ doubt[a] /\ body[a] # "comment" /\ Goto(a, "final")
              /\ UNCHANGED <<tasks, verdict>>
           \/ doubt[a] /\ body[a] = "comment" /\ Doubt(a) /\ UNCHANGED <<local, hidden>>
        /\ Unconfirmed /\ UNCHANGED wire
  /\ UNCHANGED <<server, reply, auth, poll, fixed, ver, doubt, reloads>>

(* "One final read may prove the original intent."                         *)
Verify(a) ==
  /\ At(a, "verify") /\ back' = None
  /\ \/ Proven(a) /\ Confirm(a, back.rev, 0) /\ UNCHANGED tasks
     \/ ~Proven(a) /\ Doubt(a) /\ Unconfirmed /\ UNCHANGED <<local, hidden>>
  /\ UNCHANGED <<server, wire, reply, auth, poll, fixed, ver, doubt, reloads>>

(* The document is loaded anew: what was going on is of phase unknown; a   *)
(* confirmation survives if it was stored, which it is at the latest when  *)
(* the read after it has failed.                                           *)
Reload ==
  /\ reloads < MaxReloads /\ reloads' = reloads + 1
  /\ \E stored \in SUBSET local :
       /\ unsure \subseteq stored
       /\ confirmed' = [a \in Act |-> IF a \in local \ stored THEN NoConfirmation
                                                           ELSE confirmed[a]]
  /\ pc' = [a \in Act |-> IF pc[a] \in {"new", "open"} THEN pc[a] ELSE "done"]
  /\ pred' = [a \in Act |-> None]
  /\ reply' = None /\ back' = None /\ poll' = None /\ floor' = 0
  /\ auth' = board
  /\ LET gone == Settled(board, local, confirmed')
     IN  /\ local' = local \ gone
         /\ unsure' = local \ gone /\ hidden' = unsure'
         /\ verdict' = [a \in Act |->
              IF a \in gone /\ body[a] = "add" THEN "ok"
              ELSE IF verdict[a] = "none" /\ pc'[a] = "done" THEN "lost" ELSE verdict[a]]
  /\ UNCHANGED <<server, wire, body, base, earlier, ver, doubt>>

-----------------------------------------------------------------------------
(* The service and the others.                                             *)

(* The page still waits for this request.                                  *)
Wanted(r) == At(r.act, IF r.nth = 1 THEN "sent" ELSE "resent")

Answer(r, what) ==
  /\ wire' = wire \ {r}
  /\ reply' = IF Wanted(r) THEN [what |-> what, rev |-> board'.rev, ver |-> board'.ver] ELSE reply

Matches(r) == r.rev = board.rev /\ r.ver \in {0, board.ver}

(* BoardStore.execute: both versions are compared with the board's.        *)
Execute(r) ==
  /\ Matches(r)
  /\ LET a == r.act
         b == body[a]
     IN  /\ board' = [rev |-> board.rev + 1,
                      ver |-> IF b = "add" THEN board.ver ELSE board.ver + 1,
                      val |-> IF b \in Value THEN b ELSE board.val,
                      added |-> IF b = "add" THEN board.added \cup {a} ELSE board.added]
         /\ landed' = [landed EXCEPT ![a] = @ + 1]
  /\ Answer(r, "ok")
  /\ UNCHANGED <<outside, foreign>>

(* A mismatch, or a command the board does not accept.                     *)
Decline(r) ==
  /\ UNCHANGED server
  /\ Answer(r, IF r.rev = board.rev THEN "refused" ELSE "revision")

(* The gateway's _proxy, or the network, does not get it to the service:   *)
(* the page is answered 502 or 503, or nothing.                            *)
Lose(r) ==
  /\ wire' = wire \ {r}
  /\ UNCHANGED <<server, reply>>

Serve == \E r \in wire :
  /\ Execute(r) \/ Decline(r) \/ Lose(r)
  /\ UNCHANGED <<back, view, poll, tasks, fixed, pc, ver, doubt, verdict, confirmed, reloads>>

(* Others change the card or something else on the board.                  *)
Others ==
  /\ foreign < MaxForeign /\ foreign' = foreign + 1
  /\ \/ /\ board' = [board EXCEPT !.rev = @ + 1]
        /\ UNCHANGED outside
     \/ /\ \E v \in Value \cup {None} :
             board' = [board EXCEPT !.rev = @ + 1, !.ver = @ + 1, !.val = v]
        /\ outside' = board'.ver
  /\ UNCHANGED <<landed, net, view, poll, tasks, fixed, pc, ver, doubt, verdict, confirmed,
                 reloads>>

Next ==
  \/ \E a \in Act : \/ Open(a) \/ Save(a) \/ Submit(a) \/ Start(a)
                     \/ Succeeds(a) \/ Refused(a) \/ GivesUp(a)
                     \/ ReadBack(a) \/ Reread(a) \/ Finish(a) \/ RereadFails(a)
                     \/ Judge(a) \/ Verify(a)
  \/ PollRead \/ PollArrives \/ Reload \/ Serve \/ Others

Spec == Init /\ [][Next]_vars

-----------------------------------------------------------------------------
(* Types.                                                                  *)
TypeOK ==
  /\ {board, auth} \subseteq Snapshot /\ {poll, back} \subseteq Snapshot \cup {None}
  /\ landed \in [Act -> Nat] /\ outside \in Nat /\ floor \in Nat
  /\ wire \subseteq Request /\ reply \in Reply \cup {None}
  /\ local \subseteq Act /\ unsure \subseteq local /\ hidden \subseteq unsure
  /\ pc \in [Act -> Running \cup {"new", "open", "queued", "done"}]
  /\ body \in [Act -> Body \cup {None}] /\ pred \in [Act -> Act \cup {None}]
  /\ earlier \in [Act -> SUBSET Act]
  /\ ver \in [Act -> Nat] /\ base \in [Act -> Nat] /\ doubt \in [Act -> BOOLEAN]
  /\ verdict \in [Act -> {"none", "ok", "refused", "unknown", "lost"}]
  /\ confirmed \in [Act -> [rev : Nat, ver : Nat]]
  /\ foreign \in 0..MaxForeign /\ reloads \in 0..MaxReloads

(* README, "A lost response is not automatically treated as a failed       *)
(* save": what the author is told was refused has not been executed and    *)
(* never will be, and an addition that is said to be saved is on the board *)
(* once.                                                                   *)
VerdictsAreHonest ==
  \A a \in Act : /\ verdict[a] = "refused" => landed[a] = 0
                 /\ verdict[a] = "ok" /\ ~Edit(a) => landed[a] = 1

(* "Uncertain additive or compound actions are not blindly repeated":      *)
(* however often an author who was not told of success, and does not find  *)
(* it on the board, submits the same card or the same comment, reloads     *)
(* included, there is one.                                                 *)
WantedOnce ==
  \A a, c \in Act : landed[a] > 0 /\ landed[c] > 0 /\ body[a] = body[c] /\ ~Edit(a) => a = c

(* "An older response cannot replace newer confirmed data": a submission   *)
(* that was confirmed is part of what the page shows.                      *)
ConfirmedStaysVisible ==
  \A a \in Act : confirmed[a].rev > 0 =>
    auth.rev >= confirmed[a].rev \/ a \in Projected

(* "Our own earlier serialized actions may advance this card; external     *)
(* changes must not": an edit is not executed on a card that others have   *)
(* changed since its author saw it.                                        *)
EditsOverwriteOwnChangesOnly ==
  [][\A a \in Act : Edit(a) /\ landed'[a] > landed[a] => outside <= base[a]]_vars
=============================================================================
