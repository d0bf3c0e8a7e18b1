-------------------------- MODULE PageCommandsProofs --------------------------
(***************************************************************************)
(* What a page tells the author of a command is true, whatever the network *)
(* does to requests and answers and whenever the page is loaded anew; for  *)
(* any number of submissions, changes of others and reloads.               *)
(***************************************************************************)
EXTENDS PageCommands, TLAPS

-----------------------------------------------------------------------------
(* What the provers need of the types.                                     *)
Typed ==
  /\ board \in Snapshot /\ auth \in Snapshot
  /\ poll \in Snapshot \cup {None} /\ back \in Snapshot \cup {None}
  /\ landed \in [Act -> Nat] /\ floor \in Nat
  /\ wire \subseteq Request /\ reply \in Reply \cup {None}
  /\ local \subseteq Act /\ unsure \subseteq local /\ hidden \subseteq unsure
  /\ pc \in [Act -> Running \cup {"new", "open", "queued", "done"}]
  /\ body \in [Act -> Body \cup {None}] /\ pred \in [Act -> Act \cup {None}]
  /\ ver \in [Act -> Nat] /\ base \in [Act -> Nat] /\ doubt \in [Act -> BOOLEAN]
  /\ verdict \in [Act -> {"none", "ok", "refused", "unknown", "lost"}]
  /\ confirmed \in [Act -> [rev : Nat, ver : Nat]]

(* No request of it is on its way.                                         *)
Answered(a) == \A r \in wire : r.act # a

(* A snapshot is the board as it is or was, and both versions only grow.   *)
Past(s) ==
  /\ s.rev \in 1 .. board.rev /\ s.ver \in 1 .. board.ver
  /\ s.added \subseteq board.added
  /\ s.rev = board.rev => s = board

(* Nothing the page has heard of is newer than the board.                  *)
NothingIsAhead ==
  /\ Past(board) /\ Past(auth) /\ (poll # None => Past(poll))
  /\ floor <= board.rev
  /\ \A a \in Act : confirmed[a].rev <= auth.rev \/ confirmed[a].rev <= floor

(* What was read back is the board as it is or was, and it is there for as *)
(* long as it is judged.                                                   *)
ReadBackIsPast ==
  /\ back # None => Past(back)
  /\ \A a \in Act : pc[a] \in Judging => back # None

(* The board keeps what landed: additions by name, everything else by the  *)
(* version of the card.                                                    *)
LandingsShow ==
  \A a \in Act :
    /\ landed[a] \in {0, 1}
    /\ a \in board.added <=> body[a] = "add" /\ landed[a] = 1
    /\ landed[a] = 1 /\ body[a] # "add" => board.ver > ver[a]

(* A request names what its author knew; of what has landed it is too old  *)
(* to land again.                                                          *)
RequestsAreBound ==
  \A r \in wire :
    /\ r.rev <= board.rev /\ r.ver = ver[r.act]
    /\ pc[r.act] \notin {"new", "open", "queued"}
    /\ r.nth = 2 => pc[r.act] \notin {"sent", "reread", "judge"}
    /\ landed[r.act] = 1 => r.rev < board.rev
    /\ \A q \in wire : q.act = r.act /\ q.nth = r.nth => q = r

(* An answer is the one that the running submission waits for.             *)
AnswersAreAwaited ==
  /\ \A a, b \in Act : pc[a] \in Running /\ pc[b] \in Running => a = b
  /\ reply # None =>
       /\ reply.rev \in 1 .. board.rev
       /\ \E a \in Act : pc[a] \in Waiting
       /\ \A r \in wire : ~Wanted(r)

(* What is known of a submission at each of its steps.                     *)
Unsubmitted(a) ==
  /\ a \notin local /\ landed[a] = 0 /\ ~doubt[a] /\ verdict[a] = "none"
  /\ confirmed[a].rev = 0
  /\ body[a] \in IF At(a, "new") THEN {None} ELSE Value
  /\ At(a, "open") => base[a] > 0

UnderWay(a) ==
  /\ a \in local \ unsure /\ verdict[a] = "none" /\ confirmed[a].rev = 0
  /\ pc[a] \in {"queued", "sent"} => ~doubt[a]
  /\ pc[a] \in {"final", "verify"} => doubt[a]
  /\ At(a, "queued") => landed[a] = 0

(* Without a doubt, the request answered last is the only one there was.   *)
Undoubted(a) ==
  ~doubt[a] =>
    /\ pc[a] \in Waiting /\ reply = None =>
         landed[a] = 0 /\ \A r \in wire : r.act = a => Wanted(r)
    /\ pc[a] \in {"reread", "judge"} => landed[a] = 0 /\ Answered(a)
    /\ pc[a] \in Waiting /\ reply # None /\ reply.what # "ok" => landed[a] = 0 /\ Answered(a)

Informed(a) ==
  /\ At(a, "confirm") =>
       /\ confirmed[a].rev > 0 /\ a \notin unsure
       /\ a \in local \/ confirmed[a].rev <= auth.rev
  /\ At(a, "done") => verdict[a] # "none"
  /\ confirmed[a].rev > 0 => body[a] \in Value \/ landed[a] = 1
  /\ pc[a] \in Waiting /\ reply # None /\ reply.what = "ok" => landed[a] = 1
  /\ verdict[a] = "ok" => body[a] \in Value \/ landed[a] = 1
  /\ verdict[a] = "refused" =>
       At(a, "done") /\ a \notin local /\ landed[a] = 0 /\ Answered(a)
  /\ verdict[a] \in {"unknown", "lost"} =>
       body[a] \in Value \/ a \in local \/ confirmed[a].rev > 0

StepsAreSound ==
  \A a \in Act :
    /\ pc[a] \in {"new", "open"} => Unsubmitted(a)
    /\ pc[a] \notin {"new", "open"} => body[a] \in Body /\ (ver[a] = 0 <=> body[a] = "add")
    /\ pred[a] # None => body[a] # "add"
    /\ pc[a] \in ({"queued"} \cup Running) \ {"confirm"} => UnderWay(a)
    /\ a \in unsure => At(a, "done")
    /\ Undoubted(a) /\ Informed(a)

(* Of two submissions of one card or comment, one was refused.             *)
OneIsWanted ==
  \A a, c \in Act :
    a # c /\ body[a] = body[c] /\ body[a] \in {"add", "comment"} =>
      "refused" \in {verdict[a], verdict[c]}

PageInv ==
  /\ Typed /\ NothingIsAhead /\ ReadBackIsPast /\ LandingsShow /\ RequestsAreBound
  /\ AnswersAreAwaited /\ StepsAreSound /\ OneIsWanted /\ ConfirmedStaysVisible

USE DEF At, Goto, Say, Edit, Waiting, Reading, Judging, Running

(* Whoever is acknowledged, the types stay.                                *)
LEMMA AcknowledgeTyped ==
  ASSUME Typed, NEW s \in Snapshot, NEW ending \in SUBSET Act, Acknowledge(s, ending)
  PROVE  /\ auth' \in Snapshot
         /\ local' \subseteq Act /\ unsure' \subseteq local' /\ hidden' \subseteq unsure'
         /\ verdict' \in [Act -> {"none", "ok", "refused", "unknown", "lost"}]
  BY DEF Typed, Acknowledge, Settled

LEMMA RefuseTyped ==
  ASSUME Typed, NEW a \in Act, Refuse(a)
  PROVE  /\ local' \subseteq Act /\ unsure' \subseteq local' /\ hidden' \subseteq unsure'
         /\ verdict' \in [Act -> {"none", "ok", "refused", "unknown", "lost"}]
         /\ pc' \in [Act -> Running \cup {"new", "open", "queued", "done"}]
  BY DEF Typed, Refuse, Forget

(* Every step of the page keeps the types.                                 *)
LEMMA AuthorTyped ==
  ASSUME Typed, NEW a \in Act, Open(a) \/ Save(a) \/ Submit(a)
  PROVE  Typed'
<1> USE DEF server, net, view, tasks, fixed
<1>1. CASE Open(a)
  BY <1>1 DEF Typed, Open, Snapshot, Body
<1>2. ASSUME NEW b \in Body \cup {None}, NEW v \in Nat, Enqueue(a, b, v)
     PROVE Typed'
  <2>1. Predecessors(b) \subseteq Act \cup {None}
    BY DEF Predecessors, OnCard, Typed
  <2>2. local' \subseteq Act /\ unsure' \subseteq local' /\ hidden' \subseteq unsure'
    BY <1>2 DEF Enqueue, Typed
  <2> QED BY <1>2, <2>1, <2>2 DEF Enqueue, Typed
<1>3. CASE Save(a)
  BY <1>2, <1>3 DEF Save, Typed
<1>4. CASE Submit(a)
  <2>1. PICK b \in {"add", "comment"} : Enqueue(a, b, IF b = "add" THEN 0 ELSE auth.ver)
    BY <1>4 DEF Submit
  <2>2. b \in Body /\ (IF b = "add" THEN 0 ELSE auth.ver) \in Nat
    BY <2>1 DEF Body, Typed, Snapshot
  <2> QED BY <1>2, <2>1, <2>2
<1> QED BY <1>1, <1>3, <1>4

LEMMA QueueTyped ==
  ASSUME Typed, StepsAreSound, ReadBackIsPast, NEW a \in Act,
         Start(a) \/ Succeeds(a) \/ Refused(a) \/ GivesUp(a) \/ ReadBack(a) \/ Reread(a)
           \/ Finish(a) \/ RereadFails(a) \/ Judge(a) \/ Verify(a)
  PROVE  Typed'
<1> USE DEF server, net, view, tasks, fixed
<1>0. pc[a] \in Running \ {"confirm"} => a \in local
  BY DEF StepsAreSound, UnderWay
<1>1. CASE Start(a)
  <2>1. Current(a) \in Nat
    BY DEF Current, Typed
  <2>2. ver' \in [Act -> Nat] /\ ver'[a] \in Nat
    BY <1>1, <2>1 DEF Start, Typed
  <2>3. CASE Refuse(a) /\ UNCHANGED wire
    BY <1>1, <2>2, <2>3, RefuseTyped DEF Start, Typed
  <2>4. CASE Send(a, 1, auth.rev, ver'[a]) /\ Goto(a, "sent")
               /\ UNCHANGED <<local, unsure, hidden, verdict>>
    <3>1. wire' \subseteq Request
      BY <2>2, <2>4 DEF Send, Request, Typed, Snapshot
    <3> QED BY <1>1, <2>2, <2>4, <3>1 DEF Start, Typed
  <2> QED BY <1>1, <2>3, <2>4 DEF Start
<1>2. ASSUME NEW n \in Nat, NEW v \in Nat, Confirm(a, n, v)
      PROVE  /\ confirmed' \in [Act -> [rev : Nat, ver : Nat]] /\ floor' \in Nat
             /\ verdict' \in [Act -> {"none", "ok", "refused", "unknown", "lost"}]
             /\ pc' \in [Act -> Running \cup {"new", "open", "queued", "done"}]
  BY <1>2 DEF Confirm, Typed
<1>3. CASE Succeeds(a)
  <2>1. reply.rev \in Nat /\ reply.ver \in Nat
    BY <1>3 DEF Succeeds, Typed, Reply
  <2> QED BY <1>2, <1>3, <2>1 DEF Succeeds, Typed
<1>4. CASE Refused(a)
  <2>1. CASE Refuse(a)
    BY <1>4, <2>1, RefuseTyped DEF Refused, Typed
  <2>2. CASE UNCHANGED <<tasks, verdict>> /\ (Goto(a, "reread") \/ Goto(a, "final"))
    BY <1>4, <2>2 DEF Refused, Typed
  <2> QED BY <1>4, <2>1, <2>2 DEF Refused
<1>5. CASE GivesUp(a)
  <2>1. CASE Goto(a, "reread") /\ UNCHANGED <<tasks, verdict>>
    BY <1>5, <2>1 DEF GivesUp, Typed
  <2>2. CASE Doubt(a) /\ UNCHANGED <<local, hidden>>
    BY <1>0, <1>5, <2>2 DEF GivesUp, Doubt, Typed
  <2> QED BY <1>5, <2>1, <2>2 DEF GivesUp
<1>6. CASE Reread(a)
  <2>1. pc' \in [Act -> Running \cup {"new", "open", "queued", "done"}]
    BY <1>6 DEF Reread, Typed
  <2>2. CASE Acknowledge(back, {})
    <3>1. back \in Snapshot /\ {} \in SUBSET Act
      BY <1>6 DEF Reread, Typed
    <3> QED BY <1>6, <2>1, <2>2, <3>1, AcknowledgeTyped DEF Reread, Typed
  <2>3. CASE Unacknowledged
    BY <1>6, <2>1, <2>3 DEF Reread, Unacknowledged, Typed
  <2> QED BY <1>6, <2>2, <2>3 DEF Reread
<1>11. CASE Finish(a)
  <2>1. pc' \in [Act -> Running \cup {"new", "open", "queued", "done"}] /\ back' = None
    BY <1>11 DEF Finish, Typed
  <2>2. CASE Acknowledge(back, {a})
    <3>1. back \in Snapshot /\ {a} \in SUBSET Act
      BY <1>11 DEF Finish, Typed
    <3> QED BY <1>11, <2>1, <2>2, <3>1, AcknowledgeTyped DEF Finish, Typed
  <2>3. CASE Forget(a) /\ Say(a, "ok") /\ UNCHANGED auth
    BY <1>11, <2>1, <2>3 DEF Finish, Forget, Typed
  <2> QED BY <1>11, <2>2, <2>3 DEF Finish
<1>12. CASE ReadBack(a)
  BY <1>12 DEF ReadBack, Typed
<1>7. CASE RereadFails(a)
  BY <1>7 DEF RereadFails, Typed
<1>8. ASSUME Doubt(a), a \in local, UNCHANGED <<local, hidden>>
      PROVE  /\ local' \subseteq Act /\ unsure' \subseteq local' /\ hidden' \subseteq unsure'
             /\ verdict' \in [Act -> {"none", "ok", "refused", "unknown", "lost"}]
             /\ pc' \in [Act -> Running \cup {"new", "open", "queued", "done"}]
  BY <1>8 DEF Doubt, Typed
<1>13. pc[a] \in Judging => back # None
  BY DEF ReadBackIsPast
<1>9. CASE Judge(a)
  <2>1. back.rev \in Nat /\ 0 \in Nat /\ ver[a] \in Nat
    BY <1>9, <1>13 DEF Judge, Typed, Snapshot
  <2>2. CASE Confirm(a, back.rev, 0) /\ UNCHANGED <<wire, tasks>>
    BY <1>2, <1>9, <2>1, <2>2 DEF Judge, Typed
  <2>3. CASE Send(a, 2, back.rev, ver[a]) /\ Goto(a, "resent")
               /\ Unconfirmed /\ UNCHANGED <<tasks, verdict>>
    <3>1. wire' \subseteq Request
      BY <2>1, <2>3 DEF Send, Request, Typed
    <3> QED BY <1>9, <2>3, <3>1 DEF Judge, Unconfirmed, Typed
  <2>4. CASE Unconfirmed /\ UNCHANGED wire /\ Refuse(a)
    BY <1>9, <2>4, RefuseTyped DEF Judge, Unconfirmed, Typed
  <2>5. CASE Unconfirmed /\ UNCHANGED wire /\ Goto(a, "final") /\ UNCHANGED <<tasks, verdict>>
    BY <1>9, <2>5 DEF Judge, Unconfirmed, Typed
  <2>6. CASE Unconfirmed /\ UNCHANGED wire /\ Doubt(a) /\ UNCHANGED <<local, hidden>>
    BY <1>0, <1>8, <1>9, <2>6 DEF Judge, Unconfirmed, Typed
  <2> QED BY <1>9, <2>2, <2>3, <2>4, <2>5, <2>6 DEF Judge
<1>10. CASE Verify(a)
  <2>1. back.rev \in Nat /\ 0 \in Nat
    BY <1>10, <1>13 DEF Verify, Typed, Snapshot
  <2>2. CASE Confirm(a, back.rev, 0) /\ UNCHANGED tasks
    BY <1>2, <1>10, <2>1, <2>2 DEF Verify, Typed
  <2>3. CASE Doubt(a) /\ Unconfirmed /\ UNCHANGED <<local, hidden>>
    BY <1>0, <1>8, <1>10, <2>3 DEF Verify, Unconfirmed, Typed
  <2> QED BY <1>10, <2>2, <2>3 DEF Verify
<1> QED BY <1>1, <1>3, <1>4, <1>5, <1>6, <1>7, <1>9, <1>10, <1>11, <1>12

LEMMA WorldTyped ==
  ASSUME Typed, PollRead \/ PollArrives \/ Reload \/ Serve \/ Others
  PROVE  Typed'
<1> USE DEF server, net, view, tasks, fixed
<1>1. CASE PollRead
  BY <1>1 DEF PollRead, Typed
<1>2. CASE PollArrives
  <2>1. poll' = None /\ poll \in Snapshot
    BY <1>2 DEF PollArrives, Typed
  <2>2. CASE Acknowledge(poll, {})
    <3>1. {} \in SUBSET Act
      OBVIOUS
    <3> QED BY <1>2, <2>1, <2>2, <3>1, AcknowledgeTyped DEF PollArrives, Typed
  <2>3. CASE Unacknowledged
    BY <1>2, <2>1, <2>3 DEF PollArrives, Unacknowledged, Typed
  <2> QED BY <1>2, <2>2, <2>3 DEF PollArrives
<1>3. CASE Reload
  <2>1. confirmed' \in [Act -> [rev : Nat, ver : Nat]]
    BY <1>3 DEF Reload, NoConfirmation, Typed
  <2>2. pc' \in [Act -> Running \cup {"new", "open", "queued", "done"}]
    BY <1>3 DEF Reload, Typed
  <2>3. local' \subseteq Act /\ unsure' \subseteq local' /\ hidden' \subseteq unsure'
    BY <1>3 DEF Reload, Typed
  <2>4. verdict' \in [Act -> {"none", "ok", "refused", "unknown", "lost"}]
    BY <1>3 DEF Reload, Typed
  <2>5. /\ UNCHANGED <<server, wire, body, base, ver, doubt>>
        /\ auth' = board /\ poll' = None /\ reply' = None /\ back' = None /\ floor' = 0
        /\ pred' = [a \in Act |-> None]
    BY <1>3 DEF Reload
  <2> QED BY <2>1, <2>2, <2>3, <2>4, <2>5 DEF Typed
<1>4. CASE Serve
  <2>1. PICK r \in wire : Execute(r) \/ Decline(r) \/ Lose(r)
    BY <1>4 DEF Serve
  <2>2. UNCHANGED <<back, view, poll, tasks, fixed, pc, ver, doubt, verdict, confirmed>>
    BY <1>4 DEF Serve
  <2>3. CASE Execute(r)
    <3>1. board' \in Snapshot
      BY <2>1, <2>3 DEF Execute, Typed, Snapshot, Request
    <3>2. landed' \in [Act -> Nat] /\ wire' \subseteq Request
      BY <2>1, <2>3 DEF Execute, Answer, Typed, Request
    <3>3. reply' \in Reply \cup {None}
      BY <2>1, <2>3, <3>1 DEF Execute, Answer, Typed, Reply, Snapshot
    <3> QED BY <2>2, <3>1, <3>2, <3>3 DEF Typed
  <2>4. CASE Decline(r)
    <3>1. (IF r.rev = board.rev THEN "refused" ELSE "revision") \in {"refused", "revision"}
      OBVIOUS
    <3>2. wire' \subseteq Request /\ reply' \in Reply \cup {None} /\ UNCHANGED server
      BY <2>4, <3>1 DEF Decline, Answer, Typed, Reply, Snapshot
    <3> QED BY <2>2, <3>2 DEF Typed
  <2>5. CASE Lose(r)
    BY <2>2, <2>5 DEF Lose, Typed
  <2> QED BY <2>1, <2>3, <2>4, <2>5
<1>5. CASE Others
  <2>1. board' \in Snapshot
    <3>1. board.rev \in Nat /\ board.ver \in Nat /\ board.val \in Value \cup {None}
          /\ board.added \subseteq Act
      BY DEF Typed, Snapshot
    <3>2. CASE board' = [board EXCEPT !.rev = @ + 1]
      <4>1. /\ board'.rev = board.rev + 1 /\ board'.ver = board.ver
            /\ board'.val = board.val /\ board'.added = board.added
        BY <3>2 DEF Typed, Snapshot
      <4>2. board' = [rev |-> board'.rev, ver |-> board'.ver,
                      val |-> board'.val, added |-> board'.added]
        BY <3>2 DEF Typed, Snapshot
      <4> QED BY <3>1, <4>1, <4>2 DEF Snapshot
    <3>3. ASSUME NEW v \in Value \cup {None},
                 board' = [board EXCEPT !.rev = @ + 1, !.ver = @ + 1, !.val = v]
          PROVE  board' \in Snapshot
      <4>1. /\ board'.rev = board.rev + 1 /\ board'.ver = board.ver + 1
            /\ board'.val = v /\ board'.added = board.added
        BY <3>3 DEF Typed, Snapshot
      <4>2. board' = [rev |-> board'.rev, ver |-> board'.ver,
                      val |-> board'.val, added |-> board'.added]
        BY <3>3 DEF Typed, Snapshot
      <4> QED BY <3>1, <4>1, <4>2 DEF Snapshot
    <3> QED BY <1>5, <3>2, <3>3 DEF Others
  <2> QED BY <1>5, <2>1 DEF Others, Typed
<1> QED BY <1>1, <1>2, <1>3, <1>4, <1>5

LEMMA TypedStep == ASSUME Typed, StepsAreSound, ReadBackIsPast, [Next]_vars PROVE Typed'
<1>1. CASE UNCHANGED vars
  BY <1>1 DEF vars, server, net, view, tasks, fixed, Typed
<1> QED BY <1>1, AuthorTyped, QueueTyped, WorldTyped DEF Next

-----------------------------------------------------------------------------
(* The service: a request that is carried out is the first of its          *)
(* submission to be, and one that is answered is the one waited for.       *)
LEMMA OneIsAwaited ==
  ASSUME Typed, AnswersAreAwaited, RequestsAreBound, NEW r \in wire, NEW q \in wire,
         Wanted(r), Wanted(q)
  PROVE  q = r
<1>1. r.act \in Act /\ q.act \in Act /\ r.nth \in {1, 2} /\ q.nth \in {1, 2}
  BY DEF Typed, Request
<1>2. pc[r.act] \in Running /\ pc[q.act] \in Running
  BY DEF Wanted
<1>3. r.act = q.act
  BY <1>1, <1>2 DEF AnswersAreAwaited
<1>4. r.nth = q.nth
  BY <1>1, <1>3 DEF Wanted
<1> QED BY <1>3, <1>4 DEF RequestsAreBound

(* After an answer that was waited for, no other one is.                   *)
LEMMA AnswerKeeps ==
  ASSUME PageInv, NEW r \in wire, NEW what, Answer(r, what), UNCHANGED pc,
         board'.rev \in Nat, board'.rev >= board.rev
  PROVE  AnswersAreAwaited'
<1>1. \A q \in wire' : q \in wire /\ q # r
  BY DEF Answer
<1>2. CASE Wanted(r)
  <2>1. reply' = [what |-> what, rev |-> board'.rev, ver |-> board'.ver]
    BY <1>2 DEF Answer
  <2>2. board.rev > 0 /\ board.rev \in Nat
    BY DEF PageInv, NothingIsAhead, Past, Typed, Snapshot
  <2>3. reply'.rev \in 1 .. board'.rev
    BY <2>1, <2>2
  <2>4. r.act \in Act /\ pc[r.act] \in Waiting
    BY <1>2 DEF PageInv, Typed, Request, Wanted
  <2>5. \A q \in wire' : ~Wanted(q)
    BY <1>1, <1>2, OneIsAwaited DEF PageInv
  <2>6. \A q : Wanted(q)' <=> Wanted(q)
    BY DEF Wanted
  <2> QED BY <2>3, <2>4, <2>5, <2>6 DEF PageInv, AnswersAreAwaited
<1>3. CASE ~Wanted(r)
  <2>1. reply' = reply
    BY <1>3 DEF Answer
  <2>2. \A q : Wanted(q)' <=> Wanted(q)
    BY DEF Wanted
  <2>3. reply # None => reply.rev \in 1 .. board'.rev
    BY DEF PageInv, AnswersAreAwaited, Typed, Reply, Snapshot
  <2> QED BY <1>1, <2>1, <2>2, <2>3 DEF PageInv, AnswersAreAwaited
<1> QED BY <1>2, <1>3

LEMMA ExecuteKeeps ==
  ASSUME PageInv, NEW r \in wire, Execute(r),
         UNCHANGED <<view, poll, tasks, fixed, pc, ver, doubt, verdict, confirmed>>
  PROVE  /\ NothingIsAhead' /\ LandingsShow' /\ RequestsAreBound' /\ AnswersAreAwaited'
         /\ StepsAreSound' /\ OneIsWanted' /\ ConfirmedStaysVisible'
<1> DEFINE a == r.act
<1>1. /\ a \in Act /\ r \in Request /\ r.nth \in {1, 2} /\ r.rev = board.rev
      /\ r.ver \in {0, board.ver} /\ r.ver = ver[a]
      /\ pc[a] \notin {"new", "open", "queued"} /\ body[a] \in Body
      /\ (ver[a] = 0 <=> body[a] = "add")
  BY DEF PageInv, Typed, Request, Execute, Matches, RequestsAreBound, StepsAreSound
<1>2. landed[a] = 0 /\ landed' = [landed EXCEPT ![a] = 1]
  <2>1. landed[a] = 0
    BY <1>1 DEF PageInv, Typed, Request, RequestsAreBound, LandingsShow, Snapshot
  <2> QED BY <1>1, <2>1 DEF Execute, PageInv, Typed
<1>3. /\ board.rev \in Nat /\ board.ver \in Nat
      /\ board'.rev = board.rev + 1
      /\ board'.ver = IF body[a] = "add" THEN board.ver ELSE board.ver + 1
      /\ board'.added = IF body[a] = "add" THEN board.added \cup {a} ELSE board.added
  BY DEF PageInv, Typed, Snapshot, Execute
<1>4. /\ UNCHANGED <<auth, floor, poll, local, unsure, hidden, body, pred, base, pc, ver, doubt,
                     verdict, confirmed>>
      /\ wire' = wire \ {r}
      /\ reply' = IF Wanted(r) THEN [what |-> "ok", rev |-> board'.rev, ver |-> board'.ver]
                               ELSE reply
  BY DEF Execute, Answer, view, tasks, fixed
<1> HIDE DEF a
<1>5. NothingIsAhead'
  BY <1>3, <1>4 DEF PageInv, NothingIsAhead, Past, Typed, Snapshot
<1>6. LandingsShow'
  <2>1. ASSUME NEW b \in Act, b # a
        PROVE  /\ landed'[b] = landed[b] /\ (b \in board'.added <=> b \in board.added)
               /\ board'.ver >= board.ver
    BY <1>2, <1>3, <2>1 DEF PageInv, Typed
  <2>2. board.ver > ver[a] \/ body[a] = "add" \/ (ver[a] = board.ver /\ board'.ver = board.ver + 1)
    BY <1>1, <1>3
  <2>3. landed'[a] = 1 /\ (a \in board'.added <=> body[a] = "add" \/ a \in board.added)
    BY <1>1, <1>2, <1>3 DEF PageInv, Typed
  <2> QED BY <1>1, <1>2, <1>3, <1>4, <2>1, <2>2, <2>3 DEF PageInv, Typed, LandingsShow
<1>7. RequestsAreBound'
  BY <1>3, <1>4 DEF PageInv, RequestsAreBound, Typed, Request
<1>8. AnswersAreAwaited'
  BY <1>3, <1>4, AnswerKeeps DEF Execute
<1>9. StepsAreSound'
  <2> SUFFICES ASSUME NEW b \in Act
               PROVE  /\ pc[b] \in {"new", "open"} => Unsubmitted(b)'
                      /\ pc[b] \in ({"queued"} \cup Running) \ {"confirm"} => UnderWay(b)'
                      /\ Undoubted(b)' /\ Informed(b)'
    BY <1>4 DEF PageInv, StepsAreSound
  <2>1. /\ b # a => landed'[b] = landed[b]
        /\ \A q : Wanted(q)' <=> Wanted(q)
        /\ Answered(b) => Answered(b)' /\ b # a
        /\ UNCHANGED <<auth, local, unsure, body, base, pred, pc, ver, doubt, verdict, confirmed>>
    BY <1>1, <1>2, <1>4 DEF PageInv, Typed, Wanted, Answered, a
  <2>2. pc[b] \in {"new", "open"} => Unsubmitted(b)'
    BY <1>1, <1>4, <2>1 DEF PageInv, StepsAreSound, Unsubmitted
  <2>3. pc[b] \in ({"queued"} \cup Running) \ {"confirm"} => UnderWay(b)'
    BY <1>1, <1>4, <2>1 DEF PageInv, StepsAreSound, UnderWay
  <2>4. CASE b # a
    <3>1. Undoubted(b) /\ Informed(b)
      BY DEF PageInv, StepsAreSound
    <3>2. pc[b] \in Waiting => reply' = reply
      BY <1>1, <1>4, <2>4 DEF PageInv, AnswersAreAwaited, Wanted, a
    <3>3. Undoubted(b)'
      BY <1>4, <2>1, <2>4, <3>1, <3>2 DEF Undoubted
    <3>4. Informed(b)'
      BY <1>4, <2>1, <2>4, <3>1, <3>2 DEF Informed
    <3> QED BY <2>2, <2>3, <3>3, <3>4
  <2>5. CASE b = a
    <3>1. landed'[a] = 1 /\ ~Answered(a)
      BY <1>1, <1>2 DEF PageInv, Typed, Answered, a
    <3>2. Undoubted(a) /\ Informed(a)
      BY <1>1 DEF PageInv, StepsAreSound
    <3>3. ~doubt[a] => pc[a] \notin {"reread", "judge"} /\ (pc[a] \in Waiting => Wanted(r))
      BY <1>2, <3>1, <3>2 DEF Undoubted, a, PageInv, Informed, Typed, Reply
    <3>4. Undoubted(a)'
      BY <1>3, <1>4, <3>3, PageAssumption
         DEF Undoubted, Reply, PageAssumption, PageInv, Typed, Snapshot
    <3>5. Informed(a)'
      BY <1>4, <3>1, <3>2 DEF Informed
    <3> QED BY <2>2, <2>3, <2>5, <3>4, <3>5
  <2> QED BY <2>4, <2>5
<1>10. OneIsWanted' /\ ConfirmedStaysVisible'
  BY <1>4 DEF PageInv, OneIsWanted, ConfirmedStaysVisible, Projected
<1> QED BY <1>5, <1>6, <1>7, <1>8, <1>9, <1>10

LEMMA DeclineKeeps ==
  ASSUME PageInv, NEW r \in wire, Decline(r) \/ Lose(r),
         UNCHANGED <<view, poll, tasks, fixed, pc, ver, doubt, verdict, confirmed>>
  PROVE  /\ NothingIsAhead' /\ LandingsShow' /\ RequestsAreBound' /\ AnswersAreAwaited'
         /\ StepsAreSound' /\ OneIsWanted' /\ ConfirmedStaysVisible'
<1>1. r.act \in Act /\ r \in Request
  BY DEF PageInv, Typed, Request
<1>2. /\ UNCHANGED <<board, landed, auth, floor, poll, local, unsure, hidden, body, pred, base, pc,
                     ver, doubt, verdict, confirmed>>
      /\ wire' = wire \ {r}
  BY DEF Decline, Lose, Answer, server, view, tasks, fixed
<1>3. \/ reply' = reply
      \/ /\ Wanted(r) /\ reply'.what \in {"refused", "revision"}
         /\ reply' = [what |-> reply'.what, rev |-> board.rev, ver |-> board.ver]
  <2>1. (IF r.rev = board.rev THEN "refused" ELSE "revision") \in {"refused", "revision"}
    OBVIOUS
  <2> QED BY <1>2, <2>1 DEF Decline, Lose, Answer
<1>4. /\ NothingIsAhead' /\ LandingsShow' /\ OneIsWanted' /\ ConfirmedStaysVisible'
  BY <1>2 DEF PageInv, NothingIsAhead, Past, LandingsShow, OneIsWanted, ConfirmedStaysVisible,
              Projected
<1>5. RequestsAreBound'
  BY <1>2 DEF PageInv, RequestsAreBound
<1>6. AnswersAreAwaited'
  <2>1. CASE Decline(r)
    <3>1. board'.rev = board.rev /\ board.rev \in Nat
      BY <1>2 DEF PageInv, Typed, Snapshot
    <3> QED BY <1>2, <2>1, <3>1, AnswerKeeps DEF Decline
  <2>2. CASE Lose(r)
    <3>1. \A q : Wanted(q)' <=> Wanted(q)
      BY <1>2 DEF Wanted
    <3> QED BY <1>2, <2>2, <3>1 DEF Lose, PageInv, AnswersAreAwaited
  <2> QED BY <2>1, <2>2
<1>7. StepsAreSound'
  <2> SUFFICES ASSUME NEW b \in Act  PROVE Undoubted(b)' /\ Informed(b)'
    BY <1>2 DEF PageInv, StepsAreSound, Unsubmitted, UnderWay
  <2>1. /\ \A q : Wanted(q)' <=> Wanted(q)
        /\ Answered(b) => Answered(b)'
        /\ UNCHANGED <<landed, auth, local, unsure, body, pc, doubt, verdict, confirmed>>
    BY <1>2 DEF Wanted, Answered
  <2>2. Undoubted(b) /\ Informed(b)
    BY DEF PageInv, StepsAreSound
  <2>3. CASE reply' = reply
    <3>1. Undoubted(b)'
      BY <1>2, <2>1, <2>2, <2>3 DEF Undoubted
    <3>2. Informed(b)'
      BY <1>2, <2>1, <2>2, <2>3 DEF Informed
    <3> QED BY <3>1, <3>2
  <2>4. CASE reply' # reply
    <3>1. Wanted(r) /\ reply'.what \notin {"ok"} /\ pc[r.act] \in Waiting
      BY <1>3, <2>4 DEF Wanted
    <3>2. reply = None
      BY <3>1 DEF PageInv, AnswersAreAwaited
    <3>3. ASSUME pc[b] \in Waiting, ~doubt[b] PROVE landed[b] = 0 /\ Answered(b)'
      <4>1. landed[b] = 0 /\ \A q \in wire : q.act = b => Wanted(q)
        BY <2>2, <3>2, <3>3 DEF Undoubted
      <4>2. \A q \in wire : q.act = b => q = r
        BY <3>1, <4>1, OneIsAwaited DEF PageInv
      <4> QED BY <1>2, <4>1, <4>2 DEF Answered
    <3>4. pc[b] \in Waiting => reply' # None
      BY <1>3, <2>4, <3>2
    <3>5. Undoubted(b)'
      BY <1>2, <2>1, <2>2, <3>3, <3>4 DEF Undoubted
    <3>6. Informed(b)'
      BY <1>2, <2>1, <2>2, <3>1 DEF Informed
    <3> QED BY <3>5, <3>6
  <2> QED BY <2>3, <2>4
<1> QED BY <1>4, <1>5, <1>6, <1>7

(* Others only make the board newer.                                       *)
LEMMA OthersKeep ==
  ASSUME PageInv, Others
  PROVE  /\ NothingIsAhead' /\ LandingsShow' /\ RequestsAreBound' /\ AnswersAreAwaited'
         /\ StepsAreSound' /\ OneIsWanted' /\ ConfirmedStaysVisible'
<1>1. /\ board.rev \in Nat /\ board.ver \in Nat
      /\ board'.rev = board.rev + 1 /\ board'.ver \in {board.ver, board.ver + 1}
      /\ board'.added = board.added
  BY DEF Others, PageInv, Typed, Snapshot
<1>2. UNCHANGED <<landed, wire, reply, auth, floor, poll, local, unsure, hidden, body, pred, base,
                  pc, ver, doubt, verdict, confirmed>>
  BY DEF Others, net, view, tasks, fixed
<1>3. NothingIsAhead'
  BY <1>1, <1>2 DEF PageInv, NothingIsAhead, Past, Typed, Snapshot
<1>4. LandingsShow'
  BY <1>1, <1>2 DEF PageInv, LandingsShow, Typed
<1>5. RequestsAreBound'
  BY <1>1, <1>2 DEF PageInv, RequestsAreBound, Typed, Request
<1>6. AnswersAreAwaited'
  BY <1>1, <1>2 DEF PageInv, AnswersAreAwaited, Typed, Reply, Wanted
<1>7. StepsAreSound' /\ OneIsWanted' /\ ConfirmedStaysVisible'
  BY <1>2 DEF PageInv, StepsAreSound, Unsubmitted, UnderWay, Undoubted, Informed, Answered, Wanted,
              OneIsWanted, ConfirmedStaysVisible, Projected
<1> QED BY <1>3, <1>4, <1>5, <1>6, <1>7

-----------------------------------------------------------------------------
(* What a snapshot settles was confirmed or found, or is an edit; and once *)
(* it is shown, so is all that was confirmed.                              *)
LEMMA AcknowledgeSettles ==
  ASSUME PageInv, NEW s \in Snapshot, Past(s), s.rev >= auth.rev, s.rev >= floor,
         NEW ending \in SUBSET Act, \A b \in ending : At(b, "confirm"),
         Acknowledge(s, ending)
  PROVE  /\ auth' = s /\ local' \subseteq local /\ unsure' \subseteq unsure
         /\ \A b \in Act : confirmed[b].rev <= s.rev
         /\ \A b \in local \ unsure : confirmed[b].rev = 0 => b \in local' \ unsure'
         /\ \A b \in Act : \/ verdict'[b] = verdict[b]
                          \/ /\ verdict'[b] = "ok" /\ verdict[b] # "refused"
                             /\ body[b] \in Value \/ landed[b] = 1
                             /\ b \in (local \ local') \cup ending
         /\ \A b \in local \ local' :
              verdict'[b] = "ok" \/ body[b] \in Value \/ confirmed[b].rev > 0
         /\ \A b \in ending : verdict'[b] = "ok"
<1> DEFINE gone == Settled(s, unsure, confirmed) \cup ending
<1>1. /\ auth' = s /\ local' = local \ gone /\ unsure' = unsure \ gone
      /\ \A b \in Act : verdict'[b] = IF b \in ending \/ (b \in gone /\ body[b] = "add")
                                     THEN "ok" ELSE verdict[b]
  BY DEF Acknowledge
<1>6. ASSUME NEW b \in ending
      PROVE  /\ b \in Act /\ confirmed[b].rev > 0 /\ verdict[b] # "refused"
             /\ body[b] \in Value \/ landed[b] = 1
  BY DEF PageInv, StepsAreSound, Informed
<1> HIDE DEF gone
<1>2. ASSUME NEW b \in Act PROVE confirmed[b].rev <= s.rev
  <2>1. confirmed[b].rev \in Nat /\ auth.rev \in Nat /\ floor \in Nat /\ s.rev \in Nat
    BY DEF PageInv, Typed, Snapshot
  <2> QED BY <2>1 DEF PageInv, NothingIsAhead
<1>3. ASSUME NEW b \in Settled(s, unsure, confirmed)
      PROVE  /\ b \in local /\ b \in Act /\ verdict[b] # "refused"
             /\ confirmed[b].rev > 0 \/ b \in unsure
             /\ confirmed[b].rev > 0 \/ body[b] = "add" \/ body[b] \in Value
             /\ body[b] = "add" => landed[b] = 1
  <2>1. b \in local /\ b \in Act
    BY DEF Settled, PageInv, Typed
  <2>2. body[b] = "add" => body[b] \notin Value
    BY PageAssumption DEF PageAssumption
  <2>3. CASE confirmed[b].rev > 0
    <3>1. verdict[b] # "refused" /\ (body[b] \in Value \/ landed[b] = 1)
      BY <2>1, <2>3 DEF PageInv, StepsAreSound, Informed
    <3> QED BY <2>1, <2>2, <2>3, <3>1
  <2>4. CASE b \in unsure /\ (Satisfied(s, b) \/ Conflicts(s, b))
    <3>1. body[b] = "add" => b \in board.added
      BY <2>2, <2>4 DEF Satisfied, Conflicts, Past
    <3>2. body[b] = "add" => landed[b] = 1
      BY <2>1, <3>1 DEF PageInv, LandingsShow
    <3>3. verdict[b] # "refused"
      BY <2>1 DEF PageInv, StepsAreSound, Informed
    <3> QED BY <2>1, <2>4, <3>2, <3>3 DEF Satisfied, Conflicts
  <2> QED BY <2>3, <2>4 DEF Settled
<1>4. \A b \in local \ unsure : confirmed[b].rev = 0 => b \notin gone
  BY <1>3, <1>6 DEF gone
<1>5. local \subseteq Act
  BY DEF PageInv, Typed
<1>7. \A b \in Act : \/ verdict'[b] = verdict[b]
                     \/ /\ verdict'[b] = "ok" /\ verdict[b] # "refused"
                        /\ body[b] \in Value \/ landed[b] = 1
                        /\ b \in (local \ local') \cup ending
  BY <1>1, <1>3, <1>6 DEF gone
<1>8. \A b \in local \ local' :
        verdict'[b] = "ok" \/ body[b] \in Value \/ confirmed[b].rev > 0
  BY <1>1, <1>3, <1>5, <1>6 DEF gone
<1> QED BY <1>1, <1>2, <1>4, <1>6, <1>7, <1>8

(* A snapshot that is shown, with or without the end of a read.            *)
LEMMA ShownKeeps ==
  ASSUME PageInv, NEW s \in Snapshot, Past(s), s.rev >= auth.rev, s.rev >= floor,
         NEW ending \in SUBSET Act, \A b \in ending : At(b, "confirm"),
         Acknowledge(s, ending),
         UNCHANGED <<board, landed, wire, reply, floor, body, pred, base, ver, doubt, confirmed>>,
         poll' \in {poll, None},
         pc' \in [Act -> Running \cup {"new", "open", "queued", "done"}],
         \A b \in Act : \/ pc'[b] = pc[b]
                        \/ pc[b] = "reread" /\ pc'[b] = "judge"
                        \/ pc[b] = "final" /\ pc'[b] = "verify"
                        \/ b \in ending /\ pc'[b] = "done"
  PROVE  /\ NothingIsAhead' /\ LandingsShow' /\ RequestsAreBound' /\ AnswersAreAwaited'
         /\ StepsAreSound' /\ OneIsWanted' /\ ConfirmedStaysVisible'
<1>1. /\ auth' = s /\ local' \subseteq local /\ unsure' \subseteq unsure
      /\ \A b \in Act : confirmed[b].rev <= s.rev
      /\ \A b \in local \ unsure : confirmed[b].rev = 0 => b \in local' \ unsure'
      /\ \A b \in Act : \/ verdict'[b] = verdict[b]
                       \/ /\ verdict'[b] = "ok" /\ verdict[b] # "refused"
                          /\ body[b] \in Value \/ landed[b] = 1
                          /\ b \in (local \ local') \cup ending
      /\ \A b \in local \ local' :
           verdict'[b] = "ok" \/ body[b] \in Value \/ confirmed[b].rev > 0
      /\ \A b \in ending : verdict'[b] = "ok"
  BY AcknowledgeSettles
<1>2. NothingIsAhead'
  <2>1. Past(s)' /\ Past(board)' /\ (poll' # None => Past(poll)') /\ floor' <= board'.rev
    BY <1>1 DEF PageInv, NothingIsAhead, Past
  <2> QED BY <1>1, <2>1 DEF NothingIsAhead, Past
<1>3. LandingsShow' /\ RequestsAreBound'
  BY DEF PageInv, LandingsShow, RequestsAreBound, Typed, Request
<1>4. AnswersAreAwaited'
  <2>1. \A b \in Act : (pc'[b] \in Waiting <=> pc[b] \in Waiting)
                      /\ (pc'[b] \in Running => pc[b] \in Running)
    OBVIOUS
  <2>2. \A q \in wire : Wanted(q)' <=> Wanted(q)
    BY DEF Wanted, PageInv, Typed, Request
  <2> QED BY <2>1, <2>2 DEF PageInv, AnswersAreAwaited
<1>5. StepsAreSound'
  <2> SUFFICES ASSUME NEW b \in Act
               PROVE  /\ pc'[b] \in {"new", "open"} => Unsubmitted(b)'
                      /\ pc'[b] \in ({"queued"} \cup Running) \ {"confirm"} => UnderWay(b)'
                      /\ b \in unsure' => At(b, "done")'
                      /\ Undoubted(b)' /\ Informed(b)'
    BY DEF PageInv, StepsAreSound
  <2>1. Undoubted(b) /\ Informed(b)
    BY DEF PageInv, StepsAreSound
  <2>2. \A q \in wire : q.act = b => (Wanted(q)' <=> Wanted(q))
    BY DEF Wanted, PageInv, Typed, Request
  <2>3. pc'[b] \in {"new", "open"} => Unsubmitted(b)'
    BY <1>1 DEF PageInv, StepsAreSound, Unsubmitted
  <2>4. pc'[b] \in ({"queued"} \cup Running) \ {"confirm"} => UnderWay(b)'
    BY <1>1 DEF PageInv, StepsAreSound, UnderWay
  <2>5. b \in unsure' => At(b, "done")'
    BY <1>1 DEF PageInv, StepsAreSound
  <2>6. Undoubted(b)'
    BY <2>1, <2>2 DEF Undoubted, Answered
  <2>7. Informed(b)'
    <3>2. \/ verdict'[b] = verdict[b]
          \/ /\ verdict'[b] = "ok" /\ verdict[b] # "refused"
             /\ body[b] \in Value \/ landed[b] = 1
      BY <1>1
    <3>3. verdict[b] # "none" => verdict'[b] # "none"
      BY <3>2
    <3>4. verdict'[b] = "refused" => verdict[b] = "refused" /\ pc'[b] = pc[b]
      BY <2>1, <3>2 DEF Informed
    <3>5. verdict'[b] \in {"unknown", "lost"} =>
            body[b] \in Value \/ b \in local' \/ confirmed[b].rev > 0
      BY <1>1, <2>1, <3>2 DEF Informed
    <3>6. pc'[b] = "done" => verdict'[b] # "none"
      BY <1>1, <2>1, <3>3 DEF Informed
    <3>7. pc'[b] = "confirm" => /\ confirmed[b].rev > 0 /\ b \notin unsure'
                               /\ confirmed[b].rev <= s.rev
      BY <1>1, <2>1 DEF Informed
    <3>8. pc'[b] \in Waiting => pc[b] = pc'[b]
      OBVIOUS
    <3>9. (Answered(b) => Answered(b)') /\ local' \subseteq local
      BY <1>1 DEF Answered
    <3> QED BY <1>1, <2>1, <3>2, <3>4, <3>5, <3>6, <3>7, <3>8, <3>9 DEF Informed
  <2> QED BY <2>3, <2>4, <2>5, <2>6, <2>7
<1>6. OneIsWanted'
  <2>1. \A b \in Act : verdict[b] = "refused" => verdict'[b] = "refused"
    BY <1>1 DEF PageInv, StepsAreSound, Informed
  <2> QED BY <2>1 DEF PageInv, OneIsWanted
<1>7. ConfirmedStaysVisible'
  BY <1>1 DEF ConfirmedStaysVisible, PageInv, Typed, Snapshot
<1> QED BY <1>2, <1>3, <1>4, <1>5, <1>6, <1>7

-----------------------------------------------------------------------------
(* The ends of a submission: refused, confirmed, in doubt.                 *)
Pursued(a) == pc[a] \in ({"queued"} \cup Running) \ {"confirm"}
Alone(a)   == \A b \in Act \ {a} : pc[b] \notin Running

LEMMA RunsAlone == ASSUME PageInv, NEW a \in Act, pc[a] \in Running PROVE Alone(a)
  BY DEF PageInv, AnswersAreAwaited, Alone

LEMMA OthersQuiet ==
  ASSUME PageInv, NEW a \in Act, Alone(a), NEW b \in Act \ {a},
         pc'[b] = pc[b], doubt'[b] = doubt[b], landed'[b] = landed[b],
         \A r \in wire' : r.act = b => r \in wire
  PROVE  Undoubted(b)'
<1>1. Undoubted(b) /\ pc[b] \notin Running
  BY DEF PageInv, StepsAreSound, Alone
<1> QED BY <1>1 DEF Undoubted

LEMMA RefuseKeeps ==
  ASSUME PageInv, NEW a \in Act, Pursued(a), Alone(a), landed[a] = 0, Answered(a), Refuse(a),
         UNCHANGED <<board, landed, wire, auth, floor, poll, body, pred, base, doubt, confirmed>>,
         reply' = None, \A b \in Act \ {a} : ver'[b] = ver[b],
         ver'[a] = 0 <=> body[a] = "add"
  PROVE  /\ NothingIsAhead' /\ LandingsShow' /\ RequestsAreBound' /\ AnswersAreAwaited'
         /\ StepsAreSound' /\ OneIsWanted' /\ ConfirmedStaysVisible'
<1>1. /\ local' = local \ {a} /\ unsure' = unsure \ {a} /\ hidden' = hidden \ {a}
      /\ pc' = [pc EXCEPT ![a] = "done"] /\ verdict' = [verdict EXCEPT ![a] = "refused"]
  BY DEF Refuse, Forget
<1>2. /\ pc'[a] = "done" /\ verdict'[a] = "refused" /\ verdict[a] = "none" /\ confirmed[a].rev = 0
      /\ \A b \in Act \ {a} : pc'[b] = pc[b] /\ verdict'[b] = verdict[b]
  BY <1>1 DEF PageInv, Typed, StepsAreSound, UnderWay, Pursued
<1>3. NothingIsAhead' /\ LandingsShow'
  <2>1. NothingIsAhead'
    BY DEF PageInv, NothingIsAhead, Past
  <2>2. LandingsShow'
    BY DEF PageInv, LandingsShow
  <2> QED BY <2>1, <2>2
<1>4. \A r \in wire : r.act \in Act \ {a}
  BY DEF Answered, PageInv, Typed, Request
<1>5. RequestsAreBound'
  BY <1>2, <1>4 DEF PageInv, RequestsAreBound
<1>6. AnswersAreAwaited'
  BY <1>2 DEF PageInv, AnswersAreAwaited
<1>7. StepsAreSound'
  <2> SUFFICES ASSUME NEW b \in Act
               PROVE  /\ pc'[b] \in {"new", "open"} => Unsubmitted(b)'
                      /\ pc'[b] \notin {"new", "open"} =>
                           body[b] \in Body /\ (ver'[b] = 0 <=> body[b] = "add")
                      /\ Pursued(b)' => UnderWay(b)'
                      /\ b \in unsure' => At(b, "done")'
                      /\ Undoubted(b)' /\ Informed(b)'
    BY DEF PageInv, StepsAreSound, Pursued
  <2>1. CASE b = a
    BY <1>1, <1>2, <2>1
       DEF PageInv, StepsAreSound, Undoubted, Informed, Answered, Pursued
  <2>2. CASE b # a
    <3>1. /\ (b \in local' <=> b \in local) /\ (b \in unsure' <=> b \in unsure)
          /\ pc'[b] = pc[b] /\ verdict'[b] = verdict[b] /\ ver'[b] = ver[b]
      BY <1>1, <1>2, <2>2
    <3>2. Undoubted(b)'
      BY <2>2, <3>1, OthersQuiet
    <3>3. Informed(b)'
      BY <3>1 DEF PageInv, StepsAreSound, Informed, Answered
    <3> QED BY <3>1, <3>2, <3>3 DEF PageInv, StepsAreSound, Unsubmitted, UnderWay, Pursued
  <2> QED BY <2>1, <2>2
<1>8. OneIsWanted'
  BY <1>2 DEF PageInv, OneIsWanted
<1>9. ConfirmedStaysVisible'
  BY <1>1, <1>2 DEF PageInv, ConfirmedStaysVisible, Projected
<1> QED BY <1>3, <1>5, <1>6, <1>7, <1>8, <1>9

LEMMA ConfirmKeeps ==
  ASSUME PageInv, NEW a \in Act, pc[a] \in Waiting \cup Judging,
         NEW n \in 1 .. board.rev, NEW v \in Nat, Confirm(a, n, v),
         body[a] \in Value \/ landed[a] = 1,
         UNCHANGED <<board, landed, wire, auth, poll, local, unsure, hidden, body, pred, base, ver,
                     doubt>>,
         reply' = None
  PROVE  /\ NothingIsAhead' /\ LandingsShow' /\ RequestsAreBound' /\ AnswersAreAwaited'
         /\ StepsAreSound' /\ OneIsWanted' /\ ConfirmedStaysVisible'
<1>1. /\ confirmed' = [confirmed EXCEPT ![a] = [rev |-> n, ver |-> v]]
      /\ floor' = IF n > floor THEN n ELSE floor
      /\ pc' = [pc EXCEPT ![a] = "confirm"]
      /\ verdict' = IF body[a] = "add" THEN [verdict EXCEPT ![a] = "ok"] ELSE verdict
  BY DEF Confirm
<1>2. /\ pc'[a] = "confirm" /\ verdict'[a] \in {"none", "ok"} /\ verdict[a] = "none"
      /\ confirmed'[a].rev = n
      /\ \A b \in Act \ {a} : pc'[b] = pc[b] /\ verdict'[b] = verdict[b]
                             /\ confirmed'[b] = confirmed[b]
      /\ a \in local \ unsure
  BY <1>1 DEF PageInv, Typed, StepsAreSound, UnderWay
<1>3. board.rev \in Nat /\ auth.rev \in Nat /\ floor \in Nat
  BY DEF PageInv, Typed, Snapshot
<1>4. NothingIsAhead'
  <2>1. /\ Past(board)' /\ Past(auth)' /\ (poll # None => Past(poll))'
        /\ floor' <= board'.rev
    BY <1>1, <1>3 DEF PageInv, NothingIsAhead, Past
  <2>2. floor <= floor' /\ n <= floor' /\ floor' \in Nat
    BY <1>1, <1>3
  <2>3. ASSUME NEW b \in Act PROVE confirmed'[b].rev <= auth.rev \/ confirmed'[b].rev <= floor'
    <3>1. confirmed[b].rev \in Nat /\ (confirmed[b].rev <= auth.rev \/ confirmed[b].rev <= floor)
      BY DEF PageInv, Typed, NothingIsAhead
    <3> QED BY <1>2, <1>3, <2>2, <3>1
  <2> QED BY <2>1, <2>3 DEF NothingIsAhead
<1>5. LandingsShow' /\ RequestsAreBound'
  <2>1. LandingsShow'
    BY DEF PageInv, LandingsShow
  <2>2. RequestsAreBound'
    BY <1>1 DEF PageInv, RequestsAreBound, Typed, Request
  <2> QED BY <2>1, <2>2
<1>6. AnswersAreAwaited'
  BY <1>2 DEF PageInv, AnswersAreAwaited
<1>7. StepsAreSound'
  <2> SUFFICES ASSUME NEW b \in Act
               PROVE  /\ pc'[b] \in {"new", "open"} => Unsubmitted(b)'
                      /\ pc'[b] \notin {"new", "open"} =>
                           body[b] \in Body /\ (ver'[b] = 0 <=> body[b] = "add")
                      /\ Pursued(b)' => UnderWay(b)'
                      /\ b \in unsure' => At(b, "done")'
                      /\ Undoubted(b)' /\ Informed(b)'
    BY DEF PageInv, StepsAreSound, Pursued
  <2>1. CASE b = a
    BY <1>1, <1>2, <2>1
       DEF PageInv, StepsAreSound, Undoubted, Informed, Answered, Pursued
  <2>2. CASE b # a
    <3>1. pc'[b] = pc[b] /\ verdict'[b] = verdict[b] /\ confirmed'[b] = confirmed[b]
      BY <1>2, <2>2
    <3>2. Undoubted(b)'
      BY <2>2, <3>1, OthersQuiet, RunsAlone
    <3>3. Informed(b)'
      BY <3>1 DEF PageInv, StepsAreSound, Informed, Answered
    <3> QED BY <3>1, <3>2, <3>3 DEF PageInv, StepsAreSound, Unsubmitted, UnderWay, Pursued
  <2> QED BY <2>1, <2>2
<1>8. OneIsWanted'
  <2>1. \A b \in Act : verdict[b] = "refused" => verdict'[b] = "refused"
    BY <1>2
  <2> QED BY <2>1 DEF PageInv, OneIsWanted
<1>9. ConfirmedStaysVisible'
  BY <1>2 DEF PageInv, ConfirmedStaysVisible, Projected, Typed
<1> QED BY <1>4, <1>5, <1>6, <1>7, <1>8, <1>9

(* In doubt for good, or confirmed by what is never seen.                  *)
LEMMA DoubtKeeps ==
  ASSUME PageInv, NEW a \in Act, pc[a] \in Running,
         pc' = [pc EXCEPT ![a] = "done"], unsure' = unsure \cup ({a} \cap local),
         NEW what \in {"ok", "unknown"}, verdict' = [verdict EXCEPT ![a] = what],
         what = "ok" <=> At(a, "confirm"),
         UNCHANGED <<board, landed, wire, auth, floor, poll, local, hidden, body, pred, base, ver,
                     confirmed>>,
         reply' = None, doubt' \in [Act -> BOOLEAN],
         \A b \in Act \ {a} : doubt'[b] = doubt[b]
  PROVE  /\ NothingIsAhead' /\ LandingsShow' /\ RequestsAreBound' /\ AnswersAreAwaited'
         /\ StepsAreSound' /\ OneIsWanted' /\ ConfirmedStaysVisible'
<1>1. /\ pc'[a] = "done" /\ verdict'[a] = what /\ verdict[a] # "refused"
      /\ \A b \in Act \ {a} : pc'[b] = pc[b] /\ verdict'[b] = verdict[b]
  BY DEF PageInv, Typed, StepsAreSound, UnderWay, Informed
<1>2. NothingIsAhead' /\ LandingsShow'
  <2>1. NothingIsAhead'
    BY DEF PageInv, NothingIsAhead, Past
  <2>2. LandingsShow'
    BY DEF PageInv, LandingsShow
  <2> QED BY <2>1, <2>2
<1>3. RequestsAreBound'
  BY DEF PageInv, RequestsAreBound, Typed, Request
<1>4. AnswersAreAwaited'
  BY <1>1 DEF PageInv, AnswersAreAwaited
<1>5. StepsAreSound'
  <2> SUFFICES ASSUME NEW b \in Act
               PROVE  /\ pc'[b] \in {"new", "open"} => Unsubmitted(b)'
                      /\ pc'[b] \notin {"new", "open"} =>
                           body[b] \in Body /\ (ver'[b] = 0 <=> body[b] = "add")
                      /\ Pursued(b)' => UnderWay(b)'
                      /\ b \in unsure' => At(b, "done")'
                      /\ Undoubted(b)' /\ Informed(b)'
    BY DEF PageInv, StepsAreSound, Pursued
  <2>1. CASE b = a
    BY <1>1, <2>1 DEF PageInv, StepsAreSound, UnderWay, Undoubted, Informed, Answered, Pursued
  <2>2. CASE b # a
    <3>1. /\ pc'[b] = pc[b] /\ verdict'[b] = verdict[b] /\ doubt'[b] = doubt[b]
          /\ (b \in unsure' <=> b \in unsure)
      BY <1>1, <2>2
    <3>2. Undoubted(b)'
      BY <2>2, <3>1, OthersQuiet, RunsAlone
    <3>3. Informed(b)'
      BY <3>1 DEF PageInv, StepsAreSound, Informed, Answered
    <3> QED BY <3>1, <3>2, <3>3 DEF PageInv, StepsAreSound, Unsubmitted, UnderWay, Pursued
  <2> QED BY <2>1, <2>2
<1>6. OneIsWanted' /\ ConfirmedStaysVisible'
  <2>1. \A b \in Act : verdict[b] = "refused" => verdict'[b] = "refused"
    BY <1>1
  <2>2. ConfirmedStaysVisible'
    BY DEF PageInv, ConfirmedStaysVisible, Projected
  <2> QED BY <2>1, <2>2 DEF PageInv, OneIsWanted
<1> QED BY <1>2, <1>3, <1>4, <1>5, <1>6

(* The board is read once more, or what was read is judged without being   *)
(* shown.                                                                  *)
LEMMA LookKeeps ==
  ASSUME PageInv, NEW a \in Act, NEW step \in {"reread", "final", "judge", "verify"},
         pc' = [pc EXCEPT ![a] = step],
         pc[a] \in Waiting \cup {"reread", "judge", "final"},
         step = "reread" => At(a, "sent"), step = "judge" => At(a, "reread"),
         doubt' \in [Act -> BOOLEAN], \A b \in Act \ {a} : doubt'[b] = doubt[b],
         doubt'[a] \/ (step \in {"reread", "judge"} /\ landed[a] = 0 /\ Answered(a)),
         UNCHANGED <<board, landed, wire, auth, floor, poll, tasks, body, pred, base, ver, verdict,
                     confirmed>>,
         reply' = None
  PROVE  /\ NothingIsAhead' /\ LandingsShow' /\ RequestsAreBound' /\ AnswersAreAwaited'
         /\ StepsAreSound' /\ OneIsWanted' /\ ConfirmedStaysVisible'
<1> USE DEF tasks
<1>1. pc'[a] = step /\ \A b \in Act \ {a} : pc'[b] = pc[b]
  BY DEF PageInv, Typed
<1>2. NothingIsAhead' /\ LandingsShow' /\ OneIsWanted' /\ ConfirmedStaysVisible'
  <2>1. NothingIsAhead'
    BY DEF PageInv, NothingIsAhead, Past
  <2>2. LandingsShow'
    BY DEF PageInv, LandingsShow
  <2>3. OneIsWanted' /\ ConfirmedStaysVisible'
    BY DEF PageInv, OneIsWanted, ConfirmedStaysVisible, Projected
  <2> QED BY <2>1, <2>2, <2>3
<1>3. RequestsAreBound'
  BY <1>1 DEF PageInv, RequestsAreBound, Typed, Request
<1>4. AnswersAreAwaited'
  BY <1>1 DEF PageInv, AnswersAreAwaited
<1>5. StepsAreSound'
  <2> SUFFICES ASSUME NEW b \in Act
               PROVE  /\ pc'[b] \in {"new", "open"} => Unsubmitted(b)'
                      /\ pc'[b] \notin {"new", "open"} =>
                           body[b] \in Body /\ (ver'[b] = 0 <=> body[b] = "add")
                      /\ Pursued(b)' => UnderWay(b)'
                      /\ b \in unsure' => At(b, "done")'
                      /\ Undoubted(b)' /\ Informed(b)'
    BY DEF PageInv, StepsAreSound, Pursued
  <2>1. CASE b = a
    <3>1. /\ body[a] \in Body /\ (ver[a] = 0 <=> body[a] = "add")
          /\ UnderWay(a) /\ a \notin unsure /\ Informed(a)
      BY DEF PageInv, StepsAreSound
    <3>2. UnderWay(a)'
      BY <1>1, <3>1 DEF UnderWay
    <3>3. Undoubted(a)' /\ Informed(a)'
      BY <1>1, <3>1 DEF UnderWay, Undoubted, Informed, Answered
    <3> QED BY <1>1, <2>1, <3>1, <3>2, <3>3 DEF Pursued
  <2>2. CASE b # a
    <3>1. pc'[b] = pc[b] /\ doubt'[b] = doubt[b]
      BY <1>1, <2>2
    <3>2. Undoubted(b)'
      BY <2>2, <3>1, OthersQuiet, RunsAlone
    <3>3. Informed(b)'
      BY <3>1 DEF PageInv, StepsAreSound, Informed, Answered
    <3> QED BY <3>1, <3>2, <3>3 DEF PageInv, StepsAreSound, Unsubmitted, UnderWay, Pursued
  <2> QED BY <2>1, <2>2
<1> QED BY <1>2, <1>3, <1>4, <1>5

(* A request is sent: the first one, or the only repetition.               *)
LEMMA SendKeeps ==
  ASSUME PageInv, NEW a \in Act, Alone(a),
         NEW n \in {1, 2}, NEW rev \in 1 .. board.rev, Send(a, n, rev, ver'[a]),
         \/ n = 1 /\ At(a, "queued") /\ Goto(a, "sent")
         \/ n = 2 /\ At(a, "judge") /\ Goto(a, "resent"),
         landed[a] = 1 => rev < board.rev, ~doubt[a] => landed[a] = 0,
         n = 2 => ver'[a] = ver[a],
         \A b \in Act \ {a} : ver'[b] = ver[b], ver'[a] = 0 <=> body[a] = "add",
         UNCHANGED <<board, landed, reply, auth, floor, poll, tasks, body, pred, base, doubt,
                     verdict, confirmed>>
  PROVE  /\ NothingIsAhead' /\ LandingsShow' /\ RequestsAreBound' /\ AnswersAreAwaited'
         /\ StepsAreSound' /\ OneIsWanted' /\ ConfirmedStaysVisible'
<1> USE DEF tasks
<1> DEFINE new == [act |-> a, nth |-> n, rev |-> rev, ver |-> ver'[a]]
<1>1. /\ pc'[a] = IF n = 1 THEN "sent" ELSE "resent"
      /\ \A b \in Act \ {a} : pc'[b] = pc[b]
  BY DEF PageInv, Typed
<1>2. wire' = wire \cup {new}
  BY DEF Send
<1>3. reply = None
  <2>1. \A b \in Act : pc[b] \notin Waiting
    BY DEF Alone
  <2> QED BY <2>1 DEF PageInv, AnswersAreAwaited
<1>4. NothingIsAhead' /\ OneIsWanted' /\ ConfirmedStaysVisible'
  <2>1. NothingIsAhead'
    BY DEF PageInv, NothingIsAhead, Past
  <2>2. OneIsWanted' /\ ConfirmedStaysVisible'
    BY DEF PageInv, OneIsWanted, ConfirmedStaysVisible, Projected
  <2> QED BY <2>1, <2>2
<1>5. n = 1 => landed[a] = 0 /\ ~doubt[a]
  BY DEF PageInv, StepsAreSound, UnderWay
<1>6. LandingsShow'
  BY <1>5 DEF PageInv, LandingsShow
<1>7. ASSUME NEW r \in wire
      PROVE  /\ r.act \in Act
             /\ r.act = a => n = 2 /\ r.nth # n
  BY DEF PageInv, Typed, Request, RequestsAreBound
<1>8. RequestsAreBound'
  <2>1. /\ new.act = a /\ new.nth = n /\ new.rev = rev /\ new.ver = ver'[a]
        /\ rev <= board.rev
    BY DEF PageInv, NothingIsAhead, Past, Typed, Snapshot
  <2> HIDE DEF new
  <2>2. ASSUME NEW r \in wire
        PROVE  /\ r.rev <= board.rev /\ r.ver = ver'[r.act]
               /\ pc'[r.act] \notin {"new", "open", "queued"}
               /\ r.nth = 2 => pc'[r.act] \notin {"sent", "reread", "judge"}
               /\ landed[r.act] = 1 => r.rev < board.rev
               /\ \A q \in wire' : q.act = r.act /\ q.nth = r.nth => q = r
    <3>1. /\ r.rev <= board.rev /\ r.ver = ver[r.act]
          /\ pc[r.act] \notin {"new", "open", "queued"}
          /\ r.nth = 2 => pc[r.act] \notin {"sent", "reread", "judge"}
          /\ landed[r.act] = 1 => r.rev < board.rev
          /\ \A q \in wire : q.act = r.act /\ q.nth = r.nth => q = r
      BY DEF PageInv, RequestsAreBound
    <3>2. CASE r.act = a
      BY <1>1, <1>2, <1>7, <2>1, <3>1, <3>2
    <3>3. CASE r.act # a
      <4>1. pc'[r.act] = pc[r.act] /\ ver'[r.act] = ver[r.act]
        BY <1>1, <1>7, <3>3
      <4> QED BY <1>2, <2>1, <3>1, <3>3, <4>1
    <3> QED BY <3>2, <3>3
  <2>3. /\ pc'[a] \notin {"new", "open", "queued", "reread", "judge"}
        /\ n = 2 => pc'[a] # "sent"
        /\ \A q \in wire' : q.act = a /\ q.nth = n => q = new
    BY <1>1, <1>2, <1>7
  <2> QED BY <1>2, <2>1, <2>2, <2>3 DEF RequestsAreBound
<1>9. AnswersAreAwaited'
  BY <1>1, <1>3 DEF Alone, AnswersAreAwaited
<1>10. StepsAreSound'
  <2> SUFFICES ASSUME NEW b \in Act
               PROVE  /\ pc'[b] \in {"new", "open"} => Unsubmitted(b)'
                      /\ pc'[b] \notin {"new", "open"} =>
                           body[b] \in Body /\ (ver'[b] = 0 <=> body[b] = "add")
                      /\ Pursued(b)' => UnderWay(b)'
                      /\ b \in unsure' => At(b, "done")'
                      /\ Undoubted(b)' /\ Informed(b)'
    BY DEF PageInv, StepsAreSound, Pursued
  <2>1. CASE b = a
    <3>1. body[a] \in Body /\ UnderWay(a) /\ a \notin unsure /\ Informed(a) /\ Undoubted(a)
      BY DEF PageInv, StepsAreSound
    <3>2. UnderWay(a)'
      BY <1>1, <1>5, <3>1 DEF UnderWay
    <3>3. ASSUME ~doubt[a], NEW r \in wire', r.act = a PROVE Wanted(r)'
      <4>1. n = 2 => Answered(a)
        BY <3>1, <3>3 DEF Undoubted
      <4>2. r = new
        BY <1>2, <1>7, <3>3, <4>1 DEF Answered
      <4> QED BY <1>1, <4>2 DEF Wanted
    <3>4. Undoubted(a)'
      BY <1>1, <1>3, <3>3 DEF Undoubted
    <3>5. Informed(a)'
      BY <1>1, <1>3, <3>1 DEF UnderWay, Informed
    <3> QED BY <1>1, <2>1, <3>1, <3>2, <3>4, <3>5 DEF Pursued
  <2>2. CASE b # a
    <3>1. pc'[b] = pc[b] /\ ver'[b] = ver[b] /\ (Answered(b) => Answered(b)')
          /\ \A r \in wire' : r.act = b => r \in wire
      BY <1>1, <1>2, <2>2 DEF Answered
    <3>2. Undoubted(b)'
      BY <2>2, <3>1, OthersQuiet
    <3>3. Informed(b)'
      BY <3>1 DEF PageInv, StepsAreSound, Informed
    <3> QED BY <3>1, <3>2, <3>3 DEF PageInv, StepsAreSound, Unsubmitted, UnderWay, Pursued
  <2> QED BY <2>1, <2>2
<1> QED BY <1>4, <1>6, <1>8, <1>9, <1>10

-----------------------------------------------------------------------------
(* The author.                                                             *)
LEMMA OpenKeeps ==
  ASSUME PageInv, NEW a \in Act, Open(a)
  PROVE  /\ NothingIsAhead' /\ LandingsShow' /\ RequestsAreBound' /\ AnswersAreAwaited'
         /\ StepsAreSound' /\ OneIsWanted' /\ ConfirmedStaysVisible'
<1>1. PICK v \in Value : body' = [body EXCEPT ![a] = v]
  BY DEF Open
<1>2. /\ At(a, "new") /\ pc' = [pc EXCEPT ![a] = "open"]
      /\ base' = [base EXCEPT ![a] = auth.ver]
      /\ UNCHANGED <<board, landed, wire, reply, auth, floor, poll, local, unsure, hidden, pred,
                     ver, doubt, verdict, confirmed>>
  BY DEF Open, server, net, view, tasks
<1>3. /\ pc'[a] = "open" /\ body'[a] = v /\ base'[a] = auth.ver
      /\ \A b \in Act \ {a} : pc'[b] = pc[b] /\ body'[b] = body[b] /\ base'[b] = base[b]
  BY <1>1, <1>2 DEF PageInv, Typed
<1>4. Unsubmitted(a) /\ v \notin {"add", "comment"} /\ auth.ver > 0
  BY <1>2, PageAssumption
     DEF PageInv, StepsAreSound, PageAssumption, NothingIsAhead, Past, Typed, Snapshot
<1>5. NothingIsAhead' /\ ConfirmedStaysVisible'
  <2>1. NothingIsAhead'
    BY <1>2 DEF PageInv, NothingIsAhead, Past
  <2> QED BY <1>2, <2>1 DEF PageInv, ConfirmedStaysVisible, Projected
<1>6. LandingsShow'
  <2>1. a \notin board.added /\ landed[a] = 0
    BY <1>2, <1>4, PageAssumption DEF PageInv, LandingsShow, Unsubmitted, PageAssumption
  <2> QED BY <1>2, <1>3, <1>4, <2>1 DEF PageInv, LandingsShow
<1>7. \A r \in wire : r.act \in Act \ {a}
  BY <1>2 DEF PageInv, RequestsAreBound, Typed, Request
<1>8. RequestsAreBound'
  BY <1>2, <1>3, <1>7 DEF PageInv, RequestsAreBound
<1>9. AnswersAreAwaited'
  <2>1. \A b \in Act : (pc'[b] \in Waiting <=> pc[b] \in Waiting)
                      /\ (pc'[b] \in Running => pc[b] \in Running)
    BY <1>2, <1>3
  <2>2. \A q \in wire : Wanted(q)' <=> Wanted(q)
    BY <1>3, <1>7 DEF Wanted
  <2> QED BY <1>2, <2>1, <2>2 DEF PageInv, AnswersAreAwaited
<1>10. StepsAreSound'
  <2> SUFFICES ASSUME NEW b \in Act
               PROVE  /\ pc'[b] \in {"new", "open"} => Unsubmitted(b)'
                      /\ pc'[b] \notin {"new", "open"} =>
                           body'[b] \in Body /\ (ver'[b] = 0 <=> body'[b] = "add")
                      /\ pred'[b] # None => body'[b] # "add"
                      /\ Pursued(b)' => UnderWay(b)'
                      /\ b \in unsure' => At(b, "done")'
                      /\ Undoubted(b)' /\ Informed(b)'
    BY DEF StepsAreSound, Pursued
  <2>1. CASE b = a
    <3>1. Unsubmitted(a)' /\ a \notin unsure
      BY <1>2, <1>3, <1>4 DEF Unsubmitted, PageInv, StepsAreSound
    <3>2. Undoubted(a)' /\ Informed(a)'
      BY <1>2, <1>3, <3>1 DEF Unsubmitted, Undoubted, Informed
    <3> QED BY <1>2, <1>3, <1>4, <2>1, <3>1, <3>2 DEF Pursued
  <2>2. CASE b # a
    <3>1. pc'[b] = pc[b] /\ body'[b] = body[b] /\ base'[b] = base[b] /\ ver'[b] = ver[b]
      BY <1>2, <1>3, <2>2
    <3>2. Undoubted(b)'
      BY <1>2, <3>1 DEF PageInv, StepsAreSound, Undoubted, Answered, Wanted
    <3>3. Informed(b)'
      BY <1>2, <3>1 DEF PageInv, StepsAreSound, Informed, Answered
    <3> QED BY <1>2, <3>1, <3>2, <3>3 DEF PageInv, StepsAreSound, Unsubmitted, UnderWay, Pursued
  <2> QED BY <2>1, <2>2
<1>11. OneIsWanted'
  BY <1>2, <1>3, <1>4 DEF PageInv, OneIsWanted
<1> QED BY <1>5, <1>6, <1>8, <1>9, <1>10, <1>11

LEMMA EnqueueKeeps ==
  ASSUME PageInv, NEW a \in Act, NEW b \in Body, NEW v \in Nat, Enqueue(a, b, v),
         pc[a] \in {"new", "open"}, v = 0 <=> b = "add",
         \A c \in Act \ {a} : body[c] = b /\ b \notin Value => verdict[c] = "refused"
  PROVE  /\ NothingIsAhead' /\ LandingsShow' /\ RequestsAreBound' /\ AnswersAreAwaited'
         /\ StepsAreSound' /\ OneIsWanted' /\ ConfirmedStaysVisible'
<1>1. PICK p \in Predecessors(b) : pred' = [pred EXCEPT ![a] = p]
  BY DEF Enqueue
<1>2. /\ pc' = [pc EXCEPT ![a] = "queued"] /\ body' = [body EXCEPT ![a] = b]
      /\ base' = [base EXCEPT ![a] = v] /\ ver' = [ver EXCEPT ![a] = v]
      /\ local' = local \cup {a}
      /\ UNCHANGED <<board, landed, wire, reply, auth, floor, poll, unsure, hidden,
                     doubt, verdict, confirmed>>
  BY DEF Enqueue, server, net, view
<1>3. /\ pc'[a] = "queued" /\ body'[a] = b /\ ver'[a] = v /\ pred'[a] = p
      /\ \A c \in Act \ {a} : /\ pc'[c] = pc[c] /\ body'[c] = body[c] /\ base'[c] = base[c]
                             /\ ver'[c] = ver[c] /\ pred'[c] = pred[c]
  BY <1>1, <1>2 DEF PageInv, Typed
<1>4. Unsubmitted(a) /\ (p # None => b # "add")
  BY <1>1 DEF PageInv, StepsAreSound, Predecessors
<1>5. NothingIsAhead' /\ ConfirmedStaysVisible'
  <2>1. NothingIsAhead'
    BY <1>2 DEF PageInv, NothingIsAhead, Past
  <2> QED BY <1>2, <2>1 DEF PageInv, ConfirmedStaysVisible, Projected
<1>6. LandingsShow'
  <2>1. a \notin board.added /\ landed[a] = 0
    BY <1>4, PageAssumption DEF PageInv, LandingsShow, Unsubmitted, PageAssumption
  <2> QED BY <1>2, <1>3, <2>1 DEF PageInv, LandingsShow
<1>7. \A r \in wire : r.act \in Act \ {a}
  BY DEF PageInv, RequestsAreBound, Typed, Request
<1>8. RequestsAreBound'
  BY <1>2, <1>3, <1>7 DEF PageInv, RequestsAreBound
<1>9. AnswersAreAwaited'
  <2>1. \A c \in Act : (pc'[c] \in Waiting <=> pc[c] \in Waiting)
                      /\ (pc'[c] \in Running => pc[c] \in Running)
    BY <1>2, <1>3
  <2>2. \A q \in wire : Wanted(q)' <=> Wanted(q)
    BY <1>3, <1>7 DEF Wanted
  <2> QED BY <1>2, <2>1, <2>2 DEF PageInv, AnswersAreAwaited
<1>10. StepsAreSound'
  <2> SUFFICES ASSUME NEW c \in Act
               PROVE  /\ pc'[c] \in {"new", "open"} => Unsubmitted(c)'
                      /\ pc'[c] \notin {"new", "open"} =>
                           body'[c] \in Body /\ (ver'[c] = 0 <=> body'[c] = "add")
                      /\ pred'[c] # None => body'[c] # "add"
                      /\ Pursued(c)' => UnderWay(c)'
                      /\ c \in unsure' => At(c, "done")'
                      /\ Undoubted(c)' /\ Informed(c)'
    BY DEF StepsAreSound, Pursued
  <2>1. CASE c = a
    <3>1. a \notin unsure
      BY <1>4 DEF Unsubmitted, PageInv, Typed
    <3>2. UnderWay(a)'
      BY <1>2, <1>3, <1>4, <3>1 DEF Unsubmitted, UnderWay
    <3>3. Undoubted(a)' /\ Informed(a)'
      BY <1>2, <1>3, <1>4 DEF Unsubmitted, Undoubted, Informed
    <3> QED BY <1>2, <1>3, <1>4, <2>1, <3>1, <3>2, <3>3 DEF Pursued
  <2>2. CASE c # a
    <3>1. /\ pc'[c] = pc[c] /\ body'[c] = body[c] /\ base'[c] = base[c] /\ ver'[c] = ver[c]
          /\ pred'[c] = pred[c] /\ (c \in local' <=> c \in local)
      BY <1>2, <1>3, <2>2
    <3>2. Undoubted(c)'
      BY <1>2, <3>1 DEF PageInv, StepsAreSound, Undoubted, Answered, Wanted
    <3>3. Informed(c)'
      BY <1>2, <3>1 DEF PageInv, StepsAreSound, Informed, Answered
    <3> QED BY <1>2, <3>1, <3>2, <3>3 DEF PageInv, StepsAreSound, Unsubmitted, UnderWay, Pursued
  <2> QED BY <2>1, <2>2
<1>11. OneIsWanted'
  BY <1>2, <1>3, PageAssumption DEF PageInv, OneIsWanted, PageAssumption
<1> QED BY <1>5, <1>6, <1>8, <1>9, <1>10, <1>11

(* Loading the document anew.                                              *)
LEMMA ReloadKeeps ==
  ASSUME PageInv, Reload
  PROVE  /\ NothingIsAhead' /\ LandingsShow' /\ RequestsAreBound' /\ AnswersAreAwaited'
         /\ StepsAreSound' /\ OneIsWanted' /\ ConfirmedStaysVisible'
<1> DEFINE gone == Settled(board, local, confirmed')
<1>1. /\ UNCHANGED <<board, landed, wire, body, base, ver, doubt>>
      /\ pred' = [a \in Act |-> None] /\ reply' = None /\ poll' = None /\ floor' = 0
      /\ auth' = board
      /\ local' = local \ gone /\ unsure' = local \ gone /\ hidden' = local \ gone
  BY DEF Reload, server
<1>2. ASSUME NEW a \in Act
      PROVE  /\ confirmed'[a] \in {confirmed[a], NoConfirmation}
             /\ a \notin local => confirmed'[a] = confirmed[a]
             /\ pc'[a] = IF pc[a] \in {"new", "open"} THEN pc[a] ELSE "done"
             /\ verdict'[a] = IF a \in gone /\ body[a] = "add" THEN "ok"
                             ELSE IF verdict[a] = "none" /\ pc'[a] = "done" THEN "lost"
                             ELSE verdict[a]
  BY DEF Reload
<1> HIDE DEF gone
<1>3. ASSUME NEW a \in Act, confirmed'[a].rev > 0
      PROVE  confirmed'[a] = confirmed[a] /\ (body[a] \in Value \/ landed[a] = 1)
  BY <1>2, <1>3 DEF NoConfirmation, PageInv, StepsAreSound, Informed
<1>4. ASSUME NEW a \in Act
      PROVE  confirmed'[a].rev <= board.rev
  <2>1. /\ confirmed[a].rev \in Nat /\ board.rev \in Nat /\ auth.rev \in Nat /\ floor \in Nat
        /\ auth.rev <= board.rev /\ floor <= board.rev
        /\ confirmed[a].rev <= auth.rev \/ confirmed[a].rev <= floor
    BY DEF PageInv, Typed, Snapshot, NothingIsAhead, Past
  <2> QED BY <1>2, <2>1 DEF NoConfirmation
<1>5. ASSUME NEW a \in Act, a \in gone
      PROVE  /\ body[a] = "add" => landed[a] = 1
             /\ body[a] = "add" \/ body[a] \in Value \/ confirmed'[a].rev > 0
  <2>1. body[a] = "add" => body[a] \notin Value
    BY PageAssumption DEF PageAssumption
  <2>2. CASE confirmed'[a].rev > 0
    BY <1>3, <2>1, <2>2
  <2>3. CASE Satisfied(board, a) \/ Conflicts(board, a)
    <3>1. body[a] = "add" => a \in board.added
      BY <2>1, <2>3 DEF Satisfied, Conflicts
    <3> QED BY <2>3, <3>1 DEF PageInv, LandingsShow, Satisfied, Conflicts
  <2> QED BY <1>5, <2>2, <2>3 DEF gone, Settled
<1>6. NothingIsAhead' /\ ConfirmedStaysVisible'
  <2>1. NothingIsAhead'
    BY <1>1, <1>4 DEF PageInv, NothingIsAhead, Past, Typed, Snapshot
  <2> QED BY <1>1, <1>4, <2>1 DEF ConfirmedStaysVisible, PageInv, Typed, Snapshot
<1>7. LandingsShow' /\ RequestsAreBound'
  <2>1. LandingsShow'
    BY <1>1 DEF PageInv, LandingsShow
  <2>2. RequestsAreBound'
    BY <1>1, <1>2 DEF PageInv, RequestsAreBound, Typed, Request
  <2> QED BY <2>1, <2>2
<1>8. AnswersAreAwaited'
  BY <1>1, <1>2 DEF AnswersAreAwaited
<1>9. StepsAreSound'
  <2> SUFFICES ASSUME NEW c \in Act
               PROVE  /\ pc'[c] \in {"new", "open"} => Unsubmitted(c)'
                      /\ pc'[c] \notin {"new", "open"} =>
                           body'[c] \in Body /\ (ver'[c] = 0 <=> body'[c] = "add")
                      /\ pred'[c] # None => body'[c] # "add"
                      /\ Pursued(c)' => UnderWay(c)'
                      /\ c \in unsure' => At(c, "done")'
                      /\ Undoubted(c)' /\ Informed(c)'
    BY DEF StepsAreSound, Pursued
  <2>1. pred'[c] = None /\ (Answered(c) => Answered(c)')
    BY <1>1 DEF Answered
  <2>2. CASE pc[c] \in {"new", "open"}
    <3>1. Unsubmitted(c)
      BY <2>2 DEF PageInv, StepsAreSound
    <3>2. Unsubmitted(c)'
      BY <1>1, <1>2, <2>2, <3>1 DEF Unsubmitted, NoConfirmation, gone, Settled
    <3>3. Undoubted(c)' /\ Informed(c)'
      BY <1>1, <1>2, <2>2, <3>2 DEF Unsubmitted, Undoubted, Informed
    <3> QED BY <1>1, <1>2, <2>1, <2>2, <3>1, <3>2, <3>3 DEF Pursued, Unsubmitted
  <2>3. CASE pc[c] \notin {"new", "open"}
    <3>1. pc'[c] = "done"
      BY <1>2, <2>3
    <3>2. Undoubted(c)'
      BY <3>1 DEF Undoubted
    <3>3. body[c] \in Body /\ (ver[c] = 0 <=> body[c] = "add") /\ Informed(c)
          /\ (Pursued(c) => UnderWay(c))
      BY <2>3 DEF PageInv, StepsAreSound, Pursued
    <3>4. verdict'[c] # "none"
      BY <1>2, <3>1
    <3>5. confirmed'[c].rev > 0 => body[c] \in Value \/ landed[c] = 1
      BY <1>3
    <3>6. verdict'[c] = "ok" => body[c] \in Value \/ landed[c] = 1
      BY <1>2, <1>5, <3>3 DEF Informed
    <3>7. verdict'[c] = "refused" => verdict[c] = "refused" /\ c \notin local
      BY <1>2, <3>3 DEF Informed
    <3>8. verdict'[c] \in {"unknown", "lost"} =>
            body[c] \in Value \/ c \in local' \/ confirmed'[c].rev > 0
      <4>1. verdict[c] = "none" => c \in local \/ confirmed[c].rev > 0
        BY <2>3, <3>3 DEF UnderWay, Pursued, Informed, PageInv, Typed
      <4>2. verdict'[c] \in {"unknown", "lost"} =>
              body[c] \in Value \/ c \in local \/ confirmed[c].rev > 0
        BY <1>2, <3>3, <4>1 DEF Informed
      <4>3. verdict'[c] \in {"unknown", "lost"} /\ c \in gone =>
              body[c] \in Value \/ confirmed'[c].rev > 0
        BY <1>2, <1>5
      <4>4. c \notin local => confirmed'[c] = confirmed[c]
        BY <1>2
      <4> QED BY <1>1, <4>2, <4>3, <4>4
    <3>9. Informed(c)'
      BY <1>1, <2>1, <3>1, <3>3, <3>4, <3>5, <3>6, <3>7, <3>8 DEF Informed
    <3> QED BY <1>1, <2>1, <3>1, <3>2, <3>3, <3>9 DEF Pursued
  <2> QED BY <2>2, <2>3
<1>10. OneIsWanted'
  <2>1. \A b \in Act : verdict[b] = "refused" => verdict'[b] = "refused"
    <3>1. \A b \in gone : b \in local
      BY DEF gone, Settled
    <3> QED BY <1>2, <3>1 DEF PageInv, StepsAreSound, Informed
  <2> QED BY <1>1, <2>1 DEF PageInv, OneIsWanted
<1> QED BY <1>6, <1>7, <1>8, <1>9, <1>10

-----------------------------------------------------------------------------
(* Each action, by what it does to the submission it is about.             *)
Kept ==
  /\ NothingIsAhead' /\ LandingsShow' /\ RequestsAreBound' /\ AnswersAreAwaited'
  /\ StepsAreSound' /\ OneIsWanted' /\ ConfirmedStaysVisible'

LEMMA SaveKeeps == ASSUME PageInv, NEW a \in Act, Save(a) PROVE Kept
<1>1. body[a] \in Value /\ base[a] \in Nat \ {0} /\ body[a] \in Body
  BY DEF Save, PageInv, StepsAreSound, Unsubmitted, Typed, Body
<1>2. body[a] # "add" /\ pc[a] = "open" /\ Enqueue(a, body[a], base[a])
  BY <1>1, PageAssumption DEF Save, PageAssumption
<1> QED BY <1>1, <1>2, EnqueueKeeps DEF Kept

LEMMA SubmitKeeps == ASSUME PageInv, NEW a \in Act, Submit(a) PROVE Kept
<1>1. PICK b \in {"add", "comment"} :
        /\ ~Pending(b)
        /\ \A c \in Act : body[c] = b =>
             verdict[c] \in {"refused", "unknown", "lost"} /\ confirmed[c].rev = 0
        /\ Enqueue(a, b, IF b = "add" THEN 0 ELSE auth.ver)
  BY DEF Submit
<1>2. b \in Body /\ b \notin Value /\ pc[a] = "new"
  BY <1>1, PageAssumption DEF Body, PageAssumption, Submit
<1>3. auth.ver \in Nat \ {0}
  BY DEF PageInv, NothingIsAhead, Past, Typed, Snapshot
<1>4. ASSUME NEW c \in Act, body[c] = b
      PROVE  verdict[c] = "refused"
  BY <1>1, <1>2, <1>4 DEF PageInv, StepsAreSound, Informed, Pending
<1> DEFINE v == IF b = "add" THEN 0 ELSE auth.ver
<1>5. v \in Nat /\ (v = 0 <=> b = "add") /\ Enqueue(a, b, v)
  BY <1>1, <1>3
<1> HIDE DEF v
<1> QED BY <1>2, <1>4, <1>5, EnqueueKeeps DEF Kept

LEMMA StartKeeps == ASSUME PageInv, NEW a \in Act, Start(a) PROVE Kept
<1>1. pc[a] = "queued" /\ Alone(a) /\ reply = None
  BY DEF Start, Queued, Alone, PageInv, AnswersAreAwaited
<1>2. Pursued(a) /\ landed[a] = 0 /\ ~doubt[a] /\ Answered(a)
  <2>1. UnderWay(a)
    BY <1>1 DEF PageInv, StepsAreSound
  <2>2. Answered(a)
    BY <1>1 DEF PageInv, RequestsAreBound, Answered
  <2> QED BY <1>1, <2>1, <2>2 DEF Pursued, UnderWay
<1>3. ver' = [ver EXCEPT ![a] = Current(a)] /\ Current(a) \in Nat
  BY DEF Start, Current, PageInv, Typed
<1>4. ver'[a] = 0 <=> body[a] = "add"
  <2>1. (ver[a] = 0 <=> body[a] = "add") /\ (pred[a] # None => body[a] # "add")
    BY <1>1 DEF PageInv, StepsAreSound
  <2>2. ver'[a] = Current(a)
    BY <1>3 DEF PageInv, Typed
  <2> QED BY <2>1, <2>2 DEF Current
<1>5. \A b \in Act \ {a} : ver'[b] = ver[b]
  BY <1>3 DEF PageInv, Typed
<1>6. UNCHANGED <<board, landed, reply, auth, floor, poll, body, pred, base, doubt, confirmed>>
  BY DEF Start, server, view, fixed
<1>7. CASE Refuse(a) /\ UNCHANGED wire
  BY <1>1, <1>2, <1>4, <1>5, <1>6, <1>7, RefuseKeeps DEF Kept
<1>8. CASE Send(a, 1, auth.rev, ver'[a]) /\ Goto(a, "sent")
             /\ UNCHANGED <<local, unsure, hidden, verdict>>
  <2>1. UNCHANGED <<board, landed, reply, auth, floor, poll, tasks, body, pred, base, doubt,
                    verdict, confirmed>>
    BY <1>6, <1>8 DEF tasks
  <2>2. (landed[a] = 1 => auth.rev < board.rev) /\ (~doubt[a] => landed[a] = 0)
        /\ auth.rev \in 1 .. board.rev
    BY <1>2 DEF PageInv, NothingIsAhead, Past
  <2>3. At(a, "queued") /\ Goto(a, "sent") /\ Send(a, 1, auth.rev, ver'[a])
    BY <1>1, <1>8
  <2>4. 1 \in {1, 2} /\ 1 # 2
    OBVIOUS
  <2> HIDE DEF At, Goto, Send
  <2> QED BY <1>1, <1>4, <1>5, <2>1, <2>2, <2>3, <2>4, SendKeeps DEF Kept
<1> QED BY <1>7, <1>8 DEF Start

LEMMA SucceedsKeeps == ASSUME PageInv, NEW a \in Act, Succeeds(a) PROVE Kept
<1>1. /\ pc[a] \in Waiting /\ reply # None /\ reply.what = "ok" /\ reply' = None
      /\ Confirm(a, reply.rev, reply.ver)
      /\ UNCHANGED <<board, landed, wire, auth, poll, local, unsure, hidden, body, pred, base, ver,
                     doubt>>
  BY DEF Succeeds, server, tasks, fixed
<1>2. reply.rev \in 1 .. board.rev /\ reply.ver \in Nat
  BY <1>1 DEF PageInv, AnswersAreAwaited, Typed, Reply
<1>3. landed[a] = 1
  BY <1>1 DEF PageInv, StepsAreSound, Informed
<1> QED BY <1>1, <1>2, <1>3, ConfirmKeeps DEF Kept

LEMMA RefusedKeeps == ASSUME PageInv, NEW a \in Act, Refused(a) PROVE Kept
<1>1. /\ pc[a] \in Waiting /\ reply # None /\ reply.what # "ok" /\ reply' = None
      /\ UNCHANGED <<board, landed, wire, auth, floor, poll, body, pred, base, ver, doubt,
                     confirmed>>
  BY DEF Refused, server, view, fixed
<1>2. Alone(a) /\ Pursued(a) /\ (ver[a] = 0 <=> body[a] = "add")
      /\ (~doubt[a] => landed[a] = 0 /\ Answered(a))
      /\ (At(a, "sent") => ~doubt[a])
  BY <1>1, RunsAlone DEF Pursued, PageInv, StepsAreSound, Undoubted, UnderWay
<1>3. doubt' \in [Act -> BOOLEAN] /\ doubt' = doubt
  BY <1>1 DEF PageInv, Typed
<1>4. CASE At(a, "sent") /\ Goto(a, "reread") /\ UNCHANGED <<tasks, verdict>>
  BY <1>1, <1>2, <1>3, <1>4, LookKeeps DEF Kept
<1>5. CASE ~doubt[a] /\ Refuse(a)
  BY <1>1, <1>2, <1>5, RefuseKeeps DEF Kept
<1>6. CASE At(a, "resent") /\ doubt[a] /\ Goto(a, "final") /\ UNCHANGED <<tasks, verdict>>
  BY <1>1, <1>2, <1>3, <1>6, LookKeeps DEF Kept
<1> QED BY <1>4, <1>5, <1>6 DEF Refused

LEMMA GivesUpKeeps == ASSUME PageInv, NEW a \in Act, GivesUp(a) PROVE Kept
<1>1. /\ pc[a] \in Waiting /\ reply' = None /\ doubt' = [doubt EXCEPT ![a] = TRUE]
      /\ UNCHANGED <<board, landed, wire, auth, floor, poll, body, pred, base, ver, confirmed>>
  BY DEF GivesUp, server, view, fixed
<1>2. /\ doubt' \in [Act -> BOOLEAN] /\ doubt'[a] /\ \A b \in Act \ {a} : doubt'[b] = doubt[b]
  BY <1>1 DEF PageInv, Typed
<1>3. a \in local
  BY <1>1 DEF PageInv, StepsAreSound, UnderWay
<1>4. CASE At(a, "sent") /\ Goto(a, "reread") /\ UNCHANGED <<tasks, verdict>>
  BY <1>1, <1>2, <1>4, LookKeeps DEF Kept
<1>5. CASE Doubt(a) /\ UNCHANGED <<local, hidden>>
  <2>1. unsure' = unsure \cup ({a} \cap local) /\ ~At(a, "confirm")
    BY <1>1, <1>3, <1>5 DEF Doubt
  <2> QED BY <1>1, <1>2, <1>5, <2>1, DoubtKeeps DEF Kept, Doubt
<1> QED BY <1>4, <1>5 DEF GivesUp

(* No answer is there while the page reads or judges.                      *)
LEMMA NoAnswer ==
  ASSUME PageInv, NEW a \in Act, pc[a] \in Reading \cup Judging
  PROVE  reply = None
  BY DEF PageInv, AnswersAreAwaited

(* What no part of the invariant looks at may change.                      *)
LEMMA UnheardKeeps ==
  ASSUME PageInv,
         UNCHANGED <<board, landed, wire, reply, auth, floor, local, unsure, hidden, body, pred,
                     base, pc, ver, doubt, verdict, confirmed>>,
         poll' # None => Past(poll')
  PROVE  Kept
<1>1. NothingIsAhead'
  BY DEF PageInv, NothingIsAhead, Past
<1>2. LandingsShow' /\ OneIsWanted' /\ ConfirmedStaysVisible'
  BY DEF PageInv, LandingsShow, OneIsWanted, ConfirmedStaysVisible, Projected
<1>3. RequestsAreBound' /\ AnswersAreAwaited'
  BY DEF PageInv, RequestsAreBound, AnswersAreAwaited, Wanted
<1>4. StepsAreSound'
  BY DEF PageInv, StepsAreSound, Unsubmitted, UnderWay, Undoubted, Informed, Answered, Wanted
<1> QED BY <1>1, <1>2, <1>3, <1>4 DEF Kept

LEMMA ReadBackKeeps == ASSUME PageInv, NEW a \in Act, ReadBack(a) PROVE Kept
  BY UnheardKeeps DEF ReadBack, server, view, tasks, fixed, PageInv, NothingIsAhead

LEMMA RereadKeeps == ASSUME PageInv, NEW a \in Act, Reread(a) PROVE Kept
<1>1. /\ pc[a] \in {"reread", "final"} /\ reply = None
      /\ back \in Snapshot /\ Past(back) /\ back.rev >= floor
      /\ pc' = [pc EXCEPT ![a] = IF At(a, "reread") THEN "judge" ELSE "verify"]
      /\ UNCHANGED <<board, landed, wire, reply, floor, poll, body, pred, base, ver, doubt,
                     confirmed>>
  BY NoAnswer DEF Reread, server, net, fixed, PageInv, Typed, ReadBackIsPast
<1>2. CASE Acceptable(back) /\ Acknowledge(back, {})
  <2>1. /\ pc' \in [Act -> Running \cup {"new", "open", "queued", "done"}]
        /\ \A b \in Act : \/ pc'[b] = pc[b]
                          \/ pc[b] = "reread" /\ pc'[b] = "judge"
                          \/ pc[b] = "final" /\ pc'[b] = "verify"
    BY <1>1 DEF PageInv, Typed
  <2>2. back.rev >= auth.rev /\ {} \in SUBSET Act /\ \A b \in {} : At(b, "confirm")
    BY <1>2 DEF Acceptable
  <2> QED BY <1>1, <1>2, <2>1, <2>2, ShownKeeps DEF Kept
<1>3. CASE Unacknowledged
  <2>1. /\ doubt[a] \/ (At(a, "reread") /\ landed[a] = 0 /\ Answered(a))
        /\ doubt' \in [Act -> BOOLEAN]
    BY <1>1 DEF PageInv, Typed, StepsAreSound, UnderWay, Undoubted
  <2>2. PICK step \in {"judge", "verify"} :
          pc' = [pc EXCEPT ![a] = step] /\ (step = "judge" <=> At(a, "reread"))
    BY <1>1
  <2> QED BY <1>1, <1>3, <2>1, <2>2, LookKeeps DEF Kept, Unacknowledged, tasks
<1> QED BY <1>2, <1>3 DEF Reread

(* A confirmed submission is forgotten; what the page shows is newer than  *)
(* what was read back.                                                     *)
LEMMA ForgottenKeeps ==
  ASSUME PageInv, NEW a \in Act, At(a, "confirm"), Forget(a), Say(a, "ok"), Goto(a, "done"),
         confirmed[a].rev <= auth.rev,
         UNCHANGED <<board, landed, wire, reply, auth, floor, poll, body, pred, base, ver, doubt,
                     confirmed>>
  PROVE  Kept
<1>1. /\ local' = local \ {a} /\ unsure' = unsure \ {a} /\ hidden' = hidden \ {a}
      /\ pc'[a] = "done" /\ verdict'[a] = "ok" /\ verdict[a] # "refused"
      /\ confirmed[a].rev > 0 /\ (body[a] \in Value \/ landed[a] = 1)
      /\ \A b \in Act \ {a} : pc'[b] = pc[b] /\ verdict'[b] = verdict[b]
  BY DEF Forget, PageInv, Typed, StepsAreSound, Informed
<1>2. NothingIsAhead' /\ LandingsShow'
  <2>1. NothingIsAhead'
    BY DEF PageInv, NothingIsAhead, Past
  <2>2. LandingsShow'
    BY DEF PageInv, LandingsShow
  <2> QED BY <2>1, <2>2
<1>3. RequestsAreBound' /\ AnswersAreAwaited'
  <2>1. RequestsAreBound'
    BY <1>1 DEF PageInv, RequestsAreBound, Typed, Request
  <2>2. reply = None
    BY DEF PageInv, AnswersAreAwaited
  <2> QED BY <1>1, <2>1, <2>2 DEF PageInv, AnswersAreAwaited
<1>4. StepsAreSound'
  <2> SUFFICES ASSUME NEW b \in Act
               PROVE  /\ pc'[b] \in {"new", "open"} => Unsubmitted(b)'
                      /\ pc'[b] \notin {"new", "open"} =>
                           body[b] \in Body /\ (ver[b] = 0 <=> body[b] = "add")
                      /\ Pursued(b)' => UnderWay(b)'
                      /\ b \in unsure' => At(b, "done")'
                      /\ Undoubted(b)' /\ Informed(b)'
    BY DEF PageInv, StepsAreSound, Pursued
  <2>1. CASE b = a
    BY <1>1, <2>1 DEF PageInv, StepsAreSound, Undoubted, Informed, Pursued
  <2>2. CASE b # a
    <3>1. /\ (b \in local' <=> b \in local) /\ (b \in unsure' <=> b \in unsure)
          /\ pc'[b] = pc[b] /\ verdict'[b] = verdict[b]
      BY <1>1, <2>2
    <3>2. Undoubted(b)'
      BY <2>2, <3>1, OthersQuiet, RunsAlone
    <3>3. Informed(b)'
      BY <3>1 DEF PageInv, StepsAreSound, Informed, Answered
    <3> QED BY <3>1, <3>2, <3>3 DEF PageInv, StepsAreSound, Unsubmitted, UnderWay, Pursued
  <2> QED BY <2>1, <2>2
<1>5. OneIsWanted'
  <2>1. \A b \in Act : verdict[b] = "refused" => verdict'[b] = "refused"
    BY <1>1
  <2> QED BY <2>1 DEF PageInv, OneIsWanted
<1>6. ConfirmedStaysVisible'
  BY <1>1 DEF PageInv, ConfirmedStaysVisible, Projected, Typed, Snapshot
<1> QED BY <1>2, <1>3, <1>4, <1>5, <1>6 DEF Kept

LEMMA FinishKeeps == ASSUME PageInv, NEW a \in Act, Finish(a) PROVE Kept
<1>1. /\ At(a, "confirm") /\ Goto(a, "done")
      /\ back \in Snapshot /\ Past(back) /\ back.rev >= floor
      /\ UNCHANGED <<board, landed, wire, reply, floor, poll, body, pred, base, ver, doubt,
                     confirmed>>
  BY DEF Finish, server, fixed, PageInv, Typed, ReadBackIsPast
<1>2. CASE Acceptable(back) /\ Acknowledge(back, {a})
  <2>1. /\ pc' \in [Act -> Running \cup {"new", "open", "queued", "done"}]
        /\ \A b \in Act : pc'[b] = pc[b] \/ (b \in {a} /\ pc'[b] = "done")
    BY <1>1 DEF PageInv, Typed
  <2>2. back.rev >= auth.rev /\ {a} \in SUBSET Act /\ \A b \in {a} : At(b, "confirm")
    BY <1>1, <1>2 DEF Acceptable
  <2> QED BY <1>1, <1>2, <2>1, <2>2, ShownKeeps DEF Kept
<1>3. CASE ~Acceptable(back) /\ Forget(a) /\ Say(a, "ok") /\ UNCHANGED auth
  <2>1. /\ confirmed[a].rev \in Nat /\ auth.rev \in Nat /\ floor \in Nat /\ back.rev \in Nat
        /\ confirmed[a].rev <= auth.rev \/ confirmed[a].rev <= floor
    BY <1>1 DEF PageInv, Typed, Snapshot, NothingIsAhead
  <2>2. confirmed[a].rev <= auth.rev
    BY <1>1, <1>3, <2>1 DEF Acceptable
  <2> QED BY <1>1, <1>3, <2>2, ForgottenKeeps
<1> QED BY <1>2, <1>3 DEF Finish

LEMMA RereadFailsKeeps == ASSUME PageInv, NEW a \in Act, RereadFails(a) PROVE Kept
<1>1. /\ pc[a] \in Reading /\ reply = None
      /\ UNCHANGED <<board, landed, wire, reply, auth, floor, poll, local, hidden, body, pred, base,
                     ver, doubt, confirmed>>
      /\ unsure' = unsure \cup ({a} \cap local) /\ Goto(a, "done")
      /\ Say(a, IF At(a, "confirm") THEN "ok" ELSE "unknown")
  BY NoAnswer DEF RereadFails, server, view, fixed
<1>2. doubt' \in [Act -> BOOLEAN] /\ doubt' = doubt
  BY <1>1 DEF PageInv, Typed
<1>3. PICK what \in {"ok", "unknown"} :
        verdict' = [verdict EXCEPT ![a] = what] /\ (what = "ok" <=> At(a, "confirm"))
  BY <1>1
<1> QED BY <1>1, <1>2, <1>3, DoubtKeeps DEF Kept

(* What is proven has landed, unless it is an edit, of which nobody claims *)
(* more than that the card has its value.                                  *)
LEMMA ProvenLanded ==
  ASSUME PageInv, NEW a \in Act, Proven(a),
         back # None
  PROVE  (body[a] \in Value \/ landed[a] = 1) /\ back.rev \in 1 .. board.rev
  BY DEF PageInv, Proven, Satisfied, ReadBackIsPast, Past, LandingsShow

(* What was read back does not show the landing of what it may repeat.     *)
LEMMA RepeatedIsNew ==
  ASSUME PageInv, NEW a \in Act, Repeatable(a), back # None
  PROVE  back.rev \in 1 .. board.rev /\ (landed[a] = 1 => back.rev < board.rev)
<1>1. back.rev \in 1 .. board.rev /\ board.rev \in Nat /\ (back.rev = board.rev => back = board)
  BY DEF PageInv, ReadBackIsPast, Past, Typed, Snapshot
<1>2. ASSUME landed[a] = 1 PROVE back # board
  <2>1. CASE body[a] = "add"
    BY <1>2, <2>1 DEF PageInv, LandingsShow, Repeatable
  <2>2. CASE body[a] # "add"
    <3>1. board.ver > ver[a] /\ back.ver = ver[a] /\ ver[a] \in Nat
      BY <1>2, <2>2 DEF PageInv, Typed, LandingsShow, Repeatable
    <3> QED BY <3>1
  <2> QED BY <2>1, <2>2
<1> QED BY <1>1, <1>2

LEMMA JudgeKeeps == ASSUME PageInv, NEW a \in Act, Judge(a) PROVE Kept
<1>1. /\ pc[a] = "judge" /\ reply = None /\ back # None
      /\ UNCHANGED <<board, landed, reply, auth, poll, body, pred, base, ver, doubt>>
  BY NoAnswer DEF Judge, server, fixed, PageInv, ReadBackIsPast
<1>2. Alone(a) /\ Pursued(a) /\ a \in local /\ (ver[a] = 0 <=> body[a] = "add")
      /\ (~doubt[a] => landed[a] = 0 /\ Answered(a))
  BY <1>1, RunsAlone DEF Pursued, PageInv, StepsAreSound, Undoubted, UnderWay
<1>3. doubt' \in [Act -> BOOLEAN]
  BY <1>1 DEF PageInv, Typed
<1>4. CASE Proven(a) /\ Confirm(a, back.rev, 0) /\ UNCHANGED <<wire, tasks>>
  BY <1>1, <1>4, ProvenLanded, ConfirmKeeps DEF Kept, tasks
<1>5. CASE /\ Repeatable(a) /\ Send(a, 2, back.rev, ver[a]) /\ Goto(a, "resent")
           /\ Unconfirmed /\ UNCHANGED <<tasks, verdict>>
  BY <1>1, <1>2, <1>5, RepeatedIsNew, SendKeeps DEF Kept, Unconfirmed
<1>6. CASE Unconfirmed /\ UNCHANGED wire /\ ~doubt[a] /\ Refuse(a)
  BY <1>1, <1>2, <1>6, RefuseKeeps DEF Kept, Unconfirmed
<1>7. CASE /\ Unconfirmed /\ UNCHANGED wire /\ doubt[a] /\ Goto(a, "final")
           /\ UNCHANGED <<tasks, verdict>>
  BY <1>1, <1>2, <1>3, <1>7, LookKeeps DEF Kept, Unconfirmed
<1>8. CASE Unconfirmed /\ UNCHANGED wire /\ Doubt(a) /\ UNCHANGED <<local, hidden>>
  BY <1>1, <1>2, <1>3, <1>8, DoubtKeeps DEF Kept, Unconfirmed, Doubt
<1> QED BY <1>4, <1>5, <1>6, <1>7, <1>8 DEF Judge

LEMMA VerifyKeeps == ASSUME PageInv, NEW a \in Act, Verify(a) PROVE Kept
<1>1. /\ pc[a] = "verify" /\ reply = None /\ back # None
      /\ UNCHANGED <<board, landed, wire, reply, auth, poll, body, pred, base, ver, doubt>>
  BY NoAnswer DEF Verify, server, fixed, PageInv, ReadBackIsPast
<1>2. a \in local /\ doubt' \in [Act -> BOOLEAN]
  BY <1>1 DEF PageInv, StepsAreSound, UnderWay, Typed
<1>3. CASE Proven(a) /\ Confirm(a, back.rev, 0) /\ UNCHANGED tasks
  BY <1>1, <1>3, ProvenLanded, ConfirmKeeps DEF Kept, tasks
<1>4. CASE Doubt(a) /\ Unconfirmed /\ UNCHANGED <<local, hidden>>
  BY <1>1, <1>2, <1>4, DoubtKeeps DEF Kept, Unconfirmed, Doubt
<1> QED BY <1>3, <1>4 DEF Verify

LEMMA PollKeeps == ASSUME PageInv, PollRead \/ PollArrives PROVE Kept
<1>2. CASE PollRead
  BY <1>2, UnheardKeeps DEF PollRead, server, net, view, tasks, fixed, PageInv, NothingIsAhead
<1>3. CASE PollArrives
  <2>1. /\ poll # None /\ poll' = None
        /\ UNCHANGED <<board, landed, wire, reply, floor, body, pred, base, pc, ver, doubt,
                       confirmed>>
    BY <1>3 DEF PollArrives, server, net, fixed
  <2>2. CASE Acceptable(poll) /\ Acknowledge(poll, {})
    <3>1. /\ poll \in Snapshot /\ Past(poll) /\ poll.rev >= auth.rev /\ poll.rev >= floor
          /\ {} \in SUBSET Act /\ \A b \in {} : At(b, "confirm")
      BY <2>1, <2>2 DEF Acceptable, PageInv, Typed, NothingIsAhead
    <3> QED BY <2>1, <2>2, <3>1, ShownKeeps DEF Kept, PageInv, Typed
  <2>3. CASE Unacknowledged
    BY <2>1, <2>3, UnheardKeeps DEF Unacknowledged
  <2> QED BY <1>3, <2>2, <2>3 DEF PollArrives
<1> QED BY <1>2, <1>3

LEMMA ServeKeeps == ASSUME PageInv, Serve PROVE Kept
  BY ExecuteKeeps, DeclineKeeps DEF Serve, Kept

LEMMA StutterKeeps == ASSUME PageInv, UNCHANGED vars PROVE Kept
<1> USE DEF vars, server, net, view, tasks, fixed
<1>1. NothingIsAhead' /\ LandingsShow' /\ OneIsWanted' /\ ConfirmedStaysVisible'
  BY DEF PageInv, NothingIsAhead, Past, LandingsShow, OneIsWanted, ConfirmedStaysVisible, Projected
<1>2. RequestsAreBound' /\ AnswersAreAwaited'
  BY DEF PageInv, RequestsAreBound, AnswersAreAwaited, Wanted
<1>3. StepsAreSound'
  BY DEF PageInv, StepsAreSound, Unsubmitted, UnderWay, Undoubted, Informed, Answered, Wanted
<1> QED BY <1>1, <1>2, <1>3 DEF Kept

(* The board only moves on, so what it was stays what it was.              *)
LEMMA PastStays ==
  ASSUME PageInv, [Next]_vars, NEW s \in Snapshot, Past(s)
  PROVE  Past(s)'
<1>1. board.rev \in Nat /\ board.ver \in Nat /\ s.rev \in Nat /\ s.ver \in Nat
  BY DEF PageInv, Typed, Snapshot
<1>2. \/ board' = board
      \/ /\ board'.rev = board.rev + 1 /\ board'.ver \in {board.ver, board.ver + 1}
         /\ board.added \subseteq board'.added
  <2>1. CASE Serve
    <3>1. PICK r \in wire : Execute(r) \/ Decline(r) \/ Lose(r)
      BY <2>1 DEF Serve
    <3> QED BY <3>1 DEF Execute, Decline, Lose, server
  <2>2. CASE Others
    BY <2>2 DEF Others, PageInv, Typed, Snapshot
  <2>3. CASE ~Serve /\ ~Others
    <3> USE DEF server
    <3>1. ASSUME NEW a \in Act, Open(a) \/ Save(a) \/ Submit(a) \/ Start(a) \/ Succeeds(a)
                                 \/ Refused(a) \/ GivesUp(a)
          PROVE  board' = board
      BY <3>1 DEF Open, Save, Submit, Enqueue, Start, Succeeds, Refused, GivesUp
    <3>2. ASSUME NEW a \in Act, ReadBack(a) \/ Reread(a) \/ Finish(a) \/ RereadFails(a)
                                 \/ Judge(a) \/ Verify(a)
          PROVE  board' = board
      BY <3>2 DEF ReadBack, Reread, Finish, RereadFails, Judge, Verify
    <3>3. CASE PollRead \/ PollArrives \/ Reload \/ UNCHANGED vars
      BY <3>3 DEF PollRead, PollArrives, Reload, vars
    <3> QED BY <2>3, <3>1, <3>2, <3>3 DEF Next
  <2> QED BY <2>1, <2>2, <2>3
<1> QED BY <1>1, <1>2 DEF Past

(* What is read back is kept until it has been judged.                     *)
LEMMA ReadBackStep == ASSUME PageInv, [Next]_vars PROVE ReadBackIsPast'
<1> USE DEF server, net, view, tasks, fixed
<1>1. ASSUME NEW a \in Act, ReadBack(a) \/ Reread(a) \/ Finish(a) \/ RereadFails(a)
                             \/ Judge(a) \/ Verify(a)
      PROVE  /\ back' \in {back, board, None}
             /\ \A b \in Act : pc'[b] \in Judging => back' # None
  <2>1. Alone(a) /\ pc \in [Act -> Running \cup {"new", "open", "queued", "done"}]
    BY <1>1, RunsAlone DEF ReadBack, Reread, Finish, RereadFails, Judge, Verify, PageInv, Typed
  <2>2. CASE ReadBack(a)
    BY <2>1, <2>2 DEF ReadBack, Alone
  <2>3. CASE Reread(a)
    BY <2>3 DEF Reread
  <2>4. CASE Finish(a) \/ RereadFails(a)
    BY <2>1, <2>4 DEF Finish, RereadFails, Alone
  <2>5. CASE Judge(a) \/ Verify(a)
    BY <2>1, <2>5 DEF Judge, Verify, Alone, Confirm, Refuse, Doubt
  <2> QED BY <1>1, <2>2, <2>3, <2>4, <2>5
<1>2. ASSUME UNCHANGED back,
             \A b \in Act : pc'[b] \in Judging => pc[b] \in Judging
      PROVE  /\ back' \in {back, board, None}
             /\ \A b \in Act : pc'[b] \in Judging => back' # None
  BY <1>2 DEF PageInv, ReadBackIsPast
<1>3. ASSUME NEW a \in Act, Open(a) \/ Save(a) \/ Submit(a) \/ Start(a) \/ Succeeds(a)
                             \/ Refused(a) \/ GivesUp(a)
      PROVE  /\ UNCHANGED back
             /\ \A b \in Act : pc'[b] \in Judging => pc[b] \in Judging
  <2>1. pc \in [Act -> Running \cup {"new", "open", "queued", "done"}]
    BY DEF PageInv, Typed
  <2>2. CASE Open(a) \/ Save(a) \/ Submit(a)
    BY <2>1, <2>2 DEF Open, Save, Submit, Enqueue
  <2>3. CASE Start(a) \/ Succeeds(a)
    BY <2>1, <2>3 DEF Start, Succeeds, Confirm, Refuse
  <2>4. CASE Refused(a) \/ GivesUp(a)
    BY <2>1, <2>4 DEF Refused, GivesUp, Refuse, Doubt
  <2> QED BY <1>3, <2>2, <2>3, <2>4
<1>4. CASE Reload
  BY <1>4 DEF Reload, ReadBackIsPast
<1>5. ASSUME PollRead \/ PollArrives \/ Serve \/ Others \/ UNCHANGED vars
      PROVE  /\ back' \in {back, board, None}
             /\ \A b \in Act : pc'[b] \in Judging => back' # None
  <2>1. UNCHANGED <<back, pc>>
    BY <1>5 DEF PollRead, PollArrives, Serve, Others, vars
  <2> QED BY <1>2, <2>1
<1>6. \/ ReadBackIsPast'
      \/ /\ back' \in {back, board, None}
         /\ \A b \in Act : pc'[b] \in Judging => back' # None
  BY <1>1, <1>2, <1>3, <1>4, <1>5 DEF Next
<1>7. board \in Snapshot /\ Past(board) /\ (back # None => back \in Snapshot /\ Past(back))
  BY DEF PageInv, Typed, NothingIsAhead, ReadBackIsPast
<1>8. ASSUME back' \in {back, board}, back' # None PROVE Past(back)'
  <2>1. PICK s \in Snapshot : s = back' /\ Past(s)
    BY <1>7, <1>8
  <2>2. Past(s)'
    BY <2>1, PastStays
  <2> QED BY <2>1, <2>2 DEF Past
<1> QED BY <1>6, <1>8 DEF ReadBackIsPast

LEMMA PageStep == ASSUME PageInv, [Next]_vars PROVE PageInv'
<1>1. Typed' /\ ReadBackIsPast'
  BY TypedStep, ReadBackStep DEF PageInv
<1>2. Kept
  <2>1. ASSUME NEW a \in Act,
               Open(a) \/ Save(a) \/ Submit(a) \/ Start(a) \/ Succeeds(a) \/ Refused(a)
                 \/ GivesUp(a) \/ ReadBack(a) \/ Reread(a) \/ Finish(a) \/ RereadFails(a)
                 \/ Judge(a) \/ Verify(a)
        PROVE  Kept
    <3>1. CASE Open(a)
      BY <3>1, OpenKeeps DEF Kept
    <3> QED BY <2>1, <3>1, SaveKeeps, SubmitKeeps, StartKeeps, SucceedsKeeps, RefusedKeeps,
               GivesUpKeeps, ReadBackKeeps, RereadKeeps, FinishKeeps, RereadFailsKeeps, JudgeKeeps,
               VerifyKeeps
  <2>2. CASE Reload
    BY <2>2, ReloadKeeps DEF Kept
  <2>3. CASE Others
    BY <2>3, OthersKeep DEF Kept
  <2> QED BY <2>1, <2>2, <2>3, PollKeeps, ServeKeeps, StutterKeeps DEF Next
<1> QED BY <1>1, <1>2 DEF PageInv, Kept

LEMMA PageInit == ASSUME Init PROVE PageInv
<1> USE DEF Init
<1>1. Typed
  BY DEF Typed, Snapshot, NoConfirmation
<1>2. NothingIsAhead /\ ReadBackIsPast /\ LandingsShow /\ RequestsAreBound /\ AnswersAreAwaited
  BY PageAssumption
     DEF NothingIsAhead, ReadBackIsPast, Past, LandingsShow, RequestsAreBound, AnswersAreAwaited,
         NoConfirmation, PageAssumption
<1>3. StepsAreSound
  <2> SUFFICES ASSUME NEW a \in Act
               PROVE  Unsubmitted(a) /\ Undoubted(a) /\ Informed(a) /\ pc[a] = "new"
                      /\ a \notin unsure /\ pred[a] = None
    BY DEF StepsAreSound
  <2>1. Unsubmitted(a) /\ pc[a] = "new" /\ a \notin unsure /\ pred[a] = None
    BY DEF Unsubmitted, NoConfirmation
  <2> QED BY <2>1 DEF Unsubmitted, Undoubted, Informed
<1>4. OneIsWanted /\ ConfirmedStaysVisible
  BY PageAssumption DEF OneIsWanted, ConfirmedStaysVisible, NoConfirmation, PageAssumption
<1> QED BY <1>1, <1>2, <1>3, <1>4 DEF PageInv

(* The invariant holds in every state the page and the service reach.      *)
THEOREM PageIsSound == Spec => []PageInv
<1>1. Init => PageInv
  BY PageInit
<1>2. PageInv /\ [Next]_vars => PageInv'
  BY PageStep
<1> QED BY <1>1, <1>2, PTL DEF Spec

(* However requests, answers and polls cross, and however often the page   *)
(* is loaded anew, its variables keep their types.                         *)
THEOREM PageTypes == Spec => []TypeOK
<1> DEFINE Rest == /\ outside \in Nat /\ earlier \in [Act -> SUBSET Act]
                   /\ foreign \in 0 .. MaxForeign /\ reloads \in 0 .. MaxReloads
<1>1. Init => Rest
  BY PageAssumption DEF Init, PageAssumption
<1>2. PageInv /\ Rest /\ [Next]_vars => Rest'
  <2> SUFFICES ASSUME PageInv, Rest, [Next]_vars PROVE Rest'
    OBVIOUS
  <2> USE DEF vars, server, net, view, tasks, fixed
  <2>1. CASE UNCHANGED <<outside, earlier, foreign, reloads>>
    BY <2>1
  <2>2. ASSUME NEW a \in Act, NEW b, NEW v, Enqueue(a, b, v)
        PROVE  Rest'
    BY <2>2 DEF Enqueue, PageInv, Typed
  <2>3. CASE Serve
    BY <2>1, <2>3 DEF Serve, Execute, Decline, Lose
  <2>4. CASE Others
    <3>1. board'.ver \in Nat
      BY <2>4, PageStep DEF Next, PageInv, Typed, Snapshot
    <3>2. foreign' \in 0 .. MaxForeign
      <4>1. MaxForeign \in Nat /\ foreign \in 0 .. MaxForeign
        BY PageAssumption DEF PageAssumption
      <4>2. foreign < MaxForeign /\ foreign' = foreign + 1
        BY <2>4 DEF Others
      <4> QED BY <4>1, <4>2
    <3>3. outside' \in Nat
      BY <2>4, <3>1 DEF Others
    <3> QED BY <2>4, <3>2, <3>3 DEF Others
  <2>5. CASE Reload
    BY <2>5, PageAssumption DEF Reload, PageAssumption
  <2>6. CASE PollRead \/ PollArrives
    BY <2>1, <2>6 DEF PollRead, PollArrives
  <2>7. ASSUME NEW a \in Act, Open(a) \/ Save(a) \/ Submit(a)
        PROVE  Rest'
    BY <2>1, <2>2, <2>7 DEF Open, Save, Submit
  <2>8. ASSUME NEW a \in Act,
               Start(a) \/ Succeeds(a) \/ Refused(a) \/ GivesUp(a) \/ ReadBack(a) \/ Reread(a)
                 \/ Finish(a) \/ RereadFails(a) \/ Judge(a) \/ Verify(a)
        PROVE  Rest'
    BY <2>1, <2>8 DEF Start, Succeeds, Refused, GivesUp, ReadBack, Reread, Finish, RereadFails,
                      Judge, Verify
  <2> QED BY <2>1, <2>3, <2>4, <2>5, <2>6, <2>7, <2>8 DEF Next
<1>3. PageInv /\ Rest => TypeOK
  BY DEF PageInv, Typed, TypeOK
<1> HIDE DEF Rest
<1> QED BY <1>1, <1>2, <1>3, PageIsSound, PTL DEF Spec

(* The author is never told "refused" of what was or will be executed, nor *)
(* "ok" of an addition or a comment that is not there exactly once.        *)
THEOREM AuthorsAreToldTheTruth == Spec => []VerdictsAreHonest
<1>1. PageInv => VerdictsAreHonest
  <2> SUFFICES ASSUME PageInv, NEW a \in Act
               PROVE  /\ verdict[a] = "refused" => landed[a] = 0
                      /\ verdict[a] = "ok" /\ ~Edit(a) => landed[a] = 1
    BY DEF VerdictsAreHonest
  <2> QED BY DEF PageInv, StepsAreSound, Informed
<1> QED BY <1>1, PageIsSound, PTL

(* No card and no comment is made twice, though its author may submit it   *)
(* again after a doubt.                                                    *)
THEOREM NothingIsMadeTwice == Spec => []WantedOnce
<1>1. PageInv => WantedOnce
  <2> SUFFICES ASSUME PageInv, NEW a \in Act, NEW c \in Act, landed[a] > 0, landed[c] > 0,
                      body[a] = body[c], ~Edit(a), a # c
               PROVE  FALSE
    BY DEF WantedOnce
  <2>1. verdict[a] # "refused" /\ verdict[c] # "refused"
    BY DEF PageInv, StepsAreSound, Informed
  <2>2. body[a] \in {"add", "comment"}
    <3>1. pc[a] \notin {"new", "open"}
      BY DEF PageInv, StepsAreSound, Unsubmitted
    <3> QED BY <3>1 DEF PageInv, StepsAreSound, Body
  <2> QED BY <2>1, <2>2 DEF PageInv, OneIsWanted
<1> QED BY <1>1, PageIsSound, PTL

(* What was confirmed to the author never leaves the page again.           *)
THEOREM ConfirmationsStay == Spec => []ConfirmedStaysVisible
<1>1. PageInv => ConfirmedStaysVisible
  BY DEF PageInv
<1> QED BY <1>1, PageIsSound, PTL

(* A submission is executed at most once, whichever of its requests the    *)
(* service gets and however late.                                          *)
THEOREM SubmissionsLandOnce == Spec => [](\A a \in Act : landed[a] \in {0, 1})
<1>1. PageInv => \A a \in Act : landed[a] \in {0, 1}
  BY DEF PageInv, LandingsShow
<1> QED BY <1>1, PageIsSound, PTL
=============================================================================
