------------------------------ MODULE BoardStore ------------------------------
(***************************************************************************)
(* BoardStore (api_endpoint.py) between its clients and the board file.    *)
(* Every command and every read of one process holds the store's mutex, so *)
(* `op' is the single operation under way, one step per call that may      *)
(* fail.  The file itself can change under it: a hand edit or a restored   *)
(* older file respects neither the mutex nor the file lock.                *)
(*                                                                         *)
(* A document is its revision, each card's accepted edits in order, the    *)
(* attached files, whether its audits pass (sound) and whether some        *)
(* blocker is below its floor (low).                                       *)
(***************************************************************************)
EXTENDS Integers, Sequences, FiniteSets

CONSTANTS
  Client, Card, None,
  Hand,          \* the hand that edits the file directly
  MaxSends,      \* most requests sent by all clients together
  MaxEdits,      \* most hand edits; 0 also excludes restoring an older file
  MaxCrashes,
  MayStartLow    \* the first file may be below its floors

Request == Client \X (1..MaxSends)
Edit == Request \cup ({Hand} \X Nat)
Document == [rev : Nat, body : [Card -> Seq(Edit)], files : SUBSET Request,
             sound : BOOLEAN, low : BOOLEAN]
Command == [id : Request, card : Card, rev : Nat, body : Seq(Edit) \cup {None}, upload : BOOLEAN]

(* What holds the mutex: a command, or a read for a client or for None.    *)
Executing ==
  [kind : {"command"}, cmd : Command, doc : Document \cup {None}, blob : BOOLEAN, tries : Nat,
   pc : {"load", "command", "verify", "save", "replace", "unlock", "publish", "failed"},
   outcome : {"uncommitted", "unknown", "committed"}, fail : {None, "refused", "unknown"}]
Reading ==
  [kind : {"read"}, pc : {"read", "reconcile", "repair"}, by : Client \cup {None},
   doc : Document \cup {None}, tries : Nat]

(* A request that may still take effect, as AtomicBoard sees it.           *)
Waiting == [card : Card, rev : Nat]

ASSUME StoreAssumption ==
  /\ IsFiniteSet(Client) /\ Hand \notin Client
  /\ None \notin Client \cup Document \cup Executing \cup Reading \cup Waiting
  /\ MaxSends \in Nat /\ MaxEdits \in Nat /\ MaxCrashes \in Nat
  /\ MayStartLow \in BOOLEAN

VARIABLES
  disk, blobs,        \* the board file; the attachment files
  up, memory, cached, \* the process; _board; the document of _admitted_bytes
  op,                 \* the operation that holds the mutex, or None
  inbox,              \* commands received and waiting for the mutex
  client,             \* per client: requests sent, document seen, waiting
  verdict,            \* the answer to each request
  landed,             \* commands whose document replaced the file
  leftover,           \* blobs nothing will remove any more
  edits, crashes, former  \* bounds; every document the file has been

process == <<up, memory, cached>>
bounds  == <<edits, crashes>>
vars == <<disk, blobs, process, op, inbox, client, verdict, landed, leftover, bounds, former>>

Blank(low) == [rev |-> 0, body |-> [c \in Card |-> <<>>], files |-> {},
               sound |-> TRUE, low |-> low]

Idle == [sent |-> 0, seen |-> None, waiting |-> FALSE]

Init ==
  /\ \E low \in {FALSE, MayStartLow} : disk = Blank(low)
  /\ blobs = {} /\ up = FALSE /\ memory = None /\ cached = None
  /\ op = None /\ inbox = {}
  /\ client = [x \in Client |-> Idle]
  /\ verdict = [r \in Request |-> None] /\ landed = {} /\ leftover = {}
  /\ edits = 0 /\ crashes = 0 /\ former = {disk}

-----------------------------------------------------------------------------
(* Clients.                                                                *)

Latest(x) == <<x, client[x].sent>>
Sent == {r \in Request : r[2] <= client[r[1]].sent}
Seen(x, doc) == \E c \in Card : \E k \in DOMAIN doc.body[c] : doc.body[c][k][1] = x

(* card_version, of everything the file keeps about a card.                *)
CardVersion(doc, c) == doc.body[c]

(* apply_remote_mutation and the page: a command carries If-Match, and the *)
(* page's edits (`bound') If-Match-Card too, of what the client last saw.  *)
(* A client repeats itself after any answer but ok, and after giving up,   *)
(* until it sees its own edit.                                             *)
Send(x, c, bound, upload) ==
  /\ up
  /\ client[x].seen # None /\ ~client[x].waiting /\ Cardinality(Sent) < MaxSends
  /\ client[x].sent > 0 => verdict[Latest(x)] # "ok"
  /\ ~Seen(x, client[x].seen)
  /\ inbox' = inbox \cup
       {[id |-> <<x, client[x].sent + 1>>, card |-> c, rev |-> client[x].seen.rev,
         body |-> IF bound THEN CardVersion(client[x].seen, c) ELSE None, upload |-> upload]}
  /\ client' = [client EXCEPT ![x].sent = @ + 1, ![x].waiting = TRUE]
  /\ UNCHANGED <<disk, blobs, process, op, verdict, landed, leftover, bounds, former>>

(* The client stops waiting, as _service_json does after its timeout; what *)
(* it sent is still with the service: "mutation outcome is unknown".       *)
GiveUp(x) ==
  /\ client[x].waiting
  /\ client' = [client EXCEPT ![x].waiting = FALSE]
  /\ UNCHANGED <<disk, blobs, process, op, inbox, verdict, landed, leftover, bounds, former>>

(* The verdict on the operation's request; a client still waiting gets it. *)
Tell(v) ==
  LET id == op.cmd.id
  IN  /\ verdict' = [verdict EXCEPT ![id] = v]
      /\ client' = IF Latest(id[1]) = id THEN [client EXCEPT ![id[1]].waiting = FALSE]
                                         ELSE client

Replaced(doc) == disk' = doc /\ former' = former \cup {doc}

-----------------------------------------------------------------------------
(* A command: BoardStore.execute and upload.                               *)

At(kind, pc) == op # None /\ op.kind = kind /\ op.pc = pc
Goto(pc) == op' = [op EXCEPT !.pc = pc]
(* An exception: BoardError is a definite refusal, OSError an unknown one. *)
Raise(v) == op' = [op EXCEPT !.pc = "failed", !.fail = v]

(* execute: the mutex; nothing read before is taken for admitted.          *)
BeginCommand(m) ==
  /\ up /\ op = None /\ m \in inbox
  /\ op' = [kind |-> "command", pc |-> "load", cmd |-> m, doc |-> None, blob |-> FALSE,
            outcome |-> "uncommitted", fail |-> None, tries |-> 0]
  /\ inbox' = inbox \ {m}
  /\ cached' = None
  /\ UNCHANGED <<disk, blobs, up, memory, client, verdict, landed, leftover, bounds, former>>

(* MUTANT of Load: the revision is not compared.                           *)
LoadAnyRevision ==
  /\ At("command", "load")
  /\ op' = [op EXCEPT !.pc = "command", !.doc = disk]
  /\ UNCHANGED <<disk, blobs, process, inbox, client, verdict, landed, leftover, bounds, former>>

(* MUTANT of Load: only the revision is compared.                          *)
LoadAnyCard ==
  /\ At("command", "load")
  /\ LET m == op.cmd
     IN  IF disk.rev # m.rev THEN Raise("refused")
         ELSE op' = [op EXCEPT !.pc = "command", !.doc = disk]
  /\ UNCHANGED <<disk, blobs, process, inbox, client, verdict, landed, leftover, bounds, former>>

(* edit(): lock, load, compare the revision and the card with what the     *)
(* client saw.  A lock that stays taken is a BoardError.                   *)
Load ==
  /\ At("command", "load")
  /\ LET m == op.cmd
     IN  \/ \E v \in {"refused", "unknown"} : Raise(v)
         \/ IF disk.rev # m.rev \/ (m.body # None /\ CardVersion(disk, m.card) # m.body)
            THEN Raise("refused")
            ELSE op' = [op EXCEPT !.pc = "command", !.doc = disk]
  /\ UNCHANGED <<disk, blobs, process, inbox, client, verdict, landed, leftover, bounds, former>>

(* upload: the blob is written before the document can name it.            *)
WriteBlob ==
  /\ op.cmd.upload
  /\ \/ Raise("unknown") /\ UNCHANGED blobs
     \/ /\ blobs' = blobs \cup {op.cmd.id}
        /\ op' = [op EXCEPT !.pc = "verify", !.blob = TRUE]

(* execute_http_command, the command itself: the domain may refuse it.     *)
RunCommand ==
  /\ At("command", "command")
  /\ \/ Raise("refused") /\ UNCHANGED blobs
     \/ ~op.cmd.upload /\ Goto("verify") /\ UNCHANGED blobs
     \/ WriteBlob
  /\ UNCHANGED <<disk, process, inbox, client, verdict, landed, leftover, bounds, former>>

(* What the command makes of the loaded document.                          *)
Candidate(doc, m) ==
  [doc EXCEPT !.rev = @ + 1, !.low = FALSE,
              !.body[m.card] = Append(@, m.id),
              !.files = IF m.upload THEN @ \cup {m.id} ELSE @]

(* enforce_dependency_priorities, verify, and the new revision.            *)
Verify ==
  /\ At("command", "verify")
  /\ IF op.doc.sound
     THEN op' = [op EXCEPT !.pc = "save", !.doc = Candidate(op.doc, op.cmd)]
     ELSE Raise("refused")
  /\ UNCHANGED <<disk, blobs, process, inbox, client, verdict, landed, leftover, bounds, former>>

(* save(): the temporary file is written in full before anything is        *)
(* replaced; from here on the outcome is unknown.                          *)
Save ==
  /\ At("command", "save")
  /\ \/ Raise("unknown")
     \/ op' = [op EXCEPT !.pc = "replace", !.outcome = "unknown"]
  /\ UNCHANGED <<disk, blobs, process, inbox, client, verdict, landed, leftover, bounds, former>>

(* MUTANT of Replace: a replacement that raises is taken not to have       *)
(* happened.                                                               *)
ReplaceRefused ==
  /\ At("command", "replace")
  /\ \/ /\ Replaced(op.doc) /\ landed' = landed \cup {op.cmd}
        /\ op' = [op EXCEPT !.pc = "unlock", !.outcome = "committed"]
     \/ /\ Replaced(op.doc) /\ landed' = landed \cup {op.cmd}
        /\ Raise("refused")
     \/ Raise("refused") /\ UNCHANGED <<disk, former, landed>>
  /\ UNCHANGED <<blobs, process, inbox, client, verdict, leftover, bounds>>

(* _replace_with_retry: a replacement that raises may have happened.       *)
Replace ==
  /\ At("command", "replace")
  /\ \/ /\ Replaced(op.doc) /\ landed' = landed \cup {op.cmd}
        /\ op' = [op EXCEPT !.pc = "unlock", !.outcome = "committed"]
     \/ /\ Replaced(op.doc) /\ landed' = landed \cup {op.cmd}
        /\ Raise("unknown")
     \/ Raise("unknown") /\ UNCHANGED <<disk, former, landed>>
  /\ UNCHANGED <<blobs, process, inbox, client, verdict, leftover, bounds>>

(* Leaving edit() releases the file lock, which can fail after the commit. *)
Unlock ==
  /\ At("command", "unlock")
  /\ Goto("publish") \/ Raise("unknown")
  /\ UNCHANGED <<disk, blobs, process, inbox, client, verdict, landed, leftover, bounds, former>>

(* _publish_candidate, and the answer.                                     *)
Publish ==
  /\ At("command", "publish")
  /\ memory' = op.doc /\ cached' = None
  /\ Tell("ok") /\ op' = None
  /\ UNCHANGED <<disk, blobs, up, inbox, landed, leftover, bounds, former>>

(* MUTANT of Failed: the new bytes go whenever the request failed.         *)
FailedAlwaysRemoves ==
  /\ At("command", "failed")
  /\ blobs' = blobs \ {op.cmd.id}
  /\ Tell(op.fail) /\ op' = None
  /\ UNCHANGED <<disk, process, inbox, landed, leftover, bounds, former>>

(* upload: only a definitely uncommitted failure removes the new bytes,    *)
(* and that removal may itself fail.                                       *)
Failed ==
  /\ At("command", "failed")
  /\ \/ /\ op.blob /\ op.outcome = "uncommitted"
        /\ blobs' = blobs \ {op.cmd.id} /\ UNCHANGED leftover
     \/ /\ op.blob
        /\ leftover' = leftover \cup {op.cmd.id} /\ UNCHANGED blobs
     \/ ~op.blob /\ UNCHANGED <<blobs, leftover>>
  /\ Tell(op.fail) /\ op' = None
  /\ UNCHANGED <<disk, process, inbox, landed, bounds, former>>

-----------------------------------------------------------------------------
(* A read: BoardStore._admit in at most three attempts, for a client's     *)
(* snapshot, or (by = None) for the start of the service or its status.    *)

Attempts == 3

(* The read takes the mutex.                                               *)
ReadFor(x) ==
  /\ op = None
  /\ op' = [kind |-> "read", pc |-> "read", by |-> x, doc |-> None, tries |-> 1]
  /\ UNCHANGED <<disk, blobs, process, inbox, client, verdict, landed, leftover, bounds, former>>

(* The store is made of an admitted file, or the service does not start.   *)
Start == ~up /\ ReadFor(None)

(* _status_get: the file is admitted anew for whoever asks how it is.      *)
Status == up /\ ReadFor(None)

BeginRead(x) == up /\ ~client[x].waiting /\ ReadFor(x)

(* Admission failed: what was accepted before is retained, not served.     *)
Reject == op' = None /\ UNCHANGED <<process, client>>

(* What passed is published and remembered; a client gets it.              *)
Admit(doc) ==
  /\ memory' = doc /\ up' = TRUE /\ cached' = doc
  /\ client' = IF op.by = None THEN client ELSE [client EXCEPT ![op.by].seen = doc]
  /\ op' = None

(* MUTANT of ReadFile: what needs no repair is not audited.                *)
ReadFileUnaudited ==
  /\ At("read", "read")
  /\ IF cached = disk THEN Admit(cached)
     ELSE IF ~disk.low THEN Admit(disk)
     ELSE /\ op' = [op EXCEPT !.pc = "reconcile", !.doc = disk]
          /\ UNCHANGED <<process, client>>
  /\ UNCHANGED <<disk, blobs, inbox, verdict, landed, leftover, bounds, former>>

(* _read_admitted: bytes already admitted are not verified again; audits   *)
(* come before any repair.                                                 *)
ReadFile ==
  /\ At("read", "read")
  /\ \/ Reject
     \/ IF cached = disk THEN Admit(cached)
        ELSE IF ~disk.sound THEN Reject
        ELSE IF ~disk.low THEN Admit(disk)
        ELSE /\ op' = [op EXCEPT !.pc = "reconcile", !.doc = disk]
             /\ UNCHANGED <<process, client>>
  /\ UNCHANGED <<disk, blobs, inbox, verdict, landed, leftover, bounds, former>>

(* MUTANT of NextAttempt: admission goes on until the file holds still.    *)
NextAttemptForEver ==
  /\ op' = [op EXCEPT !.pc = "read"]
  /\ UNCHANGED <<process, client>>

NextAttempt == IF op.tries = Attempts
               THEN Reject
               ELSE /\ op' = [op EXCEPT !.pc = "read", !.tries = @ + 1]
                    /\ UNCHANGED <<process, client>>

(* MUTANT of Reconcile: the file passed its audits when it was first read. *)
ReconcileUnaudited ==
  /\ At("read", "reconcile")
  /\ IF disk.rev # op.doc.rev \/ ~disk.low THEN NextAttempt
     ELSE /\ op' = [op EXCEPT !.pc = "repair", !.doc = [disk EXCEPT !.low = FALSE, !.rev = @ + 1]]
          /\ UNCHANGED <<process, client>>
  /\ UNCHANGED <<disk, blobs, inbox, verdict, landed, leftover, bounds, former>>

(* _reconcile_candidate: the file is read again under its lock; what moved *)
(* or no longer needs repair since the first read costs one attempt.       *)
Reconcile ==
  /\ At("read", "reconcile")
  /\ \/ Reject
     \/ IF disk.rev # op.doc.rev THEN NextAttempt
        ELSE IF ~disk.sound THEN Reject
        ELSE IF ~disk.low THEN NextAttempt
        ELSE /\ op' = [op EXCEPT !.pc = "repair", !.doc = [disk EXCEPT !.low = FALSE, !.rev = @ + 1]]
             /\ UNCHANGED <<process, client>>
  /\ UNCHANGED <<disk, blobs, inbox, verdict, landed, leftover, bounds, former>>

(* The repaired document replaces the file; it is admitted only when the   *)
(* next attempt reads it back.                                             *)
Repair ==
  /\ At("read", "repair")
  /\ \/ /\ Replaced(op.doc) /\ cached' = None
        /\ op' = IF op.tries = Attempts THEN None
                 ELSE [op EXCEPT !.pc = "read", !.tries = @ + 1]
     \/ Replaced(op.doc) /\ op' = None /\ UNCHANGED cached
     \/ op' = None /\ UNCHANGED <<disk, former, cached>>
  /\ UNCHANGED <<blobs, up, memory, inbox, client, verdict, landed, leftover, bounds>>

-----------------------------------------------------------------------------
(* The world around the store.                                             *)

(* A hand edit changes a card and keeps the revision; it may break an      *)
(* audit or leave a blocker below its floor.                               *)
HandEdit(c, sound, low) ==
  /\ edits < MaxEdits /\ edits' = edits + 1
  /\ Replaced([disk EXCEPT !.body[c] = Append(@, <<Hand, edits>>),
                           !.sound = sound, !.low = low])
  /\ UNCHANGED <<blobs, process, op, inbox, client, verdict, landed, leftover, crashes>>

(* An older file comes back, out of git for instance.                      *)
Restore(doc) ==
  /\ MaxEdits > 0 /\ doc \in former /\ doc # disk
  /\ Replaced(doc)
  /\ UNCHANGED <<blobs, process, op, inbox, client, verdict, landed, leftover, bounds>>

(* The process dies between any two steps; its requests get no answer.     *)
Crash ==
  /\ crashes < MaxCrashes /\ crashes' = crashes + 1
  /\ up \/ op # None
  /\ LET lost == {m.id : m \in inbox} \cup
                 (IF op # None /\ op.kind = "command" THEN {op.cmd.id} ELSE {})
     IN  /\ verdict' = [r \in Request |-> IF r \in lost THEN "unknown" ELSE verdict[r]]
         /\ leftover' = leftover \cup (blobs \cap lost)
  /\ up' = FALSE /\ memory' = None /\ cached' = None /\ op' = None /\ inbox' = {}
  /\ client' = [x \in Client |-> [client[x] EXCEPT !.waiting = FALSE]]
  /\ UNCHANGED <<disk, blobs, landed, edits, former>>

Service == Load \/ RunCommand \/ Verify \/ Save \/ Replace \/ Unlock \/ Publish \/ Failed
           \/ ReadFile \/ Reconcile \/ Repair

Next ==
  \/ Service
  \/ \E m \in inbox : BeginCommand(m)
  \/ Start \/ Status
  \/ \E x \in Client : BeginRead(x)
  \/ \E x \in Client, c \in Card, bound, upload \in BOOLEAN : Send(x, c, bound, upload)
  \/ \E x \in Client : GiveUp(x)
  \/ \E c \in Card, sound, low \in BOOLEAN : HandEdit(c, sound, low)
  \/ \E doc \in former : Restore(doc)
  \/ Crash

Spec == Init /\ [][Next]_vars

(* A started operation is a running thread: it takes its next step.        *)
FairSpec == Spec /\ WF_vars(Service)

-----------------------------------------------------------------------------
(* Types.                                                                  *)
TypeOK ==
  /\ disk \in Document /\ former \subseteq Document /\ disk \in former
  /\ blobs \subseteq Request /\ leftover \subseteq blobs
  /\ up \in BOOLEAN /\ memory \in Document \cup {None} /\ cached \in Document \cup {None}
  /\ up <=> memory # None
  /\ op \in Executing \cup Reading \cup {None}
  /\ inbox \subseteq Command /\ landed \subseteq Command
  /\ client \in [Client -> [sent : 0..MaxSends, seen : Document \cup {None}, waiting : BOOLEAN]]
  /\ verdict \in [Request -> {None, "ok", "refused", "unknown"}]
  /\ edits \in 0..MaxEdits /\ crashes \in 0..MaxCrashes

Landed == {m.id : m \in landed}

(* A client that repeats a command it got no certain answer to, even while *)
(* the first one still waits for the mutex, never has its edit twice.      *)
EditsLandOnce ==
  \A c \in Card, x \in Client :
    \A j, k \in DOMAIN disk.body[c] :
      disk.body[c][j][1] = x /\ disk.body[c][k][1] = x => j = k

(* If-Match-Card, "Bind optimistic card edits to every persisted field":   *)
(* a bound edit sits on exactly the card its client saw, even when a hand  *)
(* edit kept the revision.                                                 *)
BoundEditsSitOnWhatWasSeen ==
  \A m \in landed : \A k \in DOMAIN disk.body[m.card] :
    disk.body[m.card][k] = m.id /\ m.body # None
      => SubSeq(disk.body[m.card], 1, k - 1) = m.body

(* upload, "Remove new bytes only after a definitely uncommitted snapshot  *)
(* failure": no document the file is or was, and may be again, names a     *)
(* missing attachment; and a blob no document names belongs to the upload  *)
(* under way, or was left by one that ended uncertainly, or whose removal  *)
(* failed.                                                                 *)
BlobsMatchDocuments ==
  /\ \A doc \in former : doc.files \subseteq blobs
  /\ \A b \in blobs : \/ \E doc \in former : b \in doc.files
                      \/ b \in leftover
                      \/ op # None /\ op.kind = "command" /\ op.cmd.id = b

(* "publish only completely admitted disk snapshots": whatever reaches a   *)
(* client or stays in memory was on disk, passed its audits and meets its  *)
(* floors.                                                                 *)
OnlyAdmittedIsServed ==
  \A doc \in {memory, cached} \cup {client[x].seen : x \in Client} :
    doc # None => doc \in former /\ doc.sound /\ ~doc.low

(* "an audit defect combined with a priority floor never causes a repair   *)
(* write": neither a command nor a repair makes a defective document the   *)
(* board file, whatever the hand does between its steps.                   *)
DefectsAreNotRewritten ==
  [][Replace \/ Repair => disk' = disk \/ (disk'.sound /\ ~disk'.low)]_vars

(* Every operation gives the mutex back, even if the file never stops      *)
(* changing while it is being admitted.                                    *)
OperationsEnd == []<>(op = None)

-----------------------------------------------------------------------------
(* Without direct changes of the file the store is an atomic board.        *)
UnderWay == inbox \cup (IF op # None /\ op.kind = "command" THEN {op.cmd} ELSE {})

Atomic == INSTANCE AtomicBoard WITH
  doc <- [rev |-> disk.rev, body |-> disk.body],
  pending <- [r \in Request |->
                IF \E m \in UnderWay : m.id = r
                THEN LET m == CHOOSE m \in UnderWay : m.id = r
                     IN  [card |-> m.card, rev |-> m.rev]
                ELSE None],
  landed <- Landed

ImplementsAtomicBoard == Atomic!Spec
=============================================================================
