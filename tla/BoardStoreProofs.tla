---------------------------- MODULE BoardStoreProofs ----------------------------
(***************************************************************************)
(* Proofs about BoardStore, for any number of clients, cards, requests,    *)
(* hand edits and crashes.                                                 *)
(***************************************************************************)
EXTENDS BoardStore, FiniteSetTheorems, SequenceTheorems, TLAPS

USE StoreAssumption

Repaired(doc) == [doc EXCEPT !.low = FALSE, !.rev = @ + 1]

(* The request was sent.                                                   *)
Spent(r) == r[2] <= client[r[1]].sent

(* The document has the card as the command's client saw it.               *)
Based(m, doc) == m.body # None => CardVersion(doc, m.card) = m.body

Executes == op # None /\ op.kind = "command"

(* Whatever an operation makes of the board, it makes of a document that   *)
(* was the file, passed its audits, and had the card as its client saw it. *)
DocumentsDescend ==
  /\ Executes /\ op.pc \in {"command", "verify"} => op.doc \in former /\ Based(op.cmd, op.doc)
  /\ Executes /\ op.pc \in {"save", "replace"} =>
       \E doc \in former : doc.sound /\ Based(op.cmd, doc) /\ op.doc = Candidate(doc, op.cmd)
  /\ Executes /\ op.pc \in {"unlock", "publish"} =>
       /\ op.doc \in former /\ op.doc.sound /\ ~op.doc.low
       /\ op.cmd.upload => op.cmd.id \in op.doc.files
  /\ At("read", "repair") => \E doc \in former : doc.sound /\ op.doc = Repaired(doc)

(* A request is sent once, waits in one place, and has landed only if its  *)
(* operation got so far.                                                   *)
RequestsAreUnique ==
  /\ \A m \in inbox : Spent(m.id) /\ m.id \notin Landed
  /\ \A m, n \in inbox : m.id = n.id => m = n
  /\ \A r \in Landed : Spent(r)
  /\ \A r \in Request : verdict[r] # None => Spent(r)
  /\ Executes => up
  /\ Executes =>
       /\ Spent(op.cmd.id) /\ \A m \in inbox : m.id # op.cmd.id
       /\ op.pc \in {"load", "command", "verify", "save", "replace"} \/ op.outcome = "uncommitted"
            => op.cmd.id \notin Landed
       /\ op.pc = "replace" => op.outcome = "unknown"
       /\ op.pc \in {"unlock", "publish"} => op.cmd.id \in Landed
       /\ op.pc = "failed" => op.fail \in {"refused", "unknown"}
       /\ op.pc = "failed" /\ op.fail = "refused" => op.cmd.id \notin Landed

(* Who wrote a blob, and until when it is its operation's to remove.       *)
BlobsAreOwned ==
  /\ \A m \in inbox : m.id \notin blobs
  /\ \A r \in blobs : Spent(r)
  /\ Executes =>
       /\ op.blob => op.cmd.upload /\ op.cmd.id \in blobs \ leftover
       /\ ~op.blob => op.cmd.id \notin blobs
       /\ op.cmd.upload /\ op.pc \in {"verify", "save", "replace", "unlock", "publish"} => op.blob

(* A document names nothing but what landed, or what a hand wrote; and     *)
(* every bound edit of it sits on what its client saw.                     *)
DocumentsNameLanded ==
  \A doc \in former :
    /\ doc.files \subseteq Landed
    /\ \A c \in Card : \A k \in DOMAIN doc.body[c] : doc.body[c][k] \in Landed \cup ({Hand} \X Nat)
    /\ \A m \in landed : \A k \in DOMAIN doc.body[m.card] :
         doc.body[m.card][k] = m.id /\ m.body # None
           => SubSeq(doc.body[m.card], 1, k - 1) = m.body

StoreInv ==
  /\ TypeOK
  /\ OnlyAdmittedIsServed /\ DocumentsDescend /\ RequestsAreUnique
  /\ BlobsAreOwned /\ BlobsMatchDocuments /\ DocumentsNameLanded

-----------------------------------------------------------------------------
(* Only the store writes the file: revisions name documents.               *)
RevisionsNameDocuments ==
  /\ \A doc \in former : doc.rev <= disk.rev /\ (doc.rev = disk.rev => doc = disk)
  /\ \A m \in inbox : \E doc \in former : doc.rev = m.rev /\ ~Seen(m.id[1], doc)
  /\ At("command", "load") =>
       \E doc \in former : doc.rev = op.cmd.rev /\ ~Seen(op.cmd.id[1], doc)
  /\ Executes /\ op.pc \in {"command", "verify", "save", "replace"} =>
       op.cmd.rev = disk.rev /\ ~Seen(op.cmd.id[1], disk)
  /\ Executes /\ op.pc \in {"command", "verify"} => op.doc = disk
  /\ Executes /\ op.pc \in {"save", "replace"} => op.doc = Candidate(disk, op.cmd)
  /\ At("read", "repair") => op.doc = Repaired(disk)
  /\ EditsLandOnce

SoleWriterInv == MaxEdits = 0 => RevisionsNameDocuments

-----------------------------------------------------------------------------
(* What the operations make of a document.                                 *)

(* The new document has one edit more, at the end of one card.             *)
AddsEdit(old, new, c, e) ==
  /\ new.body[c] = Append(old.body[c], e)
  /\ \A d \in Card : d # c => new.body[d] = old.body[d]

LEMMA CandidateOf ==
  ASSUME NEW doc \in Document, NEW m \in Command, NEW new, new = Candidate(doc, m)
  PROVE  /\ new \in Document
         /\ new = [rev |-> doc.rev + 1, body |-> new.body,
                   files |-> IF m.upload THEN doc.files \cup {m.id} ELSE doc.files,
                   sound |-> doc.sound, low |-> FALSE]
         /\ AddsEdit(doc, new, m.card, m.id)
<1>1. /\ doc.rev \in Nat /\ doc.body \in [Card -> Seq(Edit)] /\ doc.files \in SUBSET Request
      /\ doc.sound \in BOOLEAN /\ m.id \in Request /\ m.card \in Card /\ m.upload \in BOOLEAN
  BY DEF Document, Command
<1>2. Append(doc.body[m.card], m.id) \in Seq(Edit)
  BY <1>1, AppendProperties DEF Edit
<1>3. new = [rev |-> doc.rev + 1, body |-> [doc.body EXCEPT ![m.card] = Append(@, m.id)],
             files |-> IF m.upload THEN doc.files \cup {m.id} ELSE doc.files,
             sound |-> doc.sound, low |-> FALSE]
  BY DEF Candidate, Document
<1>4. [doc.body EXCEPT ![m.card] = Append(@, m.id)] \in [Card -> Seq(Edit)]
  BY <1>1, <1>2
<1>5. (IF m.upload THEN doc.files \cup {m.id} ELSE doc.files) \in SUBSET Request
  BY <1>1
<1>6. new \in Document
  BY <1>1, <1>3, <1>4, <1>5 DEF Document
<1>7. AddsEdit(doc, new, m.card, m.id)
  BY <1>1, <1>3 DEF AddsEdit
<1> QED BY <1>3, <1>6, <1>7

LEMMA RepairedOf ==
  ASSUME NEW doc \in Document, NEW new, new = Repaired(doc)
  PROVE  /\ new \in Document
         /\ new = [rev |-> doc.rev + 1, body |-> doc.body, files |-> doc.files,
                   sound |-> doc.sound, low |-> FALSE]
<1>1. new = [rev |-> doc.rev + 1, body |-> doc.body, files |-> doc.files,
             sound |-> doc.sound, low |-> FALSE]
  BY DEF Repaired, Document
<1> QED BY <1>1 DEF Document

(* A hand adds to a card.                                                  *)
LEMMA HandEdited ==
  ASSUME TypeOK, NEW c \in Card, NEW sound \in BOOLEAN, NEW low \in BOOLEAN,
         HandEdit(c, sound, low)
  PROVE  /\ disk' \in Document /\ former' = former \cup {disk'} /\ edits' = edits + 1
         /\ edits < MaxEdits
         /\ disk'.files = disk.files
         /\ AddsEdit(disk, disk', c, <<Hand, edits>>)
<1>1. /\ disk \in Document /\ edits \in Nat
      /\ disk.rev \in Nat /\ disk.body \in [Card -> Seq(Edit)] /\ disk.files \in SUBSET Request
  BY DEF TypeOK, Document
<1>2. <<Hand, edits>> \in Edit
  BY <1>1 DEF Edit
<1>3. Append(disk.body[c], <<Hand, edits>>) \in Seq(Edit)
  BY <1>1, <1>2, AppendProperties
<1>4. disk' = [rev |-> disk.rev, body |-> [disk.body EXCEPT ![c] = Append(@, <<Hand, edits>>)],
               files |-> disk.files, sound |-> sound, low |-> low]
  BY <1>1 DEF HandEdit, Replaced, Document
<1>5. [disk.body EXCEPT ![c] = Append(@, <<Hand, edits>>)] \in [Card -> Seq(Edit)]
  BY <1>1, <1>3
<1>6. disk' \in Document
  BY <1>1, <1>4, <1>5 DEF Document
<1>7. AddsEdit(disk, disk', c, <<Hand, edits>>)
  BY <1>1, <1>4 DEF AddsEdit
<1> QED BY <1>4, <1>6, <1>7 DEF HandEdit, Replaced

(* What holds the mutex.                                                   *)
LEMMA Holder ==
  ASSUME TypeOK, op # None
  PROVE  /\ op.kind \in {"command", "read"}
         /\ op.kind = "command" => op \in Executing
         /\ op.kind = "read" => op \in Reading
BY DEF TypeOK, Executing, Reading

LEMMA CommandUnderWay ==
  ASSUME TypeOK, NEW pc, At("command", pc)
  PROVE  /\ op \in Executing /\ Executes /\ op # None /\ op.kind = "command" /\ op.pc = pc
         /\ op.cmd \in Command /\ op.doc \in Document \cup {None} /\ op.blob \in BOOLEAN
         /\ op.cmd.id \in Request /\ op.cmd.id[1] \in Client /\ op.cmd.card \in Card
         /\ op.fail \in {None, "refused", "unknown"}
<1>1. op \in Executing
  BY Holder DEF At
<1>2. op.cmd \in Command
  BY <1>1 DEF Executing
<1> QED BY <1>1, <1>2 DEF At, Executes, Executing, Command, Request

LEMMA ReadUnderWay ==
  ASSUME TypeOK, NEW pc, At("read", pc)
  PROVE  /\ op \in Reading /\ ~Executes /\ op # None /\ op.kind = "read" /\ op.pc = pc
         /\ op.by \in Client \cup {None} /\ op.doc \in Document \cup {None}
BY Holder DEF At, Executes, Reading

LEMMA InitSound == Init => StoreInv /\ SoleWriterInv
<1> SUFFICES ASSUME Init PROVE StoreInv /\ SoleWriterInv
  OBVIOUS
<1>1. /\ disk \in Document /\ disk.rev = 0 /\ disk.files = {}
      /\ \A c \in Card : disk.body[c] = <<>>
  <2>1. PICK low \in {FALSE, MayStartLow} : disk = Blank(low)
    BY DEF Init
  <2>2. [c \in Card |-> <<>>] \in [Card -> Seq(Edit)]
    BY EmptySeq
  <2>3. low \in BOOLEAN
    BY <2>1
  <2> QED BY <2>1, <2>2, <2>3 DEF Blank, Document
<1>2. client \in [Client -> [sent : 0..MaxSends, seen : Document \cup {None}, waiting : BOOLEAN]]
      /\ \A x \in Client : client[x].seen = None
  BY DEF Init, Idle
<1>3. TypeOK
  <2>1. verdict \in [Request -> {None, "ok", "refused", "unknown"}]
    BY DEF Init
  <2>2. up \in BOOLEAN /\ memory = None /\ cached = None /\ (up <=> memory # None)
    BY DEF Init
  <2>3. op = None /\ inbox = {} /\ landed = {} /\ blobs = {} /\ leftover = {} /\ former = {disk}
        /\ edits = 0 /\ crashes = 0
    BY DEF Init
  <2> QED BY <1>1, <1>2, <2>1, <2>2, <2>3 DEF TypeOK
<1>4. \A c \in Card : DOMAIN disk.body[c] = {}
  BY <1>1
<1>5. Landed = {}
  BY DEF Init, Landed
<1>6. OnlyAdmittedIsServed
  BY <1>2 DEF Init, OnlyAdmittedIsServed
<1>7. DocumentsDescend /\ RequestsAreUnique /\ BlobsAreOwned
  BY <1>5 DEF Init, DocumentsDescend, RequestsAreUnique, BlobsAreOwned, Executes, At
<1>8. BlobsMatchDocuments /\ DocumentsNameLanded
  BY <1>1, <1>4 DEF Init, BlobsMatchDocuments, DocumentsNameLanded
<1>9. RevisionsNameDocuments
  BY <1>1, <1>4 DEF Init, RevisionsNameDocuments, EditsLandOnce, Executes, At
<1> QED BY <1>3, <1>6, <1>7, <1>8, <1>9 DEF StoreInv, SoleWriterInv

-----------------------------------------------------------------------------
(* Types.                                                                  *)
Clients == [Client -> [sent : 0..MaxSends, seen : Document \cup {None}, waiting : BOOLEAN]]
Verdicts == [Request -> {None, "ok", "refused", "unknown"}]

LEMMA StopsWaiting ==
  ASSUME client \in Clients, NEW y \in Client, NEW new,
         new = [client EXCEPT ![y].waiting = FALSE]
  PROVE  /\ new \in Clients
         /\ \A x \in Client : new[x].seen = client[x].seen /\ new[x].sent = client[x].sent
<1> DEFINE Record == [sent : 0..MaxSends, seen : Document \cup {None}, waiting : BOOLEAN]
           changed == [client[y] EXCEPT !.waiting = FALSE]
<1>1. client[y] \in Record
  BY DEF Clients
<1>2. changed.sent = client[y].sent /\ changed.seen = client[y].seen
  BY <1>1
<1>3. changed \in Record
  BY <1>1
<1>4. new = [client EXCEPT ![y] = changed]
  OBVIOUS
<1>5. client \in [Client -> Record]
  BY DEF Clients
<1> HIDE DEF Record, changed
<1>6. new \in [Client -> Record]
  BY <1>3, <1>4, <1>5
<1>7. \A x \in Client : new[x] = IF x = y THEN changed ELSE client[x]
  BY <1>4, <1>5
<1> QED BY <1>2, <1>6, <1>7 DEF Clients, Record

LEMMA TellTyped ==
  ASSUME TypeOK, op \in Executing, NEW v \in {"ok", "refused", "unknown"}, Tell(v)
  PROVE  /\ client' \in Clients /\ verdict' \in Verdicts
         /\ \A x \in Client : client'[x].seen = client[x].seen /\ client'[x].sent = client[x].sent
         /\ verdict' = [verdict EXCEPT ![op.cmd.id] = v]
<1>1. op.cmd.id \in Request /\ op.cmd.id[1] \in Client
  BY DEF Executing, Command, Request
<1>2. client \in Clients /\ verdict \in Verdicts
  BY DEF TypeOK, Clients, Verdicts
<1>3. verdict' \in Verdicts /\ verdict' = [verdict EXCEPT ![op.cmd.id] = v]
  BY <1>1, <1>2 DEF Tell, Verdicts
<1>4. client' = client \/ client' = [client EXCEPT ![op.cmd.id[1]].waiting = FALSE]
  BY DEF Tell
<1>5. /\ client' \in Clients
      /\ \A x \in Client : client'[x].seen = client[x].seen /\ client'[x].sent = client[x].sent
  BY <1>1, <1>2, <1>4, StopsWaiting
<1> QED BY <1>3, <1>5

(* A step inside a command changes nothing but what it is at.              *)
LEMMA ExecutingGoesOn ==
  ASSUME TypeOK, NEW pc, At("command", pc)
  PROVE  /\ \A v \in {"refused", "unknown"} : Raise(v) => op' \in Executing
         /\ \A p \in {"load", "command", "verify", "save", "replace", "unlock", "publish",
                  "failed"} :
              Goto(p) => op' \in Executing
<1>1. op \in Executing
  BY CommandUnderWay
<1>2. ASSUME NEW v \in {"refused", "unknown"}
      PROVE  [op EXCEPT !.pc = "failed", !.fail = v] \in Executing
  BY <1>1 DEF Executing
<1>3. ASSUME NEW p \in {"load", "command", "verify", "save", "replace", "unlock", "publish",
                    "failed"}
      PROVE  [op EXCEPT !.pc = p] \in Executing
  BY <1>1 DEF Executing
<1> QED BY <1>2, <1>3 DEF Raise, Goto

LEMMA TriesAgain ==
  ASSUME op \in Reading
  PROVE  [op EXCEPT !.pc = "read", !.tries = @ + 1] \in Reading
<1>1. op.tries \in Nat /\ op.tries + 1 \in Nat
  BY DEF Reading
<1> DEFINE tries == op.tries + 1
<1>2. [op EXCEPT !.pc = "read", !.tries = @ + 1] = [op EXCEPT !.pc = "read", !.tries = tries]
  BY DEF Reading
<1>3. tries \in Nat
  BY <1>1
<1> HIDE DEF tries
<1>4. [op EXCEPT !.pc = "read", !.tries = tries] \in Reading
  BY <1>3 DEF Reading
<1> QED BY <1>2, <1>4

(* The file is replaced by a document.                                     *)
LEMMA ReplacedTyped ==
  ASSUME TypeOK, NEW doc \in Document, Replaced(doc)
  PROVE  disk' \in Document /\ former' \subseteq Document /\ disk' \in former'
BY DEF TypeOK, Replaced

(* No client has sent all there is to send while another request is left.  *)
LEMMA SendsAreBounded ==
  ASSUME TypeOK, NEW x \in Client, Cardinality(Sent) < MaxSends
  PROVE  client[x].sent < MaxSends
<1> SUFFICES ASSUME client[x].sent = MaxSends PROVE FALSE
  BY DEF TypeOK
<1>1. /\ IsFiniteSet(1 .. MaxSends) /\ Cardinality(1 .. MaxSends) = MaxSends
      /\ IsFiniteSet({x}) /\ Cardinality({x}) = 1
  <2>1. 1 \in Int /\ MaxSends \in Int
    OBVIOUS
  <2>2. IsFiniteSet(1 .. MaxSends)
        /\ Cardinality(1 .. MaxSends) = IF 1 > MaxSends THEN 0 ELSE MaxSends - 1 + 1
    BY <2>1, FS_Interval
  <2>3. (IF 1 > MaxSends THEN 0 ELSE MaxSends - 1 + 1) = MaxSends
    OBVIOUS
  <2> QED BY <2>2, <2>3, FS_Singleton
<1>2. IsFiniteSet(Request)
  BY <1>1, FS_Product DEF Request
<1>3. IsFiniteSet(Sent) /\ Cardinality(Sent) \in Nat
  <2>1. Sent \subseteq Request
    BY DEF Sent
  <2> QED BY <1>2, <2>1, FS_Subset, FS_CardinalityType
<1>4. Cardinality({x} \X (1 .. MaxSends)) = MaxSends
  <2>1. Cardinality({x} \X (1 .. MaxSends)) = Cardinality({x}) * Cardinality(1 .. MaxSends)
    BY <1>1, FS_Product
  <2> QED BY <1>1, <2>1
<1>5. {x} \X (1 .. MaxSends) \subseteq Sent
  BY DEF Sent, Request
<1>6. Cardinality({x} \X (1 .. MaxSends)) <= Cardinality(Sent)
  BY <1>3, <1>5, FS_Subset
<1> QED BY <1>3, <1>4, <1>6

(* What a client sends.                                                    *)
LEMMA SendTyped ==
  ASSUME TypeOK, NEW x \in Client, NEW c \in Card, NEW bound \in BOOLEAN, NEW upload \in BOOLEAN,
         Send(x, c, bound, upload),
         NEW m, m = [id |-> <<x, client[x].sent + 1>>, card |-> c, rev |-> client[x].seen.rev,
                     body |-> IF bound THEN CardVersion(client[x].seen, c) ELSE None,
                     upload |-> upload]
  PROVE  m \in Command /\ client[x].sent + 1 \in 1 .. MaxSends
<1>1. client[x].sent \in 0 .. MaxSends /\ client[x].seen \in Document
  BY DEF Send, TypeOK
<1>2. client[x].sent < MaxSends
  BY <1>1, SendsAreBounded DEF Send
<1>3. <<x, client[x].sent + 1>> \in Request /\ client[x].sent + 1 \in 1 .. MaxSends
  BY <1>1, <1>2 DEF Request
<1>4. client[x].seen.rev \in Nat
      /\ (IF bound THEN CardVersion(client[x].seen, c) ELSE None) \in Seq(Edit) \cup {None}
  BY <1>1 DEF Document, CardVersion
<1> QED BY <1>3, <1>4 DEF Command

LEMMA TypeStep == StoreInv /\ [Next]_vars => TypeOK'
<1> SUFFICES ASSUME TypeOK, DocumentsDescend, RequestsAreUnique, BlobsAreOwned, [Next]_vars
             PROVE  TypeOK'
  BY DEF StoreInv
<1> USE DEF process, bounds
<1>1. CASE Load
  <2>1. op' \in Executing
    <3>1. op \in Executing /\ At("command", "load") /\ disk \in Document
      BY <1>1, CommandUnderWay DEF Load, TypeOK
    <3>2. [op EXCEPT !.pc = "command", !.doc = disk] \in Executing
      BY <3>1 DEF Executing
    <3> QED BY <1>1, <3>1, <3>2, ExecutingGoesOn DEF Load
  <2> QED BY <1>1, <2>1 DEF Load, TypeOK
<1>2. CASE RunCommand
  <2>1. op \in Executing /\ At("command", "command") /\ op.cmd.id \in Request
    BY <1>2, CommandUnderWay DEF RunCommand
  <2>2. op' \in Executing /\ blobs' \subseteq blobs \cup {op.cmd.id} /\ blobs \subseteq blobs'
    <3>1. CASE WriteBlob
      <4>1. [op EXCEPT !.pc = "verify", !.blob = TRUE] \in Executing
        BY <2>1 DEF Executing
      <4> QED BY <2>1, <3>1, <4>1, ExecutingGoesOn DEF WriteBlob
    <3>2. CASE ~WriteBlob BY <1>2, <2>1, <3>2, ExecutingGoesOn DEF RunCommand
    <3> QED BY <3>1, <3>2
  <2> QED BY <1>2, <2>1, <2>2 DEF RunCommand, TypeOK
<1>3. CASE Verify
  <2>1. op \in Executing /\ At("command", "verify") /\ op.doc \in Document /\ op.cmd \in Command
    BY <1>3, CommandUnderWay DEF Verify, DocumentsDescend, TypeOK
  <2>2. op' \in Executing
    <3>1. Candidate(op.doc, op.cmd) \in Document
      BY <2>1, CandidateOf
    <3> QED BY <1>3, <2>1, <3>1, ExecutingGoesOn DEF Verify, Executing
  <2> QED BY <1>3, <2>2 DEF Verify, TypeOK
<1>4. CASE Save
  <2>1. op \in Executing /\ At("command", "save")
    BY <1>4, CommandUnderWay DEF Save
  <2>2. op' \in Executing
    BY <1>4, <2>1, ExecutingGoesOn DEF Save, Executing
  <2> QED BY <1>4, <2>2 DEF Save, TypeOK
<1>5. CASE Replace
  <2>1. op \in Executing /\ At("command", "replace") /\ op.cmd \in Command
    BY <1>5, CommandUnderWay DEF Replace
  <2>2. op.doc \in Document
    <3>1. PICK doc \in former : op.doc = Candidate(doc, op.cmd)
      BY <2>1, CommandUnderWay DEF DocumentsDescend
    <3>2. doc \in Document
      BY <3>1 DEF TypeOK
    <3> QED BY <2>1, <3>1, <3>2, CandidateOf
  <2>3. op' \in Executing
    <3>1. [op EXCEPT !.pc = "unlock", !.outcome = "committed"] \in Executing
      BY <2>1 DEF Executing
    <3> QED BY <1>5, <2>1, <3>1, ExecutingGoesOn DEF Replace
  <2>4. disk' \in Document /\ former' \subseteq Document /\ disk' \in former'
        /\ landed' \subseteq Command
    BY <1>5, <2>1, <2>2, ReplacedTyped DEF Replace, TypeOK
  <2> QED BY <1>5, <2>3, <2>4 DEF Replace, TypeOK
<1>6. CASE Unlock
  <2>1. op \in Executing /\ At("command", "unlock")
    BY <1>6, CommandUnderWay DEF Unlock
  <2>2. op' \in Executing
    BY <1>6, <2>1, ExecutingGoesOn DEF Unlock
  <2> QED BY <1>6, <2>2 DEF Unlock, TypeOK
<1>7. CASE Publish
  <2>1. op \in Executing /\ op.doc \in Document
    BY <1>7, CommandUnderWay DEF Publish, DocumentsDescend, TypeOK
  <2>2. client' \in Clients /\ verdict' \in Verdicts
    BY <1>7, <2>1, TellTyped DEF Publish
  <2>3. up
    BY <1>7, CommandUnderWay DEF Publish, RequestsAreUnique
  <2> QED BY <1>7, <2>1, <2>2, <2>3 DEF Publish, TypeOK, Clients, Verdicts
<1>8. CASE Failed
  <2>1. op \in Executing /\ op.cmd.id \in Request /\ op.fail \in {"refused", "unknown"}
    BY <1>8, CommandUnderWay DEF Failed, RequestsAreUnique
  <2>2. client' \in Clients /\ verdict' \in Verdicts
    BY <1>8, <2>1, TellTyped DEF Failed
  <2>3. blobs' \subseteq Request /\ leftover' \subseteq blobs'
    <3>1. op.blob => op.cmd.id \in blobs /\ op.cmd.id \notin leftover
      BY <1>8, CommandUnderWay DEF Failed, BlobsAreOwned
    <3>2. \/ blobs' = blobs \ {op.cmd.id} /\ leftover' = leftover /\ op.blob
          \/ blobs' = blobs /\ leftover' = leftover \cup {op.cmd.id} /\ op.blob
          \/ blobs' = blobs /\ leftover' = leftover
      BY <1>8 DEF Failed
    <3>3. blobs \subseteq Request /\ leftover \subseteq blobs
      BY DEF TypeOK
    <3> QED BY <3>1, <3>2, <3>3
  <2> QED BY <1>8, <2>2, <2>3 DEF Failed, TypeOK, Clients, Verdicts
<1>9. CASE ReadFile
  <2>1. op \in Reading /\ op.by \in Client \cup {None}
    BY <1>9, ReadUnderWay DEF ReadFile
  <2>2. CASE Reject BY <1>9, <2>2 DEF ReadFile, Reject, TypeOK
  <2>3. ASSUME NEW doc \in Document, Admit(doc) PROVE TypeOK'
    <3>1. client' \in Clients
      BY <2>1, <2>3 DEF Admit, TypeOK, Clients
    <3> QED BY <1>9, <2>3, <3>1 DEF ReadFile, Admit, TypeOK, Clients
  <2>4. CASE op' = [op EXCEPT !.pc = "reconcile", !.doc = disk] /\ UNCHANGED <<process, client>>
    <3>1. op' \in Reading
      BY <2>1, <2>4 DEF TypeOK, Reading
    <3> QED BY <1>9, <2>4, <3>1 DEF ReadFile, TypeOK
  <2>5. disk \in Document /\ (cached = disk => cached \in Document)
    BY DEF TypeOK
  <2> QED BY <1>9, <2>2, <2>3, <2>4, <2>5 DEF ReadFile
<1>10. CASE Reconcile
  <2>1. op \in Reading /\ disk \in Document
    BY <1>10, ReadUnderWay DEF Reconcile, TypeOK
  <2>2. CASE Reject BY <1>10, <2>2 DEF Reconcile, Reject, TypeOK
  <2>3. CASE op' \in Reading /\ UNCHANGED <<process, client>>
    BY <1>10, <2>3 DEF Reconcile, TypeOK
  <2>4. CASE NextAttempt
    <3>1. Reject \/ (op' \in Reading /\ UNCHANGED <<process, client>>)
      <4>2. [op EXCEPT !.pc = "read", !.tries = @ + 1] \in Reading
        BY <2>1, TriesAgain
      <4> QED BY <2>4, <4>2 DEF NextAttempt
    <3> QED BY <2>2, <2>3, <3>1
  <2>5. [op EXCEPT !.pc = "repair", !.doc = [disk EXCEPT !.low = FALSE, !.rev = @ + 1]] \in Reading
    <3>1. [disk EXCEPT !.low = FALSE, !.rev = @ + 1] \in Document
      BY <2>1, RepairedOf DEF Repaired
    <3> QED BY <2>1, <3>1 DEF Reading
  <2> QED BY <1>10, <2>2, <2>3, <2>4, <2>5 DEF Reconcile
<1>11. CASE Repair
  <2>1. op \in Reading
    BY <1>11, ReadUnderWay DEF Repair
  <2>2. op.doc \in Document
    BY <1>11, RepairedOf DEF Repair, DocumentsDescend, TypeOK
  <2>3. disk' \in Document /\ former' \subseteq Document /\ disk' \in former'
    BY <1>11, <2>2, ReplacedTyped DEF Repair, TypeOK
  <2>4. op' \in Reading \cup {None} /\ cached' \in {None, cached}
    <3>2. [op EXCEPT !.pc = "read", !.tries = @ + 1] \in Reading
      BY <2>1, TriesAgain
    <3> QED BY <1>11, <3>2 DEF Repair
  <2> QED BY <1>11, <2>3, <2>4 DEF Repair, TypeOK
<1>12. CASE \E m \in inbox : BeginCommand(m)
  <2>1. PICK m \in inbox : BeginCommand(m)
    BY <1>12
  <2>2. op' \in Executing
    BY <2>1 DEF BeginCommand, TypeOK, Executing
  <2> QED BY <2>1, <2>2 DEF BeginCommand, TypeOK
<1>13. CASE \E x \in Client \cup {None} : ReadFor(x)
  <2>1. PICK x \in Client \cup {None} : ReadFor(x)
    BY <1>13
  <2>2. op' \in Reading
    BY <2>1 DEF ReadFor, Reading
  <2> QED BY <2>1, <2>2 DEF ReadFor, TypeOK
<1>14. CASE \E x \in Client, c \in Card, bound, upload \in BOOLEAN : Send(x, c, bound, upload)
  <2>1. PICK x \in Client, c \in Card, bound \in BOOLEAN, upload \in BOOLEAN :
          Send(x, c, bound, upload)
    BY <1>14
  <2>2. PICK m : /\ m = [id |-> <<x, client[x].sent + 1>>, card |-> c, rev |-> client[x].seen.rev,
                         body |-> IF bound THEN CardVersion(client[x].seen, c) ELSE None,
                         upload |-> upload]
                 /\ inbox' = inbox \cup {m}
    BY <2>1 DEF Send
  <2>3. m \in Command /\ client[x].sent + 1 \in 1 .. MaxSends
    BY <2>1, <2>2, SendTyped
  <2>4. client' \in Clients
    BY <2>1, <2>3 DEF Send, TypeOK, Clients
  <2> QED BY <2>1, <2>2, <2>3, <2>4 DEF Send, TypeOK, Clients
<1>15. CASE \E x \in Client : GiveUp(x)
  <2>1. client' \in Clients
    <3>1. client \in Clients
      BY DEF TypeOK, Clients
    <3> QED BY <1>15, <3>1, StopsWaiting DEF GiveUp
  <2> QED BY <1>15, <2>1 DEF GiveUp, TypeOK, Clients
<1>16. CASE \E c \in Card, sound, low \in BOOLEAN : HandEdit(c, sound, low)
  <2>1. PICK c \in Card, sound \in BOOLEAN, low \in BOOLEAN : HandEdit(c, sound, low)
    BY <1>16
  <2>2. disk' \in Document /\ former' = former \cup {disk'} /\ edits' \in 0 .. MaxEdits
    BY <2>1, HandEdited DEF TypeOK
  <2> QED BY <2>1, <2>2 DEF HandEdit, TypeOK
<1>17. CASE \E doc \in former : Restore(doc)
  <2>1. disk' \in Document /\ former' \subseteq Document /\ disk' \in former'
    BY <1>17, ReplacedTyped DEF Restore, TypeOK
  <2> QED BY <1>17, <2>1 DEF Restore, TypeOK
<1>18. CASE Crash
  <2>1. verdict' \in Verdicts
    BY <1>18 DEF Crash, TypeOK, Verdicts
  <2>2. client' \in Clients
    BY <1>18 DEF Crash, TypeOK, Clients
  <2>3. leftover' \subseteq blobs' /\ crashes' \in 0 .. MaxCrashes
    BY <1>18 DEF Crash, TypeOK
  <2>4. up' \in BOOLEAN /\ (up' <=> memory' # None) /\ memory' = None /\ cached' = None
        /\ op' = None /\ inbox' = {}
    BY <1>18 DEF Crash
  <2>5. UNCHANGED <<disk, blobs, landed, edits, former>>
    BY <1>18 DEF Crash
  <2> QED BY <2>1, <2>2, <2>3, <2>4, <2>5 DEF TypeOK, Clients, Verdicts
<1>19. CASE UNCHANGED vars BY <1>19 DEF vars, TypeOK
<1>20. QED
  BY <1>1, <1>2, <1>3, <1>4, <1>5, <1>6, <1>7, <1>8, <1>9, <1>10, <1>11, <1>12, <1>13, <1>14,
     <1>15, <1>16, <1>17, <1>18, <1>19 DEF Next, Service, Start, Status, BeginRead

-----------------------------------------------------------------------------
(* What each step of an operation does, field by field.                    *)
LEMMA RaiseDoes ==
  ASSUME op \in Executing, NEW v \in {"refused", "unknown"}, Raise(v)
  PROVE  /\ op' # None /\ op'.kind = "command" /\ op'.pc = "failed" /\ op'.fail = v
         /\ op'.cmd = op.cmd /\ op'.doc = op.doc /\ op'.blob = op.blob /\ op'.outcome = op.outcome
<1>1. op' \in Executing
  BY DEF Raise, Executing
<1>2. op' # None
  BY <1>1
<1> QED BY <1>2 DEF Raise, Executing

LEMMA LoadDoes ==
  ASSUME StoreInv, Load
  PROVE  /\ op \in Executing /\ Executes /\ op.pc = "load" /\ Executes'
         /\ op'.cmd = op.cmd /\ op'.blob = op.blob /\ op'.outcome = op.outcome
         /\ \/ op'.pc = "failed" /\ op'.fail \in {"refused", "unknown"}
            \/ /\ op'.pc = "command" /\ op'.doc = disk
               /\ disk.rev = op.cmd.rev /\ Based(op.cmd, disk)
<1>1. op \in Executing /\ Executes /\ op.pc = "load"
  BY CommandUnderWay DEF Load, StoreInv
<1>2. CASE \E v \in {"refused", "unknown"} : Raise(v) BY <1>1, <1>2, RaiseDoes DEF Executes
<1>3. CASE /\ op' = [op EXCEPT !.pc = "command", !.doc = disk]
           /\ disk.rev = op.cmd.rev /\ Based(op.cmd, disk)
  <2>1. op' \in Executing
    BY <1>1, <1>3 DEF Executing, StoreInv, TypeOK
  <2>2. op' # None /\ op'.kind = "command"
    BY <2>1 DEF Executing
  <2> QED BY <1>1, <1>3, <2>2 DEF Executes, Executing
<1> QED BY <1>2, <1>3 DEF Load, Based

LEMMA RunCommandDoes ==
  ASSUME StoreInv, RunCommand
  PROVE  /\ op \in Executing /\ Executes /\ op.pc = "command" /\ Executes'
         /\ op'.cmd = op.cmd /\ op'.doc = op.doc /\ op'.outcome = op.outcome
         /\ \/ /\ op'.pc = "failed" /\ op'.fail \in {"refused", "unknown"}
               /\ op'.blob = op.blob /\ blobs' = blobs
            \/ op'.pc = "verify" /\ ~op.cmd.upload /\ op'.blob = op.blob /\ blobs' = blobs
            \/ op'.pc = "verify" /\ op.cmd.upload /\ op'.blob /\ blobs' = blobs \cup {op.cmd.id}
<1>1. op \in Executing /\ Executes /\ op.pc = "command"
  BY CommandUnderWay DEF RunCommand, StoreInv
<1>2. CASE (\E v \in {"refused", "unknown"} : Raise(v)) /\ blobs' = blobs
  BY <1>1, <1>2, RaiseDoes DEF Executes
<1>3. CASE op' = [op EXCEPT !.pc = "verify"] /\ ~op.cmd.upload /\ blobs' = blobs
  <2>1. op' \in Executing
    BY <1>1, <1>3 DEF Executing
  <2>2. op' # None /\ op'.kind = "command"
    BY <2>1 DEF Executing
  <2> QED BY <1>1, <1>3, <2>2 DEF Executes, Executing
<1>4. CASE /\ op' = [op EXCEPT !.pc = "verify", !.blob = TRUE]
           /\ op.cmd.upload /\ blobs' = blobs \cup {op.cmd.id}
  <2>1. op' \in Executing
    BY <1>1, <1>4 DEF Executing
  <2>2. op' # None /\ op'.kind = "command"
    BY <2>1 DEF Executing
  <2> QED BY <1>1, <1>4, <2>2 DEF Executes, Executing
<1> QED BY <1>2, <1>3, <1>4 DEF RunCommand, WriteBlob, Goto

LEMMA VerifyDoes ==
  ASSUME StoreInv, Verify
  PROVE  /\ op \in Executing /\ Executes /\ op.pc = "verify" /\ Executes'
         /\ op'.cmd = op.cmd /\ op'.blob = op.blob /\ op'.outcome = op.outcome
         /\ \/ op'.pc = "failed" /\ op'.fail = "refused"
            \/ op'.pc = "save" /\ op.doc.sound /\ op'.doc = Candidate(op.doc, op.cmd)
<1>1. op \in Executing /\ Executes /\ op.pc = "verify" /\ op.doc \in Document /\ op.cmd \in Command
  BY CommandUnderWay DEF Verify, StoreInv, DocumentsDescend, TypeOK
<1>2. CASE Raise("refused") BY <1>1, <1>2, RaiseDoes DEF Executes
<1>3. CASE op.doc.sound /\ op' = [op EXCEPT !.pc = "save", !.doc = Candidate(op.doc, op.cmd)]
  <2> DEFINE new == Candidate(op.doc, op.cmd)
  <2>1. new \in Document
    BY <1>1, CandidateOf
  <2> HIDE DEF new
  <2>2. op' \in Executing
    BY <1>1, <1>3, <2>1 DEF Executing, new
  <2>3. op' # None /\ op'.kind = "command"
    BY <2>2 DEF Executing
  <2> QED BY <1>1, <1>3, <2>3 DEF Executes, Executing
<1> QED BY <1>2, <1>3 DEF Verify

LEMMA SaveDoes ==
  ASSUME StoreInv, Save
  PROVE  /\ op \in Executing /\ Executes /\ op.pc = "save" /\ Executes'
         /\ op'.cmd = op.cmd /\ op'.doc = op.doc /\ op'.blob = op.blob
         /\ \/ op'.pc = "failed" /\ op'.fail = "unknown" /\ op'.outcome = op.outcome
            \/ op'.pc = "replace" /\ op'.outcome = "unknown"
<1>1. op \in Executing /\ Executes /\ op.pc = "save"
  BY CommandUnderWay DEF Save, StoreInv
<1>2. CASE Raise("unknown") BY <1>1, <1>2, RaiseDoes DEF Executes
<1>3. CASE op' = [op EXCEPT !.pc = "replace", !.outcome = "unknown"]
  <2>1. op' \in Executing
    BY <1>1, <1>3 DEF Executing
  <2>2. op' # None /\ op'.kind = "command"
    BY <2>1 DEF Executing
  <2> QED BY <1>1, <1>3, <2>2 DEF Executes, Executing
<1> QED BY <1>2, <1>3 DEF Save

LEMMA ReplaceDoes ==
  ASSUME StoreInv, Replace
  PROVE  /\ op \in Executing /\ Executes /\ op.pc = "replace" /\ Executes'
         /\ op'.cmd = op.cmd /\ op'.doc = op.doc /\ op'.blob = op.blob
         /\ \/ /\ disk' = op.doc /\ former' = former \cup {op.doc} /\ landed' = landed \cup {op.cmd}
               /\ \/ op'.pc = "unlock" /\ op'.outcome = "committed"
                  \/ op'.pc = "failed" /\ op'.fail = "unknown" /\ op'.outcome = op.outcome
            \/ /\ op'.pc = "failed" /\ op'.fail = "unknown" /\ op'.outcome = op.outcome
               /\ UNCHANGED <<disk, former, landed>>
<1>1. op \in Executing /\ Executes /\ op.pc = "replace"
  BY CommandUnderWay DEF Replace, StoreInv
<1>2. ASSUME Raise("unknown")
      PROVE  /\ Executes' /\ op'.cmd = op.cmd /\ op'.doc = op.doc /\ op'.blob = op.blob
             /\ op'.pc = "failed" /\ op'.fail = "unknown" /\ op'.outcome = op.outcome
  BY <1>1, <1>2, RaiseDoes DEF Executes
<1>3. ASSUME op' = [op EXCEPT !.pc = "unlock", !.outcome = "committed"]
      PROVE  /\ Executes' /\ op'.cmd = op.cmd /\ op'.doc = op.doc /\ op'.blob = op.blob
             /\ op'.pc = "unlock" /\ op'.outcome = "committed"
  <2>1. op' \in Executing
    BY <1>1, <1>3 DEF Executing
  <2>2. op' # None /\ op'.kind = "command"
    BY <2>1 DEF Executing
  <2> QED BY <1>1, <1>3, <2>2 DEF Executes, Executing
<1> QED BY <1>1, <1>2, <1>3 DEF Replace, Replaced

LEMMA UnlockDoes ==
  ASSUME StoreInv, Unlock
  PROVE  /\ op \in Executing /\ Executes /\ op.pc = "unlock" /\ Executes'
         /\ op'.cmd = op.cmd /\ op'.doc = op.doc /\ op'.blob = op.blob /\ op'.outcome = op.outcome
         /\ \/ op'.pc = "publish"
            \/ op'.pc = "failed" /\ op'.fail = "unknown"
<1>1. op \in Executing /\ Executes /\ op.pc = "unlock"
  BY CommandUnderWay DEF Unlock, StoreInv
<1>2. CASE Raise("unknown") BY <1>1, <1>2, RaiseDoes DEF Executes
<1>3. CASE op' = [op EXCEPT !.pc = "publish"]
  <2>1. op' \in Executing
    BY <1>1, <1>3 DEF Executing
  <2>2. op' # None /\ op'.kind = "command"
    BY <2>1 DEF Executing
  <2> QED BY <1>1, <1>3, <2>2 DEF Executes, Executing
<1> QED BY <1>2, <1>3 DEF Unlock, Goto

(* The answer.                                                             *)
LEMMA PublishDoes ==
  ASSUME StoreInv, Publish
  PROVE  /\ op \in Executing /\ Executes /\ op.pc = "publish" /\ op' = None /\ ~Executes'
         /\ verdict' = [verdict EXCEPT ![op.cmd.id] = "ok"]
         /\ \A x \in Client : client'[x].seen = client[x].seen /\ client'[x].sent = client[x].sent
BY CommandUnderWay, TellTyped DEF Publish, StoreInv, Executes

LEMMA FailedDoes ==
  ASSUME StoreInv, Failed
  PROVE  /\ op \in Executing /\ Executes /\ op.pc = "failed" /\ op' = None /\ ~Executes'
         /\ op.fail \in {"refused", "unknown"}
         /\ verdict' = [verdict EXCEPT ![op.cmd.id] = op.fail]
         /\ \A x \in Client : client'[x].seen = client[x].seen /\ client'[x].sent = client[x].sent
         /\ \/ /\ op.blob /\ op.outcome = "uncommitted"
               /\ blobs' = blobs \ {op.cmd.id} /\ leftover' = leftover
            \/ op.blob /\ leftover' = leftover \cup {op.cmd.id} /\ blobs' = blobs
            \/ ~op.blob /\ blobs' = blobs /\ leftover' = leftover
<1>1. op \in Executing /\ Executes /\ op.pc = "failed" /\ op.fail \in {"refused", "unknown"}
  BY CommandUnderWay DEF Failed, StoreInv, RequestsAreUnique
<1>2. op' = None /\ ~Executes'
  BY DEF Failed, Executes
<1>3. /\ verdict' = [verdict EXCEPT ![op.cmd.id] = op.fail]
      /\ \A x \in Client : client'[x].seen = client[x].seen /\ client'[x].sent = client[x].sent
  BY <1>1, TellTyped DEF Failed, StoreInv
<1> QED BY <1>1, <1>2, <1>3 DEF Failed

(* A read takes the mutex for a client, or for nobody; what it admits is   *)
(* the file as it is.                                                      *)
LEMMA ReadDoes ==
  ASSUME StoreInv, ReadFile \/ Reconcile \/ Repair \/ (\E x \in Client \cup {None} : ReadFor(x))
  PROVE  /\ ~Executes /\ ~Executes'
         /\ At("read", "repair")' => /\ Reconcile /\ disk.sound
                                     /\ op'.doc = Repaired(disk) /\ UNCHANGED disk
<1>1. ~Executes
  BY ReadUnderWay DEF StoreInv, ReadFile, Reconcile, Repair, ReadFor, Executes
<1>2. CASE ReadFile
  <2>1. op \in Reading
    BY <1>2, ReadUnderWay DEF StoreInv, ReadFile
  <2>2. op' = None \/ op' = [op EXCEPT !.pc = "reconcile", !.doc = disk]
    BY <1>2 DEF ReadFile, Reject, Admit
  <2>3. op' = None \/ (op'.kind = "read" /\ op'.pc = "reconcile")
    BY <2>1, <2>2 DEF Reading
  <2> QED BY <1>1, <2>3 DEF Executes, At
<1>3. CASE Reconcile
  <2>1. op \in Reading
    BY <1>3, ReadUnderWay DEF StoreInv, Reconcile
  <2>2. \/ op' = None \/ op' = [op EXCEPT !.pc = "read", !.tries = @ + 1]
        \/ op' = [op EXCEPT !.pc = "repair", !.doc = Repaired(disk)] /\ disk.sound
    BY <1>3 DEF Reconcile, Reject, NextAttempt, Repaired
  <2>3. \/ op' = None \/ (op'.kind = "read" /\ op'.pc = "read")
        \/ op'.kind = "read" /\ op'.doc = Repaired(disk) /\ disk.sound
    BY <2>1, <2>2 DEF Reading
  <2>4. UNCHANGED disk
    BY <1>3 DEF Reconcile
  <2> QED BY <1>1, <1>3, <2>3, <2>4 DEF Executes, At
<1>4. CASE Repair
  <2>1. op \in Reading
    BY <1>4, ReadUnderWay DEF StoreInv, Repair
  <2>2. op' = None \/ op' = [op EXCEPT !.pc = "read", !.tries = @ + 1]
    BY <1>4 DEF Repair
  <2>3. op' = None \/ (op'.kind = "read" /\ op'.pc = "read")
    BY <2>1, <2>2 DEF Reading
  <2> QED BY <1>1, <2>3 DEF Executes, At
<1>5. CASE \E x \in Client \cup {None} : ReadFor(x)
  BY <1>1, <1>5 DEF ReadFor, Executes, At
<1> QED BY <1>2, <1>3, <1>4, <1>5

LEMMA BeginCommandDoes ==
  ASSUME StoreInv, NEW m \in inbox, BeginCommand(m)
  PROVE  /\ ~Executes /\ up /\ Executes' /\ op'.cmd = m /\ op'.pc = "load"
         /\ op'.outcome = "uncommitted"
         /\ ~op'.blob /\ op'.fail = None /\ inbox' = inbox \ {m}
<1>1. op' \in Executing
  BY DEF BeginCommand, StoreInv, TypeOK, Executing
<1>2. op' # None
  BY <1>1
<1> QED BY <1>2 DEF BeginCommand, Executes

(* What a client sends carries an id nothing else has.                     *)
LEMMA SendDoes ==
  ASSUME StoreInv, NEW x \in Client, NEW c \in Card, NEW bound \in BOOLEAN, NEW upload \in BOOLEAN,
         Send(x, c, bound, upload)
  PROVE  \E m \in Command :
           /\ inbox' = inbox \cup {m} /\ m.id = <<x, client[x].sent + 1>> /\ ~Spent(m.id)
           /\ client[x].seen \in Document /\ m.rev = client[x].seen.rev
           /\ ~Seen(x, client[x].seen)
           /\ client'[x].sent = client[x].sent + 1 /\ client'[x].seen = client[x].seen
           /\ \A y \in Client : y # x => client'[y] = client[y]
<1> DEFINE m == [id |-> <<x, client[x].sent + 1>>, card |-> c, rev |-> client[x].seen.rev,
                 body |-> IF bound THEN CardVersion(client[x].seen, c) ELSE None,
                 upload |-> upload]
<1>1. TypeOK /\ client \in Clients
  BY DEF StoreInv, TypeOK, Clients
<1>2. m \in Command
  BY <1>1, SendTyped
<1>3. m.id = <<x, client[x].sent + 1>> /\ m.rev = client[x].seen.rev
  OBVIOUS
<1>4. inbox' = inbox \cup {m} /\ ~Seen(x, client[x].seen)
  BY DEF Send
<1> HIDE DEF m
<1>5. client[x].sent \in Nat /\ client[x].seen \in Document
  BY <1>1 DEF Send, Clients
<1>6. ~Spent(m.id)
  BY <1>3, <1>5 DEF Spent
<1>7. /\ client'[x].sent = client[x].sent + 1 /\ client'[x].seen = client[x].seen
      /\ \A y \in Client : y # x => client'[y] = client[y]
  BY <1>1 DEF Send, Clients
<1> QED BY <1>2, <1>3, <1>4, <1>5, <1>6, <1>7

LEMMA GiveUpDoes ==
  ASSUME StoreInv, NEW y \in Client, GiveUp(y)
  PROVE  \A x \in Client : client'[x].seen = client[x].seen /\ client'[x].sent = client[x].sent
BY StopsWaiting DEF GiveUp, StoreInv, TypeOK, Clients

(* What admits a document gives it to one client.                          *)
LEMMA AdmitDoes ==
  ASSUME StoreInv, op \in Reading, NEW doc \in Document, Admit(doc)
  PROVE  /\ op' = None /\ memory' = doc /\ cached' = doc
         /\ \A x \in Client : /\ client'[x].sent = client[x].sent
                              /\ client'[x].seen \in {client[x].seen, doc}
<1>1. client \in Clients
  BY DEF StoreInv, TypeOK, Clients
<1>2. client' = client \/ (op.by \in Client /\ client' = [client EXCEPT ![op.by].seen = doc])
  BY DEF Admit, Reading
<1> QED BY <1>1, <1>2 DEF Admit, Clients

LEMMA CrashDoes ==
  ASSUME StoreInv, Crash
  PROVE  /\ memory' = None /\ cached' = None /\ op' = None /\ inbox' = {} /\ ~Executes'
         /\ \A x \in Client : client'[x].seen = client[x].seen /\ client'[x].sent = client[x].sent
<1>1. client \in Clients
  BY DEF StoreInv, TypeOK, Clients
<1>2. ASSUME NEW x \in Client
      PROVE  client'[x].seen = client[x].seen /\ client'[x].sent = client[x].sent
  <2>1. client'[x] = [client[x] EXCEPT !.waiting = FALSE]
    BY DEF Crash
  <2> QED BY <1>1, <2>1 DEF Clients
<1> QED BY <1>2 DEF Crash, Executes

-----------------------------------------------------------------------------
(* Which steps change what.                                                *)

(* Four actions replace the file.                                          *)
LEMMA FileReplacements ==
  ASSUME [Next]_vars
  PROVE  \/ Replace \/ Repair
         \/ \E c \in Card, sound, low \in BOOLEAN : HandEdit(c, sound, low)
         \/ \E doc \in former : Restore(doc)
         \/ UNCHANGED <<disk, former, landed>>
<1>1. CASE Load \/ RunCommand \/ Verify \/ Save \/ Unlock \/ Publish \/ Failed
  BY <1>1 DEF Load, RunCommand, Verify, Save, Unlock, Publish, Failed
<1>2. CASE ReadFile \/ Reconcile \/ Start \/ Status \/ \E x \in Client : BeginRead(x)
  BY <1>2 DEF ReadFile, Reconcile, Start, Status, BeginRead, ReadFor
<1>3. CASE (\E m \in inbox : BeginCommand(m)) \/ (\E x \in Client : GiveUp(x)) \/ Crash
  BY <1>3 DEF BeginCommand, GiveUp, Crash
<1>4. CASE \E x \in Client, c \in Card, bound, upload \in BOOLEAN : Send(x, c, bound, upload)
  BY <1>4 DEF Send
<1>5. CASE UNCHANGED vars
  BY <1>5 DEF vars
<1> QED BY <1>1, <1>2, <1>3, <1>4, <1>5 DEF Next, Service

(* What the file once was it may be again; what landed stays landed.       *)
LEMMA FormerGrows ==
  ASSUME [Next]_vars
  PROVE  former \subseteq former' /\ landed \subseteq landed' /\ Landed \subseteq Landed'
<1>1. former \subseteq former' /\ landed \subseteq landed'
  BY FileReplacements DEF Replace, Repair, HandEdit, Restore, Replaced
<1> QED BY <1>1 DEF Landed

(* A step is one of the command's or of a read's, or leaves the mutex.     *)
LEMMA MutexSteps ==
  ASSUME [Next]_vars
  PROVE  \/ Load \/ RunCommand \/ Verify \/ Save \/ Replace \/ Unlock \/ Publish \/ Failed
         \/ (\E m \in inbox : BeginCommand(m)) \/ Crash
         \/ ReadFile \/ Reconcile \/ Repair \/ (\E x \in Client \cup {None} : ReadFor(x))
         \/ UNCHANGED op
BY DEF Next, Service, Start, Status, BeginRead, Send, GiveUp, HandEdit, Restore, vars

LEMMA SpentStays ==
  ASSUME StoreInv, [Next]_vars
  PROVE  /\ \A x \in Client : client[x].sent <= client'[x].sent
         /\ \A r \in Request : Spent(r) => Spent(r)'
<1>1. \A x \in Client : client[x].sent \in Nat
  BY DEF StoreInv, TypeOK
<1>2. ASSUME \A x \in Client : client'[x].sent = client[x].sent
      PROVE  \A x \in Client : client[x].sent <= client'[x].sent
  BY <1>1, <1>2
<1>3. \A x \in Client : client[x].sent <= client'[x].sent
  <2>1. CASE Publish \/ Failed \/ Crash
    BY <1>2, <2>1, PublishDoes, FailedDoes, CrashDoes
  <2>2. CASE \E x \in Client : GiveUp(x)
    BY <1>2, <2>2, GiveUpDoes
  <2>3. CASE ReadFile
    <3>1. op \in Reading /\ disk \in Document /\ cached \in Document \cup {None} /\ disk # None
      BY <2>3, ReadUnderWay DEF ReadFile, StoreInv, TypeOK
    <3>2. client' = client \/ (\E doc \in Document : Admit(doc))
      BY <2>3, <3>1 DEF ReadFile, Reject
    <3> QED BY <1>2, <3>1, <3>2, AdmitDoes
  <2>4. CASE \E x \in Client, c \in Card, bound, upload \in BOOLEAN : Send(x, c, bound, upload)
    <3>1. PICK x \in Client, c \in Card, bound \in BOOLEAN, upload \in BOOLEAN :
                 Send(x, c, bound, upload)
      BY <2>4
    <3>2. client'[x].sent = client[x].sent + 1 /\ \A y \in Client : y # x => client'[y] = client[y]
      BY <3>1, SendDoes
    <3> QED BY <1>1, <3>2
  <2>5. CASE UNCHANGED client
    BY <1>2, <2>5
  <2>6. \/ Publish \/ Failed \/ Crash \/ ReadFile \/ (\E x \in Client : GiveUp(x))
        \/ (\E x \in Client, c \in Card, bound, upload \in BOOLEAN : Send(x, c, bound, upload))
        \/ UNCHANGED client
    BY DEF Next, Service, Start, Status, BeginRead, ReadFor, Load, RunCommand, Verify, Save,
           Replace, Unlock, Reconcile, Reject, NextAttempt, Repair, BeginCommand, HandEdit,
           Restore, vars
  <2> QED BY <2>1, <2>2, <2>3, <2>4, <2>5, <2>6
<1>4. ASSUME NEW r \in Request, Spent(r) PROVE Spent(r)'
  <2>1. r[1] \in Client /\ r[2] \in Nat /\ client'[r[1]].sent \in Nat
    <3>1. TypeOK'
      BY TypeStep DEF StoreInv
    <3> QED BY <3>1 DEF Request, TypeOK
  <2> QED BY <1>1, <1>3, <1>4, <2>1 DEF Spent
<1> QED BY <1>3, <1>4

-----------------------------------------------------------------------------
(* One lemma per part of the invariant.                                    *)

(* A step leaves what is served as it is, or forgets it, or puts a         *)
(* document there that is the file, passed its audits and meets its floors.*)
LEMMA ServedStays ==
  ASSUME OnlyAdmittedIsServed, former \subseteq former', NEW good,
         good # None => good \in former' /\ good.sound /\ ~good.low,
         memory' \in {memory, None, good}, cached' \in {cached, None, good},
         \A x \in Client : client'[x].seen \in {client[x].seen, good}
  PROVE  OnlyAdmittedIsServed'
<1> DEFINE Fine(doc) == doc # None => doc \in former /\ doc.sound /\ ~doc.low
           Fine1(doc) == doc # None => doc \in former' /\ doc.sound /\ ~doc.low
<1>1. Fine(memory) /\ Fine(cached) /\ \A x \in Client : Fine(client[x].seen)
  BY DEF OnlyAdmittedIsServed
<1>2. Fine1(good) /\ Fine1(None) /\ \A doc : Fine(doc) => Fine1(doc)
  OBVIOUS
<1> HIDE DEF Fine, Fine1
<1>3. Fine1(memory') /\ Fine1(cached') /\ \A x \in Client : Fine1(client'[x].seen)
  BY <1>1, <1>2
<1> QED BY <1>3 DEF Fine1, OnlyAdmittedIsServed

LEMMA ServedStep == StoreInv /\ [Next]_vars => OnlyAdmittedIsServed'
<1> SUFFICES ASSUME StoreInv, [Next]_vars PROVE OnlyAdmittedIsServed'
  OBVIOUS
<1>1. OnlyAdmittedIsServed /\ former \subseteq former' /\ TypeOK
  BY FormerGrows DEF StoreInv
<1>2. ASSUME memory' \in {memory, None}, cached' \in {cached, None},
             \A x \in Client : client'[x].seen = client[x].seen
      PROVE  OnlyAdmittedIsServed'
  BY <1>1, <1>2, ServedStays
<1>3. CASE Publish
  <2>1. op.doc \in former /\ op.doc.sound /\ ~op.doc.low
    BY <1>3, PublishDoes DEF StoreInv, DocumentsDescend
  <2>2. memory' = op.doc /\ cached' = None /\ \A x \in Client : client'[x].seen = client[x].seen
    BY <1>3, PublishDoes DEF Publish
  <2> QED BY <1>1, <2>1, <2>2, ServedStays
<1>4. CASE Failed BY <1>2, <1>4, FailedDoes DEF Failed, process
<1>5. CASE Crash BY <1>2, <1>5, CrashDoes
<1>6. CASE \E x \in Client : GiveUp(x) BY <1>2, <1>6, GiveUpDoes DEF GiveUp, process
<1>7. CASE \E x \in Client, c \in Card, bound, upload \in BOOLEAN : Send(x, c, bound, upload)
  <2>1. PICK x \in Client, c \in Card, bound \in BOOLEAN, upload \in BOOLEAN :
               Send(x, c, bound, upload)
    BY <1>7
  <2>2. \A y \in Client : client'[y].seen = client[y].seen
    BY <2>1, SendDoes
  <2> QED BY <1>2, <2>1, <2>2 DEF Send, process
<1>8. CASE ReadFile
  <2>1. op \in Reading /\ disk \in Document /\ disk \in former /\ disk # None
    BY <1>1, <1>8, ReadUnderWay DEF ReadFile, TypeOK
  <2>2. ASSUME NEW doc \in Document, Admit(doc), doc \in former, doc.sound, ~doc.low
        PROVE  OnlyAdmittedIsServed'
    BY <1>1, <2>1, <2>2, AdmitDoes, ServedStays
  <2>3. CASE cached = disk /\ Admit(cached)
    BY <2>1, <2>2, <2>3, <1>1 DEF OnlyAdmittedIsServed
  <2>4. CASE disk.sound /\ ~disk.low /\ Admit(disk)
    BY <2>1, <2>2, <2>4
  <2>5. CASE UNCHANGED <<process, client>>
    BY <1>2, <2>5 DEF process
  <2> QED BY <1>8, <2>3, <2>4, <2>5 DEF ReadFile, Reject
<1>9. CASE (\E m \in inbox : BeginCommand(m)) \/ Repair
  BY <1>2, <1>9 DEF BeginCommand, Repair
<1>10. CASE UNCHANGED <<process, client>>
  BY <1>2, <1>10 DEF process
<1>11. \/ Publish \/ Failed \/ Crash \/ ReadFile \/ (\E x \in Client : GiveUp(x))
       \/ (\E x \in Client, c \in Card, bound, upload \in BOOLEAN : Send(x, c, bound, upload))
       \/ (\E m \in inbox : BeginCommand(m)) \/ Repair \/ UNCHANGED <<process, client>>
  BY DEF Next, Service, Start, Status, BeginRead, ReadFor, Load, RunCommand, Verify, Save,
         Replace, Unlock, Reconcile, Reject, NextAttempt, HandEdit, Restore, vars
<1> QED BY <1>3, <1>4, <1>5, <1>6, <1>7, <1>8, <1>9, <1>10, <1>11

LEMMA DescendStep == StoreInv /\ [Next]_vars => DocumentsDescend'
<1> SUFFICES ASSUME StoreInv, [Next]_vars PROVE DocumentsDescend'
  OBVIOUS
<1>1. DocumentsDescend /\ former \subseteq former' /\ disk \in former
  BY FormerGrows DEF StoreInv, TypeOK
<1>2. ASSUME op' = None \/ (Executes' /\ op'.pc \in {"load", "failed"}) PROVE DocumentsDescend'
  BY <1>2 DEF DocumentsDescend, Executes, At
<1>3. CASE Load
  BY <1>1, <1>2, <1>3, LoadDoes DEF DocumentsDescend, Executes, At, Based
<1>4. CASE RunCommand
  BY <1>1, <1>2, <1>4, RunCommandDoes DEF DocumentsDescend, Executes, At, Based
<1>5. CASE Verify
  BY <1>1, <1>2, <1>5, VerifyDoes DEF DocumentsDescend, Executes, At, Based
<1>6. CASE Save
  BY <1>1, <1>2, <1>6, SaveDoes DEF DocumentsDescend, Executes, At, Based
<1>7. CASE Replace
  <2>1. CASE op'.pc = "unlock" /\ former' = former \cup {op.doc}
    <3>1. PICK doc \in former : doc.sound /\ Based(op.cmd, doc) /\ op.doc = Candidate(doc, op.cmd)
      BY <1>1, <1>7, ReplaceDoes DEF DocumentsDescend
    <3>2. doc \in Document /\ op.cmd \in Command /\ op.cmd.upload \in BOOLEAN
      BY <1>7, ReplaceDoes DEF StoreInv, TypeOK, Executing, Command
    <3>3. /\ op.doc.sound = doc.sound /\ ~op.doc.low
          /\ op.doc.files = IF op.cmd.upload THEN doc.files \cup {op.cmd.id} ELSE doc.files
      <4>1. op.doc = Candidate(doc, op.cmd)
        BY <3>1
      <4>2. op.doc = [rev |-> doc.rev + 1, body |-> op.doc.body,
                      files |-> IF op.cmd.upload THEN doc.files \cup {op.cmd.id} ELSE doc.files,
                      sound |-> doc.sound, low |-> FALSE]
        BY <3>2, <4>1, CandidateOf
      <4> QED BY <4>2
    <3>4. op.cmd.upload => op.cmd.id \in op.doc.files
      BY <3>3
    <3> QED BY <1>7, <2>1, <3>1, <3>3, <3>4, ReplaceDoes DEF DocumentsDescend, Executes, At
  <2> QED BY <1>2, <1>7, <2>1, ReplaceDoes
<1>8. CASE Unlock
  BY <1>1, <1>2, <1>8, UnlockDoes DEF DocumentsDescend, Executes, At
<1>9. CASE Publish \/ Failed \/ Crash
  BY <1>2, <1>9, PublishDoes, FailedDoes, CrashDoes
<1>10. CASE \E m \in inbox : BeginCommand(m)
  BY <1>2, <1>10, BeginCommandDoes
<1>11. CASE ReadFile \/ Reconcile \/ Repair \/ \E x \in Client \cup {None} : ReadFor(x)
  <2>1. ~Executes' /\ (At("read", "repair")' => disk.sound /\ op'.doc = Repaired(disk))
    BY <1>11, ReadDoes
  <2> QED BY <1>1, <2>1 DEF DocumentsDescend, Executes, At
<1>12. CASE UNCHANGED op
  BY <1>1, <1>12 DEF DocumentsDescend, Executes, At, Based, CardVersion
<1> QED BY <1>3, <1>4, <1>5, <1>6, <1>7, <1>8, <1>9, <1>10, <1>11, <1>12, MutexSteps

(* A command waits until it begins, or until the process dies; what comes  *)
(* to wait was never sent before.                                          *)
LEMMA InboxSteps ==
  ASSUME StoreInv, [Next]_vars
  PROVE  \/ inbox' \subseteq inbox
         \/ \E m \in Command :
              /\ inbox' = inbox \cup {m} /\ ~Spent(m.id) /\ Spent(m.id)' /\ UNCHANGED up
              /\ UNCHANGED <<disk, blobs, op, verdict, landed, leftover, former>>
              /\ \E doc \in former : doc.rev = m.rev /\ ~Seen(m.id[1], doc)
<1>1. CASE \E x \in Client, c \in Card, bound, upload \in BOOLEAN : Send(x, c, bound, upload)
  <2>1. PICK x \in Client, c \in Card, bound \in BOOLEAN, upload \in BOOLEAN :
               Send(x, c, bound, upload)
    BY <1>1
  <2>2. PICK m \in Command :
          /\ inbox' = inbox \cup {m} /\ m.id = <<x, client[x].sent + 1>> /\ ~Spent(m.id)
          /\ client'[x].sent = client[x].sent + 1 /\ client[x].seen \in Document
          /\ m.rev = client[x].seen.rev /\ ~Seen(x, client[x].seen)
    BY <2>1, SendDoes
  <2>3. client[x].seen \in former /\ m.id[1] = x
    BY <2>2 DEF StoreInv, OnlyAdmittedIsServed
  <2>4. Spent(m.id)'
    <3>1. client[x].sent \in Nat
      BY DEF StoreInv, TypeOK
    <3> QED BY <2>2, <3>1 DEF Spent
  <2> QED BY <2>1, <2>2, <2>3, <2>4 DEF Send, process
<1>2. CASE (\E m \in inbox : BeginCommand(m)) \/ Crash
  BY <1>2 DEF BeginCommand, Crash
<1>3. CASE UNCHANGED inbox
  BY <1>3
<1>4. \/ \E x \in Client, c \in Card, bound, upload \in BOOLEAN : Send(x, c, bound, upload)
      \/ (\E m \in inbox : BeginCommand(m)) \/ Crash \/ UNCHANGED inbox
  BY DEF Next, Service, Start, Status, BeginRead, ReadFor, Load, RunCommand, Verify, Save, Replace,
         Unlock, Publish, Failed, ReadFile, Reconcile, Repair, GiveUp, HandEdit, Restore, vars
<1> QED BY <1>1, <1>2, <1>3, <1>4

(* Only the end of a command and a crash answer a request.                 *)
LEMMA VerdictSteps ==
  ASSUME StoreInv, [Next]_vars, NEW r \in Request, verdict'[r] # verdict[r]
  PROVE  Spent(r)
<1>1. CASE Publish \/ Failed
  <2>1. op \in Executing /\ Executes /\ \E v : verdict' = [verdict EXCEPT ![op.cmd.id] = v]
    BY <1>1, PublishDoes, FailedDoes
  <2>2. r = op.cmd.id
    BY <2>1 DEF StoreInv, TypeOK
  <2> QED BY <2>1, <2>2 DEF StoreInv, RequestsAreUnique
<1>2. CASE Crash
  <2>1. (\E m \in inbox : m.id = r) \/ (Executes /\ op.cmd.id = r)
    BY <1>2 DEF Crash, Executes
  <2> QED BY <2>1 DEF StoreInv, RequestsAreUnique
<1>3. Publish \/ Failed \/ Crash \/ UNCHANGED verdict
  BY DEF Next, Service, Start, Status, BeginRead, ReadFor, Load, RunCommand, Verify, Save, Replace,
         Unlock, ReadFile, Reconcile, Repair, BeginCommand, Send, GiveUp, HandEdit, Restore, vars
<1> QED BY <1>1, <1>2, <1>3

(* Only the replacement of the file by a command makes a command land.     *)
LEMMA LandedSteps ==
  ASSUME StoreInv, [Next]_vars
  PROVE  \/ UNCHANGED <<landed, Landed>>
         \/ Replace /\ landed' = landed \cup {op.cmd} /\ Landed' = Landed \cup {op.cmd.id}
<1>1. UNCHANGED landed \/ (Replace /\ landed' = landed \cup {op.cmd})
  <2>1. CASE Replace
    BY <2>1, ReplaceDoes
  <2> QED BY <2>1, FileReplacements DEF Repair, HandEdit, Restore
<1> QED BY <1>1 DEF Landed

LEMMA UniqueStep == StoreInv /\ [Next]_vars => RequestsAreUnique'
<1> SUFFICES ASSUME StoreInv, [Next]_vars PROVE RequestsAreUnique'
  OBVIOUS
<1>1. /\ RequestsAreUnique /\ inbox \subseteq Command /\ landed \subseteq Command
      /\ Landed \subseteq Request
      /\ op \in Executing => op.cmd \in Command /\ op.cmd.id \in Request
  BY DEF StoreInv, TypeOK, Landed, Command, Executing
<1>2. \A r \in Request : Spent(r) => Spent(r)'
  BY SpentStays
<1>3. \A m \in Command : m.id \in Request
  BY DEF Command
<1>4. /\ \A m \in inbox' : Spent(m.id)' /\ m.id \notin Landed'
      /\ \A m, n \in inbox' : m.id = n.id => m = n
  <2>1. CASE inbox' \subseteq inbox
    <3>1. \A m \in inbox' : Spent(m.id)'
      BY <1>1, <1>2, <1>3, <2>1 DEF RequestsAreUnique
    <3>2. \A m \in inbox' : m.id \notin Landed'
      <4>1. CASE Replace /\ Landed' = Landed \cup {op.cmd.id}
        BY <1>1, <2>1, <4>1, ReplaceDoes DEF RequestsAreUnique
      <4> QED BY <1>1, <2>1, <4>1, LandedSteps DEF RequestsAreUnique
    <3> QED BY <1>1, <2>1, <3>1, <3>2 DEF RequestsAreUnique
  <2>2. ASSUME NEW m \in Command, inbox' = inbox \cup {m}, ~Spent(m.id), Spent(m.id)',
               UNCHANGED landed
        PROVE  /\ \A n \in inbox' : Spent(n.id)' /\ n.id \notin Landed'
               /\ \A n, o \in inbox' : n.id = o.id => n = o
    <3>1. Landed' = Landed
      BY <2>2 DEF Landed
    <3>2. m.id \notin Landed /\ \A n \in inbox : n.id # m.id
      BY <1>1, <2>2 DEF RequestsAreUnique
    <3> QED BY <1>1, <1>2, <1>3, <2>2, <3>1, <3>2 DEF RequestsAreUnique
  <2> QED BY <2>1, <2>2, InboxSteps
<1>5. \A r \in Landed' : Spent(r)'
  <2>1. CASE Replace /\ Landed' = Landed \cup {op.cmd.id}
    BY <1>1, <1>2, <2>1, ReplaceDoes DEF RequestsAreUnique
  <2> QED BY <1>1, <1>2, <2>1, LandedSteps DEF RequestsAreUnique
<1>6. \A r \in Request : verdict'[r] # None => Spent(r)'
  BY <1>1, <1>2, VerdictSteps DEF RequestsAreUnique
<1>7. Executes' => up'
  <2>1. Executes => up
    BY <1>1 DEF RequestsAreUnique
  <2>2. CASE Load \/ RunCommand \/ Verify \/ Save \/ Replace \/ Unlock
    <3>1. Executes
      BY <2>2, LoadDoes, RunCommandDoes, VerifyDoes, SaveDoes, ReplaceDoes, UnlockDoes
    <3> QED BY <2>1, <2>2, <3>1 DEF Load, RunCommand, Verify, Save, Replace, Unlock, process
  <2>3. CASE Publish \/ Failed \/ Crash
    BY <2>3, PublishDoes, FailedDoes, CrashDoes
  <2>4. CASE \E m \in inbox : BeginCommand(m)
    BY <2>4 DEF BeginCommand
  <2>5. CASE ReadFile \/ Reconcile \/ Repair \/ \E x \in Client \cup {None} : ReadFor(x)
    BY <2>5, ReadDoes
  <2>6. CASE UNCHANGED <<op, up>>
    BY <2>1, <2>6 DEF Executes
  <2>7. \/ Load \/ RunCommand \/ Verify \/ Save \/ Replace \/ Unlock \/ Publish \/ Failed \/ Crash
        \/ (\E m \in inbox : BeginCommand(m)) \/ ReadFile \/ Reconcile \/ Repair
        \/ (\E x \in Client \cup {None} : ReadFor(x)) \/ UNCHANGED <<op, up>>
    BY DEF Next, Service, Start, Status, BeginRead, Send, GiveUp, HandEdit, Restore, process, vars
  <2> QED BY <2>2, <2>3, <2>4, <2>5, <2>6, <2>7
<1> DEFINE Holds == Executes =>
       /\ Spent(op.cmd.id) /\ \A m \in inbox : m.id # op.cmd.id
       /\ op.pc \in {"load", "command", "verify", "save", "replace"} \/ op.outcome = "uncommitted"
            => op.cmd.id \notin Landed
       /\ op.pc = "replace" => op.outcome = "unknown"
       /\ op.pc \in {"unlock", "publish"} => op.cmd.id \in Landed
       /\ op.pc = "failed" => op.fail \in {"refused", "unknown"}
       /\ op.pc = "failed" /\ op.fail = "refused" => op.cmd.id \notin Landed
<1>8. Holds
  BY <1>1 DEF RequestsAreUnique
<1> SUFFICES Holds'
  BY <1>4, <1>5, <1>6, <1>7 DEF RequestsAreUnique
<1>9. CASE Load \/ RunCommand \/ Verify \/ Save \/ Replace \/ Unlock
  <2>1. /\ op \in Executing /\ Executes /\ op'.cmd = op.cmd
        /\ UNCHANGED inbox
    BY <1>9, LoadDoes, RunCommandDoes, VerifyDoes, SaveDoes, ReplaceDoes, UnlockDoes
       DEF Load, RunCommand, Verify, Save, Replace, Unlock, process
  <2>2. Spent(op.cmd.id)'
    BY <1>1, <1>2, <1>8, <2>1
  <2>3. \A m \in inbox' : m.id # op.cmd.id
    BY <1>8, <2>1
  <2>4. CASE Load \/ RunCommand \/ Verify \/ Save \/ Unlock
    <3>1. Landed' = Landed
      BY <2>4 DEF Load, RunCommand, Verify, Save, Unlock, Landed
    <3>2. /\ op.pc \in {"load", "command", "verify", "save"} => op.cmd.id \notin Landed
          /\ op.outcome = "uncommitted" => op.cmd.id \notin Landed
          /\ op.pc = "unlock" => op.cmd.id \in Landed
      BY <1>8, <2>1
    <3>3. CASE Load
      BY <2>1, <2>2, <2>3, <3>1, <3>2, <3>3, LoadDoes
    <3>4. CASE RunCommand
      BY <2>1, <2>2, <2>3, <3>1, <3>2, <3>4, RunCommandDoes
    <3>5. CASE Verify
      BY <2>1, <2>2, <2>3, <3>1, <3>2, <3>5, VerifyDoes
    <3>6. CASE Save
      BY <2>1, <2>2, <2>3, <3>1, <3>2, <3>6, SaveDoes
    <3>7. CASE Unlock
      BY <2>1, <2>2, <2>3, <3>1, <3>2, <3>7, UnlockDoes
    <3> QED BY <2>4, <3>3, <3>4, <3>5, <3>6, <3>7
  <2>5. CASE Replace
    <3>1. op.outcome = "unknown"
      BY <1>8, <2>1, <2>5, ReplaceDoes
    <3>2. /\ op'.pc = "unlock" => op'.outcome = "committed" /\ op.cmd.id \in Landed'
          /\ op'.pc = "failed" => op'.fail = "unknown" /\ op'.outcome = "unknown"
          /\ op'.pc \in {"unlock", "failed"}
      BY <2>5, <3>1, ReplaceDoes DEF Landed
    <3> QED BY <2>1, <2>2, <2>3, <3>2
  <2> QED BY <1>9, <2>4, <2>5
<1>10. CASE Publish \/ Failed \/ Crash
  BY <1>10, PublishDoes, FailedDoes, CrashDoes
<1>11. CASE \E m \in inbox : BeginCommand(m)
  <2>1. PICK m \in inbox : BeginCommand(m)
    BY <1>11
  <2>2. /\ Executes' /\ op'.cmd = m /\ op'.pc = "load"
        /\ inbox' = inbox \ {m} /\ UNCHANGED <<client, landed>>
    BY <2>1, BeginCommandDoes DEF BeginCommand
  <2>3. Landed' = Landed /\ Spent(m.id)'
    BY <1>1, <1>2, <1>3, <2>2 DEF Landed, RequestsAreUnique
  <2> QED BY <1>1, <2>2, <2>3 DEF RequestsAreUnique
<1>12. CASE ReadFile \/ Reconcile \/ Repair \/ \E x \in Client \cup {None} : ReadFor(x)
  BY <1>12, ReadDoes
<1>13. CASE UNCHANGED op
  <2>1. \A m \in inbox' : Executes => m.id # op.cmd.id
    BY <1>1, <1>8, InboxSteps DEF RequestsAreUnique
  <2>2. CASE Replace
    BY <1>13, <2>2, ReplaceDoes
  <2>3. CASE Executes /\ ~Replace
    <3>1. UNCHANGED <<op, landed>> /\ Landed' = Landed
      BY <1>13, <2>3, LandedSteps
    <3>2. Executes' => op'.cmd = op.cmd /\ op.cmd.id \in Request
      BY <1>1, <1>13, <2>3 DEF StoreInv, TypeOK, Executing, Reading, Executes
    <3> QED BY <1>2, <1>8, <1>13, <2>1, <2>3, <3>1, <3>2 DEF Executes
  <2> QED BY <1>13, <2>2, <2>3 DEF Executes
<1> QED BY <1>9, <1>10, <1>11, <1>12, <1>13, MutexSteps

(* A command makes a blob; the end of one, and a crash, give one up.       *)
LEMMA BlobSteps ==
  ASSUME [Next]_vars
  PROVE  RunCommand \/ Failed \/ Crash \/ UNCHANGED <<blobs, leftover>>
BY DEF Next, Service, Start, Status, BeginRead, ReadFor, Load, Verify, Save, Replace, Unlock,
       Publish,
       ReadFile, Reconcile, Repair, BeginCommand, Send, GiveUp, HandEdit, Restore, vars

LEMMA OwnedStep == StoreInv /\ [Next]_vars => BlobsAreOwned'
<1> SUFFICES ASSUME StoreInv, [Next]_vars PROVE BlobsAreOwned'
  OBVIOUS
<1>1. /\ BlobsAreOwned /\ RequestsAreUnique /\ inbox \subseteq Command /\ blobs \subseteq Request
      /\ op \in Executing => /\ op.cmd \in Command /\ op.cmd.id \in Request
                             /\ op.blob \in BOOLEAN /\ op.cmd.upload \in BOOLEAN
  BY DEF StoreInv, TypeOK, Command, Executing
<1>2. \A r \in Request : Spent(r) => Spent(r)'
  BY SpentStays
<1>3. \/ UNCHANGED blobs
      \/ RunCommand /\ op \in Executing /\ Executes /\ blobs' = blobs \cup {op.cmd.id}
      \/ Failed /\ blobs' \subseteq blobs
  BY BlobSteps, RunCommandDoes, FailedDoes DEF Crash
<1>4. \A m \in inbox' : m.id \notin blobs'
  <2>1. CASE RunCommand /\ op \in Executing /\ Executes /\ blobs' = blobs \cup {op.cmd.id}
    <3>1. UNCHANGED inbox /\ \A m \in inbox : m.id # op.cmd.id
      BY <1>1, <2>1 DEF RequestsAreUnique, RunCommand
    <3> QED BY <1>1, <2>1, <3>1 DEF BlobsAreOwned
  <2>2. CASE blobs' \subseteq blobs
    BY <1>1, <2>2, InboxSteps DEF BlobsAreOwned
  <2> QED BY <1>3, <2>1, <2>2
<1>5. \A r \in blobs' : Spent(r)'
  BY <1>1, <1>2, <1>3 DEF BlobsAreOwned, RequestsAreUnique
<1> DEFINE Owns ==
       /\ op.blob => op.cmd.upload /\ op.cmd.id \in blobs \ leftover
       /\ ~op.blob => op.cmd.id \notin blobs
       /\ op.cmd.upload /\ op.pc \in {"verify", "save", "replace", "unlock", "publish"} => op.blob
<1>6. Executes => Owns
  BY <1>1 DEF BlobsAreOwned
<1> SUFFICES ASSUME Executes' PROVE Owns'
  BY <1>4, <1>5 DEF BlobsAreOwned
<1>7. CASE Load
  BY <1>6, <1>7, LoadDoes DEF Load
<1>8. CASE RunCommand
  <2>1. Executes /\ op \in Executing /\ op'.cmd = op.cmd /\ leftover' = leftover
    BY <1>8, RunCommandDoes DEF RunCommand
  <2>2. CASE op'.pc = "failed" /\ op'.blob = op.blob /\ blobs' = blobs
    BY <1>6, <2>1, <2>2
  <2>3. CASE op'.pc = "verify" /\ ~op.cmd.upload /\ op'.blob = op.blob /\ blobs' = blobs
    BY <1>6, <2>1, <2>3
  <2>4. CASE op'.pc = "verify" /\ op.cmd.upload /\ op'.blob /\ blobs' = blobs \cup {op.cmd.id}
    <3>1. op.cmd.id \notin leftover
      BY <1>1, <1>6, <2>1 DEF StoreInv, TypeOK
    <3> QED BY <2>1, <2>4, <3>1
  <2> QED BY <1>8, <2>2, <2>3, <2>4, RunCommandDoes
<1>9. CASE Verify
  BY <1>6, <1>9, VerifyDoes DEF Verify
<1>10. CASE Save
  BY <1>6, <1>10, SaveDoes DEF Save
<1>11. CASE Replace
  BY <1>6, <1>11, ReplaceDoes DEF Replace
<1>12. CASE Unlock
  BY <1>6, <1>12, UnlockDoes DEF Unlock
<1>13. CASE Publish \/ Failed \/ Crash
  BY <1>13, PublishDoes, FailedDoes, CrashDoes
<1>14. CASE \E m \in inbox : BeginCommand(m)
  <2>1. PICK m \in inbox : BeginCommand(m)
    BY <1>14
  <2>2. op'.cmd = m /\ op'.pc = "load" /\ ~op'.blob /\ blobs' = blobs
    BY <2>1, BeginCommandDoes DEF BeginCommand
  <2>3. m.id \notin blobs
    BY <1>1 DEF BlobsAreOwned
  <2> QED BY <2>2, <2>3
<1>15. CASE ReadFile \/ Reconcile \/ Repair \/ \E x \in Client \cup {None} : ReadFor(x)
  BY <1>15, ReadDoes
<1>16. CASE UNCHANGED <<op, blobs, leftover>>
  BY <1>6, <1>16 DEF Executes
<1>17. \/ Load \/ RunCommand \/ Verify \/ Save \/ Replace \/ Unlock \/ Publish \/ Failed \/ Crash
       \/ (\E m \in inbox : BeginCommand(m)) \/ ReadFile \/ Reconcile \/ Repair
       \/ (\E x \in Client \cup {None} : ReadFor(x)) \/ UNCHANGED <<op, blobs, leftover>>
  BY MutexSteps, BlobSteps
<1> QED BY <1>7, <1>8, <1>9, <1>10, <1>11, <1>12, <1>13, <1>14, <1>15, <1>16, <1>17

(* What a replacement of the file writes, next to a document it once was.  *)
LEMMA WrittenDocument ==
  ASSUME StoreInv, [Next]_vars, NEW new \in former', new \notin former
  PROVE  /\ new \in Document
         /\ \E old \in former :
              \/ /\ Replace /\ new = op.doc /\ op.doc = Candidate(old, op.cmd)
                 /\ Based(op.cmd, old) /\ old.sound
              \/ /\ Repair /\ new = op.doc /\ op.doc = Repaired(old) /\ old.sound
                 /\ UNCHANGED landed
              \/ /\ new.files = old.files /\ UNCHANGED landed /\ old = disk /\ new = disk'
                 /\ \E c \in Card :
                      HandEdit(c, new.sound, new.low) /\ AddsEdit(old, new, c, <<Hand, edits>>)
<1>1. TypeOK /\ TypeOK' /\ DocumentsDescend
  BY TypeStep DEF StoreInv
<1>2. new \in Document
  BY <1>1 DEF TypeOK
<1>3. CASE Replace
  <2>1. Executes /\ op.pc = "replace" /\ new = op.doc
    BY <1>3, ReplaceDoes
  <2> QED BY <1>1, <1>2, <1>3, <2>1 DEF DocumentsDescend
<1>4. CASE Repair
  BY <1>1, <1>2, <1>4 DEF Repair, Replaced, DocumentsDescend
<1>5. CASE \E c \in Card, sound, low \in BOOLEAN : HandEdit(c, sound, low)
  <2>1. PICK c \in Card, sound \in BOOLEAN, low \in BOOLEAN : HandEdit(c, sound, low)
    BY <1>5
  <2>2. /\ former' = former \cup {disk'} /\ disk'.files = disk.files
        /\ AddsEdit(disk, disk', c, <<Hand, edits>>)
    BY <1>1, <2>1, HandEdited
  <2>3. new = disk' /\ disk \in former
    BY <1>1, <2>2 DEF TypeOK
  <2>4. UNCHANGED landed
    BY <2>1 DEF HandEdit
  <2>5. disk'.sound = sound /\ disk'.low = low
    BY <1>1, <2>1 DEF HandEdit, Replaced, TypeOK, Document
  <2>6. HandEdit(c, new.sound, new.low)
    BY <2>1, <2>3, <2>5
  <2> QED BY <1>2, <2>2, <2>3, <2>4, <2>6
<1>6. CASE \E doc \in former : Restore(doc)
  BY <1>6 DEF Restore, Replaced
<1> QED BY <1>3, <1>4, <1>5, <1>6, FileReplacements

LEMMA MatchStep == StoreInv /\ [Next]_vars => BlobsMatchDocuments'
<1> SUFFICES ASSUME StoreInv, [Next]_vars PROVE BlobsMatchDocuments'
  OBVIOUS
<1>1. /\ BlobsMatchDocuments /\ BlobsAreOwned /\ RequestsAreUnique /\ DocumentsNameLanded
      /\ former \subseteq Document /\ leftover \subseteq blobs
  BY DEF StoreInv, TypeOK
<1>2. former \subseteq former'
  BY FormerGrows
<1>3. \A doc \in former : doc.files \subseteq blobs'
  <2>1. CASE Failed
    <3>1. blobs' = blobs \/ (op.outcome = "uncommitted" /\ blobs' = blobs \ {op.cmd.id})
      BY <2>1, FailedDoes
    <3>2. op.outcome = "uncommitted" => op.cmd.id \notin Landed
      BY <1>1, <2>1, FailedDoes DEF RequestsAreUnique
    <3> QED BY <1>1, <3>1, <3>2 DEF BlobsMatchDocuments, DocumentsNameLanded
  <2>2. CASE blobs \subseteq blobs'
    BY <1>1, <2>2 DEF BlobsMatchDocuments
  <2> QED BY <2>1, <2>2, BlobSteps, RunCommandDoes DEF Crash
<1>4. ASSUME NEW new \in former', new \notin former PROVE new.files \subseteq blobs'
  <2>1. PICK old \in former :
          \/ Replace /\ new = op.doc /\ op.doc = Candidate(old, op.cmd)
          \/ new = Repaired(old)
          \/ new.files = old.files
    BY <1>4, WrittenDocument
  <2>2. CASE Replace /\ new = op.doc /\ op.doc = Candidate(old, op.cmd)
    <3>1. /\ Executes /\ op.pc = "replace" /\ op.cmd \in Command /\ old \in Document
          /\ op.cmd.upload \in BOOLEAN
      BY <1>1, <2>2, ReplaceDoes DEF Executing, Command
    <3>2. op.cmd.upload => op.cmd.id \in blobs
      BY <1>1, <3>1 DEF BlobsAreOwned
    <3>3. new.files = IF op.cmd.upload THEN old.files \cup {op.cmd.id} ELSE old.files
      <4>1. new = [rev |-> old.rev + 1, body |-> new.body,
                   files |-> IF op.cmd.upload THEN old.files \cup {op.cmd.id} ELSE old.files,
                   sound |-> old.sound, low |-> FALSE]
        BY <2>2, <3>1, CandidateOf
      <4> QED BY <4>1
    <3>4. blobs' = blobs
      BY <2>2 DEF Replace
    <3> QED BY <1>3, <3>2, <3>3, <3>4
  <2>3. CASE new = Repaired(old)
    <3>1. new.files = old.files
      BY <1>1, <2>3, RepairedOf
    <3> QED BY <1>3, <3>1
  <2>4. CASE new.files = old.files
    BY <1>3, <2>4
  <2> QED BY <2>1, <2>2, <2>3, <2>4
<1> DEFINE Known(b) == \/ \E doc \in former : b \in doc.files
                       \/ b \in leftover
                       \/ op # None /\ op.kind = "command" /\ op.cmd.id = b
<1>5. \A b \in blobs : Known(b)
  BY <1>1 DEF BlobsMatchDocuments
<1>6. ASSUME \A b \in blobs' : Known(b)' PROVE BlobsMatchDocuments'
  BY <1>3, <1>4, <1>6 DEF BlobsMatchDocuments
<1>7. CASE RunCommand
  <2>1. Executes /\ Executes' /\ op'.cmd = op.cmd /\ blobs' \subseteq blobs \cup {op.cmd.id}
        /\ leftover' = leftover
    BY <1>7, RunCommandDoes DEF RunCommand
  <2> QED BY <1>2, <1>5, <1>6, <2>1 DEF Executes
<1>8. CASE Load \/ Verify \/ Save \/ Replace \/ Unlock
  <2>1. Executes /\ Executes' /\ op'.cmd = op.cmd
    BY <1>8, LoadDoes, VerifyDoes, SaveDoes, ReplaceDoes, UnlockDoes
  <2>2. UNCHANGED <<blobs, leftover>>
    BY <1>8 DEF Load, Verify, Save, Replace, Unlock
  <2> QED BY <1>2, <1>5, <1>6, <2>1, <2>2 DEF Executes
<1>9. CASE Publish
  <2>1. Executes /\ op.pc = "publish" /\ UNCHANGED <<blobs, leftover>>
    BY <1>9, PublishDoes DEF Publish
  <2>2. /\ op.doc \in former /\ op.cmd.upload => op.cmd.id \in op.doc.files
        /\ op.cmd.id \in blobs => op.cmd.upload
    BY <1>1, <2>1 DEF StoreInv, DocumentsDescend, BlobsAreOwned
  <2>3. op.doc \in former
    BY <2>1 DEF StoreInv, DocumentsDescend
  <2>4. \A b \in blobs : b = op.cmd.id => b \in op.doc.files
    BY <2>2, <2>3
  <2> QED BY <1>2, <1>5, <1>6, <2>1, <2>3, <2>4
<1>10. CASE Failed
  <2>1. Executes /\ (op.cmd.id \in blobs => op.blob)
    BY <1>1, <1>10, FailedDoes DEF BlobsAreOwned
  <2>2. \/ blobs' = blobs \ {op.cmd.id} /\ leftover' = leftover
        \/ leftover' = leftover \cup {op.cmd.id} /\ blobs' = blobs
        \/ op.cmd.id \notin blobs /\ blobs' = blobs /\ leftover' = leftover
    BY <1>10, <2>1, FailedDoes
  <2> QED BY <1>2, <1>5, <1>6, <2>2
<1>11. CASE Crash
  <2>1. /\ blobs' = blobs /\ leftover \subseteq leftover'
        /\ Executes => blobs \cap {op.cmd.id} \subseteq leftover'
    BY <1>11 DEF Crash, Executes
  <2> QED BY <1>2, <1>5, <1>6, <2>1 DEF Executes
<1>12. CASE (\E m \in inbox : BeginCommand(m)) \/ ReadFile \/ Reconcile \/ Repair
            \/ (\E x \in Client \cup {None} : ReadFor(x))
  <2>1. ~Executes
    BY <1>12, BeginCommandDoes, ReadDoes
  <2>2. UNCHANGED <<blobs, leftover>>
    BY <1>12 DEF BeginCommand, ReadFile, Reconcile, Repair, ReadFor
  <2> QED BY <1>2, <1>5, <1>6, <2>1, <2>2 DEF Executes
<1>13. CASE UNCHANGED <<op, blobs, leftover>>
  BY <1>2, <1>5, <1>6, <1>13
<1> QED BY <1>7, <1>8, <1>9, <1>10, <1>11, <1>12, <1>13, MutexSteps, BlobSteps

(* One edit more: every other edit sits where it sat.                      *)
LEMMA OneEditMore ==
  ASSUME NEW S, NEW s \in Seq(S), NEW e \in S
  PROVE  /\ DOMAIN Append(s, e) = 1 .. Len(s) + 1 /\ DOMAIN s = 1 .. Len(s) /\ Len(s) \in Nat
         /\ \A k \in 1 .. Len(s) :
              Append(s, e)[k] = s[k] /\ SubSeq(Append(s, e), 1, k - 1) = SubSeq(s, 1, k - 1)
         /\ Append(s, e)[Len(s) + 1] = e
         /\ SubSeq(Append(s, e), 1, Len(s)) = s
<1>1. /\ Append(s, e) \in Seq(S) /\ Len(Append(s, e)) = Len(s) + 1 /\ Len(s) \in Nat
      /\ \A k \in 1 .. Len(s) : Append(s, e)[k] = s[k]
      /\ Append(s, e)[Len(s) + 1] = e
  BY AppendProperties, LenProperties
<1>2. DOMAIN Append(s, e) = 1 .. Len(s) + 1 /\ DOMAIN s = 1 .. Len(s)
  BY <1>1, LenProperties
<1>3. ASSUME NEW k \in 1 .. Len(s) PROVE SubSeq(Append(s, e), 1, k - 1) = SubSeq(s, 1, k - 1)
  <2>1. /\ SubSeq(Append(s, e), 1, k - 1) = [i \in 1 .. k - 1 |-> Append(s, e)[i]]
        /\ SubSeq(s, 1, k - 1) = [i \in 1 .. k - 1 |-> s[i]]
    BY <1>1, SMT
  <2>2. \A i \in 1 .. k - 1 : Append(s, e)[i] = s[i]
    BY <1>1
  <2> QED BY <2>1, <2>2
<1>4. SubSeq(Append(s, e), 1, Len(s)) = s
  <2>1. s = [i \in 1 .. Len(s) |-> s[i]]
    BY LenProperties
  <2>2. SubSeq(Append(s, e), 1, Len(s)) = [i \in 1 .. Len(s) |-> Append(s, e)[i]]
    BY <1>1, SMT
  <2> QED BY <1>1, <2>1, <2>2
<1> QED BY <1>1, <1>2, <1>3, <1>4

(* The same of a document: an edit of a card is an edit it had, with the   *)
(* same edits before it, or the new one, with all that the card had.       *)
Keeps(old, new, c, k) ==
  /\ k \in DOMAIN old.body[c] /\ new.body[c][k] = old.body[c][k]
  /\ SubSeq(new.body[c], 1, k - 1) = SubSeq(old.body[c], 1, k - 1)

Adds(old, new, c, k, e) ==
  /\ k = Len(old.body[c]) + 1 /\ new.body[c][k] = e
  /\ SubSeq(new.body[c], 1, k - 1) = old.body[c]

LEMMA AppendedEdit ==
  ASSUME NEW old \in Document, NEW new \in Document, NEW c \in Card, NEW e \in Edit,
         AddsEdit(old, new, c, e), NEW d \in Card, NEW k \in DOMAIN new.body[d]
  PROVE  Keeps(old, new, d, k) \/ (d = c /\ Adds(old, new, d, k, e))
<1>1. CASE d # c
  BY <1>1 DEF AddsEdit, Keeps
<1>2. CASE d = c
  <2> DEFINE s == old.body[c]
             t == Append(s, e)
  <2>1. s \in Seq(Edit)
    BY DEF Document
  <2>2. /\ DOMAIN t = 1 .. Len(s) + 1 /\ DOMAIN s = 1 .. Len(s) /\ Len(s) \in Nat
        /\ \A i \in 1 .. Len(s) : t[i] = s[i] /\ SubSeq(t, 1, i - 1) = SubSeq(s, 1, i - 1)
        /\ t[Len(s) + 1] = e /\ SubSeq(t, 1, Len(s)) = s
    BY <2>1, OneEditMore
  <2>3. new.body[d] = t /\ old.body[d] = s /\ k \in DOMAIN t
    BY <1>2 DEF AddsEdit
  <2> HIDE DEF s, t
  <2>4. CASE k \in 1 .. Len(s)
    BY <2>2, <2>3, <2>4 DEF Keeps
  <2>5. CASE k = Len(s) + 1
    <3>1. k - 1 = Len(s)
      BY <2>2, <2>5
    <3> QED BY <1>2, <2>2, <2>3, <2>5, <3>1 DEF Adds
  <2> QED BY <2>2, <2>3, <2>4, <2>5
<1> QED BY <1>1, <1>2

LEMMA NamedStep == StoreInv /\ [Next]_vars => DocumentsNameLanded'
<1> SUFFICES ASSUME StoreInv, [Next]_vars PROVE DocumentsNameLanded'
  OBVIOUS
<1> DEFINE Names(doc) == doc.files \subseteq Landed
             /\ \A c \in Card : \A k \in DOMAIN doc.body[c] :
                  doc.body[c][k] \in Landed \cup ({Hand} \X Nat)
           Sits(doc, m) == \A k \in DOMAIN doc.body[m.card] :
             doc.body[m.card][k] = m.id /\ m.body # None
               => SubSeq(doc.body[m.card], 1, k - 1) = m.body
<1>1. /\ \A doc \in former : Names(doc) /\ \A m \in landed : Sits(doc, m)
      /\ former \subseteq Document /\ landed \subseteq Command /\ edits \in Nat
      /\ disk \in former /\ Landed \subseteq Request /\ RequestsAreUnique
      /\ op \in Executing => op.cmd \in Command
  BY DEF StoreInv, TypeOK, DocumentsNameLanded, Landed, Command, Executing
<1>2. ASSUME NEW m \in Command
      PROVE  m.id \in Edit /\ m.id \in Request /\ m.id \notin {Hand} \X Nat /\ m.card \in Card
  BY <1>2 DEF Command, Request, Edit
<1>3. ASSUME NEW doc \in former PROVE Names(doc)' /\ \A m \in landed' : Sits(doc, m)'
  <2>1. Names(doc)'
    BY <1>1, <1>3, FormerGrows
  <2>2. ASSUME NEW m \in landed', m \notin landed PROVE Sits(doc, m)'
    <3>1. m = op.cmd /\ m \in Command /\ m.id \notin Landed
      BY <1>1, <2>2, LandedSteps, ReplaceDoes DEF RequestsAreUnique
    <3>2. \A k \in DOMAIN doc.body[m.card] : doc.body[m.card][k] # m.id
      BY <1>1, <1>2, <3>1
    <3> QED BY <3>2
  <2> QED BY <1>1, <2>1, <2>2
<1>4. ASSUME NEW new \in former', new \notin former
      PROVE  Names(new)' /\ \A m \in landed' : Sits(new, m)'
  <2>1. PICK old \in former :
          \/ /\ Replace /\ new = op.doc /\ op.doc = Candidate(old, op.cmd)
             /\ Based(op.cmd, old) /\ old.sound
          \/ /\ Repair /\ new = op.doc /\ op.doc = Repaired(old) /\ old.sound
             /\ UNCHANGED landed
          \/ /\ new.files = old.files /\ UNCHANGED landed /\ old = disk /\ new = disk'
             /\ \E c \in Card :
                  HandEdit(c, new.sound, new.low) /\ AddsEdit(old, new, c, <<Hand, edits>>)
    BY <1>4, WrittenDocument
  <2>2. old \in Document /\ new \in Document
    BY <1>1, <1>4, WrittenDocument
  <2>6. Names(old)' /\ \A m \in landed' : Sits(old, m)'
    BY <1>3
  <2>3. CASE Replace /\ new = op.doc /\ op.doc = Candidate(old, op.cmd) /\ Based(op.cmd, old)
    <3> DEFINE id == op.cmd.id
               card == op.cmd.card
    <3>1. op.cmd \in Command /\ id \notin Landed
          /\ (landed' = landed \/ landed' = landed \cup {op.cmd})
      BY <1>1, <2>3, ReplaceDoes DEF RequestsAreUnique
    <3>2. id \in Edit /\ id \in Request /\ id \notin {Hand} \X Nat /\ card \in Card
      BY <1>2, <3>1
    <3>3. landed' = landed \cup {op.cmd} /\ Landed' = Landed \cup {id}
      <4>1. landed' = landed \cup {op.cmd}
        BY <1>4, <2>3, ReplaceDoes
      <4> QED BY <4>1 DEF Landed
    <3>4. /\ new = [rev |-> old.rev + 1, body |-> new.body,
                    files |-> IF op.cmd.upload THEN old.files \cup {id} ELSE old.files,
                    sound |-> old.sound, low |-> FALSE]
          /\ AddsEdit(old, new, card, id)
      <4>1. new = Candidate(old, op.cmd)
        BY <2>3
      <4> QED BY <2>2, <3>1, <4>1, CandidateOf
    <3>5. new.files \subseteq old.files \cup {id}
      BY <3>4
    <3>6. \A d \in Card : \A k \in DOMAIN new.body[d] :
            Keeps(old, new, d, k) \/ (d = card /\ Adds(old, new, d, k, id))
      BY <2>2, <3>2, <3>4, AppendedEdit
    <3>7. Names(new)'
      BY <2>6, <3>3, <3>5, <3>6 DEF Keeps, Adds
    <3>8. ASSUME NEW m \in landed' PROVE Sits(new, m)'
      <4>1. m \in Command /\ m.card \in Card
        BY <1>1, <1>2, <3>1, <3>3
      <4>2. CASE m = op.cmd
        <5>1. m.body # None => old.body[card] = m.body
          BY <2>3, <4>2 DEF Based, CardVersion
        <5>2. \A k \in DOMAIN old.body[card] : old.body[card][k] # id
          BY <1>1, <3>1, <3>2
        <5> QED BY <3>2, <3>6, <4>1, <4>2, <5>1, <5>2 DEF Keeps, Adds
      <4>3. CASE m # op.cmd
        <5>1. m \in landed /\ m.id # id
          BY <3>1, <3>3, <4>3 DEF Landed
        <5> QED BY <2>6, <3>6, <4>1, <5>1 DEF Keeps, Adds
      <4> QED BY <4>2, <4>3
    <3> QED BY <3>7, <3>8
  <2>4. CASE new = op.doc /\ op.doc = Repaired(old) /\ UNCHANGED landed
    <3>1. new.files = old.files /\ new.body = old.body
      <4>1. new = [rev |-> old.rev + 1, body |-> old.body, files |-> old.files,
                   sound |-> old.sound, low |-> FALSE]
        BY <2>2, <2>4, RepairedOf
      <4> QED BY <4>1
    <3> QED BY <2>6, <3>1
  <2>5. CASE /\ new.files = old.files /\ UNCHANGED landed
             /\ \E c \in Card :
                  HandEdit(c, new.sound, new.low) /\ AddsEdit(old, new, c, <<Hand, edits>>)
    <3>1. PICK c \in Card : AddsEdit(old, new, c, <<Hand, edits>>)
      BY <2>5
    <3>2. <<Hand, edits>> \in Edit /\ <<Hand, edits>> \in {Hand} \X Nat
      BY <1>1 DEF Edit
    <3>3. \A d \in Card : \A k \in DOMAIN new.body[d] :
            Keeps(old, new, d, k) \/ (d = c /\ Adds(old, new, d, k, <<Hand, edits>>))
      BY <2>2, <3>1, <3>2, AppendedEdit
    <3>4. Names(new)'
      BY <2>5, <2>6, <3>2, <3>3 DEF Keeps, Adds
    <3>5. ASSUME NEW m \in landed' PROVE Sits(new, m)'
      <4>1. m \in Command /\ m.card \in Card /\ m.id # <<Hand, edits>>
        BY <1>1, <1>2, <2>5, <3>2
      <4> QED BY <2>6, <3>3, <4>1 DEF Keeps, Adds
    <3> QED BY <3>4, <3>5
  <2> QED BY <2>1, <2>3, <2>4, <2>5
<1>5. ASSUME NEW doc \in former' PROVE Names(doc)' /\ \A m \in landed' : Sits(doc, m)'
  BY <1>3, <1>4
<1> QED BY <1>5 DEF DocumentsNameLanded

-----------------------------------------------------------------------------
(* The theorems.                                                           *)

LEMMA StoreStep == StoreInv /\ [Next]_vars => StoreInv'
<1>1. StoreInv /\ [Next]_vars => TypeOK'
  BY TypeStep DEF StoreInv
<1> QED
  BY <1>1, ServedStep, DescendStep, UniqueStep, OwnedStep, MatchStep, NamedStep DEF StoreInv

(* BoardStore.execute, upload and _admit, whatever fails, whoever edits    *)
(* the file directly, and whenever the process dies: what the operation    *)
(* that holds the mutex carries descends from a document the file was, a   *)
(* request is in one place, and no document names what did not land.       *)
THEOREM StoreIsSound == Spec => []StoreInv
<1>1. Init => StoreInv
  BY InitSound
<1>2. StoreInv /\ [Next]_vars => StoreInv'
  BY StoreStep
<1> QED BY <1>1, <1>2, PTL DEF Spec

(* _admit and _publish_candidate: whatever reaches a client or stays in    *)
(* memory was the file, passed its audits and meets its floors.            *)
THEOREM ServesOnlyAdmitted == Spec => []OnlyAdmittedIsServed
<1>1. StoreInv => OnlyAdmittedIsServed
  BY DEF StoreInv
<1> QED BY <1>1, StoreIsSound, PTL

(* upload: a document the file is, was or may be again names no missing    *)
(* attachment, and no blob is forgotten by whoever should remove it.       *)
THEOREM BlobsStayMatched == Spec => []BlobsMatchDocuments
<1>1. StoreInv => BlobsMatchDocuments
  BY DEF StoreInv
<1> QED BY <1>1, StoreIsSound, PTL

(* edit() with If-Match-Card: a bound edit sits on the card its client saw.*)
THEOREM BoundEditsAreBound == Spec => []BoundEditsSitOnWhatWasSeen
<1>1. StoreInv => BoundEditsSitOnWhatWasSeen
  BY DEF StoreInv, TypeOK, DocumentsNameLanded, BoundEditsSitOnWhatWasSeen
<1> QED BY <1>1, StoreIsSound, PTL

(* execute and _reconcile_candidate: what they write over the file passed  *)
(* its audits, whatever the hand did to the file since they read it.       *)
THEOREM DefectsStayUnwritten == Spec => DefectsAreNotRewritten
<1>1. StoreInv /\ [Next]_vars
      => [Replace \/ Repair => disk' = disk \/ (disk'.sound /\ ~disk'.low)]_vars
  <2> SUFFICES ASSUME StoreInv, [Next]_vars, Replace \/ Repair, disk' # disk
               PROVE  disk'.sound /\ ~disk'.low
    OBVIOUS
  <2>1. disk' = op.doc
    BY ReplaceDoes DEF Repair, Replaced
  <2>2. PICK old \in former :
          /\ old.sound
          /\ \/ op.doc = Candidate(old, op.cmd) /\ op.cmd \in Command
             \/ op.doc = Repaired(old)
    <3>1. CASE Replace
      <4>1. Executes /\ op.pc = "replace" /\ op.cmd \in Command
        BY <3>1, ReplaceDoes DEF Executing
      <4> QED BY <4>1 DEF StoreInv, DocumentsDescend
    <3>2. CASE Repair
      BY <3>2 DEF Repair, StoreInv, DocumentsDescend
    <3> QED BY <3>1, <3>2
  <2>3. old \in Document
    BY DEF StoreInv, TypeOK
  <2>4. op.doc.sound = old.sound /\ ~op.doc.low
    <3>1. CASE op.doc = Candidate(old, op.cmd) /\ op.cmd \in Command
      <4>1. op.doc = [rev |-> old.rev + 1, body |-> op.doc.body,
                      files |-> IF op.cmd.upload THEN old.files \cup {op.cmd.id} ELSE old.files,
                      sound |-> old.sound, low |-> FALSE]
        BY <2>3, <3>1, CandidateOf
      <4> QED BY <4>1
    <3>2. CASE op.doc = Repaired(old)
      <4>1. op.doc = [rev |-> old.rev + 1, body |-> old.body, files |-> old.files,
                      sound |-> old.sound, low |-> FALSE]
        BY <2>3, <3>2, RepairedOf
      <4> QED BY <4>1
    <3> QED BY <2>2, <3>1, <3>2
  <2> QED BY <2>1, <2>2, <2>4
<1> QED BY <1>1, StoreIsSound, PTL DEF Spec, DefectsAreNotRewritten

-----------------------------------------------------------------------------
(* The store as the only writer of the file.                               *)

(* Nothing but a command or a repair replaces the file, and only by the    *)
(* next revision of what it is.                                            *)
LEMMA SoleWrites ==
  ASSUME MaxEdits = 0, StoreInv, RevisionsNameDocuments, [Next]_vars
  PROVE  \/ UNCHANGED <<disk, former, landed>>
         \/ /\ Replace /\ op \in Executing /\ disk' = Candidate(disk, op.cmd)
            /\ former' = former \cup {disk'} /\ op.cmd.rev = disk.rev /\ ~Seen(op.cmd.id[1], disk)
         \/ /\ Repair /\ disk' = Repaired(disk) /\ former' = former \cup {disk'}
            /\ UNCHANGED landed
<1>1. CASE Replace
  <2>1. op \in Executing /\ Executes /\ op.pc = "replace"
    BY <1>1, ReplaceDoes
  <2>2. op.doc = Candidate(disk, op.cmd) /\ op.cmd.rev = disk.rev /\ ~Seen(op.cmd.id[1], disk)
    BY <2>1 DEF RevisionsNameDocuments
  <2> QED BY <1>1, <2>1, <2>2, ReplaceDoes
<1>2. CASE Repair
  <2>1. op.doc = Repaired(disk)
    BY <1>2 DEF Repair, RevisionsNameDocuments
  <2> QED BY <1>2, <2>1 DEF Repair, Replaced
<1>3. ~\E c \in Card, sound, low \in BOOLEAN : HandEdit(c, sound, low)
  BY DEF HandEdit, StoreInv, TypeOK
<1>4. ~\E doc \in former : Restore(doc)
  BY DEF Restore
<1> QED BY <1>1, <1>2, <1>3, <1>4, FileReplacements

(* A client sees its own edit if the document has one.                     *)
LEMMA EditsStaySingle ==
  ASSUME EditsLandOnce, NEW e \in Edit, NEW c \in Card,
         ~Seen(e[1], disk), disk \in Document, disk' \in Document, AddsEdit(disk, disk', c, e)
  PROVE  EditsLandOnce'
<1> SUFFICES ASSUME NEW d \in Card, NEW x \in Client,
                    NEW j \in DOMAIN disk'.body[d], NEW k \in DOMAIN disk'.body[d],
                    disk'.body[d][j][1] = x, disk'.body[d][k][1] = x
             PROVE  j = k
  BY DEF EditsLandOnce
<1>1. /\ Keeps(disk, disk', d, j) \/ (d = c /\ Adds(disk, disk', d, j, e))
      /\ Keeps(disk, disk', d, k) \/ (d = c /\ Adds(disk, disk', d, k, e))
  BY AppendedEdit
<1>2. ~(e[1] = x /\ (Keeps(disk, disk', d, j) \/ Keeps(disk, disk', d, k)))
  BY DEF Keeps, Seen
<1>3. CASE Keeps(disk, disk', d, j) /\ Keeps(disk, disk', d, k)
  BY <1>3 DEF Keeps, EditsLandOnce
<1>4. CASE Adds(disk, disk', d, j, e) \/ Adds(disk, disk', d, k, e)
  <2>1. e[1] = x
    BY <1>4 DEF Adds
  <2>2. Adds(disk, disk', d, j, e) /\ Adds(disk, disk', d, k, e)
    BY <1>1, <1>2, <2>1
  <2> QED BY <2>2 DEF Adds
<1> QED BY <1>1, <1>3, <1>4

LEMMA SoleWriterStep ==
  ASSUME MaxEdits = 0, StoreInv, RevisionsNameDocuments, [Next]_vars
  PROVE  RevisionsNameDocuments'
<1>1. /\ disk \in Document /\ disk' \in Document /\ former \subseteq Document /\ disk \in former
      /\ op \in Executing => op.cmd \in Command /\ op.cmd.id \in Edit /\ op.cmd.card \in Card
  BY TypeStep DEF StoreInv, TypeOK, Executing, Command, Edit
<1>2. /\ \A doc \in former : doc.rev <= disk.rev /\ (doc.rev = disk.rev => doc = disk)
      /\ \A m \in inbox : \E doc \in former : doc.rev = m.rev /\ ~Seen(m.id[1], doc)
      /\ EditsLandOnce
  BY DEF RevisionsNameDocuments
<1>3. (\A doc \in former : doc.rev <= disk.rev /\ (doc.rev = disk.rev => doc = disk))'
      /\ EditsLandOnce'
  <2>1. ASSUME disk'.rev = disk.rev + 1, former' = former \cup {disk'}
        PROVE  (\A doc \in former : doc.rev <= disk.rev /\ (doc.rev = disk.rev => doc = disk))'
    <3>1. disk.rev \in Nat /\ \A doc \in former : doc.rev \in Nat
      BY <1>1 DEF Document
    <3> QED BY <1>2, <2>1, <3>1
  <2>2. CASE UNCHANGED <<disk, former, landed>>
    BY <1>2, <2>2 DEF EditsLandOnce
  <2>3. CASE /\ op \in Executing /\ disk' = Candidate(disk, op.cmd)
             /\ former' = former \cup {disk'} /\ ~Seen(op.cmd.id[1], disk)
    <3>1. /\ disk' = [rev |-> disk.rev + 1, body |-> disk'.body,
                      files |-> IF op.cmd.upload THEN disk.files \cup {op.cmd.id} ELSE disk.files,
                      sound |-> disk.sound, low |-> FALSE]
          /\ AddsEdit(disk, disk', op.cmd.card, op.cmd.id)
      BY <1>1, <2>3, CandidateOf
    <3>2. disk'.rev = disk.rev + 1
      BY <3>1
    <3>3. EditsLandOnce'
      BY <1>1, <1>2, <2>3, <3>1, EditsStaySingle
    <3> QED BY <2>1, <2>3, <3>2, <3>3
  <2>4. CASE disk' = Repaired(disk) /\ former' = former \cup {disk'}
    <3>1. disk' = [rev |-> disk.rev + 1, body |-> disk.body, files |-> disk.files,
                   sound |-> disk.sound, low |-> FALSE]
      BY <1>1, <2>4, RepairedOf
    <3>2. disk'.rev = disk.rev + 1 /\ disk'.body = disk.body
      BY <3>1
    <3>3. EditsLandOnce'
      BY <1>2, <3>2 DEF EditsLandOnce
    <3> QED BY <2>1, <2>4, <3>2, <3>3
  <2> QED BY <2>2, <2>3, <2>4, SoleWrites
<1>4. (\A m \in inbox : \E doc \in former : doc.rev = m.rev /\ ~Seen(m.id[1], doc))'
  <2>1. \A m \in inbox : \E doc \in former' : doc.rev = m.rev /\ ~Seen(m.id[1], doc)
    BY <1>2, FormerGrows
  <2> QED BY <2>1, InboxSteps, FormerGrows DEF Seen
<1> DEFINE
     Carries == /\ At("command", "load") =>
                     \E doc \in former : doc.rev = op.cmd.rev /\ ~Seen(op.cmd.id[1], doc)
                /\ Executes /\ op.pc \in {"command", "verify", "save", "replace"} =>
                     op.cmd.rev = disk.rev /\ ~Seen(op.cmd.id[1], disk)
                /\ Executes /\ op.pc \in {"command", "verify"} => op.doc = disk
                /\ Executes /\ op.pc \in {"save", "replace"} => op.doc = Candidate(disk, op.cmd)
                /\ At("read", "repair") => op.doc = Repaired(disk)
<1>5. Carries
  BY DEF RevisionsNameDocuments
<1> SUFFICES Carries'
  BY <1>3, <1>4 DEF RevisionsNameDocuments
<1>6. CASE Load
  <2>1. op \in Executing /\ Executes /\ op.pc = "load" /\ disk' = disk /\ Executes'
    BY <1>6, LoadDoes DEF Load
  <2>2. CASE op'.pc = "failed"
    BY <2>1, <2>2 DEF At, Executes
  <2>3. CASE op'.cmd = op.cmd /\ op'.pc = "command" /\ op'.doc = disk /\ disk.rev = op.cmd.rev
    <3>1. PICK doc \in former : doc.rev = op.cmd.rev /\ ~Seen(op.cmd.id[1], doc)
      BY <1>5, <2>1 DEF At, Executes
    <3>2. doc = disk
      BY <1>2, <2>3, <3>1
    <3> QED BY <2>1, <2>3, <3>1, <3>2 DEF At, Executes, Seen
  <2> QED BY <1>6, <2>2, <2>3, LoadDoes
<1>7. CASE RunCommand
  BY <1>5, <1>7, RunCommandDoes DEF RunCommand, At, Executes, Seen
<1>8. CASE Verify
  BY <1>5, <1>8, VerifyDoes DEF Verify, At, Executes, Seen
<1>9. CASE Save
  BY <1>5, <1>9, SaveDoes DEF Save, At, Executes, Seen
<1>10. CASE Replace \/ Unlock
  <2>1. Executes' /\ op'.pc \in {"unlock", "publish", "failed"}
    BY <1>10, ReplaceDoes, UnlockDoes
  <2> QED BY <2>1 DEF At, Executes
<1>11. CASE Publish \/ Failed \/ Crash
  <2>1. op' = None
    BY <1>11, PublishDoes, FailedDoes, CrashDoes
  <2> QED BY <2>1 DEF At, Executes
<1>12. CASE \E m \in inbox : BeginCommand(m)
  <2>1. PICK m \in inbox : BeginCommand(m)
    BY <1>12
  <2>2. Executes' /\ op'.cmd = m /\ op'.pc = "load" /\ former' = former
    BY <2>1, BeginCommandDoes DEF BeginCommand
  <2> QED BY <1>2, <2>2 DEF At, Executes, Seen
<1>13. CASE ReadFile \/ Reconcile \/ Repair \/ \E x \in Client \cup {None} : ReadFor(x)
  <2>1. ~Executes' /\ (At("read", "repair")' => op'.doc = Repaired(disk) /\ disk' = disk)
    BY <1>13, ReadDoes
  <2> QED BY <2>1 DEF At, Executes
<1>14. CASE UNCHANGED op
  <2>1. CASE Replace
    BY <1>14, <2>1, ReplaceDoes
  <2>2. CASE Repair
    <3>1. ~Executes' /\ (At("read", "repair")' => Reconcile)
      BY <2>2, ReadDoes
    <3>2. At("read", "repair") /\ ~At("read", "reconcile")
      BY <2>2 DEF Repair, At
    <3> QED BY <1>14, <3>1, <3>2 DEF At, Executes, Reconcile
  <2>3. CASE UNCHANGED <<disk, former>>
    BY <1>5, <1>14, <2>3 DEF At, Executes, Seen
  <2> QED BY <2>1, <2>2, <2>3, SoleWrites
<1> QED
  BY <1>6, <1>7, <1>8, <1>9, <1>10, <1>11, <1>12, <1>13, <1>14, MutexSteps

LEMMA SoleWriterHolds == ASSUME MaxEdits = 0 PROVE Spec => [](StoreInv /\ RevisionsNameDocuments)
<1>1. Init => StoreInv /\ RevisionsNameDocuments
  BY InitSound DEF SoleWriterInv
<1>2. StoreInv /\ RevisionsNameDocuments /\ [Next]_vars => (StoreInv /\ RevisionsNameDocuments)'
  BY StoreStep, SoleWriterStep
<1> QED BY <1>1, <1>2, PTL DEF Spec

(* execute with If-Match, as long as only the store writes the file: a     *)
(* client that repeats a command it got no certain answer to never has its *)
(* edit twice.                                                             *)
THEOREM RepeatsLandOnce == ASSUME MaxEdits = 0 PROVE Spec => []EditsLandOnce
<1>1. RevisionsNameDocuments => EditsLandOnce
  BY DEF RevisionsNameDocuments
<1> QED BY <1>1, SoleWriterHolds, PTL

-----------------------------------------------------------------------------
(* Without direct changes of the file the store is an atomic board.        *)

AtomicDoc == [rev |-> disk.rev, body |-> disk.body]

PendingOf(waiting) ==
  [r \in Request |-> IF \E m \in waiting : m.id = r
                     THEN LET m == CHOOSE m \in waiting : m.id = r
                          IN  [card |-> m.card, rev |-> m.rev]
                     ELSE None]

Pending == PendingOf(UnderWay)

(* What is under way under one id is one command.                          *)
LEMMA OneIsUnderWay ==
  ASSUME StoreInv
  PROVE  /\ UnderWay \subseteq Command
         /\ \A m, n \in UnderWay : m.id = n.id => m = n
         /\ \A m \in UnderWay : Spent(m.id) /\ m.id \in Request
<1>1. /\ RequestsAreUnique /\ inbox \subseteq Command
      /\ op # None /\ op.kind = "command" => op.cmd \in Command
  BY Holder DEF StoreInv, TypeOK, Executing
<1>2. UnderWay \subseteq Command
  BY <1>1 DEF UnderWay
<1>3. /\ \A m, n \in UnderWay : m.id = n.id => m = n
      /\ \A m \in UnderWay : Spent(m.id)
  BY <1>1 DEF UnderWay, RequestsAreUnique, Executes
<1> QED BY <1>2, <1>3 DEF Command

LEMMA PendingIs ==
  ASSUME NEW waiting, waiting \subseteq Command, \A m, n \in waiting : m.id = n.id => m = n
  PROVE  /\ \A m \in waiting : /\ PendingOf(waiting)[m.id] = [card |-> m.card, rev |-> m.rev]
                               /\ PendingOf(waiting)[m.id] # None
         /\ \A r \in Request : (\A m \in waiting : m.id # r) => PendingOf(waiting)[r] = None
         /\ DOMAIN PendingOf(waiting) = Request
<1>1. ASSUME NEW m \in waiting
      PROVE  /\ PendingOf(waiting)[m.id] = [card |-> m.card, rev |-> m.rev]
             /\ PendingOf(waiting)[m.id] # None
  <2>1. m.id \in Request /\ m.card \in Card /\ m.rev \in Nat
    BY DEF Command
  <2>2. (CHOOSE n \in waiting : n.id = m.id) = m
    OBVIOUS
  <2>3. PendingOf(waiting)[m.id] = [card |-> m.card, rev |-> m.rev]
    BY <2>1, <2>2 DEF PendingOf
  <2>4. [card |-> m.card, rev |-> m.rev] \in Waiting
    BY <2>1 DEF Waiting
  <2> QED BY <2>3, <2>4
<1> QED BY <1>1 DEF PendingOf

(* One command more, or one less, under way.                               *)
LEMMA PendingChanges ==
  ASSUME NEW waiting, waiting \subseteq Command, \A m, n \in waiting : m.id = n.id => m = n,
         NEW m \in Command, \A n \in waiting : n.id # m.id
  PROVE  /\ PendingOf(waiting \cup {m}) =
              [PendingOf(waiting) EXCEPT ![m.id] = [card |-> m.card, rev |-> m.rev]]
         /\ PendingOf(waiting) = [PendingOf(waiting \cup {m}) EXCEPT ![m.id] = None]
<1> DEFINE more == waiting \cup {m}
<1>1. more \subseteq Command /\ \A n, o \in more : n.id = o.id => n = o
  OBVIOUS
<1>2. m.id \in Request
  BY DEF Command
<1>3. /\ \A n \in waiting : PendingOf(waiting)[n.id] = [card |-> n.card, rev |-> n.rev]
      /\ \A r \in Request : (\A n \in waiting : n.id # r) => PendingOf(waiting)[r] = None
  BY PendingIs
<1>4. /\ \A n \in more : PendingOf(more)[n.id] = [card |-> n.card, rev |-> n.rev]
      /\ \A r \in Request : (\A n \in more : n.id # r) => PendingOf(more)[r] = None
  <2> HIDE DEF more
  <2> QED BY <1>1, PendingIs
<1>5. PendingOf(more)[m.id] = [card |-> m.card, rev |-> m.rev] /\ PendingOf(waiting)[m.id] = None
  BY <1>2, <1>3, <1>4
<1>6. ASSUME NEW r \in Request, r # m.id PROVE PendingOf(more)[r] = PendingOf(waiting)[r]
  <2>1. CASE \E n \in waiting : n.id = r
    <3>1. PICK n \in waiting : n.id = r
      BY <2>1
    <3>2. n \in more
      OBVIOUS
    <3> QED BY <1>3, <1>4, <3>1, <3>2
  <2>2. CASE \A n \in waiting : n.id # r
    BY <1>3, <1>4, <1>6, <2>2
  <2> QED BY <2>1, <2>2
<1>7. /\ PendingOf(more) = [r \in Request |-> PendingOf(more)[r]]
      /\ PendingOf(waiting) = [r \in Request |-> PendingOf(waiting)[r]]
  BY DEF PendingOf
<1> HIDE DEF more
<1>8. /\ PendingOf(more) = [PendingOf(waiting) EXCEPT ![m.id] = [card |-> m.card, rev |-> m.rev]]
      /\ PendingOf(waiting) = [PendingOf(more) EXCEPT ![m.id] = None]
  BY <1>2, <1>5, <1>6, <1>7
<1> QED BY <1>8 DEF more

LEMMA Stutters ==
  ASSUME UNCHANGED <<disk, UnderWay, landed, verdict>>
  PROVE  UNCHANGED Atomic!vars
BY DEF Atomic!vars, Landed

LEMMA SendSubmits ==
  ASSUME StoreInv, RevisionsNameDocuments,
         NEW m \in Command, inbox' = inbox \cup {m}, ~Spent(m.id),
         \E doc \in former : doc.rev = m.rev,
         UNCHANGED <<disk, op, verdict, landed>>
  PROVE  Atomic!Submit(m.id)
<1>1. /\ UnderWay \subseteq Command /\ \A n, o \in UnderWay : n.id = o.id => n = o
      /\ \A n \in UnderWay : n.id # m.id
  BY OneIsUnderWay
<1>2. m.id \in Request /\ m.card \in Card /\ m.rev \in Nat /\ disk.rev \in Nat /\ m.rev <= disk.rev
  BY DEF Command, StoreInv, TypeOK, Document, RevisionsNameDocuments
<1>3. UnderWay' = UnderWay \cup {m}
  BY DEF UnderWay
<1>4. Pending[m.id] = None
  BY <1>1, <1>2, PendingIs DEF Pending
<1>5. verdict[m.id] = None /\ m.id \notin Landed
  BY <1>2 DEF StoreInv, RequestsAreUnique
<1>6. Pending' = [Pending EXCEPT ![m.id] = [card |-> m.card, rev |-> m.rev]]
  BY <1>1, <1>3, PendingChanges DEF Pending
<1>7. AtomicDoc' = AtomicDoc /\ Landed' = Landed /\ AtomicDoc.rev = disk.rev
  BY DEF Landed, AtomicDoc
<1>8. \E c \in Card, rev \in 0 .. AtomicDoc.rev :
        Pending' = [Pending EXCEPT ![m.id] = [card |-> c, rev |-> rev]]
  <2>1. m.card \in Card /\ m.rev \in 0 .. AtomicDoc.rev
    BY <1>2, <1>7
  <2> QED BY <1>6, <2>1, Zenon
<1> QED BY <1>4, <1>5, <1>7, <1>8 DEF Atomic!Submit, Pending, PendingOf, AtomicDoc

LEMMA ReplaceCommits ==
  ASSUME StoreInv, Replace, disk' = Candidate(disk, op.cmd), landed' = landed \cup {op.cmd},
         op.cmd.rev = disk.rev
  PROVE  Atomic!Commit(op.cmd.id)
<1> DEFINE id == op.cmd.id
           card == op.cmd.card
<1>1. /\ op \in Executing /\ Executes /\ op.pc = "replace" /\ op'.cmd = op.cmd /\ Executes'
      /\ op.cmd \in Command /\ id \in Request /\ card \in Card
  BY ReplaceDoes DEF Executing, Command
<1>2. /\ UnderWay \subseteq Command /\ \A n, o \in UnderWay : n.id = o.id => n = o
      /\ op.cmd \in UnderWay
  BY <1>1, OneIsUnderWay DEF UnderWay, Executes
<1>3. Pending[id] = [card |-> card, rev |-> disk.rev] /\ Pending[id] # None
  BY <1>2, PendingIs DEF Pending
<1>4. UnderWay' = UnderWay
  BY <1>1 DEF UnderWay, Executes, Replace
<1>5. Pending' = Pending
  BY <1>4 DEF Pending, PendingOf
<1>6. id \notin Landed /\ Landed' = Landed \cup {id}
  BY <1>1 DEF StoreInv, RequestsAreUnique, Landed
<1>7. disk \in Document /\ disk.rev \in Nat /\ disk.body \in [Card -> Seq(Edit)]
  BY DEF StoreInv, TypeOK, Document
<1>8. disk'.rev = disk.rev + 1 /\ disk'.body = [disk.body EXCEPT ![card] = Append(@, id)]
  BY <1>1, <1>7 DEF Candidate, Document
<1>9. AtomicDoc' = [AtomicDoc EXCEPT !.rev = @ + 1, !.body[card] = Append(@, id)]
  <2> DEFINE body == [disk.body EXCEPT ![card] = Append(@, id)]
             rev == disk.rev + 1
             new == [AtomicDoc EXCEPT !.rev = @ + 1, !.body[card] = Append(@, id)]
  <2>1. AtomicDoc = [rev |-> disk.rev, body |-> disk.body]
        /\ AtomicDoc' = [rev |-> rev, body |-> body]
    BY <1>8 DEF AtomicDoc
  <2>2. [AtomicDoc.body EXCEPT ![card] = Append(@, id)] = body /\ AtomicDoc.rev + 1 = rev
    BY <2>1
  <2>3. new = [rev |-> AtomicDoc.rev + 1, body |-> [AtomicDoc.body EXCEPT ![card] = Append(@, id)]]
    <3>1. AtomicDoc \in [rev : Nat, body : [Card -> Seq(Edit)]] /\ id \in Edit
      BY <1>1, <1>7 DEF AtomicDoc, Edit
    <3>2. new = [AtomicDoc EXCEPT !.rev = @ + 1, !.body[card] = Append(@, id)]
      OBVIOUS
    <3> HIDE DEF new
    <3> QED BY <1>1, <3>1, <3>2
  <2> QED BY <2>1, <2>2, <2>3, Zenon
<1>10. AtomicDoc.rev = disk.rev /\ verdict' = verdict
  BY DEF AtomicDoc, Replace
<1>11. Pending[id].card = card /\ Pending[id].rev = AtomicDoc.rev
  BY <1>3, <1>10
<1>12. AtomicDoc' = [AtomicDoc EXCEPT !.rev = @ + 1, !.body[Pending[id].card] = Append(@, id)]
  BY <1>9, <1>11, Zenon
<1> QED BY <1>3, <1>5, <1>6, <1>10, <1>11, <1>12 DEF Atomic!Commit, Pending, PendingOf, AtomicDoc

LEMMA RepairIsARevision ==
  ASSUME StoreInv, Repair, disk' = Repaired(disk)
  PROVE  Atomic!Repair
<1>1. ~Executes /\ ~Executes'
  BY ReadDoes
<1>2. UnderWay' = UnderWay /\ Landed' = Landed /\ verdict' = verdict
  BY <1>1 DEF Repair, UnderWay, Executes, Landed
<1>3. Pending' = Pending
  BY <1>2 DEF Pending, PendingOf
<1>4. disk \in Document
  BY DEF StoreInv, TypeOK
<1>5. disk' = [rev |-> disk.rev + 1, body |-> disk.body, files |-> disk.files,
               sound |-> disk.sound, low |-> FALSE]
  BY <1>4, RepairedOf
<1>6. AtomicDoc' = [AtomicDoc EXCEPT !.rev = @ + 1]
  BY <1>5 DEF AtomicDoc
<1> QED BY <1>2, <1>3, <1>6 DEF Atomic!Repair, Pending, PendingOf, AtomicDoc

(* The answer is of the request's fate, or that it is unknown.             *)
LEMMA EndAnswers ==
  ASSUME StoreInv, Publish \/ Failed, NEW id \in Request, id = op.cmd.id
  PROVE  Atomic!Answer(id)
<1>1. /\ op \in Executing /\ Executes /\ ~Executes' /\ op.cmd \in Command
      /\ inbox' = inbox
  BY PublishDoes, FailedDoes DEF Executing, Command, Publish, Failed
<1>2. /\ UnderWay' = inbox /\ UnderWay = inbox \cup {op.cmd}
      /\ UnderWay \subseteq Command /\ \A n, o \in UnderWay : n.id = o.id => n = o
      /\ \A n \in inbox : n.id # id
  BY <1>1, OneIsUnderWay DEF UnderWay, Executes, StoreInv, RequestsAreUnique
<1>3. Pending' = [Pending EXCEPT ![id] = None]
  <2>1. /\ inbox \subseteq Command /\ op.cmd \in Command
        /\ \A n, o \in inbox : n.id = o.id => n = o
        /\ \A n \in inbox : n.id # op.cmd.id
    BY <1>1, <1>2
  <2>2. PendingOf(inbox) = [PendingOf(inbox \cup {op.cmd}) EXCEPT ![op.cmd.id] = None]
    BY <2>1, PendingChanges
  <2> QED BY <1>2, <2>2 DEF Pending
<1>4. Pending[id] # None
  <2>1. op.cmd \in UnderWay
    BY <1>2
  <2>2. UnderWay \subseteq Command /\ \A n, o \in UnderWay : n.id = o.id => n = o
    BY OneIsUnderWay
  <2> QED BY <2>1, <2>2, PendingIs DEF Pending
<1>5. \E v \in {"unknown", IF id \in Landed THEN "ok" ELSE "refused"} :
        verdict' = [verdict EXCEPT ![id] = v]
  <2>1. CASE Publish
    <3>1. id \in Landed /\ verdict' = [verdict EXCEPT ![id] = "ok"]
      BY <2>1, PublishDoes DEF StoreInv, RequestsAreUnique
    <3> QED BY <3>1
  <2>2. CASE Failed
    <3>1. /\ op.fail \in {"refused", "unknown"} /\ verdict' = [verdict EXCEPT ![id] = op.fail]
          /\ op.fail = "refused" => id \notin Landed
      BY <2>2, FailedDoes DEF StoreInv, RequestsAreUnique
    <3> QED BY <3>1
  <2> QED BY <2>1, <2>2
<1>6. AtomicDoc' = AtomicDoc /\ Landed' = Landed
  BY DEF AtomicDoc, Landed, Publish, Failed
<1> QED BY <1>3, <1>4, <1>5, <1>6 DEF Atomic!Answer, Pending, PendingOf, AtomicDoc

LEMMA CrashEndsAll ==
  ASSUME StoreInv, Crash
  PROVE  Atomic!Crash
<1>1. UnderWay' = {} /\ Landed' = Landed /\ AtomicDoc' = AtomicDoc
  BY DEF Crash, UnderWay, Landed, AtomicDoc
<1>2. Pending' = [r \in Request |-> None]
  BY <1>1 DEF Pending, PendingOf
<1>3. \A r \in Request : Pending[r] # None <=> \E m \in UnderWay : m.id = r
  <2>1. UnderWay \subseteq Command /\ \A m, n \in UnderWay : m.id = n.id => m = n
    BY OneIsUnderWay
  <2>2. /\ \A m \in UnderWay : Pending[m.id] # None
        /\ \A r \in Request : (\A m \in UnderWay : m.id # r) => Pending[r] = None
    BY <2>1, PendingIs DEF Pending
  <2> QED BY <2>2
<1>4. verdict' = [r \in Request |-> IF Pending[r] # None THEN "unknown" ELSE verdict[r]]
  <2>1. verdict'
          = [r \in Request |-> IF \E m \in UnderWay : m.id = r THEN "unknown" ELSE verdict[r]]
    BY DEF Crash, UnderWay
  <2> QED BY <1>3, <2>1
<1> QED BY <1>1, <1>2, <1>4 DEF Atomic!Crash, Pending, PendingOf, AtomicDoc

LEMMA StepIsAtomic ==
  ASSUME MaxEdits = 0, StoreInv, RevisionsNameDocuments, [Next]_vars
  PROVE  [Atomic!Next]_(Atomic!vars)
<1>1. op \in Executing => op.cmd.id \in Request
  BY DEF Executing, Command
<1>2. CASE Load \/ RunCommand \/ Verify \/ Save \/ Unlock
  <2>1. Executes /\ Executes' /\ op'.cmd = op.cmd
    BY <1>2, LoadDoes, RunCommandDoes, VerifyDoes, SaveDoes, UnlockDoes
  <2>2. UNCHANGED <<disk, inbox, landed, verdict>>
    BY <1>2 DEF Load, RunCommand, Verify, Save, Unlock
  <2>3. UnderWay' = UnderWay
    BY <2>1, <2>2 DEF UnderWay, Executes
  <2> QED BY <2>2, <2>3, Stutters
<1>3. CASE Replace
  <2>1. op \in Executing /\ Executes /\ Executes' /\ op'.cmd = op.cmd /\ op.pc = "replace"
    BY <1>3, ReplaceDoes
  <2>2. op.doc = Candidate(disk, op.cmd) /\ op.cmd.rev = disk.rev
    BY <2>1 DEF RevisionsNameDocuments
  <2>3. CASE disk' = op.doc /\ landed' = landed \cup {op.cmd}
    BY <1>1, <1>3, <2>1, <2>2, <2>3, ReplaceCommits DEF Atomic!Next
  <2>4. CASE UNCHANGED <<disk, landed>>
    <3>1. UNCHANGED <<UnderWay, verdict>>
      BY <1>3, <2>1 DEF UnderWay, Executes, Replace
    <3> QED BY <2>4, <3>1, Stutters
  <2> QED BY <1>3, <2>3, <2>4, ReplaceDoes
<1>4. CASE Publish \/ Failed
  <2>1. op.cmd.id \in Request
    BY <1>1, <1>4, PublishDoes, FailedDoes
  <2>2. PICK r \in Request : r = op.cmd.id
    BY <2>1
  <2>3. Atomic!Answer(r)
    BY <1>4, <2>2, EndAnswers
  <2> QED BY <2>3 DEF Atomic!Next
<1>5. CASE Crash
  BY <1>5, CrashEndsAll DEF Atomic!Next
<1>6. CASE Repair
  <2>1. CASE disk' = Repaired(disk)
    BY <1>6, <2>1, RepairIsARevision DEF Atomic!Next
  <2>2. CASE UNCHANGED <<disk, landed>>
    <3>1. UNCHANGED <<UnderWay, verdict>>
      BY <1>6, ReadDoes DEF UnderWay, Executes, Repair
    <3> QED BY <2>2, <3>1, Stutters
  <2>3. ~Replace
    BY <1>6 DEF Repair, Replace, At
  <2> QED BY <2>1, <2>2, <2>3, SoleWrites
<1>7. CASE ReadFile \/ Reconcile \/ (\E x \in Client \cup {None} : ReadFor(x))
  <2>1. ~Executes /\ ~Executes'
    BY <1>7, ReadDoes
  <2>2. UNCHANGED <<disk, inbox, landed, verdict>>
    BY <1>7 DEF ReadFile, Reconcile, ReadFor
  <2>3. UnderWay' = UnderWay
    BY <2>1, <2>2 DEF UnderWay, Executes
  <2> QED BY <2>2, <2>3, Stutters
<1>8. CASE \E m \in inbox : BeginCommand(m)
  <2>1. PICK m \in inbox : BeginCommand(m)
    BY <1>8
  <2>2. ~Executes /\ Executes' /\ op'.cmd = m /\ inbox' = inbox \ {m}
    BY <2>1, BeginCommandDoes
  <2>3. UNCHANGED <<disk, landed, verdict>>
    BY <2>1 DEF BeginCommand
  <2>4. UnderWay' = UnderWay
    BY <2>2 DEF UnderWay, Executes
  <2> QED BY <2>3, <2>4, Stutters
<1>9. CASE \E x \in Client, c \in Card, bound, upload \in BOOLEAN : Send(x, c, bound, upload)
  <2>1. UNCHANGED <<disk, op, verdict, landed>> /\ ~UNCHANGED inbox
    <3>1. PICK x \in Client, c \in Card, bound \in BOOLEAN, upload \in BOOLEAN :
                 Send(x, c, bound, upload)
      BY <1>9
    <3>2. PICK m \in Command : inbox' = inbox \cup {m} /\ ~Spent(m.id)
      BY <3>1, SendDoes
    <3>3. m \notin inbox
      BY <3>2 DEF StoreInv, RequestsAreUnique
    <3> QED BY <3>1, <3>2, <3>3 DEF Send
  <2>2. PICK m \in Command : /\ inbox' = inbox \cup {m} /\ ~Spent(m.id)
                             /\ \E doc \in former : doc.rev = m.rev
    <3>1. inbox \subseteq inbox'
      BY <1>9 DEF Send
    <3> QED BY <2>1, <3>1, InboxSteps
  <2>3. m.id \in Request
    BY DEF Command
  <2> QED BY <2>1, <2>2, <2>3, SendSubmits DEF Atomic!Next
<1>10. CASE UNCHANGED <<disk, op, inbox, landed, verdict>>
  <2>1. UnderWay' = UnderWay
    BY <1>10 DEF UnderWay
  <2> QED BY <1>10, <2>1, Stutters
<1>11. ~(\E c \in Card, sound, low \in BOOLEAN : HandEdit(c, sound, low))
       /\ ~(\E doc \in former : Restore(doc))
  BY DEF HandEdit, Restore, StoreInv, TypeOK
<1>12. (\E x \in Client : GiveUp(x)) \/ UNCHANGED vars
       => UNCHANGED <<disk, op, inbox, landed, verdict>>
  BY DEF GiveUp, vars
<1> QED
  BY <1>2, <1>3, <1>4, <1>5, <1>6, <1>7, <1>8, <1>9, <1>10, <1>11, <1>12
     DEF Next, Service, Start, Status, BeginRead

(* The service as its clients know it, as long as only the store writes    *)
(* the file: one document, requests that take effect at once or never, and *)
(* verdicts that never lie about which.                                    *)
THEOREM StoreIsAtomic == ASSUME MaxEdits = 0 PROVE Spec => ImplementsAtomicBoard
<1>1. Init => Atomic!Init
  <2> SUFFICES ASSUME Init PROVE Atomic!Init
    OBVIOUS
  <2>1. PICK low \in {FALSE, MayStartLow} : disk = Blank(low)
    BY DEF Init
  <2>2. AtomicDoc = [rev |-> 0, body |-> [c \in Card |-> <<>>]]
    BY <2>1 DEF AtomicDoc, Blank
  <2>3. UnderWay = {} /\ Landed = {} /\ verdict = [r \in Request |-> None]
    BY DEF Init, UnderWay, Landed
  <2>4. Pending = [r \in Request |-> None]
    BY <2>3 DEF Pending, PendingOf
  <2> QED BY <2>2, <2>3, <2>4 DEF Atomic!Init, AtomicDoc, Pending, PendingOf
<1>2. StoreInv /\ RevisionsNameDocuments /\ [Next]_vars => [Atomic!Next]_(Atomic!vars)
  BY StepIsAtomic
<1> QED BY <1>1, <1>2, SoleWriterHolds, PTL DEF Spec, ImplementsAtomicBoard, Atomic!Spec
=============================================================================
