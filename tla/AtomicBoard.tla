----------------------------- MODULE AtomicBoard -----------------------------
(***************************************************************************)
(* What the board service promises its clients: one document with a        *)
(* revision; a request names the revision it was based on and takes effect *)
(* at once or never; the verdict on it never lies about which.             *)
(***************************************************************************)
EXTENDS Integers, Sequences

CONSTANTS Request, Card, None

VARIABLES
  doc,      \* the revision, and each card's accepted requests in order
  pending,  \* requests that may still take effect: the command, or None
  landed,   \* requests that took effect
  verdict   \* None, "ok", "refused" or "unknown"

vars == <<doc, pending, landed, verdict>>

Init == /\ doc = [rev |-> 0, body |-> [c \in Card |-> <<>>]]
        /\ pending = [r \in Request |-> None]
        /\ landed = {}
        /\ verdict = [r \in Request |-> None]

Submit(r) ==
  /\ pending[r] = None /\ verdict[r] = None /\ r \notin landed
  /\ \E c \in Card, rev \in 0..doc.rev :
       pending' = [pending EXCEPT ![r] = [card |-> c, rev |-> rev]]
  /\ UNCHANGED <<doc, landed, verdict>>

(* Compare and set: the named revision is the current one.                 *)
Commit(r) ==
  /\ pending[r] # None /\ r \notin landed
  /\ pending[r].rev = doc.rev
  /\ doc' = [doc EXCEPT !.rev = @ + 1, !.body[pending[r].card] = Append(@, r)]
  /\ landed' = landed \cup {r}
  /\ UNCHANGED <<pending, verdict>>

(* The service may write a repaired document as a revision of its own.     *)
Repair == /\ doc' = [doc EXCEPT !.rev = @ + 1]
          /\ UNCHANGED <<pending, landed, verdict>>

Answer(r) ==
  /\ pending[r] # None
  /\ \E v \in {"unknown", IF r \in landed THEN "ok" ELSE "refused"} :
       verdict' = [verdict EXCEPT ![r] = v]
  /\ pending' = [pending EXCEPT ![r] = None]
  /\ UNCHANGED <<doc, landed>>

(* Nothing that was under way may take effect after a crash.               *)
Crash ==
  /\ pending' = [r \in Request |-> None]
  /\ verdict' = [r \in Request |-> IF pending[r] # None THEN "unknown" ELSE verdict[r]]
  /\ UNCHANGED <<doc, landed>>

Next == Repair \/ Crash \/ \E r \in Request : Submit(r) \/ Commit(r) \/ Answer(r)

Spec == Init /\ [][Next]_vars
=============================================================================
