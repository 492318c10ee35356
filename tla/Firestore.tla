----------------------------- MODULE Firestore -----------------------------
(***************************************************************************)
(* The part of the Cloud Firestore client library both apps rely on.  It   *)
(* is external to the repository: the operators say what the code under    *)
(* src/ may assume of setData/set, delete, getDocument/get and of their    *)
(* completion callbacks.                                                   *)
(*                                                                         *)
(*  - A write is first put in the device's mutation queue; the queue is on *)
(*    disk (neither app turns persistence off) and the server applies it   *)
(*    in order.                                                            *)
(*  - A read returns the server's document with the device's own pending   *)
(*    writes applied on top of it (latency compensation).                  *)
(*  - The completion of a write runs when the server has acknowledged it.  *)
(*    It is a closure in memory: an app that is killed keeps its queued    *)
(*    writes and loses their completions.                                  *)
(*                                                                         *)
(* A write is a record with at least the fields doc, val and ack (what the *)
(* completion does, NoAck for nothing).  A document that does not exist    *)
(* has the value Absent, a constant of each component; writing it deletes  *)
(* the document.                                                           *)
(***************************************************************************)
EXTENDS Naturals, Sequences

NoAck == "none"

\* The positions of queue q that write document d.
PendingOn(q, d) == {i \in 1 .. Len(q) : q[i].doc = d}

\* What a device with queue q reads in d when the server holds db.
View(db, q, d) ==
  LET pending == PendingOn(q, d)
  IN  IF pending = {} THEN db[d]
      ELSE q[CHOOSE i \in pending : \A j \in pending : j <= i].val

\* The queue after the app is killed: every write, no completion.
WithoutAcks(q) == [i \in 1 .. Len(q) |-> [q[i] EXCEPT !.ack = NoAck]]

============================================================================
