----------------------------- MODULE Watermark -----------------------------
(***************************************************************************)
(* The watermark of one listening identity and the mailbox page it asks     *)
(* for: pure functions (src/src/asmtp/watermark.ts, and the keyset query of *)
(* src/src/operator/storage/repository.ts).                                 *)
(*                                                                          *)
(* A row is [at, id]: the operator's created_at and the envelope id, which  *)
(* the sender chose.  Ids compare as strings do, so naturals stand for      *)
(* them; 0 is the null id of a fresh install, below every real one.         *)
(***************************************************************************)
EXTENDS Integers, FiniteSets

CONSTANT Retention   \* DEDUP_RETENTION_MS

ASSUME RetentionAssumption == Retention \in Nat

Row == [at: Nat, id: Nat]

\* compareCursor(p, q) < 0
Before(p, q) == p.at < q.at \/ (p.at = q.at /\ p.id < q.id)

\* A watermark: the cursor, and the ids surfaced of late with their times.
Fresh == [at |-> 0, id |-> 0, dedup |-> [i \in {} |-> 0]]
Cursor(w) == [at |-> w.at, id |-> w.id]

Watermarks(Ids, Times) ==
  [at: Times, id: Ids \cup {0}, dedup: UNION {[S -> Times] : S \in SUBSET Ids}]

\* Mutants: only the last id counts; whatever is not past the last id counts.
hasSeenLast(w, id) == id = w.id
hasSeenPast(w, id) == id <= w.id

hasSeen(w, id) == id \in DOMAIN w.dedup

\* Mutant: the cursor follows the last row handled.
advanceToRow(w, row) ==
  [at |-> row.at, id |-> row.id,
   dedup |-> [i \in DOMAIN w.dedup \cup {row.id} |-> IF i = row.id THEN row.at ELSE w.dedup[i]]]

\* Both callers pass one row at a time.  The cursor moves to the row if that is
\* later; the row is remembered, and what is too far behind the cursor forgotten.
advanceWatermark(w, row) ==
  LET top == IF Before(Cursor(w), row) THEN row ELSE Cursor(w)
      seen == [i \in DOMAIN w.dedup \cup {row.id} |->
                 IF i = row.id THEN row.at ELSE w.dedup[i]]
      kept == {i \in DOMAIN seen : seen[i] >= top.at - Retention}
  IN  [at |-> top.at, id |-> top.id, dedup |-> [i \in kept |-> seen[i]]]

\* GET /mailbox?order=asc: the first `limit` rows strictly after the cursor.
Page(box, cursor, limit) ==
  LET after == {r \in box : Before(cursor, r)}
  IN  {r \in after : Cardinality({q \in after : Before(q, r)}) < limit}

\* Mutant: every page promises another one.
\* next_cursor is given when the page is full, whether or not more rows follow.
PromisesMoreAlways(page, limit) == Cardinality(page) <= limit
PromisesMore(page, limit) == Cardinality(page) = limit

=============================================================================
