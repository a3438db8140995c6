--------------------------- MODULE MailboxService ---------------------------
(***************************************************************************)
(* What the operator promises its agents about mail, without tables,        *)
(* policies, bodies, files or connections:                                  *)
(*   - an envelope is placed in the boxes of all its recipients at once, or *)
(*     nowhere, and an id is placed once;                                   *)
(*   - a sender told 202 has its envelope stored with the recipients it is  *)
(*     told, a sender told an error has changed nothing;                    *)
(*   - mail leaves only with its sender or with the owner of the box, and   *)
(*     a read entry stays read.                                             *)
(* Operator implements it (Operator!ImplementsMailboxService).              *)
(***************************************************************************)
CONSTANTS Members, Ids

VARIABLES
  members,   \* the registered agents
  stored,    \* id -> [from, to]: the accepted envelopes
  inbox,     \* <<member, id>> -> has it been read
  answer     \* the response to the last send

vars == <<members, stored, inbox, answer>>

Nothing == [k \in {} |-> k]
Silence == [status |-> 0, ids |-> {}, to |-> {}]
Receipt(id, to) == [status |-> 202, ids |-> {id}, to |-> to]
Refusals == {400, 404, 409}

Keep(t, K) == [k \in DOMAIN t \cap K |-> t[k]]

Init ==
  /\ members = {} /\ stored = Nothing /\ inbox = Nothing
  /\ answer = Silence

Join(h) ==
  /\ h \notin members
  /\ members' = members \cup {h}
  /\ answer' = Silence
  /\ UNCHANGED <<stored, inbox>>

\* An agent leaves with the mail it sent, in whoever's box, and its own box.
Leave(h) ==
  LET kept == {id \in DOMAIN stored : stored[id].from # h} IN
  /\ h \in members
  /\ members' = members \ {h}
  /\ stored' = Keep(stored, kept)
  /\ inbox' = Keep(inbox, (members \ {h}) \X kept)
  /\ answer' = Silence

Deliver(id, from, to) ==
  /\ id \notin DOMAIN stored
  /\ {from} \cup to \subseteq members
  /\ stored' = [i \in DOMAIN stored \cup {id} |->
                  IF i = id THEN [from |-> from, to |-> to] ELSE stored[i]]
  /\ inbox' = [b \in DOMAIN inbox \cup (to \X {id}) |->
                  IF b[2] = id THEN FALSE ELSE inbox[b]]
  /\ answer' = Receipt(id, to)
  /\ UNCHANGED members

\* The retry of a stored envelope is answered as the first time and does nothing.
Repeat(id) ==
  /\ id \in DOMAIN stored
  /\ answer' = Receipt(id, stored[id].to)
  /\ UNCHANGED <<members, stored, inbox>>

Refuse(status) ==
  /\ answer' = [Silence EXCEPT !.status = status]
  /\ UNCHANGED <<members, stored, inbox>>

Read(h, ids) ==
  /\ inbox' = [b \in DOMAIN inbox |-> inbox[b] \/ (b[1] = h /\ b[2] \in ids)]
  /\ answer' = Silence
  /\ UNCHANGED <<members, stored>>

\* Whatever else an operator does is not about mail.
Other ==
  /\ answer' = Silence
  /\ UNCHANGED <<members, stored, inbox>>

Next ==
  \/ \E h \in Members : Join(h) \/ Leave(h)
  \/ \E id \in Ids, from \in Members, to \in SUBSET Members : Deliver(id, from, to)
  \/ \E id \in Ids : Repeat(id)
  \/ \E status \in Refusals : Refuse(status)
  \/ \E h \in Members, ids \in SUBSET Ids : Read(h, ids)
  \/ Other

Spec == Init /\ [][Next]_vars

=============================================================================
