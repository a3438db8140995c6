--------------------------- MODULE OperatorProofs ---------------------------
(***************************************************************************)
(* What holds of Operator for every set of handles, ids, files, requests,   *)
(* connections and messages and for every bound, in four parts:             *)
(*                                                                          *)
(*   1. its type invariant;                                                 *)
(*   2. its safety invariants.  The argument goes by the effect a step has  *)
(*      on the tables: whatever handler runs, it delivers an envelope,      *)
(*      removes an agent, registers one, edits agents in place, marks       *)
(*      entries read, edits trust, adds a file, or leaves the tables alone  *)
(*      (EveryStepHasAnEffect).  Each conjunct of the inductive invariant   *)
(*      is then carried through the effects that can disturb it;            *)
(*   3. what no step ever does: the action properties, from the invariants  *)
(*      of part 2;                                                          *)
(*   4. that Operator implements MailboxService: the initial tables show an *)
(*      empty service, and every step of the operator shows as one step of  *)
(*      the service or as none.                                             *)
(***************************************************************************)
EXTENDS Operator, TLAPS

-----------------------------------------------------------------------------
(* 1. Type correctness                                                     *)
-----------------------------------------------------------------------------
\* Tables: insertion, deletion and update keep the shape of a table.

LEMMA InsertTable ==
  ASSUME NEW Keys, NEW Rows, NEW t, IsTable(t, Keys, Rows), NEW k \in Keys, NEW row \in Rows
  PROVE  IsTable(Insert(t, k, row), Keys, Rows)
  BY DEF IsTable, Insert

LEMMA WithoutTable ==
  ASSUME NEW Keys, NEW Rows, NEW t, IsTable(t, Keys, Rows), NEW K
  PROVE  IsTable(Without(t, K), Keys, Rows)
  BY DEF IsTable, Without, Restrict

LEMMA EmptyTable ==
  ASSUME NEW Keys, NEW Rows
  PROVE  IsTable(Empty, Keys, Rows)
  BY DEF IsTable, Empty

LEMMA UpdateTable ==
  ASSUME NEW Keys, NEW Rows, NEW t, IsTable(t, Keys, Rows), NEW k, NEW row \in Rows
  PROVE  IsTable([t EXCEPT ![k] = row], Keys, Rows)
  BY DEF IsTable

\* A table is read row by row.
LEMMA TableRow ==
  ASSUME NEW Keys, NEW Rows, NEW t, IsTable(t, Keys, Rows), NEW k \in DOMAIN t
  PROVE  k \in Keys /\ t[k] \in Rows
  BY DEF IsTable

-----------------------------------------------------------------------------
\* The next-state relation, action by action

\* The three actions that turn a request over without touching a table.
LEMMA FinishKeepsRequests ==
  ASSUME NEW s, IsTable(pending, Requests, Request), Finish(s)
  PROVE  IsTable(pending', Requests, Request)
  BY WithoutTable DEF Finish

\* A request that is ready speaks for a handle.
LEMMA ReadyHandle ==
  ASSUME NEW s, NEW route, IsTable(pending, Requests, Request), Ready(s, route)
  PROVE  pending[s].handle \in Handles
  BY DEF Ready, IsTable, Request

\* A message is an envelope once its sender and its clock are known.
LEMMA AcceptedEnvelope ==
  ASSUME NEW m \in Messages, NEW from \in Handles, minted \in 0..MaxMints
  PROVE  Stamped(from, m) \in Envelope
  <1>1. m \in Message
    BY OperatorAssumption
  <1> QED
    BY <1>1 DEF Message, Envelope, Stamped

LEMMA BoxesTyped ==
  ASSUME NEW m \in Messages
  PROVE  /\ m.id \in Ids
         /\ Recipients(m) \subseteq Handles
         /\ Boxes(m.id, m) \subseteq Handles \X Ids
  <1>1. m \in Message
    BY OperatorAssumption
  <1> QED
    BY <1>1 DEF Message, Recipients, Boxes

LEMMA FramesTyped ==
  ASSUME NEW m \in Messages, NEW h, NEW from
  PROVE  FramesFor(h, from, m) \in Seq(Frame)
  <1>1. m.id \in Ids
    BY BoxesTyped
  <1> DEFINE notify == [op |-> "notify", id |-> m.id]
             facts == [op |-> "facts", id |-> m.id]
  <1>2. notify \in Frame /\ facts \in Frame
    BY <1>1 DEF Frame
  <1> HIDE DEF notify, facts
  <1>3. <<notify>> \in Seq(Frame) /\ <<facts>> \in Seq(Frame) /\ <<>> \in Seq(Frame)
    BY <1>2
  <1>4. (IF h \in Recipients(m) THEN <<notify>> ELSE <<>>) \in Seq(Frame)
    BY <1>3
  <1>5. (IF m.monitor /\ h = from THEN <<facts>> ELSE <<>>) \in Seq(Frame)
    BY <1>3
  <1> QED
    BY <1>4, <1>5 DEF FramesFor, notify, facts

\* Marking entries read keeps them entries.
LEMMA MarkedReadTyped ==
  ASSUME NEW h, NEW ids, IsTable(mailbox, Handles \X Ids, Entry)
  PROVE  IsTable(MarkedRead(h, ids), Handles \X Ids, Entry)
  BY DEF IsTable, MarkedRead, Entry

LEMMA SendAcceptedTyped ==
  ASSUME TypeOK, NEW s, NEW m \in Messages, SendAccepted(s, m)
  PROVE  TypeOK'
  <1> DEFINE from == pending[s].handle
  <1>1. from \in Handles
    BY ReadyHandle DEF TypeOK, SendAccepted, Admitted
  <1>2. IsTable(envelopes', Ids, Envelope)
    BY <1>1, AcceptedEnvelope, BoxesTyped, InsertTable DEF TypeOK, SendAccepted
  <1>3. IsTable(mailbox', Handles \X Ids, Entry)
    <2>1. mailbox' = FannedOut(m)
      BY DEF SendAccepted
    <2>2. \A r : [kind |-> Kind(r, m), read |-> FALSE] \in Entry
      BY DEF Entry, Kind
    <2> QED
      BY <2>1, <2>2, BoxesTyped DEF TypeOK, FannedOut, IsTable
  <1>4. IsTable(files', FileIds, File)
    BY BoxesTyped DEF TypeOK, SendAccepted, IsTable, File
  <1>5. IsTable(conns', Conns, Conn)
    <2>1. ASSUME NEW c \in DOMAIN conns
          PROVE  [conns[c] EXCEPT !.queue = @ \o FramesFor(conns[c].handle, from, m)] \in Conn
      <3>1. FramesFor(conns[c].handle, from, m) \in Seq(Frame)
        BY FramesTyped
      <3>2. conns[c] \in Conn
        BY <2>1, TableRow DEF TypeOK
      <3>3. conns[c].queue \o FramesFor(conns[c].handle, from, m) \in Seq(Frame)
        BY <3>1, <3>2 DEF Conn
      <3> QED
        BY <3>2, <3>3 DEF Conn
    <2> QED
      BY <2>1 DEF TypeOK, SendAccepted, IsTable
  <1>6. IsTable(pending', Requests, Request)
    BY FinishKeepsRequests DEF TypeOK, SendAccepted
  <1> QED
    BY <1>2, <1>3, <1>4, <1>5, <1>6 DEF TypeOK, SendAccepted

-----------------------------------------------------------------------------
\* Type correctness

LEMMA SendTyped ==
  ASSUME TypeOK, NEW s, Send(s)
  PROVE  TypeOK'
  <1>1. PICK m \in Messages : \/ SendRefused(s, m) \/ SendConflict(s, m)
                              \/ SendReplayed(s, m) \/ SendBadFile(s, m)
                              \/ SendAccepted(s, m)
    BY DEF Send
  <1>2. CASE SendAccepted(s, m)
    BY <1>2, SendAcceptedTyped
  <1>3. CASE SendRefused(s, m)
    BY <1>3, FinishKeepsRequests DEF TypeOK, SendRefused, tables
  <1>4. CASE SendConflict(s, m)
    BY <1>4, FinishKeepsRequests DEF TypeOK, SendConflict, tables
  <1>5. CASE SendReplayed(s, m)
    BY <1>5, FinishKeepsRequests DEF TypeOK, SendReplayed, tables
  <1>6. CASE SendBadFile(s, m)
    BY <1>6, FinishKeepsRequests DEF TypeOK, SendBadFile, tables
  <1> QED
    BY <1>1, <1>2, <1>3, <1>4, <1>5, <1>6

LEMMA MarkReadTyped ==
  ASSUME TypeOK, NEW s, NEW ids, MarkRead(s, ids)
  PROVE  TypeOK'
  BY FinishKeepsRequests, MarkedReadTyped DEF TypeOK, MarkRead

LEMMA DirectTyped ==
  ASSUME TypeOK, NEW h \in Handles, Direct(h)
  PROVE  TypeOK'
  <1>1. ASSUME NEW ids, FetchMany(h, ids)
        PROVE  TypeOK'
    BY <1>1, MarkedReadTyped DEF TypeOK, FetchMany
  <1>2. ASSUME NEW entry, Disallow(h, entry)
        PROVE  TypeOK'
    BY <1>2 DEF TypeOK, Disallow
  <1>3. ASSUME NEW other, Unblock(h, other)
        PROVE  TypeOK'
    BY <1>3 DEF TypeOK, Unblock
  <1> QED
    BY <1>1, <1>2, <1>3 DEF Direct

LEMMA AdministerTyped ==
  ASSUME TypeOK, NEW h \in Handles, Administer(h)
  PROVE  TypeOK'
  <1>1. ASSUME NEW policy \in Postures, NEW card \in Cards, AdminCreate(h, policy, card)
        PROVE  TypeOK'
    <2> DEFINE row == [bearer |-> minted + 1, policy |-> policy,
                       card |-> card, born |-> minted + 1]
    <2>1. minted + 1 \in 1..MaxMints /\ minted + 1 \in 0..MaxMints
      BY <1>1, OperatorAssumption DEF TypeOK, AdminCreate
    <2>2. row \in Agent
      BY <2>1, OperatorAssumption DEF Agent
    <2>3. IsTable(agents', Handles, Agent)
      BY <1>1, <2>2, InsertTable DEF TypeOK, AdminCreate
    <2> QED
      BY <1>1, <2>1, <2>3 DEF TypeOK, AdminCreate
  <1>2. CASE AdminRemove(h)
    <2>1. IsTable(agents', Handles, Agent)
      BY <1>2, WithoutTable DEF TypeOK, AdminRemove
    <2>2. IsTable(envelopes', Ids, Envelope)
      BY <1>2, WithoutTable DEF TypeOK, AdminRemove
    <2>3. IsTable(mailbox', Handles \X Ids, Entry)
      BY <1>2, WithoutTable DEF TypeOK, AdminRemove
    <2>4. IsTable(files', FileIds, File)
      BY <1>2 DEF TypeOK, AdminRemove, IsTable, File
    <2> QED
      BY <1>2, <2>1, <2>2, <2>3, <2>4 DEF TypeOK, AdminRemove
  <1>3. CASE AdminRotate(h)
    <2>1. minted + 1 \in 1..MaxMints /\ minted + 1 \in 0..MaxMints
      BY <1>3, OperatorAssumption DEF TypeOK, AdminRotate
    <2>2. agents[h] \in Agent
      BY <1>3, TableRow DEF TypeOK, AdminRotate
    <2>3. [agents[h] EXCEPT !.bearer = minted + 1] \in Agent
      BY <2>1, <2>2 DEF Agent
    <2>4. IsTable(agents', Handles, Agent)
      BY <1>3, <2>3, UpdateTable DEF TypeOK, AdminRotate
    <2> QED
      BY <1>3, <2>1, <2>4 DEF TypeOK, AdminRotate
  <1> QED
    BY <1>1, <1>2, <1>3 DEF Administer

LEMMA SubmitTyped ==
  ASSUME TypeOK, NEW s \in Requests, Submit(s)
  PROVE  TypeOK'
  <1>1. ASSUME NEW route \in BodyRoutes, NEW token, Arrive(s, route, token)
        PROVE  TypeOK'
    <2>1. PICK h \in Handles : pending' = Insert(pending, s, [route |-> route, handle |-> h])
      BY <1>1 DEF Arrive
    <2>2. [route |-> route, handle |-> h] \in Request
      BY DEF Request
    <2> QED
      BY <1>1, <2>1, <2>2, InsertTable DEF TypeOK, Arrive, tables
  <1>2. ASSUME NEW h \in Handles, "patch" \in BodyRoutes, ArriveAdminPatch(s, h)
        PROVE  TypeOK'
    <2>1. [route |-> "patch", handle |-> h] \in Request
      BY <1>2 DEF Request
    <2> QED
      BY <1>2, <2>1, InsertTable DEF TypeOK, ArriveAdminPatch, tables
  <1>3. CASE Abandon(s)
    BY <1>3, FinishKeepsRequests DEF TypeOK, Abandon, tables
  <1>4. ASSUME NEW granted \in SUBSET Grants, Allow(s, granted)
        PROVE  TypeOK'
    <2>1. pending[s].handle \in Handles
      BY <1>4, ReadyHandle DEF TypeOK, Allow
    <2>2. {pending[s].handle} \X granted \subseteq Handles \X Entries
      BY <2>1, OperatorAssumption
    <2>3. allowlist' \subseteq Handles \X Entries
      BY <1>4, <2>2 DEF TypeOK, Allow
    <2> QED
      BY <1>4, <2>3, FinishKeepsRequests DEF TypeOK, Allow
  <1>5. ASSUME NEW other \in Handles, Block(s, other)
        PROVE  TypeOK'
    <2>1. pending[s].handle \in Handles
      BY <1>5, ReadyHandle DEF TypeOK, Block
    <2>2. blocks' \subseteq Handles \X Handles
      BY <1>5, <2>1 DEF TypeOK, Block
    <2> QED
      BY <1>5, <2>2, FinishKeepsRequests DEF TypeOK, Block
  <1>6. ASSUME NEW card \in Cards, UpdateProfile(s, card)
        PROVE  TypeOK'
    <2> DEFINE me == pending[s].handle
    <2>1. ASSUME me \in DOMAIN agents
          PROVE  [agents[me] EXCEPT !.card = card] \in Agent
      <3>1. agents[me] \in Agent
        BY <2>1, TableRow DEF TypeOK
      <3> QED
        BY <3>1 DEF Agent
    <2>2. me \in DOMAIN agents =>
            agents' = [agents EXCEPT ![me] = [agents[me] EXCEPT !.card = card]]
      BY <1>6 DEF UpdateProfile
    <2>3. me \notin DOMAIN agents => agents' = agents
      BY <1>6 DEF UpdateProfile
    <2> HIDE DEF me
    <2>4. IsTable(agents', Handles, Agent)
      BY <2>1, <2>2, <2>3, UpdateTable DEF TypeOK
    <2> QED
      BY <1>6, <2>4, FinishKeepsRequests DEF TypeOK, UpdateProfile
  <1>7. ASSUME NEW f \in FileIds, Upload(s, f)
        PROVE  TypeOK'
    <2>1. pending[s].handle \in Handles
      BY <1>7, ReadyHandle DEF TypeOK, Upload
    <2>2. [owner |-> pending[s].handle, attached |-> Pending] \in File
      BY <2>1 DEF File
    <2>3. IsTable(files', FileIds, File)
      BY <1>7, <2>2, InsertTable DEF TypeOK, Upload
    <2> QED
      BY <1>7, <2>3, FinishKeepsRequests DEF TypeOK, Upload
  <1>8. ASSUME NEW f \in FileIds, UploadCrash(s, f)
        PROVE  TypeOK'
    BY <1>8, EmptyTable DEF TypeOK, UploadCrash, tables
  <1>9. ASSUME NEW policy \in Postures, NEW card \in Cards, AdminPatch(s, policy, card)
        PROVE  TypeOK'
    <2> DEFINE h == pending[s].handle
    <2>1. ASSUME h \in DOMAIN agents
          PROVE  [agents[h] EXCEPT !.policy = policy, !.card = card] \in Agent
      <3>1. agents[h] \in Agent
        BY <2>1, TableRow DEF TypeOK
      <3> QED
        BY <3>1, OperatorAssumption DEF Agent
    <2>2. h \in DOMAIN agents =>
            agents' = [agents EXCEPT ![h] = [agents[h] EXCEPT !.policy = policy, !.card = card]]
      BY <1>9 DEF AdminPatch
    <2>3. h \notin DOMAIN agents => agents' = agents
      BY <1>9 DEF AdminPatch
    <2> HIDE DEF h
    <2>4. IsTable(agents', Handles, Agent)
      BY <2>1, <2>2, <2>3, UpdateTable DEF TypeOK
    <2> QED
      BY <1>9, <2>4, FinishKeepsRequests DEF TypeOK, AdminPatch
  <1> QED
    BY <1>1, <1>2, <1>3, <1>4, <1>5, <1>6, <1>7, <1>8, <1>9 DEF Submit

LEMMA TransportTyped ==
  ASSUME TypeOK, Transport
  PROVE  TypeOK'
  <1>1. ASSUME NEW c \in Conns, NEW token, Connect(c, token)
        PROVE  TypeOK'
    <2>1. PICK h \in Handles : conns' = Insert(conns, c, [handle |-> h, queue |-> <<>>])
      BY <1>1 DEF Connect
    <2>2. [handle |-> h, queue |-> <<>>] \in Conn
      BY DEF Conn
    <2> QED
      BY <1>1, <2>1, <2>2, InsertTable DEF TypeOK, Connect, tables
  <1>2. ASSUME NEW c \in Conns, Disconnect(c)
        PROVE  TypeOK'
    BY <1>2, WithoutTable DEF TypeOK, Disconnect, tables
  <1>3. CASE Restart
    BY <1>3, EmptyTable DEF TypeOK, Restart, tables
  <1> QED
    BY <1>1, <1>2, <1>3 DEF Transport

LEMMA TypeInit == Init => TypeOK
  BY EmptyTable, OperatorAssumption DEF Init, TypeOK

LEMMA TypeStep ==
  ASSUME TypeOK, [Next]_vars
  PROVE  TypeOK'
  <1>1. CASE UNCHANGED vars
    BY <1>1 DEF TypeOK, vars, tables
  <1>2. CASE Next
    BY <1>2, SendTyped, MarkReadTyped, DirectTyped, AdministerTyped, SubmitTyped,
       TransportTyped DEF Next
  <1> QED
    BY <1>1, <1>2

\* Every table, request slot and connection keeps its declared shape, whatever the
\* handles, messages and bounds: the schema's columns, and the handle a request
\* was authenticated as, are all the handlers ever store (src/src/operator).
THEOREM TypeCorrect == Spec => []TypeOK
  BY TypeInit, TypeStep, PTL DEF Spec

-----------------------------------------------------------------------------
(* 2. Safety invariants, by the effects of the steps                       *)
-----------------------------------------------------------------------------
\* The effects

Delivers == \E s \in Requests, m \in Messages : SendAccepted(s, m)

Removes == \E h \in Handles : AdminRemove(h)

Registers == \E h \in Handles, policy \in Postures, card \in Cards : AdminCreate(h, policy, card)

\* Rows of agents change in place; nobody's registration date does, and a bearer that
\* changes is a new one.
Edited(old, row) ==
  /\ row.born = old.born
  /\ \/ row.bearer = old.bearer
     \/ minted' = minted + 1 /\ row.bearer = minted + 1

Edits ==
  /\ DOMAIN agents' = DOMAIN agents
  /\ \A h \in DOMAIN agents : Edited(agents[h], agents'[h])
  /\ minted' \in {minted, minted + 1}
  /\ UNCHANGED <<allowlist, blocks, envelopes, mailbox, files, blobs>>

Marks ==
  /\ \E h \in Handles, ids \in SUBSET Ids : mailbox' = MarkedRead(h, ids)
  /\ UNCHANGED <<agents, allowlist, blocks, envelopes, files, blobs, minted>>

\* Trust rows are removed, or added for a registered owner.
Trusts ==
  /\ \A g \in allowlist' : g \in allowlist \/ g[1] \in DOMAIN agents
  /\ \A b \in blocks' : b \in blocks \/ b[1] \in DOMAIN agents
  /\ UNCHANGED <<agents, envelopes, mailbox, files, blobs, minted>>

\* A file is new with its bytes, for a registered owner, or only its bytes are.
Adds ==
  /\ \E f \in FileIds :
       /\ f \notin blobs
       /\ blobs' = blobs \cup {f}
       /\ \/ files' = files
          \/ \E h \in DOMAIN agents : files' = Insert(files, f, [owner |-> h, attached |-> Pending])
  /\ UNCHANGED <<agents, allowlist, blocks, envelopes, mailbox, minted>>

Keeps == UNCHANGED <<tables, blobs, minted>>

\* The handlers of a send, but for the one that accepts, keep the tables.
LEMMA SendEffect ==
  ASSUME NEW s \in Requests, Send(s)
  PROVE  Delivers \/ Keeps
  BY DEF Send, SendRefused, SendConflict, SendReplayed, SendBadFile, Delivers, Keeps

LEMMA MarkReadEffect ==
  ASSUME TypeOK, NEW s \in Requests, NEW ids \in SUBSET Ids, MarkRead(s, ids)
  PROVE  Marks
  <1>1. pending[s].handle \in Handles
    BY ReadyHandle DEF TypeOK, MarkRead
  <1> QED
    BY <1>1 DEF MarkRead, Marks

LEMMA DirectEffect ==
  ASSUME NEW h \in Handles, Direct(h)
  PROVE  Marks \/ Trusts
  <1>1. ASSUME NEW ids \in SUBSET Ids, FetchMany(h, ids)
        PROVE  Marks
    <2>1. Entitled(h, ids) \cap DOMAIN envelopes \in SUBSET Ids
      BY DEF Entitled
    <2> QED
      BY <1>1, <2>1 DEF FetchMany, Marks
  <1>2. ASSUME NEW entry, Disallow(h, entry)
        PROVE  Trusts
    BY <1>2 DEF Disallow, Trusts
  <1>3. ASSUME NEW other, Unblock(h, other)
        PROVE  Trusts
    BY <1>3 DEF Unblock, Trusts
  <1> QED
    BY <1>1, <1>2, <1>3 DEF Direct

\* Writing one row of agents is an edit if it is one of that row.
LEMMA RowEdit ==
  ASSUME NEW h, NEW row, agents' = [agents EXCEPT ![h] = row],
         h \in DOMAIN agents => Edited(agents[h], row),
         minted' \in {minted, minted + 1},
         UNCHANGED <<allowlist, blocks, envelopes, mailbox, files, blobs>>
  PROVE  Edits
  BY DEF Edits, Edited

LEMMA AdministerEffect ==
  ASSUME TypeOK, NEW h \in Handles, Administer(h)
  PROVE  Removes \/ Registers \/ Edits
  <1>1. CASE AdminRotate(h)
    <2> DEFINE row == [agents[h] EXCEPT !.bearer = minted + 1]
    <2>1. agents' = [agents EXCEPT ![h] = row]
      BY <1>1 DEF AdminRotate
    <2>2. agents[h] \in Agent
      BY <1>1, TableRow DEF TypeOK, AdminRotate
    <2>3. Edited(agents[h], row)
      BY <1>1, <2>2 DEF Agent, AdminRotate, Edited
    <2> HIDE DEF row
    <2> QED
      BY <1>1, <2>1, <2>3, RowEdit DEF AdminRotate
  <1> QED
    BY <1>1 DEF Administer, Removes, Registers

LEMMA SubmitEffect ==
  ASSUME TypeOK, NEW s \in Requests, Submit(s)
  PROVE  Keeps \/ Trusts \/ Edits \/ Adds
  <1>1. ASSUME NEW route, NEW token, Arrive(s, route, token)
        PROVE  Keeps
    BY <1>1 DEF Arrive, Keeps
  <1>2. ASSUME NEW h, ArriveAdminPatch(s, h)
        PROVE  Keeps
    BY <1>2 DEF ArriveAdminPatch, Keeps
  <1>3. CASE Abandon(s)
    BY <1>3 DEF Abandon, Keeps
  <1>4. ASSUME NEW granted, Allow(s, granted)
        PROVE  Trusts
    BY <1>4 DEF Allow, Trusts
  <1>5. ASSUME NEW other, Block(s, other)
        PROVE  Trusts
    BY <1>5 DEF Block, Trusts
  <1>6. ASSUME NEW card, UpdateProfile(s, card)
        PROVE  Edits
    <2> DEFINE me == pending[s].handle
               row == [agents[me] EXCEPT !.card = card]
    <2>1. CASE me \in DOMAIN agents
      <3>1. agents' = [agents EXCEPT ![me] = row]
        BY <1>6, <2>1 DEF UpdateProfile
      <3>2. agents[me] \in Agent
        BY <2>1, TableRow DEF TypeOK
      <3>3. Edited(agents[me], row)
        BY <3>2 DEF Agent, Edited
      <3> HIDE DEF row, me
      <3> QED
        BY <1>6, <3>1, <3>3, RowEdit DEF UpdateProfile
    <2>2. CASE me \notin DOMAIN agents
      BY <1>6, <2>2 DEF UpdateProfile, Edits, Edited
    <2> QED
      BY <2>1, <2>2
  <1>7. ASSUME NEW f \in FileIds, Upload(s, f)
        PROVE  Adds
    BY <1>7 DEF Upload, Adds
  <1>8. ASSUME NEW f \in FileIds, UploadCrash(s, f)
        PROVE  Adds
    BY <1>8 DEF UploadCrash, Adds, tables
  <1>9. ASSUME NEW policy, NEW card, AdminPatch(s, policy, card)
        PROVE  Edits
    <2> DEFINE h == pending[s].handle
               row == [agents[h] EXCEPT !.policy = policy, !.card = card]
    <2>1. CASE h \in DOMAIN agents
      <3>1. agents' = [agents EXCEPT ![h] = row]
        BY <1>9, <2>1 DEF AdminPatch
      <3>2. agents[h] \in Agent
        BY <2>1, TableRow DEF TypeOK
      <3>3. Edited(agents[h], row)
        BY <3>2 DEF Agent, Edited
      <3> HIDE DEF row, h
      <3> QED
        BY <1>9, <3>1, <3>3, RowEdit DEF AdminPatch
    <2>2. CASE h \notin DOMAIN agents
      BY <1>9, <2>2 DEF AdminPatch, Edits, Edited
    <2> QED
      BY <2>1, <2>2
  <1> QED
    BY <1>1, <1>2, <1>3, <1>4, <1>5, <1>6, <1>7, <1>8, <1>9 DEF Submit

LEMMA EveryStepHasAnEffect ==
  ASSUME TypeOK, [Next]_vars
  PROVE  \/ Delivers \/ Removes \/ Registers \/ Edits
         \/ Marks \/ Trusts \/ Adds \/ Keeps
  <1>1. CASE UNCHANGED vars
    BY <1>1 DEF vars, Keeps
  <1>2. ASSUME NEW s \in Requests, Send(s)
        PROVE  Delivers \/ Keeps
    BY <1>2, SendEffect
  <1>3. ASSUME NEW s \in Requests, NEW ids \in SUBSET Ids, MarkRead(s, ids)
        PROVE  Marks
    BY <1>3, MarkReadEffect
  <1>4. CASE Transport
    BY <1>4 DEF Transport, Connect, Disconnect, Restart, Keeps
  <1> QED
    BY <1>1, <1>2, <1>3, <1>4, DirectEffect, AdministerEffect, SubmitEffect DEF Next

-----------------------------------------------------------------------------
\* What the two effects that move mail do, once and for all

Delivery(from, m) ==
  /\ m \in Message
  /\ from \in DOMAIN agents
  /\ Recipients(m) \subseteq DOMAIN agents
  /\ m.id \notin DOMAIN envelopes
  /\ DOMAIN envelopes' = DOMAIN envelopes \cup {m.id}
  /\ envelopes'[m.id] = Stamped(from, m)
  /\ \A id \in DOMAIN envelopes : envelopes'[id] = envelopes[id]
  /\ DOMAIN mailbox' = DOMAIN mailbox \cup Boxes(m.id, m)
  /\ \A b \in Boxes(m.id, m) : mailbox'[b] = [kind |-> Kind(b[1], m), read |-> FALSE]
  /\ \A b \in DOMAIN mailbox \ Boxes(m.id, m) : mailbox'[b] = mailbox[b]
  /\ DOMAIN files' = DOMAIN files
  /\ \A f \in Range(m.parts) :
       /\ f \in DOMAIN files
       /\ files[f] = [owner |-> from, attached |-> Pending]
       /\ files'[f] = [owner |-> from, attached |-> m.id]
  /\ \A f \in DOMAIN files \ Range(m.parts) : files'[f] = files[f]
  /\ UNCHANGED <<agents, allowlist, blocks, blobs, minted>>

LEMMA DeliveryFacts ==
  ASSUME TypeOK, NEW s \in Requests, NEW m \in Messages, SendAccepted(s, m)
  PROVE  Delivery(pending[s].handle, m)
  <1> DEFINE from == pending[s].handle
  <1>1. m \in Message
    BY OperatorAssumption
  <1>2. \A r \in Recipients(m) : canInitiate(agents, allowlist, from, r)
    BY DEF SendAccepted, Admitted, Admits
  <1>3. Recipients(m) # {}
    <2>1. m.to # {}
      BY <1>1 DEF Message
    <2> QED
      BY <2>1 DEF Recipients
  <1>4. from \in DOMAIN agents /\ Recipients(m) \subseteq DOMAIN agents
    BY <1>2, <1>3 DEF canInitiate, isReachable
  <1>5. envelopes' = Insert(envelopes, m.id, Stamped(from, m)) /\ m.id \notin DOMAIN envelopes
    BY DEF SendAccepted
  <1>6. /\ DOMAIN mailbox' = DOMAIN mailbox \cup Boxes(m.id, m)
        /\ \A b \in Boxes(m.id, m) : mailbox'[b] = [kind |-> Kind(b[1], m), read |-> FALSE]
        /\ \A b \in DOMAIN mailbox \ Boxes(m.id, m) : mailbox'[b] = mailbox[b]
    BY DEF SendAccepted, FannedOut
  <1>7. /\ DOMAIN files' = DOMAIN files
        /\ \A f \in DOMAIN files \ Range(m.parts) : files'[f] = files[f]
    BY DEF SendAccepted
  <1>8. ASSUME NEW f \in Range(m.parts)
        PROVE  /\ f \in DOMAIN files
               /\ files[f] = [owner |-> from, attached |-> Pending]
               /\ files'[f] = [owner |-> from, attached |-> m.id]
    <2>1. f \in DOMAIN files /\ files[f] = [owner |-> from, attached |-> Pending]
      BY DEF SendAccepted, Claimable
    <2>2. files'[f] = [files[f] EXCEPT !.attached = m.id]
      BY <2>1 DEF SendAccepted
    <2> QED
      BY <2>1, <2>2
  <1> QED
    BY <1>1, <1>4, <1>5, <1>6, <1>7, <1>8 DEF Insert, Delivery, SendAccepted

\* For any set `sent`: only its envelopes go.
Removal(h, sent) ==
  /\ DOMAIN agents' = DOMAIN agents \ {h}
  /\ \A a \in DOMAIN agents \ {h} : agents'[a] = agents[a]
  /\ sent = {id \in DOMAIN envelopes : envelopes[id].from = h}
  /\ DOMAIN envelopes' = DOMAIN envelopes \ sent
  /\ \A id \in DOMAIN envelopes \ sent : envelopes'[id] = envelopes[id]
  /\ DOMAIN mailbox' = {b \in DOMAIN mailbox : b[1] # h /\ b[2] \notin sent}
  /\ \A b \in DOMAIN mailbox' : mailbox'[b] = mailbox[b]
  /\ DOMAIN files' = {f \in DOMAIN files : files[f].owner # h}
  /\ \A f \in DOMAIN files' :
       /\ files'[f].owner = files[f].owner
       /\ files'[f].attached = IF files[f].attached \in sent THEN Pending ELSE files[f].attached
       /\ files[f].attached \notin sent => files'[f] = files[f]
  /\ UNCHANGED <<blobs, minted>>

LEMMA RemovalFacts ==
  ASSUME TypeOK, NEW h \in Handles, AdminRemove(h)
  PROVE  Removal(h, SentBy(h))
  <1> DEFINE sent == SentBy(h)
  <1>1. /\ DOMAIN agents' = DOMAIN agents \ {h}
        /\ \A a \in DOMAIN agents \ {h} : agents'[a] = agents[a]
    BY DEF AdminRemove, Without, Restrict
  <1>2. /\ DOMAIN envelopes' = DOMAIN envelopes \ sent
        /\ \A id \in DOMAIN envelopes \ sent : envelopes'[id] = envelopes[id]
    BY DEF AdminRemove, Without, Restrict
  <1>3. /\ DOMAIN mailbox' = {b \in DOMAIN mailbox : b[1] # h /\ b[2] \notin sent}
        /\ \A b \in DOMAIN mailbox' : mailbox'[b] = mailbox[b]
    BY DEF AdminRemove, Without, Restrict
  <1>4. DOMAIN files' = {f \in DOMAIN files : files[f].owner # h}
    BY DEF AdminRemove
  <1>5. ASSUME NEW f \in DOMAIN files'
        PROVE  /\ files'[f].owner = files[f].owner
               /\ files'[f].attached = IF files[f].attached \in sent
                                         THEN Pending ELSE files[f].attached
               /\ files[f].attached \notin sent => files'[f] = files[f]
    <2>1. files[f] \in File
      BY <1>4, <1>5 DEF TypeOK, IsTable
    <2>2. files'[f] = IF files[f].attached \in sent
                        THEN [files[f] EXCEPT !.attached = Pending] ELSE files[f]
      BY <1>4, <1>5 DEF AdminRemove
    <2> QED
      BY <2>1, <2>2 DEF File
  <1>6. sent = {id \in DOMAIN envelopes : envelopes[id].from = h}
    BY DEF SentBy
  <1>7. UNCHANGED <<blobs, minted>>
    BY DEF AdminRemove
  <1> QED
    BY <1>1, <1>2, <1>3, <1>4, <1>5, <1>6, <1>7 DEF Removal

LEMMA MarkFacts ==
  ASSUME TypeOK, Marks
  PROVE  /\ DOMAIN mailbox' = DOMAIN mailbox
         /\ \A b \in DOMAIN mailbox : /\ mailbox'[b].kind = mailbox[b].kind
                                      /\ mailbox[b].read => mailbox'[b].read
  BY DEF Marks, MarkedRead, TypeOK, IsTable, Entry

-----------------------------------------------------------------------------
\* Referential integrity

LEMMA RefsDelivers ==
  ASSUME TypeOK, ReferentialIntegrity, Delivers
  PROVE  ReferentialIntegrity'
  <1>1. PICK s \in Requests, m \in Messages : SendAccepted(s, m)
    BY DEF Delivers
  <1> DEFINE from == pending[s].handle
  <1>2. Delivery(from, m)
    BY <1>1, DeliveryFacts
  <1> HIDE DEF from
  <1>3. \A id \in DOMAIN envelopes' : envelopes'[id].from \in DOMAIN agents'
    <2>1. envelopes'[m.id].from = from
      BY <1>2 DEF Delivery, Stamped
    <2> QED
      BY <1>2, <2>1 DEF ReferentialIntegrity, Delivery
  <1>4. \A b \in DOMAIN mailbox' : b[1] \in DOMAIN agents' /\ b[2] \in DOMAIN envelopes'
    <2>1. \A b \in Boxes(m.id, m) : b[1] \in Recipients(m) /\ b[2] = m.id
      BY DEF Boxes
    <2> QED
      BY <1>2, <2>1 DEF ReferentialIntegrity, Delivery
  <1>5. ASSUME NEW f \in DOMAIN files'
        PROVE  /\ files'[f].owner \in DOMAIN agents'
               /\ files'[f].attached \in DOMAIN envelopes' \cup {Pending}
    <2>1. f \in DOMAIN files /\ files[f] \in File
      BY <1>2, <1>5 DEF TypeOK, IsTable, Delivery
    <2>2. files'[f] = IF f \in Range(m.parts) THEN [files[f] EXCEPT !.attached = m.id]
                                              ELSE files[f]
      BY <1>1, <2>1 DEF SendAccepted
    <2>3. files'[f].owner = files[f].owner /\ files'[f].attached \in {files[f].attached, m.id}
      BY <2>1, <2>2 DEF File
    <2> QED
      BY <1>2, <2>1, <2>3 DEF ReferentialIntegrity, Delivery
  <1>6. /\ \A g \in allowlist' : g[1] \in DOMAIN agents'
        /\ \A b \in blocks' : b[1] \in DOMAIN agents'
    BY <1>2 DEF Delivery, ReferentialIntegrity
  <1> QED
    BY <1>3, <1>4, <1>5, <1>6 DEF ReferentialIntegrity

LEMMA RefsRemoves ==
  ASSUME TypeOK, ReferentialIntegrity, Removes
  PROVE  ReferentialIntegrity'
  <1>1. PICK h \in Handles : AdminRemove(h)
    BY DEF Removes
  <1> DEFINE sent == SentBy(h)
  <1>2. Removal(h, sent)
    BY <1>1, RemovalFacts
  <1> HIDE DEF sent
  <1>3. /\ \A g \in allowlist' : g[1] \in DOMAIN agents'
        /\ \A b \in blocks' : b[1] \in DOMAIN agents'
    BY <1>1, <1>2 DEF AdminRemove, ReferentialIntegrity, Removal
  <1>4. \A id \in DOMAIN envelopes' : envelopes'[id].from \in DOMAIN agents'
    BY <1>2 DEF ReferentialIntegrity, Removal
  <1>5. \A b \in DOMAIN mailbox' : b[1] \in DOMAIN agents' /\ b[2] \in DOMAIN envelopes'
    BY <1>2 DEF ReferentialIntegrity, Removal
  <1>6. \A f \in DOMAIN files' : /\ files'[f].owner \in DOMAIN agents'
                                 /\ files'[f].attached \in DOMAIN envelopes' \cup {Pending}
    BY <1>2 DEF ReferentialIntegrity, Removal
  <1> QED
    BY <1>3, <1>4, <1>5, <1>6 DEF ReferentialIntegrity

LEMMA RefsStep ==
  ASSUME TypeOK, ReferentialIntegrity, [Next]_vars
  PROVE  ReferentialIntegrity'
  <1>1. CASE Registers
    <2>1. DOMAIN agents \subseteq DOMAIN agents'
      BY <1>1 DEF Registers, AdminCreate, Insert
    <2>2. UNCHANGED <<allowlist, blocks, envelopes, mailbox, files>>
      BY <1>1 DEF Registers, AdminCreate
    <2> QED
      BY <2>1, <2>2 DEF ReferentialIntegrity
  <1>2. CASE Edits
    BY <1>2 DEF Edits, ReferentialIntegrity
  <1>3. CASE Marks
    BY <1>3, MarkFacts DEF Marks, ReferentialIntegrity
  <1>4. CASE Trusts
    BY <1>4 DEF Trusts, ReferentialIntegrity
  <1>5. CASE Adds
    BY <1>5 DEF Adds, ReferentialIntegrity, Insert
  <1>6. CASE Keeps
    BY <1>6 DEF Keeps, tables, ReferentialIntegrity
  <1> QED
    BY <1>1, <1>2, <1>3, <1>4, <1>5, <1>6, RefsDelivers, RefsRemoves, EveryStepHasAnEffect

\* No row outlives the agent or the envelope it refers to, whatever is removed while
\* requests are on their way (schema.ts foreign keys; src/src/operator/routes).
THEOREM ReferencesHold == Spec => []ReferentialIntegrity
  <1>1. Init => ReferentialIntegrity
    BY DEF Init, Empty, ReferentialIntegrity
  <1>2. TypeOK /\ ReferentialIntegrity /\ [Next]_vars => ReferentialIntegrity'
    BY RefsStep
  <1> QED
    BY <1>1, <1>2, TypeCorrect, PTL DEF Spec

-----------------------------------------------------------------------------
\* Bytes before rows

LEMMA BytesStep ==
  ASSUME TypeOK, RowsHaveBytes, [Next]_vars
  PROVE  RowsHaveBytes'
  <1>1. CASE Delivers
    BY <1>1, DeliveryFacts DEF Delivers, Delivery, RowsHaveBytes
  <1>2. CASE Removes
    BY <1>2, RemovalFacts DEF Removes, Removal, RowsHaveBytes
  <1>3. CASE Adds
    BY <1>3 DEF Adds, Insert, RowsHaveBytes
  <1>4. CASE Registers \/ Edits \/ Marks \/ Trusts \/ Keeps
    BY <1>4 DEF Registers, AdminCreate, Edits, Marks, Trusts, Keeps, tables, RowsHaveBytes
  <1> QED
    BY <1>1, <1>2, <1>3, <1>4, EveryStepHasAnEffect

\* A file row always has its bytes, wherever the process dies (domain/files.ts upload).
THEOREM BytesHold == Spec => []RowsHaveBytes
  <1>1. Init => RowsHaveBytes
    BY DEF Init, Empty, RowsHaveBytes
  <1>2. TypeOK /\ RowsHaveBytes /\ [Next]_vars => RowsHaveBytes'
    BY BytesStep
  <1> QED
    BY <1>1, <1>2, TypeCorrect, PTL DEF Spec

-----------------------------------------------------------------------------
\* Files and the envelopes that name them

LEMMA FilesDelivers ==
  ASSUME TypeOK, FilesBound, Delivers
  PROVE  FilesBound'
  <1>1. PICK s \in Requests, m \in Messages : SendAccepted(s, m)
    BY DEF Delivers
  <1> DEFINE from == pending[s].handle
  <1>2. Delivery(from, m)
    BY <1>1, DeliveryFacts
  <1> HIDE DEF from
  <1>3. envelopes'[m.id].parts = m.parts /\ envelopes'[m.id].from = from
    BY <1>2 DEF Delivery, Stamped
  <1>4. ASSUME NEW id \in DOMAIN envelopes', NEW f \in Range(envelopes'[id].parts)
        PROVE  /\ f \in DOMAIN files'
               /\ files'[f] = [owner |-> envelopes'[id].from, attached |-> id]
    <2>1. CASE id = m.id
      BY <1>2, <1>3, <1>4, <2>1 DEF Delivery
    <2>2. CASE id # m.id
      <3>1. id \in DOMAIN envelopes /\ envelopes'[id] = envelopes[id]
        BY <1>2, <2>2 DEF Delivery
      <3>2. id # Pending
        BY <3>1, OperatorAssumption DEF TypeOK, IsTable
      <3>3. f \in DOMAIN files /\ files[f] = [owner |-> envelopes[id].from, attached |-> id]
        BY <1>4, <3>1 DEF FilesBound
      <3>4. f \notin Range(m.parts)
        BY <1>2, <3>2, <3>3 DEF Delivery
      <3> QED
        BY <1>2, <3>1, <3>3, <3>4 DEF Delivery
    <2> QED
      BY <2>1, <2>2
  <1>5. ASSUME NEW f \in DOMAIN files', files'[f].attached # Pending
        PROVE  /\ files'[f].attached \in DOMAIN envelopes'
               /\ f \in Range(envelopes'[files'[f].attached].parts)
    <2>1. CASE f \in Range(m.parts)
      BY <1>2, <1>3, <2>1 DEF Delivery
    <2>2. CASE f \notin Range(m.parts)
      BY <1>2, <1>5, <2>2 DEF Delivery, FilesBound
    <2> QED
      BY <2>1, <2>2
  <1> QED
    BY <1>4, <1>5 DEF FilesBound

\* The files of the envelopes that go are the leaver's own, and go with it: the
\* schema's SET NULL has nothing to do.
LEMMA FilesLeave ==
  ASSUME TypeOK, FilesBound, NEW h, NEW sent, Removal(h, sent), NEW f \in DOMAIN files'
  PROVE  files'[f] = files[f]
  <1>1. f \in DOMAIN files /\ files[f].owner # h
    BY DEF Removal
  <1>2. files[f].attached \notin sent
    <2> SUFFICES ASSUME files[f].attached \in sent
                 PROVE  FALSE
      OBVIOUS
    <2>1. files[f].attached \in DOMAIN envelopes /\ envelopes[files[f].attached].from = h
      BY DEF Removal
    <2>2. files[f].attached # Pending
      BY <2>1, OperatorAssumption DEF TypeOK, IsTable
    <2>3. f \in Range(envelopes[files[f].attached].parts)
      BY <1>1, <2>2 DEF FilesBound
    <2>4. files[f] = [owner |-> h, attached |-> files[f].attached]
      BY <2>1, <2>3 DEF FilesBound
    <2> QED
      BY <1>1, <2>4
  <1> QED
    BY <1>2 DEF Removal

LEMMA FilesRemoves ==
  ASSUME TypeOK, FilesBound, Removes
  PROVE  FilesBound'
  <1>1. PICK h \in Handles : AdminRemove(h)
    BY DEF Removes
  <1> DEFINE sent == SentBy(h)
  <1>2. Removal(h, sent)
    BY <1>1, RemovalFacts
  <1> HIDE DEF sent
  <1>3. \A f \in DOMAIN files' : files'[f] = files[f]
    BY <1>2, FilesLeave
  <1>4. ASSUME NEW id \in DOMAIN envelopes', NEW f \in Range(envelopes'[id].parts)
        PROVE  /\ f \in DOMAIN files'
               /\ files'[f] = [owner |-> envelopes'[id].from, attached |-> id]
    <2>1. id \in DOMAIN envelopes /\ envelopes'[id] = envelopes[id] /\ envelopes[id].from # h
      BY <1>2, <1>4 DEF Removal
    <2>2. f \in DOMAIN files /\ files[f] = [owner |-> envelopes[id].from, attached |-> id]
      BY <1>4, <2>1 DEF FilesBound
    <2>3. f \in DOMAIN files'
      BY <1>2, <2>1, <2>2 DEF Removal
    <2> QED
      BY <1>3, <2>1, <2>2, <2>3
  <1>5. ASSUME NEW f \in DOMAIN files', files'[f].attached # Pending
        PROVE  /\ files'[f].attached \in DOMAIN envelopes'
               /\ f \in Range(envelopes'[files'[f].attached].parts)
    <2>1. f \in DOMAIN files /\ files'[f] = files[f] /\ files[f].owner # h
      BY <1>2, <1>3, <1>5 DEF Removal
    <2> DEFINE id == files[f].attached
    <2>2. id \in DOMAIN envelopes /\ f \in Range(envelopes[id].parts)
      BY <1>5, <2>1 DEF FilesBound
    <2>3. envelopes[id].from = files[f].owner
      <3>1. files[f] = [owner |-> envelopes[id].from, attached |-> id]
        BY <2>2 DEF FilesBound
      <3> QED
        BY <3>1
    <2>4. id \in DOMAIN envelopes' /\ envelopes'[id] = envelopes[id]
      BY <1>2, <2>1, <2>2, <2>3 DEF Removal
    <2> QED
      BY <2>1, <2>2, <2>4
  <1> QED
    BY <1>4, <1>5 DEF FilesBound

LEMMA FilesStep ==
  ASSUME TypeOK, RowsHaveBytes, FilesBound, [Next]_vars
  PROVE  FilesBound'
  <1>1. CASE Adds
    <2>1. PICK f \in FileIds :
            /\ f \notin blobs
            /\ \/ files' = files
               \/ \E h \in DOMAIN agents :
                    files' = Insert(files, f, [owner |-> h, attached |-> Pending])
      BY <1>1 DEF Adds
    <2>2. f \notin DOMAIN files
      BY <2>1 DEF RowsHaveBytes
    <2>3. /\ DOMAIN files \subseteq DOMAIN files'
          /\ \A g \in DOMAIN files : files'[g] = files[g]
          /\ \A g \in DOMAIN files' \ DOMAIN files : files'[g].attached = Pending
      BY <2>1, <2>2 DEF Insert
    <2>4. envelopes' = envelopes
      BY <1>1 DEF Adds
    <2> QED
      BY <2>3, <2>4 DEF FilesBound
  <1>2. CASE Registers \/ Edits \/ Marks \/ Trusts \/ Keeps
    BY <1>2 DEF Registers, AdminCreate, Edits, Marks, Trusts, Keeps, tables, FilesBound
  <1> QED
    BY <1>1, <1>2, FilesDelivers, FilesRemoves, EveryStepHasAnEffect

\* A file and the envelope that names it agree for as long as either lives
\* (FilesRepo.claim, #claimContentPartFiles, schema.ts ON DELETE).
THEOREM BindingHolds == Spec => []FilesBound
  <1>1. Init => FilesBound
    BY DEF Init, Empty, FilesBound
  <1>2. TypeOK /\ RowsHaveBytes /\ FilesBound /\ [Next]_vars => FilesBound'
    BY FilesStep
  <1> QED
    BY <1>1, <1>2, TypeCorrect, BytesHold, PTL DEF Spec

-----------------------------------------------------------------------------
\* Fan-out.  What excuses a missing entry is a registration later than the
\* envelope, so the dates must not run ahead of the clock.

DatesPast ==
  /\ \A h \in DOMAIN agents : agents[h].born <= minted
  /\ \A id \in DOMAIN envelopes : envelopes[id].created <= minted

LEMMA DatesStep ==
  ASSUME TypeOK, DatesPast, [Next]_vars
  PROVE  DatesPast'
  <1>1. CASE Delivers
    <2>1. PICK s \in Requests, m \in Messages : SendAccepted(s, m)
      BY <1>1 DEF Delivers
    <2>2. Delivery(pending[s].handle, m)
      BY <2>1, DeliveryFacts
    <2>3. envelopes'[m.id].created = minted /\ minted \in Nat
      BY <2>2, OperatorAssumption DEF Delivery, Stamped, TypeOK
    <2> QED
      BY <2>2, <2>3 DEF Delivery, DatesPast
  <1>2. CASE Removes
    <2>1. PICK h \in Handles : Removal(h, SentBy(h))
      BY <1>2, RemovalFacts DEF Removes
    <2> QED
      BY <2>1 DEF Removal, DatesPast
  <1>3. CASE Registers
    <2>1. PICK h \in Handles, policy \in Postures, card \in Cards : AdminCreate(h, policy, card)
      BY <1>3 DEF Registers
    <2>2. minted \in Nat /\ minted' = minted + 1 /\ envelopes' = envelopes
      BY <2>1, OperatorAssumption DEF AdminCreate, TypeOK
    <2>3. /\ DOMAIN agents' = DOMAIN agents \cup {h}
          /\ agents'[h].born = minted + 1
          /\ \A a \in DOMAIN agents : agents'[a] = agents[a]
      BY <2>1 DEF AdminCreate, Insert
    <2>4. \A a \in DOMAIN agents : agents[a].born \in Nat
      BY OperatorAssumption DEF TypeOK, IsTable, Agent
    <2>5. \A id \in DOMAIN envelopes : envelopes[id].created \in Nat
      BY OperatorAssumption DEF TypeOK, IsTable, Envelope
    <2> QED
      BY <2>2, <2>3, <2>4, <2>5 DEF DatesPast
  <1>4. CASE Edits
    <2>1. minted \in Nat /\ minted' \in {minted, minted + 1} /\ envelopes' = envelopes
      BY <1>4, OperatorAssumption DEF Edits, TypeOK
    <2>2. \A a \in DOMAIN agents : agents[a].born \in Nat
      BY OperatorAssumption DEF TypeOK, IsTable, Agent
    <2>3. \A id \in DOMAIN envelopes : envelopes[id].created \in Nat
      BY OperatorAssumption DEF TypeOK, IsTable, Envelope
    <2> QED
      BY <1>4, <2>1, <2>2, <2>3 DEF Edits, Edited, DatesPast
  <1>5. CASE Marks \/ Trusts \/ Adds \/ Keeps
    BY <1>5 DEF Marks, Trusts, Adds, Keeps, tables, DatesPast
  <1> QED
    BY <1>1, <1>2, <1>3, <1>4, <1>5, EveryStepHasAnEffect

LEMMA DatesHold == Spec => []DatesPast
  <1>1. Init => DatesPast
    BY DEF Init, Empty, DatesPast
  <1>2. TypeOK /\ DatesPast /\ [Next]_vars => DatesPast'
    BY DatesStep
  <1> QED
    BY <1>1, <1>2, TypeCorrect, PTL DEF Spec

LEMMA FanOutStep ==
  ASSUME TypeOK, DatesPast, FanOutComplete, [Next]_vars
  PROVE  FanOutComplete'
  <1>1. CASE Delivers
    <2>1. PICK s \in Requests, m \in Messages : SendAccepted(s, m)
      BY <1>1 DEF Delivers
    <2>2. Delivery(pending[s].handle, m)
      BY <2>1, DeliveryFacts
    <2>3. Recipients(envelopes'[m.id]) = Recipients(m)
      BY <2>2 DEF Delivery, Stamped, Recipients
    <2>4. \A r \in Recipients(m) : <<r, m.id>> \in DOMAIN mailbox'
      BY <2>2 DEF Delivery, Boxes
    <2>5. \A id \in DOMAIN envelopes : envelopes'[id] = envelopes[id]
      BY <2>2 DEF Delivery
    <2> QED
      BY <2>2, <2>3, <2>4, <2>5 DEF Delivery, FanOutComplete
  <1>2. CASE Removes
    <2>1. PICK h \in Handles : Removal(h, SentBy(h))
      BY <1>2, RemovalFacts DEF Removes
    <2> SUFFICES ASSUME NEW id \in DOMAIN envelopes', NEW r \in Recipients(envelopes'[id]),
                        r \in DOMAIN agents', ~(agents'[r].born > envelopes'[id].created)
                 PROVE  <<r, id>> \in DOMAIN mailbox'
      BY DEF FanOutComplete
    <2>2. id \in DOMAIN envelopes \ SentBy(h) /\ envelopes'[id] = envelopes[id]
      BY <2>1 DEF Removal
    <2>3. r \in DOMAIN agents \ {h} /\ agents'[r] = agents[r]
      BY <2>1 DEF Removal
    <2>4. <<r, id>> \in DOMAIN mailbox
      BY <2>2, <2>3 DEF FanOutComplete
    <2> QED
      BY <2>1, <2>2, <2>3, <2>4 DEF Removal
  <1>3. CASE Registers
    <2>1. PICK h \in Handles, policy \in Postures, card \in Cards : AdminCreate(h, policy, card)
      BY <1>3 DEF Registers
    <2>2. minted \in Nat /\ UNCHANGED <<envelopes, mailbox>>
      BY <2>1, OperatorAssumption DEF AdminCreate, TypeOK
    <2>3. /\ DOMAIN agents' = DOMAIN agents \cup {h} /\ h \notin DOMAIN agents
          /\ agents'[h].born = minted + 1
          /\ \A a \in DOMAIN agents : agents'[a] = agents[a]
      BY <2>1 DEF AdminCreate, Insert
    <2> SUFFICES ASSUME NEW id \in DOMAIN envelopes, NEW r \in Recipients(envelopes[id]),
                        <<r, id>> \notin DOMAIN mailbox, r \in DOMAIN agents'
                 PROVE  agents'[r].born > envelopes[id].created
      BY <2>2 DEF FanOutComplete
    <2>4. envelopes[id].created \in Nat /\ envelopes[id].created <= minted
      BY OperatorAssumption DEF TypeOK, IsTable, Envelope, DatesPast
    <2>5. CASE r = h
      BY <2>2, <2>3, <2>4, <2>5
    <2>6. CASE r # h
      <3>1. r \in DOMAIN agents /\ agents[r].born > envelopes[id].created
        BY <2>3, <2>6 DEF FanOutComplete
      <3> QED
        BY <2>3, <3>1
    <2> QED
      BY <2>5, <2>6
  <1>4. CASE Edits
    BY <1>4 DEF Edits, Edited, FanOutComplete
  <1>5. CASE Marks
    BY <1>5, MarkFacts DEF Marks, FanOutComplete
  <1>6. CASE Trusts \/ Adds \/ Keeps
    BY <1>6 DEF Trusts, Adds, Keeps, tables, FanOutComplete
  <1> QED
    BY <1>1, <1>2, <1>3, <1>4, <1>5, <1>6, EveryStepHasAnEffect

\* Every recipient of a stored envelope holds its entry, unless registered anew since
\* (EnvelopeService.accept, one transaction for the envelope and all its entries).
THEOREM FanOutHolds == Spec => []FanOutComplete
  <1>1. Init => FanOutComplete
    BY DEF Init, Empty, FanOutComplete
  <1>2. TypeOK /\ DatesPast /\ FanOutComplete /\ [Next]_vars => FanOutComplete'
    BY FanOutStep
  <1> QED
    BY <1>1, <1>2, TypeCorrect, DatesHold, PTL DEF Spec

LEMMA EntriesStep ==
  ASSUME TypeOK, ReferentialIntegrity, EntriesAreRecipients, [Next]_vars
  PROVE  EntriesAreRecipients'
  <1>1. CASE Delivers
    <2>1. PICK s \in Requests, m \in Messages : SendAccepted(s, m)
      BY <1>1 DEF Delivers
    <2>2. Delivery(pending[s].handle, m)
      BY <2>1, DeliveryFacts
    <2>3. Recipients(envelopes'[m.id]) = Recipients(m) /\ envelopes'[m.id].to = m.to
      BY <2>2 DEF Delivery, Stamped, Recipients
    <2>4. ASSUME NEW b \in Boxes(m.id, m)
          PROVE  /\ b[1] \in Recipients(envelopes'[b[2]])
                 /\ (mailbox'[b].kind = "to") <=> b[1] \in envelopes'[b[2]].to
      <3>1. b[1] \in Recipients(m) /\ b[2] = m.id
        BY <2>4 DEF Boxes
      <3>2. mailbox'[b].kind = Kind(b[1], m)
        BY <2>2, <2>4 DEF Delivery
      <3> QED
        BY <2>3, <3>1, <3>2 DEF Kind
    <2>5. ASSUME NEW b \in DOMAIN mailbox \ Boxes(m.id, m)
          PROVE  /\ b[1] \in Recipients(envelopes'[b[2]])
                 /\ (mailbox'[b].kind = "to") <=> b[1] \in envelopes'[b[2]].to
      <3>1. b[2] \in DOMAIN envelopes /\ mailbox'[b] = mailbox[b]
        BY <2>2, <2>5 DEF Delivery, ReferentialIntegrity
      <3> QED
        BY <2>2, <3>1 DEF Delivery, EntriesAreRecipients
    <2> QED
      BY <2>2, <2>4, <2>5 DEF Delivery, EntriesAreRecipients
  <1>2. CASE Removes
    <2>1. PICK h \in Handles : Removal(h, SentBy(h))
      BY <1>2, RemovalFacts DEF Removes
    <2> QED
      BY <2>1 DEF Removal, EntriesAreRecipients, ReferentialIntegrity
  <1>3. CASE Marks
    BY <1>3, MarkFacts DEF Marks, EntriesAreRecipients
  <1>4. CASE Registers \/ Edits \/ Trusts \/ Adds \/ Keeps
    BY <1>4 DEF Registers, AdminCreate, Edits, Trusts, Adds, Keeps, tables, EntriesAreRecipients
  <1> QED
    BY <1>1, <1>2, <1>3, <1>4, EveryStepHasAnEffect

\* Only recipients hold an entry, and as what they were addressed (accept's fan-out).
THEOREM EntriesHold == Spec => []EntriesAreRecipients
  <1>1. Init => EntriesAreRecipients
    BY DEF Init, Empty, EntriesAreRecipients
  <1>2. TypeOK /\ ReferentialIntegrity /\ EntriesAreRecipients /\ [Next]_vars => EntriesAreRecipients'
    BY EntriesStep
  <1> QED
    BY <1>1, <1>2, TypeCorrect, ReferencesHold, PTL DEF Spec

-----------------------------------------------------------------------------
\* Downloads

LEMMA ServesOwner ==
  ASSUME RowsHaveBytes, NEW h, NEW f \in DOMAIN files, files[f].owner = h
  PROVE  Serves(h, f)
  BY DEF RowsHaveBytes, Serves, callerCanFetchFile

LEMMA ServesRecipient ==
  ASSUME TypeOK, RowsHaveBytes, FilesBound, ReferentialIntegrity, NEW h, NEW f,
         NEW id \in DOMAIN envelopes, f \in Range(envelopes[id].parts),
         <<h, id>> \in DOMAIN mailbox
  PROVE  Serves(h, f)
  <1>1. f \in DOMAIN files /\ files[f].attached = id
    <2>1. f \in DOMAIN files /\ files[f] = [owner |-> envelopes[id].from, attached |-> id]
      BY DEF FilesBound
    <2> QED
      BY <2>1
  <1>2. id # Pending
    BY OperatorAssumption DEF TypeOK, IsTable
  <1> QED
    BY <1>1, <1>2 DEF RowsHaveBytes, Serves, callerCanFetchFile

LEMMA ServesNobodyElse ==
  ASSUME FilesBound, NEW h, NEW f, Serves(h, f), files[f].owner # h
  PROVE  \E id \in DOMAIN envelopes : /\ f \in Range(envelopes[id].parts)
                                      /\ <<h, id>> \in DOMAIN mailbox
  <1> DEFINE id == files[f].attached
  <1>1. f \in DOMAIN files /\ id # Pending
    BY DEF Serves, callerCanFetchFile
  <1>2. id \in DOMAIN envelopes /\ f \in Range(envelopes[id].parts)
    BY <1>1 DEF FilesBound
  <1>3. files[f].owner = envelopes[id].from
    <2>1. files[f] = [owner |-> envelopes[id].from, attached |-> id]
      BY <1>2 DEF FilesBound
    <2> QED
      BY <2>1
  <1>4. <<h, id>> \in DOMAIN mailbox
    BY <1>3 DEF Serves, callerCanFetchFile
  <1> QED
    BY <1>2, <1>4

\* A file is served to its uploader, to those who hold an entry of an envelope that
\* names it, and to nobody else (routes/files.ts callerCanFetchFile).
THEOREM DownloadsHold == Spec => []DownloadsFollowMail
  <1>1. TypeOK /\ RowsHaveBytes /\ FilesBound /\ ReferentialIntegrity => DownloadsFollowMail
    <2> SUFFICES ASSUME TypeOK, RowsHaveBytes, FilesBound, ReferentialIntegrity,
                        NEW h \in DOMAIN agents, NEW f \in FileIds
                 PROVE  Serves(h, f) <=>
                          \/ f \in DOMAIN files /\ files[f].owner = h
                          \/ \E id \in DOMAIN envelopes : /\ f \in Range(envelopes[id].parts)
                                                          /\ <<h, id>> \in DOMAIN mailbox
      BY DEF DownloadsFollowMail
    <2>1. Serves(h, f) => f \in DOMAIN files
      BY DEF Serves
    <2> QED
      BY <2>1, ServesOwner, ServesRecipient, ServesNobodyElse
  <1> QED
    BY <1>1, TypeCorrect, BytesHold, BindingHolds, ReferencesHold, PTL

-----------------------------------------------------------------------------
(* 3. What no step ever does                                               *)
-----------------------------------------------------------------------------
\* Delivered mail stays

LEMMA DurableStep ==
  ASSUME TypeOK, ReferentialIntegrity, [Next]_vars
  PROVE  /\ \A id \in DOMAIN envelopes :
              \/ id \in DOMAIN envelopes' /\ envelopes'[id] = envelopes[id]
              \/ envelopes[id].from \notin DOMAIN agents'
         /\ \A b \in DOMAIN mailbox :
              \/ b \in DOMAIN mailbox'
              \/ b[1] \notin DOMAIN agents'
              \/ envelopes[b[2]].from \notin DOMAIN agents'
  <1>1. CASE Delivers
    <2>1. PICK s \in Requests, m \in Messages : Delivery(pending[s].handle, m)
      BY <1>1, DeliveryFacts DEF Delivers
    <2> QED
      BY <2>1 DEF Delivery
  <1>2. CASE Removes
    <2>1. PICK h \in Handles : Removal(h, SentBy(h))
      BY <1>2, RemovalFacts DEF Removes
    <2> QED
      BY <2>1 DEF Removal
  <1>3. CASE Marks
    BY <1>3, MarkFacts DEF Marks
  <1>4. CASE Registers \/ Edits \/ Trusts \/ Adds \/ Keeps
    BY <1>4 DEF Registers, AdminCreate, Edits, Trusts, Adds, Keeps, tables
  <1> QED
    BY <1>1, <1>2, <1>3, <1>4, EveryStepHasAnEffect

\* A stored envelope never changes, and it and its entries go only with its sender or
\* with the owner of the box (repository.ts; schema.ts ON DELETE CASCADE).
THEOREM DeliveryLasts == Spec => DeliveryIsDurable
  <1>1. TypeOK /\ ReferentialIntegrity /\ [Next]_vars =>
          [/\ \A id \in DOMAIN envelopes :
                \/ id \in DOMAIN envelopes' /\ envelopes'[id] = envelopes[id]
                \/ envelopes[id].from \notin DOMAIN agents'
           /\ \A b \in DOMAIN mailbox :
                \/ b \in DOMAIN mailbox'
                \/ b[1] \notin DOMAIN agents'
                \/ envelopes[b[2]].from \notin DOMAIN agents']_vars
    BY DurableStep
  <1> QED
    BY <1>1, TypeCorrect, ReferencesHold, PTL DEF Spec, DeliveryIsDurable

-----------------------------------------------------------------------------
\* What was read stays read

LEMMA ReadStep ==
  ASSUME TypeOK, ReferentialIntegrity, [Next]_vars
  PROVE  \A b \in DOMAIN mailbox \cap DOMAIN mailbox' : mailbox[b].read => mailbox'[b].read
  <1>1. CASE Delivers
    <2>1. PICK s \in Requests, m \in Messages : Delivery(pending[s].handle, m)
      BY <1>1, DeliveryFacts DEF Delivers
    <2>2. \A b \in Boxes(m.id, m) : b[2] = m.id
      BY DEF Boxes
    <2>3. \A b \in DOMAIN mailbox : b \notin Boxes(m.id, m)
      BY <2>1, <2>2 DEF Delivery, ReferentialIntegrity
    <2> QED
      BY <2>1, <2>3 DEF Delivery
  <1>2. CASE Removes
    <2>1. PICK h \in Handles : Removal(h, SentBy(h))
      BY <1>2, RemovalFacts DEF Removes
    <2> QED
      BY <2>1 DEF Removal
  <1>3. CASE Marks
    BY <1>3, MarkFacts
  <1>4. CASE Registers \/ Edits \/ Trusts \/ Adds \/ Keeps
    BY <1>4 DEF Registers, AdminCreate, Edits, Trusts, Adds, Keeps, tables
  <1> QED
    BY <1>1, <1>2, <1>3, <1>4, EveryStepHasAnEffect

\* Nothing makes an entry unread again, a replayed send included (MailboxRepo).
THEOREM ReadLasts == Spec => ReadIsForGood
  <1>1. TypeOK /\ ReferentialIntegrity /\ [Next]_vars =>
          [\A b \in DOMAIN mailbox \cap DOMAIN mailbox' :
             mailbox[b].read => mailbox'[b].read]_vars
    BY ReadStep
  <1> QED
    BY <1>1, TypeCorrect, ReferencesHold, PTL DEF Spec, ReadIsForGood

-----------------------------------------------------------------------------
\* A used file stays used

LEMMA BindingStep ==
  ASSUME TypeOK, RowsHaveBytes, FilesBound, [Next]_vars
  PROVE  \A f \in DOMAIN files \cap DOMAIN files' :
           files[f].attached # Pending => files'[f] = files[f]
  <1>1. CASE Delivers
    <2>1. PICK s \in Requests, m \in Messages : Delivery(pending[s].handle, m)
      BY <1>1, DeliveryFacts DEF Delivers
    <2> QED
      BY <2>1 DEF Delivery
  <1>2. CASE Removes
    <2>1. PICK h \in Handles : Removal(h, SentBy(h))
      BY <1>2, RemovalFacts DEF Removes
    <2> QED
      BY <2>1, FilesLeave
  <1>3. CASE Adds
    BY <1>3 DEF Adds, Insert, RowsHaveBytes
  <1>4. CASE Registers \/ Edits \/ Marks \/ Trusts \/ Keeps
    BY <1>4 DEF Registers, AdminCreate, Edits, Marks, Trusts, Keeps, tables
  <1> QED
    BY <1>1, <1>2, <1>3, <1>4, EveryStepHasAnEffect

\* A file once bound stays bound to that envelope until its row goes: the schema's
\* SET NULL never hands a used file out again (schema.ts, FilesRepo.claim).
THEOREM BindingLasts == Spec => BindingIsForGood
  <1>1. TypeOK /\ RowsHaveBytes /\ FilesBound /\ [Next]_vars =>
          [\A f \in DOMAIN files \cap DOMAIN files' :
             files[f].attached # Pending => files'[f] = files[f]]_vars
    BY BindingStep
  <1> QED
    BY <1>1, TypeCorrect, BytesHold, BindingHolds, PTL DEF Spec, BindingIsForGood

-----------------------------------------------------------------------------
\* Trust when the envelope lands

LEMMA TrustStep ==
  ASSUME TypeOK, [Next]_vars
  PROVE  \A b \in DOMAIN mailbox' \ DOMAIN mailbox :
           LET from == envelopes'[b[2]].from IN
           /\ <<b[1], from>> \notin blocks
           /\ {b[1], from} \subseteq DOMAIN agents
           /\ from # b[1] => /\ isReachable(agents, allowlist, from, b[1])
                             /\ isReachable(agents, allowlist, b[1], from)
  <1>1. CASE Delivers
    <2>1. PICK s \in Requests, m \in Messages : SendAccepted(s, m)
      BY <1>1 DEF Delivers
    <2> DEFINE from == pending[s].handle
    <2>2. Delivery(from, m)
      BY <2>1, DeliveryFacts
    <2>3. \A r \in Recipients(m) : /\ canInitiate(agents, allowlist, from, r)
                                   /\ <<r, from>> \notin blocks
      BY <2>1 DEF SendAccepted, Admitted, Admits
    <2>4. envelopes'[m.id].from = from
      BY <2>2 DEF Delivery, Stamped
    <2> HIDE DEF from
    <2>5. ASSUME NEW b \in DOMAIN mailbox' \ DOMAIN mailbox
          PROVE  b[1] \in Recipients(m) /\ b[2] = m.id
      BY <2>2, <2>5 DEF Delivery, Boxes
    <2>6. \A r \in Recipients(m) : r \in DOMAIN agents /\ from \in DOMAIN agents
      BY <2>2 DEF Delivery
    <2> QED
      BY <2>3, <2>4, <2>5, <2>6 DEF canInitiate
  <1>2. CASE Removes
    BY <1>2, RemovalFacts DEF Removes, Removal
  <1>3. CASE Marks
    BY <1>3, MarkFacts
  <1>4. CASE Registers \/ Edits \/ Trusts \/ Adds \/ Keeps
    BY <1>4 DEF Registers, AdminCreate, Edits, Trusts, Adds, Keeps, tables
  <1> QED
    BY <1>1, <1>2, <1>3, <1>4, EveryStepHasAnEffect

\* An entry is added only for a recipient that neither blocks the sender nor fails to
\* trust it both ways at that moment (EnvelopeService.accept, domain/policy.ts).
THEOREM TrustHolds == Spec => TrustHoldsAtDelivery
  <1>1. TypeOK /\ [Next]_vars =>
          [\A b \in DOMAIN mailbox' \ DOMAIN mailbox :
             LET from == envelopes'[b[2]].from IN
             /\ <<b[1], from>> \notin blocks
             /\ {b[1], from} \subseteq DOMAIN agents
             /\ from # b[1] => /\ isReachable(agents, allowlist, from, b[1])
                               /\ isReachable(agents, allowlist, b[1], from)]_vars
    BY TrustStep
  <1> QED
    BY <1>1, TypeCorrect, PTL DEF Spec, TrustHoldsAtDelivery

-----------------------------------------------------------------------------
\* Bearers

LEMMA BearersStep ==
  ASSUME TypeOK, [Next]_vars
  PROVE  \A token \in 1..minted : token \in LiveBearers' => token \in LiveBearers
  <1> SUFFICES ASSUME NEW token \in 1..minted, NEW h \in DOMAIN agents',
                      agents'[h].bearer = token
               PROVE  token \in LiveBearers
    BY DEF LiveBearers
  <1>1. minted \in Nat /\ token # minted + 1
    BY OperatorAssumption DEF TypeOK
  <1>2. CASE Removes
    <2>1. PICK a \in Handles : Removal(a, SentBy(a))
      BY <1>2, RemovalFacts DEF Removes
    <2>2. h \in DOMAIN agents /\ agents'[h] = agents[h]
      BY <2>1 DEF Removal
    <2> QED
      BY <2>2 DEF LiveBearers
  <1>3. CASE Registers
    BY <1>1, <1>3 DEF Registers, AdminCreate, Insert, LiveBearers
  <1>4. CASE Edits
    BY <1>1, <1>4 DEF Edits, Edited, LiveBearers
  <1>5. CASE Delivers
    BY <1>5, DeliveryFacts DEF Delivers, Delivery, LiveBearers
  <1>6. CASE Marks \/ Trusts \/ Adds \/ Keeps
    BY <1>6 DEF Marks, Trusts, Adds, Keeps, tables, LiveBearers
  <1> QED
    BY <1>2, <1>3, <1>4, <1>5, <1>6, EveryStepHasAnEffect

\* A bearer that stopped working never works again: no late write of a patch or a
\* profile brings an old row back (routes/admin.ts, routes/self.ts).
THEOREM RetirementLasts == Spec => RetiredBearersStayRetired
  <1>1. TypeOK /\ [Next]_vars =>
          [\A token \in 1..minted : token \in LiveBearers' => token \in LiveBearers]_vars
    BY BearersStep
  <1> QED
    BY <1>1, TypeCorrect, PTL DEF Spec, RetiredBearersStayRetired

-----------------------------------------------------------------------------
\* Pushes

\* An open connection that stays open hears of nothing but deliveries.
LEMMA OnlyDeliveriesPush ==
  ASSUME [Next]_vars, ~Delivers, NEW c \in DOMAIN conns \cap DOMAIN conns'
  PROVE  conns'[c] = conns[c]
  <1>1. CASE UNCHANGED vars
    BY <1>1 DEF vars
  <1>2. ASSUME NEW s \in Requests, Send(s)
        PROVE  conns' = conns
    BY <1>2 DEF Send, SendRefused, SendConflict, SendReplayed, SendBadFile, Delivers
  <1>3. ASSUME NEW s, NEW ids, MarkRead(s, ids)
        PROVE  conns' = conns
    BY <1>3 DEF MarkRead
  <1>4. ASSUME NEW h, Direct(h)
        PROVE  conns' = conns
    BY <1>4 DEF Direct, FetchMany, Disallow, Unblock
  <1>5. ASSUME NEW h, Administer(h)
        PROVE  conns' = conns
    BY <1>5 DEF Administer, AdminCreate, AdminRemove, AdminRotate
  <1>6. ASSUME NEW s, Submit(s)
        PROVE  conns' = conns
    <2>1. ASSUME NEW f, UploadCrash(s, f)
          PROVE  conns' = conns
      BY <2>1 DEF UploadCrash, Empty
    <2> QED
      BY <1>6, <2>1 DEF Submit, Arrive, ArriveAdminPatch, Abandon, Allow, Block,
         UpdateProfile, Upload, AdminPatch
  <1>7. CASE Transport
    BY <1>7 DEF Transport, Connect, Disconnect, Restart, Empty, Insert, Without, Restrict
  <1> QED
    BY <1>1, <1>2, <1>3, <1>4, <1>5, <1>6, <1>7 DEF Next

\* The step adds no envelope but the one it delivers.
LEMMA OnlyDeliveriesStore ==
  ASSUME TypeOK, [Next]_vars, ~Delivers
  PROVE  DOMAIN envelopes' \subseteq DOMAIN envelopes
  <1>1. CASE Removes
    BY <1>1, RemovalFacts DEF Removes, Removal
  <1>2. CASE Registers \/ Edits \/ Marks \/ Trusts \/ Adds \/ Keeps
    BY <1>2 DEF Registers, AdminCreate, Edits, Marks, Trusts, Adds, Keeps, tables
  <1> QED
    BY <1>1, <1>2, EveryStepHasAnEffect

\* What a delivery appends: only frames about its envelope, a notify among them for a
\* recipient.
LEMMA FramesForFacts ==
  ASSUME NEW m \in Messages, NEW h, NEW from
  PROVE  LET frames == FramesFor(h, from, m) IN
         /\ frames \in Seq(Frame)
         /\ \A i \in 1..Len(frames) : frames[i].id = m.id
         /\ h \in Recipients(m) =>
              1 \in 1..Len(frames) /\ frames[1] = [op |-> "notify", id |-> m.id]
  <1> DEFINE notify == [op |-> "notify", id |-> m.id]
             facts == [op |-> "facts", id |-> m.id]
  <1>1. m.id \in Ids
    BY BoxesTyped
  <1>2. notify \in Frame /\ facts \in Frame /\ notify.id = m.id /\ facts.id = m.id
    BY <1>1 DEF Frame
  <1> HIDE DEF notify, facts
  <1> DEFINE first == IF h \in Recipients(m) THEN <<notify>> ELSE <<>>
             then == IF m.monitor /\ h = from THEN <<facts>> ELSE <<>>
  <1>3. FramesFor(h, from, m) = first \o then
    BY DEF FramesFor, notify, facts
  <1>4. /\ first \in Seq(Frame) /\ Len(first) \in Nat
        /\ \A i \in 1..Len(first) : first[i].id = m.id
    BY <1>2
  <1>5. /\ then \in Seq(Frame) /\ Len(then) \in Nat
        /\ \A i \in 1..Len(then) : then[i].id = m.id
    BY <1>2
  <1>6. h \in Recipients(m) => Len(first) = 1 /\ first[1] = notify
    BY <1>2
  <1> HIDE DEF first, then
  <1>7. /\ first \o then \in Seq(Frame)
        /\ Len(first \o then) = Len(first) + Len(then)
        /\ \A i \in 1..Len(first) + Len(then) :
             (first \o then)[i] = IF i <= Len(first) THEN first[i] ELSE then[i - Len(first)]
    BY <1>4, <1>5
  <1>8. \A i \in 1..Len(first) + Len(then) : (first \o then)[i].id = m.id
    <2> SUFFICES ASSUME NEW i \in 1..Len(first) + Len(then)
                 PROVE  (first \o then)[i].id = m.id
      OBVIOUS
    <2>1. CASE i <= Len(first)
      BY <1>4, <1>7, <2>1
    <2>2. CASE i > Len(first)
      <3>1. i - Len(first) \in 1..Len(then)
        BY <1>4, <1>5, <2>2
      <3>2. (first \o then)[i] = then[i - Len(first)]
        BY <1>4, <1>5, <1>7, <2>2
      <3> QED
        BY <1>5, <3>1, <3>2
    <2> QED
      BY <1>4, <1>5, <2>1, <2>2
  <1>9. h \in Recipients(m) => /\ 1 \in 1..Len(first) + Len(then)
                               /\ (first \o then)[1] = notify
    <2> SUFFICES ASSUME h \in Recipients(m)
                 PROVE  1 \in 1..Len(first) + Len(then) /\ (first \o then)[1] = notify
      OBVIOUS
    <2>1. Len(first) = 1 /\ first[1] = notify
      BY <1>6
    <2>2. 1 \in 1..Len(first) + Len(then) /\ 1 <= Len(first)
      BY <1>5, <2>1
    <2> QED
      BY <1>7, <2>1, <2>2
  <1> QED
    BY <1>3, <1>7, <1>8, <1>9 DEF notify

LEMMA PushStep ==
  ASSUME TypeOK, [Next]_vars, NEW c \in DOMAIN conns \cap DOMAIN conns'
  PROVE  LET fresh == DOMAIN envelopes' \ DOMAIN envelopes
             old == Len(conns[c].queue)
             new == Len(conns'[c].queue)
         IN  /\ \A i \in old + 1 .. new : conns'[c].queue[i].id \in fresh
             /\ \A id \in fresh : conns[c].handle \in Recipients(envelopes'[id]) =>
                  \E i \in old + 1 .. new :
                    conns'[c].queue[i] = [op |-> "notify", id |-> id]
  <1> DEFINE q == conns[c].queue
  <1>0. conns[c] \in Conn /\ q \in Seq(Frame)
    <2>1. IsTable(conns, Conns, Conn)
      BY DEF TypeOK
    <2>2. conns[c] \in Conn
      BY <2>1 DEF IsTable
    <2> QED
      BY <2>2 DEF Conn
  <1>1. CASE ~Delivers
    <2>1. conns'[c] = conns[c] /\ DOMAIN envelopes' \ DOMAIN envelopes = {}
      BY <1>1, OnlyDeliveriesPush, OnlyDeliveriesStore
    <2>2. Len(q) \in Nat
      BY <1>0
    <2> HIDE DEF q
    <2>3. \A i \in Len(q) + 1 .. Len(q) : FALSE
      BY <2>2
    <2> QED
      BY <2>1, <2>3 DEF q
  <1>2. CASE Delivers
    <2>1. PICK s \in Requests, m \in Messages : SendAccepted(s, m)
      BY <1>2 DEF Delivers
    <2> DEFINE from == pending[s].handle
               more == FramesFor(conns[c].handle, from, m)
    <2>2. Delivery(from, m)
      BY <2>1, DeliveryFacts
    <2>3. DOMAIN envelopes' \ DOMAIN envelopes = {m.id}
      BY <2>2 DEF Delivery
    <2>4. Recipients(envelopes'[m.id]) = Recipients(m)
      BY <2>2 DEF Delivery, Stamped, Recipients
    <2>5. conns'[c].queue = q \o more
      <3>1. conns'[c] = [conns[c] EXCEPT !.queue = q \o more]
        BY <2>1 DEF SendAccepted
      <3> HIDE DEF q, more
      <3> QED
        BY <3>1, <1>0 DEF Conn
    <2>6. /\ more \in Seq(Frame)
          /\ \A i \in 1..Len(more) : more[i].id = m.id
          /\ conns[c].handle \in Recipients(m) =>
               1 \in 1..Len(more) /\ more[1] = [op |-> "notify", id |-> m.id]
      BY FramesForFacts
    <2> HIDE DEF q, more, from
    <2>7. /\ Len(q) \in Nat /\ Len(more) \in Nat
          /\ Len(q \o more) = Len(q) + Len(more)
          /\ \A i \in 1..Len(more) : (q \o more)[Len(q) + i] = more[i]
      BY <1>0, <2>6
    <2>8. \A i \in Len(q) + 1 .. Len(q) + Len(more) : (q \o more)[i].id = m.id
      <3> SUFFICES ASSUME NEW i \in Len(q) + 1 .. Len(q) + Len(more)
                   PROVE  (q \o more)[i].id = m.id
        OBVIOUS
      <3>1. i - Len(q) \in 1..Len(more) /\ i = Len(q) + (i - Len(q))
        BY <2>7
      <3> QED
        BY <2>6, <2>7, <3>1
    <2>9. conns[c].handle \in Recipients(m) =>
            \E i \in Len(q) + 1 .. Len(q) + Len(more) :
              (q \o more)[i] = [op |-> "notify", id |-> m.id]
      <3>1. 1 \in 1..Len(more) => Len(q) + 1 \in Len(q) + 1 .. Len(q) + Len(more)
        BY <2>7
      <3> QED
        BY <2>6, <2>7, <3>1
    <2> QED
      BY <2>3, <2>4, <2>5, <2>7, <2>8, <2>9 DEF q
  <1> QED
    BY <1>1, <1>2

\* A frame is queued in the step that first stores its envelope and in no other, and
\* then on every open connection of every recipient (accept pushes after the commit).
THEOREM PushesHold == Spec => PushOnFirstStore
  <1>1. TypeOK /\ [Next]_vars =>
          [\A c \in DOMAIN conns \cap DOMAIN conns' :
             LET fresh == DOMAIN envelopes' \ DOMAIN envelopes
                 old == Len(conns[c].queue)
                 new == Len(conns'[c].queue)
             IN  /\ \A i \in old + 1 .. new : conns'[c].queue[i].id \in fresh
                 /\ \A id \in fresh : conns[c].handle \in Recipients(envelopes'[id]) =>
                      \E i \in old + 1 .. new :
                        conns'[c].queue[i] = [op |-> "notify", id |-> id]]_vars
    BY PushStep
  <1> QED
    BY <1>1, TypeCorrect, PTL DEF Spec, PushOnFirstStore

-----------------------------------------------------------------------------
(* 4. The operator implements the mailbox service                          *)
-----------------------------------------------------------------------------
\* The refinement mapping, by name

Shown(e) == [from |-> e.from, to |-> Recipients(e)]
Stored == [id \in DOMAIN envelopes |-> Shown(envelopes[id])]
Inbox == [b \in DOMAIN mailbox |-> mailbox[b].read]
Told == IF reply.route = "send"
          THEN [status |-> reply.status, ids |-> reply.ids, to |-> reply.to]
          ELSE [status |-> 0, ids |-> {}, to |-> {}]

\* What is not a send is told nothing.
LEMMA Silent ==
  ASSUME reply' = NoReply
  PROVE  Told' = Mail!Silence
  BY DEF NoReply, Told, Mail!Silence

LEMMA ToldSend ==
  ASSUME NEW status, reply' = Answer("send", status)
  PROVE  Told' = [Mail!Silence EXCEPT !.status = status]
  BY DEF Answer, NoReply, Told, Mail!Silence

\* A step that keeps the mail and is silent is Other; one that answers an error is Refuse.
LEMMA ShowsOther ==
  ASSUME reply' = NoReply, DOMAIN agents' = DOMAIN agents, UNCHANGED <<envelopes, mailbox>>
  PROVE  Mail!Next
  BY Silent DEF Mail!Next, Mail!Other, Told

LEMMA ShowsRefusal ==
  ASSUME NEW status \in {400, 404, 409}, reply' = Answer("send", status),
         UNCHANGED <<agents, envelopes, mailbox>>
  PROVE  Mail!Next
  BY ToldSend DEF Mail!Next, Mail!Refuse, Mail!Refusals, Told

\* Marking a set of entries read is Read.
LEMMA ShowsRead ==
  ASSUME TypeOK, NEW h \in Handles, NEW ids \in SUBSET Ids, mailbox' = MarkedRead(h, ids),
         Told' = Mail!Silence, UNCHANGED <<agents, envelopes>>
  PROVE  Mail!Next
  <1>1. DOMAIN mailbox' = DOMAIN mailbox
    BY DEF MarkedRead
  <1>2. ASSUME NEW b \in DOMAIN mailbox
        PROVE  mailbox'[b].read = (mailbox[b].read \/ (b[1] = h /\ b[2] \in ids))
    <2>1. mailbox[b] \in Entry
      BY DEF TypeOK, IsTable
    <2>2. mailbox'[b] = IF b[1] = h /\ b[2] \in ids
                          THEN [mailbox[b] EXCEPT !.read = TRUE] ELSE mailbox[b]
      BY DEF MarkedRead
    <2>3. CASE b[1] = h /\ b[2] \in ids
      BY <2>1, <2>2, <2>3 DEF Entry
    <2>4. CASE ~(b[1] = h /\ b[2] \in ids)
      BY <2>1, <2>2, <2>4 DEF Entry
    <2> QED
      BY <2>3, <2>4
  <1>3. Inbox' = [b \in DOMAIN mailbox |-> mailbox[b].read \/ (b[1] = h /\ b[2] \in ids)]
    BY <1>1, <1>2 DEF Inbox
  <1>4. Inbox' = [b \in DOMAIN Inbox |-> Inbox[b] \/ (b[1] = h /\ b[2] \in ids)]
    BY <1>3 DEF Inbox
  <1>5. Mail!Read(h, ids)
    BY <1>4 DEF Mail!Read, Inbox, Told
  <1> QED
    BY <1>5 DEF Mail!Next

-----------------------------------------------------------------------------
\* Sends

LEMMA ShowsDelivery ==
  ASSUME TypeOK, ReferentialIntegrity, NEW s \in Requests, NEW m \in Messages, SendAccepted(s, m)
  PROVE  Mail!Next
  <1> DEFINE from == pending[s].handle
             to == Recipients(m)
             id == m.id
  <1>1. Delivery(from, m)
    BY DeliveryFacts
  <1>2. from \in Handles /\ to \in SUBSET Handles /\ id \in Ids
    BY ReadyHandle, BoxesTyped DEF TypeOK, SendAccepted, Admitted
  <1>3. Told' = Mail!Receipt(id, to)
    BY DEF SendAccepted, Accepted, Told, Mail!Receipt
  <1> HIDE DEF from
  <1>4. Shown(envelopes'[id]) = [from |-> from, to |-> to]
    BY <1>1 DEF Delivery, Stamped, Shown, Recipients
  <1>5. Stored' = [i \in DOMAIN Stored \cup {id} |->
                     IF i = id THEN [from |-> from, to |-> to] ELSE Stored[i]]
    <2>1. DOMAIN envelopes' = DOMAIN envelopes \cup {id}
      BY <1>1 DEF Delivery
    <2>2. \A i \in DOMAIN envelopes : envelopes'[i] = envelopes[i]
      BY <1>1 DEF Delivery
    <2>3. Stored' = [i \in DOMAIN envelopes' |-> Shown(envelopes'[i])]
      BY DEF Stored, Shown, Recipients
    <2>4. \A i \in DOMAIN envelopes' :
            Shown(envelopes'[i]) = IF i = id THEN [from |-> from, to |-> to] ELSE Shown(envelopes[i])
      BY <1>4, <2>1, <2>2
    <2> HIDE DEF id, to
    <2> QED
      BY <2>1, <2>3, <2>4 DEF Stored
  <1>6. Inbox' = [b \in DOMAIN Inbox \cup (to \X {id}) |->
                    IF b[2] = id THEN FALSE ELSE Inbox[b]]
    <2>1. Boxes(id, m) = to \X {id}
      BY DEF Boxes
    <2>2. DOMAIN mailbox' = DOMAIN mailbox \cup (to \X {id})
      BY <1>1, <2>1 DEF Delivery
    <2>3. \A b \in DOMAIN mailbox : b[2] # id /\ b \notin to \X {id}
      BY <1>1 DEF Delivery, ReferentialIntegrity
    <2>4. ASSUME NEW b \in DOMAIN mailbox'
          PROVE  mailbox'[b].read = IF b[2] = id THEN FALSE ELSE mailbox[b].read
      <3>1. CASE b \in to \X {id}
        <4>1. mailbox'[b] = [kind |-> Kind(b[1], m), read |-> FALSE] /\ b[2] = id
          BY <1>1, <2>1, <3>1 DEF Delivery
        <4> QED
          BY <4>1
      <3>2. CASE b \notin to \X {id}
        <4>1. b \in DOMAIN mailbox /\ b[2] # id
          BY <2>2, <2>3, <2>4, <3>2
        <4>2. mailbox'[b] = mailbox[b]
          BY <1>1, <2>1, <3>2, <4>1 DEF Delivery
        <4> QED
          BY <4>1, <4>2
      <3> QED
        BY <3>1, <3>2
    <2> QED
      BY <2>2, <2>3, <2>4 DEF Inbox
  <1>7. id \notin DOMAIN Stored /\ {from} \cup to \subseteq DOMAIN agents /\ agents' = agents
    BY <1>1 DEF Delivery, Stored
  <1>8. Mail!Deliver(id, from, to)
    BY <1>3, <1>5, <1>6, <1>7 DEF Mail!Deliver, Stored, Inbox, Told, Shown
  <1> QED
    BY <1>2, <1>8 DEF Mail!Next

LEMMA ShowsSend ==
  ASSUME TypeOK, ReferentialIntegrity, NEW s \in Requests, Send(s)
  PROVE  Mail!Next
  <1>1. PICK m \in Messages : \/ SendRefused(s, m) \/ SendConflict(s, m)
                              \/ SendReplayed(s, m) \/ SendBadFile(s, m)
                              \/ SendAccepted(s, m)
    BY DEF Send
  <1>2. CASE SendRefused(s, m)
    BY <1>2, ShowsRefusal DEF SendRefused, tables
  <1>3. CASE SendConflict(s, m)
    BY <1>3, ShowsRefusal DEF SendConflict, tables
  <1>4. CASE SendBadFile(s, m)
    BY <1>4, ShowsRefusal DEF SendBadFile, tables
  <1>5. CASE SendReplayed(s, m)
    <2>1. m.id \in DOMAIN envelopes /\ SameBody(envelopes[m.id], m)
          /\ UNCHANGED <<agents, envelopes, mailbox>> /\ reply' = Accepted(m)
      BY <1>5 DEF SendReplayed, tables
    <2>2. Recipients(m) = Recipients(envelopes[m.id])
      BY <2>1 DEF SameBody, Recipients
    <2>3. Told' = Mail!Receipt(m.id, Stored[m.id].to)
      BY <2>1, <2>2 DEF Accepted, Told, Mail!Receipt, Stored, Shown
    <2>4. m.id \in Ids
      BY BoxesTyped
    <2>5. Mail!Repeat(m.id)
      BY <2>1, <2>3 DEF Mail!Repeat, Told, Stored, Shown
    <2> QED
      BY <2>4, <2>5 DEF Mail!Next
  <1>6. CASE SendAccepted(s, m)
    BY <1>6, ShowsDelivery
  <1> QED
    BY <1>1, <1>2, <1>3, <1>4, <1>5, <1>6

-----------------------------------------------------------------------------
\* Arrivals and departures

LEMMA ShowsJoin ==
  ASSUME NEW h \in Handles, NEW policy, NEW card, AdminCreate(h, policy, card), reply' = NoReply
  PROVE  Mail!Next
  <1>1. h \notin DOMAIN agents /\ DOMAIN agents' = DOMAIN agents \cup {h}
    BY DEF AdminCreate, Insert
  <1>2. UNCHANGED <<envelopes, mailbox>>
    BY DEF AdminCreate
  <1>3. Mail!Join(h)
    BY <1>1, <1>2, Silent DEF Mail!Join, Told
  <1> QED
    BY <1>3 DEF Mail!Next

LEMMA ShowsLeave ==
  ASSUME TypeOK, ReferentialIntegrity, NEW h \in Handles, AdminRemove(h), reply' = NoReply
  PROVE  Mail!Next
  <1> DEFINE sent == SentBy(h)
             kept == {id \in DOMAIN Stored : Stored[id].from # h}
  <1>1. Removal(h, sent)
    BY RemovalFacts
  <1>2. h \in DOMAIN agents
    BY DEF AdminRemove
  <1>3. kept = DOMAIN envelopes \ sent
    BY DEF Stored, Shown, SentBy
  <1>4. Stored' = Mail!Keep(Stored, kept)
    <2>1. DOMAIN envelopes' = DOMAIN Stored \cap kept
      BY <1>1, <1>3 DEF Removal, Stored
    <2>2. \A id \in DOMAIN envelopes' : id \in DOMAIN envelopes /\ envelopes'[id] = envelopes[id]
      BY <1>1 DEF Removal
    <2>3. Stored' = [id \in DOMAIN envelopes' |-> Shown(envelopes'[id])]
      BY DEF Stored, Shown, Recipients
    <2>4. \A id \in DOMAIN envelopes' : Shown(envelopes'[id]) = Stored[id]
      BY <2>2 DEF Stored
    <2> HIDE DEF kept
    <2> QED
      BY <2>1, <2>3, <2>4 DEF Mail!Keep
  <1> HIDE DEF sent
  <1>5. Inbox' = Mail!Keep(Inbox, (DOMAIN agents \ {h}) \X kept)
    <2>1. ASSUME NEW b \in DOMAIN mailbox
          PROVE  b \in (DOMAIN agents \ {h}) \X kept <=> b[1] # h /\ b[2] \notin sent
      <3>1. b \in Handles \X Ids
        BY DEF TypeOK, IsTable
      <3>2. b[1] \in DOMAIN agents /\ b[2] \in DOMAIN envelopes
        BY DEF ReferentialIntegrity
      <3> HIDE DEF kept
      <3> QED
        BY <1>3, <3>1, <3>2
    <2>2. DOMAIN mailbox' = DOMAIN mailbox \cap ((DOMAIN agents \ {h}) \X kept)
      BY <1>1, <2>1 DEF Removal
    <2>3. \A b \in DOMAIN mailbox' : mailbox'[b] = mailbox[b]
      BY <1>1 DEF Removal
    <2> HIDE DEF kept
    <2> QED
      BY <2>2, <2>3 DEF Inbox, Mail!Keep
  <1>6. DOMAIN agents' = DOMAIN agents \ {h}
    BY <1>1 DEF Removal
  <1>7. Mail!Leave(h)
    BY <1>2, <1>4, <1>5, <1>6, Silent DEF Mail!Leave, Stored, Inbox, Told, Shown
  <1> QED
    BY <1>7 DEF Mail!Next

-----------------------------------------------------------------------------
\* Everything else

LEMMA ShowsDirect ==
  ASSUME TypeOK, NEW h \in Handles, Direct(h), reply' = NoReply
  PROVE  Mail!Next
  <1>1. ASSUME NEW ids \in SUBSET Ids, FetchMany(h, ids)
        PROVE  Mail!Next
    <2>1. Entitled(h, ids) \cap DOMAIN envelopes \in SUBSET Ids
      BY DEF Entitled
    <2> QED
      BY <1>1, <2>1, ShowsRead, Silent DEF FetchMany
  <1>2. ASSUME NEW entry, Disallow(h, entry)
        PROVE  Mail!Next
    BY <1>2, ShowsOther DEF Disallow
  <1>3. ASSUME NEW other, Unblock(h, other)
        PROVE  Mail!Next
    BY <1>3, ShowsOther DEF Unblock
  <1> QED
    BY <1>1, <1>2, <1>3 DEF Direct

LEMMA ShowsAdminister ==
  ASSUME TypeOK, ReferentialIntegrity, NEW h \in Handles, Administer(h), reply' = NoReply
  PROVE  Mail!Next
  <1>1. CASE AdminRotate(h)
    BY <1>1, ShowsOther DEF AdminRotate
  <1>2. CASE AdminRemove(h)
    BY <1>2, ShowsLeave
  <1> QED
    BY <1>1, <1>2, ShowsJoin DEF Administer

\* A request with a body that is no send and no read keeps the mail and the agents.
LEMMA ShowsSubmit ==
  ASSUME TypeOK, NEW s \in Requests, Submit(s), reply' = NoReply
  PROVE  Mail!Next
  <1>1. Keeps \/ Trusts \/ Edits \/ Adds
    BY SubmitEffect
  <1> QED
    BY <1>1, ShowsOther DEF Keeps, Trusts, Edits, Adds, tables

LEMMA ShowsStep ==
  ASSUME TypeOK, ReferentialIntegrity, [Next]_vars
  PROVE  Mail!Next \/ UNCHANGED <<DOMAIN agents, Stored, Inbox, Told>>
  <1>1. CASE UNCHANGED vars
    BY <1>1 DEF vars, tables, Stored, Inbox, Told, Shown, Recipients
  <1>2. ASSUME NEW s \in Requests, NEW ids \in SUBSET Ids, MarkRead(s, ids)
        PROVE  Mail!Next
    <2>1. pending[s].handle \in Handles
      BY <1>2, ReadyHandle DEF TypeOK, MarkRead
    <2>2. Told' = Mail!Silence
      BY <1>2 DEF MarkRead, Answer, NoReply, Told, Mail!Silence
    <2> QED
      BY <1>2, <2>1, <2>2, ShowsRead DEF MarkRead
  <1>3. ASSUME Transport, reply' = NoReply
        PROVE  Mail!Next
    BY <1>3, ShowsOther DEF Transport, Connect, Disconnect, Restart, tables
  <1> QED
    BY <1>1, <1>2, <1>3, ShowsSend, ShowsDirect, ShowsAdminister, ShowsSubmit DEF Next

\* A 202 means delivered to everyone it names, once; an error means nothing happened;
\* no mail is lost (EnvelopeService, MailboxService, the schema's cascades).
THEOREM MailIsImplemented == Spec => ImplementsMailboxService
  <1>1. Init => Mail!Init
    BY DEF Init, Empty, NoReply, Mail!Init, Mail!Nothing, Mail!Silence
  <1>2. TypeOK /\ ReferentialIntegrity /\ [Next]_vars => [Mail!Next]_Mail!vars
    BY ShowsStep DEF Mail!vars, Stored, Inbox, Told, Shown
  <1> QED
    BY <1>1, <1>2, TypeCorrect, ReferencesHold, PTL DEF Spec, ImplementsMailboxService, Mail!Spec

=============================================================================
