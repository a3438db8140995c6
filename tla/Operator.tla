------------------------------ MODULE Operator ------------------------------
(***************************************************************************)
(* The in-tree operator: its SQLite tables, the requests whose body it is   *)
(* still reading, the WebSocket registry and the upload directory           *)
(* (src/src/operator).                                                      *)
(*                                                                          *)
(* Node runs one handler at a time.  A handler gives up the thread at one   *)
(* place only, `await parseJsonBody` (or readBody), so a route with a body  *)
(* is two actions: Arrive authenticates the bearer and remembers the        *)
(* handle; the route's own action runs when the body is there, against      *)
(* whatever the tables have become.  Everything after that await, a         *)
(* withTransaction block included, is one action.                           *)
(*                                                                          *)
(* A multi-statement handler that opens no transaction (a batch of          *)
(* allowlist entries, of read marks) can be cut short by a crash.  Its      *)
(* action ranges over every input set, so a batch cut short is the action   *)
(* for the smaller set followed by Restart; no further action is needed.    *)
(***************************************************************************)
EXTENDS Policy, Sequences, Functions

CONSTANTS
  Ids,          \* client-minted envelope ids
  FileIds,      \* operator-minted file ids
  Bodies,       \* all a message says besides addresses and files: text, date_ms ...
  Messages,     \* the messages clients submit
  Cards,        \* the profile fields of an agent, as one value
  Postures,     \* the inbound policies admins set
  Grants,       \* the allowlist entries agents add and remove
  BodyRoutes,   \* the routes with a body that this instance exercises
  Requests,     \* request slots: HTTP requests whose body is being read
  Conns,        \* WebSocket connections
  MaxMints,     \* bound: bearer tokens ever minted
  Pending       \* files.attached_to_envelope_id IS NULL

Routes == {"send", "mark", "allow", "block", "profile", "upload", "patch"}

\* What a sender submits.  `to` and `cc` are sets: the order and the repeats a
\* client writes matter only to the retry comparison, and `body` stands for them.
\* `parts` lists the file_id parts in order.
Message == [id: Ids, to: (SUBSET Handles) \ {{}}, cc: SUBSET Handles,
            parts: Seq(FileIds), body: Bodies, monitor: BOOLEAN]

ASSUME OperatorAssumption ==
  /\ Messages \subseteq Message
  /\ Grants \subseteq Entries
  /\ Postures \subseteq Policies
  /\ BodyRoutes \subseteq Routes
  /\ MaxMints \in Nat
  /\ Pending \notin Ids

VARIABLES
  agents,     \* table: handle -> [bearer, policy, card, born]
  allowlist,  \* table: set of <<owner, entry>>
  blocks,     \* table: set of <<blocker, blocked>>
  envelopes,  \* table: id -> [from, to, cc, parts, body, monitor, created]
  mailbox,    \* table: <<handle, id>> -> [kind, read]
  files,      \* table: file id -> [owner, attached]
  blobs,      \* file ids whose bytes are in filesDir
  minted,     \* bearer tokens minted so far; doubles as a coarse Date.now()
  pending,    \* request slot -> [route, handle]: handle resolved, body awaited
  conns,      \* open connection -> [handle, queue of frames]
  reply       \* the response of the last step, if it was to a send or a mark-read

tables == <<agents, allowlist, blocks, envelopes, mailbox, files>>
vars == <<tables, blobs, minted, pending, conns, reply>>

-----------------------------------------------------------------------------
\* Rows, messages, frames and responses

Empty == [k \in {} |-> k]
IsTable(t, Keys, Rows) == DOMAIN t \subseteq Keys /\ t \in [DOMAIN t -> Rows]

Agent == [bearer: 1..MaxMints, policy: Policies, card: Cards, born: 1..MaxMints]

Envelope == [from: Handles, to: (SUBSET Handles) \ {{}}, cc: SUBSET Handles,
             parts: Seq(FileIds), body: Bodies, monitor: BOOLEAN,
             created: 0..MaxMints]

Entry == [kind: {"to", "cc"}, read: BOOLEAN]
File == [owner: Handles, attached: Ids \cup {Pending}]
Request == [route: BodyRoutes, handle: Handles]

\* monitor.fact frames go out one per recipient, back to back: one frame here.
Frame == [op: {"notify", "facts"}, id: Ids]
Conn == [handle: Handles, queue: Seq(Frame)]

Recipients(m) == m.to \cup m.cc
\* Mutant: nobody in `cc` gets a copy.
BoxesOfTo(id, m) == {<<r, id>> : r \in m.to}

Boxes(id, m) == {<<r, id>> : r \in Recipients(m)}

\* A recipient who is both `to` and `cc` is `to`.
Kind(r, m) == IF r \in m.to THEN "to" ELSE "cc"

\* Mutant: the retry comparison forgets the addresses.
SameContent(e, m) == <<e.parts, e.body, e.monitor>> = <<m.parts, m.body, m.monitor>>

\* buildBodyJson: the canonical body a retry is compared with, without the stamps.
SameBody(e, m) ==
  <<e.to, e.cc, e.parts, e.body, e.monitor>> =
    <<m.to, m.cc, m.parts, m.body, m.monitor>>

Insert(t, k, row) == [x \in DOMAIN t \cup {k} |-> IF x = k THEN row ELSE t[x]]
Without(t, K) == Restrict(t, DOMAIN t \ K)

NoReply == [route |-> "none", status |-> 0, ids |-> {}, to |-> {}, created |-> 0]
Answer(route, status) == [NoReply EXCEPT !.route = route, !.status = status]

-----------------------------------------------------------------------------
Init ==
  /\ agents = Empty /\ allowlist = {} /\ blocks = {}
  /\ envelopes = Empty /\ mailbox = Empty /\ files = Empty
  /\ blobs = {}
  /\ minted = 0
  /\ pending = Empty
  /\ conns = Empty
  /\ reply = NoReply

\* requireAgent: the handle a presented bearer stands for at this moment.
Authenticates(token, h) == h \in DOMAIN agents /\ agents[h].bearer = token

-----------------------------------------------------------------------------
\* Requests with a body: the arrival

Arrive(s, route, token) ==
  /\ s \notin DOMAIN pending
  /\ \E h \in Handles : /\ Authenticates(token, h)
                        /\ pending' = Insert(pending, s, [route |-> route, handle |-> h])
  /\ UNCHANGED <<tables, blobs, minted, conns>>

\* PATCH /_admin/agents/:handle looks the agent up before it reads the body.
ArriveAdminPatch(s, h) ==
  /\ s \notin DOMAIN pending
  /\ h \in DOMAIN agents
  /\ pending' = Insert(pending, s, [route |-> "patch", handle |-> h])
  /\ UNCHANGED <<tables, blobs, minted, conns>>

\* The body of request s has arrived and its handler runs to its end.
Ready(s, route) == s \in DOMAIN pending /\ pending[s].route = route
Finish(s) == pending' = Without(pending, {s})

\* The client hangs up before its body is complete, or sends a body that fails
\* validation: the handler throws with nothing written.
Abandon(s) ==
  /\ s \in DOMAIN pending /\ Finish(s)
  /\ UNCHANGED <<tables, blobs, minted, conns>>

-----------------------------------------------------------------------------
\* POST /messages: EnvelopeService.accept.  The checks come in this order:
\* reachability of every recipient, then the id, then the files.

Admitted(s, m) ==
  /\ Ready(s, "send")
  /\ Admits(agents, allowlist, blocks, pending[s].handle, Recipients(m))

\* The frames one fresh envelope queues on an open connection of handle h:
\* a notify if h is a recipient, then the stored facts if h is a monitoring sender.
FramesFor(h, from, m) ==
  (IF h \in Recipients(m) THEN <<[op |-> "notify", id |-> m.id]>> ELSE <<>>)
    \o (IF m.monitor /\ h = from THEN <<[op |-> "facts", id |-> m.id]>> ELSE <<>>)

\* An unknown, unwilling or blocking recipient: 404 for the whole send.
SendRefused(s, m) ==
  /\ Ready(s, "send") /\ ~Admitted(s, m)
  /\ Finish(s)
  /\ reply' = Answer("send", 404)
  /\ UNCHANGED <<tables, blobs, minted, conns>>

\* ID_COLLISION (another sender's id) or RETRY_MISMATCH (another body).
SendConflict(s, m) ==
  /\ Admitted(s, m)
  /\ m.id \in DOMAIN envelopes
  /\ \/ envelopes[m.id].from # pending[s].handle
     \/ ~SameBody(envelopes[m.id], m)
  /\ Finish(s)
  /\ reply' = Answer("send", 409)
  /\ UNCHANGED <<tables, blobs, minted, conns>>

Accepted(m) == [route |-> "send", status |-> 202, ids |-> {m.id},
                to |-> Recipients(m), created |-> minted]

\* Mutant: a retry pushes the envelope again.
SendReplayedPushing(s, m) ==
  LET from == pending[s].handle IN
  /\ Admitted(s, m)
  /\ m.id \in DOMAIN envelopes
  /\ envelopes[m.id].from = from
  /\ SameBody(envelopes[m.id], m)
  /\ Finish(s)
  /\ conns' = [c \in DOMAIN conns |->
       [conns[c] EXCEPT !.queue = @ \o FramesFor(conns[c].handle, from, m)]]
  /\ reply' = Accepted(m)
  /\ UNCHANGED <<tables, blobs, minted>>

\* A retry of a stored envelope: the 202 again, stamped with the clock of now.
SendReplayed(s, m) ==
  /\ Admitted(s, m)
  /\ m.id \in DOMAIN envelopes
  /\ envelopes[m.id].from = pending[s].handle
  /\ SameBody(envelopes[m.id], m)
  /\ Finish(s)
  /\ reply' = Accepted(m)
  /\ UNCHANGED <<tables, blobs, minted, conns>>

\* Mutant: any file of the sender will do, bound or not.
ClaimableOwned(from, parts) ==
  \A f \in Range(parts) : f \in DOMAIN files /\ files[f].owner = from

\* claim binds one file_id after the other and wants each one still unbound, so
\* a file named twice fails on its second claim.
Claimable(from, parts) ==
  /\ IsInjective(parts)
  /\ \A f \in Range(parts) : /\ f \in DOMAIN files
                             /\ files[f] = [owner |-> from, attached |-> Pending]

\* The envelope row, and the mailbox with an unread entry for every recipient.
Stamped(from, m) ==
  [from |-> from, to |-> m.to, cc |-> m.cc, parts |-> m.parts,
   body |-> m.body, monitor |-> m.monitor, created |-> minted]

FannedOut(m) ==
  [b \in DOMAIN mailbox \cup Boxes(m.id, m) |->
     IF b \in Boxes(m.id, m) THEN [kind |-> Kind(b[1], m), read |-> FALSE]
                             ELSE mailbox[b]]

\* Mutant: the refusal of a file does not roll the envelope back.
SendBadFileKept(s, m) ==
  /\ Admitted(s, m)
  /\ m.id \notin DOMAIN envelopes
  /\ ~Claimable(pending[s].handle, m.parts)
  /\ Finish(s)
  /\ envelopes' = Insert(envelopes, m.id, Stamped(pending[s].handle, m))
  /\ mailbox' = FannedOut(m)
  /\ reply' = Answer("send", 400)
  /\ UNCHANGED <<agents, allowlist, blocks, files, blobs, minted, conns>>

\* INVALID_FILE: the transaction, envelope row and entries included, rolls back.
SendBadFile(s, m) ==
  /\ Admitted(s, m)
  /\ m.id \notin DOMAIN envelopes
  /\ ~Claimable(pending[s].handle, m.parts)
  /\ Finish(s)
  /\ reply' = Answer("send", 400)
  /\ UNCHANGED <<tables, blobs, minted, conns>>

SendAccepted(s, m) ==
  LET from == pending[s].handle IN
  /\ Admitted(s, m)
  /\ m.id \notin DOMAIN envelopes
  /\ Claimable(from, m.parts)
  /\ Finish(s)
  /\ envelopes' = Insert(envelopes, m.id, Stamped(from, m))
  /\ mailbox' = FannedOut(m)
  /\ files' = [f \in DOMAIN files |->
       IF f \in Range(m.parts) THEN [files[f] EXCEPT !.attached = m.id] ELSE files[f]]
  /\ conns' = [c \in DOMAIN conns |->
       [conns[c] EXCEPT !.queue = @ \o FramesFor(conns[c].handle, from, m)]]
  /\ reply' = Accepted(m)
  /\ UNCHANGED <<agents, allowlist, blocks, blobs, minted>>

-----------------------------------------------------------------------------
\* Reading: POST /mailbox/read, GET /messages/:id, GET /messages?ids=

Entitled(h, ids) == {id \in ids : <<h, id>> \in DOMAIN mailbox}

\* Mutant: SET read = (id IN ids) for the whole box.
MarkedReadExactly(h, ids) ==
  [b \in DOMAIN mailbox |->
     IF b[1] = h THEN [mailbox[b] EXCEPT !.read = b[2] \in ids] ELSE mailbox[b]]

\* The UPDATE does not ask whether the entry is unread already.
MarkedRead(h, ids) ==
  [b \in DOMAIN mailbox |->
     IF b[1] = h /\ b[2] \in ids THEN [mailbox[b] EXCEPT !.read = TRUE] ELSE mailbox[b]]

MarkRead(s, ids) ==
  /\ Ready(s, "mark") /\ Finish(s)
  /\ mailbox' = MarkedRead(pending[s].handle, ids)
  /\ reply' = [Answer("mark", 200) EXCEPT !.ids = Entitled(pending[s].handle, ids)]
  /\ UNCHANGED <<agents, allowlist, blocks, envelopes, files, blobs, minted, conns>>

\* fetchMany omits what the caller has no entry for; fetchOne is its one-id case.
FetchMany(h, ids) ==
  LET found == Entitled(h, ids) \cap DOMAIN envelopes IN
  /\ h \in DOMAIN agents
  /\ mailbox' = MarkedRead(h, found)
  /\ UNCHANGED <<agents, allowlist, blocks, envelopes, files, blobs, minted, pending, conns>>

\* Mutant: a file not yet on an envelope is anybody's.
callerCanFetchFileV1(h, f) ==
  \/ files[f].owner = h
  \/ files[f].attached = Pending
  \/ <<h, files[f].attached>> \in DOMAIN mailbox

\* GET /files/:id changes nothing; who it serves is its own question.
callerCanFetchFile(h, f) ==
  \/ files[f].owner = h
  \/ /\ files[f].attached # Pending
     /\ \/ <<h, files[f].attached>> \in DOMAIN mailbox
        \/ /\ files[f].attached \in DOMAIN envelopes
           /\ envelopes[files[f].attached].from = h

Serves(h, f) == f \in DOMAIN files /\ callerCanFetchFile(h, f) /\ f \in blobs

-----------------------------------------------------------------------------
\* Self-owned trust: allowlist and blocks

\* Mutant: the foreign keys are not enforced.
AllowUnchecked(s, granted) ==
  /\ Ready(s, "allow") /\ Finish(s)
  /\ allowlist' = allowlist \cup ({pending[s].handle} \X granted)
  /\ UNCHANGED <<agents, blocks, envelopes, mailbox, files, blobs, minted, conns>>

\* Each row is its own statement; a foreign key fails when the caller is gone (500).
Allow(s, granted) ==
  LET me == pending[s].handle IN
  /\ Ready(s, "allow") /\ Finish(s)
  /\ \/ /\ me \in DOMAIN agents
        /\ allowlist' = allowlist \cup ({me} \X granted)
     \/ /\ me \notin DOMAIN agents
        /\ UNCHANGED allowlist
  /\ UNCHANGED <<agents, blocks, envelopes, mailbox, files, blobs, minted, conns>>

Disallow(h, entry) ==
  /\ h \in DOMAIN agents
  /\ allowlist' = allowlist \ {<<h, entry>>}
  /\ UNCHANGED <<agents, blocks, envelopes, mailbox, files, blobs, minted, pending, conns>>

\* Any other handle may be blocked, registered or not.
Block(s, other) ==
  LET me == pending[s].handle IN
  /\ Ready(s, "block") /\ Finish(s)
  /\ other # me
  /\ \/ /\ me \in DOMAIN agents
        /\ blocks' = blocks \cup {<<me, other>>}
     \/ /\ me \notin DOMAIN agents
        /\ UNCHANGED blocks
  /\ UNCHANGED <<agents, allowlist, envelopes, mailbox, files, blobs, minted, conns>>

Unblock(h, other) ==
  /\ h \in DOMAIN agents
  /\ blocks' = blocks \ {<<h, other>>}
  /\ UNCHANGED <<agents, allowlist, envelopes, mailbox, files, blobs, minted, pending, conns>>

-----------------------------------------------------------------------------
\* PATCH /agents/me and POST /files

UpdateProfile(s, card) ==
  LET me == pending[s].handle IN
  /\ Ready(s, "profile") /\ Finish(s)
  /\ \/ /\ me \in DOMAIN agents
        /\ agents' = [agents EXCEPT ![me].card = card]
     \/ /\ me \notin DOMAIN agents
        /\ UNCHANGED agents
  /\ UNCHANGED <<allowlist, blocks, envelopes, mailbox, files, blobs, minted, conns>>

\* The bytes go to disk first, then the row.  When the caller is gone the row's
\* foreign key fails (500) and the bytes stay behind.
Upload(s, f) ==
  LET me == pending[s].handle IN
  /\ Ready(s, "upload") /\ Finish(s)
  /\ f \notin blobs
  /\ blobs' = blobs \cup {f}
  /\ \/ /\ me \in DOMAIN agents
        /\ files' = Insert(files, f, [owner |-> me, attached |-> Pending])
     \/ /\ me \notin DOMAIN agents
        /\ UNCHANGED files
  /\ UNCHANGED <<agents, allowlist, blocks, envelopes, mailbox, minted, conns>>

\* Mutant: the row goes in first.
UploadCrashRowFirst(s, f) ==
  /\ Ready(s, "upload")
  /\ f \notin blobs
  /\ pending[s].handle \in DOMAIN agents
  /\ files' = Insert(files, f, [owner |-> pending[s].handle, attached |-> Pending])
  /\ pending' = Empty
  /\ conns' = Empty
  /\ UNCHANGED <<agents, allowlist, blocks, envelopes, mailbox, blobs, minted>>

\* The process dies between the two.
UploadCrash(s, f) ==
  /\ Ready(s, "upload")
  /\ f \notin blobs
  /\ blobs' = blobs \cup {f}
  /\ pending' = Empty
  /\ conns' = Empty
  /\ UNCHANGED <<tables, minted>>

-----------------------------------------------------------------------------
\* The admin surface

AdminCreate(h, policy, card) ==
  /\ minted < MaxMints
  /\ h \notin DOMAIN agents
  /\ minted' = minted + 1
  /\ agents' = Insert(agents, h, [bearer |-> minted + 1, policy |-> policy,
                                  card |-> card, born |-> minted + 1])
  /\ UNCHANGED <<allowlist, blocks, envelopes, mailbox, files, blobs, pending, conns>>

\* DELETE FROM agents, and what the schema's foreign keys do with the rows that
\* refer to the agent: CASCADE everywhere, SET NULL for files.attached.
SentByOrTo(h) ==   \* Mutant: an envelope goes with its recipients, too.
  {id \in DOMAIN envelopes : envelopes[id].from = h \/ h \in Recipients(envelopes[id])}
SentBy(h) == {id \in DOMAIN envelopes : envelopes[id].from = h}

AdminRemove(h) ==
  /\ h \in DOMAIN agents
  /\ agents' = Without(agents, {h})
  /\ allowlist' = {g \in allowlist : g[1] # h}
  /\ blocks' = {b \in blocks : b[1] # h}
  /\ envelopes' = Without(envelopes, SentBy(h))
  /\ mailbox' = Without(mailbox, {b \in DOMAIN mailbox : b[1] = h \/ b[2] \in SentBy(h)})
  /\ files' = [f \in {g \in DOMAIN files : files[g].owner # h} |->
       IF files[f].attached \in SentBy(h) THEN [files[f] EXCEPT !.attached = Pending]
                                          ELSE files[f]]
  /\ UNCHANGED <<blobs, minted, pending, conns>>

AdminRotate(h) ==
  /\ minted < MaxMints
  /\ h \in DOMAIN agents
  /\ minted' = minted + 1
  /\ agents' = [agents EXCEPT ![h].bearer = minted + 1]
  /\ UNCHANGED <<allowlist, blocks, envelopes, mailbox, files, blobs, pending, conns>>

\* Mutant: the row read before the await is written back whole.
AdminPatchUpsert(s, policy, card) ==
  LET h == pending[s].handle IN
  /\ Ready(s, "patch") /\ Finish(s)
  /\ agents' = IF h \in DOMAIN agents
                 THEN [agents EXCEPT ![h].policy = policy, ![h].card = card]
                 ELSE Insert(agents, h, [bearer |-> 1, policy |-> policy,
                                         card |-> card, born |-> 1])
  /\ UNCHANGED <<allowlist, blocks, envelopes, mailbox, files, blobs, minted, conns>>

\* Leaving a field out is setting it to what it is.  When the agent was removed
\* while the body was read both UPDATEs match no row, and the answer is a 200
\* with the row read before.
AdminPatch(s, policy, card) ==
  LET h == pending[s].handle IN
  /\ Ready(s, "patch") /\ Finish(s)
  /\ agents' = IF h \in DOMAIN agents
                 THEN [agents EXCEPT ![h].policy = policy, ![h].card = card]
                 ELSE agents
  /\ UNCHANGED <<allowlist, blocks, envelopes, mailbox, files, blobs, minted, conns>>

-----------------------------------------------------------------------------
\* GET /connect, and the end of a connection or of the process

Connect(c, token) ==
  /\ c \notin DOMAIN conns
  /\ \E h \in Handles : /\ Authenticates(token, h)
                        /\ conns' = Insert(conns, c, [handle |-> h, queue |-> <<>>])
  /\ UNCHANGED <<tables, blobs, minted, pending>>

Disconnect(c) ==
  /\ c \in DOMAIN conns
  /\ conns' = Without(conns, {c})
  /\ UNCHANGED <<tables, blobs, minted, pending>>

\* Shutdown or crash, then a start on the same database and files.
Restart ==
  /\ pending' = Empty
  /\ conns' = Empty
  /\ UNCHANGED <<tables, blobs, minted>>

-----------------------------------------------------------------------------
Send(s) ==
  \E m \in Messages :
    \/ SendRefused(s, m)
    \/ SendConflict(s, m)
    \/ SendReplayed(s, m)
    \/ SendBadFile(s, m)
    \/ SendAccepted(s, m)

\* What an agent does without a body.
Direct(h) ==
  \/ \E ids \in (SUBSET Ids) \ {{}} : FetchMany(h, ids)
  \/ \E entry \in Grants : Disallow(h, entry)
  \/ \E other \in Handles : Unblock(h, other)

Administer(h) ==
  \/ \E policy \in Postures, card \in Cards : AdminCreate(h, policy, card)
  \/ AdminRemove(h)
  \/ AdminRotate(h)

\* What an agent or the admin does in a request with a body.
Submit(s) ==
  \/ \E route \in BodyRoutes \ {"patch"}, token \in 1..minted : Arrive(s, route, token)
  \/ \E h \in Handles : "patch" \in BodyRoutes /\ ArriveAdminPatch(s, h)
  \/ Abandon(s)
  \/ \E granted \in (SUBSET Grants) \ {{}} : Allow(s, granted)
  \/ \E other \in Handles : Block(s, other)
  \/ \E card \in Cards : UpdateProfile(s, card)
  \/ \E f \in FileIds : Upload(s, f) \/ UploadCrash(s, f)
  \/ \E policy \in Postures, card \in Cards : AdminPatch(s, policy, card)

Transport ==
  \/ \E k \in Conns, token \in 1..minted : Connect(k, token)
  \/ \E k \in Conns : Disconnect(k)
  \/ Restart

Next ==
  \/ \E s \in Requests : Send(s)
  \/ \E s \in Requests, ids \in (SUBSET Ids) \ {{}} : MarkRead(s, ids)
  \/ /\ \/ \E h \in Handles : Direct(h) \/ Administer(h)
        \/ \E s \in Requests : Submit(s)
        \/ Transport
     /\ reply' = NoReply

Spec == Init /\ [][Next]_vars

-----------------------------------------------------------------------------
\* Invariants

\* The tables, requests and connections hold rows of the declared shapes.
TypeOK ==
  /\ IsTable(agents, Handles, Agent)
  /\ allowlist \subseteq Handles \X Entries
  /\ blocks \subseteq Handles \X Handles
  /\ IsTable(envelopes, Ids, Envelope)
  /\ IsTable(mailbox, Handles \X Ids, Entry)
  /\ IsTable(files, FileIds, File)
  /\ blobs \subseteq FileIds
  /\ minted \in 0..MaxMints
  /\ IsTable(pending, Requests, Request)
  /\ IsTable(conns, Conns, Conn)

\* Whatever was removed in between, no row of any table refers to an agent or an
\* envelope that is gone: removal takes every dependent row with it, and a
\* handler that resumes for a removed agent adds none (schema.ts foreign keys).
ReferentialIntegrity ==
  /\ \A g \in allowlist : g[1] \in DOMAIN agents
  /\ \A b \in blocks : b[1] \in DOMAIN agents
  /\ \A id \in DOMAIN envelopes : envelopes[id].from \in DOMAIN agents
  /\ \A b \in DOMAIN mailbox : b[1] \in DOMAIN agents /\ b[2] \in DOMAIN envelopes
  /\ \A f \in DOMAIN files : /\ files[f].owner \in DOMAIN agents
                             /\ files[f].attached \in DOMAIN envelopes \cup {Pending}

\* A file and the envelope that names it agree for as long as either lives: the
\* link a stored envelope carries leads to a file its sender uploaded and that is
\* bound to that very envelope, and a bound file is one its envelope names.
FilesBound ==
  /\ \A id \in DOMAIN envelopes : \A f \in Range(envelopes[id].parts) :
       /\ f \in DOMAIN files
       /\ files[f] = [owner |-> envelopes[id].from, attached |-> id]
  /\ \A f \in DOMAIN files : files[f].attached # Pending =>
       /\ files[f].attached \in DOMAIN envelopes
       /\ f \in Range(envelopes[files[f].attached].parts)

\* All or nothing: every recipient of a stored envelope holds its entry, unless
\* that recipient was removed and registered anew since the envelope was accepted.
FanOutComplete ==
  \A id \in DOMAIN envelopes : \A r \in Recipients(envelopes[id]) :
    \/ <<r, id>> \in DOMAIN mailbox
    \/ r \notin DOMAIN agents
    \/ agents[r].born > envelopes[id].created

\* Only recipients hold an entry, as `to` if they are among the `to`.
EntriesAreRecipients ==
  \A b \in DOMAIN mailbox :
    /\ b[1] \in Recipients(envelopes[b[2]])
    /\ (mailbox[b].kind = "to") <=> b[1] \in envelopes[b[2]].to

\* A file row is never without its bytes: GET /files/:id cannot lose a listed file,
\* wherever the process dies (files.ts writes the bytes before the row).
RowsHaveBytes == DOMAIN files \subseteq blobs

\* The operator serves a file to its uploader, to those who hold an entry of an
\* envelope that names it, and to nobody else (routes/files.ts callerCanFetchFile).
DownloadsFollowMail ==
  \A h \in DOMAIN agents, f \in FileIds :
    Serves(h, f) <=>
      \/ f \in DOMAIN files /\ files[f].owner = h
      \/ \E id \in DOMAIN envelopes : /\ f \in Range(envelopes[id].parts)
                                     /\ <<h, id>> \in DOMAIN mailbox

-----------------------------------------------------------------------------
\* What a step may never do

\* A stored envelope never changes, and it and its entries go only when its sender
\* or the entry's recipient is removed.  No retry, collision, read or rollback
\* takes a delivered envelope away.
DeliveryIsDurable ==
  [][/\ \A id \in DOMAIN envelopes :
          \/ id \in DOMAIN envelopes' /\ envelopes'[id] = envelopes[id]
          \/ envelopes[id].from \notin DOMAIN agents'
     /\ \A b \in DOMAIN mailbox :
          \/ b \in DOMAIN mailbox'
          \/ b[1] \notin DOMAIN agents'
          \/ envelopes[b[2]].from \notin DOMAIN agents']_vars

\* An entry that was read stays read: nothing, a replayed send included, makes an
\* envelope unread again under the reader's feet.
ReadIsForGood ==
  [][\A b \in DOMAIN mailbox \cap DOMAIN mailbox' :
       mailbox[b].read => mailbox'[b].read]_vars

\* A file once bound stays bound to that envelope until its row is deleted; the
\* schema's SET NULL never returns a used file to the pending state.
BindingIsForGood ==
  [][\A f \in DOMAIN files \cap DOMAIN files' :
       files[f].attached # Pending => files'[f] = files[f]]_vars

\* An entry is only ever added for an agent that, at that moment and not when the
\* request arrived, neither blocks the sender nor fails to trust it both ways: a
\* block or a revoked grant is in force for requests already on their way
\* (self.ts "takes effect immediately for future inbound envelopes").
TrustHoldsAtDelivery ==
  [][\A b \in DOMAIN mailbox' \ DOMAIN mailbox :
       LET from == envelopes'[b[2]].from IN
       /\ <<b[1], from>> \notin blocks
       /\ {b[1], from} \subseteq DOMAIN agents
       /\ from # b[1] => /\ isReachable(agents, allowlist, from, b[1])
                         /\ isReachable(agents, allowlist, b[1], from)]_vars

\* A frame is queued in the step that first stores its envelope and in no other (a
\* replay pushes nothing, a rollback pushes nothing), and then on every open
\* connection of every recipient.
PushOnFirstStore ==
  [][\A c \in DOMAIN conns \cap DOMAIN conns' :
       LET fresh == DOMAIN envelopes' \ DOMAIN envelopes
           old == Len(conns[c].queue)
           new == Len(conns'[c].queue)
       IN  /\ \A i \in old + 1 .. new : conns'[c].queue[i].id \in fresh
           /\ \A id \in fresh : conns[c].handle \in Recipients(envelopes'[id]) =>
                \E i \in old + 1 .. new :
                  conns'[c].queue[i] = [op |-> "notify", id |-> id]]_vars

\* A bearer that stopped working never works again, through any sequence of
\* rotations, removals and registrations.
LiveBearers == {agents[h].bearer : h \in DOMAIN agents}

RetiredBearersStayRetired ==
  [][\A token \in 1..minted : token \in LiveBearers' => token \in LiveBearers]_vars

-----------------------------------------------------------------------------
\* The mail the tables hold, as agents see it: every step of the operator is a
\* step of MailboxService or none.

Mail == INSTANCE MailboxService WITH
  Members <- Handles,
  members <- DOMAIN agents,
  stored <- [id \in DOMAIN envelopes |->
               [from |-> envelopes[id].from, to |-> Recipients(envelopes[id])]],
  inbox <- [b \in DOMAIN mailbox |-> mailbox[b].read],
  answer <- IF reply.route = "send"
              THEN [status |-> reply.status, ids |-> reply.ids, to |-> reply.to]
              ELSE [status |-> 0, ids |-> {}, to |-> {}]

\* A 202 means delivered to everyone it names, once; an error means nothing
\* happened; no mail is lost (EnvelopeService, MailboxService, the schema's cascades).
ImplementsMailboxService == Mail!Spec

=============================================================================
