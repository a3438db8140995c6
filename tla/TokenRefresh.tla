---------------------------- MODULE TokenRefresh ----------------------------
(***************************************************************************)
(* Renewing an expired bearer: CLI processes that share one profile's       *)
(* credential store, the lock directory some of them take, and an           *)
(* authorization server whose refresh tokens are good for one use           *)
(* (src/src/asmtp/auth-resolver.ts, src/src/credentials/refresh-lock.ts,    *)
(* src/src/asmtp/agent-login.ts).                                           *)
(*                                                                          *)
(* The store keeps one credential of one agent and the account's session.   *)
(* Agent callers (resolveAgentToken) renew under the lock; user callers     *)
(* (resolveUserToken) take none.  A caller gives way at every await, and    *)
(* between two statements on the store, since the others are processes of   *)
(* their own.                                                               *)
(*                                                                          *)
(* Ages are not clock values.  A holder that runs ends its request long     *)
(* before STALE_LOCK_MS (discovery and exchange time out after 40 s in      *)
(* all), so a lock grows stale only when its holder has died, or has been   *)
(* put to sleep with the machine.                                           *)
(***************************************************************************)
EXTENDS Naturals

CONSTANTS
  AgentCallers,   \* processes that need the agent's bearer
  UserCallers,    \* processes that need the account's access token
  Mishaps,        \* what may come in between here: "death", "nap", "loss", "removal"
  Revokes,        \* does the server revoke a family whose spent token comes back
  MaxLogins,      \* bound: logins, each of which starts a token family
  MaxExpiries,    \* bound: bearers that expire
  MaxAsks         \* bound: calls of resolveAgentToken and resolveUserToken

Callers == AgentCallers \cup UserCallers

ASSUME TokenRefreshAssumption ==
  /\ AgentCallers \cap UserCallers = {}
  /\ Mishaps \subseteq {"death", "nap", "loss", "removal"}
  /\ Revokes \in BOOLEAN
  /\ MaxLogins \in Nat /\ MaxExpiries \in Nat /\ MaxAsks \in Nat

VARIABLES
  agent,      \* row of agent_credentials
  session,    \* row of user_sessions
  live,       \* server: the refresh tokens it would accept
  lock,       \* the lock directory
  call,       \* caller -> [pc, token, held, late]
  removing,   \* `account agent remove`: deleted at the server, not yet here
  gone,       \* history: `account agent remove` is done and nobody logged in since
  logins, expiries, asks,
  mishaps     \* history: what has gone wrong so far

vars == <<agent, session, live, lock, call, removing, gone, logins, expiries, asks, mishaps>>

-----------------------------------------------------------------------------
\* A refresh token: the login it descends from, and how often it was rotated.
Token == Nat \X Nat
NoToken == <<0, 0>>
Rotated(t) == <<t[1], t[2] + 1>>

\* kind: "pkce" (refresh token), "client" (client id and secret), "none" (no row).
Row == [kind: {"none", "pkce", "client"}, token: Token, valid: BOOLEAN]
NoRow == [kind |-> "none", token |-> NoToken, valid |-> FALSE]
Pkce(t) == [kind |-> "pkce", token |-> t, valid |-> TRUE]
Client == [kind |-> "client", token |-> NoToken, valid |-> TRUE]

\* The directory: absent, or made by `owner`; past STALE_LOCK_MS or not.
Free == [there |-> FALSE]
Lock == {Free} \cup [there: {TRUE}, owner: AgentCallers, stale: BOOLEAN]

\* `held`: the finally that removes the lock is armed.
Call == [pc: {"idle", "lock", "stat", "clear"}, token: Token, held: {FALSE}, late: BOOLEAN]
  \cup [pc: {"tag", "reread", "delete", "unlock"}, token: Token, held: {TRUE}, late: BOOLEAN]
  \cup [pc: {"mint", "minted", "sent", "granted", "rejected", "dead"}, token: Token,
      held: BOOLEAN, late: BOOLEAN]
Idle == [pc |-> "idle", token |-> NoToken, held |-> FALSE, late |-> FALSE]

At(p, pc) == call[p].pc = pc
Goto(p, pc) == call' = [call EXCEPT ![p].pc = pc]

\* The end of fn: the finally of the lock, if the caller holds it, or the return.
Leave(p) == call' = [call EXCEPT ![p] = IF @.held THEN [@ EXCEPT !.pc = "unlock"] ELSE Idle]

Init ==
  /\ agent = NoRow /\ session = NoRow
  /\ live = {}
  /\ lock = Free
  /\ call = [p \in Callers |-> Idle]
  /\ removing = FALSE /\ gone = FALSE
  /\ logins = 0 /\ expiries = 0 /\ asks = 0
  /\ mishaps = {}

-----------------------------------------------------------------------------
\* withCredentialRefreshLock

\* The row has expired: take the lock, or mint at once if there is a secret.
Resolve(p) ==
  /\ asks < MaxAsks /\ asks' = asks + 1
  /\ At(p, "idle") /\ agent.kind # "none" /\ ~agent.valid
  /\ Goto(p, IF agent.kind = "pkce" THEN "lock" ELSE "mint")
  /\ UNCHANGED <<agent, session, live, lock, removing, gone, logins, expiries, mishaps>>

\* Mutant: the directory may exist already (mkdir -p).
MkdirAnyway(p) ==
  /\ At(p, "lock")
  /\ lock' = [there |-> TRUE, owner |-> p, stale |-> FALSE]
  /\ call' = [call EXCEPT ![p].pc = "tag", ![p].held = TRUE]
  /\ UNCHANGED <<agent, session, live, removing, gone, logins, expiries, asks, mishaps>>

\* mkdir is the test and the set in one; an existing directory is looked at.
Mkdir(p) ==
  /\ At(p, "lock")
  /\ \/ /\ lock = Free
        /\ lock' = [there |-> TRUE, owner |-> p, stale |-> FALSE]
        /\ call' = [call EXCEPT ![p].pc = "tag", ![p].held = TRUE]
     \/ /\ lock # Free
        /\ Goto(p, "stat")
        /\ UNCHANGED lock
  /\ UNCHANGED <<agent, session, live, removing, gone, logins, expiries, asks, mishaps>>

\* Mutant: no deadline.
StatForever(p) ==
  /\ At(p, "stat")
  /\ Goto(p, IF lock # Free /\ lock.stale THEN "clear" ELSE "lock")
  /\ UNCHANGED <<agent, session, live, lock, removing, gone, logins, expiries, asks, mishaps>>

\* removeIfStale's look at the directory; the deadline counts only while it is fresh.
Stat(p) ==
  /\ At(p, "stat")
  /\ \/ lock = Free /\ Goto(p, "lock")
     \/ lock # Free /\ lock.stale /\ Goto(p, "clear")
     \/ lock # Free /\ ~lock.stale /\ ~call[p].late /\ Goto(p, "lock")
     \/ lock # Free /\ ~lock.stale /\ call[p].late /\ call' = [call EXCEPT ![p] = Idle]
  /\ UNCHANGED <<agent, session, live, lock, removing, gone, logins, expiries, asks, mishaps>>

\* LOCK_WAIT_MS have passed.
Late(p) ==
  /\ call[p].pc \in {"lock", "stat", "clear"} /\ ~call[p].late
  /\ call' = [call EXCEPT ![p].late = TRUE]
  /\ UNCHANGED <<agent, session, live, lock, removing, gone, logins, expiries, asks, mishaps>>

\* removeIfStale's rm: whatever directory is there by now.
Clear(p) ==
  /\ At(p, "clear")
  /\ lock' = Free
  /\ Goto(p, "lock")
  /\ UNCHANGED <<agent, session, live, removing, gone, logins, expiries, asks, mishaps>>

\* writeLockMetadata: fails if the directory is gone again.
Tag(p) ==
  /\ At(p, "tag")
  /\ Goto(p, IF lock = Free THEN "unlock" ELSE "reread")
  /\ UNCHANGED <<agent, session, live, lock, removing, gone, logins, expiries, asks, mishaps>>

Unlock(p) ==
  /\ At(p, "unlock")
  /\ lock' = Free
  /\ call' = [call EXCEPT ![p] = Idle]
  /\ UNCHANGED <<agent, session, live, removing, gone, logins, expiries, asks, mishaps>>

-----------------------------------------------------------------------------
\* renewAgentPkceWithLock

\* Read again under the lock: someone else may have renewed, replaced or removed it.
Reread(p) ==
  /\ At(p, "reread")
  /\ \/ /\ agent.kind = "none" \/ agent.valid
        /\ Leave(p)
     \/ /\ agent.kind = "client" /\ ~agent.valid
        /\ Goto(p, "mint")
     \/ /\ agent.kind = "pkce" /\ ~agent.valid
        /\ call' = [call EXCEPT ![p].pc = "sent", ![p].token = agent.token]
  /\ UNCHANGED <<agent, session, live, lock, removing, gone, logins, expiries, asks, mishaps>>

\* renewAgentClientCredentials: an exchange that uses nothing up (it fails for an agent
\* the server has forgotten, or for any other reason) ...
Mint(p) ==
  /\ At(p, "mint")
  /\ \/ ~removing /\ ~gone /\ Goto(p, "minted")
     \/ Leave(p)
  /\ UNCHANGED <<agent, session, live, lock, removing, gone, logins, expiries, asks, mishaps>>

\* ... and the row is written.
PutMinted(p) ==
  /\ At(p, "minted")
  /\ agent' = Client
  /\ Leave(p)
  /\ UNCHANGED <<session, live, lock, removing, gone, logins, expiries, asks, mishaps>>

\* Mutant: the rotated refresh token is not stored.
PutUnrotated(p) ==
  /\ p \in AgentCallers /\ At(p, "granted")
  /\ agent' = [agent EXCEPT !.valid = TRUE]
  /\ Leave(p)
  /\ UNCHANGED <<session, live, lock, removing, gone, logins, expiries, asks, mishaps>>

\* renewAgentPkce, the answer having arrived: the rotated token goes into the row.
Put(p) ==
  /\ p \in AgentCallers /\ At(p, "granted")
  /\ agent' = Pkce(call[p].token)
  /\ Leave(p)
  /\ UNCHANGED <<session, live, lock, removing, gone, logins, expiries, asks, mishaps>>

\* FatalAuthError: compare with the row as it is now, then delete it.
Check(p) ==
  /\ p \in AgentCallers /\ At(p, "rejected")
  /\ \/ agent.kind = "pkce" /\ agent.token = call[p].token /\ Goto(p, "delete")
     \/ ~(agent.kind = "pkce" /\ agent.token = call[p].token) /\ Leave(p)
  /\ UNCHANGED <<agent, session, live, lock, removing, gone, logins, expiries, asks, mishaps>>

Delete(p) ==
  /\ At(p, "delete")
  /\ agent' = NoRow
  /\ Leave(p)
  /\ UNCHANGED <<session, live, lock, removing, gone, logins, expiries, asks, mishaps>>

-----------------------------------------------------------------------------
\* resolveUserToken

UserResolve(p) ==
  /\ asks < MaxAsks /\ asks' = asks + 1
  /\ At(p, "idle") /\ session.kind = "pkce" /\ ~session.valid
  /\ call' = [call EXCEPT ![p].pc = "sent", ![p].token = session.token]
  /\ UNCHANGED <<agent, session, live, lock, removing, gone, logins, expiries, mishaps>>

UserPut(p) ==
  /\ p \in UserCallers /\ At(p, "granted")
  /\ session' = Pkce(call[p].token)
  /\ Leave(p)
  /\ UNCHANGED <<agent, live, lock, removing, gone, logins, expiries, asks, mishaps>>

\* FatalAuthError: the session goes, whatever it is now.
UserDelete(p) ==
  /\ p \in UserCallers /\ At(p, "rejected")
  /\ session' = NoRow
  /\ Leave(p)
  /\ UNCHANGED <<agent, live, lock, removing, gone, logins, expiries, asks, mishaps>>

-----------------------------------------------------------------------------
\* The token endpoint and the way to it

Family(t) == {u \in live : u[1] = t[1]}

\* One use: a live token is rotated, any other is an invalid_grant.
Serve(p) ==
  /\ At(p, "sent")
  /\ LET t == call[p].token IN
     \/ /\ t \in live
        /\ live' = (live \ {t}) \cup {Rotated(t)}
        /\ call' = [call EXCEPT ![p].pc = "granted", ![p].token = Rotated(t)]
     \/ /\ t \notin live
        /\ live' = IF Revokes THEN live \ Family(t) ELSE live
        /\ Goto(p, "rejected")
  /\ UNCHANGED <<agent, session, lock, removing, gone, logins, expiries, asks, mishaps>>

\* Discovery fails, or the request does before the server has acted on it.
FailRequest(p) ==
  /\ At(p, "sent")
  /\ Leave(p)
  /\ UNCHANGED <<agent, session, live, lock, removing, gone, logins, expiries, asks, mishaps>>

\* The server has acted; its answer times out or is lost.
LoseAnswer(p) ==
  /\ "loss" \in Mishaps
  /\ call[p].pc \in {"granted", "rejected"}
  /\ Leave(p)
  /\ mishaps' = mishaps \cup {"loss"}
  /\ UNCHANGED <<agent, session, live, lock, removing, gone, logins, expiries, asks>>

-----------------------------------------------------------------------------
\* Logging in and out, time, and processes that stop.  None of these takes the lock.

Login(row) ==
  /\ logins < MaxLogins
  /\ logins' = logins + 1
  /\ agent' = row
  /\ live' = live \cup (IF row.kind = "pkce" THEN {row.token} ELSE {})
  /\ gone' = FALSE
  /\ UNCHANGED <<session, lock, call, removing, expiries, asks, mishaps>>

AccountLogin ==
  /\ logins < MaxLogins
  /\ logins' = logins + 1
  /\ session' = Pkce(<<logins, 0>>)
  /\ live' = live \cup {<<logins, 0>>}
  /\ UNCHANGED <<agent, lock, call, removing, gone, expiries, asks, mishaps>>

\* `account agent remove`: the server forgets the agent, then the row is dropped.
RemoveAgent ==
  /\ "removal" \in Mishaps
  /\ ~removing /\ agent.kind # "none"
  /\ removing' = TRUE
  /\ live' = IF agent.kind = "pkce" THEN live \ Family(agent.token) ELSE live
  /\ mishaps' = mishaps \cup {"removal"}
  /\ UNCHANGED <<agent, session, lock, call, gone, logins, expiries, asks>>

\* The second half of it, or `logout`.
Drop ==
  /\ agent' = NoRow /\ gone' = (gone \/ removing) /\ removing' = FALSE
  /\ UNCHANGED <<session, live, lock, call, logins, expiries, asks, mishaps>>

AccountLogout ==
  /\ session' = NoRow
  /\ UNCHANGED <<agent, live, lock, call, removing, gone, logins, expiries, asks, mishaps>>

\* The bearer comes within the grace of its expiry.
Expire ==
  /\ expiries < MaxExpiries
  /\ expiries' = expiries + 1
  /\ \/ agent.valid /\ agent' = [agent EXCEPT !.valid = FALSE] /\ UNCHANGED session
     \/ session.valid /\ session' = [session EXCEPT !.valid = FALSE] /\ UNCHANGED agent
  /\ UNCHANGED <<live, lock, call, removing, gone, logins, asks, mishaps>>

Die(p) ==
  /\ "death" \in Mishaps
  /\ call[p].pc \notin {"idle", "dead"}
  /\ Goto(p, "dead")
  /\ mishaps' = mishaps \cup {"death"}
  /\ UNCHANGED <<agent, session, live, lock, removing, gone, logins, expiries, asks>>

\* STALE_LOCK_MS have passed for a lock whose holder died ...
Age ==
  /\ lock # Free /\ ~lock.stale /\ At(lock.owner, "dead")
  /\ lock' = [lock EXCEPT !.stale = TRUE]
  /\ UNCHANGED <<agent, session, live, call, removing, gone, logins, expiries, asks, mishaps>>

\* ... or whose holder slept through them.
Nap ==
  /\ "nap" \in Mishaps
  /\ lock # Free /\ ~lock.stale
  /\ lock' = [lock EXCEPT !.stale = TRUE]
  /\ mishaps' = mishaps \cup {"nap"}
  /\ UNCHANGED <<agent, session, live, call, removing, gone, logins, expiries, asks>>

-----------------------------------------------------------------------------
LockStep(p) == Mkdir(p) \/ Stat(p) \/ Clear(p) \/ Tag(p) \/ Unlock(p)
RenewStep(p) == Reread(p) \/ Mint(p) \/ PutMinted(p) \/ Put(p) \/ Check(p) \/ Delete(p)
UserStep(p) == UserPut(p) \/ UserDelete(p)
Step(p) == LockStep(p) \/ RenewStep(p) \/ UserStep(p) \/ Serve(p) \/ FailRequest(p) \/ LoseAnswer(p)

Next ==
  \/ \E p \in AgentCallers : Resolve(p)
  \/ \E p \in UserCallers : UserResolve(p)
  \/ \E p \in Callers : Step(p) \/ Late(p) \/ Die(p)
  \/ Login(Pkce(<<logins, 0>>)) \/ Login(Client) \/ AccountLogin
  \/ RemoveAgent \/ Drop \/ AccountLogout
  \/ Expire \/ Age \/ Nap

Spec == Init /\ [][Next]_vars

\* A running process takes its next step, and time passes while it waits.
Fairness == \A p \in Callers : WF_vars(Step(p)) /\ WF_vars(Late(p))

FairSpec == Spec /\ Fairness

-----------------------------------------------------------------------------
\* Invariants

\* Every variable holds a value of its declared shape.
TypeOK ==
  /\ agent \in Row /\ session \in Row
  /\ live \subseteq Token
  /\ lock \in Lock
  /\ call \in [Callers -> Call]
  /\ removing \in BOOLEAN /\ gone \in BOOLEAN
  /\ logins \in 0..MaxLogins /\ expiries \in 0..MaxExpiries /\ asks \in 0..MaxAsks
  /\ mishaps \subseteq Mishaps

\* Between its mkdir and its rm a caller is in the critical section.
Inside(p) == call[p].held /\ ~At(p, "dead")
AtMostOneInside == \A p, q \in AgentCallers : Inside(p) /\ Inside(q) => p = q

\* As long as no holder dies or sleeps, agent renewals run one at a time, whoever
\* waits, times out, logs in or out meanwhile.
Serialized == mishaps \cap {"death", "nap"} = {} => AtMostOneInside

\* ... and no spent refresh token is presented for the agent, unless an answer was
\* lost: what the test "serializes concurrent oauth_pkce refreshes" wants of two
\* callers, for any number of them and with logins and logouts between.
SpentNotPresented ==
  mishaps = {} => \A p \in AgentCallers : At(p, "sent") => call[p].token \in live

\* ... and when no renewal is under way, the stored refresh token is one the server
\* accepts: no rotation is lost, and none is overwritten by an older one.
RowIsLive ==
  (mishaps = {} /\ agent.kind = "pkce" /\ \A p \in AgentCallers : ~Inside(p)) =>
     agent.token \in live

-----------------------------------------------------------------------------
\* What must happen

\* Everyone who asks for a bearer gets an answer, whatever others die of: a waiter
\* behind a dead holder's lock times out or finds it stale.
ResolvesEnd == \A p \in Callers : ~At(p, "idle") ~> (At(p, "idle") \/ At(p, "dead"))

-----------------------------------------------------------------------------
\* What the comments say and the code does not do

\* "Serialize refresh-token rotation across CLI processes sharing a profile"
\* (refresh-lock.ts): also after one of them has died.
SerializedAlways == AtMostOneInside

\* "The stored session is dead" (resolveUserToken): when the refresh of the account
\* session is rejected, what the caller is about to wipe is worth nothing.
RejectedMeansDead ==
  \A p \in UserCallers :
    At(p, "rejected") /\ session.kind = "pkce" => session.token \notin live

=============================================================================
