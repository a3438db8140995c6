-------------------------------- MODULE Login --------------------------------
(***************************************************************************)
(* `robotnet login`, `robotnet account login` and their logouts             *)
(* (commands/login.ts, commands/account.ts, asmtp/agent-login.ts,           *)
(* auth/pkce.ts, auth/discovery.ts, auth/client-credentials.ts).            *)
(*                                                                          *)
(* A login is a CLI process.  A browser login binds a loopback port, opens  *)
(* an authorization page, and waits for the page that the auth server sends *)
(* the browser back to; the user may answer any page that was ever opened,  *)
(* at any time, and load any answer again.  The state and the PKCE verifier *)
(* of a login are fresh, and are named after it; so is the public client it *)
(* registers.  A port that was let go may be given to another login.        *)
(*                                                                          *)
(* The auth servers are external: they give a code out once, and only for   *)
(* the client, the redirect URI and the verifier of the page it came from.  *)
(* A modern one says which network it is and which agent a token is for.    *)
(* Renewal of what is stored here is TokenRefresh, its encryption and       *)
(* schema are CredentialStore.                                              *)
(***************************************************************************)
EXTENDS Naturals

CONSTANTS
  Logins,    \* login processes; each runs once
  Networks,  \* OAuth networks of the profile; a network's own auth server has its name
  Handles,
  Ports,     \* loopback ports the system may hand out
  Ways,      \* the kinds of login: a subset of AllWays
  Gateways,  \* the auth servers whose metadata names a WebSocket resource
  Wirings,   \* bound: which auth server each network's endpoints may reach
  Nothing    \* no row, no token, nobody

AllWays == {"client", "handle", "picker", "account"}
Browser == AllWays \ {"client"}
Account == "account"

ASSUME LoginAssumption ==
  /\ Ways \subseteq AllWays
  /\ Wirings \subseteq [Networks -> Networks]
  /\ Gateways \subseteq Networks
  /\ Account \notin Handles /\ Nothing \notin Logins \cup Handles \cup {Account}

VARIABLES
  wiring,    \* the auth server behind each network's endpoints
  modern,    \* the servers that declare themselves
  login,     \* where each login is
  server,    \* the login that listens on each port
  pages,     \* authorization pages in the browser
  answers,   \* callback pages in the browser's history
  spent,     \* codes that were exchanged
  agents,    \* agent_credentials, by network and handle
  session    \* user_sessions, its only row

vars == <<wiring, modern, login, server, pages, answers, spent, agents, session>>
world == <<wiring, modern>>
browser == <<pages, answers>>
store == <<agents, session>>

Idle == [at |-> "idle", way |-> Nothing, net |-> Nothing, handle |-> Nothing,
         timer |-> FALSE, code |-> Nothing, token |-> Nothing]

Init ==
  /\ wiring \in Wirings
  /\ modern \in SUBSET Networks
  /\ login = [p \in Logins |-> Idle]
  /\ server = [port \in Ports |-> Nothing]
  /\ pages = {} /\ answers = {} /\ spent = {}
  /\ agents = [row \in Networks \X Handles |-> Nothing]
  /\ session = Nothing

At(p, at) == login[p].at = at
Go(p, at) == login' = [login EXCEPT ![p].at = at]
Dialed(p) == wiring[login[p].net]

\* The finally of runPkceFlow: loopback.close()
Release(p) == server' = [port \in Ports |-> IF server[port] = p THEN Nothing ELSE server[port]]

Fail(p) ==
  /\ login' = [login EXCEPT ![p].at = "failed", ![p].timer = FALSE]
  /\ Release(p)

\* collectResources, and for "client" the one resource mintViaClientCredentials asks for
Resources(way, s) ==
  {"api"} \cup IF way \in {"handle", "picker"} /\ s \in Gateways THEN {"websocket"} ELSE {}

Token(p, subject) ==
  [server |-> Dialed(p), subject |-> subject, covers |-> Resources(login[p].way, Dialed(p))]

-----------------------------------------------------------------------------
\* A login up to its authorization page

\* --client-id requires --agent; without it the picker names the agent.
Start(p, way, net, handle) ==
  /\ At(p, "idle")
  /\ (handle # Nothing) <=> (way \in {"client", "handle"})
  /\ login' = [login EXCEPT ![p] = [Idle EXCEPT !.at = "discover", !.way = way, !.net = net,
                                                !.handle = handle]]
  /\ UNCHANGED <<world, server, browser, spent, store>>

\* discoverOAuth: both documents, or DiscoveryError
Discover(p) ==
  /\ At(p, "discover")
  /\ \/ Go(p, IF login[p].way = "client" THEN "mint" ELSE "reserve")
     \/ Go(p, "failed")
  /\ UNCHANGED <<world, server, browser, spent, store>>

\* requestClientCredentialsToken: for whichever agent the client id belongs to
ClientGrant(p) ==
  \E owner \in Handles :
    login' = [login EXCEPT ![p].at = "persist", ![p].token = Token(p, owner)]

\* mintViaClientCredentials
Mint(p) ==
  /\ At(p, "mint")
  /\ ClientGrant(p) \/ Go(p, "failed")
  /\ UNCHANGED <<world, server, browser, spent, store>>

Reserve(p) ==
  /\ At(p, "reserve")
  /\ \E port \in Ports : /\ server[port] = Nothing
                         /\ server' = [server EXCEPT ![port] = p]
  /\ Go(p, "register")
  /\ UNCHANGED <<world, browser, spent, store>>

Register(p) ==
  /\ At(p, "register")
  /\ \/ Go(p, "open") /\ UNCHANGED server
     \/ Fail(p)
  /\ UNCHANGED <<world, browser, spent, store>>

\* open(authorizationUrl) is awaited; the page is there before it returns.
OpenPage(p) ==
  /\ At(p, "open")
  /\ \E port \in Ports :
       /\ server[port] = p
       /\ pages' = pages \cup {[of |-> p, port |-> port]}
  /\ Go(p, "opening")
  /\ UNCHANGED <<world, server, answers, spent, store>>

\* awaitCode: only now has a request a handler.
Await(p) ==
  /\ At(p, "opening")
  /\ \/ login' = [login EXCEPT ![p].at = "await", ![p].timer = TRUE] /\ UNCHANGED server
     \/ Fail(p)
  /\ UNCHANGED <<world, browser, spent, store>>

-----------------------------------------------------------------------------
\* The browser

\* Whom the user may authorize on the page of a login.  Asked for one agent, a
\* server may still let the user choose another.
MayAuthorize(p) == IF login[p].way = "account" THEN {Account} ELSE Handles

Consent(page, subject) ==
  /\ subject \in MayAuthorize(page.of)
  /\ pages' = pages \ {page}
  /\ answers' = answers \cup {[port |-> page.port, state |-> page.of,
                               code |-> [of |-> page.of, subject |-> subject]]}
  /\ UNCHANGED <<world, login, server, spent, store>>

\* The callback carries an error.
Deny(page) ==
  /\ pages' = pages \ {page}
  /\ answers' = answers \cup {[port |-> page.port, state |-> page.of, code |-> Nothing]}
  /\ UNCHANGED <<world, login, server, spent, store>>

\* The handler of awaitCode.  A request that finds no handler is never answered.
Load(answer) ==
  LET p == server[answer.port] IN
  /\ p # Nothing
  /\ At(p, "await")
  /\ \/ /\ answer.code # Nothing /\ answer.state = p
        /\ login' = [login EXCEPT ![p].at = "exchange", ![p].timer = FALSE, ![p].code = answer.code]
        /\ UNCHANGED server
     \/ /\ answer.code = Nothing \/ answer.state # p
        /\ Fail(p)
  /\ UNCHANGED <<world, browser, spent, store>>

\* Mutant: any request disarms the timeout.
Disarm(p) == login' = [login EXCEPT ![p].timer = FALSE]

\* A request for another path gets its 404 and changes nothing.
NotFound(p) == UNCHANGED login

\* What a browser asks for by itself: /favicon.ico
Stray(p) ==
  /\ At(p, "await")
  /\ NotFound(p)
  /\ UNCHANGED <<world, server, browser, spent, store>>

TimeOut(p) ==
  /\ At(p, "await") /\ login[p].timer
  /\ Fail(p)
  /\ UNCHANGED <<world, browser, spent, store>>

-----------------------------------------------------------------------------
\* The token, and the row

\* requestAuthorizationCodeToken: the server takes a code once, from the client it was
\* issued to, with its verifier; the answer may be lost or be no token response.
Exchange(p) ==
  LET code == login[p].code IN
  /\ At(p, "exchange")
  /\ \/ /\ code.of = p /\ code \notin spent
        /\ spent' = spent \cup {code}
        /\ \/ /\ login' = [login EXCEPT ![p].at = "persist", ![p].token = Token(p, code.subject)]
              /\ Release(p)
           \/ Fail(p)
     \/ Fail(p) /\ UNCHANGED spent
  /\ UNCHANGED <<world, browser, store>>

\* agent_handle of the token response
Echo(p) == IF Dialed(p) \in modern /\ login[p].way # "account" THEN login[p].token.subject
           ELSE Nothing

\* enrollAgentPkce lets an echo that is missing pass; the picker cannot.
Accepted(p) ==
  CASE login[p].way = "handle" -> Echo(p) \in {Nothing, login[p].handle}
    [] login[p].way = "picker" -> Echo(p) # Nothing
    [] OTHER -> TRUE

Key(p) == <<login[p].net, IF login[p].way = "picker" THEN Echo(p) ELSE login[p].handle>>

\* Mutant: the server's word is not compared with the configuration.
AnyNetwork(p) == TRUE

\* persistAgentPkce's cross-check
RightNetwork(p) ==
  login[p].way \in {"handle", "picker"} /\ Dialed(p) \in modern => Dialed(p) = login[p].net

Row(p) == [way |-> login[p].way, token |-> login[p].token, by |-> p]

PersistAgent(p) ==
  /\ At(p, "persist") /\ login[p].way # "account"
  /\ IF Accepted(p) /\ RightNetwork(p)
     THEN agents' = [agents EXCEPT ![Key(p)] = Row(p)] /\ Go(p, "done")
     ELSE UNCHANGED agents /\ Go(p, "failed")
  /\ UNCHANGED <<world, server, browser, spent, session>>

PersistSession(p) ==
  /\ At(p, "persist") /\ login[p].way = "account"
  /\ session' = Row(p)
  /\ Go(p, "done")
  /\ UNCHANGED <<world, server, browser, spent, agents>>

\* robotnet logout; --all does it for one handle after the other
Logout(net, handle) ==
  /\ agents' = [agents EXCEPT ![<<net, handle>>] = Nothing]
  /\ UNCHANGED <<world, login, server, browser, spent, session>>

AccountLogout ==
  /\ session' = Nothing
  /\ UNCHANGED <<world, login, server, browser, spent, agents>>

-----------------------------------------------------------------------------

Step(p) ==
  \/ Discover(p) \/ Mint(p)
  \/ Reserve(p) \/ Register(p) \/ OpenPage(p) \/ Await(p)
  \/ TimeOut(p)
  \/ Exchange(p)
  \/ PersistAgent(p) \/ PersistSession(p)

Next ==
  \/ \E p \in Logins, way \in Ways, net \in Networks, handle \in Handles \cup {Nothing} :
       Start(p, way, net, handle)
  \/ \E p \in Logins : Step(p) \/ Stray(p)
  \/ \E page \in pages, subject \in Handles \cup {Account} : Consent(page, subject)
  \/ \E page \in pages : Deny(page)
  \/ \E answer \in answers : Load(answer)
  \/ \E net \in Networks, handle \in Handles : Logout(net, handle)
  \/ AccountLogout

Spec == Init /\ [][Next]_vars

\* A login goes on by itself: its requests time out (REQUEST_TIMEOUT_MS,
\* DISCOVERY_TIMEOUT_MS), its timers fire.  Nothing is assumed of the user.
FairSpec == Spec /\ \A p \in Logins : WF_vars(Step(p))

-----------------------------------------------------------------------------
\* Properties

Stored == {row \in Networks \X Handles : agents[row] # Nothing}

\* What a browser login stores under (network, handle) is a token for which the user
\* answered the page of that very login; and if its server declares itself, that
\* server is the network's own and the token is for that handle.
RowsMatchConsent ==
  \A row \in Stored :
    LET r == agents[row] IN
    r.way \in Browser =>
      /\ \E code \in spent : code.of = r.by /\ code.subject = r.token.subject
      /\ r.token.server \in modern => r.token.server = row[1] /\ r.token.subject = row[2]

\* Every login ends, whatever the browser does or does not, and lets its port go.
LoginsEnd ==
  \A p \in Logins :
    ~At(p, "idle") ~> /\ login[p].at \in {"done", "failed"}
                      /\ \A port \in Ports : server[port] # p

\* auth/pkce.ts:68-71, "agent-mode tokens must, or `robotnet listen` 401s on the WS
\* handshake": the token a login stores for an agent covers the WebSocket surface
\* whenever the server has one.
AgentTokensReachTheSocket ==
  \A row \in Stored :
    agents[row].token.server \in Gateways => "websocket" \in agents[row].token.covers
=============================================================================
