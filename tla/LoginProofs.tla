----------------------------- MODULE LoginProofs -----------------------------
(***************************************************************************)
(* Theorems about Login, for any number of logins, networks, handles and    *)
(* ports, any wiring of the profile and every kind of login: what is stored *)
(* for an agent is what the user consented to.                              *)
(*                                                                          *)
(* RowsMatchConsent speaks of rows; that it holds of the next one is decided *)
(* while the login that will store it still has its token in memory.        *)
(* Granted says what that token rests on.                                   *)
(***************************************************************************)
EXTENDS Login, TLAPS

Places == {"idle", "discover", "mint", "reserve", "register", "open", "opening", "await",
           "exchange", "persist", "done", "failed"}
Subjects == Handles \cup {Account}
Codes == [of : Logins, subject : Subjects]
Tokens == [server : Networks, subject : Subjects, covers : SUBSET {"api", "websocket"}]
LoginType == [at : Places, way : Ways \cup {Nothing}, net : Networks \cup {Nothing},
              handle : Handles \cup {Nothing}, timer : BOOLEAN,
              code : Codes \cup {Nothing}, token : Tokens \cup {Nothing}]

\* The states a login goes through, and what the browser's pages are about.
Shape ==
  /\ wiring \in [Networks -> Networks]
  /\ login \in [Logins -> LoginType]
  /\ pages \subseteq [of : Logins, port : Ports]
  /\ answers \subseteq [port : Ports, state : Logins, code : Codes \cup {Nothing}]
  /\ DOMAIN agents = Networks \X Handles

\* What a login was started for.
Asked(p) ==
  /\ login[p].at # "idle" => login[p].way \in Ways /\ login[p].net \in Networks
  /\ login[p].at = "mint" => login[p].way = "client"
  /\ login[p].at = "exchange" => login[p].code \in Codes
  /\ login[p].at # "idle" /\ login[p].way \in {"client", "handle"} => login[p].handle \in Handles

\* A token in memory is from the server the login has dialed; one that came through the
\* browser was given for a code of that login.
Granted(p) ==
  login[p].at = "persist" =>
    /\ login[p].token \in Tokens /\ login[p].token.server = Dialed(p)
    /\ login[p].way \in Browser =>
         \E code \in spent : code.of = p /\ code.subject = login[p].token.subject

Memory == \A p \in Logins : Asked(p) /\ Granted(p)

IInv == Shape /\ Memory /\ RowsMatchConsent

\* Whoever listens on a port is a login.
Listening == server \in [Ports -> Logins \cup {Nothing}]

-----------------------------------------------------------------------------
LEMMA InitFacts == Init => IInv
  <1> SUFFICES ASSUME Init PROVE IInv
    OBVIOUS
  <1>1. Idle \in LoginType /\ Idle.at = "idle"
    BY DEF Idle, LoginType, Places
  <1>2. Shape
    BY <1>1, LoginAssumption DEF Shape, Init
  <1>3. Memory
    BY <1>1 DEF Memory, Asked, Granted, Init
  <1>4. RowsMatchConsent
    BY DEF RowsMatchConsent, Stored, Init
  <1>5. QED
    BY <1>2, <1>3, <1>4 DEF IInv

\* What a step that moves at most one login has to show.
LEMMA OneLogin ==
  ASSUME IInv, NEW p \in Logins, UNCHANGED <<world, agents>>, spent \subseteq spent',
         NEW r \in LoginType, login' = [login EXCEPT ![p] = r],
         pages' \subseteq [of : Logins, port : Ports],
         answers' \subseteq [port : Ports, state : Logins, code : Codes \cup {Nothing}],
         Asked(p)', Granted(p)'
  PROVE  IInv'
  <1>1. Shape'
    BY DEF IInv, Shape, world
  <1>2. Memory'
    <2>1. ASSUME NEW q \in Logins PROVE Asked(q)' /\ Granted(q)'
      <3>1. CASE q = p
        BY <3>1
      <3>2. CASE q # p
        <4>1. login'[q] = login[q] /\ wiring' = wiring
          BY <3>2 DEF IInv, Shape, world
        <4>2. Asked(q) /\ Granted(q)
          BY DEF IInv, Memory
        <4>3. QED
          BY <4>1, <4>2 DEF Asked, Granted, Dialed
      <3>3. QED
        BY <3>1, <3>2
    <2>2. QED
      BY <2>1 DEF Memory
  <1>3. RowsMatchConsent'
    BY DEF IInv, RowsMatchConsent, Stored, world
  <1>4. QED
    BY <1>1, <1>2, <1>3 DEF IInv

\* A login that goes on, or fails, without a new token.
LEMMA Moves ==
  ASSUME IInv, NEW p \in Logins, UNCHANGED <<world, agents, browser>>, spent \subseteq spent',
         NEW at \in Places \ {"persist", "idle"}, NEW timer \in BOOLEAN,
         NEW code \in Codes \cup {Nothing},
         login' = [login EXCEPT ![p].at = at, ![p].timer = timer, ![p].code = code],
         login[p].at # "idle", at = "mint" => login[p].way = "client",
         at = "exchange" => code # Nothing
  PROVE  IInv'
  <1>1. PICK r : r = [login[p] EXCEPT !.at = at, !.timer = timer, !.code = code]
    OBVIOUS
  <1>2. login[p] \in LoginType
    BY DEF IInv, Shape
  <1>3. r \in LoginType /\ r.at = at /\ r.way = login[p].way /\ r.net = login[p].net
        /\ r.handle = login[p].handle /\ r.code = code
    BY <1>1, <1>2 DEF LoginType
  <1>4. login' = [login EXCEPT ![p] = r] /\ login'[p] = r
    BY <1>1 DEF IInv, Shape
  <1>5. Asked(p)' /\ Granted(p)'
    BY <1>3, <1>4 DEF IInv, Memory, Asked, Granted
  <1>6. QED
    BY <1>3, <1>4, <1>5, OneLogin DEF IInv, Shape, browser
-----------------------------------------------------------------------------
LEMMA StartStep ==
  ASSUME IInv, NEW p \in Logins, NEW way \in Ways, NEW net \in Networks,
         NEW handle \in Handles \cup {Nothing}, Start(p, way, net, handle)
  PROVE  IInv'
  <1>1. PICK r : r = [Idle EXCEPT !.at = "discover", !.way = way, !.net = net, !.handle = handle]
    OBVIOUS
  <1>2. r \in LoginType /\ r.at = "discover" /\ r.way = way /\ r.net = net /\ r.handle = handle
    BY <1>1 DEF LoginType, Idle, Places
  <1>3. login' = [login EXCEPT ![p] = r] /\ login'[p] = r
    BY <1>1 DEF Start, IInv, Shape
  <1>4. way \in {"client", "handle"} => handle \in Handles
    BY DEF Start
  <1>5. Asked(p)' /\ Granted(p)'
    BY <1>2, <1>3, <1>4 DEF Asked, Granted
  <1>6. QED
    BY <1>2, <1>3, <1>5, OneLogin DEF Start, IInv, Shape, store, browser

\* The two ways to move: to another place, and to give up.
LEMMA GoStep ==
  ASSUME IInv, NEW p \in Logins, NEW at \in Places \ {"persist", "idle", "exchange"},
         Go(p, at) \/ (Fail(p) /\ at = "failed"),
         UNCHANGED <<world, agents, browser>>, spent \subseteq spent',
         login[p].at # "idle", at = "mint" => login[p].way = "client"
  PROVE  IInv'
  <1>1. login[p] \in LoginType /\ login \in [Logins -> LoginType]
    BY DEF IInv, Shape
  <1>2. PICK timer \in BOOLEAN :
          login' = [login EXCEPT ![p].at = at, ![p].timer = timer, ![p].code = login[p].code]
    <2>1. CASE Go(p, at)
      <3>1. login[p].timer \in BOOLEAN
        BY <1>1 DEF LoginType
      <3>2. login' = [login EXCEPT ![p].at = at, ![p].timer = login[p].timer, ![p].code = login[p].code]
        BY <1>1, <2>1 DEF Go, LoginType
      <3>3. QED
        BY <3>1, <3>2
    <2>2. CASE Fail(p) /\ at = "failed"
      <3>1. login' = [login EXCEPT ![p].at = at, ![p].timer = FALSE, ![p].code = login[p].code]
        BY <1>1, <2>2 DEF Fail, LoginType
      <3>2. QED
        BY <3>1
    <2>3. QED
      BY <2>1, <2>2
  <1>3. login[p].code \in Codes \cup {Nothing}
    BY <1>1 DEF LoginType
  <1>4. QED
    BY <1>2, <1>3, Moves

\* A login that gets its token.
LEMMA TokenStep ==
  ASSUME IInv, NEW p \in Logins, NEW subject \in Subjects, login[p].at # "idle",
         login' = [login EXCEPT ![p].at = "persist", ![p].token = Token(p, subject)],
         UNCHANGED <<world, agents, browser>>, spent \subseteq spent',
         login[p].way \in Browser => \E code \in spent' : code.of = p /\ code.subject = subject
  PROVE  IInv'
  <1>1. login[p] \in LoginType /\ login[p].net \in Networks /\ Asked(p)
    BY DEF IInv, Shape, Memory, Asked
  <1>2. Token(p, subject) \in Tokens /\ Token(p, subject).server = Dialed(p)
        /\ Token(p, subject).subject = subject
    <2>1. Dialed(p) \in Networks
      BY <1>1 DEF Dialed, IInv, Shape
    <2>2. Resources(login[p].way, Dialed(p)) \in SUBSET {"api", "websocket"}
      BY DEF Resources
    <2>3. QED
      BY <2>1, <2>2 DEF Token, Tokens
  <1>3. PICK r : r = [login[p] EXCEPT !.at = "persist", !.token = Token(p, subject)]
    OBVIOUS
  <1>4. r \in LoginType /\ r.at = "persist" /\ r.token = Token(p, subject) /\ r.way = login[p].way
        /\ r.net = login[p].net /\ r.handle = login[p].handle
    BY <1>1, <1>2, <1>3 DEF LoginType, Places
  <1>5. login' = [login EXCEPT ![p] = r] /\ login'[p] = r /\ wiring' = wiring
    BY <1>3 DEF IInv, Shape, world
  <1>6. Asked(p)'
    BY <1>1, <1>4, <1>5 DEF Asked
  <1>7. Granted(p)'
    BY <1>2, <1>4, <1>5 DEF Granted, Dialed
  <1>8. QED
    BY <1>4, <1>5, <1>6, <1>7, OneLogin DEF IInv, Shape, browser

-----------------------------------------------------------------------------
\* Everything a login does before it stores anything.
LEMMA EarlySteps ==
  ASSUME IInv, NEW p \in Logins,
         Discover(p) \/ Mint(p) \/ Reserve(p) \/ Register(p) \/ Await(p) \/ TimeOut(p)
  PROVE  IInv'
  <1> USE DEF At
  <1>1. CASE Discover(p)
    BY <1>1, GoStep DEF Discover, store, Places
  <1>2. CASE Mint(p)
    <2>1. login[p].way = "client" /\ login[p].at = "mint"
      BY <1>2 DEF Mint, IInv, Memory, Asked
    <2>2. CASE Go(p, "failed")
      BY <1>2, <2>1, <2>2, GoStep DEF Mint, store, Places
    <2>3. CASE ClientGrant(p)
      BY <1>2, <2>1, <2>3, TokenStep DEF Mint, ClientGrant, store, Subjects, Browser
    <2>4. QED
      BY <1>2, <2>2, <2>3 DEF Mint
  <1>3. CASE Reserve(p)
    BY <1>3, GoStep DEF Reserve, store, Places
  <1>4. CASE Register(p)
    BY <1>4, GoStep DEF Register, store, Places
  <1>5. CASE Await(p)
    <2>1. CASE login' = [login EXCEPT ![p].at = "await", ![p].timer = TRUE]
      <3>1. login[p] \in LoginType /\ login \in [Logins -> LoginType]
        BY DEF IInv, Shape
      <3>2. login[p].code \in Codes \cup {Nothing}
        BY <3>1 DEF LoginType
      <3>3. login' = [login EXCEPT ![p].at = "await", ![p].timer = TRUE, ![p].code = login[p].code]
        BY <2>1, <3>1 DEF LoginType
      <3>4. /\ UNCHANGED <<world, agents, browser>> /\ spent \subseteq spent'
            /\ login[p].at # "idle" /\ "await" \in Places \ {"persist", "idle"}
        BY <1>5 DEF Await, store, Places
      <3>5. QED
        BY <3>2, <3>3, <3>4, Moves
    <2>2. CASE Fail(p)
      BY <1>5, <2>2, GoStep DEF Await, store, Places
    <2>3. QED
      BY <1>5, <2>1, <2>2 DEF Await
  <1>6. CASE TimeOut(p)
    BY <1>6, GoStep DEF TimeOut, store, Places
  <1>7. QED
    BY <1>1, <1>2, <1>3, <1>4, <1>5, <1>6

LEMMA OpenPageStep ==
  ASSUME IInv, NEW p \in Logins, OpenPage(p)
  PROVE  IInv'
  <1>1. PICK r : r = [login[p] EXCEPT !.at = "opening"]
    OBVIOUS
  <1>2. login[p] \in LoginType /\ login[p].at = "open"
    BY DEF IInv, Shape, OpenPage, At
  <1>3. r \in LoginType /\ r.at = "opening" /\ r.way = login[p].way /\ r.net = login[p].net
        /\ r.handle = login[p].handle
    BY <1>1, <1>2 DEF LoginType, Places
  <1>4. login' = [login EXCEPT ![p] = r] /\ login'[p] = r
    BY <1>1 DEF IInv, Shape, OpenPage, Go
  <1>5. Asked(p)' /\ Granted(p)'
    BY <1>2, <1>3, <1>4 DEF IInv, Memory, Asked, Granted
  <1>6. pages' \subseteq [of : Logins, port : Ports]
    BY DEF OpenPage, IInv, Shape
  <1>7. QED
    BY <1>3, <1>4, <1>5, <1>6, OneLogin DEF OpenPage, IInv, Shape, store

\* The browser answers a page, or loads the answer of one.
LEMMA BrowserSteps ==
  ASSUME IInv, Listening,
         \/ \E page \in pages, subject \in Subjects : Consent(page, subject)
         \/ \E page \in pages : Deny(page)
         \/ \E answer \in answers : Load(answer)
         \/ \E p \in Logins : Stray(p)
  PROVE  IInv'
  <1>1. ASSUME UNCHANGED <<world, login, spent, store>>,
               pages' \subseteq pages,
               answers' \subseteq [port : Ports, state : Logins, code : Codes \cup {Nothing}]
        PROVE  IInv'
    <2>1. Shape'
      BY <1>1 DEF IInv, Shape, world, store
    <2>2. Memory' /\ RowsMatchConsent'
      BY <1>1 DEF IInv, Memory, Asked, Granted, Dialed, RowsMatchConsent, Stored, world, store
    <2>3. QED
      BY <2>1, <2>2 DEF IInv
  <1>2. ASSUME NEW page \in pages, NEW subject \in Subjects, Consent(page, subject)
        PROVE  IInv'
    <2>1. page.of \in Logins /\ page.port \in Ports
      BY DEF IInv, Shape
    <2>2. [of |-> page.of, subject |-> subject] \in Codes
      BY <2>1 DEF Codes
    <2>3. QED
      BY <1>1, <1>2, <2>1, <2>2 DEF Consent, IInv, Shape
  <1>3. ASSUME NEW page \in pages, Deny(page)
        PROVE  IInv'
    BY <1>1, <1>3 DEF Deny, IInv, Shape
  <1>4. ASSUME NEW answer \in answers, Load(answer)
        PROVE  IInv'
    <2>1. PICK p \in Logins : p = server[answer.port] /\ login[p].at = "await"
      BY <1>4 DEF Load, At, Listening, IInv, Shape
    <2>2. UNCHANGED <<world, agents, browser>> /\ spent \subseteq spent'
      BY <1>4 DEF Load, store
    <2>3. CASE Fail(p)
      BY <2>1, <2>2, <2>3, GoStep DEF Places
    <2>4. CASE /\ answer.code # Nothing
               /\ login' = [login EXCEPT ![p].at = "exchange", ![p].timer = FALSE,
                                         ![p].code = answer.code]
      <3>1. answer.code \in Codes \cup {Nothing}
        BY DEF IInv, Shape
      <3>2. "exchange" \in Places \ {"persist", "idle"}
        BY DEF Places
      <3>3. PICK code \in Codes : code = answer.code
        BY <2>4, <3>1
      <3>4. login' = [login EXCEPT ![p].at = "exchange", ![p].timer = FALSE, ![p].code = code]
        BY <2>4, <3>3
      <3>5. code # Nothing /\ login[p].at # "idle"
        BY <2>1, <2>4, <3>3
      <3>6. QED
        BY <2>1, <2>2, <3>2, <3>4, <3>5, Moves
    <2>5. QED
      BY <1>4, <2>1, <2>3, <2>4 DEF Load
  <1>5. ASSUME NEW p \in Logins, Stray(p)
        PROVE  IInv'
    BY <1>1, <1>5 DEF Stray, NotFound, browser, IInv, Shape
  <1>6. QED
    BY <1>2, <1>3, <1>4, <1>5


\* Only logins listen.
LEMMA ListeningStep == Listening /\ [Next]_vars => Listening'
  <1> SUFFICES ASSUME Listening, [Next]_vars PROVE Listening'
    OBVIOUS
  <1>1. ASSUME NEW p \in Logins, Release(p) PROVE Listening'
    BY <1>1 DEF Release, Listening
  <1>2. ASSUME NEW p \in Logins, Step(p) PROVE Listening'
    <2>1. CASE Reserve(p)
      BY <2>1 DEF Reserve, Listening
    <2>2. CASE ~Reserve(p)
      <3>1. Release(p) \/ server' = server
        BY <1>2, <2>2 DEF Step, Discover, Mint, Register, OpenPage, Await, TimeOut, Exchange,
           PersistAgent, PersistSession, Fail
      <3>2. QED
        BY <1>1, <3>1 DEF Listening
    <2>3. QED
      BY <2>1, <2>2
  <1>3. ASSUME NEW answer \in answers, Load(answer) PROVE Listening'
    <2>1. Release(server[answer.port]) \/ server' = server
      BY <1>3 DEF Load, Fail
    <2>2. QED
      BY <2>1 DEF Release, Listening
  <1>4. CASE server' = server
    BY <1>4 DEF Listening
  <1>5. QED
    <2>1. ASSUME NEW p \in Logins, NEW way \in Ways, NEW net \in Networks,
                 NEW handle \in Handles \cup {Nothing}, Start(p, way, net, handle)
          PROVE  server' = server
      BY <2>1 DEF Start
    <2>2. ASSUME NEW p \in Logins, Stray(p) PROVE server' = server
      BY <2>2 DEF Stray
    <2>3. ASSUME NEW page \in pages,
                 Deny(page) \/ \E subject \in Handles \cup {Account} : Consent(page, subject)
          PROVE  server' = server
      BY <2>3 DEF Deny, Consent
    <2>4. ASSUME (\E net \in Networks, handle \in Handles : Logout(net, handle)) \/ AccountLogout
                 \/ UNCHANGED vars
          PROVE  server' = server
      BY <2>4 DEF Logout, AccountLogout, vars
    <2>5. QED
      BY <1>2, <1>3, <1>4, <2>1, <2>2, <2>3, <2>4 DEF Next

\* The exchange: a code that is the login's own, and is spent.
LEMMA ExchangeStep ==
  ASSUME IInv, NEW p \in Logins, Exchange(p)
  PROVE  IInv'
  <1>1. login[p] \in LoginType /\ login[p].at = "exchange"
    BY DEF IInv, Shape, Exchange, At
  <1>2. UNCHANGED <<world, agents, browser>> /\ spent \subseteq spent'
    BY DEF Exchange, store
  <1>3. CASE Fail(p)
    BY <1>1, <1>2, <1>3, GoStep DEF Places
  <1>4. CASE ~Fail(p)
    <2>1. PICK code \in Codes : code = login[p].code
      BY <1>1 DEF IInv, Memory, Asked
    <2>2. /\ code.of = p /\ spent' = spent \cup {code}
          /\ login' = [login EXCEPT ![p].at = "persist", ![p].token = Token(p, code.subject)]
      BY <1>4, <2>1 DEF Exchange
    <2>3. code.subject \in Subjects
      BY DEF Codes
    <2>4. \E c \in spent' : c.of = p /\ c.subject = code.subject
      BY <2>2
    <2>5. QED
      BY <1>1, <1>2, <2>2, <2>3, <2>4, TokenStep
  <1>5. QED
    BY <1>3, <1>4

\* A row is stored, with the token the login has in memory, or the login is refused.
LEMMA PersistSteps ==
  ASSUME IInv, NEW p \in Logins, PersistAgent(p) \/ PersistSession(p)
  PROVE  IInv'
  <1>1. login[p] \in LoginType /\ login[p].at = "persist" /\ Asked(p) /\ Granted(p)
    BY DEF IInv, Shape, Memory, PersistAgent, PersistSession, At
  <1>2. CASE PersistSession(p) \/ (PersistAgent(p) /\ ~(Accepted(p) /\ RightNetwork(p)))
    <2>1. PICK at \in {"done", "failed"} : Go(p, at) /\ UNCHANGED <<world, agents, browser>> /\ spent' = spent
      BY <1>2 DEF PersistSession, PersistAgent
    <2>2. QED
      BY <1>1, <2>1, GoStep DEF Places
  <1>3. CASE PersistAgent(p) /\ Accepted(p) /\ RightNetwork(p)
    <2>1. PICK r : r = Row(p)
      OBVIOUS
    <2>2. /\ agents' = [agents EXCEPT ![Key(p)] = r] /\ Go(p, "done")
          /\ UNCHANGED <<world, server, browser, spent, session>> /\ login[p].way # "account"
      BY <1>3, <2>1 DEF PersistAgent
    <2>3. r.way = login[p].way /\ r.token = login[p].token /\ r.by = p
      BY <2>1 DEF Row
    <2>4. login[p].way \in {"client", "handle", "picker"} /\ login[p].net \in Networks
      BY <1>1, <2>2, LoginAssumption DEF Asked, AllWays
    <2>5. ASSUME r.way \in Browser
          PROVE  /\ \E code \in spent' : code.of = r.by /\ code.subject = r.token.subject
                 /\ r.token.server \in modern => r.token.server = Key(p)[1] /\ r.token.subject = Key(p)[2]
      <3>1. \E code \in spent' : code.of = r.by /\ code.subject = r.token.subject
        BY <1>1, <2>2, <2>3, <2>5 DEF Granted
      <3>2. login[p].way \in {"handle", "picker"}
        BY <2>3, <2>4, <2>5 DEF Browser
      <3>3. ASSUME r.token.server \in modern
            PROVE  r.token.server = Key(p)[1] /\ r.token.subject = Key(p)[2]
        <4>1. Dialed(p) \in modern /\ r.token.server = login[p].net
          BY <1>1, <1>3, <2>3, <3>2, <3>3 DEF Granted, RightNetwork
        <4>2. Echo(p) = r.token.subject
          BY <2>3, <3>2, <4>1 DEF Echo
        <4>3. CASE login[p].way = "picker"
          BY <4>1, <4>2, <4>3 DEF Key
        <4>4. CASE login[p].way = "handle"
          <5>1. r.token.subject \in {Nothing, login[p].handle}
            BY <1>3, <4>2, <4>4 DEF Accepted
          <5>2. r.token.subject # Nothing
            BY <1>1, <2>3, LoginAssumption DEF Granted, Tokens, Subjects
          <5>3. QED
            BY <4>1, <4>4, <5>1, <5>2 DEF Key
        <4>5. QED
          BY <3>2, <4>3, <4>4
      <3>4. QED
        BY <3>1, <3>3
    <2>6. RowsMatchConsent'
      <3>1. ASSUME NEW row \in Networks \X Handles, agents'[row] # Nothing, agents'[row].way \in Browser
            PROVE  LET q == agents'[row] IN
                   /\ \E code \in spent' : code.of = q.by /\ code.subject = q.token.subject
                   /\ q.token.server \in modern' => q.token.server = row[1] /\ q.token.subject = row[2]
        <4>1. modern' = modern /\ spent' = spent
          BY <2>2 DEF world
        <4>2. CASE row = Key(p)
          <5>1. agents'[row] = r
            BY <2>2, <4>2 DEF IInv, Shape
          <5>2. QED
            BY <2>5, <3>1, <4>1, <4>2, <5>1
        <4>3. CASE row # Key(p)
          <5>1. agents'[row] = agents[row]
            BY <2>2, <4>3 DEF IInv, Shape
          <5>2. QED
            BY <3>1, <4>1, <5>1 DEF IInv, RowsMatchConsent, Stored
        <4>4. QED
          BY <4>2, <4>3
      <3>2. QED
        BY <3>1 DEF RowsMatchConsent, Stored
    <2>7. Shape' /\ Memory'
      <3>1. PICK u : u = [login[p] EXCEPT !.at = "done"]
        OBVIOUS
      <3>2. u \in LoginType /\ u.at = "done" /\ u.way = login[p].way /\ u.net = login[p].net
            /\ u.handle = login[p].handle
        BY <1>1, <3>1 DEF LoginType, Places
      <3>3. login' = [login EXCEPT ![p] = u]
        BY <2>2, <3>1 DEF Go
      <3>4. Shape'
        BY <2>2, <3>2, <3>3 DEF IInv, Shape, world, browser
      <3>5. ASSUME NEW q \in Logins PROVE Asked(q)' /\ Granted(q)'
        <4>1. CASE q = p
          <5>1. login'[q] = u
            BY <3>3, <4>1 DEF IInv, Shape
          <5>2. QED
            BY <1>1, <3>2, <4>1, <5>1 DEF Asked, Granted
        <4>2. CASE q # p
          <5>1. login'[q] = login[q] /\ spent' = spent /\ wiring' = wiring
            BY <2>2, <3>3, <4>2 DEF IInv, Shape, world
          <5>2. Asked(q) /\ Granted(q)
            BY DEF IInv, Memory
          <5>3. QED
            BY <5>1, <5>2 DEF Asked, Granted, Dialed
        <4>3. QED
          BY <4>1, <4>2
      <3>6. QED
        BY <3>4, <3>5 DEF Memory
    <2>8. QED
      BY <2>6, <2>7 DEF IInv
  <1>4. QED
    BY <1>2, <1>3

\* Logouts only take rows away.
LEMMA LogoutSteps ==
  ASSUME IInv, (\E net \in Networks, handle \in Handles : Logout(net, handle)) \/ AccountLogout
  PROVE  IInv'
  <1>1. UNCHANGED <<world, login, browser, spent>> /\ DOMAIN agents' = Networks \X Handles
    BY DEF IInv, Shape, Logout, AccountLogout
  <1>2. \A row \in Networks \X Handles : agents'[row] \in {agents[row], Nothing}
    BY DEF IInv, Shape, Logout, AccountLogout
  <1>3. Shape' /\ Memory'
    BY <1>1 DEF IInv, Shape, Memory, Asked, Granted, Dialed, world, browser
  <1>4. RowsMatchConsent'
    <2>1. \A row \in Networks \X Handles : agents'[row] # Nothing => agents'[row] = agents[row]
      BY <1>2
    <2>2. modern' = modern /\ spent' = spent
      BY <1>1 DEF world
    <2>3. QED
      BY <2>1, <2>2 DEF IInv, RowsMatchConsent, Stored
  <1>5. QED
    BY <1>3, <1>4 DEF IInv

LEMMA NextStep == IInv /\ Listening /\ [Next]_vars => IInv'
  <1> SUFFICES ASSUME IInv, Listening, [Next]_vars PROVE IInv'
    OBVIOUS
  <1>1. ASSUME NEW p \in Logins, Step(p) PROVE IInv'
    BY <1>1, EarlySteps, OpenPageStep, ExchangeStep, PersistSteps DEF Step
  <1>2. ASSUME NEW page \in pages, NEW subject \in Handles \cup {Account}, Consent(page, subject)
        PROVE  IInv'
    BY <1>2, BrowserSteps DEF Subjects
  <1>3. CASE UNCHANGED vars
    BY <1>3 DEF vars, world, browser, store, IInv, Shape, Memory, Asked, Granted, Dialed, RowsMatchConsent, Stored
  <1>4. QED
    BY <1>1, <1>2, <1>3, StartStep, BrowserSteps, LogoutSteps DEF Next

-----------------------------------------------------------------------------
\* What a browser login has stored for an agent is a token the user consented to on the
\* page of that very login, whichever pages were answered late, twice or for a port that
\* had changed hands; and where the server says which network and agent it is for, it is
\* stored under those.
THEOREM ConsentIsKept == Spec => []RowsMatchConsent
  <1>1. IInv => RowsMatchConsent
    BY DEF IInv
  <1>2. Init => Listening
    BY DEF Init, Listening
  <1>3. QED
    BY <1>1, <1>2, InitFacts, NextStep, ListeningStep, PTL DEF Spec

=============================================================================
