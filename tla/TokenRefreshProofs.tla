-------------------------- MODULE TokenRefreshProofs --------------------------
(***************************************************************************)
(* Theorems of TokenRefresh, for every number of processes, logins,         *)
(* expiries and calls, and whether or not the server revokes a family.      *)
(*                                                                          *)
(* The lock works because, while no holder dies or sleeps, the directory    *)
(* exists exactly while some caller holds it, is that caller's, and is      *)
(* never stale (LockInv).  Rotation works because under it the live token   *)
(* of the agent is in one of two places: the row, or the caller that has    *)
(* just been granted it (TokenInv), and no account renewal can touch it,    *)
(* since agent and account never share a family (FamilyInv).                *)
(***************************************************************************)
EXTENDS TokenRefresh, TLAPS

\* What a caller may hold in its record: account callers never come near the lock,
\* and an agent caller renews inside it.
CallOf(p) ==
  {c \in Call :
     /\ p \in UserCallers => /\ c.pc \in {"idle", "sent", "granted", "rejected", "dead"}
                             /\ ~c.held
     /\ p \in AgentCallers => (c.pc \in {"sent", "granted", "rejected"} => c.held)}

ShapeInv == \A p \in Callers : call[p] \in CallOf(p)

\* The directory is there exactly while somebody is inside, and never goes stale.
LockOK ==
  /\ lock # Free => ~lock.stale
  /\ \A p \in AgentCallers : /\ call[p].pc \notin {"dead", "clear"}
                             /\ call[p].held <=> (lock # Free /\ lock.owner = p)

Undisturbed == mishaps \cap {"death", "nap"} = {}

LockInv == Undisturbed => LockOK

\* A caller that works with a refresh token.
Uses(p) == call[p].pc \in {"sent", "granted", "rejected"}

\* The families of the agent's tokens, and of the account's.
AgentFamily(f) == \/ agent.kind = "pkce" /\ agent.token[1] = f
                  \/ \E p \in AgentCallers : Uses(p) /\ call[p].token[1] = f
UserFamily(f) == \/ session.kind = "pkce" /\ session.token[1] = f
                 \/ \E p \in UserCallers : Uses(p) /\ call[p].token[1] = f

FamilyInv ==
  /\ \A f \in Nat : AgentFamily(f) => f < logins /\ ~UserFamily(f)
  /\ \A f \in Nat : UserFamily(f) => f < logins

\* The live token is with the caller that was granted it, or else in the row.
TokensOK ==
  /\ \A p \in AgentCallers : call[p].pc \in {"sent", "granted"} => call[p].token \in live
  /\ \A p \in AgentCallers : call[p].pc \notin {"rejected", "delete"}
  /\ (agent.kind = "pkce" /\ \A p \in AgentCallers : ~At(p, "granted")) => agent.token \in live

TokenInv == mishaps = {} => TokensOK

IInv == TypeOK /\ ShapeInv /\ LockInv /\ FamilyInv /\ TokenInv

-----------------------------------------------------------------------------
\* What a step does to the callers' records

CallsOK == call \in [Callers -> Call] /\ ShapeInv

\* One caller's record becomes one it may hold.
LEMMA ChangeKeepsCalls ==
  ASSUME CallsOK, NEW p \in Callers, NEW c \in CallOf(p), call' = [call EXCEPT ![p] = c]
  PROVE  CallsOK'
<1>1. c \in Call /\ c \in CallOf(p)'
  BY DEF CallOf
<1>2. \A q \in Callers : call'[q] = IF q = p THEN c ELSE call[q]
  BY DEF CallsOK
<1>3. call' \in [Callers -> Call]
  BY <1>1 DEF CallsOK
<1> QED
  BY <1>2, <1>3 DEF CallsOK, ShapeInv, CallOf

LEMMA IdleIsACall == \A p \in Callers : Idle \in CallOf(p)
  BY DEF CallOf, Idle, Call, NoToken, Token

\* Leaving the critical section, or the function.
LEMMA LeaveKeepsCalls ==
  ASSUME CallsOK, NEW p \in Callers, Leave(p)
  PROVE  CallsOK'
<1> DEFINE c == IF call[p].held THEN [call[p] EXCEPT !.pc = "unlock"] ELSE Idle
<1>1. call' = [call EXCEPT ![p] = c]
  BY DEF Leave
<1>2. call[p] \in CallOf(p) /\ call[p] \in Call
  BY DEF CallsOK, ShapeInv
<1>3. Idle \in CallOf(p)
  BY IdleIsACall
<1>4. c \in CallOf(p)
  <2>1. CASE call[p].held
    BY <1>2, <2>1 DEF CallOf, Call
  <2>2. CASE ~call[p].held
    BY <1>3, <2>2
  <2> QED
    BY <2>1, <2>2
<1> HIDE DEF c
<1> QED
  BY <1>1, <1>4, ChangeKeepsCalls

\* Any other change of program counter.
LEMMA GotoKeepsCalls ==
  ASSUME CallsOK, NEW p \in Callers, NEW pc, Goto(p, pc),
         [call[p] EXCEPT !.pc = pc] \in CallOf(p)
  PROVE  CallsOK'
<1> DEFINE c == [call[p] EXCEPT !.pc = pc]
<1>1. call' = [call EXCEPT ![p] = c]
  BY DEF Goto
<1>2. c \in CallOf(p)
  OBVIOUS
<1> HIDE DEF c
<1> QED
  BY <1>1, <1>2, ChangeKeepsCalls

LEMMA CallsArePreserved == TypeOK /\ ShapeInv /\ [Next]_vars => CallsOK'
<1> SUFFICES ASSUME TypeOK, ShapeInv, [Next]_vars PROVE CallsOK'
  OBVIOUS
<1>0. CallsOK
  BY DEF TypeOK, CallsOK
<1>1. \A p \in Callers : call[p] \in Call /\ call[p] \in CallOf(p)
  BY DEF TypeOK, ShapeInv
<1>2. \A p \in AgentCallers : p \in Callers /\ p \notin UserCallers
  BY TokenRefreshAssumption DEF Callers
<1>3. \A p \in UserCallers : p \in Callers /\ p \notin AgentCallers
  BY TokenRefreshAssumption DEF Callers
<1>4. ASSUME NEW p \in AgentCallers, Resolve(p) PROVE CallsOK'
  BY <1>0, <1>1, <1>2, <1>4, GotoKeepsCalls DEF Resolve, At, CallOf, Call
<1>5. ASSUME NEW p \in UserCallers, UserResolve(p) PROVE CallsOK'
  <2> DEFINE c == [call[p] EXCEPT !.pc = "sent", !.token = session.token]
  <2>1. p \in Callers /\ call[p] \in Call /\ call[p] \in CallOf(p)
    BY <1>5, <1>1, <1>2, <1>3
  <2>2. call' = [call EXCEPT ![p] = c]
    BY <1>5 DEF UserResolve
  <2>3. c \in CallOf(p)
    BY <1>5, <1>1, <1>2, <1>3, <2>1 DEF UserResolve, At, CallOf, Call, TypeOK, Row
  <2> HIDE DEF c
  <2> QED
    BY <1>0, <2>1, <2>2, <2>3, ChangeKeepsCalls
<1>6. ASSUME NEW p \in Callers, Mkdir(p) PROVE CallsOK'
  <2>1. CASE lock # Free
    BY <1>0, <1>1, <1>6, <2>1, GotoKeepsCalls DEF Mkdir, At, CallOf, Call
  <2>2. CASE lock = Free
    <3> DEFINE c == [call[p] EXCEPT !.pc = "tag", !.held = TRUE]
    <3>1. call' = [call EXCEPT ![p] = c]
      BY <1>6, <2>2 DEF Mkdir
    <3>2. c \in CallOf(p)
      BY <1>6, <1>1 DEF Mkdir, At, CallOf, Call
    <3> HIDE DEF c
    <3> QED
      BY <1>0, <3>1, <3>2, ChangeKeepsCalls
  <2> QED
    BY <2>1, <2>2
<1>7. ASSUME NEW p \in Callers, Stat(p) PROVE CallsOK'
  <2>1. ASSUME NEW pc \in {"lock", "clear"}, Goto(p, pc) PROVE CallsOK'
    BY <1>0, <1>1, <1>7, <2>1, GotoKeepsCalls DEF Stat, At, CallOf, Call
  <2>2. ASSUME call' = [call EXCEPT ![p] = Idle] PROVE CallsOK'
    BY <1>0, <2>2, IdleIsACall, ChangeKeepsCalls
  <2> QED
    BY <1>7, <2>1, <2>2 DEF Stat
<1>8. ASSUME NEW p \in Callers, Late(p) PROVE CallsOK'
  <2> DEFINE c == [call[p] EXCEPT !.late = TRUE]
  <2>1. p \in Callers /\ call[p] \in Call /\ call[p] \in CallOf(p)
    BY <1>8, <1>1, <1>2, <1>3
  <2>2. call' = [call EXCEPT ![p] = c]
    BY <1>8 DEF Late
  <2>3. c \in CallOf(p)
    BY <1>8, <1>1, <1>2, <1>3, <2>1 DEF Late, At, CallOf, Call
  <2> HIDE DEF c
  <2> QED
    BY <1>0, <2>1, <2>2, <2>3, ChangeKeepsCalls
<1>9. ASSUME NEW p \in Callers, Clear(p) PROVE CallsOK'
  BY <1>0, <1>1, <1>2, <1>3, <1>9, GotoKeepsCalls DEF Clear, At, CallOf, Call
<1>10. ASSUME NEW p \in Callers, Tag(p) PROVE CallsOK'
  BY <1>0, <1>1, <1>2, <1>3, <1>10, GotoKeepsCalls DEF Tag, At, CallOf, Call
<1>11. ASSUME NEW p \in Callers, Unlock(p) PROVE CallsOK'
  BY <1>0, <1>11, IdleIsACall, ChangeKeepsCalls DEF Unlock
<1>12. ASSUME NEW p \in Callers, Reread(p) PROVE CallsOK'
  <2>1. CASE Leave(p)
    BY <1>0, <2>1, LeaveKeepsCalls
  <2>2. CASE Goto(p, "mint")
    BY <1>0, <1>1, <1>12, <2>2, GotoKeepsCalls DEF Reread, At, CallOf, Call
  <2>3. CASE call' = [call EXCEPT ![p].pc = "sent", ![p].token = agent.token]
    <3> DEFINE c == [call[p] EXCEPT !.pc = "sent", !.token = agent.token]
    <3>1. call' = [call EXCEPT ![p] = c]
      BY <2>3
    <3>2. c \in CallOf(p)
      BY <1>12, <1>1 DEF Reread, At, CallOf, Call, TypeOK, Row
    <3> HIDE DEF c
    <3> QED
      BY <1>0, <3>1, <3>2, ChangeKeepsCalls
  <2> QED
    BY <1>12, <2>1, <2>2, <2>3 DEF Reread
<1>13. ASSUME NEW p \in Callers, Mint(p) \/ PutMinted(p) PROVE CallsOK'
  <2>1. CASE Leave(p)
    BY <1>0, <2>1, LeaveKeepsCalls
  <2>2. CASE At(p, "mint") /\ Goto(p, "minted")
    BY <1>0, <1>1, <2>2, GotoKeepsCalls DEF At, CallOf, Call
  <2> QED
    BY <1>13, <2>1, <2>2 DEF Mint, PutMinted
<1>14. ASSUME NEW p \in Callers, Put(p) PROVE CallsOK'
  BY <1>0, <1>14, LeaveKeepsCalls DEF Put
<1>15. ASSUME NEW p \in Callers, Check(p) PROVE CallsOK'
  <2>1. CASE Leave(p)
    BY <1>0, <2>1, LeaveKeepsCalls
  <2>2. CASE Goto(p, "delete")
    BY <1>0, <1>1, <1>2, <1>15, <2>2, GotoKeepsCalls DEF Check, At, CallOf, Call
  <2> QED
    BY <1>15, <2>1, <2>2 DEF Check
<1>16. ASSUME NEW p \in Callers, Delete(p) PROVE CallsOK'
  BY <1>0, <1>16, LeaveKeepsCalls DEF Delete
<1>17. ASSUME NEW p \in Callers, UserPut(p) PROVE CallsOK'
  BY <1>0, <1>17, LeaveKeepsCalls DEF UserPut
<1>18. ASSUME NEW p \in Callers, UserDelete(p) PROVE CallsOK'
  BY <1>0, <1>18, LeaveKeepsCalls DEF UserDelete
<1>19. ASSUME NEW p \in Callers, Serve(p) PROVE CallsOK'
  <2>1. CASE Goto(p, "rejected")
    BY <1>0, <1>1, <1>19, <2>1, GotoKeepsCalls DEF Serve, At, CallOf, Call
  <2>2. CASE call' = [call EXCEPT ![p].pc = "granted", ![p].token = Rotated(call[p].token)]
    <3> DEFINE c == [call[p] EXCEPT !.pc = "granted", !.token = Rotated(call[p].token)]
    <3>1. call' = [call EXCEPT ![p] = c]
      BY <2>2
    <3>2. c \in CallOf(p)
      <4>1. call[p] \in Call /\ call[p] \in CallOf(p) /\ call[p].pc = "sent"
        BY <1>1, <1>19 DEF Serve, At
      <4>2. call[p].token \in Token
        BY <4>1 DEF Call
      <4>3. Rotated(call[p].token) \in Token
        BY <4>2 DEF Token, Rotated
      <4> QED
        BY <4>1, <4>3 DEF CallOf, Call
    <3> HIDE DEF c
    <3> QED
      BY <1>0, <3>1, <3>2, ChangeKeepsCalls
  <2> QED
    BY <1>19, <2>1, <2>2 DEF Serve
<1>20. ASSUME NEW p \in Callers, FailRequest(p) PROVE CallsOK'
  BY <1>0, <1>20, LeaveKeepsCalls DEF FailRequest
<1>21. ASSUME NEW p \in Callers, LoseAnswer(p) PROVE CallsOK'
  BY <1>0, <1>21, LeaveKeepsCalls DEF LoseAnswer
<1>22. ASSUME NEW p \in Callers, Die(p) PROVE CallsOK'
  BY <1>0, <1>1, <1>2, <1>3, <1>22, GotoKeepsCalls DEF Die, At, CallOf, Call
<1>23. CASE UNCHANGED call
  BY <1>0, <1>23 DEF CallsOK, ShapeInv, CallOf
<1> QED
  BY <1>4, <1>5, <1>6, <1>7, <1>8, <1>9, <1>10, <1>11, <1>12, <1>13, <1>14,
     <1>15, <1>16, <1>17, <1>18, <1>19, <1>20, <1>21, <1>22, <1>23
     DEF Next, vars, Step, LockStep, RenewStep, UserStep, Login, AccountLogin, RemoveAgent,
         Drop, AccountLogout, Expire, Age, Nap

-----------------------------------------------------------------------------
\* Type correctness

LEMMA RowsAreTyped ==
  /\ NoRow \in Row /\ Client \in Row
  /\ \A t \in Token : Pkce(t) \in Row /\ Rotated(t) \in Token
  BY DEF NoRow, Client, Pkce, Rotated, Row, Token, NoToken

\* The rows and the directory.
LEMMA StoreIsTyped ==
  TypeOK /\ ShapeInv /\ [Next]_vars =>
    agent' \in Row /\ session' \in Row /\ lock' \in Lock /\ live' \subseteq Token
<1> SUFFICES ASSUME TypeOK, ShapeInv, [Next]_vars
             PROVE  agent' \in Row /\ session' \in Row /\ lock' \in Lock /\ live' \subseteq Token
  OBVIOUS
<1> DEFINE Typed == agent' \in Row /\ session' \in Row /\ lock' \in Lock /\ live' \subseteq Token
<1>1. agent \in Row /\ session \in Row /\ lock \in Lock /\ live \subseteq Token
  BY DEF TypeOK
<1>2. \A p \in Callers : call[p] \in CallOf(p) /\ call[p].token \in Token
  BY DEF ShapeInv, CallOf, Call
<1>3. /\ Free \in Lock
      /\ \A p \in AgentCallers : [there |-> TRUE, owner |-> p, stale |-> FALSE] \in Lock
  BY DEF Lock
<1>4. <<logins, 0>> \in Token
  BY TokenRefreshAssumption DEF TypeOK, Token
<1>5. ASSUME NEW p \in Callers, Mkdir(p) PROVE Typed
  <2>1. p \in AgentCallers
    BY <1>2, <1>5 DEF Mkdir, At, CallOf, Callers
  <2> QED
    BY <1>1, <1>3, <1>5, <2>1 DEF Mkdir
<1>6. ASSUME NEW p \in Callers, Clear(p) \/ Unlock(p) PROVE Typed
  BY <1>1, <1>3, <1>6 DEF Clear, Unlock
<1>7. ASSUME NEW p \in Callers,
             PutMinted(p) \/ Put(p) \/ Delete(p) \/ UserPut(p) \/ UserDelete(p)
      PROVE  Typed
  BY <1>1, <1>2, <1>7, RowsAreTyped DEF PutMinted, Put, Delete, UserPut, UserDelete
<1>8. ASSUME NEW p \in Callers, Serve(p) PROVE Typed
  BY <1>1, <1>2, <1>8, RowsAreTyped DEF Serve
<1>9. CASE Login(Pkce(<<logins, 0>>))
  <2>1. Pkce(<<logins, 0>>).token = <<logins, 0>>
    BY DEF Pkce
  <2> QED
    BY <1>1, <1>4, <1>9, <2>1, RowsAreTyped DEF Login
<1>10. CASE Login(Client) \/ AccountLogin
  <2>1. Client.kind = "client"
    BY DEF Client
  <2> QED
    BY <1>1, <1>4, <1>10, <2>1, RowsAreTyped DEF Login, AccountLogin
<1>11. CASE RemoveAgent \/ Drop \/ AccountLogout
  BY <1>1, <1>11, RowsAreTyped DEF RemoveAgent, Drop, AccountLogout
<1>12. CASE Expire
  <2>1. \A row \in Row : [row EXCEPT !.valid = FALSE] \in Row
    BY DEF Row
  <2> QED
    BY <1>1, <1>12, <2>1 DEF Expire
<1>13. CASE Age \/ Nap
  <2>1. lock # Free /\ lock' = [lock EXCEPT !.stale = TRUE]
    BY <1>13 DEF Age, Nap
  <2>2. lock' \in Lock
    BY <1>1, <2>1 DEF Lock
  <2>3. UNCHANGED <<agent, session, live>>
    BY <1>13 DEF Age, Nap
  <2> QED
    BY <1>1, <2>2, <2>3
<1>14. CASE UNCHANGED <<agent, session, live, lock>>
  BY <1>1, <1>14
<1> QED
  BY <1>5, <1>6, <1>7, <1>8, <1>9, <1>10, <1>11, <1>12, <1>13, <1>14
     DEF Next, vars, Step, LockStep, RenewStep, UserStep, Resolve, UserResolve, Stat, Late, Tag,
         Reread, Mint, Check, FailRequest, LoseAnswer, Die

\* The counters and flags.
CountersTyped ==
  /\ removing \in BOOLEAN /\ gone \in BOOLEAN
  /\ logins \in 0..MaxLogins /\ expiries \in 0..MaxExpiries /\ asks \in 0..MaxAsks
  /\ mishaps \subseteq Mishaps

LEMMA CountersAreTyped == TypeOK /\ [Next]_vars => CountersTyped'
<1> SUFFICES ASSUME TypeOK, [Next]_vars PROVE CountersTyped'
  OBVIOUS
<1>1. CountersTyped /\ MaxLogins \in Nat /\ MaxExpiries \in Nat /\ MaxAsks \in Nat
  BY TokenRefreshAssumption DEF TypeOK, CountersTyped
<1>2. UNCHANGED <<removing, gone, logins, expiries, mishaps>> /\ asks' \in 0..MaxAsks
      => CountersTyped'
  BY <1>1 DEF CountersTyped
<1>3. ASSUME NEW p \in Callers, Resolve(p) \/ UserResolve(p) PROVE CountersTyped'
  <2>1. asks < MaxAsks /\ asks' = asks + 1
    BY <1>3 DEF Resolve, UserResolve
  <2>2. asks' \in 0..MaxAsks
    BY <1>1, <2>1 DEF CountersTyped
  <2> QED
    BY <1>2, <1>3, <2>2 DEF Resolve, UserResolve
<1>4. ASSUME NEW p \in Callers, Mint(p) \/ PutMinted(p) PROVE CountersTyped'
  BY <1>1, <1>4 DEF Mint, PutMinted, CountersTyped
<1>5. ASSUME NEW p \in Callers, LoseAnswer(p) \/ Die(p) PROVE CountersTyped'
  BY <1>1, <1>5 DEF LoseAnswer, Die, CountersTyped
<1>6. ASSUME NEW row, Login(row) PROVE CountersTyped'
  <2>1. /\ logins < MaxLogins /\ logins' = logins + 1 /\ gone' = FALSE
        /\ UNCHANGED <<removing, expiries, asks, mishaps>>
    BY <1>6 DEF Login
  <2>2. gone' \in BOOLEAN /\ removing' \in BOOLEAN
    BY <1>1, <2>1 DEF CountersTyped
  <2>3. logins' \in 0..MaxLogins /\ expiries' \in 0..MaxExpiries /\ asks' \in 0..MaxAsks
    BY <1>1, <2>1 DEF CountersTyped
  <2> QED
    BY <1>1, <2>1, <2>2, <2>3 DEF CountersTyped
<1>7. CASE AccountLogin \/ Expire
  BY <1>1, <1>7 DEF AccountLogin, Expire, CountersTyped
<1>8. CASE RemoveAgent \/ Nap \/ Drop
  BY <1>1, <1>8 DEF RemoveAgent, Nap, Drop, CountersTyped
<1>9. CASE UNCHANGED <<removing, gone, logins, expiries, asks, mishaps>>
  BY <1>1, <1>2, <1>9 DEF CountersTyped
<1>10. ASSUME NEW p \in Callers, Step(p) \/ Late(p) PROVE CountersTyped'
  BY <1>4, <1>5, <1>9, <1>10
     DEF Step, LockStep, RenewStep, UserStep, Mkdir, Stat, Clear, Tag, Unlock, Late, Reread, Put,
         Check, Delete, UserPut, UserDelete, Serve, FailRequest
<1>11. CASE AccountLogout \/ Age \/ UNCHANGED vars
  BY <1>9, <1>11 DEF AccountLogout, Age, vars
<1> QED
  BY <1>3, <1>5, <1>6, <1>7, <1>8, <1>10, <1>11 DEF Next, Callers

LEMMA ShapeIsInductive ==
  /\ Init => TypeOK /\ ShapeInv
  /\ TypeOK /\ ShapeInv /\ [Next]_vars => TypeOK' /\ ShapeInv'
<1>1. Init => TypeOK /\ ShapeInv
  <2> SUFFICES ASSUME Init PROVE TypeOK /\ ShapeInv
    OBVIOUS
  <2>1. Idle \in Call
    BY DEF Call, Idle, Token, NoToken
  <2>2. call \in [Callers -> Call] /\ \A p \in Callers : call[p] = Idle
    BY <2>1 DEF Init
  <2>3. ShapeInv
    BY <2>2, IdleIsACall DEF ShapeInv
  <2>4. agent \in Row /\ session \in Row /\ lock \in Lock /\ live \subseteq Token
    BY RowsAreTyped DEF Init, Lock
  <2>5. removing \in BOOLEAN /\ gone \in BOOLEAN
    BY DEF Init
  <2>6. logins \in 0..MaxLogins /\ expiries \in 0..MaxExpiries /\ asks \in 0..MaxAsks
    BY TokenRefreshAssumption DEF Init
  <2>7. mishaps \subseteq Mishaps
    BY DEF Init
  <2> QED
    BY <2>2, <2>3, <2>4, <2>5, <2>6, <2>7 DEF TypeOK
<1>2. TypeOK /\ ShapeInv /\ [Next]_vars => TypeOK' /\ ShapeInv'
  BY CallsArePreserved, StoreIsTyped, CountersAreTyped DEF TypeOK, CallsOK, CountersTyped
<1> QED
  BY <1>1, <1>2

\* Every variable keeps its declared shape: in particular no account renewal ever
\* enters the lock's critical section, and no agent renewal leaves it early.
THEOREM TypeCorrect == Spec => []TypeOK
  BY ShapeIsInductive, PTL DEF Spec

-----------------------------------------------------------------------------
\* The lock

\* The directory stays, and so does what the caller that moves holds of it.
LEMMA LockOutlivesMove ==
  ASSUME CallsOK, LockOK, lock' = lock, NEW p \in Callers, NEW c \in Call,
         call' = [call EXCEPT ![p] = c],
         c.held = call[p].held, p \in AgentCallers => c.pc \notin {"dead", "clear"}
  PROVE  LockOK'
<1>1. \A q \in Callers : call'[q] = IF q = p THEN c ELSE call[q]
  BY DEF CallsOK
<1>2. ASSUME NEW q \in AgentCallers
      PROVE  /\ call'[q].pc \notin {"dead", "clear"}
             /\ call'[q].held <=> (lock' # Free /\ lock'.owner = q)
  <2>1. CASE q = p
    BY <1>1, <2>1 DEF LockOK, Callers
  <2>2. CASE q # p
    BY <1>1, <2>2 DEF LockOK, Callers
  <2> QED
    BY <2>1, <2>2
<1> QED
  BY <1>2 DEF LockOK

LEMMA LockOutlivesGoto ==
  ASSUME CallsOK, LockOK, lock' = lock, NEW p \in Callers,
         NEW pc \in {"idle", "lock", "stat", "tag", "reread", "mint", "sent", "granted",
                     "rejected", "delete", "unlock", "minted"},
         Goto(p, pc), CallsOK'
  PROVE  LockOK'
<1> DEFINE c == [call[p] EXCEPT !.pc = pc]
<1>1. call[p] \in Call /\ call' = [call EXCEPT ![p] = c] /\ call'[p] = c
  BY DEF CallsOK, Goto
<1>2. c \in Call /\ c.held = call[p].held /\ c.pc = pc
  BY <1>1 DEF CallsOK, Call
<1> HIDE DEF c
<1> QED
  BY <1>1, <1>2, LockOutlivesMove

LEMMA LockOutlivesLeave ==
  ASSUME CallsOK, LockOK, lock' = lock, NEW p \in Callers, Leave(p)
  PROVE  LockOK'
<1> DEFINE c == IF call[p].held THEN [call[p] EXCEPT !.pc = "unlock"] ELSE Idle
<1>1. call[p] \in Call /\ call' = [call EXCEPT ![p] = c]
  BY DEF CallsOK, Leave
<1>2. c \in Call /\ c.held = call[p].held /\ c.pc \notin {"dead", "clear"}
  <2>1. CASE call[p].held
    BY <1>1, <2>1 DEF Call
  <2>2. CASE ~call[p].held
    BY <1>1, <2>2 DEF Call, Idle, Token, NoToken
  <2> QED
    BY <2>1, <2>2
<1> HIDE DEF c
<1> QED
  BY <1>1, <1>2, LockOutlivesMove

LEMMA LockOKIsPreserved ==
  ASSUME TypeOK, ShapeInv, LockOK, [Next]_vars, Undisturbed'
  PROVE  LockOK'
<1>0. CallsOK /\ CallsOK'
  BY CallsArePreserved DEF TypeOK, CallsOK
<1>1. \A p \in Callers : call[p] \in Call /\ call[p] \in CallOf(p)
  BY DEF TypeOK, ShapeInv
<1>2. \A p \in Callers : p \in AgentCallers \/ p \in UserCallers
  BY DEF Callers
<1>3. ASSUME NEW p \in AgentCallers, Resolve(p) PROVE LockOK'
  BY <1>0, <1>3, LockOutlivesGoto DEF Resolve, Callers
<1>4. ASSUME NEW p \in UserCallers, UserResolve(p) PROVE LockOK'
  <2>1. p \in Callers /\ p \notin AgentCallers /\ lock' = lock
    BY <1>4, TokenRefreshAssumption DEF Callers, UserResolve
  <2>2. \A q \in AgentCallers : call'[q] = call[q]
    BY <1>0, <1>4, <2>1 DEF UserResolve, CallsOK, Callers
  <2> QED
    BY <2>1, <2>2 DEF LockOK
<1>5. ASSUME NEW p \in Callers, Mkdir(p) PROVE LockOK'
  <2>1. CASE lock # Free
    BY <1>0, <1>5, <2>1, LockOutlivesGoto DEF Mkdir
  <2>2. CASE lock = Free
    <3>1. \A q \in AgentCallers :
            call'[q] = IF q = p THEN [call[p] EXCEPT !.pc = "tag", !.held = TRUE] ELSE call[q]
      BY <1>0, <1>5, <2>2 DEF Mkdir, CallsOK, Callers
    <3>2. lock' = [there |-> TRUE, owner |-> p, stale |-> FALSE]
      BY <1>5, <2>2 DEF Mkdir
    <3>3. lock' # Free /\ lock'.owner = p /\ ~lock'.stale
      BY <3>2 DEF Free
    <3>4. ASSUME NEW q \in AgentCallers
          PROVE  call'[q].pc \notin {"dead", "clear"} /\ (call'[q].held <=> q = p)
      <4>1. CASE q = p
        <5>1. call'[p] = [call[p] EXCEPT !.pc = "tag", !.held = TRUE] /\ call[p] \in Call
          BY <1>1, <3>1, <4>1
        <5>2. call'[p].pc = "tag" /\ call'[p].held = TRUE
          BY <5>1 DEF Call
        <5> QED
          BY <4>1, <5>2
      <4>2. CASE q # p
        BY <2>2, <3>1, <4>2 DEF LockOK
      <4> QED
        BY <4>1, <4>2
    <3> QED
      BY <3>3, <3>4 DEF LockOK
  <2> QED
    BY <2>1, <2>2
<1>6. ASSUME NEW p \in Callers, Stat(p) PROVE LockOK'
  <2>1. CASE Goto(p, "lock")
    BY <1>0, <1>6, <2>1, LockOutlivesGoto DEF Stat
  <2>2. CASE call' = [call EXCEPT ![p] = Idle]
    <3>1. call[p].held = FALSE /\ Idle.held = FALSE /\ Idle.pc = "idle" /\ Idle \in Call
      BY <1>1, <1>6 DEF Stat, At, Call, Idle, Token, NoToken
    <3> QED
      BY <1>0, <1>6, <2>2, <3>1, LockOutlivesMove DEF Stat
  <2> QED
    BY <1>6, <2>1, <2>2 DEF Stat, LockOK
<1>7. ASSUME NEW p \in Callers, Late(p) PROVE LockOK'
  <2> DEFINE c == [call[p] EXCEPT !.late = TRUE]
  <2>1. call' = [call EXCEPT ![p] = c] /\ lock' = lock
    BY <1>7 DEF Late
  <2>2. c \in Call /\ c.held = call[p].held /\ c.pc = call[p].pc
    BY <1>1, <1>7 DEF Late, Call
  <2>3. p \in AgentCallers => c.pc \notin {"dead", "clear"}
    BY <2>2 DEF LockOK
  <2> HIDE DEF c
  <2> QED
    BY <1>0, <2>1, <2>2, <2>3, LockOutlivesMove
<1>8. ASSUME NEW p \in Callers, Clear(p) PROVE FALSE
  BY <1>1, <1>2, <1>8 DEF Clear, At, LockOK, CallOf
<1>9. ASSUME NEW p \in Callers, Tag(p) PROVE LockOK'
  BY <1>0, <1>9, LockOutlivesGoto DEF Tag
<1>10. ASSUME NEW p \in Callers, Unlock(p) PROVE LockOK'
  <2>1. p \in AgentCallers /\ call[p].held /\ lock' = Free
    BY <1>1, <1>2, <1>10 DEF Unlock, At, CallOf, Call
  <2>2. \A q \in AgentCallers : call'[q] = IF q = p THEN Idle ELSE call[q]
    BY <1>0, <1>10 DEF Unlock, CallsOK, Callers
  <2>3. Idle.held = FALSE /\ Idle.pc = "idle"
    BY DEF Idle
  <2>4. \A q \in AgentCallers : q # p => ~call[q].held
    BY <2>1 DEF LockOK
  <2> QED
    BY <2>1, <2>2, <2>3, <2>4 DEF LockOK
<1>11. ASSUME NEW p \in Callers, Reread(p) PROVE LockOK'
  <2>1. CASE Leave(p)
    BY <1>0, <1>11, <2>1, LockOutlivesLeave DEF Reread
  <2>2. CASE Goto(p, "mint")
    BY <1>0, <1>11, <2>2, LockOutlivesGoto DEF Reread
  <2>3. CASE call' = [call EXCEPT ![p].pc = "sent", ![p].token = agent.token]
    <3> DEFINE c == [call[p] EXCEPT !.pc = "sent", !.token = agent.token]
    <3>1. call' = [call EXCEPT ![p] = c] /\ lock' = lock
      BY <1>11, <2>3 DEF Reread
    <3>2. c \in Call /\ c.held = call[p].held /\ c.pc = "sent"
      BY <1>1, <1>11 DEF Reread, At, Call, TypeOK, Row
    <3> HIDE DEF c
    <3> QED
      BY <1>0, <3>1, <3>2, LockOutlivesMove
  <2> QED
    BY <1>11, <2>1, <2>2, <2>3 DEF Reread
<1>12. ASSUME NEW p \in Callers, Mint(p) \/ PutMinted(p) \/ Put(p) \/ Delete(p) PROVE LockOK'
  BY <1>0, <1>12, LockOutlivesLeave, LockOutlivesGoto DEF Mint, PutMinted, Put, Delete
<1>13. ASSUME NEW p \in Callers, Check(p) PROVE LockOK'
  BY <1>0, <1>13, LockOutlivesLeave, LockOutlivesGoto DEF Check
<1>14. ASSUME NEW p \in Callers, UserPut(p) \/ UserDelete(p) \/ FailRequest(p) \/ LoseAnswer(p)
       PROVE  LockOK'
  BY <1>0, <1>14, LockOutlivesLeave DEF UserPut, UserDelete, FailRequest, LoseAnswer
<1>15. ASSUME NEW p \in Callers, Serve(p) PROVE LockOK'
  <2>1. CASE Goto(p, "rejected")
    BY <1>0, <1>15, <2>1, LockOutlivesGoto DEF Serve
  <2>2. CASE call' = [call EXCEPT ![p].pc = "granted", ![p].token = Rotated(call[p].token)]
    <3> DEFINE c == [call[p] EXCEPT !.pc = "granted", !.token = Rotated(call[p].token)]
    <3>1. call' = [call EXCEPT ![p] = c] /\ lock' = lock
      BY <1>15, <2>2 DEF Serve
    <3>2. c = call'[p]
      BY <1>0, <3>1 DEF CallsOK
    <3>3. c \in Call
      BY <1>0, <3>2 DEF CallsOK
    <3>4. c.held = call[p].held /\ c.pc = "granted"
      BY <1>1, <1>15 DEF Serve, At, Call
    <3> HIDE DEF c
    <3> QED
      BY <1>0, <3>1, <3>3, <3>4, LockOutlivesMove
  <2> QED
    BY <1>15, <2>1, <2>2 DEF Serve
<1>16. ASSUME NEW p \in Callers, Die(p) PROVE FALSE
  BY <1>16 DEF Die, Undisturbed
<1>17. CASE Age \/ Nap
  <2>1. CASE Nap
    BY <2>1 DEF Nap, Undisturbed
  <2>2. CASE Age
    <3>1. lock \in Lock /\ lock # Free
      BY <2>2 DEF Age, TypeOK
    <3>2. lock.owner \in AgentCallers
      BY <3>1 DEF Lock
    <3> QED
      BY <2>2, <3>2 DEF Age, At, LockOK
  <2> QED
    BY <1>17, <2>1, <2>2
<1>18. CASE UNCHANGED <<lock, call>>
  BY <1>18 DEF LockOK
<1>19. ASSUME NEW p \in Callers, Step(p) PROVE LockOK'
  BY <1>5, <1>6, <1>8, <1>9, <1>10, <1>11, <1>12, <1>13, <1>14, <1>15, <1>19
     DEF Step, LockStep, RenewStep, UserStep
<1> QED
  BY <1>3, <1>4, <1>7, <1>16, <1>17, <1>18, <1>19
     DEF Next, vars, Login, AccountLogin, RemoveAgent, Drop, AccountLogout, Expire

LEMMA MishapsGrow == [Next]_vars => mishaps \subseteq mishaps'
  BY DEF Next, vars, Step, LockStep, RenewStep, UserStep, Resolve, UserResolve, Mkdir, Stat, Late,
         Clear, Tag, Unlock, Reread, Mint, PutMinted, Put, Check, Delete, UserPut, UserDelete, Serve,
         FailRequest, LoseAnswer, Login, AccountLogin, RemoveAgent, Drop, AccountLogout, Expire,
         Die, Age, Nap

LEMMA LockInvIsInductive ==
  /\ Init => LockInv
  /\ TypeOK /\ ShapeInv /\ LockInv /\ [Next]_vars => LockInv'
<1>1. Init => LockInv
  BY TokenRefreshAssumption DEF Init, LockInv, LockOK, Idle, Callers
<1>2. TypeOK /\ ShapeInv /\ LockInv /\ [Next]_vars => LockInv'
  BY MishapsGrow, LockOKIsPreserved DEF LockInv, Undisturbed
<1> QED
  BY <1>1, <1>2

\* As long as no holder dies or sleeps, renewals of the agent's bearer run one at a
\* time: the directory is made by whoever it is absent for, and only who made it
\* removes it.
THEOREM RenewalsAreSerialized == Spec => []Serialized
<1>1. TypeOK /\ LockInv => Serialized
  <2> SUFFICES ASSUME TypeOK, LockInv, Undisturbed, NEW p \in AgentCallers, NEW q \in AgentCallers,
                      Inside(p), Inside(q)
               PROVE  p = q
    BY DEF Serialized, AtMostOneInside, Undisturbed
  <2> QED
    BY DEF LockInv, LockOK, Inside
<1> QED
  BY <1>1, ShapeIsInductive, LockInvIsInductive, PTL DEF Spec

-----------------------------------------------------------------------------
\* Token families

\* p moves and nobody else does; it does not work with a token afterwards.
Quiet(p) == /\ \A q \in Callers : q # p => call'[q] = call[q]
            /\ call'[p].pc \notin {"sent", "granted", "rejected", "delete"}

LEMMA LeaveIsQuiet ==
  ASSUME CallsOK, NEW p \in Callers, Leave(p)
  PROVE  Quiet(p) /\ call'[p].token \in {call[p].token, NoToken}
<1>1. call[p] \in Call
  BY DEF CallsOK
<1>2. \A q \in Callers : q # p => call'[q] = call[q]
  BY DEF CallsOK, Leave
<1>3. call'[p] = IF call[p].held THEN [call[p] EXCEPT !.pc = "unlock"] ELSE Idle
  BY DEF CallsOK, Leave
<1>4. CASE call[p].held
  <2>1. call'[p].pc = "unlock" /\ call'[p].token = call[p].token
    BY <1>1, <1>3, <1>4 DEF Call
  <2> QED
    BY <1>2, <2>1 DEF Quiet
<1>5. CASE ~call[p].held
  BY <1>2, <1>3, <1>5 DEF Idle, Quiet
<1> QED
  BY <1>4, <1>5

LEMMA GotoMoves ==
  ASSUME CallsOK, NEW p \in Callers, NEW pc, Goto(p, pc)
  PROVE  /\ \A q \in Callers : q # p => call'[q] = call[q]
         /\ call'[p].pc = pc /\ call'[p].token = call[p].token
<1>1. call[p] \in Call /\ call'[p] = [call[p] EXCEPT !.pc = pc]
  BY DEF CallsOK, Goto
<1>2. call'[p].pc = pc /\ call'[p].token = call[p].token
  BY <1>1 DEF Call
<1> QED
  BY <1>2 DEF CallsOK, Goto

\* The steps after which the caller holds no token it has not put away.
QuietStep(p) ==
  \/ p \in AgentCallers /\ Resolve(p)
  \/ Late(p) \/ Die(p) \/ LockStep(p) \/ UserStep(p)
  \/ Mint(p) \/ PutMinted(p) \/ Put(p) \/ Delete(p)
  \/ FailRequest(p) \/ LoseAnswer(p)

LEMMA QuietStepsAreQuiet ==
  ASSUME CallsOK, NEW p \in Callers, QuietStep(p)
  PROVE  Quiet(p)
<1>1. ASSUME NEW pc \in {"lock", "mint", "minted", "stat", "clear", "unlock", "reread", "dead"},
             Goto(p, pc)
      PROVE  Quiet(p)
  BY <1>1, GotoMoves DEF Quiet
<1>2. ASSUME call' = [call EXCEPT ![p] = Idle] PROVE Quiet(p)
  BY <1>2 DEF CallsOK, Quiet, Idle
<1>3. CASE Leave(p)
  BY <1>3, LeaveIsQuiet
<1>4. CASE Late(p)
  <2>1. call[p] \in Call /\ call'[p] = [call[p] EXCEPT !.late = TRUE]
    BY <1>4 DEF Late, CallsOK
  <2>2. call'[p].pc = call[p].pc
    BY <2>1 DEF Call
  <2> QED
    BY <1>4, <2>2 DEF Late, CallsOK, Quiet
<1>5. CASE Mkdir(p)
  <2>1. CASE lock # Free
    BY <1>1, <1>5, <2>1 DEF Mkdir
  <2>2. CASE lock = Free
    <3>1. call[p] \in Call /\ call'[p] = [call[p] EXCEPT !.pc = "tag", !.held = TRUE]
      BY <1>5, <2>2 DEF Mkdir, CallsOK
    <3>2. call'[p].pc = "tag"
      BY <3>1 DEF Call
    <3> QED
      BY <1>5, <2>2, <3>2 DEF Mkdir, CallsOK, Quiet
  <2> QED
    BY <2>1, <2>2
<1>6. CASE Stat(p)
  BY <1>1, <1>2, <1>6 DEF Stat
<1>7. CASE Resolve(p) \/ Die(p) \/ Clear(p) \/ Tag(p)
  BY <1>1, <1>7 DEF Resolve, Die, Clear, Tag
<1>8. CASE Unlock(p)
  BY <1>2, <1>8 DEF Unlock
<1>9. CASE \/ Mint(p) \/ PutMinted(p) \/ Put(p) \/ Delete(p)
           \/ UserStep(p) \/ FailRequest(p) \/ LoseAnswer(p)
  BY <1>1, <1>3, <1>9
     DEF Mint, PutMinted, Put, Delete, UserStep, UserPut, UserDelete, FailRequest, LoseAnswer
<1> QED
  BY <1>4, <1>5, <1>6, <1>7, <1>8, <1>9 DEF QuietStep, LockStep

\* A caller's token is of the family it had, or comes from its row.
Inherits(p) ==
  \/ Uses(p) /\ call'[p].token[1] = call[p].token[1]
  \/ p \in AgentCallers /\ agent.kind = "pkce" /\ call'[p].token = agent.token
  \/ p \in UserCallers /\ session.kind = "pkce" /\ call'[p].token = session.token

LEMMA TokensAreInherited ==
  ASSUME TypeOK, ShapeInv, [Next]_vars, NEW p \in Callers, Uses(p)'
  PROVE  Inherits(p)
<1>0. CallsOK
  BY DEF TypeOK, CallsOK
<1>1. \A q \in Callers : call[q] \in Call /\ call[q] \in CallOf(q)
  BY DEF TypeOK, ShapeInv
<1>2. call'[p].pc \in {"sent", "granted", "rejected"}
  BY DEF Uses
<1>3. ASSUME call'[p] = call[p] PROVE Inherits(p)
  BY <1>3 DEF Uses, Inherits
<1>4. ASSUME NEW q \in Callers, QuietStep(q) PROVE Inherits(p)
  BY <1>0, <1>2, <1>3, <1>4, QuietStepsAreQuiet DEF Quiet
<1>5. ASSUME NEW q \in UserCallers, UserResolve(q) PROVE Inherits(p)
  <2>1. q \in Callers /\ call[q] \in Call
    BY <1>1 DEF Callers
  <2>2. call'[q] = [call[q] EXCEPT !.pc = "sent", !.token = session.token]
    BY <1>0, <1>5, <2>1 DEF UserResolve, CallsOK
  <2>3. call'[q].token = session.token
    BY <2>1, <2>2 DEF Call
  <2>4. q # p => call'[p] = call[p]
    BY <1>0, <1>5 DEF UserResolve, CallsOK
  <2> QED
    BY <1>3, <1>5, <2>3, <2>4 DEF UserResolve, Inherits
<1>6. ASSUME NEW q \in Callers, Reread(q) PROVE Inherits(p)
  <2>1. CASE Leave(q)
    BY <1>0, <1>2, <1>3, <2>1, LeaveIsQuiet DEF Quiet
  <2>2. CASE Goto(q, "mint")
    BY <1>0, <1>2, <1>3, <2>2, GotoMoves
  <2>3. CASE agent.kind = "pkce" /\ call' = [call EXCEPT ![q].pc = "sent", ![q].token = agent.token]
    <3>1. call'[q] = [call[q] EXCEPT !.pc = "sent", !.token = agent.token] /\ call[q] \in Call
      BY <1>0, <2>3 DEF CallsOK
    <3>2. call'[q].token = agent.token
      BY <3>1 DEF Call
    <3>3. q \in AgentCallers
      BY <1>1, <1>6 DEF Reread, At, CallOf, Callers
    <3>4. q # p => call'[p] = call[p]
      BY <1>0, <2>3 DEF CallsOK
    <3> QED
      BY <1>3, <2>3, <3>2, <3>3, <3>4 DEF Inherits
  <2> QED
    BY <1>6, <2>1, <2>2, <2>3 DEF Reread
<1>7. ASSUME NEW q \in Callers, Check(q) PROVE Inherits(p)
  BY <1>0, <1>2, <1>3, <1>7, LeaveIsQuiet, GotoMoves DEF Check, Quiet
<1>8. ASSUME NEW q \in Callers, Serve(q) PROVE Inherits(p)
  <2>1. CASE Goto(q, "rejected")
    <3>1. call'[q].token = call[q].token /\ (q # p => call'[p] = call[p])
      BY <1>0, <2>1, GotoMoves
    <3> QED
      BY <1>3, <1>8, <3>1 DEF Serve, At, Uses, Inherits
  <2>2. CASE call' = [call EXCEPT ![q].pc = "granted", ![q].token = Rotated(call[q].token)]
    <3>1. /\ call'[q] = [call[q] EXCEPT !.pc = "granted", !.token = Rotated(call[q].token)]
          /\ call[q] \in Call
      BY <1>0, <2>2 DEF CallsOK
    <3>2. call'[q].token = Rotated(call[q].token)
      BY <3>1 DEF Call
    <3>3. call'[q].token[1] = call[q].token[1]
      BY <3>2 DEF Rotated
    <3>4. q # p => call'[p] = call[p]
      BY <1>0, <2>2 DEF CallsOK
    <3> QED
      BY <1>3, <1>8, <3>3, <3>4 DEF Serve, At, Uses, Inherits
  <2> QED
    BY <1>8, <2>1, <2>2 DEF Serve
<1>9. CASE UNCHANGED call
  BY <1>3, <1>9
<1>10. ASSUME NEW q \in Callers, Step(q) \/ Late(q) \/ Die(q) PROVE Inherits(p)
  BY <1>4, <1>6, <1>7, <1>8, <1>10 DEF Step, RenewStep, QuietStep
<1>11. ASSUME NEW q \in AgentCallers, Resolve(q) PROVE Inherits(p)
  BY <1>4, <1>11 DEF QuietStep, Callers
<1> QED
  BY <1>5, <1>9, <1>10, <1>11
     DEF Next, vars, Login, AccountLogin, RemoveAgent, Drop, AccountLogout, Expire, Age, Nap

\* A row's token is of a family its own side had, unless somebody has just logged in.
LEMMA RowsAreInherited ==
  ASSUME TypeOK, ShapeInv, [Next]_vars
  PROVE  /\ (agent'.kind = "pkce" => AgentFamily(agent'.token[1])) \/ Login(Pkce(<<logins, 0>>))
         /\ (session'.kind = "pkce" => UserFamily(session'.token[1])) \/ AccountLogin
<1> DEFINE Kept == /\ agent'.kind = "pkce" => AgentFamily(agent'.token[1])
                   /\ session'.kind = "pkce" => UserFamily(session'.token[1])
<1>1. \A row \in Row : [row EXCEPT !.valid = FALSE].kind = row.kind
                       /\ [row EXCEPT !.valid = FALSE].token = row.token
  BY DEF Row
<1>2. \A t : Pkce(t).kind = "pkce" /\ Pkce(t).token = t
  BY DEF Pkce
<1>3. NoRow.kind = "none" /\ Client.kind = "client"
  BY DEF NoRow, Client
<1>4. ASSUME agent' = agent, session' = session PROVE Kept
  BY <1>4 DEF AgentFamily, UserFamily
<1>5. ASSUME NEW p \in Callers, Put(p) PROVE Kept
  BY <1>2, <1>5 DEF Put, At, AgentFamily, UserFamily, Uses
<1>6. ASSUME NEW p \in Callers, UserPut(p) PROVE Kept
  BY <1>2, <1>6 DEF UserPut, At, AgentFamily, UserFamily, Uses
<1>7. ASSUME NEW p \in Callers, PutMinted(p) \/ Delete(p) \/ UserDelete(p) PROVE Kept
  BY <1>3, <1>7 DEF PutMinted, Delete, UserDelete, AgentFamily, UserFamily
<1>8. CASE Login(Client) \/ Drop \/ AccountLogout
  <2>1. /\ agent' = agent \/ agent' = Client \/ agent' = NoRow
        /\ session' = session \/ session' = NoRow
    BY <1>8 DEF Login, Drop, AccountLogout
  <2> QED
    BY <1>3, <2>1 DEF AgentFamily, UserFamily
<1>9. CASE Expire
  BY <1>1, <1>9 DEF Expire, TypeOK, AgentFamily, UserFamily
<1>10. CASE Login(Pkce(<<logins, 0>>)) \/ AccountLogin
  <2>1. CASE Login(Pkce(<<logins, 0>>))
    <3>1. session' = session
      BY <2>1 DEF Login
    <3> QED
      BY <2>1, <3>1 DEF UserFamily
  <2>2. CASE AccountLogin
    <3>1. agent' = agent
      BY <2>2 DEF AccountLogin
    <3> QED
      BY <2>2, <3>1 DEF AgentFamily
  <2> QED
    BY <1>10, <2>1, <2>2
<1>11. ASSUME NEW p \in Callers, Step(p) PROVE Kept
  BY <1>4, <1>5, <1>6, <1>7, <1>11
     DEF Step, LockStep, RenewStep, UserStep, Mkdir, Stat, Clear, Tag, Unlock, Reread, Mint, Check,
         Serve, FailRequest, LoseAnswer
<1>12. ASSUME NEW p \in Callers, Resolve(p) \/ UserResolve(p) \/ Late(p) \/ Die(p) PROVE Kept
  BY <1>4, <1>12 DEF Resolve, UserResolve, Late, Die
<1>13. CASE RemoveAgent \/ Age \/ Nap \/ UNCHANGED vars
  BY <1>4, <1>13 DEF RemoveAgent, Age, Nap, vars
<1> QED
  BY <1>8, <1>9, <1>10, <1>11, <1>12, <1>13 DEF Next, Callers

LEMMA FamilyIsInductive ==
  /\ Init => FamilyInv
  /\ TypeOK /\ ShapeInv /\ FamilyInv /\ [Next]_vars => FamilyInv'
<1>1. Init => FamilyInv
  BY DEF Init, FamilyInv, AgentFamily, UserFamily, Uses, Idle, NoRow, Callers
<1>2. ASSUME TypeOK, ShapeInv, FamilyInv, [Next]_vars PROVE FamilyInv'
  <2>1. logins \in Nat /\ logins' \in Nat /\ logins <= logins'
    <3>1. CountersTyped'
      BY <1>2, CountersAreTyped
    <3>2. logins' = logins \/ logins' = logins + 1
      BY <1>2 DEF Next, vars, Step, LockStep, RenewStep, UserStep, Resolve, UserResolve, Mkdir,
                  Stat, Late, Clear, Tag, Unlock, Reread, Mint, PutMinted, Put, Check, Delete,
                  UserPut, UserDelete, Serve, FailRequest, LoseAnswer, Login, AccountLogin, RemoveAgent,
                  Drop, AccountLogout, Expire, Die, Age, Nap
    <3> QED
      BY <1>2, <3>1, <3>2, TokenRefreshAssumption DEF TypeOK, CountersTyped
  <2>2. ASSUME NEW f \in Nat, AgentFamily(f)'
        PROVE  AgentFamily(f) \/ (f = logins /\ Login(Pkce(<<logins, 0>>)))
    <3>1. ASSUME NEW p \in AgentCallers, Uses(p)', call'[p].token[1] = f PROVE AgentFamily(f)
      <4>1. Inherits(p) /\ p \notin UserCallers
        BY <1>2, <3>1, TokensAreInherited, TokenRefreshAssumption DEF Callers
      <4> QED
        BY <3>1, <4>1 DEF Inherits, AgentFamily
    <3>2. CASE agent'.kind = "pkce" /\ agent'.token[1] = f
      <4>1. CASE Login(Pkce(<<logins, 0>>))
        <5>1. agent' = Pkce(<<logins, 0>>)
          BY <4>1 DEF Login
        <5> QED
          BY <3>2, <4>1, <5>1 DEF Pkce
      <4>2. CASE AgentFamily(agent'.token[1])
        BY <3>2, <4>2
      <4> QED
        BY <1>2, <3>2, <4>1, <4>2, RowsAreInherited
    <3> QED
      BY <2>2, <3>1, <3>2 DEF AgentFamily
  <2>3. ASSUME NEW f \in Nat, UserFamily(f)'
        PROVE  UserFamily(f) \/ (f = logins /\ AccountLogin)
    <3>1. ASSUME NEW p \in UserCallers, Uses(p)', call'[p].token[1] = f PROVE UserFamily(f)
      <4>1. Inherits(p) /\ p \notin AgentCallers
        BY <1>2, <3>1, TokensAreInherited, TokenRefreshAssumption DEF Callers
      <4> QED
        BY <3>1, <4>1 DEF Inherits, UserFamily
    <3>2. CASE session'.kind = "pkce" /\ session'.token[1] = f
      <4>1. CASE AccountLogin
        <5>1. session' = Pkce(<<logins, 0>>)
          BY <4>1 DEF AccountLogin
        <5> QED
          BY <3>2, <4>1, <5>1 DEF Pkce
      <4>2. CASE UserFamily(session'.token[1])
        BY <3>2, <4>2
      <4> QED
        BY <1>2, <3>2, <4>1, <4>2, RowsAreInherited
    <3> QED
      BY <2>3, <3>1, <3>2 DEF UserFamily
  <2>4. Login(Pkce(<<logins, 0>>)) =>
          logins' = logins + 1 /\ \A f \in Nat : UserFamily(f)' => UserFamily(f)
    <3> SUFFICES ASSUME Login(Pkce(<<logins, 0>>))
                 PROVE  logins' = logins + 1 /\ \A f \in Nat : UserFamily(f)' => UserFamily(f)
      OBVIOUS
    <3>1. logins' = logins + 1 /\ session' = session /\ call' = call
      BY DEF Login
    <3> QED
      BY <3>1 DEF UserFamily, Uses
  <2>5. AccountLogin => logins' = logins + 1 /\ \A f \in Nat : AgentFamily(f)' => AgentFamily(f)
    <3> SUFFICES ASSUME AccountLogin
                 PROVE  logins' = logins + 1 /\ \A f \in Nat : AgentFamily(f)' => AgentFamily(f)
      OBVIOUS
    <3>1. logins' = logins + 1 /\ agent' = agent /\ call' = call
      BY DEF AccountLogin
    <3> QED
      BY <3>1 DEF AgentFamily, Uses
  <2>6. \A f \in Nat : /\ AgentFamily(f) => f < logins /\ ~UserFamily(f)
                       /\ UserFamily(f) => f < logins
    BY <1>2 DEF FamilyInv
  <2> HIDE DEF AgentFamily, UserFamily
  <2>7. ASSUME NEW f \in Nat, AgentFamily(f)' PROVE f < logins' /\ ~UserFamily(f)'
    <3>1. CASE AgentFamily(f)
      BY <2>1, <2>3, <2>5, <2>6, <2>7, <3>1
    <3>2. CASE f = logins /\ Login(Pkce(<<logins, 0>>))
      BY <2>1, <2>4, <2>6, <3>2
    <3> QED
      BY <2>2, <2>7, <3>1, <3>2
  <2>8. ASSUME NEW f \in Nat, UserFamily(f)' PROVE f < logins'
    BY <2>1, <2>3, <2>5, <2>6, <2>8
  <2> QED
    BY <2>7, <2>8 DEF FamilyInv
<1> QED
  BY <1>1, <1>2

-----------------------------------------------------------------------------
\* Rotation

\* A caller goes quiet that was not carrying the live token.
LEMMA TokensOutliveQuiet ==
  ASSUME TokensOK, NEW p \in Callers, Quiet(p), live' = live,
         p \in AgentCallers => ~At(p, "granted"),
         agent' = agent \/ agent'.kind # "pkce"
  PROVE  TokensOK'
<1>1. ASSUME NEW q \in AgentCallers
      PROVE  /\ call'[q].pc \in {"sent", "granted"} => call'[q].token \in live'
             /\ call'[q].pc \notin {"rejected", "delete"}
             /\ call'[q].pc # "granted" => call[q].pc # "granted"
  <2>1. CASE q = p
    BY <2>1 DEF Quiet, At
  <2>2. CASE q # p
    BY <2>2 DEF Quiet, TokensOK, Callers
  <2> QED
    BY <2>1, <2>2
<1> QED
  BY <1>1 DEF TokensOK, At

\* No agent caller moves, and no token is lost.
LEMMA TokensOutliveOthers ==
  ASSUME TokensOK, \A q \in AgentCallers : call'[q] = call[q], live \subseteq live',
         agent'.kind = "pkce" => \/ agent.kind = "pkce" /\ agent'.token = agent.token
                                 \/ agent'.token \in live'
  PROVE  TokensOK'
  BY DEF TokensOK, At

LEMMA TokensOKIsPreserved ==
  ASSUME TypeOK, ShapeInv, LockOK, FamilyInv, TokensOK, [Next]_vars, mishaps' = {}
  PROVE  TokensOK'
<1>0. CallsOK
  BY DEF TypeOK, CallsOK
<1>1. \A p \in Callers : call[p] \in Call /\ call[p] \in CallOf(p) /\ call[p].token \in Token
  BY DEF TypeOK, ShapeInv, Call
<1>2. \A p \in AgentCallers : p \in Callers /\ p \notin UserCallers
  BY TokenRefreshAssumption DEF Callers
<1>3. \A p, q \in AgentCallers : call[p].held /\ call[q].held => p = q
  BY DEF LockOK
<1>4. \A p \in AgentCallers : call[p].pc \in {"sent", "granted"} => call[p].held
  BY <1>1, <1>2 DEF CallOf
<1>5. ASSUME NEW p \in Callers, Late(p) \/ LockStep(p) \/ FailRequest(p) PROVE TokensOK'
  <2>1. Quiet(p)
    BY <1>0, <1>5, QuietStepsAreQuiet DEF QuietStep
  <2>2. live' = live /\ agent' = agent /\ ~At(p, "granted")
    BY <1>5 DEF Late, LockStep, FailRequest, Mkdir, Stat, Clear, Tag, Unlock, At
  <2> QED
    BY <2>1, <2>2, TokensOutliveQuiet
<1>6. ASSUME NEW p \in AgentCallers, Resolve(p) PROVE TokensOK'
  <2>1. Quiet(p)
    BY <1>0, <1>2, <1>6, QuietStepsAreQuiet DEF QuietStep
  <2>2. live' = live /\ agent' = agent /\ ~At(p, "granted")
    BY <1>6 DEF Resolve, At
  <2> QED
    BY <1>2, <2>1, <2>2, TokensOutliveQuiet
<1>7. ASSUME NEW p \in Callers, Mint(p) \/ PutMinted(p) PROVE TokensOK'
  <2>1. Quiet(p)
    BY <1>0, <1>7, QuietStepsAreQuiet DEF QuietStep
  <2>2. live' = live /\ (agent' = agent \/ agent'.kind # "pkce") /\ ~At(p, "granted")
    BY <1>7 DEF Mint, PutMinted, At, Client
  <2> QED
    BY <2>1, <2>2, TokensOutliveQuiet
<1>8. ASSUME NEW p \in Callers, UserStep(p) PROVE TokensOK'
  <2>1. Quiet(p)
    BY <1>0, <1>8, QuietStepsAreQuiet DEF QuietStep
  <2>2. live' = live /\ agent' = agent /\ p \notin AgentCallers
    BY <1>2, <1>8 DEF UserStep, UserPut, UserDelete
  <2> QED
    BY <2>1, <2>2, TokensOutliveQuiet
<1>9. ASSUME NEW p \in Callers, Put(p) PROVE TokensOK'
  <2>1. Quiet(p)
    BY <1>0, <1>9, QuietStepsAreQuiet DEF QuietStep
  <2>2. /\ p \in AgentCallers /\ call[p].pc = "granted" /\ live' = live
        /\ agent'.token = call[p].token
    BY <1>9 DEF Put, At, Pkce
  <2>3. agent'.token \in live'
    BY <2>2 DEF TokensOK
  <2>4. ASSUME NEW q \in AgentCallers
        PROVE  call'[q].pc \notin {"sent", "granted", "rejected", "delete"}
    BY <1>2, <1>3, <1>4, <2>1, <2>2 DEF Quiet, TokensOK
  <2> QED
    BY <2>3, <2>4 DEF TokensOK
<1>10. ASSUME NEW p \in Callers, Reread(p) PROVE TokensOK'
  <2>1. live' = live /\ agent' = agent /\ call[p].pc = "reread"
    BY <1>10 DEF Reread, At
  <2>2. CASE Leave(p)
    BY <1>0, <2>1, <2>2, LeaveIsQuiet, TokensOutliveQuiet DEF At
  <2>3. CASE Goto(p, "mint")
    BY <1>0, <2>1, <2>3, GotoMoves, TokensOutliveQuiet DEF Quiet, At
  <2>4. CASE agent.kind = "pkce" /\ call' = [call EXCEPT ![p].pc = "sent", ![p].token = agent.token]
    <3>1. p \in AgentCallers /\ call[p].held
      BY <1>1, <2>1 DEF CallOf, Call, Callers
    <3>2. ASSUME NEW q \in AgentCallers, q # p PROVE call[q].pc \notin {"sent", "granted"}
      BY <1>3, <1>4, <3>1, <3>2
    <3>3. agent.token \in live
      BY <2>1, <2>4, <3>2 DEF TokensOK, At
    <3>4. call'[p] = [call[p] EXCEPT !.pc = "sent", !.token = agent.token] /\ call[p] \in Call
      BY <1>0, <2>4 DEF CallsOK
    <3>5. call'[p].pc = "sent" /\ call'[p].token = agent.token
      BY <3>4 DEF Call
    <3>6. \A q \in AgentCallers : q # p => call'[q] = call[q]
      BY <1>0, <1>2, <2>4 DEF CallsOK
    <3> QED
      BY <2>1, <3>3, <3>5, <3>6 DEF TokensOK
  <2> QED
    BY <1>10, <2>2, <2>3, <2>4 DEF Reread
<1>11. ASSUME NEW p \in Callers, Check(p) \/ Delete(p) PROVE FALSE
  <2>1. p \in AgentCallers
    BY <1>1, <1>11 DEF Check, Delete, At, CallOf, Callers
  <2> QED
    BY <1>11, <2>1 DEF Check, Delete, At, TokensOK
<1>12. ASSUME NEW p \in AgentCallers, Serve(p) PROVE TokensOK'
  <2>1. call[p].pc = "sent" /\ call[p].token \in live /\ agent' = agent
    BY <1>12 DEF Serve, At, TokensOK
  <2>2. /\ live' = (live \ {call[p].token}) \cup {Rotated(call[p].token)}
        /\ call' = [call EXCEPT ![p].pc = "granted", ![p].token = Rotated(call[p].token)]
    BY <1>12, <2>1 DEF Serve
  <2>3. /\ call'[p] = [call[p] EXCEPT !.pc = "granted", !.token = Rotated(call[p].token)]
        /\ call[p] \in Call
    BY <1>0, <1>2, <2>2 DEF CallsOK
  <2>4. call'[p].pc = "granted" /\ call'[p].token \in live'
    <3>1. call'[p].pc = "granted" /\ call'[p].token = Rotated(call[p].token)
      BY <2>3 DEF Call
    <3> QED
      BY <2>2, <3>1
  <2>5. ASSUME NEW q \in AgentCallers, q # p
        PROVE  call'[q] = call[q] /\ call[q].pc \notin {"sent", "granted"}
    BY <1>0, <1>2, <1>3, <1>4, <2>1, <2>2, <2>5 DEF CallsOK
  <2>6. ASSUME NEW q \in AgentCallers
        PROVE  /\ call'[q].pc \in {"sent", "granted"} => call'[q].token \in live'
               /\ call'[q].pc \notin {"rejected", "delete"}
    <3>1. CASE q = p
      BY <2>4, <3>1
    <3>2. CASE q # p
      BY <2>5, <3>2 DEF TokensOK
    <3> QED
      BY <3>1, <3>2
  <2> QED
    BY <2>4, <2>6 DEF TokensOK, At
<1>13. ASSUME NEW p \in UserCallers, Serve(p) PROVE TokensOK'
  <2> DEFINE t == call[p].token
  <2>1. call[p].pc = "sent" /\ agent' = agent /\ p \in Callers /\ t \in Token
    BY <1>1, <1>13 DEF Serve, At, Callers
  <2>2. \A q \in AgentCallers : call'[q] = call[q]
    BY <1>0, <1>2, <1>13, <2>1 DEF Serve, Goto, CallsOK
  <2>3. \A u \in live : u[1] # t[1] => u \in live'
    BY <1>13 DEF Serve, Family
  <2>4. \A f \in Nat : AgentFamily(f) => f # t[1]
    BY <2>1 DEF FamilyInv, UserFamily, Uses
  <2>5. ASSUME NEW q \in AgentCallers, call[q].pc \in {"sent", "granted"}
        PROVE  call[q].token \in live'
    <3>1. call[q].token \in live /\ call[q].token[1] \in Nat
      BY <1>1, <1>2, <2>5 DEF TokensOK, Token
    <3>2. AgentFamily(call[q].token[1])
      BY <2>5 DEF AgentFamily, Uses
    <3> QED
      BY <2>3, <2>4, <3>1, <3>2
  <2>6. ASSUME agent.kind = "pkce", agent.token \in live PROVE agent.token \in live'
    <3>1. agent.token[1] \in Nat /\ AgentFamily(agent.token[1])
      BY <2>6 DEF AgentFamily, TypeOK, Row, Token
    <3> QED
      BY <2>3, <2>4, <2>6, <3>1
  <2> QED
    BY <2>1, <2>2, <2>5, <2>6 DEF TokensOK, At
<1>14. ASSUME NEW p \in UserCallers, UserResolve(p) PROVE TokensOK'
  <2>1. live' = live /\ agent' = agent /\ \A q \in AgentCallers : call'[q] = call[q]
    BY <1>0, <1>2, <1>14 DEF UserResolve, CallsOK
  <2> QED
    BY <2>1, TokensOutliveOthers
<1>15. CASE Login(Pkce(<<logins, 0>>))
  <2>1. agent' = Pkce(<<logins, 0>>) /\ call' = call /\ live \subseteq live'
        /\ live' = live \cup {Pkce(<<logins, 0>>).token}
    BY <1>15 DEF Login, Pkce
  <2> QED
    BY <2>1, TokensOutliveOthers
<1>16. CASE Login(Client) \/ AccountLogin
  <2>1. call' = call /\ live \subseteq live' /\ (agent' = agent \/ agent' = Client)
    BY <1>16 DEF Login, AccountLogin
  <2> QED
    BY <2>1, TokensOutliveOthers DEF Client
<1>17. CASE Drop \/ AccountLogout
  <2>1. call' = call /\ live' = live /\ (agent' = agent \/ agent' = NoRow)
    BY <1>17 DEF Drop, AccountLogout
  <2> QED
    BY <2>1, TokensOutliveOthers DEF NoRow
<1>18. CASE Expire
  <2>1. call' = call /\ live' = live /\ (agent' = agent \/ agent' = [agent EXCEPT !.valid = FALSE])
    BY <1>18 DEF Expire
  <2>2. agent'.kind = agent.kind /\ agent'.token = agent.token
    BY <2>1 DEF TypeOK, Row
  <2> QED
    BY <2>1, <2>2, TokensOutliveOthers
<1>19. CASE Age \/ UNCHANGED vars
  <2>1. call' = call /\ live' = live /\ agent' = agent
    BY <1>19 DEF Age, vars
  <2> QED
    BY <2>1, TokensOutliveOthers
<1>20. ASSUME NEW p \in Callers, LoseAnswer(p) \/ Die(p) PROVE FALSE
  BY <1>20 DEF LoseAnswer, Die
<1>21. ASSUME NEW p \in Callers, Step(p) \/ Late(p) PROVE TokensOK'
  BY <1>5, <1>7, <1>8, <1>9, <1>10, <1>11, <1>12, <1>13, <1>20, <1>21 DEF Step, RenewStep, Callers
<1>22. CASE RemoveAgent \/ Nap
  BY <1>22 DEF RemoveAgent, Nap
<1> QED
  BY <1>6, <1>14, <1>15, <1>16, <1>17, <1>18, <1>19, <1>20, <1>21, <1>22 DEF Next

LEMMA TokenInvIsInductive ==
  /\ Init => TokenInv
  /\ TypeOK /\ ShapeInv /\ LockInv /\ FamilyInv /\ TokenInv /\ [Next]_vars => TokenInv'
<1>1. Init => TokenInv
  BY DEF Init, TokenInv, TokensOK, Idle, NoRow, Callers
<1>2. TypeOK /\ ShapeInv /\ LockInv /\ FamilyInv /\ TokenInv /\ [Next]_vars => TokenInv'
  BY MishapsGrow, TokensOKIsPreserved DEF TokenInv, LockInv, Undisturbed
<1> QED
  BY <1>1, <1>2

LEMMA InvIsInductive ==
  /\ Init => IInv
  /\ IInv /\ [Next]_vars => IInv'
  BY ShapeIsInductive, LockInvIsInductive, FamilyIsInductive, TokenInvIsInductive DEF IInv

\* No spent refresh token is presented for the agent, whoever logs in and out and
\* however the account's own refreshes go: the caller reads the row inside the
\* lock, and the token it finds there is the live one.
THEOREM NoSpentTokenIsPresented == Spec => []SpentNotPresented
<1>1. IInv => SpentNotPresented
  BY DEF IInv, TokenInv, TokensOK, SpentNotPresented, At
<1> QED
  BY <1>1, InvIsInductive, PTL DEF Spec

\* When nobody renews, the stored refresh token is one the server accepts.
THEOREM TheRowStaysLive == Spec => []RowIsLive
<1>1. IInv => RowIsLive
  <2> SUFFICES ASSUME IInv, mishaps = {}, agent.kind = "pkce",
                      \A p \in AgentCallers : ~Inside(p)
               PROVE  agent.token \in live
    BY DEF RowIsLive
  <2>1. \A p \in AgentCallers : call[p].pc # "granted"
    BY DEF IInv, ShapeInv, CallOf, Inside, At, Callers
  <2> QED
    BY <2>1 DEF IInv, TokenInv, TokensOK, At
<1> QED
  BY <1>1, InvIsInductive, PTL DEF Spec
=============================================================================
