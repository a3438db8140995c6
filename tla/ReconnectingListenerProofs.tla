--------------------- MODULE ReconnectingListenerProofs ---------------------
(***************************************************************************)
(* Theorems of ReconnectingListener, for every cap, every set of sockets    *)
(* and every ceiling.                                                       *)
(*                                                                          *)
(* What is under way moves from timer to resolve() to socket and back; the  *)
(* callbacks that end it after close() find the listener closed.  The two   *)
(* counters agree because the stable timer never outlives its connection    *)
(* (StableInv).                                                             *)
(***************************************************************************)
EXTENDS ReconnectingListener, TLAPS

\* The stable timer is set only while a connection is open, and never once closed.
StableInv == stable => ~closed /\ \E i \in Sockets : socket[i] = "open"

\* Only close() leaves a socket that is on its way down, and it forgets the listener.
ActiveInv == IF closed THEN active = Nobody ELSE \A i \in Sockets : socket[i] # "closing"

\* The code's counter is the number of failures since a stable connection.
CountInv == attempt = failures

IInv == TypeOK /\ OneConnection /\ StableInv /\ ActiveInv /\ CountInv /\ GivesUpAtTheCap

Reasons == {"permanent_resolve_error", "max_attempts_exhausted"}

\* No report, and one report.
LEMMA ShortReports ==
  /\ <<>> \in Seq(Reasons)
  /\ \A r \in Reasons : <<r>> \in Seq(Reasons)
OBVIOUS

\* A counter keeps its type, and reaches a cap it was below.
LEMMA RaisedCounts ==
  ASSUME NEW n \in 0..Ceiling
  PROVE  /\ Raised(n) \in 0..Ceiling
         /\ Raised(n) >= n
BY ListenerAssumption DEF Raised

LEMMA InitHolds == Init => IInv
<1> SUFFICES ASSUME Init PROVE IInv
  OBVIOUS
<1> USE ListenerAssumption
<1>1. TypeOK
  <2>1. reports \in Seq(Reasons)
    BY ShortReports DEF Init
  <2>2. 0 \in 0..Ceiling
    OBVIOUS
  <2>3. socket \in [Sockets -> {"unused", "dialing", "open", "closing"}]
    BY DEF Init
  <2> QED BY <2>1, <2>2, <2>3 DEF Init, TypeOK, Reasons
<1>2. OneConnection
  BY DEF Init, OneConnection, Live, Nobody
<1>3. StableInv /\ ActiveInv /\ CountInv
  BY DEF Init, StableInv, ActiveInv, CountInv
<1>4. GivesUpAtTheCap
  BY DEF Init, GivesUpAtTheCap, Unbounded
<1> QED BY <1>1, <1>2, <1>3, <1>4 DEF IInv

LEMMA TimerHolds == IInv /\ TimerFires => IInv'
<1> SUFFICES ASSUME IInv, TimerFires PROVE IInv'
  OBVIOUS
<1> USE DEF IInv, TimerFires
<1>1. TypeOK'
  BY DEF TypeOK
<1>2. OneConnection'
  BY DEF OneConnection, Live, TypeOK
<1>3. StableInv' /\ ActiveInv' /\ CountInv' /\ GivesUpAtTheCap'
  BY DEF StableInv, ActiveInv, CountInv, GivesUpAtTheCap
<1> QED BY <1>1, <1>2, <1>3

LEMMA ResolvedHolds == IInv /\ Resolved => IInv'
<1> SUFFICES ASSUME IInv, Resolved PROVE IInv'
  OBVIOUS
<1> USE DEF IInv, Resolved, Answered
<1>1. CASE closed
  <2>1. TypeOK' /\ OneConnection'
    BY <1>1 DEF TypeOK, OneConnection, Live
  <2> QED BY <1>1, <2>1 DEF StableInv, ActiveInv, CountInv, GivesUpAtTheCap
<1>2. CASE ~closed
  <2>1. PICK i \in Sockets : /\ socket[i] = "unused"
                             /\ socket' = [socket EXCEPT ![i] = "dialing"]
                             /\ active' = i
    BY <1>2
  <2>2. TypeOK'
    BY <2>1 DEF TypeOK
  <2>3. active = Nobody /\ timers = 0 /\ resolves = 1 /\ \A j \in Sockets : ~Live(j)
    BY <1>2 DEF OneConnection, TypeOK
  <2>4. i # Nobody
    BY ListenerAssumption DEF Nobody
  <2>5. Live(i)' /\ \A j \in Sockets : Live(j)' => j = i
    BY <2>1, <2>3 DEF Live, TypeOK
  <2>6. OneConnection'
    BY <1>2, <2>1, <2>3, <2>4, <2>5 DEF OneConnection
  <2>7. ~stable
    BY <1>2, <2>3 DEF StableInv, Live
  <2>8. ActiveInv'
    BY <1>2, <2>1 DEF ActiveInv, TypeOK
  <2> QED BY <1>2, <2>2, <2>6, <2>7, <2>8 DEF StableInv, CountInv, GivesUpAtTheCap
<1> QED BY <1>1, <1>2

\* What giving up does, from a state in which nothing is connected or counted twice.
LEMMA GiveUpHolds ==
  ASSUME IInv, ~closed, NEW reason \in {"permanent_resolve_error", "max_attempts_exhausted"},
         GiveUp(reason), socket' = Closing(socket), UNCHANGED cap,
         resolves' \in Nat, attempt' \in 0..Ceiling, failures' = attempt',
         reason = "max_attempts_exhausted" => cap # Unbounded /\ attempt' >= cap
  PROVE  IInv'
<1> USE DEF IInv, GiveUp, Quiesce
<1>1. reports = <<>>
  BY DEF GivesUpAtTheCap
<1>2. reports' = <<reason>>
  BY <1>1
<1>3. socket' \in [Sockets -> {"unused", "dialing", "open", "closing"}]
  BY DEF TypeOK, Closing
<1>4. TypeOK'
  BY <1>2, <1>3, ShortReports DEF TypeOK, Reasons
<1>5. \A i \in Sockets : ~Live(i)'
  BY DEF OneConnection, Live, Closing, TypeOK
<1>6. OneConnection'
  BY <1>5 DEF OneConnection
<1>7. StableInv' /\ ActiveInv' /\ CountInv'
  BY DEF StableInv, ActiveInv, CountInv
<1>8. GivesUpAtTheCap'
  BY <1>2 DEF GivesUpAtTheCap
<1> QED BY <1>4, <1>6, <1>7, <1>8

LEMMA RefusedHolds == IInv /\ ResolveRefused => IInv'
<1> SUFFICES ASSUME IInv, ResolveRefused PROVE IInv'
  OBVIOUS
<1> USE DEF ResolveRefused, Answered
<1>1. CASE closed
  <2>1. TypeOK' /\ OneConnection'
    BY <1>1 DEF IInv, TypeOK, OneConnection, Live
  <2> QED BY <1>1, <2>1 DEF IInv, StableInv, ActiveInv, CountInv, GivesUpAtTheCap
<1>2. CASE ~closed
  <2>1. resolves' \in Nat /\ attempt' \in 0..Ceiling /\ failures' = attempt'
    BY DEF IInv, TypeOK, CountInv
  <2> QED BY <1>2, <2>1, GiveUpHolds
<1> QED BY <1>1, <1>2

LEMMA FailsHolds == IInv /\ ResolveFails => IInv'
<1> SUFFICES ASSUME IInv, ResolveFails PROVE IInv'
  OBVIOUS
<1> USE DEF ResolveFails, Answered, CountFailure
<1>1. /\ resolves' \in Nat
      /\ attempt' \in 0..Ceiling /\ attempt' >= attempt /\ failures' = attempt'
  BY RaisedCounts DEF IInv, TypeOK, CountInv
<1>2. CASE closed
  <2>1. TypeOK'
    BY <1>1, <1>2 DEF IInv, TypeOK
  <2>2. OneConnection'
    BY <1>2 DEF IInv, OneConnection, Live
  <2>3. StableInv' /\ ActiveInv' /\ CountInv'
    BY <1>1, <1>2 DEF IInv, StableInv, ActiveInv, CountInv
  <2>4. cap \in Nat /\ failures \in Nat /\ failures' \in Nat /\ failures' >= failures
    BY <1>1, ListenerAssumption DEF IInv, TypeOK, CountInv
  <2>5. GivesUpAtTheCap'
    BY <1>2, <2>4 DEF IInv, GivesUpAtTheCap
  <2> QED BY <2>1, <2>2, <2>3, <2>5 DEF IInv
<1>3. CASE ~closed /\ Exhausted
  <2>1. GiveUp("max_attempts_exhausted") /\ socket' = Closing(socket) /\ UNCHANGED cap
    BY <1>3
  <2>2. cap # Unbounded /\ attempt' >= cap
    BY <1>3 DEF Exhausted
  <2> QED BY <1>1, <1>3, <2>1, <2>2, GiveUpHolds
<1>4. CASE ~closed /\ ~Exhausted
  <2>1. TryConnect /\ UNCHANGED <<socket, active, stable, cap>>
    BY <1>4
  <2>2. TypeOK'
    BY <1>1, <2>1 DEF IInv, TypeOK, TryConnect
  <2>3. OneConnection'
    BY <1>4, <2>1 DEF IInv, OneConnection, Live, TryConnect, TypeOK
  <2>4. StableInv' /\ ActiveInv' /\ CountInv'
    BY <1>1, <1>4, <2>1 DEF IInv, StableInv, ActiveInv, CountInv, TryConnect
  <2>5. cap # Unbounded => failures' < cap
    BY <1>1, <1>4, ListenerAssumption DEF Exhausted, IInv, TypeOK
  <2>6. GivesUpAtTheCap'
    BY <1>4, <2>1, <2>5 DEF IInv, GivesUpAtTheCap, TryConnect
  <2> QED BY <2>2, <2>3, <2>4, <2>6 DEF IInv
<1> QED BY <1>2, <1>3, <1>4

LEMMA OpenedHolds == ASSUME IInv, NEW i \in Sockets, Opened(i) PROVE IInv'
<1> USE DEF IInv, Opened
<1>1. TypeOK'
  BY DEF TypeOK
<1>2. socket'[i] = "open" /\ \A j \in Sockets : Live(j)' <=> Live(j)
  BY DEF TypeOK, Live
<1>3. ~closed
  BY DEF OneConnection, Live
<1>4. active # Nobody
  BY <1>3 DEF OneConnection, Live
<1>5. active \in Sockets
  BY <1>4 DEF TypeOK
<1>6. OneConnection'
  BY <1>2, <1>3, <1>4, <1>5 DEF OneConnection
<1>7. StableInv' /\ ActiveInv' /\ CountInv' /\ GivesUpAtTheCap'
  BY <1>2, <1>3 DEF StableInv, ActiveInv, CountInv, GivesUpAtTheCap
<1> QED BY <1>1, <1>6, <1>7

LEMMA StableHolds == IInv /\ StableFires => IInv'
<1> SUFFICES ASSUME IInv, StableFires PROVE IInv'
  OBVIOUS
<1> USE DEF IInv, StableFires
<1>1. failures' = 0 /\ ~closed
  BY DEF StableInv
<1>2. TypeOK'
  <2>1. 0 \in 0..Ceiling
    BY ListenerAssumption
  <2> QED BY <1>1, <2>1 DEF TypeOK
<1>3. OneConnection'
  BY DEF OneConnection, Live
<1>4. StableInv' /\ ActiveInv' /\ CountInv'
  BY <1>1 DEF StableInv, ActiveInv, CountInv
<1>5. cap \in Nat
  BY ListenerAssumption DEF TypeOK
<1>6. GivesUpAtTheCap'
  BY <1>1, <1>5 DEF GivesUpAtTheCap, Unbounded
<1> QED BY <1>2, <1>3, <1>4, <1>6

LEMMA ClosesHolds == ASSUME IInv, NEW i \in Sockets, SocketCloses(i) PROVE IInv'
<1> USE DEF SocketCloses, ClearStable
<1>1. /\ socket' \in [Sockets -> {"unused", "dialing", "open", "closing"}]
      /\ \A j \in Sockets : socket'[j] = IF j = i THEN "unused" ELSE socket[j]
  BY DEF IInv, TypeOK
<1>2. \A j \in Sockets : ~Live(j)'
  BY <1>1 DEF IInv, OneConnection, ActiveInv, Live
<1>3. CASE closed
  <2>1. closed' /\ timers' = timers
    BY <1>3
  <2>2. TypeOK' /\ OneConnection'
    BY <1>1, <1>2, <1>3, <2>1 DEF IInv, TypeOK, OneConnection
  <2> QED BY <1>3, <2>2 DEF IInv, StableInv, ActiveInv, CountInv, GivesUpAtTheCap
<1>4. CASE ~closed
  <2>1. attempt' \in 0..Ceiling /\ failures' = attempt'
    BY <1>4, RaisedCounts DEF CountFailure, IInv, TypeOK, CountInv
  <2>2. reports = <<>>
    BY <1>4 DEF IInv, GivesUpAtTheCap
  <2>3. CASE Exhausted /\ closed' = TRUE
    <3>1. timers' = 0 /\ reports' = <<"max_attempts_exhausted">>
      <4>1. Append(<<>>, "max_attempts_exhausted") = <<"max_attempts_exhausted">>
        OBVIOUS
      <4> QED BY <1>4, <2>2, <2>3, <4>1 DEF TryConnect
    <3>2. TypeOK'
      BY <1>1, <2>1, <2>3, <3>1, ShortReports DEF IInv, TypeOK, Reasons
    <3>3. OneConnection'
      BY <1>2, <2>3, <3>1 DEF OneConnection
    <3>4. GivesUpAtTheCap'
      BY <2>1, <2>3, <3>1 DEF Exhausted, GivesUpAtTheCap
    <3> QED BY <2>1, <2>3, <3>2, <3>3, <3>4 DEF IInv, StableInv, ActiveInv, CountInv
  <2>4. CASE ~Exhausted /\ TryConnect
    <3>1. timers = 0 /\ resolves = 0
      <4>1. Live(i)
        BY <1>4 DEF IInv, ActiveInv, Live
      <4> QED BY <4>1, <1>4 DEF IInv, OneConnection
    <3>2. TypeOK'
      <4>1. timers' = 1 /\ resolves' = 0 /\ closed' = closed /\ reports' = reports
        BY <2>4, <3>1 DEF TryConnect
      <4> QED BY <1>1, <2>1, <3>1, <4>1 DEF IInv, TypeOK
    <3>3. OneConnection'
      BY <1>2, <1>4, <2>4, <3>1 DEF OneConnection, TryConnect
    <3>4. cap # Unbounded => failures' < cap
      BY <2>1, <2>4, ListenerAssumption DEF Exhausted, IInv, TypeOK
    <3>5. GivesUpAtTheCap'
      BY <1>4, <2>2, <2>4, <3>4 DEF GivesUpAtTheCap, TryConnect
    <3> QED BY <1>4, <2>1, <2>4, <3>2, <3>3, <3>5
            DEF IInv, StableInv, ActiveInv, CountInv, TryConnect
  <2> QED BY <1>4, <2>3, <2>4
<1> QED BY <1>3, <1>4

LEMMA CloseHolds == IInv /\ Close => IInv'
<1> SUFFICES ASSUME IInv, Close PROVE IInv'
  OBVIOUS
<1> USE DEF IInv, Close, Quiesce
<1>1. socket' \in [Sockets -> {"unused", "dialing", "open", "closing"}]
  BY DEF TypeOK, Closing
<1>2. TypeOK'
  BY <1>1 DEF TypeOK
<1>3. \A i \in Sockets : ~Live(i)'
  BY DEF OneConnection, ActiveInv, Live, Closing, TypeOK
<1>4. OneConnection'
  BY <1>3 DEF OneConnection
<1>5. StableInv' /\ ActiveInv' /\ CountInv' /\ GivesUpAtTheCap'
  BY DEF StableInv, ActiveInv, CountInv, GivesUpAtTheCap
<1> QED BY <1>2, <1>4, <1>5

LEMMA StepHolds == IInv /\ [Next]_vars => IInv'
<1> SUFFICES ASSUME IInv, [Next]_vars PROVE IInv'
  OBVIOUS
<1>1. CASE TimerFires
  BY <1>1, TimerHolds
<1>2. CASE Resolved
  BY <1>2, ResolvedHolds
<1>3. CASE ResolveRefused
  BY <1>3, RefusedHolds
<1>4. CASE ResolveFails
  BY <1>4, FailsHolds
<1>5. CASE \E i \in Sockets : Opened(i)
  BY <1>5, OpenedHolds
<1>6. CASE \E i \in Sockets : SocketCloses(i)
  BY <1>6, ClosesHolds
<1>7. CASE StableFires
  BY <1>7, StableHolds
<1>8. CASE Close
  BY <1>8, CloseHolds
<1>9. CASE UNCHANGED vars
  BY <1>9 DEF vars, IInv, TypeOK, OneConnection, Live, StableInv, ActiveInv, CountInv,
              GivesUpAtTheCap
<1> QED BY <1>1, <1>2, <1>3, <1>4, <1>5, <1>6, <1>7, <1>8, <1>9 DEF Next

LEMMA Inductive == Spec => []IInv
<1>1. Init => IInv
  BY InitHolds
<1>2. IInv /\ [Next]_vars => IInv'
  BY StepHolds
<1> QED BY <1>1, <1>2, PTL DEF Spec

\* Every state of the listener is well formed (asmtp/reconnecting-listener.ts:119-124).
THEOREM ListenerTypes == Spec => []TypeOK
<1>1. IInv => TypeOK
  BY DEF IInv
<1> QED BY <1>1, Inductive, PTL

\* There is never a second connection, and none is left or made after close(), whatever
\* was under way (asmtp/reconnecting-listener.ts:193-300).
THEOREM OneConnectionHolds == Spec => []OneConnection
<1>1. IInv => OneConnection
  BY DEF IInv
<1> QED BY <1>1, Inductive, PTL

\* The listener gives up at its cap, counted from the last stable connection, and says so
\* once (asmtp/reconnecting-listener.ts:160-173, 207-212, 238-254).
THEOREM CapHolds == Spec => []GivesUpAtTheCap
<1>1. IInv => GivesUpAtTheCap
  BY DEF IInv
<1> QED BY <1>1, Inductive, PTL
=============================================================================
