----------------------- MODULE ReconnectingListener -----------------------
(***************************************************************************)
(* The reconnecting WebSocket client of `robotnet listen`                   *)
(* (asmtp/reconnecting-listener.ts over asmtp/listener.ts).                 *)
(*                                                                          *)
(* One Node process runs callbacks one at a time: timers, the answer of     *)
(* resolve(), the events of a socket, and close().  Whatever was started    *)
(* before close() may still report after it.  Each callback is an action.   *)
(*                                                                          *)
(* Delays are not modelled: a timer fires some time after it was set.  The  *)
(* frames of a connection and their dedup gate are in Listen.  A counter    *)
(* stops at Ceiling, which no finite cap exceeds; past the caps the code    *)
(* compares it with nothing.                                                *)
(***************************************************************************)
EXTENDS Naturals, Sequences

CONSTANTS
  Caps,       \* the values of --max-attempts, with Unbounded
  Sockets,    \* WebSocket objects that may exist at once
  Ceiling     \* bound: where the counters stop

Unbounded == 0
Nobody == 0

ASSUME ListenerAssumption ==
  /\ Ceiling \in Nat \ {0}
  /\ Caps \subseteq 0..Ceiling
  /\ Sockets \subseteq Nat \ {0}

VARIABLES
  cap,        \* maxAttempts
  attempt,    \* failures since the last stable connection, as the code counts them
  timers,     \* reconnect timers that are set
  resolves,   \* calls of resolve() under way
  socket,     \* what has become of each WebSocket
  active,     \* the listener close() would close
  stable,     \* is the stable timer set
  closed,
  reports,    \* what onTerminalFailure has been told, in order
  failures    \* failures since a connection was last open for long enough

vars == <<cap, attempt, timers, resolves, socket, active, stable, closed, reports, failures>>

Live(i) == socket[i] \in {"dialing", "open"}
Raised(n) == IF n < Ceiling THEN n + 1 ELSE n

\* void doConnect(): the first attempt is under way
Init ==
  /\ cap \in Caps
  /\ attempt = 0 /\ failures = 0
  /\ timers = 0 /\ resolves = 1
  /\ socket = [i \in Sockets |-> "unused"]
  /\ active = Nobody
  /\ stable = FALSE /\ closed = FALSE
  /\ reports = <<>>

-----------------------------------------------------------------------------
\* What several callbacks do

\* clearReconnect, clearStable, active.close(): the socket's "close" comes later.
Quiesce ==
  /\ closed' = TRUE
  /\ timers' = 0
  /\ stable' = FALSE
  /\ active' = Nobody

Closing(sockets) == IF active = Nobody THEN sockets ELSE [sockets EXCEPT ![active] = "closing"]

GiveUp(reason) ==
  /\ Quiesce
  /\ reports' = Append(reports, reason)

TryConnect ==
  /\ timers' = timers + 1
  /\ UNCHANGED <<closed, reports>>

\* Mutant: the cap is passed before it stops anything.
ExhaustedLate == cap # Unbounded /\ attempt' > cap

Exhausted == cap # Unbounded /\ attempt' >= cap

CountFailure ==
  /\ attempt' = Raised(attempt)
  /\ failures' = Raised(failures)

-----------------------------------------------------------------------------
\* The callbacks

\* The body of the reconnect timer, up to the await of resolve().
TimerFires ==
  /\ timers > 0 /\ ~closed
  /\ timers' = timers - 1
  /\ resolves' = resolves + 1
  /\ UNCHANGED <<cap, attempt, socket, active, stable, closed, reports, failures>>

Answered ==
  /\ resolves > 0
  /\ resolves' = resolves - 1

\* Mutant: nobody looks at closed after the await.
DialAnyway ==
  /\ Answered
  /\ \E i \in Sockets :
       /\ socket[i] = "unused"
       /\ socket' = [socket EXCEPT ![i] = "dialing"]
       /\ active' = i
  /\ UNCHANGED <<cap, attempt, timers, stable, closed, reports, failures>>

Resolved ==
  /\ Answered
  /\ IF closed
     THEN UNCHANGED <<socket, active>>
     ELSE \E i \in Sockets :
            /\ socket[i] = "unused"
            /\ socket' = [socket EXCEPT ![i] = "dialing"]
            /\ active' = i
  /\ UNCHANGED <<cap, attempt, timers, stable, closed, reports, failures>>

\* A typed error that is not a TransientAuthError; fireTerminal returns early once closed.
ResolveRefused ==
  /\ Answered
  /\ IF closed
     THEN UNCHANGED <<timers, socket, active, stable, closed, reports>>
     ELSE GiveUp("permanent_resolve_error") /\ socket' = Closing(socket)
  /\ UNCHANGED <<cap, attempt, failures>>

\* Mutant: a failed resolve() is counted and not tried again.
Forget ==
  /\ Answered /\ CountFailure
  /\ IF ~closed /\ Exhausted
     THEN GiveUp("max_attempts_exhausted") /\ socket' = Closing(socket)
     ELSE UNCHANGED <<timers, socket, active, stable, closed, reports>>
  /\ UNCHANGED cap

\* Any other error; the attempt is counted even when closed.
ResolveFails ==
  /\ Answered /\ CountFailure
  /\ \/ closed /\ UNCHANGED <<timers, socket, active, stable, closed, reports>>
     \/ ~closed /\ Exhausted
        /\ GiveUp("max_attempts_exhausted") /\ socket' = Closing(socket)
     \/ ~closed /\ ~Exhausted /\ TryConnect
        /\ UNCHANGED <<socket, active, stable>>
  /\ UNCHANGED cap

Opened(i) ==
  /\ socket[i] = "dialing"
  /\ socket' = [socket EXCEPT ![i] = "open"]
  /\ stable' = TRUE
  /\ UNCHANGED <<cap, attempt, timers, resolves, active, closed, reports, failures>>

StableFires ==
  /\ stable
  /\ stable' = FALSE
  /\ attempt' = 0
  /\ failures' = IF \E i \in Sockets : socket[i] = "open" THEN 0 ELSE failures
  /\ UNCHANGED <<cap, timers, resolves, socket, active, closed, reports>>

\* Mutant: the stable timer outlives its connection.
LeaveStable == UNCHANGED stable

ClearStable == stable' = FALSE

\* A refused dial, a server that went away, or the end of our own close().
SocketCloses(i) ==
  /\ socket[i] \in {"dialing", "open", "closing"}
  /\ socket' = [socket EXCEPT ![i] = "unused"]
  /\ active' = Nobody
  /\ ClearStable
  /\ \/ closed /\ UNCHANGED <<attempt, timers, closed, reports, failures>>
     \/ ~closed /\ CountFailure /\ Exhausted /\ closed' = TRUE /\ timers' = 0
        /\ reports' = Append(reports, "max_attempts_exhausted")
     \/ ~closed /\ CountFailure /\ ~Exhausted /\ TryConnect
  /\ UNCHANGED <<cap, resolves>>

\* SIGINT in commands/listen.ts
Close ==
  /\ Quiesce
  /\ socket' = Closing(socket)
  /\ UNCHANGED <<cap, attempt, resolves, reports, failures>>

Next ==
  \/ TimerFires
  \/ Resolved \/ ResolveRefused \/ ResolveFails
  \/ \E i \in Sockets : Opened(i) \/ SocketCloses(i)
  \/ StableFires
  \/ Close

Spec == Init /\ [][Next]_vars

\* A timer fires; resolve() returns (TokenRefresh!ResolvesEnd, and its requests time
\* out); and what makes it fail passes: asked again and again, it answers.  Nothing
\* is assumed of a dial: the code sets no handshake timeout, so one may hang.
Fairness ==
  /\ WF_vars(TimerFires)
  /\ WF_vars(Resolved \/ ResolveRefused \/ ResolveFails)
  /\ SF_vars(Resolved)

FairSpec == Spec /\ Fairness

-----------------------------------------------------------------------------
\* Properties

TypeOK ==
  /\ cap \in Caps
  /\ attempt \in 0..Ceiling /\ failures \in 0..Ceiling
  /\ timers \in Nat /\ resolves \in Nat
  /\ socket \in [Sockets -> {"unused", "dialing", "open", "closing"}]
  /\ active \in Sockets \cup {Nobody}
  /\ stable \in BOOLEAN /\ closed \in BOOLEAN
  /\ reports \in Seq({"permanent_resolve_error", "max_attempts_exhausted"})

\* A listener that is not closed has exactly one thing under way: a timer, a
\* resolve(), or one socket, which close() would reach.  A closed one has no timer
\* and no socket it has not closed, whatever was under way when it was closed.
OneConnection ==
  /\ ~closed => \/ /\ active = Nobody
                   /\ timers + resolves = 1
                   /\ \A i \in Sockets : ~Live(i)
                \/ /\ active # Nobody /\ Live(active)
                   /\ timers = 0 /\ resolves = 0
                   /\ \A i \in Sockets : Live(i) => i = active
  /\ closed => timers = 0 /\ \A i \in Sockets : ~Live(i)

\* maxAttempts, "Cap on reconnect attempts", and resetAfterStableMs: the listener
\* gives up at the cap-th failure since a connection was last open for long, not
\* before and not after, and the failures of an earlier outage do not count.
\* onTerminalFailure is "fired exactly once", and not while the listener goes on.
GivesUpAtTheCap ==
  /\ cap # Unbounded /\ ~closed => failures < cap
  /\ reports = <<"max_attempts_exhausted">> => cap # Unbounded /\ failures >= cap
  /\ Len(reports) <= 1
  /\ ~closed => reports = <<>>

\* "A listener that survives transient WebSocket drops": whatever failed, a listener
\* without a connection dials again, unless it is closed or has given up.
KeepsTrying == (\A i \in Sockets : ~Live(i)) ~> (closed \/ \E i \in Sockets : Live(i))
=============================================================================
