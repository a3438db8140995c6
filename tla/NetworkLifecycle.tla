------------------------- MODULE NetworkLifecycle -------------------------
(***************************************************************************)
(* The supervisor of the local operator (network/lifecycle.ts), the         *)
(* commands that use it (commands/network.ts) and the admin commands that   *)
(* talk to the operator it started (commands/admin.ts).                     *)
(*                                                                          *)
(* Several CLI processes run commands against one profile: one state file   *)
(* with its temporary file, one port, one database file, one row with the   *)
(* admin token and one row with the bearer of an agent.  A child process is *)
(* known by its pid; the admin token minted for a child is named after it.  *)
(* Between any two accesses to something shared another process may run.    *)
(*                                                                          *)
(* Left out: the log file, what /healthz reports beyond its being answered, *)
(* and a write of the temporary file that is cut short (it stays behind     *)
(* under its own name and the next write replaces it).                      *)
(***************************************************************************)
EXTENDS Naturals, FiniteSets

CONSTANTS
  Commands,    \* CLI processes
  Operations,  \* what they may run
  Mishaps,     \* what may go wrong: a subset of AllMishaps
  MaxCalls,    \* bound: commands run
  MaxSpawns,   \* bound: operators spawned
  MaxFaults    \* bound: kinds of faults in one behaviour

AllMishaps == {"starts", "resets", "crossing", "overtaken", "death", "crash", "loss", "reuse", "newer"}
Faults == {"death", "crash", "loss", "reuse"}
Supervision == {"start", "stop", "status", "reset"}
Admin == {"create", "rotate", "remove"}

ASSUME LifecycleAssumption ==
  /\ Operations \subseteq Supervision \cup Admin
  /\ Mishaps \subseteq AllMishaps
  /\ MaxCalls \in Nat /\ MaxSpawns \in Nat /\ MaxFaults \in Nat

VARIABLES
  file,     \* network.json: absent, unreadable, or the pid it records
  tmp,      \* network.json.tmp
  proc,     \* what runs under each pid
  opened,   \* the database file each operator opened
  db,       \* the database file at its path, named after the operator that created it
  agent,    \* the bearer of the agent registered in each database
  admin,    \* the admin token in the credential store
  bearer,   \* the agent's bearer in the credential store
  minted,   \* bearers minted so far
  cmd,      \* where each CLI process is
  calls,    \* commands run so far
  mishaps   \* what has gone wrong so far

vars == <<file, tmp, proc, opened, db, agent, admin, bearer, minted, cmd, calls, mishaps>>
store == <<admin, bearer>>
data  == <<opened, db, agent, minted>>

None == 0
Unreadable == MaxSpawns + 1
Pids == 1..MaxSpawns
Bearers == 1..MaxCalls

Idle == [op |-> "none", at |-> "idle", ref |-> None]
Points == {"idle", "read", "clean", "adopt", "probe", "probing", "spawn", "await", "write",
           "rename", "put", "exit", "unlink", "dropDb", "dropAdmin", "dropAgents",
           "look", "ask", "keep", "forget"}

Alive(p) == proc[p] \in {"boot", "open", "serve", "drain", "other"}
Serving(p) == proc[p] = "serve"
Answers == \E p \in Pids : Serving(p)

Init ==
  /\ file \in {None} \cup (IF "newer" \in Mishaps THEN {Unreadable} ELSE {})
  /\ tmp = None
  /\ proc = [p \in Pids |-> "unborn"]
  /\ opened = [p \in Pids |-> None]
  /\ db = None
  /\ agent = [p \in Pids |-> None]
  /\ admin = None /\ bearer = None /\ minted = 0
  /\ cmd = [c \in Commands |-> Idle]
  /\ calls = 0
  /\ mishaps = {}

-----------------------------------------------------------------------------
At(c, at) == cmd[c].at = at

Strikes(fault) ==
  /\ fault \in Mishaps
  /\ Cardinality((mishaps \cap Faults) \ {fault}) < MaxFaults
  /\ mishaps' = mishaps \cup {fault}

PortTaken == Answers \/ \E c \in Commands : At(c, "probing")
Goes(c, at) == cmd' = [cmd EXCEPT ![c].at = at]
Ends(c) == cmd' = [cmd EXCEPT ![c] = Idle]
Busy == \E c \in Commands : cmd[c].at # "idle"

Unborn == {p \in Pids : proc[p] = "unborn"}
Starting == {c \in Commands : cmd[c].op = "start" /\ cmd[c].at \in {"read", "clean", "probe", "probing", "spawn"}}

\* The overlaps that matter when op begins now: two starts, a start and a reset, an admin
\* command and anything else.
Meeting(op, other) ==
  CASE op \in Admin \/ other \in Admin -> {"crossing"}
    [] op = "start" /\ other = "start" -> {"starts"}
    [] {op, other} = {"start", "reset"} -> {"resets"}
    [] OTHER -> {}

Meets(op) == UNION {Meeting(op, cmd[c].op) : c \in {b \in Commands : ~At(b, "idle")}}

\* A command starts.  An admin command reads the admin token first and ends without one.
Begin(c, op) ==
  /\ At(c, "idle")
  /\ op \in Operations
  /\ calls < MaxCalls /\ calls' = calls + 1
  /\ op = "start" => Cardinality(Starting) < Cardinality(Unborn)
  /\ Meets(op) \subseteq Mishaps
  /\ mishaps' = mishaps \cup Meets(op)
  /\ op \in Admin => admin # None
  /\ cmd' = [cmd EXCEPT ![c] =
               [op |-> op, at |-> IF op \in Admin THEN "ask" ELSE "read",
                ref |-> IF op \in Admin THEN admin ELSE None]]
  /\ UNCHANGED <<file, tmp, proc, data, store>>

\* SIGTERM: an operator that listens shuts down, everything else is ended by it.
Terminate(p) ==
  proc' = [proc EXCEPT ![p] = IF Serving(p) \/ proc[p] = "drain" THEN "drain"
                              ELSE IF Alive(p) THEN "dead" ELSE @]

\* rm of the state file; "overtaken" when it is not the one the command has read.
Remove(c) ==
  /\ file' = None
  /\ mishaps' = IF file \in {None, cmd[c].ref} THEN mishaps ELSE mishaps \cup {"overtaken"}

\* Where a command goes on that found no operator.
AfterNone(c) ==
  CASE cmd[c].op = "start" -> Goes(c, "probe")
    [] cmd[c].op = "reset" -> Goes(c, "dropDb")
    [] OTHER -> Ends(c)

\* An unreadable state file ends every command with an error.
ReadUnreadable(c) ==
  /\ At(c, "read") /\ file = Unreadable
  /\ Ends(c)
  /\ UNCHANGED <<file, tmp, proc, data, store, calls, mishaps>>

ReadNothing(c) ==
  /\ At(c, "read") /\ file = None
  /\ AfterNone(c)
  /\ UNCHANGED <<file, tmp, proc, data, store, calls, mishaps>>

\* Mutant: a file that cannot be read passes for that of a dead process.
CleanUnreadable(c) ==
  /\ At(c, "read") /\ file # None /\ (file \in Pids => ~Alive(file))
  /\ cmd' = [cmd EXCEPT ![c] = [@ EXCEPT !.at = "clean", !.ref = file]]
  /\ UNCHANGED <<file, tmp, proc, data, store, calls, mishaps>>

\* The recorded process is dead: the file is about to be removed.
ReadStale(c) ==
  /\ At(c, "read") /\ file \in Pids /\ ~Alive(file)
  /\ cmd' = [cmd EXCEPT ![c] = [@ EXCEPT !.at = "clean", !.ref = file]]
  /\ UNCHANGED <<file, tmp, proc, data, store, calls, mishaps>>

Clean(c) ==
  /\ At(c, "clean")
  /\ Remove(c)
  /\ AfterNone(c)
  /\ UNCHANGED <<tmp, proc, data, store, calls>>

\* The recorded process is alive: start and status ask for its health, stop signals it.
ReadAlive(c) ==
  /\ At(c, "read") /\ file \in Pids /\ Alive(file)
  /\ LET at == CASE cmd[c].op = "start" -> "adopt"
                 [] cmd[c].op = "status" -> "look"
                 [] OTHER -> "exit"
     IN  /\ cmd' = [cmd EXCEPT ![c] = [@ EXCEPT !.at = at, !.ref = file]]
         /\ IF at = "exit" THEN Terminate(file) ELSE UNCHANGED proc
  /\ UNCHANGED <<file, tmp, data, store, calls, mishaps>>

\* The health poll of start and status ends with an answer or at its deadline.  Either
\* way nothing is changed: a start that adopts has no token to store.
Look(c) ==
  /\ At(c, "adopt") \/ At(c, "look")
  /\ Ends(c)
  /\ UNCHANGED <<file, tmp, proc, data, store, calls, mishaps>>

-----------------------------------------------------------------------------
\* start

\* The probe binds the port itself for a moment.
Probe(c) ==
  /\ At(c, "probe")
  /\ IF PortTaken THEN Ends(c) ELSE Goes(c, "probing")
  /\ UNCHANGED <<file, tmp, proc, data, store, calls, mishaps>>

Release(c) ==
  /\ At(c, "probing")
  /\ Goes(c, "spawn")
  /\ UNCHANGED <<file, tmp, proc, data, store, calls, mishaps>>

Spawn(c) ==
  /\ At(c, "spawn")
  /\ \E p \in Unborn :
       /\ \A q \in Unborn : p <= q
       /\ proc' = [proc EXCEPT ![p] = "boot"]
       /\ cmd' = [cmd EXCEPT ![c] = [@ EXCEPT !.at = "await", !.ref = p]]
  /\ UNCHANGED <<file, tmp, data, store, calls, mishaps>>

\* The first answer on the port counts, whoever gives it.
Healthy(c) ==
  /\ At(c, "await") /\ Answers
  /\ Goes(c, "write")
  /\ UNCHANGED <<file, tmp, proc, data, store, calls, mishaps>>

\* Mutant: the child of a failed start is left alone.
GiveUp(c) ==
  /\ At(c, "await")
  /\ Ends(c)
  /\ mishaps' = IF Serving(cmd[c].ref) THEN mishaps \cup {"late"} ELSE mishaps
  /\ UNCHANGED <<file, tmp, proc, data, store, calls>>

\* The deadline passes without an answer: the child is told to go, which is "late" when
\* it has come up since the last poll.
NotHealthy(c) ==
  /\ At(c, "await")
  /\ Terminate(cmd[c].ref)
  /\ Ends(c)
  /\ mishaps' = IF Serving(cmd[c].ref) THEN mishaps \cup {"late"} ELSE mishaps
  /\ UNCHANGED <<file, tmp, data, store, calls>>

WriteTmp(c) ==
  /\ At(c, "write")
  /\ tmp' = cmd[c].ref
  /\ Goes(c, "rename")
  /\ UNCHANGED <<file, proc, data, store, calls, mishaps>>

\* The rename fails when another start has moved the shared temporary file away.
Rename(c) ==
  /\ At(c, "rename")
  /\ IF tmp = None THEN UNCHANGED <<file, tmp>> /\ Ends(c)
                   ELSE file' = tmp /\ tmp' = None /\ Goes(c, "put")
  /\ UNCHANGED <<proc, data, store, calls, mishaps>>

\* Mutant: a token that is stored already is kept.
KeepOldToken(c) ==
  /\ At(c, "put")
  /\ admin' = IF admin = None THEN cmd[c].ref ELSE admin
  /\ Ends(c)
  /\ UNCHANGED <<file, tmp, proc, data, bearer, calls, mishaps>>

PutToken(c) ==
  /\ At(c, "put")
  /\ admin' = cmd[c].ref
  /\ Ends(c)
  /\ UNCHANGED <<file, tmp, proc, data, bearer, calls, mishaps>>

-----------------------------------------------------------------------------
\* stop and reset

\* Mutant: the signal alone counts as the exit.
AssumeExited(c) ==
  /\ At(c, "exit")
  /\ Goes(c, "unlink")
  /\ UNCHANGED <<file, tmp, proc, data, store, calls, mishaps>>

Exited(c) ==
  /\ At(c, "exit") /\ ~Alive(cmd[c].ref)
  /\ Goes(c, "unlink")
  /\ UNCHANGED <<file, tmp, proc, data, store, calls, mishaps>>

\* Mutant: another SIGTERM instead of SIGKILL.
AskAgain(c) ==
  /\ At(c, "exit") /\ Alive(cmd[c].ref)
  /\ Terminate(cmd[c].ref)
  /\ UNCHANGED <<file, tmp, data, store, cmd, calls, mishaps>>

\* The grace period is over: SIGKILL.
Kill(c) ==
  /\ At(c, "exit") /\ Alive(cmd[c].ref)
  /\ proc' = [proc EXCEPT ![cmd[c].ref] = "dead"]
  /\ Goes(c, "unlink")
  /\ UNCHANGED <<file, tmp, data, store, calls, mishaps>>

Unlink(c) ==
  /\ At(c, "unlink")
  /\ Remove(c)
  /\ IF cmd[c].op = "reset" THEN Goes(c, "dropDb") ELSE Ends(c)
  /\ UNCHANGED <<tmp, proc, data, store, calls>>

DropDb(c) ==
  /\ At(c, "dropDb")
  /\ db' = None
  /\ Goes(c, "dropAdmin")
  /\ UNCHANGED <<file, tmp, proc, opened, agent, minted, store, calls, mishaps>>

DropAdmin(c) ==
  /\ At(c, "dropAdmin")
  /\ admin' = None
  /\ Goes(c, "dropAgents")
  /\ UNCHANGED <<file, tmp, proc, data, bearer, calls, mishaps>>

\* Mutant: reset keeps the bearers.
SpareAgents(c) ==
  /\ At(c, "dropAgents")
  /\ Ends(c)
  /\ UNCHANGED <<file, tmp, proc, data, store, calls, mishaps>>

DropAgents(c) ==
  /\ At(c, "dropAgents")
  /\ bearer' = None
  /\ Ends(c)
  /\ UNCHANGED <<file, tmp, proc, data, admin, calls, mishaps>>

-----------------------------------------------------------------------------
\* admin agent create, rotate-token, remove

\* What the operator does with a request: the token must be its own; create wants an
\* agent that is not there, the others one that is.
Granted(op, p, token) ==
  /\ Serving(p) /\ token = p
  /\ (op = "create") = (agent[opened[p]] = None)

Request(c, p) ==
  IF cmd[c].op = "remove"
  THEN agent' = [agent EXCEPT ![opened[p]] = None] /\ UNCHANGED minted
  ELSE /\ minted' = minted + 1
       /\ agent' = [agent EXCEPT ![opened[p]] = minted']

Ask(c) ==
  /\ At(c, "ask")
  /\ \E p \in Pids :
       /\ Granted(cmd[c].op, p, cmd[c].ref)
       /\ Request(c, p)
  /\ cmd' = [cmd EXCEPT ![c] =
               [@ EXCEPT !.at = IF cmd[c].op = "remove" THEN "forget" ELSE "keep",
                         !.ref = IF cmd[c].op = "remove" THEN None ELSE minted']]
  /\ UNCHANGED <<file, tmp, proc, opened, db, store, calls, mishaps>>

\* 401, 404, 409, or nobody listens.
AskRefused(c) ==
  /\ At(c, "ask")
  /\ ~\E p \in Pids : Granted(cmd[c].op, p, cmd[c].ref)
  /\ Ends(c)
  /\ UNCHANGED <<file, tmp, proc, data, store, calls, mishaps>>

\* The operator has committed and dies before it answers.
AskLost(c) ==
  /\ Strikes("loss")
  /\ At(c, "ask")
  /\ \E p \in Pids :
       /\ Granted(cmd[c].op, p, cmd[c].ref)
       /\ Request(c, p)
       /\ proc' = [proc EXCEPT ![p] = "dead"]
  /\ Ends(c)
  /\ UNCHANGED <<file, tmp, opened, db, store, calls>>

Keep(c) ==
  /\ At(c, "keep")
  /\ bearer' = cmd[c].ref
  /\ Ends(c)
  /\ UNCHANGED <<file, tmp, proc, data, admin, calls, mishaps>>

Forget(c) ==
  /\ At(c, "forget")
  /\ bearer' = None
  /\ Ends(c)
  /\ UNCHANGED <<file, tmp, proc, data, admin, calls, mishaps>>

-----------------------------------------------------------------------------
\* The operator process: the database is opened, and created, before the port is bound.

OpenDb(p) ==
  /\ proc[p] = "boot"
  /\ proc' = [proc EXCEPT ![p] = "open"]
  /\ db' = IF db = None THEN p ELSE db
  /\ opened' = [opened EXCEPT ![p] = db']
  /\ UNCHANGED <<file, tmp, agent, minted, store, cmd, calls, mishaps>>

Bind(p) ==
  /\ proc[p] = "open"
  /\ proc' = [proc EXCEPT ![p] = IF PortTaken THEN "dead" ELSE "serve"]
  /\ UNCHANGED <<file, tmp, data, store, cmd, calls, mishaps>>

\* The end of a shutdown.
Exit(p) ==
  /\ proc[p] = "drain"
  /\ proc' = [proc EXCEPT ![p] = "dead"]
  /\ UNCHANGED <<file, tmp, data, store, cmd, calls, mishaps>>

Crash(p) ==
  /\ Strikes("crash")
  /\ proc[p] \in {"boot", "open", "serve"}
  /\ proc' = [proc EXCEPT ![p] = "dead"]
  /\ UNCHANGED <<file, tmp, data, store, cmd, calls>>

\* The system gives the pid of a dead operator to another program, which ends one day.
Reuse(p) ==
  /\ Strikes("reuse")
  /\ proc[p] = "dead"
  /\ proc' = [proc EXCEPT ![p] = "other"]
  /\ UNCHANGED <<file, tmp, data, store, cmd, calls>>

OtherEnds(p) ==
  /\ proc[p] = "other"
  /\ proc' = [proc EXCEPT ![p] = "dead"]
  /\ UNCHANGED <<file, tmp, data, store, cmd, calls, mishaps>>

\* A CLI process dies; the operator it spawned is detached and lives on.
Die(c) ==
  /\ Strikes("death")
  /\ ~At(c, "idle")
  /\ Ends(c)
  /\ UNCHANGED <<file, tmp, proc, data, store, calls>>

-----------------------------------------------------------------------------
ReadStep(c) == ReadUnreadable(c) \/ ReadNothing(c) \/ ReadStale(c) \/ ReadAlive(c) \/ Clean(c)
StartStep(c) == \/ Probe(c) \/ Release(c) \/ Spawn(c) \/ Healthy(c) \/ NotHealthy(c)
                \/ WriteTmp(c) \/ Rename(c) \/ PutToken(c)
StopStep(c) == \/ Exited(c) \/ Kill(c) \/ Unlink(c)
               \/ DropDb(c) \/ DropAdmin(c) \/ DropAgents(c)
AdminStep(c) == Ask(c) \/ AskRefused(c) \/ Keep(c) \/ Forget(c)
Step(c) == ReadStep(c) \/ Look(c) \/ StartStep(c) \/ StopStep(c) \/ AdminStep(c)
ProcessStep(p) == OpenDb(p) \/ Bind(p) \/ Exit(p)

Next ==
  \/ \E c \in Commands : (\E op \in Operations : Begin(c, op)) \/ Step(c) \/ AskLost(c) \/ Die(c)
  \/ \E p \in Pids : ProcessStep(p) \/ Crash(p) \/ Reuse(p) \/ OtherEnds(p)

Spec == Init /\ [][Next]_vars

\* A CLI process that has not died goes on, and its deadlines pass.  Nothing is assumed
\* of operators: one that never comes up or never goes down is what the deadlines are for.
FairSpec == Spec /\ \A c \in Commands : WF_vars(Step(c))

-----------------------------------------------------------------------------
\* Invariants

\* Every variable holds a value of its declared shape.
TypeOK ==
  /\ file \in {None, Unreadable} \cup Pids /\ tmp \in {None} \cup Pids
  /\ proc \in [Pids -> {"unborn", "boot", "open", "serve", "drain", "dead", "other"}]
  /\ opened \in [Pids -> {None} \cup Pids]
  /\ db \in {None} \cup Pids
  /\ agent \in [Pids -> {None} \cup Bearers]
  /\ admin \in {None} \cup Pids /\ bearer \in {None} \cup Bearers
  /\ minted \in 0..MaxCalls
  /\ cmd \in [Commands -> [op : {"none"} \cup Supervision \cup Admin, at : Points,
                           ref : {None} \cup Pids \cup Bearers]]
  /\ \A c \in Commands : cmd[c].op \in Supervision => cmd[c].ref \in {None} \cup Pids
  /\ calls \in 0..MaxCalls
  /\ mishaps \subseteq AllMishaps \cup {"late"}

\* Nobody supervises, and nothing of the kinds given has happened.
Without(kinds) ==
  /\ \A c \in Commands : cmd[c].op \notin Supervision
  /\ mishaps \cap kinds = {}
Up(p) == proc[p] \in {"boot", "open", "serve"}

\* Every operator that is up is the one the state file records, so that stop and reset
\* find it: whatever operators crashed, however long they took, whatever became of their
\* pids, however stops, resets and status checks overlapped each other or a start.  Only
\* two starts at a time, an rm that hits a newer file, and the death of a CLI process
\* can leave an operator behind.
ServerIsRecorded ==
  Without({"starts", "overtaken", "death"}) => \A p \in Pids : Up(p) => file = p

\* ... and, unless a reset ran beside a start, the stored admin token is its own.
TokenOpensTheServer ==
  Without({"starts", "overtaken", "death", "resets"}) => \A p \in Pids : Serving(p) => admin = p

\* ... and the stored agent bearer is the one registered in the database at the path,
\* through creations, rotations, removals and resets, when admin commands ran alone and
\* no answer was lost.
BearerFitsTheDatabase ==
  (~Busy /\ Without({"starts", "overtaken", "death", "resets", "loss", "crossing"})) =>
     bearer = (IF db = None THEN None ELSE agent[db])

-----------------------------------------------------------------------------
\* What a step may never do

\* A reset takes the database away only from operators that are gone (lifecycle.ts waits
\* for the exit, then kills), unless a start ran beside it or failed late, or left one
\* behind in one of the ways above.
ResetSparesTheRunning ==
  [][(db # None /\ db' = None /\ mishaps \cap {"starts", "overtaken", "death", "resets", "late"} = {})
       => \A p \in Pids : Up(p) \/ proc[p] = "drain" => opened[p] # db]_vars

-----------------------------------------------------------------------------
\* What must happen

\* Every command ends, whatever the operators do: it has a deadline wherever it waits.
CommandsEnd == \A c \in Commands : cmd[c].at # "idle" ~> cmd[c].at = "idle"

-----------------------------------------------------------------------------
\* What the messages say and the code does not do

\* "no local admin token for network ... Start the operator with `robotnet network
\* start`" (asmtp/credentials.ts): a start that finds the operator running leaves the
\* profile with its token, as a start that spawns it does.
StartLeavesTheToken ==
  mishaps \cap {"starts", "resets", "overtaken"} = {} =>
     \A c \in Commands : At(c, "adopt") /\ Serving(cmd[c].ref) => admin = cmd[c].ref

\* "State file ... is unreadable or malformed ... Run `robotnet network reset` to clear
\* it" (network/errors.ts): a reset that ends has cleared the state file.
ResetClearsTheFile ==
  [][\A c \in Commands :
       (cmd[c].op = "reset" /\ cmd'[c] = Idle /\ "death" \notin mishaps') => file' # Unreadable]_vars

=============================================================================
