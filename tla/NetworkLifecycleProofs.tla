----------------------- MODULE NetworkLifecycleProofs ------------------------
(***************************************************************************)
(* Theorems about NetworkLifecycle, for any number of commands, spawns,     *)
(* calls and faults: the operator that runs is the one the state file       *)
(* records and the one the stored token opens, the stored bearer is the one *)
(* of the database, and a reset takes nothing from an operator that runs.   *)
(*                                                                          *)
(* None of these is inductive: each is about a state with no command under  *)
(* way.  Shape holds whatever happens; Tracked, Tokens and Bearing follow   *)
(* an operator, its token and the bearer through the steps of the commands, *)
(* until one of the mishaps that the property names has happened.           *)
(***************************************************************************)
EXTENDS NetworkLifecycle, FiniteSetTheorems, TLAPS

-----------------------------------------------------------------------------
\* The inductive invariant

Refs == {None} \cup Pids \cup Bearers
CmdType == [op : {"none"} \cup Supervision \cup Admin, at : Points, ref : Refs]
Cmds == cmd \in [Commands -> CmdType]

\* The points each command goes through.
Route(op) ==
  CASE op = "none" -> {"idle"}
    [] op = "start" -> {"read", "clean", "adopt", "probe", "probing", "spawn", "await", "write",
                        "rename", "put"}
    [] op = "stop" -> {"read", "clean", "exit", "unlink"}
    [] op = "status" -> {"read", "clean", "look"}
    [] op = "reset" -> {"read", "clean", "exit", "unlink", "dropDb", "dropAdmin", "dropAgents"}
    [] op = "remove" -> {"ask", "forget"}
    [] OTHER -> {"ask", "keep"}

Raising(c) == cmd[c].at \in {"await", "write", "rename"}
Clearing(c) == cmd[c].op = "start" /\ cmd[c].at \in {"clean", "probe", "probing", "spawn"}
Dropping(c) == cmd[c].at \in {"dropDb", "dropAdmin", "dropAgents"}

\* A command keeps to its points, and refers to what it has found or made.
Role(c) ==
  /\ cmd[c].at \in Route(cmd[c].op)
  /\ Raising(c) \/ At(c, "put") => cmd[c].ref \in Pids /\ proc[cmd[c].ref] # "unborn"
  /\ At(c, "exit") => cmd[c].ref \in Pids /\ proc[cmd[c].ref] \in {"drain", "dead", "other"}
  /\ At(c, "clean") \/ At(c, "unlink") => cmd[c].ref \in Pids /\ proc[cmd[c].ref] \in {"dead", "other"}
  /\ At(c, "ask") => cmd[c].ref \in Pids
  /\ At(c, "keep") => cmd[c].ref \in Bearers

Roles == \A c \in Commands : Role(c)

\* The state file and the temporary file name operators that were spawned.
Born ==
  /\ file \in Pids => proc[file] # "unborn"
  /\ tmp \in Pids => proc[tmp] # "unborn"

\* Commands that have not been answered yet may each be granted one bearer more.
Asking == {c \in Commands : At(c, "ask")}
Counted == IsFiniteSet(Asking) /\ minted + Cardinality(Asking) <= calls

\* Commands overlap only once their overlap has been noted.
Meetings ==
  /\ "starts" \notin mishaps =>
       \A c, d \in Commands : cmd[c].op = "start" /\ cmd[d].op = "start" => c = d
  /\ "resets" \notin mishaps =>
       \A c, d \in Commands : ~(cmd[c].op = "start" /\ cmd[d].op = "reset")
  /\ "crossing" \notin mishaps =>
       \A c, d \in Commands : cmd[c].op \in Admin /\ cmd[d].op # "none" => c = d

\* An operator that runs has a database open; the one named after an operator is made by
\* nobody else, and is empty until it runs.
Databases ==
  /\ \A p \in Pids : proc[p] \in {"open", "serve"} => opened[p] \in Pids
  /\ \A p \in Pids : proc[p] \in {"unborn", "boot"} =>
       agent[p] = None /\ db # p /\ \A q \in Pids : opened[q] # p

\* An operator that is up, or that was told to end and did not get there late.
Live(p) == Up(p) \/ (proc[p] = "drain" /\ "late" \notin mishaps)
Spared(kinds) == mishaps \cap kinds = {}

\* An operator that lives is recorded, or a start is about to record it.
Found == \A p \in Pids : Live(p) => file = p \/ \E c \in Commands : Raising(c) /\ cmd[c].ref = p

\* There is none while a start is about to spawn one, ...
Cleared == \A c \in Commands : Clearing(c) => \A p \in Pids : ~Live(p)

\* ... and none but the one it has spawned until it is recorded.
Raised ==
  \A c \in Commands : Raising(c) =>
    /\ file # cmd[c].ref /\ proc[cmd[c].ref] # "drain"
    /\ \A p \in Pids : Live(p) => p = cmd[c].ref
    /\ At(c, "rename") => tmp = cmd[c].ref

Recorded == \A c \in Commands : At(c, "put") => file \in {None, cmd[c].ref}

Tracked == Spared({"starts", "overtaken", "death"}) => Found /\ Cleared /\ Raised /\ Recorded

\* The stored token is that of the operator that lives, or a start is about to store it.
Known ==
  \A p \in Pids : Live(p) =>
    admin = p \/ \E c \in Commands : (Raising(c) \/ At(c, "put")) /\ cmd[c].ref = p

\* No operator lives while a reset drops what it had.
Emptied ==
  /\ \A c \in Commands : Dropping(c) => \A p \in Pids : ~Live(p)
  /\ \A c \in Commands : cmd[c].at \in {"dropAdmin", "dropAgents"} => db = None

\* The operator has the database at the path open.
Opened == \A p \in Pids : proc[p] \in {"open", "serve"} => opened[p] = db

Tokens == Spared({"starts", "overtaken", "death", "resets"}) => Known /\ Emptied /\ Opened

\* The stored bearer fits the database, or a command is about to make it fit.
Fitting ==
  \/ bearer = (IF db = None THEN None ELSE agent[db])
  \/ \E c \in Commands : cmd[c].at \in {"dropAdmin", "dropAgents", "keep", "forget"}

Promised ==
  \A c \in Commands :
    /\ At(c, "keep") => db \in Pids /\ agent[db] = cmd[c].ref
    /\ At(c, "forget") => db \in Pids /\ agent[db] = None

Bearing ==
  Spared({"starts", "overtaken", "death", "resets", "loss", "crossing"}) => Fitting /\ Promised

\* What holds whatever happens, and what holds until one of the mishaps has.
Shape == TypeOK /\ Roles /\ Born /\ Counted /\ Meetings /\ Databases
IInv == Shape /\ Tracked /\ Tokens /\ Bearing

-----------------------------------------------------------------------------
\* Commands move

\* c is now at another point, with another reference; the others are where they were.
Moves(c, op, at, ref) ==
  /\ cmd'[c].op = op /\ cmd'[c].at = at /\ cmd'[c].ref = ref
  /\ \A d \in Commands \ {c} : cmd'[d] = cmd[d]

LEMMA CmdFacts ==
  ASSUME TypeOK
  PROVE  /\ Cmds /\ \A c \in Commands : cmd[c] \in CmdType
         /\ MaxSpawns \in Nat /\ MaxCalls \in Nat
         /\ None \notin Pids /\ Unreadable \notin Pids /\ Unreadable # None
  BY LifecycleAssumption DEF TypeOK, Cmds, CmdType, Refs, Pids, None, Unreadable

LEMMA SetFacts ==
  ASSUME Cmds, NEW c \in Commands, NEW at \in Points, NEW ref \in Refs,
         cmd' = [cmd EXCEPT ![c] = [@ EXCEPT !.at = at, !.ref = ref]]
  PROVE  Cmds' /\ Moves(c, cmd[c].op, at, ref)
  <1>1. PICK row : row = [cmd[c] EXCEPT !.at = at, !.ref = ref]
    OBVIOUS
  <1>2. row \in CmdType /\ row.op = cmd[c].op /\ row.at = at /\ row.ref = ref
    BY <1>1 DEF Cmds, CmdType
  <1>3. cmd' = [cmd EXCEPT ![c] = row]
    BY <1>1
  <1>4. QED
    BY <1>2, <1>3 DEF Cmds, Moves

LEMMA GoesFacts ==
  ASSUME Cmds, NEW c \in Commands, NEW at \in Points, Goes(c, at)
  PROVE  Cmds' /\ Moves(c, cmd[c].op, at, cmd[c].ref)
  <1>1. PICK row : row = [cmd[c] EXCEPT !.at = at]
    OBVIOUS
  <1>2. row \in CmdType /\ row.op = cmd[c].op /\ row.at = at /\ row.ref = cmd[c].ref
    BY <1>1 DEF Cmds, CmdType
  <1>3. cmd' = [cmd EXCEPT ![c] = row]
    BY <1>1, <1>2 DEF Goes
  <1>4. QED
    BY <1>2, <1>3 DEF Cmds, Moves

LEMMA EndsFacts ==
  ASSUME Cmds, NEW c \in Commands, Ends(c)
  PROVE  Cmds' /\ Moves(c, "none", "idle", None)
  <1>1. Idle \in CmdType /\ Idle.op = "none" /\ Idle.at = "idle" /\ Idle.ref = None
    BY DEF Idle, CmdType, Points, Refs
  <1>2. QED
    BY <1>1 DEF Ends, Cmds, Moves

-----------------------------------------------------------------------------
\* What the actions do, in these terms

States == {"unborn", "boot", "open", "serve", "drain", "dead", "other"}
Procs == proc \in [Pids -> States]

\* The state of p, and of no other process, is now s.
Turns(p, s) == proc'[p] = s /\ \A q \in Pids \ {p} : proc'[q] = proc[q]

LEMMA TerminateFacts ==
  ASSUME Procs, NEW p \in Pids, Terminate(p)
  PROVE  /\ Procs'
         /\ \/ Turns(p, "drain") /\ proc[p] \in {"serve", "drain"}
            \/ Turns(p, "dead") /\ proc[p] \in {"boot", "open", "other"}
            \/ Turns(p, proc[p]) /\ proc[p] \in {"unborn", "dead"}
  <1>1. PICK s : s = IF Serving(p) \/ proc[p] = "drain" THEN "drain"
                     ELSE IF Alive(p) THEN "dead" ELSE proc[p]
    OBVIOUS
  <1>2. proc' = [proc EXCEPT ![p] = s]
    BY <1>1 DEF Terminate
  <1>3. \/ s = "drain" /\ proc[p] \in {"serve", "drain"}
        \/ s = "dead" /\ proc[p] \in {"boot", "open", "other"}
        \/ s = proc[p] /\ proc[p] \in {"unborn", "dead"}
    BY <1>1 DEF Procs, Serving, Alive, States
  <1>4. s \in States
    BY <1>3 DEF States
  <1>5. Procs' /\ Turns(p, s)
    BY <1>2, <1>4 DEF Procs, Turns
  <1>6. QED
    BY <1>3, <1>5

LEMMA TurnFacts ==
  ASSUME Procs, NEW p \in Pids, NEW s \in States, proc' = [proc EXCEPT ![p] = s]
  PROVE  Procs' /\ Turns(p, s)
  BY DEF Procs, Turns

Quietly == UNCHANGED <<file, tmp, proc, data, store, calls, mishaps>>

Quiet(c) ==
  \/ ReadUnreadable(c) \/ ReadNothing(c) \/ ReadStale(c) \/ Look(c) \/ Probe(c) \/ Release(c)
  \/ Healthy(c) \/ Exited(c) \/ AskRefused(c)
  \/ ReadAlive(c) /\ cmd[c].op \in {"start", "status"}

LEMMA OpFacts ==
  ASSUME TypeOK, Roles, NEW c \in Commands
  PROVE  /\ cmd[c] \in CmdType /\ cmd[c].at \in Route(cmd[c].op)
         /\ At(c, "read") => cmd[c].op \in Supervision
         /\ At(c, "clean") => cmd[c].op \in Supervision
         /\ At(c, "unlink") => cmd[c].op \in {"stop", "reset"}
         /\ At(c, "exit") => cmd[c].op \in {"stop", "reset"}
         /\ Dropping(c) => cmd[c].op = "reset"
         /\ cmd[c].at \in {"adopt", "probe", "probing", "spawn", "await", "write", "rename", "put"}
               => cmd[c].op = "start"
         /\ cmd[c].at \in {"ask", "keep", "forget"} => cmd[c].op \in Admin
         /\ At(c, "idle") <=> cmd[c].op = "none"
  <1>1. cmd[c] \in CmdType /\ cmd[c].at \in Route(cmd[c].op)
    BY CmdFacts DEF Roles, Role
  <1>2. cmd[c].op \in {"none", "start", "stop", "status", "reset", "create", "rotate", "remove"}
    BY <1>1 DEF CmdType, Supervision, Admin
  <1>3. QED
    BY <1>1, <1>2 DEF Route, At, Supervision, Admin, Dropping

LEMMA QuietFacts ==
  ASSUME TypeOK, Roles, Born, NEW c \in Commands, Quiet(c)
  PROVE  /\ Cmds' /\ Quietly
         /\ \/ Moves(c, "none", "idle", None) /\ cmd[c].at \in {"read", "adopt", "look", "probe", "ask"}
            \/ Moves(c, "start", "probe", cmd[c].ref) /\ At(c, "read") /\ cmd[c].op = "start" /\ file = None
            \/ Moves(c, "reset", "dropDb", cmd[c].ref) /\ At(c, "read") /\ cmd[c].op = "reset" /\ file = None
            \/ Moves(c, cmd[c].op, "clean", file) /\ At(c, "read") /\ file \in Pids /\ proc[file] = "dead"
            \/ Moves(c, "start", "adopt", file) /\ At(c, "read") /\ cmd[c].op = "start" /\ file \in Pids
            \/ Moves(c, "status", "look", file) /\ At(c, "read") /\ cmd[c].op = "status" /\ file \in Pids
            \/ Moves(c, "start", "probing", cmd[c].ref) /\ At(c, "probe") /\ cmd[c].op = "start"
            \/ Moves(c, "start", "spawn", cmd[c].ref) /\ At(c, "probing") /\ cmd[c].op = "start"
            \/ Moves(c, "start", "write", cmd[c].ref) /\ At(c, "await") /\ cmd[c].op = "start"
            \/ Moves(c, cmd[c].op, "unlink", cmd[c].ref) /\ At(c, "exit") /\ proc[cmd[c].ref] \in {"dead", "other"}
  <1> USE CmdFacts, OpFacts
  <1>0. {"idle", "read", "clean", "adopt", "probe", "probing", "spawn", "write", "unlink", "dropDb",
         "look"} \subseteq Points
    BY DEF Points
  <1>1. CASE ReadUnreadable(c) \/ Look(c) \/ AskRefused(c)
    BY <1>1, EndsFacts DEF ReadUnreadable, Look, AskRefused, Quietly, At
  <1>2. CASE ReadNothing(c)
    <2>1. \/ cmd[c].op = "start" /\ Goes(c, "probe")
          \/ cmd[c].op = "reset" /\ Goes(c, "dropDb")
          \/ Ends(c)
      BY <1>2 DEF ReadNothing, AfterNone
    <2>2. QED
      BY <1>0, <1>2, <2>1, EndsFacts, GoesFacts DEF ReadNothing, Quietly, At
  <1>3. CASE ReadStale(c)
    <2>1. proc[file] = "dead"
      BY <1>3 DEF ReadStale, Born, TypeOK, Alive
    <2>2. file \in Refs
      BY <1>3 DEF ReadStale, Refs
    <2>3. QED
      BY <1>0, <1>3, <2>1, <2>2, SetFacts DEF ReadStale, Quietly
  <1>4. CASE Probe(c) \/ Release(c) \/ Healthy(c)
    BY <1>0, <1>4, EndsFacts, GoesFacts DEF Probe, Release, Healthy, Quietly, At
  <1>5. CASE Exited(c)
    <2>1. proc[cmd[c].ref] \in {"dead", "other"}
      BY <1>5 DEF Exited, Roles, Role, Alive
    <2>2. QED
      BY <1>0, <1>5, <2>1, GoesFacts DEF Exited, Quietly
  <1>6. CASE ReadAlive(c) /\ cmd[c].op \in {"start", "status"}
    <2>1. file \in Refs
      BY <1>6 DEF ReadAlive, Refs
    <2>2. CASE cmd[c].op = "start"
      <3>1. cmd' = [cmd EXCEPT ![c] = [@ EXCEPT !.at = "adopt", !.ref = file]] /\ Quietly
        BY <1>6, <2>2 DEF ReadAlive, Quietly
      <3>2. Cmds' /\ Moves(c, cmd[c].op, "adopt", file)
        BY <1>0, <2>1, <3>1, SetFacts
      <3>3. QED
        BY <1>6, <2>2, <3>1, <3>2 DEF ReadAlive
    <2>3. CASE cmd[c].op = "status"
      <3>1. cmd' = [cmd EXCEPT ![c] = [@ EXCEPT !.at = "look", !.ref = file]] /\ Quietly
        BY <1>6, <2>3 DEF ReadAlive, Quietly
      <3>2. Cmds' /\ Moves(c, cmd[c].op, "look", file)
        BY <1>0, <2>1, <3>1, SetFacts
      <3>3. QED
        BY <1>6, <2>3, <3>1, <3>2 DEF ReadAlive
    <2>4. QED
      BY <1>6, <2>2, <2>3
  <1>7. QED
    BY <1>1, <1>2, <1>3, <1>4, <1>5, <1>6 DEF Quiet

\* stop and reset signal the recorded operator, and kill it when it takes too long.
Signal(c) == ReadAlive(c) /\ cmd[c].op \in {"stop", "reset"}

LEMMA SignalFacts ==
  ASSUME TypeOK, Roles, Born, NEW c \in Commands, Signal(c)
  PROVE  /\ Cmds' /\ Procs' /\ UNCHANGED <<file, tmp, data, store, calls, mishaps>>
         /\ At(c, "read") /\ file \in Pids /\ Moves(c, cmd[c].op, "exit", file)
         /\ cmd[c].op \in {"stop", "reset"}
         /\ \/ Turns(file, "drain") /\ proc[file] \in {"serve", "drain"}
            \/ Turns(file, "dead") /\ proc[file] \in {"boot", "open", "other"}
  <1>1. /\ cmd' = [cmd EXCEPT ![c] = [@ EXCEPT !.at = "exit", !.ref = file]]
        /\ Terminate(file) /\ file \in Pids /\ Alive(file) /\ At(c, "read")
        /\ UNCHANGED <<file, tmp, data, store, calls, mishaps>>
    BY DEF Signal, ReadAlive
  <1>2. file \in Refs /\ "exit" \in Points /\ Procs
    BY <1>1 DEF Refs, Points, Procs, States, TypeOK
  <1>3. Cmds' /\ Moves(c, cmd[c].op, "exit", file)
    BY <1>1, <1>2, SetFacts, CmdFacts
  <1>4. QED
    BY <1>1, <1>2, <1>3, TerminateFacts DEF Alive, Signal

LEMMA KillFacts ==
  ASSUME TypeOK, Roles, NEW c \in Commands, Kill(c)
  PROVE  /\ Cmds' /\ Procs' /\ UNCHANGED <<file, tmp, data, store, calls, mishaps>>
         /\ At(c, "exit") /\ cmd[c].ref \in Pids /\ Moves(c, cmd[c].op, "unlink", cmd[c].ref)
         /\ Turns(cmd[c].ref, "dead") /\ proc[cmd[c].ref] \in {"drain", "dead", "other"}
  <1>1. "unlink" \in Points /\ "dead" \in States /\ Procs
    BY DEF Points, States, Procs, TypeOK
  <1>2. At(c, "exit") /\ cmd[c].ref \in Pids /\ proc[cmd[c].ref] \in {"drain", "dead", "other"}
    BY DEF Kill, Roles, Role
  <1>3. QED
    BY <1>1, <1>2, GoesFacts, TurnFacts, CmdFacts DEF Kill

Removing(c) == Clean(c) \/ Unlink(c)

LEMMA RemoveFacts ==
  ASSUME TypeOK, Roles, NEW c \in Commands, Removing(c)
  PROVE  /\ Cmds' /\ UNCHANGED <<tmp, proc, data, store, calls>> /\ file' = None
         /\ At(c, "clean") \/ At(c, "unlink")
         /\ cmd[c].ref \in Pids /\ proc[cmd[c].ref] \in {"dead", "other"}
         /\ \/ mishaps' = mishaps /\ file \in {None, cmd[c].ref}
            \/ mishaps' = mishaps \cup {"overtaken"}
         /\ \/ Moves(c, "none", "idle", None) /\ cmd[c].op \in {"stop", "status"}
            \/ Moves(c, "start", "probe", cmd[c].ref) /\ At(c, "clean") /\ cmd[c].op = "start"
            \/ Moves(c, "reset", "dropDb", cmd[c].ref) /\ cmd[c].op = "reset"
  <1>1. {"probe", "dropDb"} \subseteq Points
    BY DEF Points
  <1>2. /\ At(c, "clean") \/ At(c, "unlink")
        /\ Remove(c) /\ UNCHANGED <<tmp, proc, data, store, calls>>
        /\ \/ cmd[c].op = "start" /\ Goes(c, "probe") /\ At(c, "clean")
           \/ cmd[c].op = "reset" /\ Goes(c, "dropDb")
           \/ cmd[c].op \notin {"start", "reset"} /\ Ends(c)
    BY OpFacts DEF Removing, Clean, Unlink, AfterNone
  <1>3. cmd[c].ref \in Pids /\ proc[cmd[c].ref] \in {"dead", "other"}
    BY <1>2 DEF Roles, Role
  <1>4. cmd[c].op \in {"start", "reset", "stop", "status"}
    BY <1>2, OpFacts DEF Supervision
  <1>5. QED
    BY <1>1, <1>2, <1>3, <1>4, GoesFacts, EndsFacts, CmdFacts DEF Remove

LEMMA SpawnFacts ==
  ASSUME TypeOK, Roles, NEW c \in Commands, Spawn(c)
  PROVE  \E p \in Pids :
           /\ Cmds' /\ Procs' /\ UNCHANGED <<file, tmp, data, store, calls, mishaps>>
           /\ At(c, "spawn") /\ cmd[c].op = "start" /\ Moves(c, "start", "await", p)
           /\ proc[p] = "unborn" /\ Turns(p, "boot")
  <1>1. PICK p \in Unborn :
          /\ proc' = [proc EXCEPT ![p] = "boot"]
          /\ cmd' = [cmd EXCEPT ![c] = [@ EXCEPT !.at = "await", !.ref = p]]
    BY DEF Spawn
  <1>2. p \in Pids /\ p \in Refs /\ proc[p] = "unborn" /\ "await" \in Points /\ "boot" \in States /\ Procs
    BY DEF Unborn, Refs, Points, States, Procs, TypeOK
  <1>3. cmd[c].op = "start" /\ At(c, "spawn")
    BY OpFacts DEF Spawn, At
  <1>4. Cmds' /\ Moves(c, "start", "await", p)
    BY <1>1, <1>2, <1>3, SetFacts, CmdFacts
  <1>5. Procs' /\ Turns(p, "boot")
    BY <1>1, <1>2, TurnFacts
  <1>6. QED
    BY <1>2, <1>3, <1>4, <1>5 DEF Spawn

LEMMA NotHealthyFacts ==
  ASSUME TypeOK, Roles, NEW c \in Commands, NotHealthy(c)
  PROVE  \E p \in Pids :
           /\ p = cmd[c].ref /\ proc[p] # "unborn"
           /\ Cmds' /\ Procs' /\ UNCHANGED <<file, tmp, data, store, calls>>
           /\ At(c, "await") /\ cmd[c].op = "start" /\ Moves(c, "none", "idle", None)
           /\ \/ Turns(p, "drain") /\ proc[p] = "serve" /\ mishaps' = mishaps \cup {"late"}
              \/ Turns(p, proc[p]) /\ proc[p] \in {"drain", "dead"} /\ mishaps' = mishaps
              \/ Turns(p, "dead") /\ proc[p] \in {"boot", "open", "other"} /\ mishaps' = mishaps
  <1>1. PICK p : p = cmd[c].ref
    OBVIOUS
  <1>2. At(c, "await") /\ cmd[c].op = "start" /\ p \in Pids /\ proc[p] # "unborn" /\ Procs
    BY <1>1, OpFacts DEF NotHealthy, Roles, Role, Raising, At, TypeOK, Procs, States
  <1>3. Terminate(p) /\ mishaps' = IF Serving(p) THEN mishaps \cup {"late"} ELSE mishaps
    BY <1>1 DEF NotHealthy
  <1>4. Cmds' /\ Moves(c, "none", "idle", None)
    BY EndsFacts, CmdFacts DEF NotHealthy
  <1>5. QED
    BY <1>1, <1>2, <1>3, <1>4, TerminateFacts DEF NotHealthy, Serving

\* start records the operator it has spawned.
Recording(c) == WriteTmp(c) \/ Rename(c) \/ PutToken(c)

LEMMA RecordFacts ==
  ASSUME TypeOK, Roles, NEW c \in Commands, Recording(c)
  PROVE  /\ Cmds' /\ UNCHANGED <<proc, data, bearer, calls, mishaps>>
         /\ cmd[c].op = "start" /\ cmd[c].ref \in Pids
         /\ \/ /\ At(c, "write") /\ Moves(c, "start", "rename", cmd[c].ref)
               /\ tmp' = cmd[c].ref /\ UNCHANGED <<file, admin>>
            \/ /\ At(c, "rename") /\ Moves(c, "none", "idle", None)
               /\ tmp = None /\ UNCHANGED <<file, tmp, admin>>
            \/ /\ At(c, "rename") /\ Moves(c, "start", "put", cmd[c].ref)
               /\ tmp # None /\ file' = tmp /\ tmp' = None /\ admin' = admin
            \/ /\ At(c, "put") /\ Moves(c, "none", "idle", None)
               /\ admin' = cmd[c].ref /\ UNCHANGED <<file, tmp>>
  <1>1. {"rename", "put"} \subseteq Points
    BY DEF Points
  <1>2. cmd[c].op = "start" /\ cmd[c].ref \in Pids
    BY OpFacts DEF Recording, WriteTmp, Rename, PutToken, Roles, Role, At, Raising
  <1>3. CASE WriteTmp(c)
    BY <1>1, <1>2, <1>3, GoesFacts, CmdFacts DEF WriteTmp, store
  <1>4. CASE Rename(c)
    BY <1>1, <1>2, <1>4, GoesFacts, EndsFacts, CmdFacts DEF Rename, store
  <1>5. CASE PutToken(c)
    BY <1>2, <1>5, EndsFacts, CmdFacts DEF PutToken
  <1>6. QED
    BY <1>3, <1>4, <1>5 DEF Recording

\* reset drops the database and the rows.
Resetting(c) == DropDb(c) \/ DropAdmin(c) \/ DropAgents(c)

LEMMA DropFacts ==
  ASSUME TypeOK, Roles, NEW c \in Commands, Resetting(c)
  PROVE  /\ Cmds' /\ UNCHANGED <<file, tmp, proc, opened, agent, minted, calls, mishaps>>
         /\ cmd[c].op = "reset"
         /\ \/ /\ At(c, "dropDb") /\ Moves(c, "reset", "dropAdmin", cmd[c].ref)
               /\ db' = None /\ UNCHANGED store
            \/ /\ At(c, "dropAdmin") /\ Moves(c, "reset", "dropAgents", cmd[c].ref)
               /\ admin' = None /\ UNCHANGED <<db, bearer>>
            \/ /\ At(c, "dropAgents") /\ Moves(c, "none", "idle", None)
               /\ bearer' = None /\ UNCHANGED <<db, admin>>
  <1>1. {"dropAdmin", "dropAgents"} \subseteq Points
    BY DEF Points
  <1>2. cmd[c].op = "reset"
    BY OpFacts DEF Resetting, DropDb, DropAdmin, DropAgents, Dropping, At
  <1>3. CASE DropDb(c)
    BY <1>1, <1>2, <1>3, GoesFacts, CmdFacts DEF DropDb
  <1>4. CASE DropAdmin(c)
    BY <1>1, <1>2, <1>4, GoesFacts, CmdFacts DEF DropAdmin, data
  <1>5. CASE DropAgents(c)
    BY <1>2, <1>5, EndsFacts, CmdFacts DEF DropAgents, data
  <1>6. QED
    BY <1>3, <1>4, <1>5 DEF Resetting

\* Each command that is about to ask may mint one bearer more.
LEMMA Room ==
  ASSUME TypeOK, Counted, NEW c \in Commands, At(c, "ask")
  PROVE  minted + 1 \in Bearers /\ minted + 1 \in 0..MaxCalls /\ minted \in Nat
  <1>1. c \in Asking /\ IsFiniteSet(Asking) /\ minted + Cardinality(Asking) <= calls
    BY DEF Asking, Counted
  <1>2. Cardinality(Asking) \in Nat /\ Cardinality(Asking) # 0
    BY <1>1, FS_CardinalityType, FS_EmptySet
  <1>3. QED
    BY <1>1, <1>2, LifecycleAssumption DEF TypeOK, Bearers

\* The operator of the token has changed the agent in the database it has open.
Registers(c, q) ==
  /\ agent' \in [Pids -> {None} \cup Bearers] /\ minted' \in 0..MaxCalls
  /\ \A x \in Pids \ {q} : agent'[x] = agent[x]
  /\ \/ cmd[c].op = "remove" /\ agent'[q] = None /\ minted' = minted
     \/ cmd[c].op # "remove" /\ agent'[q] = minted' /\ minted' = minted + 1 /\ minted' \in Bearers

LEMMA RequestFacts ==
  ASSUME TypeOK, Roles, Counted, Databases, NEW c \in Commands, At(c, "ask"),
         NEW p \in Pids, Granted(cmd[c].op, p, cmd[c].ref), Request(c, p)
  PROVE  p = cmd[c].ref /\ proc[p] = "serve" /\ opened[p] \in Pids /\ Registers(c, opened[p])
  <1>1. p = cmd[c].ref /\ proc[p] = "serve"
    BY DEF Granted, Serving
  <1>2. PICK q \in Pids : q = opened[p]
    BY <1>1 DEF Databases
  <1>3. minted + 1 \in Bearers /\ minted + 1 \in 0..MaxCalls /\ minted \in 0..MaxCalls
    BY Room DEF TypeOK
  <1>4. agent \in [Pids -> {None} \cup Bearers]
    BY DEF TypeOK
  <1>5. CASE cmd[c].op = "remove"
    <2>1. agent' = [agent EXCEPT ![q] = None] /\ minted' = minted
      BY <1>2, <1>5 DEF Request
    <2>2. QED
      BY <1>1, <1>2, <1>3, <1>4, <1>5, <2>1 DEF Registers
  <1>6. CASE cmd[c].op # "remove"
    <2>1. PICK m : m = minted + 1
      OBVIOUS
    <2>2. agent' = [agent EXCEPT ![q] = m] /\ minted' = m
      BY <1>2, <1>6, <2>1 DEF Request
    <2>3. QED
      BY <1>1, <1>2, <1>3, <1>4, <1>6, <2>1, <2>2 DEF Registers
  <1>7. QED
    BY <1>5, <1>6

LEMMA AskFacts ==
  ASSUME TypeOK, Roles, Counted, Databases, NEW c \in Commands, Ask(c)
  PROVE  \E p, q \in Pids :
           /\ Cmds' /\ UNCHANGED <<file, tmp, proc, opened, db, store, calls, mishaps>>
           /\ At(c, "ask") /\ cmd[c].op \in Admin
           /\ proc[p] = "serve" /\ q = opened[p] /\ Registers(c, q)
           /\ \/ cmd[c].op = "remove" /\ Moves(c, "remove", "forget", None)
              \/ cmd[c].op # "remove" /\ Moves(c, cmd[c].op, "keep", minted')
  <1>1. PICK p \in Pids : Granted(cmd[c].op, p, cmd[c].ref) /\ Request(c, p)
    BY DEF Ask
  <1>2. At(c, "ask") /\ cmd[c].op \in Admin
    BY OpFacts DEF Ask, At
  <1>3. proc[p] = "serve" /\ opened[p] \in Pids /\ Registers(c, opened[p])
    BY <1>1, <1>2, RequestFacts
  <1>4. PICK at, ref : /\ at = IF cmd[c].op = "remove" THEN "forget" ELSE "keep"
                       /\ ref = IF cmd[c].op = "remove" THEN None ELSE minted'
    OBVIOUS
  <1>5. at \in Points /\ ref \in Refs
    BY <1>3, <1>4 DEF Points, Refs, Registers
  <1>6. cmd' = [cmd EXCEPT ![c] = [@ EXCEPT !.at = at, !.ref = ref]]
    BY <1>4 DEF Ask
  <1>7. Cmds' /\ Moves(c, cmd[c].op, at, ref)
    BY <1>5, <1>6, SetFacts, CmdFacts
  <1>8. \/ cmd[c].op = "remove" /\ Moves(c, "remove", "forget", None)
        \/ cmd[c].op # "remove" /\ Moves(c, cmd[c].op, "keep", minted')
    BY <1>4, <1>7
  <1>9. UNCHANGED <<file, tmp, proc, opened, db, store, calls, mishaps>>
    BY DEF Ask
  <1>10. QED
    BY <1>2, <1>3, <1>7, <1>8, <1>9

LEMMA AskLostFacts ==
  ASSUME TypeOK, Roles, Counted, Databases, NEW c \in Commands, AskLost(c)
  PROVE  \E p, q \in Pids :
           /\ Cmds' /\ Procs' /\ UNCHANGED <<file, tmp, opened, db, store, calls>>
           /\ mishaps' = mishaps \cup {"loss"} /\ "loss" \in Mishaps
           /\ At(c, "ask") /\ cmd[c].op \in Admin /\ Moves(c, "none", "idle", None)
           /\ proc[p] = "serve" /\ Turns(p, "dead") /\ q = opened[p] /\ Registers(c, q)
  <1>1. PICK p \in Pids : /\ Granted(cmd[c].op, p, cmd[c].ref) /\ Request(c, p)
                          /\ proc' = [proc EXCEPT ![p] = "dead"]
    BY DEF AskLost
  <1>2. At(c, "ask") /\ cmd[c].op \in Admin
    BY OpFacts DEF AskLost, At
  <1>3. proc[p] = "serve" /\ opened[p] \in Pids /\ Registers(c, opened[p])
    BY <1>1, <1>2, RequestFacts
  <1>4. Procs' /\ Turns(p, "dead")
    BY <1>1, TurnFacts DEF TypeOK, Procs, States
  <1>5. Cmds' /\ Moves(c, "none", "idle", None)
    BY EndsFacts, CmdFacts DEF AskLost
  <1>6. QED
    BY <1>2, <1>3, <1>4, <1>5 DEF AskLost, Strikes

\* The bearer of the answer is stored, or dropped.
Storing(c) == Keep(c) \/ Forget(c)

LEMMA KeepFacts ==
  ASSUME TypeOK, Roles, NEW c \in Commands, Storing(c)
  PROVE  /\ Cmds' /\ UNCHANGED <<file, tmp, proc, data, admin, calls, mishaps>>
         /\ cmd[c].op \in Admin /\ Moves(c, "none", "idle", None)
         /\ \/ At(c, "keep") /\ bearer' = cmd[c].ref /\ cmd[c].ref \in Bearers
            \/ At(c, "forget") /\ bearer' = None
  BY EndsFacts, CmdFacts, OpFacts DEF Storing, Keep, Forget, Roles, Role, At

LEMMA BeginFacts ==
  ASSUME TypeOK, Roles, NEW c \in Commands, NEW op \in Operations, Begin(c, op)
  PROVE  /\ Cmds' /\ UNCHANGED <<file, tmp, proc, data, store>>
         /\ At(c, "idle") /\ calls < MaxCalls /\ calls' = calls + 1
         /\ mishaps' = mishaps \cup Meets(op) /\ Meets(op) \subseteq Mishaps
         /\ \/ op \in Supervision /\ Moves(c, op, "read", None)
            \/ op \in Admin /\ Moves(c, op, "ask", admin) /\ admin \in Pids
  <1>1. PICK row : row = [op |-> op, at |-> IF op \in Admin THEN "ask" ELSE "read",
                          ref |-> IF op \in Admin THEN admin ELSE None]
    OBVIOUS
  <1>2. cmd' = [cmd EXCEPT ![c] = row]
    BY <1>1 DEF Begin
  <1>3. /\ op \in Supervision \cup Admin /\ (op \in Admin <=> op \notin Supervision)
        /\ op \in Admin => admin \in Pids
    BY LifecycleAssumption DEF Begin, Supervision, Admin, TypeOK
  <1>4. row \in CmdType /\ row.op = op
        /\ row.at = (IF op \in Admin THEN "ask" ELSE "read")
        /\ row.ref = (IF op \in Admin THEN admin ELSE None)
    BY <1>1, <1>3 DEF CmdType, Points, Refs
  <1>5. Cmds' /\ Moves(c, row.op, row.at, row.ref)
    BY <1>2, <1>4, CmdFacts DEF Cmds, Moves
  <1>6. QED
    BY <1>3, <1>4, <1>5 DEF Begin

LEMMA DieFacts ==
  ASSUME TypeOK, NEW c \in Commands, Die(c)
  PROVE  /\ Cmds' /\ UNCHANGED <<file, tmp, proc, data, store, calls>>
         /\ mishaps' = mishaps \cup {"death"} /\ "death" \in Mishaps
         /\ Moves(c, "none", "idle", None)
  BY EndsFacts, CmdFacts DEF Die, Strikes

\* What becomes of an operator, but for the opening of the database.
Passing(p) == Bind(p) \/ Exit(p) \/ Crash(p) \/ Reuse(p) \/ OtherEnds(p)

LEMMA PassingFacts ==
  ASSUME TypeOK, NEW p \in Pids, Passing(p)
  PROVE  /\ Procs' /\ UNCHANGED <<file, tmp, data, store, cmd, calls>>
         /\ mishaps \subseteq mishaps' /\ mishaps' \subseteq mishaps \cup (Mishaps \cap {"crash", "reuse"})
         /\ \/ proc[p] = "open" /\ Turns(p, "serve")
            \/ proc[p] \in {"boot", "open", "serve", "drain", "other"} /\ Turns(p, "dead")
            \/ proc[p] = "dead" /\ Turns(p, "other")
  <1>1. Procs /\ {"serve", "dead", "other"} \subseteq States
    BY DEF TypeOK, Procs, States
  <1>2. CASE Bind(p)
    BY <1>1, <1>2, TurnFacts DEF Bind
  <1>3. CASE Exit(p) \/ OtherEnds(p) \/ Crash(p) \/ Reuse(p)
    BY <1>1, <1>3, TurnFacts DEF Exit, OtherEnds, Crash, Reuse, Strikes
  <1>4. QED
    BY <1>2, <1>3 DEF Passing

LEMMA OpenFacts ==
  ASSUME TypeOK, NEW p \in Pids, OpenDb(p)
  PROVE  /\ Procs' /\ UNCHANGED <<file, tmp, agent, minted, store, cmd, calls, mishaps>>
         /\ proc[p] = "boot" /\ Turns(p, "open")
         /\ db' \in Pids /\ (db # None => db' = db) /\ (db = None => db' = p)
         /\ opened' \in [Pids -> {None} \cup Pids] /\ opened'[p] = db'
         /\ \A q \in Pids \ {p} : opened'[q] = opened[q]
  <1>1. Procs' /\ Turns(p, "open")
    BY TurnFacts DEF OpenDb, TypeOK, Procs, States
  <1>2. PICK d : d = IF db = None THEN p ELSE db
    OBVIOUS
  <1>3. d \in Pids /\ db' = d /\ opened' = [opened EXCEPT ![p] = d]
    BY <1>2 DEF OpenDb, TypeOK
  <1>4. QED
    BY <1>1, <1>2 DEF OpenDb, TypeOK

Acts(c) ==
  \/ Quiet(c) \/ Signal(c) \/ Kill(c) \/ Removing(c) \/ Spawn(c) \/ NotHealthy(c) \/ Recording(c)
  \/ Resetting(c) \/ Ask(c) \/ AskLost(c) \/ Storing(c) \/ Die(c)
  \/ \E op \in Operations : Begin(c, op)

LEMMA NextCases ==
  ASSUME TypeOK, Roles, Next
  PROVE  \/ \E c \in Commands : Acts(c)
         \/ \E p \in Pids : Passing(p) \/ OpenDb(p)
  <1>1. ASSUME NEW c \in Commands, ReadAlive(c) PROVE Quiet(c) \/ Signal(c)
    <2>1. cmd[c].op \in Supervision
      BY <1>1, OpFacts DEF ReadAlive
    <2>2. QED
      BY <1>1, <2>1 DEF Supervision, Quiet, Signal
  <1>2. QED
    BY <1>1 DEF Next, Step, ReadStep, StartStep, StopStep, AdminStep, ProcessStep, Acts, Quiet,
      Removing, Recording, Resetting, Storing, Passing

-----------------------------------------------------------------------------
\* What holds whatever happens

Values ==
  /\ file \in {None, Unreadable} \cup Pids /\ tmp \in {None} \cup Pids
  /\ opened \in [Pids -> {None} \cup Pids] /\ db \in {None} \cup Pids
  /\ agent \in [Pids -> {None} \cup Bearers]
  /\ admin \in {None} \cup Pids /\ bearer \in {None} \cup Bearers
  /\ minted \in 0..MaxCalls /\ calls \in 0..MaxCalls
  /\ mishaps \subseteq AllMishaps \cup {"late"}

References == \A c \in Commands : cmd[c].op \in Supervision => cmd[c].ref \in {None} \cup Pids

LEMMA Typed == TypeOK <=> Cmds /\ Procs /\ Values /\ References
  BY DEF TypeOK, Cmds, CmdType, Procs, States, Refs, Values, References

LEMMA TypedNext == Cmds' /\ Procs' /\ Values' /\ References' => TypeOK'
  BY DEF TypeOK, Cmds, CmdType, Procs, States, Refs, Values, References

LEMMA MishapFacts == Mishaps \subseteq AllMishaps /\ {"overtaken", "death", "loss"} \subseteq AllMishaps
  <1>1. Mishaps \subseteq AllMishaps
    BY LifecycleAssumption
  <1>2. {"overtaken", "death", "loss"} \subseteq AllMishaps
    BY DEF AllMishaps
  <1>3. QED
    BY <1>1, <1>2

\* What has gone wrong stays on record.
LEMMA MishapsGrow ==
  ASSUME Shape, Next
  PROVE  mishaps \subseteq mishaps'
  <1> USE DEF Shape
  <1>1. ASSUME NEW c \in Commands, Quiet(c)
        PROVE  mishaps \subseteq mishaps'
    BY <1>1, QuietFacts DEF Quietly
  <1>2. ASSUME NEW c \in Commands, Signal(c)
        PROVE  mishaps \subseteq mishaps'
    BY <1>2, SignalFacts
  <1>3. ASSUME NEW c \in Commands, Kill(c)
        PROVE  mishaps \subseteq mishaps'
    BY <1>3, KillFacts
  <1>4. ASSUME NEW c \in Commands, Removing(c)
        PROVE  mishaps \subseteq mishaps'
    BY <1>4, RemoveFacts
  <1>5. ASSUME NEW c \in Commands, Spawn(c)
        PROVE  mishaps \subseteq mishaps'
    BY <1>5, SpawnFacts
  <1>6. ASSUME NEW c \in Commands, NotHealthy(c)
        PROVE  mishaps \subseteq mishaps'
    BY <1>6, NotHealthyFacts
  <1>7. ASSUME NEW c \in Commands, Recording(c)
        PROVE  mishaps \subseteq mishaps'
    BY <1>7, RecordFacts
  <1>8. ASSUME NEW c \in Commands, Resetting(c)
        PROVE  mishaps \subseteq mishaps'
    BY <1>8, DropFacts
  <1>9. ASSUME NEW c \in Commands, Ask(c)
        PROVE  mishaps \subseteq mishaps'
    BY <1>9, AskFacts
  <1>10. ASSUME NEW c \in Commands, AskLost(c)
        PROVE  mishaps \subseteq mishaps'
    BY <1>10, AskLostFacts
  <1>11. ASSUME NEW c \in Commands, Storing(c)
        PROVE  mishaps \subseteq mishaps'
    BY <1>11, KeepFacts
  <1>12. ASSUME NEW c \in Commands, Die(c)
        PROVE  mishaps \subseteq mishaps'
    BY <1>12, DieFacts
  <1>13. ASSUME NEW c \in Commands, NEW op \in Operations, Begin(c, op)
        PROVE  mishaps \subseteq mishaps'
    BY <1>13, BeginFacts
  <1>14. ASSUME NEW p \in Pids, Passing(p)
        PROVE  mishaps \subseteq mishaps'
    BY <1>14, PassingFacts
  <1>15. ASSUME NEW p \in Pids, OpenDb(p)
        PROVE  mishaps \subseteq mishaps'
    BY <1>15, OpenFacts
  <1>16. QED
    BY <1>1, <1>2, <1>3, <1>4, <1>5, <1>6, <1>7, <1>8, <1>9, <1>10, <1>11, <1>12, <1>13, <1>14,
      <1>15, NextCases DEF Acts

\* Every part of the invariant is kept by every step.  First the types.
LEMMA TypeStep ==
  ASSUME Shape, Next
  PROVE  TypeOK'
  <1> USE DEF Shape
  <1>1. ASSUME NEW c \in Commands, Quiet(c)
        PROVE  TypeOK'
    <2>1. Cmds' /\ Procs'
      BY <1>1, QuietFacts, Typed DEF Quietly, Procs
    <2>2. Values'
      BY <1>1, QuietFacts, Typed DEF Quietly, Values, data, store
    <2>3. References'
      BY <1>1, QuietFacts, Typed DEF References, Moves
    <2>4. QED
      BY <2>1, <2>2, <2>3, TypedNext
  <1>2. ASSUME NEW c \in Commands, Signal(c)
        PROVE  TypeOK'
    <2>1. Cmds' /\ Procs'
      BY <1>2, SignalFacts
    <2>2. Values'
      BY <1>2, SignalFacts, Typed DEF Values, data, store
    <2>3. References'
      BY <1>2, SignalFacts, Typed DEF References, Moves
    <2>4. QED
      BY <2>1, <2>2, <2>3, TypedNext
  <1>3. ASSUME NEW c \in Commands, Kill(c)
        PROVE  TypeOK'
    <2>1. Cmds' /\ Procs'
      BY <1>3, KillFacts
    <2>2. Values'
      BY <1>3, KillFacts, Typed DEF Values, data, store
    <2>3. References'
      BY <1>3, KillFacts, Typed DEF References, Moves
    <2>4. QED
      BY <2>1, <2>2, <2>3, TypedNext
  <1>4. ASSUME NEW c \in Commands, Removing(c)
        PROVE  TypeOK'
    <2>1. Cmds' /\ Procs'
      BY <1>4, RemoveFacts, Typed DEF Procs
    <2>2. Values'
      BY <1>4, RemoveFacts, Typed, MishapFacts DEF Values, data, store
    <2>3. References'
      BY <1>4, RemoveFacts, Typed DEF References, Moves
    <2>4. QED
      BY <2>1, <2>2, <2>3, TypedNext
  <1>5. ASSUME NEW c \in Commands, Spawn(c)
        PROVE  TypeOK'
    <2>1. Cmds' /\ Procs'
      BY <1>5, SpawnFacts
    <2>2. Values'
      BY <1>5, SpawnFacts, Typed DEF Values, data, store
    <2>3. References'
      BY <1>5, SpawnFacts, Typed DEF References, Moves
    <2>4. QED
      BY <2>1, <2>2, <2>3, TypedNext
  <1>6. ASSUME NEW c \in Commands, NotHealthy(c)
        PROVE  TypeOK'
    <2>1. Cmds' /\ Procs'
      BY <1>6, NotHealthyFacts
    <2>2. Values'
      BY <1>6, NotHealthyFacts, Typed DEF Values, data, store
    <2>3. References'
      BY <1>6, NotHealthyFacts, Typed DEF References, Moves
    <2>4. QED
      BY <2>1, <2>2, <2>3, TypedNext
  <1>7. ASSUME NEW c \in Commands, Recording(c)
        PROVE  TypeOK'
    <2>1. Cmds' /\ Procs'
      BY <1>7, RecordFacts, Typed DEF Procs
    <2>2. Values'
      BY <1>7, RecordFacts, Typed DEF Values, data
    <2>3. References'
      BY <1>7, RecordFacts, Typed DEF References, Moves
    <2>4. QED
      BY <2>1, <2>2, <2>3, TypedNext
  <1>8. ASSUME NEW c \in Commands, Resetting(c)
        PROVE  TypeOK'
    <2>1. Cmds' /\ Procs'
      BY <1>8, DropFacts, Typed DEF Procs
    <2>2. Values'
      BY <1>8, DropFacts, Typed DEF Values, store
    <2>3. References'
      BY <1>8, DropFacts, Typed DEF References, Moves
    <2>4. QED
      BY <2>1, <2>2, <2>3, TypedNext
  <1>9. ASSUME NEW c \in Commands, Ask(c)
        PROVE  TypeOK'
    <2>1. Cmds' /\ Procs'
      BY <1>9, AskFacts, Typed DEF Procs
    <2>2. Values'
      BY <1>9, AskFacts, Typed DEF Values, store, Registers
    <2>3. References'
      BY <1>9, AskFacts, Typed DEF References, Moves, Supervision, Admin
    <2>4. QED
      BY <2>1, <2>2, <2>3, TypedNext
  <1>10. ASSUME NEW c \in Commands, AskLost(c)
        PROVE  TypeOK'
    <2>1. Cmds' /\ Procs'
      BY <1>10, AskLostFacts
    <2>2. Values'
      BY <1>10, AskLostFacts, Typed, MishapFacts DEF Values, store, Registers
    <2>3. References'
      BY <1>10, AskLostFacts, Typed DEF References, Moves
    <2>4. QED
      BY <2>1, <2>2, <2>3, TypedNext
  <1>11. ASSUME NEW c \in Commands, Storing(c)
        PROVE  TypeOK'
    <2>1. Cmds' /\ Procs'
      BY <1>11, KeepFacts, Typed DEF Procs
    <2>2. Values'
      BY <1>11, KeepFacts, Typed DEF Values, data
    <2>3. References'
      BY <1>11, KeepFacts, Typed DEF References, Moves
    <2>4. QED
      BY <2>1, <2>2, <2>3, TypedNext
  <1>12. ASSUME NEW c \in Commands, Die(c)
        PROVE  TypeOK'
    <2>1. Cmds' /\ Procs'
      BY <1>12, DieFacts, Typed DEF Procs
    <2>2. Values'
      BY <1>12, DieFacts, Typed, MishapFacts DEF Values, data, store
    <2>3. References'
      BY <1>12, DieFacts, Typed DEF References, Moves
    <2>4. QED
      BY <2>1, <2>2, <2>3, TypedNext
  <1>13. ASSUME NEW c \in Commands, NEW op \in Operations, Begin(c, op)
        PROVE  TypeOK'
    <2>1. Cmds' /\ Procs'
      BY <1>13, BeginFacts, Typed DEF Procs
    <2>2. Values'
      BY <1>13, BeginFacts, Typed, MishapFacts, CmdFacts DEF Values, data, store
    <2>3. References'
      BY <1>13, BeginFacts, Typed DEF References, Moves
    <2>4. QED
      BY <2>1, <2>2, <2>3, TypedNext
  <1>14. ASSUME NEW p \in Pids, Passing(p)
        PROVE  TypeOK'
    <2>1. Cmds' /\ Procs'
      BY <1>14, PassingFacts, Typed DEF Cmds
    <2>2. Values'
      BY <1>14, PassingFacts, Typed, MishapFacts DEF Values, data, store
    <2>3. References'
      BY <1>14, PassingFacts, Typed DEF References
    <2>4. QED
      BY <2>1, <2>2, <2>3, TypedNext
  <1>15. ASSUME NEW p \in Pids, OpenDb(p)
        PROVE  TypeOK'
    <2>1. Cmds' /\ Procs'
      BY <1>15, OpenFacts, Typed DEF Cmds
    <2>2. Values'
      BY <1>15, OpenFacts, Typed DEF Values, store
    <2>3. References'
      BY <1>15, OpenFacts, Typed DEF References
    <2>4. QED
      BY <2>1, <2>2, <2>3, TypedNext
  <1>16. QED
    BY <1>1, <1>2, <1>3, <1>4, <1>5, <1>6, <1>7, <1>8, <1>9, <1>10, <1>11, <1>12, <1>13, <1>14,
      <1>15, NextCases DEF Acts

\* A command keeps to its route, and what it refers to is what it takes it for.
LEMMA RolesStep ==
  ASSUME Shape, Next
  PROVE  Roles'
  <1> USE DEF Shape
  <1>1. ASSUME NEW c \in Commands, Quiet(c)
        PROVE  Roles'
    BY <1>1, QuietFacts DEF Quietly, Roles, Role, Raising, At, Moves, Route
  <1>2. ASSUME NEW c \in Commands, Signal(c)
        PROVE  Roles'
    BY <1>2, SignalFacts DEF Roles, Role, Raising, At, Moves, Turns, Route
  <1>3. ASSUME NEW c \in Commands, Kill(c)
        PROVE  Roles'
    BY <1>3, KillFacts DEF Roles, Role, Raising, At, Moves, Turns, Route
  <1>4. ASSUME NEW c \in Commands, Removing(c)
        PROVE  Roles'
    BY <1>4, RemoveFacts DEF Roles, Role, Raising, At, Moves, Route
  <1>5. ASSUME NEW c \in Commands, Spawn(c)
        PROVE  Roles'
    BY <1>5, SpawnFacts DEF Roles, Role, Raising, At, Moves, Turns, Route
  <1>6. ASSUME NEW c \in Commands, NotHealthy(c)
        PROVE  Roles'
    BY <1>6, NotHealthyFacts DEF Roles, Role, Raising, At, Moves, Turns, Route
  <1>7. ASSUME NEW c \in Commands, Recording(c)
        PROVE  Roles'
    BY <1>7, RecordFacts DEF Roles, Role, Raising, At, Moves, Route
  <1>8. ASSUME NEW c \in Commands, Resetting(c)
        PROVE  Roles'
    BY <1>8, DropFacts DEF Roles, Role, Raising, At, Moves, Route
  <1>9. ASSUME NEW c \in Commands, Ask(c)
        PROVE  Roles'
    BY <1>9, AskFacts DEF Roles, Role, Raising, At, Moves, Route, Registers
  <1>10. ASSUME NEW c \in Commands, AskLost(c)
        PROVE  Roles'
    BY <1>10, AskLostFacts DEF Roles, Role, Raising, At, Moves, Turns, Route
  <1>11. ASSUME NEW c \in Commands, Storing(c)
        PROVE  Roles'
    BY <1>11, KeepFacts DEF Roles, Role, Raising, At, Moves, Route
  <1>12. ASSUME NEW c \in Commands, Die(c)
        PROVE  Roles'
    BY <1>12, DieFacts DEF Roles, Role, Raising, At, Moves, Route
  <1>13. ASSUME NEW c \in Commands, NEW op \in Operations, Begin(c, op)
        PROVE  Roles'
    BY <1>13, BeginFacts DEF Roles, Role, Raising, At, Moves, Route, Admin, Supervision
  <1>14. ASSUME NEW p \in Pids, Passing(p)
        PROVE  Roles'
    BY <1>14, PassingFacts DEF Roles, Role, Raising, At, Turns
  <1>15. ASSUME NEW p \in Pids, OpenDb(p)
        PROVE  Roles'
    BY <1>15, OpenFacts DEF Roles, Role, Raising, At, Turns
  <1>16. QED
    BY <1>1, <1>2, <1>3, <1>4, <1>5, <1>6, <1>7, <1>8, <1>9, <1>10, <1>11, <1>12, <1>13, <1>14,
      <1>15, NextCases DEF Acts

\* Files name operators that were spawned.
LEMMA BornStep ==
  ASSUME Shape, Next
  PROVE  Born'
  <1> USE DEF Shape
  <1>1. ASSUME NEW c \in Commands, Quiet(c)
        PROVE  Born'
    BY <1>1, QuietFacts DEF Quietly, Born
  <1>2. ASSUME NEW c \in Commands, Signal(c)
        PROVE  Born'
    BY <1>2, SignalFacts DEF Born, Turns
  <1>3. ASSUME NEW c \in Commands, Kill(c)
        PROVE  Born'
    BY <1>3, KillFacts DEF Born, Turns
  <1>4. ASSUME NEW c \in Commands, Removing(c)
        PROVE  Born'
    BY <1>4, RemoveFacts, CmdFacts DEF Born
  <1>5. ASSUME NEW c \in Commands, Spawn(c)
        PROVE  Born'
    BY <1>5, SpawnFacts DEF Born, Turns
  <1>6. ASSUME NEW c \in Commands, NotHealthy(c)
        PROVE  Born'
    BY <1>6, NotHealthyFacts DEF Born, Turns
  <1>7. ASSUME NEW c \in Commands, Recording(c)
        PROVE  Born'
    BY <1>7, RecordFacts, CmdFacts DEF Born, Roles, Role, Raising, At
  <1>8. ASSUME NEW c \in Commands, Resetting(c)
        PROVE  Born'
    BY <1>8, DropFacts DEF Born
  <1>9. ASSUME NEW c \in Commands, Ask(c)
        PROVE  Born'
    BY <1>9, AskFacts DEF Born
  <1>10. ASSUME NEW c \in Commands, AskLost(c)
        PROVE  Born'
    BY <1>10, AskLostFacts DEF Born, Turns
  <1>11. ASSUME NEW c \in Commands, Storing(c)
        PROVE  Born'
    BY <1>11, KeepFacts DEF Born
  <1>12. ASSUME NEW c \in Commands, Die(c)
        PROVE  Born'
    BY <1>12, DieFacts DEF Born
  <1>13. ASSUME NEW c \in Commands, NEW op \in Operations, Begin(c, op)
        PROVE  Born'
    BY <1>13, BeginFacts DEF Born
  <1>14. ASSUME NEW p \in Pids, Passing(p)
        PROVE  Born'
    BY <1>14, PassingFacts DEF Born, Turns
  <1>15. ASSUME NEW p \in Pids, OpenDb(p)
        PROVE  Born'
    BY <1>15, OpenFacts DEF Born, Turns
  <1>16. QED
    BY <1>1, <1>2, <1>3, <1>4, <1>5, <1>6, <1>7, <1>8, <1>9, <1>10, <1>11, <1>12, <1>13, <1>14,
      <1>15, NextCases DEF Acts

\* Counting the commands that ask: fewer of them, one less, one more.
LEMMA FewerAsk ==
  ASSUME TypeOK, Counted, Asking' \subseteq Asking, minted' = minted, calls' = calls
  PROVE  Counted'
  <1>1. PICK S : S = Asking'
    OBVIOUS
  <1>2. /\ IsFiniteSet(S) /\ Cardinality(S) <= Cardinality(Asking)
        /\ Cardinality(S) \in Nat /\ Cardinality(Asking) \in Nat
    BY <1>1, FS_Subset, FS_CardinalityType DEF Counted
  <1>3. IsFiniteSet(Asking') /\ minted' + Cardinality(Asking') <= calls'
    BY <1>1, <1>2 DEF Counted, TypeOK
  <1>4. QED
    BY <1>3 DEF Counted

LEMMA OneLessAsks ==
  ASSUME TypeOK, Counted, NEW c \in Asking, Asking' = Asking \ {c},
         minted' \in {minted, minted + 1}, calls' = calls
  PROVE  Counted'
  <1>1. PICK S : S = Asking'
    OBVIOUS
  <1>2. /\ IsFiniteSet(S) /\ Cardinality(S) = Cardinality(Asking) - 1
        /\ Cardinality(S) \in Nat /\ Cardinality(Asking) \in Nat
    BY <1>1, FS_RemoveElement, FS_CardinalityType DEF Counted
  <1>3. IsFiniteSet(Asking') /\ minted' + Cardinality(Asking') <= calls'
    BY <1>1, <1>2 DEF Counted, TypeOK
  <1>4. QED
    BY <1>3 DEF Counted

LEMMA OneMoreAsks ==
  ASSUME TypeOK, Counted, NEW c, Asking' \subseteq Asking \cup {c}, minted' = minted, calls' = calls + 1
  PROVE  Counted'
  <1>1. PICK S : S = Asking'
    OBVIOUS
  <1>2. PICK T : T = Asking \cup {c}
    OBVIOUS
  <1>3. /\ IsFiniteSet(T) /\ Cardinality(T) <= Cardinality(Asking) + 1
        /\ Cardinality(T) \in Nat /\ Cardinality(Asking) \in Nat
    <2>1. IsFiniteSet(Asking) /\ Cardinality(Asking) \in Nat
      BY FS_CardinalityType DEF Counted
    <2>2. /\ IsFiniteSet(T)
          /\ Cardinality(T) = IF c \in Asking THEN Cardinality(Asking) ELSE Cardinality(Asking) + 1
      BY <1>2, <2>1, FS_AddElement
    <2>3. QED
      BY <2>1, <2>2
  <1>4. /\ IsFiniteSet(S) /\ Cardinality(S) <= Cardinality(T) /\ Cardinality(S) \in Nat
    BY <1>1, <1>2, <1>3, FS_Subset, FS_CardinalityType
  <1>5. IsFiniteSet(Asking') /\ minted' + Cardinality(Asking') <= calls'
    BY <1>1, <1>3, <1>4 DEF Counted, TypeOK
  <1>6. QED
    BY <1>5 DEF Counted

\* A bearer is minted only for a command that asked.
LEMMA CountedStep ==
  ASSUME Shape, Next
  PROVE  Counted'
  <1> USE DEF Shape
  <1>1. ASSUME NEW c \in Commands, Quiet(c)
        PROVE  Counted'
    <2>1. Asking' \subseteq Asking /\ minted' = minted /\ calls' = calls
      BY <1>1, QuietFacts DEF Quietly, Asking, Moves, At, data
    <2>2. QED
      BY <2>1, FewerAsk
  <1>2. ASSUME NEW c \in Commands, Signal(c)
        PROVE  Counted'
    <2>1. Asking' \subseteq Asking /\ minted' = minted /\ calls' = calls
      BY <1>2, SignalFacts DEF Asking, Moves, At, data
    <2>2. QED
      BY <2>1, FewerAsk
  <1>3. ASSUME NEW c \in Commands, Kill(c)
        PROVE  Counted'
    <2>1. Asking' \subseteq Asking /\ minted' = minted /\ calls' = calls
      BY <1>3, KillFacts DEF Asking, Moves, At, data
    <2>2. QED
      BY <2>1, FewerAsk
  <1>4. ASSUME NEW c \in Commands, Removing(c)
        PROVE  Counted'
    <2>1. Asking' \subseteq Asking /\ minted' = minted /\ calls' = calls
      BY <1>4, RemoveFacts DEF Asking, Moves, At, data
    <2>2. QED
      BY <2>1, FewerAsk
  <1>5. ASSUME NEW c \in Commands, Spawn(c)
        PROVE  Counted'
    <2>1. Asking' \subseteq Asking /\ minted' = minted /\ calls' = calls
      BY <1>5, SpawnFacts DEF Asking, Moves, At, data
    <2>2. QED
      BY <2>1, FewerAsk
  <1>6. ASSUME NEW c \in Commands, NotHealthy(c)
        PROVE  Counted'
    <2>1. Asking' \subseteq Asking /\ minted' = minted /\ calls' = calls
      BY <1>6, NotHealthyFacts DEF Asking, Moves, At, data
    <2>2. QED
      BY <2>1, FewerAsk
  <1>7. ASSUME NEW c \in Commands, Recording(c)
        PROVE  Counted'
    <2>1. Asking' \subseteq Asking /\ minted' = minted /\ calls' = calls
      BY <1>7, RecordFacts DEF Asking, Moves, At, data
    <2>2. QED
      BY <2>1, FewerAsk
  <1>8. ASSUME NEW c \in Commands, Resetting(c)
        PROVE  Counted'
    <2>1. Asking' \subseteq Asking /\ minted' = minted /\ calls' = calls
      BY <1>8, DropFacts DEF Asking, Moves, At
    <2>2. QED
      BY <2>1, FewerAsk
  <1>9. ASSUME NEW c \in Commands, Ask(c)
        PROVE  Counted'
    <2>1. /\ Asking' = Asking \ {c} /\ c \in Asking
          /\ minted' \in {minted, minted + 1} /\ calls' = calls
      BY <1>9, AskFacts DEF Asking, Moves, At, Registers
    <2>2. QED
      BY <2>1, OneLessAsks
  <1>10. ASSUME NEW c \in Commands, AskLost(c)
        PROVE  Counted'
    <2>1. /\ Asking' = Asking \ {c} /\ c \in Asking
          /\ minted' \in {minted, minted + 1} /\ calls' = calls
      BY <1>10, AskLostFacts DEF Asking, Moves, At, Registers
    <2>2. QED
      BY <2>1, OneLessAsks
  <1>11. ASSUME NEW c \in Commands, Storing(c)
        PROVE  Counted'
    <2>1. Asking' \subseteq Asking /\ minted' = minted /\ calls' = calls
      BY <1>11, KeepFacts DEF Asking, Moves, At, data
    <2>2. QED
      BY <2>1, FewerAsk
  <1>12. ASSUME NEW c \in Commands, Die(c)
        PROVE  Counted'
    <2>1. Asking' \subseteq Asking /\ minted' = minted /\ calls' = calls
      BY <1>12, DieFacts DEF Asking, Moves, At, data
    <2>2. QED
      BY <2>1, FewerAsk
  <1>13. ASSUME NEW c \in Commands, NEW op \in Operations, Begin(c, op)
        PROVE  Counted'
    <2>1. Asking' \subseteq Asking \cup {c} /\ minted' = minted /\ calls' = calls + 1
      BY <1>13, BeginFacts DEF Asking, Moves, At, data
    <2>2. QED
      BY <2>1, OneMoreAsks
  <1>14. ASSUME NEW p \in Pids, Passing(p)
        PROVE  Counted'
    <2>1. Asking' \subseteq Asking /\ minted' = minted /\ calls' = calls
      BY <1>14, PassingFacts DEF Asking, At, data
    <2>2. QED
      BY <2>1, FewerAsk
  <1>15. ASSUME NEW p \in Pids, OpenDb(p)
        PROVE  Counted'
    <2>1. Asking' \subseteq Asking /\ minted' = minted /\ calls' = calls
      BY <1>15, OpenFacts DEF Asking, At
    <2>2. QED
      BY <2>1, FewerAsk
  <1>16. QED
    BY <1>1, <1>2, <1>3, <1>4, <1>5, <1>6, <1>7, <1>8, <1>9, <1>10, <1>11, <1>12, <1>13, <1>14,
      <1>15, NextCases DEF Acts

\* Commands that end make no new meeting.
LEMMA FewerMeet ==
  ASSUME Meetings, mishaps \subseteq mishaps', \A c \in Commands : cmd'[c].op \in {cmd[c].op, "none"}
  PROVE  Meetings'
  BY DEF Meetings, Admin

\* Only a command that begins meets others, and notes it.
LEMMA MeetingsStep ==
  ASSUME Shape, Next
  PROVE  Meetings'
  <1> USE DEF Shape
  <1>1. ASSUME NEW c \in Commands, Quiet(c)
        PROVE  Meetings'
    BY <1>1, QuietFacts, FewerMeet DEF Quietly, Moves
  <1>2. ASSUME NEW c \in Commands, Signal(c)
        PROVE  Meetings'
    BY <1>2, SignalFacts, FewerMeet DEF Moves
  <1>3. ASSUME NEW c \in Commands, Kill(c)
        PROVE  Meetings'
    BY <1>3, KillFacts, FewerMeet DEF Moves
  <1>4. ASSUME NEW c \in Commands, Removing(c)
        PROVE  Meetings'
    BY <1>4, RemoveFacts, FewerMeet DEF Moves
  <1>5. ASSUME NEW c \in Commands, Spawn(c)
        PROVE  Meetings'
    BY <1>5, SpawnFacts, FewerMeet DEF Moves
  <1>6. ASSUME NEW c \in Commands, NotHealthy(c)
        PROVE  Meetings'
    BY <1>6, NotHealthyFacts, FewerMeet DEF Moves
  <1>7. ASSUME NEW c \in Commands, Recording(c)
        PROVE  Meetings'
    BY <1>7, RecordFacts, FewerMeet DEF Moves
  <1>8. ASSUME NEW c \in Commands, Resetting(c)
        PROVE  Meetings'
    BY <1>8, DropFacts, FewerMeet DEF Moves
  <1>9. ASSUME NEW c \in Commands, Ask(c)
        PROVE  Meetings'
    BY <1>9, AskFacts, FewerMeet DEF Moves
  <1>10. ASSUME NEW c \in Commands, AskLost(c)
        PROVE  Meetings'
    BY <1>10, AskLostFacts, FewerMeet DEF Moves
  <1>11. ASSUME NEW c \in Commands, Storing(c)
        PROVE  Meetings'
    BY <1>11, KeepFacts, FewerMeet DEF Moves
  <1>12. ASSUME NEW c \in Commands, Die(c)
        PROVE  Meetings'
    BY <1>12, DieFacts, FewerMeet DEF Moves
  <1>13. ASSUME NEW c \in Commands, NEW op \in Operations, Begin(c, op)
        PROVE  Meetings'
    <2>1. mishaps \subseteq mishaps' /\ Meets(op) \subseteq mishaps' /\ At(c, "idle")
      BY <1>13, BeginFacts
    <2>2. ASSUME NEW d \in Commands, d # c, cmd[d].op # "none"
          PROVE  Meeting(op, cmd[d].op) \subseteq mishaps'
      BY <2>1, <2>2, OpFacts DEF Meets
    <2>3. cmd'[c].op = op /\ \A d \in Commands \ {c} : cmd'[d] = cmd[d]
      BY <1>13, BeginFacts DEF Moves
    <2>4. ASSUME NEW d \in Commands, d # c, cmd[d].op # "none"
          PROVE  /\ op = "start" /\ cmd[d].op = "start" => "starts" \in mishaps'
                 /\ {op, cmd[d].op} = {"start", "reset"} => "resets" \in mishaps'
                 /\ op \in Admin \/ cmd[d].op \in Admin => "crossing" \in mishaps'
      BY <2>2, <2>4 DEF Meeting, Admin
    <2>5. QED
      BY <2>1, <2>3, <2>4 DEF Meetings, Admin
  <1>14. ASSUME NEW p \in Pids, Passing(p)
        PROVE  Meetings'
    BY <1>14, PassingFacts, FewerMeet
  <1>15. ASSUME NEW p \in Pids, OpenDb(p)
        PROVE  Meetings'
    BY <1>15, OpenFacts, FewerMeet
  <1>16. QED
    BY <1>1, <1>2, <1>3, <1>4, <1>5, <1>6, <1>7, <1>8, <1>9, <1>10, <1>11, <1>12, <1>13, <1>14,
      <1>15, NextCases DEF Acts

\* Only opening a database changes what operators have open.
LEMMA DatabasesStep ==
  ASSUME Shape, Next
  PROVE  Databases'
  <1> USE DEF Shape
  <1>1. ASSUME NEW c \in Commands, Quiet(c)
        PROVE  Databases'
    BY <1>1, QuietFacts DEF Quietly, Databases, data
  <1>2. ASSUME NEW c \in Commands, Signal(c)
        PROVE  Databases'
    BY <1>2, SignalFacts DEF Databases, Turns, data
  <1>3. ASSUME NEW c \in Commands, Kill(c)
        PROVE  Databases'
    BY <1>3, KillFacts DEF Databases, Turns, data
  <1>4. ASSUME NEW c \in Commands, Removing(c)
        PROVE  Databases'
    BY <1>4, RemoveFacts DEF Databases, data
  <1>5. ASSUME NEW c \in Commands, Spawn(c)
        PROVE  Databases'
    BY <1>5, SpawnFacts DEF Databases, Turns, data
  <1>6. ASSUME NEW c \in Commands, NotHealthy(c)
        PROVE  Databases'
    BY <1>6, NotHealthyFacts DEF Databases, Turns, data
  <1>7. ASSUME NEW c \in Commands, Recording(c)
        PROVE  Databases'
    BY <1>7, RecordFacts DEF Databases, data
  <1>8. ASSUME NEW c \in Commands, Resetting(c)
        PROVE  Databases'
    BY <1>8, DropFacts, CmdFacts DEF Databases
  <1>9. ASSUME NEW c \in Commands, Ask(c)
        PROVE  Databases'
    BY <1>9, AskFacts DEF Databases, Registers
  <1>10. ASSUME NEW c \in Commands, AskLost(c)
        PROVE  Databases'
    BY <1>10, AskLostFacts DEF Databases, Turns, Registers
  <1>11. ASSUME NEW c \in Commands, Storing(c)
        PROVE  Databases'
    BY <1>11, KeepFacts DEF Databases, data
  <1>12. ASSUME NEW c \in Commands, Die(c)
        PROVE  Databases'
    BY <1>12, DieFacts DEF Databases, data
  <1>13. ASSUME NEW c \in Commands, NEW op \in Operations, Begin(c, op)
        PROVE  Databases'
    BY <1>13, BeginFacts DEF Databases, data
  <1>14. ASSUME NEW p \in Pids, Passing(p)
        PROVE  Databases'
    BY <1>14, PassingFacts DEF Databases, Turns, data
  <1>15. ASSUME NEW p \in Pids, OpenDb(p)
        PROVE  Databases'
    BY <1>15, OpenFacts DEF Databases, Turns
  <1>16. QED
    BY <1>1, <1>2, <1>3, <1>4, <1>5, <1>6, <1>7, <1>8, <1>9, <1>10, <1>11, <1>12, <1>13, <1>14,
      <1>15, NextCases DEF Acts

-----------------------------------------------------------------------------
\* What holds until a mishap

\* An operator that lives stays found.
LEMMA TrackedStep ==
  ASSUME Shape, Tracked, Next
  PROVE  Tracked'
  <1> USE DEF Shape
  <1> SUFFICES ASSUME Spared({"starts", "overtaken", "death"})'
               PROVE  (Found /\ Cleared /\ Raised /\ Recorded)'
    BY DEF Tracked
  <1>1. Spared({"starts", "overtaken", "death"})
    BY MishapsGrow DEF Spared
  <1>2. /\ Found /\ Cleared /\ Raised /\ Recorded
        /\ \A d, e \in Commands : cmd[d].op = "start" /\ cmd[e].op = "start" => d = e
    BY <1>1 DEF Spared, Tracked, Meetings
  <1>3. \A d \in Commands : /\ Raising(d) \/ Clearing(d) \/ At(d, "put") => cmd[d].op = "start"
                            /\ Raising(d) => cmd[d].ref \in Pids
    BY OpFacts DEF Raising, Clearing, At, Roles, Role
  <1>4. ASSUME NEW c \in Commands, Quiet(c)
        PROVE  (Found /\ Cleared /\ Raised /\ Recorded)'
    BY <1>4, QuietFacts, CmdFacts, <1>2, <1>3 DEF Quietly, Found, Raised, Live, Up, Raising, At,
      Moves, Cleared, Clearing, Recorded
  <1>5. ASSUME NEW c \in Commands, Signal(c)
        PROVE  (Found /\ Cleared /\ Raised /\ Recorded)'
    BY <1>5, SignalFacts, <1>2, <1>3 DEF Found, Raised, Live, Up, Raising, At, Moves, Turns,
      Cleared, Clearing, Recorded
  <1>6. ASSUME NEW c \in Commands, Kill(c)
        PROVE  (Found /\ Cleared /\ Raised /\ Recorded)'
    BY <1>6, KillFacts, <1>2, <1>3 DEF Found, Raised, Live, Up, Raising, At, Moves, Turns, Cleared,
      Clearing, Recorded
  <1>7. ASSUME NEW c \in Commands, Removing(c)
        PROVE  (Found /\ Cleared /\ Raised /\ Recorded)'
    <2>1. \A p \in Pids : Live(p) => file # p
      BY <1>7, RemoveFacts, CmdFacts DEF Spared, Live, Up
    <2>2. QED
      BY <1>7, RemoveFacts, CmdFacts, <1>2, <1>3, <2>1 DEF Found, Raised, Live, Up, Raising, At,
        Moves, Cleared, Clearing, Recorded
  <1>8. ASSUME NEW c \in Commands, Spawn(c)
        PROVE  (Found /\ Cleared /\ Raised /\ Recorded)'
    BY <1>8, SpawnFacts, <1>2, <1>3 DEF Found, Raised, Live, Up, Raising, At, Moves, Turns, Cleared,
      Clearing, Recorded, Born
  <1>9. ASSUME NEW c \in Commands, NotHealthy(c)
        PROVE  (Found /\ Cleared /\ Raised /\ Recorded)'
    BY <1>9, NotHealthyFacts, <1>2, <1>3 DEF Found, Raised, Live, Up, Raising, At, Moves, Turns,
      Cleared, Recorded
  <1>10. ASSUME NEW c \in Commands, Recording(c)
        PROVE  (Found /\ Cleared /\ Raised /\ Recorded)'
    BY <1>10, RecordFacts, CmdFacts, <1>2, <1>3 DEF Found, Raised, Live, Up, Raising, At, Moves,
      Cleared, Clearing, Recorded
  <1>11. ASSUME NEW c \in Commands, Resetting(c)
        PROVE  (Found /\ Cleared /\ Raised /\ Recorded)'
    BY <1>11, DropFacts, <1>2 DEF Found, Raised, Live, Up, Raising, At, Moves, Cleared, Clearing,
      Recorded
  <1>12. ASSUME NEW c \in Commands, Ask(c)
        PROVE  (Found /\ Cleared /\ Raised /\ Recorded)'
    BY <1>12, AskFacts, <1>2 DEF Found, Raised, Live, Up, Raising, At, Moves, Cleared, Clearing,
      Recorded
  <1>13. ASSUME NEW c \in Commands, AskLost(c)
        PROVE  (Found /\ Cleared /\ Raised /\ Recorded)'
    BY <1>13, AskLostFacts, <1>2 DEF Found, Raised, Live, Up, Raising, At, Moves, Turns, Cleared,
      Recorded
  <1>14. ASSUME NEW c \in Commands, Storing(c)
        PROVE  (Found /\ Cleared /\ Raised /\ Recorded)'
    BY <1>14, KeepFacts, <1>2 DEF Found, Raised, Live, Up, Raising, At, Moves, Cleared, Clearing,
      Recorded
  <1>15. ASSUME NEW c \in Commands, Die(c)
        PROVE  (Found /\ Cleared /\ Raised /\ Recorded)'
    BY <1>15, DieFacts DEF Spared
  <1>16. ASSUME NEW c \in Commands, NEW op \in Operations, Begin(c, op)
        PROVE  (Found /\ Cleared /\ Raised /\ Recorded)'
    BY <1>16, BeginFacts, <1>2 DEF Found, Raised, Live, Up, Raising, At, Moves, Cleared, Clearing,
      Recorded
  <1>17. ASSUME NEW p \in Pids, Passing(p)
        PROVE  (Found /\ Cleared /\ Raised /\ Recorded)'
    BY <1>17, PassingFacts, <1>2, <1>3 DEF Found, Raised, Live, Up, Raising, At, Turns, Cleared,
      Clearing, Recorded
  <1>18. ASSUME NEW p \in Pids, OpenDb(p)
        PROVE  (Found /\ Cleared /\ Raised /\ Recorded)'
    BY <1>18, OpenFacts, <1>2 DEF Found, Raised, Live, Up, Raising, At, Turns, Cleared, Clearing,
      Recorded
  <1>19. QED
    BY <1>4, <1>5, <1>6, <1>7, <1>8, <1>9, <1>10, <1>11, <1>12, <1>13, <1>14, <1>15, <1>16, <1>17,
      <1>18, NextCases DEF Acts

\* Its token stays stored, and the database it has open stays at the path.
LEMMA TokensStep ==
  ASSUME Shape, Tracked, Tokens, Next
  PROVE  Tokens'
  <1> USE DEF Shape
  <1> SUFFICES ASSUME Spared({"starts", "overtaken", "death", "resets"})'
               PROVE  (Known /\ Emptied /\ Opened)'
    BY DEF Tokens
  <1>1. Spared({"starts", "overtaken", "death", "resets"})
    BY MishapsGrow DEF Spared
  <1>2. /\ Found /\ Cleared /\ Raised /\ Recorded /\ Known /\ Emptied /\ Opened
        /\ \A d, e \in Commands : cmd[d].op = "start" /\ cmd[e].op = "start" => d = e
        /\ \A d, e \in Commands : ~(cmd[d].op = "start" /\ cmd[e].op = "reset")
    BY <1>1 DEF Spared, Tracked, Tokens, Meetings
  <1>3. \A d \in Commands : /\ Raising(d) \/ Clearing(d) \/ At(d, "put") => cmd[d].op = "start"
                            /\ Dropping(d) => cmd[d].op = "reset"
                            /\ Raising(d) => cmd[d].ref \in Pids
    BY OpFacts DEF Raising, Clearing, At, Roles, Role
  <1>4. ASSUME NEW c \in Commands, Quiet(c)
        PROVE  (Known /\ Emptied /\ Opened)'
    <2>1. Known'
      BY <1>4, QuietFacts, <1>2 DEF Quietly, Known, Live, Up, Raising, At, Moves, store
    <2>2. Emptied'
      BY <1>4, QuietFacts, CmdFacts, <1>2, <1>3 DEF Quietly, Found, Emptied, Live, Up, Dropping,
        Moves, data
    <2>3. Opened'
      BY <1>4, QuietFacts, <1>2 DEF Quietly, Opened, data
    <2>4. QED
      BY <2>1, <2>2, <2>3
  <1>5. ASSUME NEW c \in Commands, Signal(c)
        PROVE  (Known /\ Emptied /\ Opened)'
    <2>1. Known'
      BY <1>5, SignalFacts, <1>2 DEF Known, Live, Up, Raising, At, Moves, Turns, store
    <2>2. Emptied'
      BY <1>5, SignalFacts, <1>2 DEF Emptied, Live, Up, Dropping, Moves, Turns, data
    <2>3. Opened'
      BY <1>5, SignalFacts, <1>2 DEF Opened, Turns, data
    <2>4. QED
      BY <2>1, <2>2, <2>3
  <1>6. ASSUME NEW c \in Commands, Kill(c)
        PROVE  (Known /\ Emptied /\ Opened)'
    BY <1>6, KillFacts, <1>2 DEF Known, Live, Up, Raising, At, Moves, Turns, store, Emptied,
      Dropping, data, Opened
  <1>7. ASSUME NEW c \in Commands, Removing(c)
        PROVE  (Known /\ Emptied /\ Opened)'
    <2>1. \A p \in Pids : Live(p) => file # p
      BY <1>7, RemoveFacts, CmdFacts DEF Spared, Live, Up
    <2>2. QED
      BY <1>7, RemoveFacts, <1>2, <1>3, <2>1 DEF Found, Known, Live, Up, Raising, Moves, Emptied,
        Dropping, data, Opened
  <1>8. ASSUME NEW c \in Commands, Spawn(c)
        PROVE  (Known /\ Emptied /\ Opened)'
    <2>1. Known'
      BY <1>8, SpawnFacts, <1>2 DEF Known, Live, Up, Raising, At, Moves, Turns, store
    <2>2. Emptied'
      BY <1>8, SpawnFacts, <1>2, <1>3 DEF Emptied, Dropping, Moves
    <2>3. Opened'
      BY <1>8, SpawnFacts, <1>2 DEF Opened, Turns, data
    <2>4. QED
      BY <2>1, <2>2, <2>3
  <1>9. ASSUME NEW c \in Commands, NotHealthy(c)
        PROVE  (Known /\ Emptied /\ Opened)'
    BY <1>9, NotHealthyFacts, <1>2, <1>3 DEF Raised, Known, Live, Up, Raising, At, Moves, Turns,
      Emptied, Dropping, Opened
  <1>10. ASSUME NEW c \in Commands, Recording(c)
        PROVE  (Known /\ Emptied /\ Opened)'
    BY <1>10, RecordFacts, CmdFacts, <1>2 DEF Found, Raised, Recorded, Known, Live, Up, Raising, At,
      Moves, Emptied, Dropping, data, Opened
  <1>11. ASSUME NEW c \in Commands, Resetting(c)
        PROVE  (Known /\ Emptied /\ Opened)'
    BY <1>11, DropFacts, <1>2 DEF Known, Live, Up, At, Emptied, Dropping, Opened
  <1>12. ASSUME NEW c \in Commands, Ask(c)
        PROVE  (Known /\ Emptied /\ Opened)'
    <2>1. Known'
      BY <1>12, AskFacts, <1>2 DEF Known, Live, Up, Raising, At, Moves, store
    <2>2. Emptied'
      BY <1>12, AskFacts, <1>2 DEF Emptied, Live, Up, Dropping, Moves
    <2>3. Opened'
      BY <1>12, AskFacts, <1>2 DEF Opened
    <2>4. QED
      BY <2>1, <2>2, <2>3
  <1>13. ASSUME NEW c \in Commands, AskLost(c)
        PROVE  (Known /\ Emptied /\ Opened)'
    BY <1>13, AskLostFacts, <1>2 DEF Found, Raised, Known, Live, Up, Moves, Turns, Emptied, Opened
  <1>14. ASSUME NEW c \in Commands, Storing(c)
        PROVE  (Known /\ Emptied /\ Opened)'
    BY <1>14, KeepFacts, <1>2 DEF Known, Live, Up, Raising, At, Moves, Emptied, Dropping, data,
      Opened
  <1>15. ASSUME NEW c \in Commands, Die(c)
        PROVE  (Known /\ Emptied /\ Opened)'
    BY <1>15, DieFacts DEF Spared
  <1>16. ASSUME NEW c \in Commands, NEW op \in Operations, Begin(c, op)
        PROVE  (Known /\ Emptied /\ Opened)'
    BY <1>16, BeginFacts, <1>2 DEF Known, Live, Up, Raising, At, Moves, store, Emptied, Dropping,
      data, Opened
  <1>17. ASSUME NEW p \in Pids, Passing(p)
        PROVE  (Known /\ Emptied /\ Opened)'
    BY <1>17, PassingFacts, <1>2 DEF Known, Live, Up, Raising, At, Turns, store, Emptied, Dropping,
      data, Opened
  <1>18. ASSUME NEW p \in Pids, OpenDb(p)
        PROVE  (Known /\ Emptied /\ Opened)'
    BY <1>18, OpenFacts, <1>2 DEF Found, Raised, Known, Live, Up, Raising, At, Turns, store,
      Emptied, Dropping, Opened
  <1>19. QED
    BY <1>4, <1>5, <1>6, <1>7, <1>8, <1>9, <1>10, <1>11, <1>12, <1>13, <1>14, <1>15, <1>16, <1>17,
      <1>18, NextCases DEF Acts

\* The bearer goes on fitting the database.
LEMMA BearingStep ==
  ASSUME Shape, Tokens, Bearing, Next
  PROVE  Bearing'
  <1> USE DEF Shape
  <1> SUFFICES ASSUME Spared({"starts", "overtaken", "death", "resets", "loss", "crossing"})'
               PROVE  (Fitting /\ Promised)'
    BY DEF Bearing
  <1>1. Spared({"starts", "overtaken", "death", "resets", "loss", "crossing"})
    BY MishapsGrow DEF Spared
  <1>2. /\ Fitting /\ Promised /\ Emptied /\ Opened
        /\ \A d, e \in Commands : cmd[d].op \in Admin /\ cmd[e].op # "none" => d = e
    BY <1>1 DEF Spared, Bearing, Tokens, Meetings
  <1>3. \A d \in Commands : cmd[d].at \in {"ask", "keep", "forget"} => cmd[d].op \in Admin
    BY OpFacts
  <1>4. "none" \notin Admin /\ "start" \notin Admin /\ "reset" \notin Admin
    BY DEF Admin
  <1>5. ASSUME NEW c \in Commands, Quiet(c)
        PROVE  (Fitting /\ Promised)'
    BY <1>5, QuietFacts, <1>2 DEF Quietly, Fitting, Promised, At, Moves, store, data
  <1>6. ASSUME NEW c \in Commands, Signal(c)
        PROVE  (Fitting /\ Promised)'
    BY <1>6, SignalFacts, <1>2 DEF Fitting, Promised, At, Moves, store, data
  <1>7. ASSUME NEW c \in Commands, Kill(c)
        PROVE  (Fitting /\ Promised)'
    BY <1>7, KillFacts, <1>2 DEF Fitting, Promised, At, Moves, store, data
  <1>8. ASSUME NEW c \in Commands, Removing(c)
        PROVE  (Fitting /\ Promised)'
    BY <1>8, RemoveFacts, <1>2 DEF Fitting, Promised, At, Moves, store, data
  <1>9. ASSUME NEW c \in Commands, Spawn(c)
        PROVE  (Fitting /\ Promised)'
    BY <1>9, SpawnFacts, <1>2 DEF Fitting, Promised, At, Moves, store, data
  <1>10. ASSUME NEW c \in Commands, NotHealthy(c)
        PROVE  (Fitting /\ Promised)'
    BY <1>10, NotHealthyFacts, <1>2 DEF Fitting, Promised, At, Moves, store, data
  <1>11. ASSUME NEW c \in Commands, Recording(c)
        PROVE  (Fitting /\ Promised)'
    BY <1>11, RecordFacts, <1>2 DEF Fitting, Promised, At, Moves, data
  <1>12. ASSUME NEW c \in Commands, Resetting(c)
        PROVE  (Fitting /\ Promised)'
    <2>1. \A d \in Commands : cmd[d].at \in {"keep", "forget"} => d = c
      BY <1>12, DropFacts, <1>2, <1>3
    <2>2. Fitting'
      BY <1>12, DropFacts, <1>2 DEF Fitting, Emptied, Moves, At
    <2>3. Promised'
      BY <1>12, DropFacts, <2>1 DEF Promised, Moves, At
    <2>4. QED
      BY <2>2, <2>3
  <1>13. ASSUME NEW c \in Commands, Ask(c)
        PROVE  (Fitting /\ Promised)'
    <2>1. \A d \in Commands : cmd[d].at \in {"keep", "forget"} => d = c
      BY <1>13, AskFacts, <1>2, <1>3, <1>4
    <2>2. Fitting'
      BY <1>13, AskFacts DEF Fitting, Moves
    <2>3. Promised'
      BY <1>13, AskFacts, <1>2, <2>1 DEF Promised, Opened, Registers, Moves, At
    <2>4. QED
      BY <2>2, <2>3
  <1>14. ASSUME NEW c \in Commands, AskLost(c)
        PROVE  (Fitting /\ Promised)'
    BY <1>14, AskLostFacts DEF Spared
  <1>15. ASSUME NEW c \in Commands, Storing(c)
        PROVE  (Fitting /\ Promised)'
    BY <1>15, KeepFacts, CmdFacts, <1>2 DEF Fitting, Promised, At, Moves, data
  <1>16. ASSUME NEW c \in Commands, Die(c)
        PROVE  (Fitting /\ Promised)'
    BY <1>16, DieFacts DEF Spared
  <1>17. ASSUME NEW c \in Commands, NEW op \in Operations, Begin(c, op)
        PROVE  (Fitting /\ Promised)'
    BY <1>17, BeginFacts, <1>2 DEF Fitting, Promised, At, Moves, store, data
  <1>18. ASSUME NEW p \in Pids, Passing(p)
        PROVE  (Fitting /\ Promised)'
    BY <1>18, PassingFacts, <1>2 DEF Fitting, Promised, At, store, data
  <1>19. ASSUME NEW p \in Pids, OpenDb(p)
        PROVE  (Fitting /\ Promised)'
    BY <1>19, OpenFacts, CmdFacts, <1>2 DEF Fitting, Promised, At, store, Databases
  <1>20. QED
    BY <1>5, <1>6, <1>7, <1>8, <1>9, <1>10, <1>11, <1>12, <1>13, <1>14, <1>15, <1>16, <1>17, <1>18,
      <1>19, NextCases DEF Acts

-----------------------------------------------------------------------------
\* The invariant is inductive

LEMMA InitInv == Init => IInv
  <1> SUFFICES ASSUME Init PROVE IInv
    OBVIOUS
  <1>1. /\ \A c \in Commands : cmd[c] = Idle
        /\ Idle.op = "none" /\ Idle.at = "idle" /\ Idle.ref = None /\ Idle \in CmdType
    BY DEF Init, Idle, CmdType, Points, Refs
  <1>2. TypeOK
    <2>1. Cmds /\ References
      BY <1>1 DEF Init, Cmds, References
    <2>2. Procs
      BY DEF Init, Procs, States
    <2>3. Values
      BY LifecycleAssumption DEF Init, Values
    <2>4. QED
      BY <2>1, <2>2, <2>3, Typed
  <1>3. Roles
    BY <1>1 DEF Roles, Role, Route, At, Raising
  <1>4. Born /\ Databases
    BY CmdFacts, <1>2 DEF Init, Born, Databases
  <1>5. Counted
    <2>1. Asking = {}
      BY <1>1 DEF Asking, At
    <2>2. QED
      BY <2>1, FS_EmptySet DEF Counted, Init
  <1>6. Meetings
    BY <1>1 DEF Meetings
  <1>7. \A p \in Pids : ~Live(p) /\ proc[p] = "unborn"
    BY DEF Init, Live, Up
  <1>8. Tracked
    BY <1>1, <1>7 DEF Tracked, Found, Cleared, Raised, Recorded, Raising, At
  <1>9. Tokens
    BY <1>1, <1>7 DEF Tokens, Known, Emptied, Opened
  <1>10. Bearing
    BY <1>1 DEF Bearing, Fitting, Promised, Init, At
  <1>11. QED
    BY <1>2, <1>3, <1>4, <1>5, <1>6, <1>8, <1>9, <1>10 DEF IInv, Shape

LEMMA InvStep == IInv /\ [Next]_vars => IInv'
  <1> SUFFICES ASSUME IInv, [Next]_vars PROVE IInv'
    OBVIOUS
  <1>1. CASE UNCHANGED vars
    BY <1>1 DEF vars, IInv, Shape, TypeOK, Roles, Role, Born, Counted, Asking, Meetings, Databases,
      Tracked, Found, Cleared, Raised, Recorded, Tokens, Known, Emptied, Opened, Bearing, Fitting,
      Promised, Spared, Live, Up, Raising, Clearing, Dropping, At
  <1>2. CASE Next
    BY <1>2, TypeStep, RolesStep, BornStep, CountedStep, MeetingsStep, DatabasesStep, TrackedStep,
      TokensStep, BearingStep DEF IInv, Shape
  <1>3. QED
    BY <1>1, <1>2

-----------------------------------------------------------------------------
\* The theorems

\* Every variable of the supervisor, its files and its operators has its type, and no
\* more bearers are minted than commands were run.
THEOREM TypeCorrect == Spec => []TypeOK
  <1>1. IInv => TypeOK
    BY DEF IInv, Shape
  <1>2. QED
    BY <1>1, InitInv, InvStep, PTL DEF Spec

\* Every operator that is up is the one network.json records (startNetwork, stopNetwork).
THEOREM ServersAreRecorded == Spec => []ServerIsRecorded
  <1>1. IInv => ServerIsRecorded
    <2> SUFFICES ASSUME IInv, Without({"starts", "overtaken", "death"}), NEW p \in Pids, Up(p)
                 PROVE  file = p
      BY DEF ServerIsRecorded
    <2>1. Found
      BY DEF IInv, Tracked, Spared, Without
    <2>2. \A c \in Commands : ~Raising(c)
      BY OpFacts DEF IInv, Shape, Raising, Without, Supervision
    <2>3. QED
      BY <2>1, <2>2 DEF Found, Live
  <1>2. QED
    BY <1>1, InitInv, InvStep, PTL DEF Spec

\* The stored admin token is that of the operator that listens (PutToken, runReset).
THEOREM TokensOpenTheirServer == Spec => []TokenOpensTheServer
  <1>1. IInv => TokenOpensTheServer
    <2> SUFFICES ASSUME IInv, Without({"starts", "overtaken", "death", "resets"}),
                        NEW p \in Pids, Serving(p)
                 PROVE  admin = p
      BY DEF TokenOpensTheServer
    <2>1. Known
      BY DEF IInv, Tokens, Spared, Without
    <2>2. \A c \in Commands : ~Raising(c) /\ ~At(c, "put")
      BY OpFacts DEF IInv, Shape, Raising, At, Without, Supervision
    <2>3. QED
      BY <2>1, <2>2 DEF Known, Live, Up, Serving
  <1>2. QED
    BY <1>1, InitInv, InvStep, PTL DEF Spec

\* When no command is under way, the stored bearer of the agent is the one the database
\* at the path has for it (commands/admin.ts).
THEOREM BearersFit == Spec => []BearerFitsTheDatabase
  <1>1. IInv => BearerFitsTheDatabase
    <2> SUFFICES ASSUME IInv, ~Busy,
                        Without({"starts", "overtaken", "death", "resets", "loss", "crossing"})
                 PROVE  bearer = (IF db = None THEN None ELSE agent[db])
      BY DEF BearerFitsTheDatabase
    <2>1. Fitting
      BY DEF IInv, Bearing, Spared, Without
    <2>2. QED
      BY <2>1 DEF Fitting, Busy
  <1>2. QED
    BY <1>1, InitInv, InvStep, PTL DEF Spec

\* A reset takes the database away only when every operator that had it open is gone
\* (resetNetwork).
THEOREM ResetsSpareTheRunning == Spec => ResetSparesTheRunning
  <1>1. ASSUME IInv, Next, db # None, db' = None,
               mishaps \cap {"starts", "overtaken", "death", "resets", "late"} = {},
               NEW p \in Pids, Up(p) \/ proc[p] = "drain"
        PROVE  opened[p] # db
    <2>1. PICK c \in Commands : Resetting(c)
      <3>1. ASSUME NEW c \in Commands, Acts(c), ~Resetting(c) PROVE db' = db
        BY <1>1, <3>1, QuietFacts, SignalFacts, KillFacts, RemoveFacts, SpawnFacts, NotHealthyFacts,
          RecordFacts, AskFacts, AskLostFacts, KeepFacts, DieFacts, BeginFacts DEF IInv, Shape,
          Acts, Quietly, data
      <3>2. ASSUME NEW q \in Pids, OpenDb(q) PROVE FALSE
        BY <1>1, <3>2, OpenFacts DEF IInv, Shape
      <3>3. ASSUME NEW q \in Pids, Passing(q) PROVE FALSE
        BY <1>1, <3>3, PassingFacts DEF IInv, Shape, data
      <3>4. QED
        BY <1>1, <3>1, <3>2, <3>3, NextCases DEF IInv, Shape
    <2>2. At(c, "dropDb")
      BY <1>1, <2>1, DropFacts DEF IInv, Shape
    <2>3. Emptied /\ Live(p)
      BY <1>1 DEF IInv, Tokens, Spared, Live
    <2>4. QED
      BY <2>2, <2>3 DEF Emptied, Dropping, At
  <1>2. IInv /\ [Next]_vars =>
          [(db # None /\ db' = None
              /\ mishaps \cap {"starts", "overtaken", "death", "resets", "late"} = {})
             => \A p \in Pids : Up(p) \/ proc[p] = "drain" => opened[p] # db]_vars
    BY <1>1
  <1>3. QED
    BY <1>2, InitInv, InvStep, PTL DEF Spec, ResetSparesTheRunning

=============================================================================
