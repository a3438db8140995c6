-------------------------- MODULE CredentialStore --------------------------
(***************************************************************************)
(* The client's credential store (credentials/store.ts) as several          *)
(* processes open and use it: the key file that only the first opener       *)
(* makes (file-key.ts), the schema migrations (schema.ts), the import of     *)
(* the files an older CLI kept its secrets in (migration.ts), reads, writes *)
(* and deletions, and the purge after a read that cannot be decrypted       *)
(* (auth-resolver.ts).                                                      *)
(*                                                                          *)
(* One network: its admin token, the credential of one agent, and the       *)
(* user's session, each a row and perhaps a legacy file.  A secret is a     *)
(* number, a ciphertext the pair of a secret and a key.  An SQL statement   *)
(* and a transaction are one step, and so is a call on a file; between two  *)
(* of them another process may run, or the process may die.                 *)
(*                                                                          *)
(* Left out: the dates, other networks and agents, a network of the user's  *)
(* own under a name the schema renames, SQLITE_BUSY, and a key file that is *)
(* not a key (the open fails, nothing is changed).                          *)
(***************************************************************************)
EXTENDS Naturals, FiniteSets

CONSTANTS
  Processes,  \* CLI processes, and the desktop app
  Versions,   \* schema versions the store may have at first: a subset of 0..5
  Mishaps,    \* what may go wrong: a subset of AllMishaps
  MaxOpens,   \* bound: stores opened
  MaxPuts     \* bound: secrets stored

AllMishaps == {"death", "twoKeys"}

ASSUME StoreAssumption ==
  /\ Versions \subseteq 0..5
  /\ Mishaps \subseteq AllMishaps
  /\ MaxOpens \in Nat /\ MaxPuts \in Nat

VARIABLES
  key,      \* the key file
  version,  \* schema_version: 0 before there are tables
  rows,     \* the row of each slot
  legacy,   \* the legacy file of each slot
  proc,     \* where each process is, and what it has in memory
  due,      \* what each slot should give: the secret last stored, nothing after a deletion
  made,     \* keys made so far
  opens,    \* stores opened so far
  puts,     \* secrets stored so far
  mishaps   \* what has gone wrong so far

vars == <<key, version, rows, legacy, proc, due, made, opens, puts, mishaps>>
disk == <<key, version, rows, legacy>>

Slots == {"admin", "agent", "session"}
CurrentVersion == 4
None == 0
OldSecret == 1                      \* what a legacy file holds
Secrets == 1..(2 + MaxPuts)
Keys == 1..(1 + MaxOpens)

\* What an agent's credential may carry beside its bearer, by kind; the other rows are
\* "plain".
Columns == {"refresh", "client", "clientSecret"}
Valid(kind, columns) ==
  CASE kind = "oauth_pkce" -> {"client"} \subseteq columns /\ columns \subseteq {"client", "refresh"}
    [] kind = "oauth_client_credentials" -> columns = {"client", "clientSecret"}
    [] OTHER -> columns = {}
AgentKinds == {"local_bearer", "oauth_pkce", "oauth_client_credentials"}
AllKinds == AgentKinds \cup {"plain"}
Kinds(s) == IF s = "agent" THEN AgentKinds ELSE {"plain"}
Legacy(s) == IF s = "agent" THEN "local_bearer" ELSE "plain"

\* A row stands under the name its network had in schema version 2, 3 or 4.
NoRow == [secret |-> None, key |-> None, name |-> CurrentVersion, kind |-> "plain", columns |-> {}]
Row(secret, k, kind, columns) ==
  [secret |-> secret, key |-> k, name |-> CurrentVersion, kind |-> kind, columns |-> columns]
Held(s) == rows[s] # NoRow
Readable(s, k) == rows[s].key = k

\* Key 1 is that of a store that is there at first, the others are made later.
Fresh == 2 + made
Off == [at |-> "off", key |-> None, seen |-> None, slot |-> "admin", read |-> None]
Points == {"off", "key", "place", "version", "migrate", "look", "read", "put", "unlink",
           "ready", "select", "drop"}

\* What a command that asks for s gets, now or once the legacy file is imported.
Gives(s) == IF Held(s) /\ Readable(s, key) THEN rows[s].secret ELSE legacy[s]

\* A store as an older CLI, this one or a newer one has left it: nothing at all, or tables
\* with rows under the names of their version, whose key the user may have deleted.  An
\* older CLI has left the file of every slot or of none.
Init ==
  /\ version \in Versions
  /\ key \in IF version = 0 THEN {None} ELSE {None, 1}
  /\ \E secret \in {None, OldSecret} : legacy = [s \in Slots |-> secret]
  /\ \E held \in SUBSET Slots :
       /\ version = 0 => held = {}
       /\ version = 1 => "session" \notin held
       /\ rows = [s \in Slots |->
                    IF s \notin held THEN NoRow
                    ELSE [Row(2, 1, Legacy(s), {}) EXCEPT
                          !.name = IF s = "session" \/ version > 3 THEN CurrentVersion
                                   ELSE IF version = 3 THEN 3 ELSE 2]]
  /\ proc = [p \in Processes |-> Off]
  /\ due = [s \in Slots |-> IF Held(s) /\ rows[s].key = key THEN rows[s].secret ELSE legacy[s]]
  /\ made = 0 /\ opens = 0 /\ puts = 0
  /\ mishaps = {}

-----------------------------------------------------------------------------
At(p, at) == proc[p].at = at
Goes(p, at) == proc' = [proc EXCEPT ![p].at = at]
Ends(p) == proc' = [proc EXCEPT ![p] = Off]
Unless(condition, mishap) ==
  mishaps' = IF condition THEN mishaps ELSE mishaps \cup {mishap}

-----------------------------------------------------------------------------
\* The key file

Open(p) ==
  /\ At(p, "off")
  /\ opens < MaxOpens /\ opens' = opens + 1
  /\ Goes(p, "key")
  /\ UNCHANGED <<disk, due, made, puts, mishaps>>

ReadKey(p) ==
  /\ At(p, "key") /\ key # None
  /\ proc' = [proc EXCEPT ![p].at = "version", ![p].key = key]
  /\ UNCHANGED <<disk, due, made, opens, puts, mishaps>>

\* Nobody has made the key: this process makes one, in a file of its own at first.
MakeKey(p) ==
  /\ At(p, "key") /\ key = None
  /\ "twoKeys" \in Mishaps \/ \A q \in Processes : ~At(q, "place")
  /\ made < MaxOpens /\ made' = made + 1
  /\ proc' = [proc EXCEPT ![p].at = "place", ![p].key = Fresh]
  /\ UNCHANGED <<disk, due, opens, puts, mishaps>>

\* The rename takes the place of a key another process has made meanwhile.
PlaceKey(p) ==
  /\ At(p, "place")
  /\ key' = proc[p].key
  /\ Goes(p, "version")
  /\ Unless(key = None, "twoKeys")
  /\ UNCHANGED <<version, rows, legacy, due, made, opens, puts>>

-----------------------------------------------------------------------------
\* Schema migrations: the version is read once, then each newer one is applied.

ReadVersion(p) ==
  /\ At(p, "version")
  /\ proc' = [proc EXCEPT ![p].at = "migrate", ![p].seen = version]
  /\ UNCHANGED <<disk, due, made, opens, puts, mishaps>>

\* The tables of versions 1 and 2, of which another process may have made one already.
Creates(v) == v \in {1, 2}
TableExists(v) == version >= v

\* Mutant: version 4 moves the rows of the first name only.
RenamedFromFirst(v) ==
  IF Creates(v) THEN rows
  ELSE [s \in Slots |-> IF Held(s) /\ rows[s].name = 2
                        THEN [rows[s] EXCEPT !.name = v] ELSE rows[s]]

\* Versions 3 and 4 move the rows of the network from its old name to the next.
Renamed(v) ==
  IF Creates(v) THEN rows
  ELSE [s \in Slots |-> IF Held(s) /\ rows[s].name = v - 1
                        THEN [rows[s] EXCEPT !.name = v] ELSE rows[s]]

Migrate(p) ==
  /\ At(p, "migrate") /\ proc[p].seen < CurrentVersion
  /\ LET v == proc[p].seen + 1
     IN  IF Creates(v) /\ TableExists(v)
         THEN Ends(p) /\ UNCHANGED <<version, rows>>
         ELSE /\ version' = v
              /\ rows' = Renamed(v)
              /\ proc' = [proc EXCEPT ![p].seen = v]
  /\ UNCHANGED <<key, legacy, due, made, opens, puts, mishaps>>

\* A store newer than this CLI is refused.
Migrated(p) ==
  /\ At(p, "migrate") /\ proc[p].seen >= CurrentVersion
  /\ IF version > CurrentVersion THEN Ends(p) ELSE Goes(p, "look")
  /\ UNCHANGED <<disk, due, made, opens, puts, mishaps>>

-----------------------------------------------------------------------------
\* The import of legacy files, slot by slot

After(s) == CASE s = "admin" -> "agent" [] s = "agent" -> "session" [] OTHER -> "done"

\* On to the slot given, or to the command once there is none left.
Proceeds(p, s) ==
  proc' = [proc EXCEPT ![p].slot = IF s = "done" THEN "admin" ELSE s,
                       ![p].at = IF s = "done" THEN "ready" ELSE "look",
                       ![p].read = None]

\* A slot that has its row is skipped; one that cannot be decrypted ends the import for
\* the network, which leaves the session; of the session only its being there is asked.
Look(p) ==
  /\ At(p, "look")
  /\ LET s == proc[p].slot
     IN  IF ~Held(s) THEN Goes(p, "read")
         ELSE Proceeds(p, IF s # "session" /\ ~Readable(s, proc[p].key) THEN "session" ELSE After(s))
  /\ UNCHANGED <<disk, due, made, opens, puts, mishaps>>

\* Mutant: the file is removed as soon as it is read.
TakeLegacy(p) ==
  /\ At(p, "read")
  /\ LET s == proc[p].slot
     IN  IF legacy[s] = None THEN Proceeds(p, After(s)) /\ UNCHANGED legacy
         ELSE /\ proc' = [proc EXCEPT ![p].at = "put", ![p].read = legacy[s]]
              /\ legacy' = [legacy EXCEPT ![s] = None]
  /\ UNCHANGED <<key, version, rows, due, made, opens, puts, mishaps>>

ReadLegacy(p) ==
  /\ At(p, "read")
  /\ LET s == proc[p].slot
     IN  IF legacy[s] = None THEN Proceeds(p, After(s))
         ELSE proc' = [proc EXCEPT ![p].at = "put", ![p].read = legacy[s]]
  /\ UNCHANGED <<disk, due, made, opens, puts, mishaps>>

\* INSERT ... ON CONFLICT DO UPDATE sets every column.
Upsert(s, row) == [rows EXCEPT ![s] = row]

\* The import of the file that was read; "overtaken" when the slot has been stored or deleted since the look at it.
Import(p) ==
  /\ At(p, "put")
  /\ rows' = Upsert(proc[p].slot, Row(proc[p].read, proc[p].key, Legacy(proc[p].slot), {}))
  /\ Goes(p, "unlink")
  /\ Unless(due[proc[p].slot] = proc[p].read, "overtaken")
  /\ UNCHANGED <<key, version, legacy, due, made, opens, puts>>

\* The file goes only after its secret is stored.
Unlink(p) ==
  /\ At(p, "unlink")
  /\ legacy' = [legacy EXCEPT ![proc[p].slot] = None]
  /\ Proceeds(p, After(proc[p].slot))
  /\ UNCHANGED <<key, version, rows, due, made, opens, puts, mishaps>>

-----------------------------------------------------------------------------
\* Commands

\* validateInput lets through only what the kind may carry.
Put(p, s) ==
  /\ At(p, "ready")
  /\ puts < MaxPuts /\ puts' = puts + 1
  /\ \E kind \in Kinds(s), columns \in SUBSET Columns :
       /\ Valid(kind, columns)
       /\ rows' = Upsert(s, Row(3 + puts, proc[p].key, kind, columns))
  /\ due' = [due EXCEPT ![s] = 3 + puts]
  /\ UNCHANGED <<key, version, legacy, proc, made, opens, mishaps>>

\* "leftover" when a legacy file is still there to be imported again.
Delete(p, s) ==
  /\ At(p, "ready") /\ Held(s)
  /\ rows' = [rows EXCEPT ![s] = NoRow]
  /\ due' = [due EXCEPT ![s] = None]
  /\ Unless(legacy[s] = None, "leftover")
  /\ UNCHANGED <<key, version, legacy, proc, made, opens, puts>>

\* A read that decrypts, or finds nothing, changes nothing.
GetUnreadable(p, s) ==
  /\ At(p, "ready") /\ Held(s) /\ ~Readable(s, proc[p].key)
  /\ Goes(p, "select")
  /\ UNCHANGED <<disk, due, made, opens, puts, mishaps>>

Close(p) ==
  /\ At(p, "ready")
  /\ Ends(p)
  /\ UNCHANGED <<disk, due, made, opens, puts, mishaps>>

-----------------------------------------------------------------------------
\* The purge: in each table the rows that do not decrypt are selected, then deleted one by
\* one.  It ends with an error, and the process with it.

\* Mutant: the session is not swept.
SweepsTokens(p, s) ==
  IF s \in {"session", "done"} THEN Ends(p)
  ELSE proc' = [proc EXCEPT ![p].at = "select", ![p].slot = s]

Sweeps(p, s) ==
  IF s = "done" THEN Ends(p) ELSE proc' = [proc EXCEPT ![p].at = "select", ![p].slot = s]

Select(p) ==
  /\ At(p, "select")
  /\ LET s == proc[p].slot
     IN  IF Held(s) /\ ~Readable(s, proc[p].key) THEN Goes(p, "drop") ELSE Sweeps(p, After(s))
  /\ UNCHANGED <<disk, due, made, opens, puts, mishaps>>

\* "swept" when it is a row that the key on disk decrypts.
Drop(p) ==
  /\ At(p, "drop")
  /\ rows' = [rows EXCEPT ![proc[p].slot] = NoRow]
  /\ Sweeps(p, After(proc[p].slot))
  /\ Unless(~Held(proc[p].slot) \/ ~Readable(proc[p].slot, key), "swept")
  /\ UNCHANGED <<key, version, legacy, due, made, opens, puts>>

-----------------------------------------------------------------------------
\* A process is killed; what it has in memory is gone, what it has committed is not.
Die(p) ==
  /\ "death" \in Mishaps
  /\ ~At(p, "off")
  /\ Ends(p)
  /\ UNCHANGED <<disk, due, made, opens, puts, mishaps>>

Opening(p) ==
  \/ ReadKey(p) \/ MakeKey(p) \/ PlaceKey(p)
  \/ ReadVersion(p) \/ Migrate(p) \/ Migrated(p)
  \/ Look(p) \/ ReadLegacy(p) \/ Import(p) \/ Unlink(p)
Purging(p) == Select(p) \/ Drop(p)

Next ==
  \E p \in Processes :
    \/ Open(p) \/ Opening(p) \/ Purging(p)
    \/ (\E s \in Slots : Put(p, s) \/ Delete(p, s) \/ GetUnreadable(p, s))
    \/ Close(p) \/ Die(p)

Spec == Init /\ [][Next]_vars

-----------------------------------------------------------------------------
\* Invariants

RowType == [secret : {None} \cup Secrets, key : {None} \cup Keys, name : 2..CurrentVersion,
            kind : AllKinds, columns : SUBSET Columns]
RowOK(s, row) ==
  row # NoRow => /\ row.secret # None /\ row.key # None
                 /\ row.kind \in Kinds(s) /\ Valid(row.kind, row.columns)
ProcType == [at : Points, key : {None} \cup Keys, seen : 0..5, slot : Slots,
             read : {None, OldSecret}]

\* Every variable holds a value of its declared shape, and no credential carries a column
\* that its kind does not have, of whatever kind the one was that it replaced.
TypeOK ==
  /\ key \in {None} \cup Keys
  /\ version \in 0..5
  /\ rows \in [Slots -> RowType] /\ \A s \in Slots : RowOK(s, rows[s])
  /\ legacy \in [Slots -> {None, OldSecret}]
  /\ proc \in [Processes -> ProcType]
  /\ due \in [Slots -> {None} \cup Secrets]
  /\ made \in 0..MaxOpens /\ opens \in 0..MaxOpens /\ puts \in 0..MaxPuts
  /\ mishaps \subseteq {"twoKeys", "overtaken", "leftover", "swept"}

\* Every slot gives the secret last stored in it, from its row or from the legacy file it
\* was first kept in, and nothing once that was deleted: through migrations, imports and
\* purges of several processes, each of which may die anywhere.  What can break it is
\* named: two first openers that make two keys, an import that has looked before another
\* process stores, a deletion before the legacy file is gone, a purge that has selected
\* before another process stores.
SecretsSurvive == mishaps = {} => \A s \in Slots : Gives(s) = due[s]

\* Whoever uses the store finds all its tables, and every row under the name that the
\* network has now, although the migrations of several openers run over each other and
\* any of them may stop half-way.
ReadyMeansMigrated ==
  \A p \in Processes : proc[p].at \in {"look", "read", "put", "unlink", "ready", "select", "drop"} =>
     /\ \A v \in 1..CurrentVersion : Creates(v) => TableExists(v)
     /\ \A s \in Slots : rows[s].name = CurrentVersion

-----------------------------------------------------------------------------
\* What a step may never do

\* After its one error message a purge leaves a clean store: unless there are two keys, no
\* row is left that the next command could not read.
PurgeCleans ==
  [][\A p \in Processes :
       (Purging(p) /\ proc'[p] = Off /\ "twoKeys" \notin mishaps)
       => \A s \in Slots : rows'[s] # NoRow => rows'[s].key = key]_vars

-----------------------------------------------------------------------------
\* What the comments say and the code does not do

\* "Wipe every row whose ciphertext can no longer be decrypted" (auth-resolver.ts): a
\* purge takes no row that the key on disk decrypts.
PurgeSparesTheReadable ==
  [][\A p \in Processes, s \in Slots :
       (At(p, "drop") /\ Drop(p) /\ Held(s) /\ Readable(s, key)) => rows'[s] = rows[s]]_vars

=============================================================================
