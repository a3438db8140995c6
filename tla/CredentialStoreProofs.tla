----------------------- MODULE CredentialStoreProofs -----------------------
(***************************************************************************)
(* Theorems about CredentialStore, for any number of processes and openings *)
(* and every version the store may have at first: its types, that nobody    *)
(* uses a half-migrated store, that no secret is lost or comes back, and    *)
(* that a purge leaves a store the next command can read.                   *)
(*                                                                          *)
(* ReadyMeansMigrated is not inductive: what a process finds when it starts *)
(* to use the store is what it, or whoever moved the version on before it   *)
(* read it, has migrated.  NamesInv says what each version number and each  *)
(* process's place in the list of migrations warrant.  SecretsSurvive rests *)
(* on SInv: one key, which everybody past the key file holds, and a legacy  *)
(* file removed only when its secret is in a row.                           *)
(***************************************************************************)
EXTENDS CredentialStore, TLAPS

\* Behind the key every process holds one, and what is about to be imported was read.
HandsInv ==
  \A p \in Processes :
    /\ proc[p].at \notin {"off", "key"} => proc[p].key \in Keys
    /\ proc[p].at = "put" => proc[p].read = OldSecret

Tables(v) == version >= IF v < 2 THEN v ELSE 2
Names(v) == \A s \in Slots : (v >= 3 => rows[s].name >= 3) /\ (v >= 4 => rows[s].name = 4)

\* A version number warrants its names; a process in the middle of the migrations, those
\* and the tables of the last one it has seen.
NamesInv ==
  /\ Names(version)
  /\ \A p \in Processes : proc[p].at = "migrate" => Tables(proc[p].seen) /\ Names(proc[p].seen)
  /\ ReadyMeansMigrated

IInv == TypeOK /\ HandsInv /\ NamesInv

-----------------------------------------------------------------------------
\* A row a process writes has the shape of a row.
LEMMA RowFacts ==
  ASSUME NEW s \in Slots, NEW secret \in Secrets, NEW k \in Keys, NEW kind \in Kinds(s),
         NEW columns \in SUBSET Columns, Valid(kind, columns)
  PROVE  /\ Row(secret, k, kind, columns) \in
              RowType
         /\ Row(secret, k, kind, columns).secret # None
         /\ Row(secret, k, kind, columns).key # None
         /\ Row(secret, k, kind, columns).kind = kind
         /\ Row(secret, k, kind, columns).columns = columns
         /\ Row(secret, k, kind, columns).name = 4
  BY StoreAssumption
  DEF RowType, Row, Secrets, Keys, Kinds, AgentKinds, AllKinds, CurrentVersion, None, Slots

\* What a legacy file is imported as is a kind of its slot, and has no columns.
LEMMA LegacyFacts ==
  ASSUME NEW s \in Slots
  PROVE  Legacy(s) \in Kinds(s) /\ Valid(Legacy(s), {})
  BY DEF Legacy, Kinds, AgentKinds, Valid, Slots

\* The empty row.
LEMMA NoRowFacts ==
  /\ NoRow \in RowType
  /\ NoRow.name = 4
  BY DEF RowType, NoRow, AllKinds, CurrentVersion

\* Where a walk over the slots goes next.
LEMMA AfterFacts ==
  ASSUME NEW s \in Slots
  PROVE  After(s) \in Slots \cup {"done"}
  BY DEF After, Slots

LEMMA InitFacts == Init => IInv
  <1> SUFFICES ASSUME Init PROVE IInv
    OBVIOUS
  <1> USE StoreAssumption
  <1>1. version \in 0..5 /\ key \in {None, 1} /\ 1 \in Keys /\ 2 \in Secrets /\ 1 \in Secrets
    BY DEF Init, Keys, Secrets
  <1>2. PICK held \in SUBSET Slots :
          /\ version = 0 => held = {}
          /\ rows = [s \in Slots |->
                       IF s \notin held THEN NoRow
                       ELSE [Row(2, 1, Legacy(s), {}) EXCEPT
                             !.name = IF s = "session" \/ version > 3 THEN CurrentVersion
                                      ELSE IF version = 3 THEN 3 ELSE 2]]
    BY DEF Init
  <1>3. ASSUME NEW s \in Slots, s \in held
        PROVE  /\ rows[s] \in RowType
               /\ rows[s].secret # None /\ rows[s].key # None
               /\ rows[s].kind \in Kinds(s) /\ Valid(rows[s].kind, rows[s].columns)
               /\ version >= 3 => rows[s].name >= 3
               /\ version >= 4 => rows[s].name = 4
    <2>1. /\ Row(2, 1, Legacy(s), {}).kind = Legacy(s) /\ Row(2, 1, Legacy(s), {}).columns = {}
      BY DEF Row
    <2>2. rows[s].kind = Legacy(s) /\ rows[s].columns = {}
      BY <1>2, <1>3, <2>1 DEF Row
    <2>3. rows[s].secret = 2 /\ rows[s].key = 1
      BY <1>2, <1>3 DEF Row
    <2>4. rows[s].name = IF s = "session" \/ version > 3 THEN 4 ELSE IF version = 3 THEN 3 ELSE 2
      BY <1>2, <1>3 DEF Row, CurrentVersion
    <2>5. Legacy(s) \in AllKinds
      BY LegacyFacts DEF AllKinds, Kinds, AgentKinds
    <2>6. rows[s] = [secret |-> 2, key |-> 1, name |-> rows[s].name, kind |-> Legacy(s), columns |-> {}]
      BY <1>2, <1>3 DEF Row
    <2>7. QED
      BY <1>1, <2>2, <2>3, <2>4, <2>5, <2>6, LegacyFacts DEF RowType, None, CurrentVersion
  <1>4. \A s \in Slots : s \notin held => rows[s] = NoRow
    BY <1>2
  <1>5. TypeOK
    <2>1. rows \in [Slots -> RowType]
      <3>1. DOMAIN rows = Slots /\ rows = [s \in Slots |-> rows[s]]
        BY <1>2
      <3>2. \A s \in Slots : rows[s] \in RowType
        BY <1>3, <1>4, NoRowFacts
      <3>3. QED
        BY <3>1, <3>2
    <2>2. \A s \in Slots : RowOK(s, rows[s])
      BY <1>3, <1>4 DEF RowOK
    <2>3. legacy \in [Slots -> {None, OldSecret}]
      BY DEF Init
    <2>4. proc \in [Processes -> ProcType]
      BY DEF Init, Off, ProcType, Points, Slots, None
    <2>5. due \in [Slots -> {None} \cup Secrets]
      <3>1. \A s \in Slots : rows[s].secret \in {None} \cup Secrets
        BY <2>1 DEF RowType
      <3>2. \A s \in Slots : legacy[s] \in {None} \cup Secrets
        BY <1>1, <2>3 DEF OldSecret
      <3>3. QED
        BY <3>1, <3>2 DEF Init
    <2>6. QED
      BY <1>1, <2>1, <2>2, <2>3, <2>4, <2>5 DEF TypeOK, Init
  <1>6. \A p \in Processes : proc[p].at = "off"
    BY DEF Init, Off
  <1>7. HandsInv
    BY <1>6 DEF HandsInv
  <1>8. NamesInv
    <2>1. Names(version)
      BY <1>1, <1>3, <1>4, NoRowFacts DEF Names
    <2>2. QED
      BY <1>6, <2>1 DEF NamesInv, ReadyMeansMigrated
  <1>9. QED
    BY <1>5, <1>7, <1>8 DEF IInv

-----------------------------------------------------------------------------
\* How a step changes the rows: one slot gets a row or loses it, or all are renamed.
LEMMA RowsAreRows ==
  ASSUME rows \in [Slots -> RowType], \A s \in Slots : RowOK(s, rows[s]),
         NEW t \in Slots, NEW row \in RowType, RowOK(t, row), rows' = [rows EXCEPT ![t] = row]
  PROVE  rows' \in [Slots -> RowType] /\ \A s \in Slots : RowOK(s, rows'[s])
  BY DEF RowOK

LEMMA RenamedRows ==
  ASSUME rows \in [Slots -> RowType], \A s \in Slots : RowOK(s, rows[s]),
         NEW v \in 1..4, rows' = Renamed(v)
  PROVE  /\ rows' \in [Slots -> RowType]
         /\ \A s \in Slots : RowOK(s, rows'[s])
         /\ \A s \in Slots : rows'[s].name = IF v >= 3 /\ rows[s].name = v - 1 /\ Held(s)
                                            THEN v ELSE rows[s].name
  <1>1. CASE Creates(v)
    BY <1>1 DEF Renamed, Creates
  <1>2. CASE ~Creates(v)
    <2>1. v \in {3, 4}
      BY <1>2 DEF Creates
    <2>2. ASSUME NEW s \in Slots
          PROVE  /\ rows'[s] \in RowType /\ RowOK(s, rows'[s])
                 /\ rows'[s].name = IF v >= 3 /\ rows[s].name = v - 1 /\ Held(s)
                                    THEN v ELSE rows[s].name
      <3>1. rows'[s] = IF Held(s) /\ rows[s].name = v - 1 THEN [rows[s] EXCEPT !.name = v] ELSE rows[s]
        BY <1>2 DEF Renamed
      <3>2. RowOK(s, rows[s]) /\ rows[s] \in RowType
        OBVIOUS
      <3>3. CASE Held(s) /\ rows[s].name = v - 1
        <4>1. rows'[s] = [rows[s] EXCEPT !.name = v]
          BY <3>1, <3>3
        <4>2. /\ rows'[s] \in RowType /\ rows'[s].name = v
              /\ rows'[s].secret = rows[s].secret /\ rows'[s].key = rows[s].key
              /\ rows'[s].kind = rows[s].kind /\ rows'[s].columns = rows[s].columns
          BY <2>1, <3>2, <4>1 DEF RowType, CurrentVersion
        <4>3. QED
          BY <2>1, <3>2, <3>3, <4>2 DEF RowOK, Held
      <3>4. CASE ~(Held(s) /\ rows[s].name = v - 1)
        BY <3>1, <3>2, <3>4
      <3>5. QED
        BY <3>3, <3>4
    <2>3. rows' \in [Slots -> RowType]
      <3>1. rows' = [s \in Slots |-> rows'[s]]
        BY <1>2 DEF Renamed
      <3>2. QED
        BY <2>2, <3>1
    <2>4. QED
      BY <2>2, <2>3
  <1>3. QED
    BY <1>1, <1>2

-----------------------------------------------------------------------------
\* The process that steps, if the others keep where they are: what NamesInv and HandsInv
\* ask is asked of it alone, as long as the store warrants no less than before.
Using == {"look", "read", "put", "unlink", "ready", "select", "drop"}
Keep == \A v \in 0..5 : (Tables(v) => Tables(v)') /\ (Names(v) => Names(v)')
Others(p) == \A q \in Processes \ {p} : proc'[q] = proc[q]

LEMMA OneMoves ==
  ASSUME TypeOK, HandsInv, NamesInv, NEW p \in Processes, Others(p), Keep, Names(version)',
         version' \in 0..5,
         proc'[p].at \notin {"off", "key"} => proc'[p].key \in Keys,
         proc'[p].at = "put" => proc'[p].read = OldSecret,
         proc'[p].at = "migrate" => Tables(proc[p].seen)' /\ Names(proc[p].seen)',
         proc'[p].at \in Using => Tables(2)' /\ Names(4)'
  PROVE  HandsInv' /\ NamesInv'
  <1>1. HandsInv'
    BY DEF HandsInv, Others
  <1>2. ASSUME NEW q \in Processes, proc'[q].at = "migrate"
        PROVE  Tables(proc[q].seen)' /\ Names(proc[q].seen)'
    <2>1. CASE q = p
      BY <1>2, <2>1
    <2>2. CASE q # p
      <3>1. proc'[q] = proc[q] /\ proc[q].seen \in 0..5
        BY <2>2 DEF Others, TypeOK, ProcType
      <3>2. PICK v \in 0..5 : v = proc[q].seen
        BY <3>1
      <3>3. Tables(v) /\ Names(v)
        BY <1>2, <3>1, <3>2 DEF NamesInv
      <3>4. Tables(v)' /\ Names(v)'
        BY <3>3 DEF Keep
      <3>5. QED
        BY <3>1, <3>2, <3>4 DEF Tables, Names
    <2>3. QED
      BY <2>1, <2>2
  <1>3. ASSUME NEW q \in Processes, proc'[q].at \in Using
        PROVE  Tables(2)' /\ Names(4)'
    <2>1. CASE q = p
      BY <1>3, <2>1
    <2>2. CASE q # p
      <3>1. proc[q].at \in Using
        BY <1>3, <2>2 DEF Others
      <3>2. version >= 2 /\ \A s \in Slots : rows[s].name = 4
        BY <3>1 DEF Using, NamesInv, ReadyMeansMigrated, TableExists, Creates, CurrentVersion
      <3>3. Tables(2) /\ Names(4)
        BY <3>2 DEF Tables, Names
      <3>4. QED
        BY <3>3 DEF Keep
    <2>3. QED
      BY <2>1, <2>2
  <1>4. ReadyMeansMigrated'
    <2>1. ASSUME NEW q \in Processes, proc'[q].at \in Using
          PROVE  version' >= 2 /\ \A s \in Slots : rows'[s].name = 4
      BY <1>3, <2>1 DEF Tables, Names
    <2>2. QED
      BY <2>1 DEF ReadyMeansMigrated, TableExists, Creates, CurrentVersion, Using
  <1>5. QED
    BY <1>1, <1>2, <1>4 DEF NamesInv

\* The store keeps its warrants while neither version nor names change, or only for a row
\* of the current name.
LEMMA SameStore ==
  ASSUME NamesInv, UNCHANGED <<version, rows>>
  PROVE  Keep /\ Names(version)'
  BY DEF Keep, Tables, Names, NamesInv

LEMMA OneRow ==
  ASSUME TypeOK, NamesInv, UNCHANGED version,
         NEW t \in Slots, NEW row, row.name = 4, rows' = [rows EXCEPT ![t] = row]
  PROVE  Keep /\ Names(version)'
  <1>1. \A s \in Slots : rows'[s].name = rows[s].name \/ rows'[s].name = 4
    BY DEF TypeOK
  <1>2. QED
    BY <1>1 DEF Keep, Tables, Names, NamesInv
-----------------------------------------------------------------------------
\* Slots, points and records of a process that moves on.
LEMMA MoveTypes ==
  ASSUME TypeOK, NEW p \in Processes,
         NEW r \in ProcType, proc' = [proc EXCEPT ![p] = r]
  PROVE  /\ proc' \in [Processes -> ProcType] /\ Others(p) /\ proc'[p] = r
  BY DEF TypeOK, Others

\* A step that leaves the rows alone, by the places it may come from and go to: it neither
\* starts to import nor comes to use the store, unless it uses it already.
LEMMA QuietMove ==
  ASSUME TypeOK, HandsInv, NamesInv, NEW p \in Processes, UNCHANGED <<version, rows>>,
         NEW r \in ProcType, proc' = [proc EXCEPT ![p] = r],
         r.at \notin {"off", "key"} => r.key \in Keys,
         r.at = "put" => r.read = OldSecret,
         r.at = "migrate" => r.seen = version \/ (proc[p].at = "migrate" /\ r.seen = proc[p].seen),
         r.at \in Using => proc[p].at \in Using \/ (proc[p].at = "migrate" /\ proc[p].seen >= 4)
  PROVE  proc' \in [Processes -> ProcType] /\ HandsInv' /\ NamesInv'
  <1>1. proc' \in [Processes -> ProcType] /\ Others(p) /\ proc'[p] = r
    BY MoveTypes
  <1>2. Keep /\ Names(version)'
    BY SameStore
  <1>3. version' = version /\ version \in 0..5 /\ rows' = rows /\ Names(version)
    BY DEF TypeOK, NamesInv
  <1>4. r.at = "migrate" => Tables(proc[p].seen)' /\ Names(proc[p].seen)'
    <2>1. CASE r.seen = version
      BY <1>1, <1>3, <2>1 DEF Tables, Names
    <2>2. CASE proc[p].at = "migrate" /\ r.seen = proc[p].seen
      BY <1>1, <1>3, <2>2 DEF Tables, Names, NamesInv
    <2>3. QED
      BY <2>1, <2>2
  <1>5. r.at \in Using => Tables(2)' /\ Names(4)'
    <2>1. CASE proc[p].at \in Using
      BY <1>3, <2>1
      DEF Tables, Names, Using, NamesInv, ReadyMeansMigrated, TableExists, Creates, CurrentVersion
    <2>2. CASE proc[p].at = "migrate" /\ proc[p].seen >= 4
      <3>1. proc[p].seen \in 0..5 /\ Tables(proc[p].seen) /\ Names(proc[p].seen)
        BY <2>2 DEF NamesInv, TypeOK, ProcType
      <3>2. QED
        BY <1>3, <2>2, <3>1 DEF Tables, Names
    <2>3. QED
      BY <2>1, <2>2
  <1>6. QED
    BY <1>1, <1>2, <1>3, <1>4, <1>5, OneMoves

\* The same for a step that writes or removes one row.
LEMMA RowMove ==
  ASSUME TypeOK, HandsInv, NamesInv, NEW p \in Processes, UNCHANGED version,
         NEW t \in Slots, NEW row \in RowType, RowOK(t, row), row.name = 4,
         rows' = [rows EXCEPT ![t] = row],
         NEW r \in ProcType, proc' = [proc EXCEPT ![p] = r],
         proc[p].at \in Using, r.at \in Using \cup {"off"},
         r.at # "off" => r.key \in Keys,
         r.at = "put" => r.read = OldSecret
  PROVE  /\ proc' \in [Processes -> ProcType] /\ HandsInv' /\ NamesInv'
         /\ rows' \in [Slots -> RowType] /\ \A s \in Slots : RowOK(s, rows'[s])
  <1>1. proc' \in [Processes -> ProcType] /\ Others(p) /\ proc'[p] = r
    BY MoveTypes
  <1>2. Keep /\ Names(version)'
    BY OneRow
  <1>3. rows' \in [Slots -> RowType] /\ \A s \in Slots : RowOK(s, rows'[s])
    BY RowsAreRows DEF TypeOK
  <1>4. Tables(2)' /\ Names(4)'
    <2>1. Tables(2) /\ Names(4)
      BY DEF Tables, Names, Using, NamesInv, ReadyMeansMigrated, TableExists, Creates, CurrentVersion
    <2>2. QED
      BY <1>2, <2>1 DEF Keep
  <1>5. r.at # "migrate" /\ version' \in 0..5
    BY DEF Using, TypeOK
  <1>6. HandsInv' /\ NamesInv'
    BY <1>1, <1>2, <1>4, <1>5, OneMoves
  <1>7. QED
    BY <1>1, <1>3, <1>6

\* Where a walk over the slots leaves its process.
LEMMA WalkFacts ==
  ASSUME NEW p \in Processes, proc[p] \in ProcType, NEW s \in Slots \cup {"done"}, Proceeds(p, s)
  PROVE  \E r \in ProcType :
           /\ proc' = [proc EXCEPT ![p] = r]
           /\ r.key = proc[p].key /\ r.at \in {"look", "ready"}
  <1>1. PICK r : r = [proc[p] EXCEPT !.slot = IF s = "done" THEN "admin" ELSE s,
                                     !.at = IF s = "done" THEN "ready" ELSE "look",
                                     !.read = None]
    OBVIOUS
  <1>2. r \in ProcType /\ r.key = proc[p].key /\ r.at \in {"look", "ready"}
    BY <1>1 DEF ProcType, Points, Slots, None
  <1>3. proc' = [proc EXCEPT ![p] = r]
    BY <1>1 DEF Proceeds
  <1>4. QED
    BY <1>2, <1>3

\* And a purge.
LEMMA SweepFacts ==
  ASSUME NEW p \in Processes, proc[p] \in ProcType, NEW s \in Slots \cup {"done"}, Sweeps(p, s)
  PROVE  \E r \in ProcType :
           /\ proc' = [proc EXCEPT ![p] = r]
           /\ r.at = "off" \/ (r.at = "select" /\ r.key = proc[p].key)
  <1>1. CASE s = "done"
    <2>1. Off \in ProcType /\ Off.at = "off"
      BY DEF Off, ProcType, Points, Slots, None
    <2>2. proc' = [proc EXCEPT ![p] = Off]
      BY <1>1 DEF Sweeps, Ends
    <2>3. QED
      BY <2>1, <2>2
  <1>2. CASE s # "done"
    <2>1. PICK r : r = [proc[p] EXCEPT !.at = "select", !.slot = s]
      OBVIOUS
    <2>2. r \in ProcType /\ r.at = "select" /\ r.key = proc[p].key
      BY <1>2, <2>1 DEF ProcType, Points, Slots
    <2>3. proc' = [proc EXCEPT ![p] = r]
      BY <1>2, <2>1 DEF Sweeps
    <2>4. QED
      BY <2>2, <2>3
  <1>3. QED
    BY <1>1, <1>2

\* Ending, and going to another place.
LEMMA GoFacts ==
  ASSUME NEW p \in Processes, proc[p] \in ProcType
  PROVE  /\ Ends(p) => \E r \in ProcType : proc' = [proc EXCEPT ![p] = r] /\ r.at = "off"
         /\ \A at \in Points : Goes(p, at) =>
              \E r \in ProcType : /\ proc' = [proc EXCEPT ![p] = r] /\ r.at = at
                                  /\ r.key = proc[p].key /\ r.read = proc[p].read
                                  /\ r.seen = proc[p].seen
  <1>1. Off \in ProcType /\ Off.at = "off"
    BY DEF Off, ProcType, Points, Slots, None
  <1>2. ASSUME NEW at \in Points, Goes(p, at)
        PROVE  \E r \in ProcType : /\ proc' = [proc EXCEPT ![p] = r] /\ r.at = at
                                   /\ r.key = proc[p].key /\ r.read = proc[p].read
                                   /\ r.seen = proc[p].seen
    <2>1. PICK r : r = [proc[p] EXCEPT !.at = at]
      OBVIOUS
    <2>2. r \in ProcType /\ r.at = at /\ r.key = proc[p].key /\ r.read = proc[p].read
          /\ r.seen = proc[p].seen
      BY <2>1 DEF ProcType
    <2>3. proc' = [proc EXCEPT ![p] = r]
      BY <1>2, <2>1 DEF Goes
    <2>4. QED
      BY <2>2, <2>3
  <1>3. ASSUME Ends(p) PROVE \E r \in ProcType : proc' = [proc EXCEPT ![p] = r] /\ r.at = "off"
    <2>1. proc' = [proc EXCEPT ![p] = Off]
      BY <1>3 DEF Ends
    <2>2. QED
      BY <1>1, <2>1
  <1>4. QED
    BY <1>2, <1>3

-----------------------------------------------------------------------------
LEMMA OpeningSteps ==
  ASSUME IInv, NEW p \in Processes,
         Open(p) \/ ReadKey(p) \/ MakeKey(p) \/ PlaceKey(p) \/ ReadVersion(p) \/ Migrated(p)
  PROVE  IInv'
  <1> USE DEF IInv
  <1>0. proc[p] \in ProcType
    BY DEF TypeOK
  <1>1. CASE Open(p)
    <2>1. PICK r \in ProcType : proc' = [proc EXCEPT ![p] = r] /\ r.at = "key"
      BY <1>0, <1>1, GoFacts DEF Open, Points
    <2>2. UNCHANGED <<version, rows>>
      BY <1>1 DEF Open, disk
    <2>3. proc' \in [Processes -> ProcType] /\ HandsInv' /\ NamesInv'
      BY <2>1, <2>2, QuietMove DEF Using
    <2>4. QED
      BY <1>1, <2>3, StoreAssumption DEF Open, TypeOK, disk
  <1>2. CASE ReadKey(p)
    <2>1. PICK r \in ProcType : proc' = [proc EXCEPT ![p] = r] /\ r.at = "version" /\ r.key = key
      <3>1. [proc[p] EXCEPT !.at = "version", !.key = key] \in ProcType
        BY <1>0 DEF TypeOK, ProcType, Points
      <3>2. QED
        BY <1>0, <1>2, <3>1 DEF ReadKey, ProcType
    <2>2. UNCHANGED <<version, rows>> /\ key \in Keys
      BY <1>2 DEF ReadKey, disk, TypeOK
    <2>3. proc' \in [Processes -> ProcType] /\ HandsInv' /\ NamesInv'
      BY <2>1, <2>2, QuietMove DEF Using
    <2>4. QED
      BY <1>2, <2>3 DEF ReadKey, TypeOK, disk
  <1>3. CASE MakeKey(p)
    <2>1. Fresh \in Keys
      BY <1>3, StoreAssumption DEF MakeKey, Fresh, Keys, TypeOK
    <2>2. PICK r \in ProcType : proc' = [proc EXCEPT ![p] = r] /\ r.at = "place" /\ r.key = Fresh
      <3>1. [proc[p] EXCEPT !.at = "place", !.key = Fresh] \in ProcType
        BY <1>0, <2>1 DEF ProcType, Points
      <3>2. QED
        BY <1>0, <1>3, <3>1 DEF MakeKey, ProcType
    <2>3. UNCHANGED <<version, rows>>
      BY <1>3 DEF MakeKey, disk
    <2>4. proc' \in [Processes -> ProcType] /\ HandsInv' /\ NamesInv'
      BY <2>1, <2>2, <2>3, QuietMove DEF Using
    <2>5. made' \in 0..MaxOpens
      BY <1>3, StoreAssumption DEF MakeKey, TypeOK
    <2>6. QED
      BY <1>3, <2>4, <2>5 DEF MakeKey, TypeOK, disk
  <1>4. CASE PlaceKey(p)
    <2>1. PICK r \in ProcType : /\ proc' = [proc EXCEPT ![p] = r] /\ r.at = "version"
                                /\ r.key = proc[p].key
      BY <1>0, <1>4, GoFacts DEF PlaceKey, Points
    <2>2. UNCHANGED <<version, rows>> /\ proc[p].key \in Keys
      BY <1>4 DEF PlaceKey, At, HandsInv
    <2>3. proc' \in [Processes -> ProcType] /\ HandsInv' /\ NamesInv'
      BY <2>1, <2>2, QuietMove DEF Using
    <2>4. mishaps' \subseteq {"twoKeys", "overtaken", "leftover", "swept"}
      BY <1>4 DEF PlaceKey, Unless, TypeOK
    <2>5. QED
      BY <1>4, <2>2, <2>3, <2>4 DEF PlaceKey, TypeOK
  <1>5. CASE ReadVersion(p)
    <2>1. PICK r \in ProcType : /\ proc' = [proc EXCEPT ![p] = r] /\ r.at = "migrate"
                                /\ r.key = proc[p].key /\ r.seen = version
      <3>1. [proc[p] EXCEPT !.at = "migrate", !.seen = version] \in ProcType
        BY <1>0 DEF TypeOK, ProcType, Points
      <3>2. QED
        BY <1>0, <1>5, <3>1 DEF ReadVersion, ProcType
    <2>2. UNCHANGED <<version, rows>> /\ proc[p].key \in Keys
      BY <1>5 DEF ReadVersion, disk, At, HandsInv
    <2>3. proc' \in [Processes -> ProcType] /\ HandsInv' /\ NamesInv'
      BY <2>1, <2>2, QuietMove DEF Using
    <2>4. QED
      BY <1>5, <2>3 DEF ReadVersion, TypeOK, disk
  <1>6. CASE Migrated(p)
    <2>1. PICK r \in ProcType : /\ proc' = [proc EXCEPT ![p] = r]
                                /\ r.at = "off" \/ (r.at = "look" /\ r.key = proc[p].key)
      BY <1>0, <1>6, GoFacts DEF Migrated, Points
    <2>2. /\ UNCHANGED <<version, rows>> /\ proc[p].key \in Keys
          /\ proc[p].at = "migrate" /\ proc[p].seen >= 4
      BY <1>6 DEF Migrated, disk, At, HandsInv, CurrentVersion
    <2>3. proc' \in [Processes -> ProcType] /\ HandsInv' /\ NamesInv'
      BY <2>1, <2>2, QuietMove DEF Using
    <2>4. QED
      BY <1>6, <2>3 DEF Migrated, TypeOK, disk
  <1>7. QED
    BY <1>1, <1>2, <1>3, <1>4, <1>5, <1>6

-----------------------------------------------------------------------------
\* A migration: the store warrants what the new version number does, the names only go
\* forward, and no warrant of an earlier version is lost.
LEMMA MigrateStep ==
  ASSUME IInv, NEW p \in Processes, Migrate(p)
  PROVE  IInv'
  <1> USE DEF IInv
  <1>0. PICK v \in 1..4 :
          /\ v = proc[p].seen + 1
          /\ proc[p] \in ProcType /\ proc[p].at = "migrate"
          /\ Tables(v - 1) /\ Names(v - 1) /\ proc[p].key \in Keys
    <2>1. proc[p] \in ProcType /\ proc[p].at = "migrate"
      BY DEF TypeOK, Migrate, At
    <2>2. proc[p].seen \in 0..5 /\ proc[p].seen < 4
      BY <2>1 DEF ProcType, Migrate, CurrentVersion
    <2>3. PICK v \in 1..4 : v = proc[p].seen + 1
      BY <2>2
    <2>4. v - 1 = proc[p].seen
      BY <2>2, <2>3
    <2>5. Tables(proc[p].seen) /\ Names(proc[p].seen) /\ proc[p].key \in Keys
      BY <2>1 DEF NamesInv, HandsInv
    <2>6. QED
      BY <2>1, <2>3, <2>4, <2>5
  <1>1. CASE Creates(v) /\ TableExists(v)
    <2>1. PICK r \in ProcType : proc' = [proc EXCEPT ![p] = r] /\ r.at = "off"
      BY <1>0, <1>1, GoFacts DEF Migrate
    <2>2. UNCHANGED <<version, rows>>
      BY <1>0, <1>1 DEF Migrate
    <2>3. proc' \in [Processes -> ProcType] /\ HandsInv' /\ NamesInv'
      BY <2>1, <2>2, QuietMove DEF Using
    <2>4. QED
      BY <2>2, <2>3 DEF Migrate, TypeOK
  <1>2. CASE ~(Creates(v) /\ TableExists(v))
    <2>1. version' = v /\ rows' = Renamed(v) /\ proc' = [proc EXCEPT ![p].seen = v]
      BY <1>0, <1>2 DEF Migrate
    <2>2. /\ rows' \in [Slots -> RowType]
          /\ \A s \in Slots : RowOK(s, rows'[s])
          /\ \A s \in Slots : rows'[s].name = IF v >= 3 /\ rows[s].name = v - 1 /\ Held(s)
                                             THEN v ELSE rows[s].name
      BY <1>0, <2>1, RenamedRows DEF TypeOK
    <2>3. \A s \in Slots : rows[s].name \in 2..4 /\ (~Held(s) => rows[s].name = 4)
      BY DEF TypeOK, RowType, CurrentVersion, Held, NoRow
    <2>4. Names(v)'
      BY <1>0, <2>2, <2>3 DEF Names
    <2>5. PICK r \in ProcType : /\ proc' = [proc EXCEPT ![p] = r] /\ r.at = "migrate"
                                /\ r.seen = v /\ r.key = proc[p].key
      <3>1. PICK r : r = [proc[p] EXCEPT !.seen = v]
        OBVIOUS
      <3>2. r \in ProcType /\ r.at = "migrate" /\ r.seen = v /\ r.key = proc[p].key
        BY <1>0, <3>1 DEF ProcType
      <3>3. QED
        BY <2>1, <3>1, <3>2
    <2>6. proc' \in [Processes -> ProcType] /\ Others(p) /\ proc'[p] = r
      BY <2>5, MoveTypes
    <2>7. Keep
      <3>1. version \in 0..5
        BY DEF TypeOK
      <3>2. \A w \in 0..5 : Tables(w) => Tables(w)'
        BY <1>0, <1>2, <2>1, <3>1 DEF Tables, Creates, TableExists
      <3>3. \A w \in 0..5 : Names(w) => Names(w)'
        BY <1>0, <2>2, <2>3 DEF Names
      <3>4. QED
        BY <3>2, <3>3 DEF Keep
    <2>8. Tables(v)'
      BY <1>0, <2>1 DEF Tables
    <2>9. HandsInv' /\ NamesInv'
      <3>1. Names(version)' /\ version' \in 0..5
        BY <1>0, <2>1, <2>4 DEF Names
      <3>2. Tables(proc[p].seen)' /\ Names(proc[p].seen)'
        <4>1. proc'[p].seen = v
          BY <2>5, <2>6
        <4>2. QED
          BY <2>4, <2>8, <4>1 DEF Tables, Names
      <3>3. QED
        BY <1>0, <2>5, <2>6, <2>7, <3>1, <3>2, OneMoves DEF Using
    <2>10. QED
      BY <1>0, <2>1, <2>2, <2>6, <2>9 DEF Migrate, TypeOK
  <1>3. QED
    BY <1>1, <1>2

-----------------------------------------------------------------------------
LEMMA ImportSteps ==
  ASSUME IInv, NEW p \in Processes, Look(p) \/ ReadLegacy(p) \/ Import(p) \/ Unlink(p)
  PROVE  IInv'
  <1> USE DEF IInv
  <1>0. /\ proc[p] \in ProcType /\ proc[p].slot \in Slots /\ proc[p].read \in {None, OldSecret}
        /\ proc[p].at \in Using /\ proc[p].key \in Keys
    <2>1. proc[p] \in ProcType
      BY DEF TypeOK
    <2>2. proc[p].at \in {"look", "read", "put", "unlink"}
      BY DEF Look, ReadLegacy, Import, Unlink, At
    <2>3. QED
      BY <2>1, <2>2 DEF ProcType, Using, HandsInv
  <1>1. CASE Look(p)
    <2>1. PICK r \in ProcType : /\ proc' = [proc EXCEPT ![p] = r]
                                /\ r.at \in {"read", "look", "ready"} /\ r.key = proc[p].key
      <3>1. CASE Goes(p, "read")
        BY <1>0, <3>1, GoFacts DEF Points
      <3>2. CASE \E s \in Slots \cup {"done"} : Proceeds(p, s)
        BY <1>0, <3>2, WalkFacts
      <3>3. QED
        BY <1>0, <1>1, <3>1, <3>2, AfterFacts DEF Look, Slots
    <2>2. UNCHANGED <<version, rows>>
      BY <1>1 DEF Look, disk
    <2>3. proc' \in [Processes -> ProcType] /\ HandsInv' /\ NamesInv'
      BY <1>0, <2>1, <2>2, QuietMove
    <2>4. QED
      BY <1>1, <2>3 DEF Look, TypeOK, disk
  <1>2. CASE ReadLegacy(p)
    <2>1. PICK r \in ProcType : /\ proc' = [proc EXCEPT ![p] = r]
                                /\ r.key = proc[p].key
                                /\ r.at \in {"look", "ready"} \/ (r.at = "put" /\ r.read = OldSecret)
      <3>1. CASE legacy[proc[p].slot] = None
        BY <1>0, <1>2, <3>1, WalkFacts, AfterFacts DEF ReadLegacy
      <3>2. CASE legacy[proc[p].slot] # None
        <4>1. legacy[proc[p].slot] = OldSecret
          BY <1>0, <3>2 DEF TypeOK
        <4>2. PICK r : r = [proc[p] EXCEPT !.at = "put", !.read = OldSecret]
          OBVIOUS
        <4>3. r \in ProcType /\ r.at = "put" /\ r.read = OldSecret /\ r.key = proc[p].key
          BY <1>0, <4>2 DEF ProcType, Points
        <4>4. proc' = [proc EXCEPT ![p] = r]
          BY <1>2, <3>2, <4>1, <4>2 DEF ReadLegacy
        <4>5. QED
          BY <4>3, <4>4
      <3>3. QED
        BY <3>1, <3>2
    <2>2. UNCHANGED <<version, rows>>
      BY <1>2 DEF ReadLegacy, disk
    <2>3. proc' \in [Processes -> ProcType] /\ HandsInv' /\ NamesInv'
      BY <1>0, <2>1, <2>2, QuietMove
    <2>4. QED
      BY <1>2, <2>3 DEF ReadLegacy, TypeOK, disk
  <1>3. CASE Import(p)
    <2>1. PICK t \in Slots : t = proc[p].slot
      BY <1>0
    <2>2. PICK row : row = Row(OldSecret, proc[p].key, Legacy(t), {})
      OBVIOUS
    <2>3. OldSecret \in Secrets
      BY StoreAssumption DEF OldSecret, Secrets
    <2>4. row \in RowType /\ RowOK(t, row) /\ row.name = 4
      <3>1. Legacy(t) \in Kinds(t) /\ Valid(Legacy(t), {})
        BY LegacyFacts
      <3>2. row \in RowType /\ row.secret # None /\ row.key # None /\ row.kind = Legacy(t)
            /\ row.columns = {} /\ row.name = 4
        BY <1>0, <2>2, <2>3, <3>1, RowFacts
      <3>3. QED
        BY <3>1, <3>2 DEF RowOK
    <2>5. rows' = [rows EXCEPT ![t] = row] /\ UNCHANGED version
      BY <1>3, <2>1, <2>2 DEF Import, Upsert, At, HandsInv
    <2>6. PICK r \in ProcType : /\ proc' = [proc EXCEPT ![p] = r]
                                /\ r.at = "unlink" /\ r.key = proc[p].key
      BY <1>0, <1>3, GoFacts DEF Import, Points
    <2>7. /\ proc' \in [Processes -> ProcType] /\ HandsInv' /\ NamesInv'
          /\ rows' \in [Slots -> RowType] /\ \A s \in Slots : RowOK(s, rows'[s])
      BY <1>0, <2>4, <2>5, <2>6, RowMove DEF Using
    <2>8. mishaps' \subseteq {"twoKeys", "overtaken", "leftover", "swept"}
      BY <1>3 DEF Import, Unless, TypeOK
    <2>9. QED
      BY <1>3, <2>5, <2>7, <2>8 DEF Import, TypeOK
  <1>4. CASE Unlink(p)
    <2>1. PICK r \in ProcType : /\ proc' = [proc EXCEPT ![p] = r]
                                /\ r.at \in {"look", "ready"} /\ r.key = proc[p].key
      BY <1>0, <1>4, WalkFacts, AfterFacts DEF Unlink
    <2>2. UNCHANGED <<version, rows>>
      BY <1>4 DEF Unlink
    <2>3. proc' \in [Processes -> ProcType] /\ HandsInv' /\ NamesInv'
      BY <1>0, <2>1, <2>2, QuietMove
    <2>4. legacy' \in [Slots -> {None, OldSecret}]
      BY <1>4 DEF Unlink, TypeOK
    <2>5. QED
      BY <1>4, <2>3, <2>4 DEF Unlink, TypeOK
  <1>5. QED
    BY <1>1, <1>2, <1>3, <1>4

-----------------------------------------------------------------------------
LEMMA CommandSteps ==
  ASSUME IInv, NEW p \in Processes, NEW s \in Slots,
         Put(p, s) \/ Delete(p, s) \/ GetUnreadable(p, s) \/ Close(p)
  PROVE  IInv'
  <1> USE DEF IInv
  <1>0. proc[p] \in ProcType /\ proc[p].at = "ready" /\ proc[p].key \in Keys
    <2>1. proc[p] \in ProcType
      BY DEF TypeOK
    <2>2. proc[p].at = "ready"
      BY DEF Put, Delete, GetUnreadable, Close, At
    <2>3. QED
      BY <2>1, <2>2 DEF HandsInv
  <1>1. proc = [proc EXCEPT ![p] = proc[p]]
    BY DEF TypeOK
  <1>2. CASE Put(p, s)
    <2>1. 3 + puts \in Secrets /\ puts' \in 0..MaxPuts
      BY <1>2, StoreAssumption DEF Put, TypeOK, Secrets
    <2>2. PICK kind \in Kinds(s), columns \in SUBSET Columns :
            Valid(kind, columns) /\ rows' = Upsert(s, Row(3 + puts, proc[p].key, kind, columns))
      BY <1>2 DEF Put
    <2>3. PICK row : row = Row(3 + puts, proc[p].key, kind, columns)
      OBVIOUS
    <2>4. row \in RowType /\ RowOK(s, row) /\ row.name = 4
      <3>1. row \in RowType /\ row.secret # None /\ row.key # None /\ row.kind = kind
            /\ row.columns = columns /\ row.name = 4
        BY <1>0, <2>1, <2>2, <2>3, RowFacts
      <3>2. QED
        BY <2>2, <3>1 DEF RowOK
    <2>5. rows' = [rows EXCEPT ![s] = row] /\ UNCHANGED <<version, proc>>
      BY <1>2, <2>2, <2>3 DEF Put, Upsert
    <2>6. PICK r \in ProcType : r = proc[p] /\ proc' = [proc EXCEPT ![p] = r]
      BY <1>0, <1>1, <2>5
    <2>7. /\ proc' \in [Processes -> ProcType] /\ HandsInv' /\ NamesInv'
          /\ rows' \in [Slots -> RowType] /\ \A t \in Slots : RowOK(t, rows'[t])
      BY <1>0, <2>4, <2>5, <2>6, RowMove DEF Using
    <2>8. due' \in [Slots -> {None} \cup Secrets]
      BY <1>2, <2>1 DEF Put, TypeOK
    <2>9. QED
      BY <1>2, <2>1, <2>7, <2>8 DEF Put, TypeOK
  <1>3. CASE Delete(p, s)
    <2>1. rows' = [rows EXCEPT ![s] = NoRow] /\ UNCHANGED <<version, proc>>
      BY <1>3 DEF Delete
    <2>2. NoRow \in RowType /\ NoRow.name = 4 /\ RowOK(s, NoRow)
      BY NoRowFacts DEF RowOK
    <2>3. PICK r \in ProcType : r = proc[p] /\ proc' = [proc EXCEPT ![p] = r]
      BY <1>0, <1>1, <2>1
    <2>4. /\ proc' \in [Processes -> ProcType] /\ HandsInv' /\ NamesInv'
          /\ rows' \in [Slots -> RowType] /\ \A t \in Slots : RowOK(t, rows'[t])
      BY <1>0, <2>1, <2>2, <2>3, RowMove DEF Using
    <2>5. due' \in [Slots -> {None} \cup Secrets]
      BY <1>3 DEF Delete, TypeOK
    <2>6. mishaps' \subseteq {"twoKeys", "overtaken", "leftover", "swept"}
      BY <1>3 DEF Delete, Unless, TypeOK
    <2>7. QED
      BY <1>3, <2>4, <2>5, <2>6 DEF Delete, TypeOK
  <1>4. CASE GetUnreadable(p, s)
    <2>1. PICK r \in ProcType : /\ proc' = [proc EXCEPT ![p] = r]
                                /\ r.at = "select" /\ r.key = proc[p].key
      BY <1>0, <1>4, GoFacts DEF GetUnreadable, Points
    <2>2. UNCHANGED <<version, rows>>
      BY <1>4 DEF GetUnreadable, disk
    <2>3. proc' \in [Processes -> ProcType] /\ HandsInv' /\ NamesInv'
      BY <1>0, <2>1, <2>2, QuietMove DEF Using
    <2>4. QED
      BY <1>4, <2>3 DEF GetUnreadable, TypeOK, disk
  <1>5. CASE Close(p)
    <2>1. PICK r \in ProcType : proc' = [proc EXCEPT ![p] = r] /\ r.at = "off"
      BY <1>0, <1>5, GoFacts DEF Close
    <2>2. UNCHANGED <<version, rows>>
      BY <1>5 DEF Close, disk
    <2>3. proc' \in [Processes -> ProcType] /\ HandsInv' /\ NamesInv'
      BY <2>1, <2>2, QuietMove DEF Using
    <2>4. QED
      BY <1>5, <2>3 DEF Close, TypeOK, disk
  <1>6. QED
    BY <1>2, <1>3, <1>4, <1>5

LEMMA PurgeSteps ==
  ASSUME IInv, NEW p \in Processes, Select(p) \/ Drop(p) \/ Die(p)
  PROVE  IInv'
  <1> USE DEF IInv
  <1>0. proc[p] \in ProcType /\ proc[p].slot \in Slots
    BY DEF TypeOK, ProcType
  <1>1. CASE Select(p)
    <2>1. proc[p].at \in Using /\ proc[p].key \in Keys
      BY <1>1 DEF Select, At, Using, HandsInv
    <2>2. PICK r \in ProcType : /\ proc' = [proc EXCEPT ![p] = r]
                                /\ r.at = "off" \/ (r.at \in {"select", "drop"} /\ r.key = proc[p].key)
      <3>1. CASE Goes(p, "drop")
        BY <1>0, <3>1, GoFacts DEF Points
      <3>2. CASE Sweeps(p, After(proc[p].slot))
        BY <1>0, <3>2, SweepFacts, AfterFacts
      <3>3. QED
        BY <1>1, <3>1, <3>2 DEF Select
    <2>3. UNCHANGED <<version, rows>>
      BY <1>1 DEF Select, disk
    <2>4. proc' \in [Processes -> ProcType] /\ HandsInv' /\ NamesInv'
      BY <2>1, <2>2, <2>3, QuietMove DEF Using
    <2>5. QED
      BY <1>1, <2>4 DEF Select, TypeOK, disk
  <1>2. CASE Drop(p)
    <2>1. proc[p].at \in Using /\ proc[p].key \in Keys
      BY <1>2 DEF Drop, At, Using, HandsInv
    <2>2. PICK r \in ProcType : /\ proc' = [proc EXCEPT ![p] = r]
                                /\ r.at = "off" \/ (r.at = "select" /\ r.key = proc[p].key)
      BY <1>0, <1>2, SweepFacts, AfterFacts DEF Drop
    <2>3. PICK t \in Slots : rows' = [rows EXCEPT ![t] = NoRow] /\ UNCHANGED version
      BY <1>0, <1>2 DEF Drop
    <2>4. NoRow \in RowType /\ NoRow.name = 4 /\ RowOK(t, NoRow)
      BY NoRowFacts DEF RowOK
    <2>5. /\ proc' \in [Processes -> ProcType] /\ HandsInv' /\ NamesInv'
          /\ rows' \in [Slots -> RowType] /\ \A s \in Slots : RowOK(s, rows'[s])
      BY <2>1, <2>2, <2>3, <2>4, RowMove DEF Using
    <2>6. mishaps' \subseteq {"twoKeys", "overtaken", "leftover", "swept"}
      BY <1>2 DEF Drop, Unless, TypeOK
    <2>7. QED
      BY <1>2, <2>3, <2>5, <2>6 DEF Drop, TypeOK
  <1>3. CASE Die(p)
    <2>1. PICK r \in ProcType : proc' = [proc EXCEPT ![p] = r] /\ r.at = "off"
      BY <1>0, <1>3, GoFacts DEF Die
    <2>2. UNCHANGED <<version, rows>>
      BY <1>3 DEF Die, disk
    <2>3. proc' \in [Processes -> ProcType] /\ HandsInv' /\ NamesInv'
      BY <2>1, <2>2, QuietMove DEF Using
    <2>4. QED
      BY <1>3, <2>3 DEF Die, TypeOK, disk
  <1>4. QED
    BY <1>1, <1>2, <1>3

\* Every step keeps the inductive invariant.
LEMMA Step == IInv /\ [Next]_vars => IInv'
  <1> SUFFICES ASSUME IInv, [Next]_vars PROVE IInv'
    OBVIOUS
  <1>1. ASSUME NEW p \in Processes, Open(p) \/ Opening(p)
        PROVE  IInv'
    BY <1>1, OpeningSteps, MigrateStep, ImportSteps DEF Opening
  <1>2. ASSUME NEW p \in Processes, Purging(p) \/ Die(p)
        PROVE  IInv'
    BY <1>2, PurgeSteps DEF Purging
  <1>3. ASSUME NEW p \in Processes,
               (\E s \in Slots : Put(p, s) \/ Delete(p, s) \/ GetUnreadable(p, s)) \/ Close(p)
        PROVE  IInv'
    BY <1>3, CommandSteps DEF Slots
  <1>4. CASE UNCHANGED vars
    BY <1>4 DEF vars, IInv, TypeOK, HandsInv, NamesInv, Names, Tables, ReadyMeansMigrated, TableExists
  <1>5. QED
    BY <1>1, <1>2, <1>3, <1>4 DEF Next

-----------------------------------------------------------------------------
\* The store, the processes and the key keep their shapes, and no credential carries a
\* column that its kind does not have, whatever the row was that it replaced.
THEOREM TypeCorrect == Spec => []TypeOK
  <1>1. IInv => TypeOK
    BY DEF IInv
  <1>2. QED
    BY <1>1, InitFacts, Step, PTL DEF Spec

\* Whoever uses the store finds all its tables, and every row under the name that the
\* network has now, however many openers migrate over each other and wherever they stop.
THEOREM StoresAreMigrated == Spec => []ReadyMeansMigrated
  <1>1. IInv => ReadyMeansMigrated
    BY DEF IInv, NamesInv
  <1>2. QED
    BY <1>1, InitFacts, Step, PTL DEF Spec

-----------------------------------------------------------------------------
\* What the secrets rest on.  Unless two keys were made, there is one key, everybody past
\* the key file holds it, and before it is made there are only rows of a key that is gone.
KeyInv ==
  "twoKeys" \notin mishaps =>
    /\ \A p \in Processes :
         /\ proc[p].at \notin {"off", "key", "place"} => proc[p].key = key /\ key # None
         /\ proc[p].at = "place" => proc[p].key # 1
    /\ key = None => \A s \in Slots : rows[s].key \in {None, 1}

\* A purge that has come to a slot has left the ones before it clean.
Clean(s) == rows[s] # NoRow => rows[s].key = key
Passed(s) == CASE s = "admin" -> {} [] s = "agent" -> {"admin"} [] OTHER -> {"admin", "agent"}
CleanInv ==
  "twoKeys" \notin mishaps =>
    \A p \in Processes :
      /\ proc[p].at = "ready" => proc[p].slot = "admin"
      /\ proc[p].at \in {"select", "drop"} => \A s \in Passed(proc[p].slot) : Clean(s)

\* A legacy file that is about to be removed has its secret in a row, or is gone.
InRow(s) == Held(s) /\ Readable(s, key)
SecretInv ==
  mishaps = {} =>
    /\ \A s \in Slots : Gives(s) = due[s]
    /\ \A p \in Processes : proc[p].at = "unlink" => InRow(proc[p].slot) \/ legacy[proc[p].slot] = None

SInv == KeyInv /\ CleanInv /\ SecretInv

LEMMA SecretInit == Init => SInv
  <1> SUFFICES ASSUME Init PROVE SInv
    OBVIOUS
  <1>1. \A p \in Processes : proc[p].at = "off"
    BY DEF Init, Off
  <1>2. key \in {None, 1} /\ \A s \in Slots : rows[s] = NoRow \/ rows[s].key = 1
    BY DEF Init, Row
  <1>3. \A s \in Slots : rows[s].key \in {None, 1}
    BY <1>2 DEF NoRow
  <1>4. KeyInv /\ CleanInv
    BY <1>1, <1>3 DEF KeyInv, CleanInv
  <1>5. ASSUME NEW s \in Slots PROVE Gives(s) = due[s]
    BY DEF Init, Gives, Held, Readable
  <1>6. QED
    BY <1>1, <1>4, <1>5 DEF SInv, SecretInv

-----------------------------------------------------------------------------
\* What a step leaves alone: the other processes, what has gone wrong, and, unless it
\* places a key, the key.
Acts(p) ==
  \/ Open(p) \/ Opening(p) \/ Purging(p)
  \/ (\E s \in Slots : Put(p, s) \/ Delete(p, s) \/ GetUnreadable(p, s))
  \/ Close(p) \/ Die(p)

LEMMA ActFacts ==
  ASSUME IInv, NEW p \in Processes, Acts(p)
  PROVE  /\ \A q \in Processes \ {p} : proc'[q] = proc[q]
         /\ mishaps \subseteq mishaps'
         /\ PlaceKey(p) \/ key' = key
  <1>1. proc \in [Processes -> ProcType]
    BY DEF IInv, TypeOK
  <1>2. \A q \in Processes \ {p} : proc'[q] = proc[q]
    BY <1>1 DEF Acts, Open, Opening, ReadKey, MakeKey, PlaceKey, ReadVersion, Migrate, Migrated,
       Look, ReadLegacy, Import, Unlink, Purging, Select, Drop, Put, Delete, GetUnreadable,
       Close, Die, Goes, Ends, Proceeds, Sweeps
  <1>3. mishaps \subseteq mishaps'
    BY DEF Acts, Open, Opening, ReadKey, MakeKey, PlaceKey, ReadVersion, Migrate, Migrated,
       Look, ReadLegacy, Import, Unlink, Purging, Select, Drop, Put, Delete, GetUnreadable,
       Close, Die, Unless
  <1>4. PlaceKey(p) \/ key' = key
    BY DEF Acts, Open, Opening, ReadKey, MakeKey, ReadVersion, Migrate, Migrated,
       Look, ReadLegacy, Import, Unlink, Purging, Select, Drop, Put, Delete, GetUnreadable,
       Close, Die, disk
  <1>5. QED
    BY <1>2, <1>3, <1>4

\* The key stays the one that every process has, and comes to be only once.
LEMMA KeyStep ==
  ASSUME IInv, KeyInv, Next
  PROVE  KeyInv'
  <1> USE DEF KeyInv, At
  <1> SUFFICES ASSUME "twoKeys" \notin mishaps'
               PROVE  KeyInv'
    OBVIOUS
  <1>0. proc \in [Processes -> ProcType] /\ rows \in [Slots -> RowType] /\ HandsInv
    BY DEF IInv, TypeOK
  <1>1. PICK p \in Processes : Acts(p)
    BY DEF Next, Acts
  <1>2. "twoKeys" \notin mishaps /\ \A q \in Processes \ {p} : proc'[q] = proc[q]
    BY <1>1, ActFacts
  <1>3. CASE PlaceKey(p)
    <2>1. key = None /\ key' = proc[p].key /\ proc[p].key \in Keys /\ proc[p].key # 1
      BY <1>0, <1>2, <1>3 DEF PlaceKey, Unless, HandsInv
    <2>2. \A q \in Processes : q # p => proc'[q] = proc[q] /\ proc[q].at \in {"off", "key", "place"}
      BY <1>0, <1>2, <1>3, <2>1 DEF PlaceKey, Goes
    <2>3. proc'[p].key = proc[p].key /\ proc'[p].at = "version"
      BY <1>0, <1>3 DEF PlaceKey, Goes, ProcType
    <2>4. key' # None
      BY <2>1 DEF Keys, None
    <2>5. QED
      BY <1>2, <2>1, <2>2, <2>3, <2>4
  <1>4. CASE ~PlaceKey(p)
    <2>1. key' = key
      BY <1>1, <1>4, ActFacts
    <2>2. \A q \in Processes : q # p => proc'[q] = proc[q]
      BY <1>2
    <2>3. /\ proc'[p].at \notin {"off", "key", "place"} => proc'[p].key = key /\ key # None
          /\ proc'[p].at = "place" => proc'[p].key # 1
      <3>1. CASE ReadKey(p) \/ MakeKey(p) \/ Open(p)
        BY <1>0, <1>2, <3>1, StoreAssumption DEF ReadKey, MakeKey, Open, Goes, ProcType, Fresh, IInv, TypeOK
      <3>2. CASE proc[p].at \notin {"off", "key", "place"} /\ proc'[p].at \in {"off"}
        BY <3>2
      <3>3. CASE proc[p].at \notin {"off", "key", "place"} /\ proc'[p].key = proc[p].key /\ proc'[p].at # "place"
        BY <1>2, <3>3
      <3>4. proc'[p].at = "off" \/ ReadKey(p) \/ MakeKey(p) \/ Open(p) \/
             (proc[p].at \notin {"off", "key", "place"} /\ proc'[p].key = proc[p].key /\ proc'[p].at # "place")
        <4>1. CASE ReadVersion(p) \/ Migrate(p) \/ Migrated(p)
          BY <1>0, <4>1 DEF ReadVersion, Migrate, Migrated, Goes, Ends, Off, ProcType
        <4>2. CASE Look(p) \/ ReadLegacy(p) \/ Import(p) \/ Unlink(p)
          BY <1>0, <4>2 DEF Look, ReadLegacy, Import, Unlink, Goes, Proceeds, ProcType
        <4>3. CASE Purging(p) \/ Close(p) \/ Die(p)
          BY <1>0, <4>3 DEF Purging, Select, Drop, Close, Die, Goes, Ends, Sweeps, Off, ProcType
        <4>4. CASE \E s \in Slots : Put(p, s) \/ Delete(p, s) \/ GetUnreadable(p, s)
          BY <1>0, <4>4 DEF Put, Delete, GetUnreadable, Goes, ProcType
        <4>5. QED
          BY <1>1, <1>4, <4>1, <4>2, <4>3, <4>4 DEF Acts, Opening
      <3>5. QED
        BY <3>1, <3>3, <3>4
    <2>4. key = None => \A s \in Slots : rows'[s].key \in {None, 1}
      <3> SUFFICES ASSUME key = None PROVE \A s \in Slots : rows'[s].key \in {None, 1}
        OBVIOUS
      <3>1. proc[p].at \in {"off", "key", "place"}
        BY <1>2
      <3>2. rows' = rows
        BY <1>1, <1>4, <3>1 DEF Acts, Open, Opening, ReadKey, MakeKey, ReadVersion, Migrate, Migrated, Look, ReadLegacy,
          Import, Unlink, Purging, Select, Drop, Put, Delete, GetUnreadable, Close, Die, disk
      <3>3. QED
        BY <1>2, <3>2
    <2>5. QED
      BY <1>2, <2>1, <2>2, <2>3, <2>4
  <1>5. QED
    BY <1>3, <1>4

\* A migration of the schema keeps what is in the rows.
LEMMA MigrateRows ==
  ASSUME proc \in [Processes -> ProcType], rows \in [Slots -> RowType],
         \A t \in Slots : RowOK(t, rows[t]), NEW p \in Processes, Migrate(p), NEW s \in Slots
  PROVE  /\ rows'[s].key = rows[s].key /\ rows'[s].secret = rows[s].secret
         /\ Held(s)' = Held(s)
  <1>1. CASE rows' = rows
    BY <1>1 DEF Held
  <1>2. CASE rows' # rows
    <2>1. proc[p].seen \in 0..3 /\ rows' = Renamed(proc[p].seen + 1)
      BY <1>2 DEF Migrate, ProcType, CurrentVersion
    <2>2. PICK v \in 1..4 : rows' = Renamed(v)
      BY <2>1
    <2>3. rows' = [t \in Slots |-> IF Held(t) /\ rows[t].name = v - 1
                                   THEN [rows[t] EXCEPT !.name = v] ELSE rows[t]]
      BY <1>2, <2>2 DEF Renamed
    <2>4. CASE Held(s) /\ rows[s].name = v - 1
      <3>1. rows'[s] = [rows[s] EXCEPT !.name = v] /\ rows[s] \in RowType
        BY <2>3, <2>4
      <3>2. rows'[s].key = rows[s].key /\ rows'[s].secret = rows[s].secret
        BY <3>1 DEF RowType
      <3>3. rows[s].secret # None
        BY <2>4 DEF RowOK, Held
      <3>4. rows'[s] # NoRow
        BY <3>2, <3>3 DEF NoRow
      <3>5. QED
        BY <2>4, <3>2, <3>4 DEF Held
    <2>5. CASE ~(Held(s) /\ rows[s].name = v - 1)
      BY <2>3, <2>5 DEF Held
    <2>6. QED
      BY <2>4, <2>5
  <1>3. QED
    BY <1>1, <1>2

\* A step that is none of those that write, remove or rename rows leaves them; one that
\* does is made by a process with the key of the store.
LEMMA RowEffect ==
  ASSUME IInv, KeyInv, "twoKeys" \notin mishaps, NEW p \in Processes, Acts(p), ~PlaceKey(p),
         NEW s \in Slots
  PROVE  \/ rows'[s] = NoRow
         \/ rows'[s].key = key
         \/ rows'[s].key = rows[s].key /\ rows'[s].secret = rows[s].secret /\ Held(s)' = Held(s)
  <1>0. /\ proc \in [Processes -> ProcType] /\ rows \in [Slots -> RowType]
        /\ \A t \in Slots : RowOK(t, rows[t])
    BY DEF IInv, TypeOK
  <1>1. proc[p].at \notin {"off", "key", "place"} => proc[p].key = key
    BY DEF KeyInv
  <1>2. CASE Import(p)
    BY <1>0, <1>1, <1>2 DEF Import, Upsert, Row, At, Held
  <1>3. CASE \E t \in Slots : Put(p, t)
    BY <1>0, <1>1, <1>3 DEF Put, Upsert, Row, At, Held
  <1>4. CASE (\E t \in Slots : Delete(p, t)) \/ Drop(p)
    BY <1>0, <1>4 DEF Delete, Drop, Held
  <1>5. CASE Migrate(p)
    BY <1>0, <1>5, MigrateRows
  <1>6. CASE /\ ~Import(p) /\ ~Migrate(p) /\ ~Drop(p)
             /\ ~\E t \in Slots : Put(p, t) \/ Delete(p, t)
    <2>1. rows' = rows
      BY <1>6 DEF Acts, Open, Opening, ReadKey, MakeKey, ReadVersion, Migrated,
         Look, ReadLegacy, Unlink, Purging, Select, GetUnreadable, Close, Die, disk
    <2>2. QED
      BY <2>1 DEF Held
  <1>7. QED
    BY <1>2, <1>3, <1>4, <1>5, <1>6

\* A purge leaves each slot it has passed clean, and nobody makes one unclean meanwhile.
LEMMA CleanStep ==
  ASSUME IInv, KeyInv, CleanInv, Next
  PROVE  CleanInv'
  <1> SUFFICES ASSUME "twoKeys" \notin mishaps' PROVE CleanInv'
    BY DEF CleanInv
  <1>0. proc \in [Processes -> ProcType] /\ \A s \in Slots : RowOK(s, rows[s])
    BY DEF IInv, TypeOK
  <1>1. PICK p \in Processes : Acts(p)
    BY DEF Next, Acts
  <1>2. "twoKeys" \notin mishaps /\ \A q \in Processes \ {p} : proc'[q] = proc[q]
    BY <1>1, ActFacts
  <1>3. CASE PlaceKey(p)
    <2>1. key = None
      BY <1>3 DEF PlaceKey, Unless
    <2>2. \A q \in Processes : proc[q].at \in {"off", "key", "place"}
      BY <1>2, <2>1 DEF KeyInv
    <2>3. proc'[p].at = "version"
      BY <1>0, <1>3 DEF PlaceKey, Goes, ProcType
    <2>4. \A q \in Processes : proc'[q].at \notin {"ready", "select", "drop"}
      BY <1>2, <2>2, <2>3
    <2>5. QED
      BY <2>4 DEF CleanInv
  <1>4. CASE ~PlaceKey(p)
    <2>1. key' = key
      BY <1>1, <1>4, ActFacts
    <2>2. ASSUME NEW s \in Slots, Clean(s) PROVE Clean(s)'
      BY <1>1, <1>2, <1>4, <2>1, <2>2, RowEffect DEF Clean, Held
    <2>3. proc[p] \in ProcType /\ proc[p].slot \in Slots
          /\ (proc[p].at \notin {"off", "key", "place"} => proc[p].key = key)
          /\ (proc[p].at = "ready" => proc[p].slot = "admin")
          /\ (proc[p].at \in {"select", "drop"} => \A s \in Passed(proc[p].slot) : Clean(s))
      BY <1>0, <1>2 DEF ProcType, KeyInv, CleanInv
    <2>4. \A s \in Slots : Passed(s) \subseteq Slots
      BY DEF Passed, Slots
    <2>5. \A s \in Slots : After(s) # "done" => Passed(After(s)) = Passed(s) \cup {s}
      BY DEF Passed, After, Slots
    <2>6. /\ proc'[p].at = "ready" => proc'[p].slot = "admin"
          /\ proc'[p].at \in {"select", "drop"} => \A s \in Passed(proc'[p].slot) : Clean(s)'
      <3>1. CASE \E s \in Slots : Put(p, s) \/ Delete(p, s)
        BY <2>3, <3>1 DEF Put, Delete, At
      <3>2. CASE \E s \in Slots : GetUnreadable(p, s)
        <4>1. proc'[p].at = "select" /\ proc'[p].slot = "admin"
          BY <1>0, <2>3, <3>2 DEF GetUnreadable, Goes, At, ProcType
        <4>2. QED
          BY <4>1 DEF Passed
      <3>3. CASE Purging(p)
        <4>0. PICK t \in Slots : t = proc[p].slot
          BY <2>3
        <4>1. proc[p].at \in {"select", "drop"} /\ proc[p].key = key
          BY <2>3, <3>3 DEF Purging, Select, Drop, At
        <4>2. \A s \in Passed(t) : Clean(s)'
          BY <2>2, <2>3, <2>4, <4>0, <4>1
        <4>3. CASE Goes(p, "drop")
          BY <1>0, <4>0, <4>2, <4>3 DEF Goes, ProcType
        <4>4. CASE Sweeps(p, After(t)) /\ Clean(t)'
          <5>1. CASE After(t) = "done"
            <6>1. proc'[p] = Off
              BY <1>0, <4>4, <5>1 DEF Sweeps, Ends
            <6>2. QED
              BY <6>1 DEF Off
          <5>2. CASE After(t) # "done"
            <6>1. proc'[p].at = "select" /\ proc'[p].slot = After(t)
              BY <1>0, <4>4, <5>2 DEF Sweeps, ProcType
            <6>2. Passed(After(t)) = Passed(t) \cup {t}
              BY <2>3, <2>5, <5>2
            <6>3. QED
              BY <4>2, <4>4, <6>1, <6>2
          <5>3. QED
            BY <5>1, <5>2
        <4>5. CASE Select(p)
          <5>1. Goes(p, "drop") \/ (Sweeps(p, After(t)) /\ Clean(t))
            BY <4>0, <4>1, <4>5 DEF Select, Held, Readable, Clean
          <5>2. QED
            BY <2>2, <2>3, <4>3, <4>4, <5>1
        <4>6. CASE Drop(p)
          <5>1. rows'[t] = NoRow
            <6>1. rows \in [Slots -> RowType]
              BY DEF IInv, TypeOK
            <6>2. QED
              BY <4>0, <4>6, <6>1 DEF Drop
          <5>2. QED
            BY <4>0, <4>4, <4>6, <5>1 DEF Drop, Clean
        <4>7. QED
          BY <3>3, <4>5, <4>6 DEF Purging
      <3>4. CASE Open(p) \/ Opening(p) \/ Close(p) \/ Die(p)
        <4>1. CASE Look(p) \/ ReadLegacy(p) \/ Import(p) \/ Unlink(p)
          BY <1>0, <4>1 DEF Look, ReadLegacy, Import, Unlink, Goes, Proceeds, ProcType
        <4>2. CASE Open(p) \/ ReadKey(p) \/ MakeKey(p) \/ ReadVersion(p) \/ Migrate(p) \/ Migrated(p)
          BY <1>0, <4>2 DEF Open, ReadKey, MakeKey, ReadVersion, Migrate, Migrated, Goes, Ends, Off, ProcType, At
        <4>3. CASE Close(p) \/ Die(p)
          BY <1>0, <4>3 DEF Close, Die, Ends, Off
        <4>4. QED
          BY <1>4, <3>4, <4>1, <4>2, <4>3 DEF Opening
      <3>5. QED
        BY <1>1, <3>1, <3>2, <3>3, <3>4 DEF Acts
    <2>7. ASSUME NEW q \in Processes
          PROVE  /\ proc'[q].at = "ready" => proc'[q].slot = "admin"
                 /\ proc'[q].at \in {"select", "drop"} => \A s \in Passed(proc'[q].slot) : Clean(s)'
      <3>1. CASE q = p
        BY <2>6, <3>1
      <3>2. CASE q # p
        <4>1. proc'[q] = proc[q] /\ proc[q].slot \in Slots
          BY <1>0, <1>2, <3>2 DEF ProcType
        <4>2. QED
          BY <1>2, <2>2, <2>4, <4>1 DEF CleanInv
      <3>3. QED
        BY <3>1, <3>2
    <2>8. QED
      BY <2>7 DEF CleanInv
  <1>5. QED
    BY <1>3, <1>4

-----------------------------------------------------------------------------
\* A slot whose row is as readable as it was, with the same secret, gives the same.
LEMMA GivesSame ==
  ASSUME NEW s \in Slots, Held(s)' = Held(s), rows'[s].key = rows[s].key,
         rows'[s].secret = rows[s].secret, key' = key, legacy'[s] = legacy[s]
  PROVE  Gives(s)' = Gives(s) /\ (InRow(s)' <=> InRow(s))
  BY DEF Gives, InRow, Readable

\* Nothing goes wrong with a step: every slot still gives what it should, and who is about
\* to remove a legacy file removes none that is needed.
LEMMA SecretStep ==
  ASSUME IInv, SInv, Next
  PROVE  SecretInv'
  <1> SUFFICES ASSUME mishaps' = {} PROVE SecretInv'
    BY DEF SecretInv
  <1>0. /\ proc \in [Processes -> ProcType] /\ rows \in [Slots -> RowType]
        /\ legacy \in [Slots -> {None, OldSecret}] /\ due \in [Slots -> {None} \cup Secrets]
        /\ \A s \in Slots : RowOK(s, rows[s])
        /\ HandsInv
    BY DEF IInv, TypeOK
  <1>1. PICK p \in Processes : Acts(p)
    BY DEF Next, Acts
  <1>2. /\ mishaps = {} /\ \A q \in Processes \ {p} : proc'[q] = proc[q]
        /\ PlaceKey(p) \/ key' = key
    BY <1>1, ActFacts
  <1>3. /\ \A s \in Slots : Gives(s) = due[s]
        /\ \A q \in Processes : proc[q].at = "unlink" => InRow(proc[q].slot) \/ legacy[proc[q].slot] = None
        /\ KeyInv
    BY <1>2 DEF SInv, SecretInv
  <1>4. /\ proc[p] \in ProcType /\ proc[p].slot \in Slots
        /\ proc[p].at \notin {"off", "key", "place"} => proc[p].key = key /\ key # None
    BY <1>0, <1>2, <1>3 DEF ProcType, KeyInv
  <1>5. \A q \in Processes : proc[q].slot \in Slots
    BY <1>0 DEF ProcType
  \* What is left to show of each action.
  <1>6. ASSUME \A s \in Slots : Gives(s)' = due'[s],
               \A s \in Slots : InRow(s) \/ legacy[s] = None => InRow(s)' \/ legacy'[s] = None,
               proc'[p].at = "unlink" =>
                 (proc[p].at = "unlink" /\ proc'[p] = proc[p])
                 \/ InRow(proc[p].slot)' \/ legacy'[proc'[p].slot] = None
        PROVE  SecretInv'
    <2>1. ASSUME NEW q \in Processes, proc'[q].at = "unlink"
          PROVE  InRow(proc[q].slot)' \/ legacy'[proc'[q].slot] = None
      <3>1. CASE proc'[q] = proc[q]
        BY <1>3, <1>5, <1>6, <2>1, <3>1
      <3>2. CASE proc'[q] # proc[q]
        BY <1>2, <1>6, <2>1, <3>2
      <3>3. QED
        BY <3>1, <3>2
    <2>2. QED
      BY <1>6, <2>1 DEF SecretInv, InRow, Held, Readable
  <1>7. CASE PlaceKey(p)
    <2>1. key = None /\ key' = proc[p].key /\ key' \notin {None, 1} /\ UNCHANGED <<rows, legacy, due>>
      <3>1. key = None
        BY <1>7, <1>2 DEF PlaceKey, Unless
      <3>2. proc[p].key \in Keys /\ proc[p].key # 1
        BY <1>0, <1>2, <1>3, <1>7 DEF PlaceKey, HandsInv, KeyInv, At
      <3>3. QED
        BY <1>7, <3>1, <3>2 DEF PlaceKey, Keys, None
    <2>2. ASSUME NEW s \in Slots PROVE Gives(s)' = due'[s] /\ (Held(s) => rows[s].key = 1)
      <3>1. Held(s) => rows[s].key # None
        BY <1>0 DEF Held, RowOK
      <3>2. rows[s].key \in {None, 1}
        BY <1>2, <1>3, <2>1 DEF KeyInv
      <3>3. Gives(s) = legacy[s]
        BY <2>1, <3>1, <3>2 DEF Gives, Readable
      <3>4. Gives(s)' = legacy[s]
        BY <2>1, <3>1, <3>2 DEF Gives, Readable, Held
      <3>5. QED
        BY <1>3, <2>1, <3>1, <3>2, <3>3, <3>4
    <2>3. \A s \in Slots : ~InRow(s)
      BY <2>1, <2>2 DEF InRow, Readable, None
    <2>4. proc'[p].at = "version"
      BY <1>0, <1>7 DEF PlaceKey, Goes, ProcType
    <2>5. QED
      BY <1>6, <2>1, <2>2, <2>3, <2>4
  <1>8. CASE Import(p)
    <2>1. PICK t \in Slots : t = proc[p].slot
      BY <1>4
    <2>2. /\ rows' = [rows EXCEPT ![t] = Row(proc[p].read, proc[p].key, Legacy(t), {})]
          /\ due[t] = proc[p].read /\ proc[p].read = OldSecret /\ proc[p].key = key
          /\ key' = key /\ legacy' = legacy /\ due' = due
      BY <1>0, <1>2, <1>4, <1>8, <2>1 DEF Import, Upsert, Unless, At, HandsInv
    <2>3. rows'[t].secret = due'[t] /\ rows'[t].key = key' /\ rows'[t] # NoRow
      BY <1>0, <2>2 DEF Row, NoRow, OldSecret, None
    <2>4. Gives(t)' = due'[t] /\ InRow(t)'
      BY <2>3 DEF Gives, InRow, Held, Readable
    <2>5. ASSUME NEW s \in Slots, s # t PROVE Gives(s)' = due'[s] /\ (InRow(s)' <=> InRow(s))
      <3>1. rows'[s] = rows[s]
        BY <1>0, <2>2, <2>5
      <3>2. QED
        BY <1>3, <2>2, <3>1, GivesSame DEF Held
    <2>6. proc'[p].slot = t
      BY <1>0, <1>8, <2>1 DEF Import, Goes, ProcType
    <2>7. QED
      BY <1>6, <2>2, <2>4, <2>5, <2>6
  <1>9. CASE Unlink(p)
    <2>1. PICK t \in Slots : t = proc[p].slot
      BY <1>4
    <2>2. /\ legacy' = [legacy EXCEPT ![t] = None] /\ UNCHANGED <<key, rows, due>>
          /\ InRow(t) \/ legacy[t] = None
      BY <1>3, <1>9, <2>1 DEF Unlink, At
    <2>3. ASSUME NEW s \in Slots PROVE Gives(s)' = due'[s] /\ (InRow(s)' <=> InRow(s))
      <3>1. CASE legacy'[s] = legacy[s]
        BY <1>3, <2>2, <3>1, GivesSame DEF Held
      <3>2. CASE legacy'[s] # legacy[s]
        <4>1. s = t /\ InRow(t)
          BY <1>0, <2>2, <3>2
        <4>2. QED
          BY <1>3, <2>2, <4>1 DEF Gives, InRow, Held, Readable
      <3>3. QED
        BY <3>1, <3>2
    <2>4. \A s \in Slots : legacy[s] = None => legacy'[s] = None
      BY <1>0, <2>2
    <2>5. proc'[p].at # "unlink"
      BY <1>0, <1>9 DEF Unlink, Proceeds, ProcType
    <2>6. QED
      BY <1>6, <2>3, <2>4, <2>5
  <1>10. ASSUME NEW t \in Slots, Put(p, t)
         PROVE  SecretInv'
    <2>1. PICK kind \in Kinds(t), columns \in SUBSET Columns :
            rows' = Upsert(t, Row(3 + puts, proc[p].key, kind, columns))
      BY <1>10 DEF Put
    <2>2. /\ rows' = [rows EXCEPT ![t] = Row(3 + puts, key, kind, columns)]
          /\ due' = [due EXCEPT ![t] = 3 + puts] /\ UNCHANGED <<key, legacy, proc>>
          /\ puts \in Nat
      <3>1. proc[p].key = key
        BY <1>4, <1>10 DEF Put, At
      <3>2. puts \in Nat
        BY StoreAssumption DEF IInv, TypeOK
      <3>3. QED
        BY <1>10, <2>1, <3>1, <3>2 DEF Put, Upsert
    <2>3. rows'[t].secret = due'[t] /\ rows'[t].key = key' /\ rows'[t] # NoRow
      <3>1. rows'[t] = Row(3 + puts, key, kind, columns) /\ due'[t] = 3 + puts
        BY <1>0, <2>2
      <3>2. rows'[t].secret = 3 + puts /\ rows'[t].key = key /\ NoRow.secret = 0
        BY <3>1 DEF Row, NoRow, None
      <3>3. QED
        BY <2>2, <3>1, <3>2
    <2>4. Gives(t)' = due'[t] /\ InRow(t)'
      BY <2>3 DEF Gives, InRow, Held, Readable
    <2>5. ASSUME NEW s \in Slots, s # t PROVE Gives(s)' = due'[s] /\ (InRow(s)' <=> InRow(s))
      <3>1. rows'[s] = rows[s] /\ due'[s] = due[s]
        BY <1>0, <2>2, <2>5
      <3>2. QED
        BY <1>3, <2>2, <3>1, GivesSame DEF Held
    <2>6. QED
      BY <1>6, <2>2, <2>4, <2>5
  <1>11. ASSUME NEW t \in Slots, Delete(p, t)
         PROVE  SecretInv'
    <2>1. /\ rows' = [rows EXCEPT ![t] = NoRow] /\ due' = [due EXCEPT ![t] = None]
          /\ legacy[t] = None /\ UNCHANGED <<key, legacy, proc>>
      BY <1>2, <1>11 DEF Delete, Unless
    <2>2. Gives(t)' = due'[t]
      BY <1>0, <2>1 DEF Gives, Held
    <2>3. ASSUME NEW s \in Slots, s # t PROVE Gives(s)' = due'[s] /\ (InRow(s)' <=> InRow(s))
      <3>1. rows'[s] = rows[s] /\ due'[s] = due[s]
        BY <1>0, <2>1, <2>3
      <3>2. QED
        BY <1>3, <2>1, <3>1, GivesSame DEF Held
    <2>4. QED
      BY <1>6, <2>1, <2>2, <2>3
  <1>12. CASE Drop(p)
    <2>1. PICK t \in Slots : t = proc[p].slot
      BY <1>4
    <2>2. /\ rows' = [rows EXCEPT ![t] = NoRow] /\ ~InRow(t) /\ UNCHANGED <<key, legacy, due>>
      BY <1>2, <1>12, <2>1 DEF Drop, Unless, InRow
    <2>3. Gives(t)' = due'[t]
      <3>1. Gives(t) = legacy[t]
        BY <2>2 DEF Gives, InRow
      <3>2. Gives(t)' = legacy[t]
        BY <1>0, <2>2 DEF Gives, Held
      <3>3. QED
        BY <1>3, <2>2, <3>1, <3>2
    <2>4. ASSUME NEW s \in Slots, s # t PROVE Gives(s)' = due'[s] /\ (InRow(s)' <=> InRow(s))
      <3>1. rows'[s] = rows[s]
        BY <1>0, <2>2, <2>4
      <3>2. QED
        BY <1>3, <2>2, <3>1, GivesSame DEF Held
    <2>5. proc'[p].at # "unlink"
      BY <1>0, <1>12 DEF Drop, Sweeps, Ends, Off, ProcType
    <2>6. QED
      BY <1>6, <2>2, <2>3, <2>4, <2>5
  <1>13. CASE /\ ~PlaceKey(p) /\ ~Import(p) /\ ~Unlink(p) /\ ~Drop(p)
              /\ ~\E t \in Slots : Put(p, t) \/ Delete(p, t)
    <2>1. UNCHANGED <<key, legacy, due>>
      BY <1>1, <1>13 DEF Acts, Open, Opening, ReadKey, MakeKey, ReadVersion, Migrate, Migrated,
         Look, ReadLegacy, Purging, Select, GetUnreadable, Close, Die, disk
    <2>2. proc'[p].at # "unlink"
      <3>1. CASE Open(p) \/ ReadKey(p) \/ MakeKey(p) \/ ReadVersion(p) \/ Migrate(p) \/ Migrated(p)
        BY <1>0, <3>1 DEF Open, ReadKey, MakeKey, ReadVersion, Migrate, Migrated, Goes, Ends, Off, ProcType, At
      <3>2. CASE Look(p) \/ ReadLegacy(p)
        BY <1>0, <3>2 DEF Look, ReadLegacy, Goes, Proceeds, ProcType
      <3>3. CASE Select(p) \/ Close(p) \/ Die(p) \/ \E t \in Slots : GetUnreadable(p, t)
        BY <1>0, <3>3 DEF Select, Close, Die, GetUnreadable, Goes, Sweeps, Ends, Off, ProcType
      <3>4. QED
        BY <1>1, <1>13, <3>1, <3>2, <3>3 DEF Acts, Opening, Purging
    <2>3. ASSUME NEW s \in Slots
          PROVE  /\ rows'[s].key = rows[s].key /\ rows'[s].secret = rows[s].secret
                 /\ Held(s)' = Held(s)
      <3>1. CASE Migrate(p)
        BY <1>0, <3>1, MigrateRows
      <3>2. CASE ~Migrate(p)
        <4>1. rows' = rows
          BY <1>1, <1>13, <3>2 DEF Acts, Open, Opening, ReadKey, MakeKey, ReadVersion, Migrated,
             Look, ReadLegacy, Purging, Select, GetUnreadable, Close, Die, disk
        <4>2. QED
          BY <4>1 DEF Held
      <3>3. QED
        BY <3>1, <3>2
    <2>4. \A s \in Slots : Gives(s)' = due'[s] /\ (InRow(s)' <=> InRow(s))
      BY <1>3, <2>1, <2>3, GivesSame
    <2>5. QED
      BY <1>6, <2>1, <2>2, <2>4
  <1>14. QED
    BY <1>7, <1>8, <1>9, <1>10, <1>11, <1>12, <1>13

LEMMA SecretsStep == IInv /\ SInv /\ [Next]_vars => SInv'
  <1> SUFFICES ASSUME IInv, SInv, [Next]_vars PROVE SInv'
    OBVIOUS
  <1>1. CASE Next
    BY <1>1, KeyStep, CleanStep, SecretStep DEF SInv
  <1>2. CASE UNCHANGED vars
    BY <1>2 DEF vars, SInv, KeyInv, CleanInv, SecretInv, Clean, Gives, InRow, Held, Readable
  <1>3. QED
    BY <1>1, <1>2

\* No secret is lost and no deleted one comes back: from its row or its legacy file, every
\* slot gives what was last stored in it, through migrations, imports and purges of any
\* number of processes that may die anywhere, as long as none of the four named mishaps
\* has happened.
THEOREM SecretsHold == Spec => []SecretsSurvive
  <1>1. SInv => SecretsSurvive
    BY DEF SInv, SecretInv, SecretsSurvive
  <1>2. QED
    BY <1>1, InitFacts, Step, SecretInit, SecretsStep, PTL DEF Spec

\* The purge after a failed read ends with a store the next command can read, whatever
\* other processes store, import or purge between its steps, unless there are two keys.
THEOREM PurgesClean == Spec => PurgeCleans
  <1>1. ASSUME IInv, SInv, NEW p \in Processes, Purging(p), proc'[p] = Off,
               "twoKeys" \notin mishaps, NEW s \in Slots, rows'[s] # NoRow
        PROVE  rows'[s].key = key
    <2>1. /\ proc \in [Processes -> ProcType] /\ rows \in [Slots -> RowType]
      BY <1>1 DEF IInv, TypeOK
    <2>2. PICK t \in Slots : t = proc[p].slot
      BY <2>1 DEF ProcType
    <2>3. proc[p].at \in {"select", "drop"} /\ proc[p].key = key /\ \A u \in Passed(t) : Clean(u)
      BY <1>1, <2>2 DEF Purging, Select, Drop, At, SInv, KeyInv, CleanInv
    <2>4. Off.at = "off"
      BY DEF Off
    <2>5. ASSUME Sweeps(p, After(t)) PROVE After(t) = "done"
      <3>1. CASE After(t) # "done"
        <4>1. proc'[p].at = "select"
          BY <2>1, <2>5, <3>1 DEF Sweeps, ProcType
        <4>2. QED
          BY <1>1, <2>4, <4>1
      <3>2. QED
        BY <3>1
    <2>6. After(t) = "done" => \A u \in Slots \ {t} : u \in Passed(t)
      BY DEF After, Passed, Slots
    <2>7. CASE Select(p)
      <3>1. ~Goes(p, "drop")
        <4>1. Goes(p, "drop") => proc'[p].at = "drop"
          BY <2>1 DEF Goes, ProcType
        <4>2. QED
          BY <1>1, <2>4, <4>1
      <3>2. Sweeps(p, After(t)) /\ Clean(t) /\ rows' = rows
        BY <2>2, <2>3, <2>7, <3>1 DEF Select, Held, Readable, Clean, disk
      <3>3. QED
        BY <1>1, <2>3, <2>5, <2>6, <3>2 DEF Clean
    <2>8. CASE Drop(p)
      <3>1. Sweeps(p, After(t)) /\ rows' = [rows EXCEPT ![t] = NoRow]
        BY <2>2, <2>8 DEF Drop
      <3>2. s # t /\ rows'[s] = rows[s]
        BY <1>1, <2>1, <3>1
      <3>3. QED
        BY <1>1, <2>3, <2>5, <2>6, <3>1, <3>2 DEF Clean
    <2>9. QED
      BY <1>1, <2>7, <2>8 DEF Purging
  <1>2. IInv /\ SInv /\ [Next]_vars =>
          [\A p \in Processes :
             (Purging(p) /\ proc'[p] = Off /\ "twoKeys" \notin mishaps)
             => \A s \in Slots : rows'[s] # NoRow => rows'[s].key = key]_vars
    BY <1>1
  <1>3. QED
    BY <1>2, InitFacts, Step, SecretInit, SecretsStep, PTL DEF Spec, PurgeCleans

=============================================================================
