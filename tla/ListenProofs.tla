----------------------------- MODULE ListenProofs -----------------------------
(***************************************************************************)
(* Theorems about Listen and Watermark, for any set of envelopes and facts, *)
(* any number of walks, any page and gate size, any clock and any number    *)
(* of faults.                                                               *)
(*                                                                          *)
(* IInv is inductive: what is on its way to the client is a row of the      *)
(* mailbox (BoxInv), every mark that is kept claims only what was printed   *)
(* and remembers it with the time of its row (MarksInv), and the gate holds *)
(* only what was printed (GateInv).  OnceInv adds what a process that lives *)
(* has printed; it is kept by every step from a state in which nothing on   *)
(* its way is older than what the watermark remembers (Recent).             *)
(***************************************************************************)
EXTENDS Listen, SequenceTheorems, TLAPS

Rows == [at: Times, id: Ids]
Marks == Watermarks(Ids, Times)

-----------------------------------------------------------------------------
\* The watermark's operators

\* The ids and times that the watermark has after a row.
Noted(w, row, i) == IF i = row.id THEN row.at ELSE w.dedup[i]

LEMMA MarkFields ==
  ASSUME NEW w \in Marks
  PROVE  /\ w.at \in Times /\ w.id \in Ids \cup {0}
         /\ DOMAIN w.dedup \subseteq Ids /\ w.dedup \in [DOMAIN w.dedup -> Times]
         /\ Cursor(w) \in [at: Times, id: Ids \cup {0}]
  BY DEF Marks, Watermarks, Cursor

LEMMA FreshFacts == Fresh \in Marks /\ DOMAIN Fresh.dedup = {} /\ Fresh.id = 0
  <1>1. 0 \in Times
    BY ListenAssumption DEF Times
  <1>2. [i \in {} |-> 0] \in [{} -> Times]
    OBVIOUS
  <1>3. QED
    BY <1>1, <1>2 DEF Fresh, Marks, Watermarks

\* advanceWatermark moves the cursor forward only, remembers the row unless it is too old,
\* and forgets nothing that is recent.
LEMMA AdvanceFacts ==
  ASSUME NEW w \in Marks, NEW row \in Rows, NEW v, v = advanceWatermark(w, row)
  PROVE  /\ v \in Marks
         /\ v.at >= w.at
         /\ ~Before(Cursor(v), Cursor(w))
         /\ v.id \in {w.id, row.id}
         /\ DOMAIN v.dedup \subseteq DOMAIN w.dedup \cup {row.id}
         /\ \A i \in DOMAIN v.dedup : v.dedup[i] = Noted(w, row, i)
         /\ \A i \in DOMAIN w.dedup \cup {row.id} :
              i \in DOMAIN v.dedup \/ Noted(w, row, i) < v.at - Retention
  <1> DEFINE top == IF Before(Cursor(w), row) THEN row ELSE Cursor(w)
             seen == [i \in DOMAIN w.dedup \cup {row.id} |-> Noted(w, row, i)]
             kept == {i \in DOMAIN seen : seen[i] >= top.at - Retention}
  <1>1. /\ w.at \in Times /\ w.id \in Ids \cup {0}
        /\ DOMAIN w.dedup \subseteq Ids /\ w.dedup \in [DOMAIN w.dedup -> Times]
        /\ row.at \in Times /\ row.id \in Ids
    BY MarkFields DEF Rows
  <1>2. Times \subseteq Nat /\ Ids \subseteq Nat
    BY ListenAssumption DEF Times
  <1>3. Cursor(w).at = w.at /\ Cursor(w).id = w.id
    BY DEF Cursor
  <1>n. w.at \in Nat /\ w.id \in Nat /\ row.at \in Nat /\ row.id \in Nat
    <2>1. \A t \in Times : t \in Nat
      BY <1>2
    <2>2. \A i \in Ids \cup {0} : i \in Nat
      BY <1>2
    <2>3. QED
      BY <1>1, <2>1, <2>2, Zenon
  <1>c. \/ top = row /\ Before(Cursor(w), row)
        \/ top = Cursor(w)
    OBVIOUS
  <1>4. top.at \in Times /\ top.id \in {w.id, row.id} /\ top.at >= w.at
    <2> HIDE DEF top
    <2>1. CASE top = row /\ Before(Cursor(w), row)
      BY <1>1, <1>n, <1>3, <2>1 DEF Before
    <2>2. CASE top = Cursor(w)
      BY <1>1, <1>n, <1>3, <2>2
    <2>3. QED
      BY <1>c, <2>1, <2>2
  <1>5. v = [at |-> top.at, id |-> top.id, dedup |-> [i \in kept |-> seen[i]]]
    BY DEF advanceWatermark, Noted
  <1>6. v.at = top.at /\ v.id = top.id /\ v.dedup = [i \in kept |-> seen[i]]
    BY <1>5
  <1>7. \A i \in DOMAIN w.dedup \cup {row.id} : seen[i] = Noted(w, row, i) /\ Noted(w, row, i) \in Times
    BY <1>1 DEF Noted
  <1>8. v \in Marks
    <2>1. v.dedup \in [kept -> Times] /\ kept \in SUBSET Ids
      BY <1>1, <1>6, <1>7
    <2>2. QED
      BY <1>1, <1>4, <1>5, <1>6, <2>1 DEF Marks, Watermarks
  <1>9. ~Before(Cursor(v), Cursor(w))
    <2>1. Cursor(v).at = top.at /\ Cursor(v).id = top.id
      BY <1>6 DEF Cursor
    <2> HIDE DEF top
    <2>2. CASE top = row /\ Before(Cursor(w), row)
      BY <1>n, <1>3, <2>1, <2>2 DEF Before
    <2>3. CASE top = Cursor(w)
      BY <1>n, <1>3, <2>1, <2>3 DEF Before
    <2>4. QED
      BY <1>c, <2>2, <2>3
  <1>10. \A i \in DOMAIN w.dedup \cup {row.id} :
           i \in DOMAIN v.dedup \/ Noted(w, row, i) < v.at - Retention
    <2>1. ASSUME NEW i \in DOMAIN w.dedup \cup {row.id}, i \notin DOMAIN v.dedup
          PROVE  Noted(w, row, i) < v.at - Retention
      <3>1. ~(seen[i] >= top.at - Retention)
        BY <1>6, <2>1
      <3>2. seen[i] \in Nat /\ top.at \in Nat /\ Retention \in Nat
        BY <1>2, <1>4, <1>7, RetentionAssumption
      <3>3. QED
        BY <1>6, <1>7, <3>1, <3>2
    <2>2. QED
      BY <2>1
  <1>11. QED
    BY <1>4, <1>6, <1>7, <1>8, <1>9, <1>10

\* A page holds rows of the mailbox after the cursor.
LEMMA PageFacts ==
  ASSUME NEW rows, NEW cursor, NEW limit
  PROVE  Page(rows, cursor, limit) \subseteq rows
  BY DEF Page

-----------------------------------------------------------------------------
\* Tables of walks and of saves
Table(t, K, R) == DOMAIN t \subseteq K /\ t \in [DOMAIN t -> R]

LEMMA PutFacts ==
  ASSUME NEW K, NEW R, NEW t, Table(t, K, R), NEW k \in K, NEW row \in R
  PROVE  /\ Table(Put(t, k, row), K, R)
         /\ DOMAIN Put(t, k, row) = DOMAIN t \cup {k}
         /\ \A x \in DOMAIN t \cup {k} : Put(t, k, row)[x] = IF x = k THEN row ELSE t[x]
  BY DEF Table, Put

LEMMA DropFacts ==
  ASSUME NEW K, NEW R, NEW t, Table(t, K, R), NEW k
  PROVE  /\ Table(Drop(t, k), K, R)
         /\ DOMAIN Drop(t, k) = DOMAIN t \ {k}
         /\ \A x \in DOMAIN t \ {k} : Drop(t, k)[x] = t[x]
  BY DEF Table, Drop, Restrict

LEMMA ChangeFacts ==
  ASSUME NEW K, NEW R, NEW t, Table(t, K, R), NEW k, NEW row,
         k \in DOMAIN t => row \in R
  PROVE  Table([t EXCEPT ![k] = row], K, R)
  BY DEF Table

LEMMA NoneFacts ==
  ASSUME NEW K, NEW R
  PROVE  Table(None, K, R) /\ DOMAIN None = {}
  BY DEF Table, None

-----------------------------------------------------------------------------
\* The gate: what it holds afterwards it held before, or is the id that came.
LEMMA GateFacts ==
  ASSUME NEW S, gate \in Seq(S), Len(gate) <= GateSize, NEW id \in S
  PROVE  /\ Gated(id) \in Seq(S) /\ Len(Gated(id)) <= GateSize
         /\ \A j \in DOMAIN Gated(id) :
              Gated(id)[j] = id \/ \E i \in DOMAIN gate : gate[i] = Gated(id)[j]
  <1>0. Len(gate) \in Nat /\ DOMAIN gate = 1..Len(gate) /\ GateSize \in Nat
    BY LenProperties, ListenAssumption
  <1>1. PICK others : others = Without(id)
    OBVIOUS
  <1>2. /\ others \in Seq(S) /\ Len(others) <= GateSize
        /\ Seen(id) => Len(others) < GateSize
        /\ \A j \in 1..Len(others) : \E i \in DOMAIN gate : gate[i] = others[j]
    <2>1. CASE ~Seen(id)
      BY <1>0, <1>1, <2>1 DEF Without
    <2>2. CASE Seen(id)
      <3>1. PICK i : i = CHOOSE k \in DOMAIN gate : gate[k] = id
        OBVIOUS
      <3>2. i \in DOMAIN gate
        BY <2>2, <3>1 DEF Seen
      <3>3. i \in 1..Len(gate)
        BY <1>0, <3>2
      <3>4. PICK young : young = SubSeq(gate, i + 1, Len(gate))
        OBVIOUS
      <3>5. PICK old : old = SubSeq(gate, 1, i - 1)
        OBVIOUS
      <3>6. others = old \o young
        BY <1>1, <2>2, <3>1, <3>4, <3>5 DEF Without
      <3>7. \A k \in 1..Len(gate) : gate[k] \in S
        BY <1>0, ElementOfSeq
      <3>8. /\ old \in Seq(S) /\ Len(old) = i - 1
            /\ \A k \in 1..(i - 1) : old[k] = gate[k]
        <4>1. i - 1 \in Int /\ \A k \in 1..(i - 1) : gate[k] \in S
          BY <1>0, <3>3, <3>7
        <4>2. /\ SubSeq(gate, 1, i - 1) \in Seq(S)
              /\ Len(SubSeq(gate, 1, i - 1)) = IF 1 <= i - 1 THEN i - 1 - 1 + 1 ELSE 0
              /\ \A k \in 1 .. i - 1 - 1 + 1 : SubSeq(gate, 1, i - 1)[k] = gate[1 + k - 1]
          BY <4>1, SubSeqProperties
        <4>3. Len(old) = i - 1
          BY <1>0, <3>3, <3>5, <4>2
        <4>4. \A k \in 1..(i - 1) : old[k] = gate[k]
          BY <1>0, <3>3, <3>5, <4>2
        <4>5. QED
          BY <3>5, <4>2, <4>3, <4>4
      <3>9. /\ young \in Seq(S) /\ Len(young) = Len(gate) - i
            /\ \A k \in 1..(Len(gate) - i) : young[k] = gate[k + i]
        <4>1. i + 1 \in Int /\ Len(gate) \in Int /\ \A k \in (i + 1)..Len(gate) : gate[k] \in S
          BY <1>0, <3>3, <3>7
        <4>2. /\ SubSeq(gate, i + 1, Len(gate)) \in Seq(S)
              /\ Len(SubSeq(gate, i + 1, Len(gate))) =
                   IF i + 1 <= Len(gate) THEN Len(gate) - (i + 1) + 1 ELSE 0
              /\ \A k \in 1 .. Len(gate) - (i + 1) + 1 :
                   SubSeq(gate, i + 1, Len(gate))[k] = gate[i + 1 + k - 1]
          BY <4>1, SubSeqProperties
        <4>3. Len(young) = Len(gate) - i
          <5>1. CASE i + 1 <= Len(gate)
            <6>1. Len(young) = Len(gate) - (i + 1) + 1
              BY <3>4, <4>2, <5>1
            <6>2. QED
              BY <1>0, <3>3, <6>1
          <5>2. CASE ~(i + 1 <= Len(gate))
            <6>1. Len(young) = 0
              BY <3>4, <4>2, <5>2
            <6>2. i = Len(gate)
              <7>1. i \in Int /\ Len(gate) \in Int /\ i <= Len(gate)
                BY <1>0, <3>3
              <7>2. QED
                BY <5>2, <7>1
            <6>3. QED
              BY <1>0, <6>1, <6>2
          <5>3. QED
            BY <5>1, <5>2
        <4>4. ASSUME NEW k \in 1..(Len(gate) - i) PROVE young[k] = gate[k + i]
          <5>1. k \in 1..(Len(gate) - (i + 1) + 1) /\ i + 1 + k - 1 = k + i
            BY <1>0, <3>3
          <5>2. young[k] = gate[i + 1 + k - 1]
            BY <3>4, <4>2, <5>1
          <5>3. QED
            BY <5>1, <5>2
        <4>5. QED
          BY <3>4, <4>2, <4>3, <4>4
      <3>10. /\ others \in Seq(S) /\ Len(others) = Len(gate) - 1
             /\ \A k \in 1..(Len(gate) - 1) : others[k] = IF k <= i - 1 THEN old[k] ELSE young[k - (i - 1)]
        <4>1. /\ old \o young \in Seq(S) /\ Len(old \o young) = Len(old) + Len(young)
              /\ \A k \in 1 .. Len(old) + Len(young) : (old \o young)[k] =
                     IF k <= Len(old) THEN old[k] ELSE young[k - Len(old)]
          BY <3>8, <3>9, ConcatProperties
        <4>2. Len(old) + Len(young) = Len(gate) - 1
          BY <1>0, <3>3, <3>8, <3>9
        <4>3. QED
          BY <3>6, <3>8, <4>1, <4>2
      <3>11. \A j \in 1..Len(others) : \E k \in DOMAIN gate : gate[k] = others[j]
        <4>1. ASSUME NEW j \in 1..Len(others) PROVE \E k \in DOMAIN gate : gate[k] = others[j]
          <5>1. j \in 1..(Len(gate) - 1)
            BY <1>0, <3>10
          <5>2. CASE j <= i - 1
            <6>1. others[j] = gate[j] /\ j \in DOMAIN gate
              BY <1>0, <3>3, <3>8, <3>10, <5>1, <5>2
            <6>2. QED
              BY <6>1
          <5>3. CASE ~(j <= i - 1)
            <6>1. j - (i - 1) \in 1..(Len(gate) - i)
              BY <1>0, <3>3, <5>1, <5>3
            <6>2. others[j] = gate[j - (i - 1) + i]
              BY <3>9, <3>10, <5>1, <5>3, <6>1
            <6>3. j - (i - 1) + i \in DOMAIN gate
              BY <1>0, <3>3, <6>1
            <6>4. QED
              BY <6>2, <6>3
          <5>4. QED
            BY <5>2, <5>3
        <4>2. QED
          BY <4>1
      <3>12. QED
        BY <1>0, <3>3, <3>10, <3>11
    <2>3. QED
      BY <2>1, <2>2
  <1>3. PICK all : all = Append(others, id)
    OBVIOUS
  <1>4. /\ all \in Seq(S) /\ all # <<>> /\ Len(all) = Len(others) + 1
        /\ \A k \in 1..Len(others) : all[k] = others[k]
        /\ all[Len(others) + 1] = id
    BY <1>2, <1>3, AppendProperties
  <1>5. \A k \in 1..Len(all) : all[k] = id \/ \E i \in DOMAIN gate : gate[i] = all[k]
    <2>1. Len(others) \in Nat
      BY <1>2, LenProperties
    <2>2. ASSUME NEW k \in 1..Len(all) PROVE all[k] = id \/ \E i \in DOMAIN gate : gate[i] = all[k]
      <3>1. CASE k = Len(others) + 1
        BY <1>4, <3>1
      <3>2. CASE k # Len(others) + 1
        <4>1. k \in 1..Len(others)
          BY <1>4, <2>1, <3>2
        <4>2. QED
          BY <1>2, <1>4, <4>1
      <3>3. QED
        BY <3>1, <3>2
    <2>3. QED
      BY <2>2
  <1>6. CASE Len(all) > GateSize
    <2>1. /\ Tail(all) \in Seq(S) /\ Len(Tail(all)) = Len(all) - 1
          /\ \A k \in 1..Len(Tail(all)) : Tail(all)[k] = all[k + 1]
      BY <1>4, HeadTailProperties
    <2>2. Gated(id) = Tail(all)
      BY <1>1, <1>3, <1>6 DEF Gated
    <2>3. Len(others) \in Nat /\ Len(all) \in Nat /\ DOMAIN Tail(all) = 1..Len(Tail(all))
      BY <1>2, <1>4, <2>1, LenProperties
    <2>4. \A k \in DOMAIN Tail(all) : k + 1 \in 1..Len(all)
      BY <2>1, <2>3
    <2>5. Len(Tail(all)) <= GateSize
      BY <1>0, <1>2, <1>4, <2>1, <2>3
    <2>6. \A k \in DOMAIN Tail(all) : Tail(all)[k] = all[k + 1]
      BY <2>1, <2>3
    <2>7. QED
      BY <1>5, <2>1, <2>2, <2>4, <2>5, <2>6
  <1>7. CASE ~(Len(all) > GateSize)
    <2>1. Gated(id) = all
      BY <1>1, <1>3, <1>7 DEF Gated
    <2>2. DOMAIN all = 1..Len(all) /\ Len(all) \in Nat
      BY <1>4, LenProperties
    <2>3. QED
      BY <1>0, <1>4, <1>5, <1>7, <2>1, <2>2
  <1>8. QED
    BY <1>6, <1>7


-----------------------------------------------------------------------------
\* Types

Walked == Table(walks, Walks, Walk)
Saved == Table(saves, Saver, Save)

LEMMA InitTypes == Init => TypeOK
  <1> SUFFICES ASSUME Init PROVE TypeOK
    OBVIOUS
  <1>1. 0 \in Times /\ GateSize \in Nat /\ 0 \in 0..MaxFaults /\ Len(<<>>) = 0
    BY ListenAssumption DEF Times
  <1>2. Absent \in Content
    BY DEF Absent, Content
  <1>3. Walked /\ Saved
    BY NoneFacts DEF Init, Walked, Saved
  <1>4. Len(gate) <= GateSize
    BY <1>1 DEF Init
  <1>5. wire \in Seq(Frame) /\ gate \in Seq(Ids \cup Facts) /\ out \in Seq(Ids \cup Facts)
    BY DEF Init
  <1>6. watermark \in Watermarks(Ids, Times)
    BY FreshFacts DEF Init, Marks
  <1>7. QED
    BY <1>1, <1>2, <1>3, <1>4, <1>5, <1>6 DEF TypeOK, Init, Walked, Saved, Table

\* The ways in which a step changes the tables of walks and saves.
LEMMA TypeTables ==
  ASSUME TypeOK
  PROVE  /\ Walked /\ Saved /\ watermark \in Marks
         /\ \A k \in DOMAIN walks : walks[k] \in Walk
         /\ \A s \in DOMAIN saves : saves[s] \in Save
  BY DEF TypeOK, Walked, Saved, Table, Marks

LEMMA FromTables ==
  ASSUME Walked', Saved'
  PROVE  /\ DOMAIN walks' \subseteq Walks /\ walks' \in [DOMAIN walks' -> Walk]
         /\ DOMAIN saves' \subseteq Saver /\ saves' \in [DOMAIN saves' -> Save]
  BY DEF Walked, Saved, Table

LEMMA SaveTable ==
  ASSUME TypeOK, NEW s \in Saver, NEW w \in Marks, StartSave(s, w)
  PROVE  /\ Saved'
         /\ DOMAIN saves' = DOMAIN saves \cup {s}
         /\ \A r \in DOMAIN saves' : saves'[r].snap = IF r = s THEN w ELSE saves[r].snap
  <1>1. PICK row : row = [snap |-> w, phase |-> "queued", file |-> "none"]
    OBVIOUS
  <1>2. row \in Save /\ row.snap = w
    BY <1>1 DEF Save, Marks
  <1>3. saves' = Put(saves, s, row)
    BY <1>1 DEF StartSave
  <1>4. Table(saves', Saver, Save) /\ DOMAIN saves' = DOMAIN saves \cup {s}
        /\ \A x \in DOMAIN saves \cup {s} : saves'[x] = IF x = s THEN row ELSE saves[x]
    <2>1. Table(saves, Saver, Save)
      BY TypeTables DEF Saved
    <2>2. /\ Table(Put(saves, s, row), Saver, Save)
          /\ DOMAIN Put(saves, s, row) = DOMAIN saves \cup {s}
          /\ \A x \in DOMAIN saves \cup {s} : Put(saves, s, row)[x] = IF x = s THEN row ELSE saves[x]
      <3>1. Table(Put(saves, s, row), Saver, Save)
        BY <1>2, <2>1, PutFacts
      <3>2. DOMAIN Put(saves, s, row) = DOMAIN saves \cup {s}
        BY DEF Put
      <3>3. \A x \in DOMAIN saves \cup {s} : Put(saves, s, row)[x] = IF x = s THEN row ELSE saves[x]
        BY DEF Put
      <3>4. QED
        BY <3>1, <3>2, <3>3
    <2>3. QED
      BY <1>3, <2>2
  <1>5. QED
    BY <1>2, <1>4 DEF Saved

LEMMA AskTable ==
  ASSUME TypeOK, NEW k, walks' = [walks EXCEPT ![k] = Asking(@)]
  PROVE  /\ Walked' /\ DOMAIN walks' = DOMAIN walks
         /\ \A j \in DOMAIN walks : walks'[j].rest = walks[j].rest
         /\ k \in DOMAIN walks => walks'[k].phase = "asked"
         /\ \A j \in DOMAIN walks \ {k} : walks'[j] = walks[j]
  <1>1. PICK row : row = Asking(walks[k])
    OBVIOUS
  <1>2. walks' = [walks EXCEPT ![k] = row]
    BY <1>1
  <1>3. ASSUME k \in DOMAIN walks
        PROVE  row \in Walk /\ row.phase = "asked" /\ row.rest = walks[k].rest
    <2>1. walks[k] \in Walk
      BY <1>3, TypeTables
    <2>2. row = [walks[k] EXCEPT !.phase = "asked", !.cursor = Cursor(watermark), !.fresh = FALSE]
      BY <1>1 DEF Asking
    <2>3. Cursor(watermark) \in [at: Times, id: Ids \cup {0}]
      BY TypeTables, MarkFields
    <2>4. QED
      BY <2>1, <2>2, <2>3 DEF Walk
  <1>4. Table(walks', Walks, Walk)
    <2>1. Table(walks, Walks, Walk)
      BY TypeTables DEF Walked
    <2>2. Table([walks EXCEPT ![k] = row], Walks, Walk)
      BY <1>3, <2>1, ChangeFacts
    <2>3. QED
      BY <1>2, <2>2
  <1>5. DOMAIN walks' = DOMAIN walks /\ \A j \in DOMAIN walks : walks'[j] = IF j = k THEN row ELSE walks[j]
    BY <1>2, TypeTables DEF Walked, Table
  <1>6. QED
    BY <1>3, <1>4, <1>5 DEF Walked

LEMMA DropTable ==
  ASSUME TypeOK, NEW k, walks' = Drop(walks, k)
  PROVE  /\ Walked' /\ DOMAIN walks' \subseteq DOMAIN walks
         /\ \A j \in DOMAIN walks' : walks'[j] = walks[j]
  <1>1. Table(walks, Walks, Walk)
    BY TypeTables DEF Walked
  <1>2. /\ Table(Drop(walks, k), Walks, Walk)
        /\ DOMAIN Drop(walks, k) = DOMAIN walks \ {k}
        /\ \A x \in DOMAIN walks \ {k} : Drop(walks, k)[x] = walks[x]
    <2>1. Table(Drop(walks, k), Walks, Walk)
      BY <1>1, DropFacts
    <2>2. DOMAIN Drop(walks, k) = DOMAIN walks \ {k}
      BY DEF Drop, Restrict
    <2>3. \A x \in DOMAIN walks \ {k} : Drop(walks, k)[x] = walks[x]
      BY DEF Drop, Restrict
    <2>4. QED
      BY <2>1, <2>2, <2>3
  <1>3. QED
    BY <1>2 DEF Walked

LEMMA PushTypes ==
  ASSUME TypeOK, NEW frame \in Frame, Push(frame)
  PROVE  wire' \in Seq(Frame)
  BY AppendProperties DEF Push, TypeOK

-----------------------------------------------------------------------------
LEMMA OperatorTypes ==
  ASSUME TypeOK, Tick \/ (\E id \in Ids : Deliver(id)) \/ (\E id \in Facts : SendFact(id))
  PROVE  TypeOK'
  <1>1. CASE Tick
    <2>1. now' \in Times
      BY <1>1, ListenAssumption DEF Tick, TypeOK, Times
    <2>2. QED
      BY <1>1, <2>1 DEF Tick, TypeOK, socket, storage
  <1>2. ASSUME NEW id \in Ids, Deliver(id)
        PROVE  TypeOK'
    <2>1. PICK row : row = [at |-> now, id |-> id]
      OBVIOUS
    <2>2. row \in Frame /\ row \in [at: Times, id: Ids]
      BY <2>1 DEF Frame, TypeOK
    <2>3. box' = box \cup {row} /\ Push(row)
      BY <1>2, <2>1 DEF Deliver
    <2>4. wire' \in Seq(Frame)
      BY <2>2, <2>3, PushTypes
    <2>5. QED
      BY <1>2, <2>2, <2>3, <2>4 DEF Deliver, TypeOK, storage
  <1>3. ASSUME NEW id \in Facts, SendFact(id)
        PROVE  TypeOK'
    <2>1. PICK row : row = [at |-> now, id |-> id]
      OBVIOUS
    <2>2. row \in Frame
      BY <2>1 DEF Frame, TypeOK
    <2>3. wire' \in Seq(Frame)
      BY <1>3, <2>1, <2>2, PushTypes DEF SendFact
    <2>4. QED
      BY <1>3, <2>3 DEF SendFact, TypeOK, storage
  <1>4. QED
    BY <1>1, <1>2, <1>3

LEMMA LinkTypes ==
  ASSUME TypeOK, Dial \/ (\E k \in Walks : Open(k)) \/ Lose
  PROVE  TypeOK'
  <1>1. CASE Dial
    BY <1>1 DEF Dial, TypeOK, operator, storage
  <1>2. ASSUME NEW k \in Walks, Open(k)
        PROVE  TypeOK'
    <2>1. PICK row : row = [phase |-> "auth", cursor |-> Cursor(Fresh), rest |-> {},
                            more |-> FALSE, fresh |-> FALSE]
      OBVIOUS
    <2>2. row \in Walk
      BY <2>1, FreshFacts, MarkFields DEF Walk
    <2>3. Table(walks', Walks, Walk)
      BY <1>2, <2>1, <2>2, PutFacts, TypeTables DEF Open, Walked
    <2>4. QED
      BY <1>2, <2>3 DEF Open, TypeOK, operator, storage, Table
  <1>3. CASE Lose
    <2>1. faults' \in 0..MaxFaults /\ wire' \in Seq(Frame)
      BY <1>3, ListenAssumption DEF Lose, TypeOK
    <2>2. QED
      BY <1>3, <2>1 DEF Lose, TypeOK, operator, storage
  <1>4. QED
    BY <1>1, <1>2, <1>3

\* A frame is a row of the mailbox, or a fact.
LEMMA HeadFacts ==
  ASSUME TypeOK, wire # <<>>
  PROVE  /\ Head(wire) \in Frame /\ Head(wire).id \in Ids \cup Facts
         /\ Head(wire).id \in Ids => Head(wire) \in Rows
         /\ Tail(wire) \in Seq(Frame)
  <1>1. Head(wire) \in Frame /\ Tail(wire) \in Seq(Frame)
    BY HeadTailProperties DEF TypeOK
  <1>2. QED
    BY <1>1 DEF Frame, Rows

\* What printing does to the output.
LEMMA SurfaceFacts ==
  ASSUME TypeOK, NEW id \in Ids \cup Facts, Surface(id)
  PROVE  /\ out' \in Seq(Ids \cup Facts) /\ printed' = printed \cup {id}
         /\ DOMAIN out' = DOMAIN out \cup {Len(out) + 1} /\ Len(out) + 1 \notin DOMAIN out
         /\ \A i \in DOMAIN out : out'[i] = out[i]
         /\ out'[Len(out) + 1] = id
  <1>1. out \in Seq(Ids \cup Facts) /\ out' = Append(out, id) /\ printed' = printed \cup {id}
    BY DEF TypeOK, Surface
  <1>2. /\ out' \in Seq(Ids \cup Facts) /\ Len(out') = Len(out) + 1
        /\ \A i \in 1..Len(out) : out'[i] = out[i]
        /\ out'[Len(out) + 1] = id
    BY <1>1, AppendProperties
  <1>3. Len(out) \in Nat /\ DOMAIN out = 1..Len(out) /\ DOMAIN out' = 1..Len(out')
    BY <1>1, <1>2, LenProperties
  <1>4. QED
    BY <1>1, <1>2, <1>3


LEMMA ReceiveTypes ==
  ASSUME TypeOK, ReceiveFrame
  PROVE  TypeOK'
  <1>1. PICK frame : frame = Head(wire)
    OBVIOUS
  <1>2. /\ frame.id \in Ids \cup Facts /\ (frame.id \in Ids => frame \in Rows)
        /\ Tail(wire) \in Seq(Frame)
    BY <1>1, HeadFacts DEF ReceiveFrame
  <1>3. gate' = Gated(frame.id) /\ wire' = Tail(wire)
    BY <1>1 DEF ReceiveFrame
  <1>4. gate' \in Seq(Ids \cup Facts) /\ Len(gate') <= GateSize
    BY <1>2, <1>3, GateFacts DEF TypeOK
  <1>5. PICK w : w = IF frame.id \in Facts THEN watermark ELSE advanceWatermark(watermark, frame)
    OBVIOUS
  <1>6. w \in Marks
    <2>1. CASE frame.id \in Facts
      BY <1>5, <2>1, TypeTables
    <2>2. CASE frame.id \notin Facts
      BY <1>2, <1>5, <2>2, AdvanceFacts, TypeTables
    <2>3. QED
      BY <2>1, <2>2
  <1>7. CASE NotPrinted /\ UNCHANGED <<watermark, saves>>
    BY <1>2, <1>3, <1>4, <1>7 DEF ReceiveFrame, TypeOK, operator, NotPrinted
  <1>8. CASE watermark' = w /\ StartSave(<<"frame", frame.id>>, w) /\ Surface(frame.id)
    <2>1. <<"frame", frame.id>> \in Saver
      BY <1>2 DEF Saver
    <2>2. Saved'
      BY <1>6, <1>8, <2>1, SaveTable
    <2>3. out' \in Seq(Ids \cup Facts) /\ printed' = printed \cup {frame.id}
      BY <1>2, <1>8, SurfaceFacts
    <2>4. QED
      BY <1>2, <1>3, <1>4, <1>6, <1>8, <2>2, <2>3 DEF ReceiveFrame, TypeOK, operator, Saved, Table, Marks
  <1>9. QED
    BY <1>1, <1>5, <1>7, <1>8 DEF ReceiveFrame

LEMMA WalkTypes ==
  ASSUME TypeOK, NEW k \in Walks, WalkStep(k) \/ FailWalk(k)
  PROVE  TypeOK'
  <1>1. CASE Ask(k)
    <2>1. Walked'
      BY <1>1, AskTable DEF Ask
    <2>2. QED
      BY <1>1, <2>1 DEF Ask, TypeOK, operator, socket, storage, Walked, Table
  <1>2. CASE Answer(k)
    <2>1. PICK row : row = [walks[k] EXCEPT !.phase = "answered",
                                            !.rest = Page(box, walks[k].cursor, Limit),
                                            !.more = PromisesMore(Page(box, walks[k].cursor, Limit), Limit)]
      OBVIOUS
    <2>2. walks[k] \in Walk
      BY <1>2, TypeTables DEF Answer
    <2>3. Page(box, walks[k].cursor, Limit) \subseteq [at: Times, id: Ids]
      BY PageFacts DEF TypeOK
    <2>4. PromisesMore(Page(box, walks[k].cursor, Limit), Limit) \in BOOLEAN
      BY DEF PromisesMore
    <2>5. row \in Walk
      BY <2>1, <2>2, <2>3, <2>4 DEF Walk
    <2>6. walks' = [walks EXCEPT ![k] = row]
      BY <1>2, <2>1 DEF Answer
    <2>7. Table(walks', Walks, Walk)
      BY <2>5, <2>6, TypeTables DEF Table, Walked
    <2>8. QED
      BY <1>2, <2>7 DEF Answer, TypeOK, operator, socket, storage, Table
  <1>3. CASE Header(k)
    <2>1. PICK row \in walks[k].rest :
            IF hasSeen(watermark, row.id)
            THEN /\ walks' = [walks EXCEPT ![k].phase = "page", ![k].rest = @ \ {row}]
                 /\ NotPrinted /\ UNCHANGED watermark
            ELSE /\ walks' = [walks EXCEPT ![k].phase = "page", ![k].rest = @ \ {row},
                                           ![k].fresh = TRUE]
                 /\ watermark' = advanceWatermark(watermark, row)
                 /\ Surface(row.id)
      BY <1>3 DEF Header
    <2>2. walks[k] \in Walk /\ k \in DOMAIN walks
      BY <1>3, TypeTables DEF Header, Turn
    <2>3. row \in Rows /\ row.id \in Ids
      BY <2>2 DEF Walk, Rows
    <2>4. Walked'
      <3>1. PICK r : \/ r = [walks[k] EXCEPT !.phase = "page", !.rest = @ \ {row}]
                          /\ walks' = [walks EXCEPT ![k] = r]
                     \/ r = [walks[k] EXCEPT !.phase = "page", !.rest = @ \ {row}, !.fresh = TRUE]
                          /\ walks' = [walks EXCEPT ![k] = r]
        <4>1. CASE hasSeen(watermark, row.id)
          <5>1. walks' = [walks EXCEPT ![k].phase = "page", ![k].rest = @ \ {row}]
            BY <2>1, <4>1
          <5>2. walks' = [walks EXCEPT ![k] = [walks[k] EXCEPT !.phase = "page", !.rest = @ \ {row}]]
            BY <2>2, <5>1
          <5>3. QED
            BY <5>2
        <4>2. CASE ~hasSeen(watermark, row.id)
          <5>1. walks' = [walks EXCEPT ![k].phase = "page", ![k].rest = @ \ {row}, ![k].fresh = TRUE]
            BY <2>1, <4>2
          <5>2. walks' = [walks EXCEPT ![k] =
                            [walks[k] EXCEPT !.phase = "page", !.rest = @ \ {row}, !.fresh = TRUE]]
            BY <2>2, <5>1
          <5>3. QED
            BY <5>2
        <4>3. QED
          BY <4>1, <4>2
      <3>2. r \in Walk
        <4>1. ASSUME r = [walks[k] EXCEPT !.phase = "page", !.rest = @ \ {row}] PROVE r \in Walk
          BY <2>2, <4>1 DEF Walk
        <4>2. ASSUME r = [walks[k] EXCEPT !.phase = "page", !.rest = @ \ {row}, !.fresh = TRUE]
              PROVE  r \in Walk
          BY <2>2, <4>2 DEF Walk
        <4>3. QED
          BY <3>1, <4>1, <4>2
      <3>3. Table(walks', Walks, Walk)
        BY <3>1, <3>2, TypeTables DEF Table, Walked
      <3>4. QED
        BY <3>3 DEF Walked
    <2>5. CASE hasSeen(watermark, row.id)
      BY <1>3, <2>1, <2>4, <2>5 DEF Header, TypeOK, operator, socket, storage, Walked, Table, NotPrinted
    <2>6. CASE ~hasSeen(watermark, row.id)
      <3>1. watermark' \in Marks
        BY <2>1, <2>3, <2>6, AdvanceFacts, TypeTables
      <3>2. out' \in Seq(Ids \cup Facts) /\ printed' = printed \cup {row.id}
        BY <2>1, <2>3, <2>6, SurfaceFacts
      <3>3. QED
        BY <1>3, <2>3, <2>4, <3>1, <3>2 DEF Header, TypeOK, operator, socket, storage, Walked, Table, Marks
    <2>7. QED
      BY <2>5, <2>6
  <1>4. CASE EndPage(k)
    <2>1. k \in DOMAIN walks
      BY <1>4 DEF EndPage, Turn
    <2>2. Walked' /\ Saved'
      <3>1. CASE walks[k].fresh
        <4>1. PICK r : r = [walks[k] EXCEPT !.phase = "save"]
          OBVIOUS
        <4>2. r \in Walk
          BY <2>1, <4>1, TypeTables DEF Walk
        <4>3. walks' = [walks EXCEPT ![k] = r] /\ StartSave(<<"walk", k>>, watermark)
          BY <1>4, <3>1, <4>1 DEF EndPage
        <4>4. Table(walks', Walks, Walk)
          BY <4>2, <4>3, TypeTables DEF Table, Walked
        <4>5. <<"walk", k>> \in Saver
          BY DEF Saver
        <4>6. QED
          BY <4>3, <4>4, <4>5, SaveTable, TypeTables DEF Walked
      <3>2. CASE ~walks[k].fresh
        <4>1. saves' = saves /\ Saved
          BY <1>4, <3>2, TypeTables DEF EndPage
        <4>2. walks' = [walks EXCEPT ![k] = Asking(@)] \/ walks' = Drop(walks, k)
          BY <1>4, <3>2 DEF EndPage
        <4>3. QED
          BY <4>1, <4>2, AskTable, DropTable DEF Saved
      <3>3. QED
        BY <3>1, <3>2
    <2>3. QED
      BY <1>4, <2>2, FromTables DEF EndPage, TypeOK, operator, socket
  <1>5. CASE FailWalk(k)
    <2>1. Walked'
      BY <1>5, DropTable DEF FailWalk
    <2>2. faults' \in 0..MaxFaults
      BY <1>5, ListenAssumption DEF FailWalk, TypeOK
    <2>3. QED
      BY <1>5, <2>1, <2>2 DEF FailWalk, TypeOK, operator, socket, storage, Walked, Table
  <1>6. QED
    BY <1>1, <1>2, <1>3, <1>4, <1>5 DEF WalkStep

\* A process that ends leaves nothing in memory.
LEMMA DieTypes ==
  ASSUME TypeOK, Die
  PROVE  /\ alive' \in BOOLEAN /\ link' \in {"down", "dialed", "open"} /\ wire' \in Seq(Frame)
         /\ watermark' \in Marks /\ gate' \in Seq(Ids \cup Facts) /\ Len(gate') <= GateSize
         /\ Walked' /\ Saved' /\ tmp' \in Content /\ out' \in Seq(Ids \cup Facts)
  <1>1. Absent \in Content /\ GateSize \in Nat /\ Len(<<>>) = 0
    BY ListenAssumption DEF Absent, Content
  <1>2. Walked' /\ Saved'
    BY NoneFacts DEF Die, Walked, Saved
  <1>3. Len(gate') <= GateSize
    BY <1>1 DEF Die
  <1>4. alive' \in BOOLEAN /\ link' \in {"down", "dialed", "open"} /\ watermark' \in Marks
    BY FreshFacts DEF Die
  <1>5. wire' = <<>> /\ gate' = <<>> /\ out' = <<>> /\ tmp' \in Content
    BY <1>1 DEF Die
  <1>6. QED
    BY <1>2, <1>3, <1>4, <1>5

LEMMA SaveTypes ==
  ASSUME TypeOK, NEW s \in Saver, SaveStep(s)
  PROVE  TypeOK'
  <1>0. s \in DOMAIN saves /\ saves[s] \in Save /\ saves[s].snap \in Marks
    <2>1. s \in DOMAIN saves
      BY DEF SaveStep, SaveOpen, SaveWrite, SaveRename, SaveLost
    <2>2. QED
      BY <2>1, TypeTables DEF Save, Marks
  <1>1. CASE SaveOpen(s)
    <2>1. PICK r : r = [saves[s] EXCEPT !.phase = "open", !.file = "tmp"]
      OBVIOUS
    <2>2. r \in Save /\ saves' = [saves EXCEPT ![s] = r]
      BY <1>0, <1>1, <2>1 DEF Save, SaveOpen
    <2>3. Table(saves', Saver, Save)
      BY <2>2, TypeTables DEF Table, Saved
    <2>4. Torn \in Content
      BY DEF Torn, Content
    <2>5. QED
      BY <1>1, <2>3, <2>4 DEF SaveOpen, TypeOK, operator, socket, Table
  <1>2. CASE SaveWrite(s)
    <2>1. PICK r : r = [saves[s] EXCEPT !.phase = "written"]
      OBVIOUS
    <2>2. r \in Save /\ saves' = [saves EXCEPT ![s] = r]
      BY <1>0, <1>2, <2>1 DEF Save, SaveWrite
    <2>3. Table(saves', Saver, Save)
      BY <2>2, TypeTables DEF Table, Saved
    <2>4. \A c : Overwritten(c, saves[s].snap) \subseteq Content
      BY <1>0 DEF Overwritten, Whole, Torn, Content, Marks
    <2>5. tmp' \in Content /\ disk' \in Content
      BY <1>2, <2>4 DEF SaveWrite, TypeOK
    <2>6. QED
      BY <1>2, <2>3, <2>5 DEF SaveWrite, TypeOK, operator, socket, Table
  <1>3. ASSUME Resume(s) PROVE Walked'
    BY <1>3, AskTable, DropTable, TypeTables DEF Resume, Walked
  <1>4. CASE SaveRename(s)
    <2>1. saves' = [r \in DOMAIN saves \ {s} |-> [saves[r] EXCEPT !.file = Renamed(@)]]
      BY <1>4 DEF SaveRename
    <2>2. ASSUME NEW r \in DOMAIN saves PROVE [saves[r] EXCEPT !.file = Renamed(@)] \in Save
      BY TypeTables DEF Save, Renamed
    <2>3. Table(saves', Saver, Save)
      BY <2>1, <2>2, TypeTables DEF Table, Saved
    <2>4. Absent \in Content
      BY DEF Absent, Content
    <2>5. Walked'
      BY <1>3, <1>4 DEF SaveRename
    <2>6. QED
      BY <1>4, <2>3, <2>4, <2>5 DEF SaveRename, TypeOK, operator, socket, Walked, Table
  <1>5. CASE SaveLost(s) /\ Die
    BY <1>5, DieTypes, FromTables DEF SaveLost, TypeOK, operator, Marks
  <1>6. CASE SaveLost(s) /\ ~Die
    <2>1. walks' = Drop(walks, s[2]) /\ saves' = Drop(saves, s)
      BY <1>6 DEF SaveLost
    <2>2. Walked'
      BY <2>1, DropTable
    <2>3. Table(saves', Saver, Save)
      BY <2>1, TypeTables DEF Table, Saved, Drop, Restrict
    <2>4. QED
      BY <1>6, <2>2, <2>3 DEF SaveLost, TypeOK, operator, socket, Walked, Table
  <1>7. QED
    BY <1>1, <1>2, <1>4, <1>5, <1>6 DEF SaveStep

LEMMA EndTypes ==
  ASSUME TypeOK, Kill \/ Start
  PROVE  TypeOK'
  <1>1. CASE Kill
    <2>1. faults' \in 0..MaxFaults
      BY <1>1, ListenAssumption DEF Kill, TypeOK
    <2>2. QED
      BY <1>1, <2>1, DieTypes, FromTables DEF Kill, TypeOK, operator, Marks
  <1>2. CASE Start
    <2>1. watermark' \in Marks
      BY <1>2, FreshFacts DEF Start, TypeOK, Content, Marks
    <2>2. QED
      BY <1>2, <2>1 DEF Start, TypeOK, operator, socket, storage, Marks
  <1>3. QED
    BY <1>1, <1>2

LEMMA TypeStep == TypeOK /\ [Next]_vars => TypeOK'
  <1> SUFFICES ASSUME TypeOK, [Next]_vars PROVE TypeOK'
    OBVIOUS
  <1>1. CASE UNCHANGED vars
    BY <1>1 DEF vars, operator, socket, storage, TypeOK
  <1>2. CASE Next
    BY <1>2, OperatorTypes, LinkTypes, ReceiveTypes, WalkTypes, SaveTypes, EndTypes DEF Next
  <1>3. QED
    BY <1>1, <1>2


-----------------------------------------------------------------------------
\* What is in the marks

\* A mark that is kept: in memory, in a save under way, or in a file.
Kept(m) ==
  \/ m = watermark
  \/ \E s \in DOMAIN saves : m = saves[s].snap
  \/ \E f \in {tmp, disk} : f.state = "whole" /\ m = f.mark

\* It claims nothing that was not printed, and remembers each envelope with the time of
\* its row in the mailbox.
Good(m) ==
  /\ Claims(m) \subseteq printed
  /\ \A i \in DOMAIN m.dedup : \E r \in box : r.id = i /\ r.at = m.dedup[i]

MarksInv == \A m \in Marks : Kept(m) => Good(m)

\* Ids are the keys of the mailbox; what is on its way to the client is a row of it.
BoxInv ==
  /\ \A r, q \in box : r.id = q.id => r = q
  /\ \A i \in DOMAIN wire : wire[i].id \in Ids => wire[i] \in box
  /\ \A k \in DOMAIN walks : walks[k].rest \subseteq box

\* The gate holds what was printed.
GateInv == \A i \in DOMAIN gate : gate[i] \in printed

IInv == TypeOK /\ BoxInv /\ MarksInv /\ GateInv

LEMMA InitFacts == Init => IInv
  <1> SUFFICES ASSUME Init PROVE IInv
    OBVIOUS
  <1>1. TypeOK
    BY InitTypes
  <1>2. BoxInv /\ GateInv
    BY NoneFacts DEF Init, BoxInv, GateInv, None
  <1>3. MarksInv
    <2>1. ASSUME NEW m, Kept(m) PROVE m = Fresh
      <3>1. DOMAIN saves = {} /\ Absent.state # "whole"
        BY DEF Init, None, Absent
      <3>2. QED
        BY <2>1, <3>1 DEF Init, Kept
    <2>2. Good(Fresh)
      BY FreshFacts DEF Good, Claims
    <2>3. QED
      BY <2>1, <2>2 DEF MarksInv
  <1>4. QED
    BY <1>1, <1>2, <1>3 DEF IInv

\* A header of a page, and what handling it does.
LEMMA HeaderFacts ==
  ASSUME TypeOK, BoxInv, NEW k \in Walks, Header(k)
  PROVE  \E row \in walks[k].rest :
           /\ row \in box /\ row \in Rows /\ row.id \in Ids
           /\ DOMAIN walks' = DOMAIN walks /\ k \in DOMAIN walks
           /\ \A j \in DOMAIN walks \ {k} : walks'[j] = walks[j]
           /\ walks'[k].rest = walks[k].rest \ {row}
           /\ \/ hasSeen(watermark, row.id) /\ NotPrinted /\ UNCHANGED watermark
              \/ /\ ~hasSeen(watermark, row.id) /\ Surface(row.id)
                 /\ watermark' = advanceWatermark(watermark, row)
  <1>1. PICK row \in walks[k].rest :
          IF hasSeen(watermark, row.id)
          THEN /\ walks' = [walks EXCEPT ![k].phase = "page", ![k].rest = @ \ {row}]
               /\ NotPrinted /\ UNCHANGED watermark
          ELSE /\ walks' = [walks EXCEPT ![k].phase = "page", ![k].rest = @ \ {row},
                                         ![k].fresh = TRUE]
               /\ watermark' = advanceWatermark(watermark, row)
               /\ Surface(row.id)
    BY DEF Header
  <1>2. walks[k] \in Walk /\ k \in DOMAIN walks /\ alive
    BY TypeTables DEF Header, Turn
  <1>3. row \in box /\ row \in Rows /\ row.id \in Ids
    <2>1. row \in box
      BY <1>2 DEF BoxInv
    <2>2. QED
      BY <2>1 DEF TypeOK, Rows
  <1>4. DOMAIN walks' = DOMAIN walks /\ \A j \in DOMAIN walks \ {k} : walks'[j] = walks[j]
    BY <1>1
  <1>5. walks'[k].rest = walks[k].rest \ {row}
    <2>1. CASE hasSeen(watermark, row.id)
      BY <1>1, <1>2, <2>1 DEF Walk
    <2>2. CASE ~hasSeen(watermark, row.id)
      <3>1. walks' = [walks EXCEPT ![k] = [walks[k] EXCEPT !.phase = "page", !.rest = @ \ {row}, !.fresh = TRUE]]
        BY <1>1, <1>2, <2>2
      <3>2. walks'[k] = [walks[k] EXCEPT !.phase = "page", !.rest = @ \ {row}, !.fresh = TRUE]
        BY <1>2, <3>1
      <3>3. QED
        BY <1>2, <3>2 DEF Walk
    <2>3. QED
      BY <2>1, <2>2
  <1>6. QED
    BY <1>1, <1>2, <1>3, <1>4, <1>5

\* A frame, and what receiving it does.
LEMMA ReceiveFacts ==
  ASSUME TypeOK, BoxInv, ReceiveFrame
  PROVE  \E frame :
           /\ frame = Head(wire) /\ wire # <<>> /\ wire' = Tail(wire) /\ gate' = Gated(frame.id)
           /\ frame.id \in Ids \cup Facts
           /\ frame.id \in Ids => frame \in box /\ frame \in Rows
           /\ \/ /\ Seen(frame.id) \/ (frame.id \in Ids /\ hasSeen(watermark, frame.id))
                 /\ NotPrinted /\ UNCHANGED <<watermark, saves>>
              \/ /\ ~Seen(frame.id) /\ Surface(frame.id)
                 /\ \/ frame.id \in Facts /\ watermark' = watermark
                    \/ /\ frame.id \in Ids /\ ~hasSeen(watermark, frame.id)
                       /\ watermark' = advanceWatermark(watermark, frame)
                 /\ watermark' \in Marks
                 /\ StartSave(<<"frame", frame.id>>, watermark')
  <1>1. PICK frame : frame = Head(wire)
    OBVIOUS
  <1>2. wire # <<>> /\ wire' = Tail(wire) /\ gate' = Gated(frame.id)
    BY <1>1 DEF ReceiveFrame
  <1>3. frame.id \in Ids \cup Facts /\ (frame.id \in Ids => frame \in Rows)
    BY <1>1, <1>2, HeadFacts
  <1>4. frame.id \in Ids => frame \in box
    <2>1. 1 \in DOMAIN wire /\ frame = wire[1]
      <3>1. Len(wire) \in Nat /\ DOMAIN wire = 1..Len(wire) /\ Len(wire) # 0
        BY <1>2, LenProperties, EmptySeq DEF TypeOK
      <3>2. QED
        BY <1>1, <1>2, <3>1 DEF TypeOK
    <2>2. QED
      BY <2>1 DEF BoxInv
  <1>5. PICK w : w = IF frame.id \in Facts THEN watermark ELSE advanceWatermark(watermark, frame)
    OBVIOUS
  <1>6. \/ /\ Seen(frame.id) \/ (frame.id \in Ids /\ hasSeen(watermark, frame.id))
           /\ NotPrinted /\ UNCHANGED <<watermark, saves>>
        \/ /\ ~Seen(frame.id) /\ (frame.id \in Ids => ~hasSeen(watermark, frame.id))
           /\ watermark' = w /\ StartSave(<<"frame", frame.id>>, w) /\ Surface(frame.id)
    BY <1>1, <1>5 DEF ReceiveFrame
  <1>7. frame.id \notin Facts <=> frame.id \in Ids
    BY <1>3, ListenAssumption
  <1>8. TypeOK'
    BY ReceiveTypes
  <1>9. QED
    BY <1>1, <1>2, <1>3, <1>4, <1>5, <1>6, <1>7, <1>8 DEF TypeOK, Marks

\* Where a mark comes from.
LEMMA KeptStep ==
  ASSUME TypeOK, BoxInv, Next, NEW m, Kept(m)'
  PROVE  \/ Kept(m) \/ m = Fresh
         \/ \E row \in box : /\ row \in Rows /\ row.id \in printed'
                             /\ m = advanceWatermark(watermark, row)
  <1>1. CASE UNCHANGED <<watermark, storage>>
    BY <1>1 DEF Kept, storage
  <1>2. CASE ReceiveFrame
    <2>1. PICK frame :
           /\ frame.id \in Ids \cup Facts
           /\ frame.id \in Ids => frame \in box /\ frame \in Rows
           /\ \/ UNCHANGED <<watermark, saves>>
              \/ /\ Surface(frame.id)
                 /\ \/ frame.id \in Facts /\ watermark' = watermark
                    \/ frame.id \in Ids /\ watermark' = advanceWatermark(watermark, frame)
                 /\ watermark' \in Marks
                 /\ StartSave(<<"frame", frame.id>>, watermark')
      BY <1>2, ReceiveFacts
    <2>2. UNCHANGED <<tmp, disk>>
      BY <1>2 DEF ReceiveFrame
    <2>3. CASE UNCHANGED <<watermark, saves>>
      BY <2>2, <2>3 DEF Kept
    <2>4. CASE /\ Surface(frame.id)
               /\ \/ frame.id \in Facts /\ watermark' = watermark
                  \/ frame.id \in Ids /\ watermark' = advanceWatermark(watermark, frame)
               /\ watermark' \in Marks
               /\ StartSave(<<"frame", frame.id>>, watermark')
      <3>1. <<"frame", frame.id>> \in Saver
        BY <2>1 DEF Saver
      <3>2. PICK w \in Marks : w = watermark'
        BY <2>4
      <3>3. /\ DOMAIN saves' = DOMAIN saves \cup {<<"frame", frame.id>>}
            /\ \A r \in DOMAIN saves' : saves'[r].snap = IF r = <<"frame", frame.id>> THEN w ELSE saves[r].snap
        BY <2>4, <3>1, <3>2, SaveTable
      <3>4. m = w \/ Kept(m)
        BY <2>2, <3>2, <3>3 DEF Kept
      <3>5. frame.id \in printed'
        BY <2>4 DEF Surface
      <3>6. QED
        BY <2>1, <2>4, <3>2, <3>4, <3>5 DEF Kept
    <2>5. QED
      BY <2>1, <2>3, <2>4
  <1>3. ASSUME NEW k \in Walks, Header(k)
        PROVE  \/ Kept(m)
               \/ \E row \in box : /\ row \in Rows /\ row.id \in printed'
                                   /\ m = advanceWatermark(watermark, row)
    <2>1. PICK row \in walks[k].rest :
            /\ row \in box /\ row \in Rows
            /\ \/ UNCHANGED watermark
               \/ Surface(row.id) /\ watermark' = advanceWatermark(watermark, row)
      BY <1>3, HeaderFacts
    <2>2. UNCHANGED storage
      BY <1>3 DEF Header
    <2>3. QED
      BY <2>1, <2>2 DEF Kept, storage, Surface
  <1>4. ASSUME NEW k \in Walks, EndPage(k)
        PROVE  Kept(m)
    <2>1. UNCHANGED <<watermark, tmp, disk>>
      BY <1>4 DEF EndPage
    <2>2. CASE saves' = saves
      BY <2>1, <2>2 DEF Kept
    <2>3. CASE StartSave(<<"walk", k>>, watermark)
      <3>1. <<"walk", k>> \in Saver
        BY DEF Saver
      <3>2. /\ DOMAIN saves' = DOMAIN saves \cup {<<"walk", k>>}
            /\ \A r \in DOMAIN saves' : saves'[r].snap = IF r = <<"walk", k>> THEN watermark ELSE saves[r].snap
        BY <2>3, <3>1, SaveTable, TypeTables
      <3>3. QED
        BY <2>1, <3>2 DEF Kept
    <2>4. QED
      BY <1>4, <2>2, <2>3 DEF EndPage
  <1>5. ASSUME NEW s \in Saver, SaveOpen(s) \/ SaveWrite(s)
        PROVE  Kept(m)
    <2>1. s \in DOMAIN saves /\ watermark' = watermark
      BY <1>5 DEF SaveOpen, SaveWrite
    <2>2. DOMAIN saves' = DOMAIN saves /\ \A r \in DOMAIN saves : saves'[r].snap = saves[r].snap
      <3>1. \A r \in DOMAIN saves : saves[r] \in Save
        BY TypeTables
      <3>2. CASE SaveOpen(s)
        BY <3>1, <3>2 DEF SaveOpen, Save
      <3>3. CASE SaveWrite(s)
        BY <3>1, <3>3 DEF SaveWrite, Save
      <3>4. QED
        BY <1>5, <3>2, <3>3
    <2>3. \A f \in {tmp', disk'} : f \in {tmp, disk, Torn, Whole(saves[s].snap)}
      <3>1. CASE SaveOpen(s)
        BY <3>1 DEF SaveOpen
      <3>2. CASE SaveWrite(s)
        BY <3>2 DEF SaveWrite, Overwritten
      <3>3. QED
        BY <1>5, <3>1, <3>2
    <2>4. Torn.state # "whole" /\ Whole(saves[s].snap).mark = saves[s].snap
      BY DEF Torn, Whole
    <2>5. QED
      BY <2>1, <2>2, <2>3, <2>4 DEF Kept
  <1>6. ASSUME NEW s \in Saver, SaveRename(s)
        PROVE  Kept(m)
    <2>1. disk' = tmp /\ tmp' = Absent /\ watermark' = watermark /\ Absent.state # "whole"
      BY <1>6 DEF SaveRename, Absent
    <2>2. DOMAIN saves' \subseteq DOMAIN saves /\ \A r \in DOMAIN saves' : saves'[r].snap = saves[r].snap
      <3>1. \A r \in DOMAIN saves : saves[r] \in Save
        BY TypeTables
      <3>2. QED
        BY <1>6, <3>1 DEF SaveRename, Save
    <2>3. QED
      BY <2>1, <2>2 DEF Kept
  <1>7. CASE Die /\ disk' = disk
    <2>1. watermark' = Fresh /\ DOMAIN saves' = {} /\ tmp' = Absent /\ Absent.state # "whole"
      BY <1>7 DEF Die, None, Absent
    <2>2. QED
      BY <1>7, <2>1 DEF Kept
  <1>8. ASSUME NEW s \in Saver, SaveLost(s), ~Die
        PROVE  Kept(m)
    <2>1. saves' = Drop(saves, s) /\ UNCHANGED <<watermark, tmp, disk>>
      BY <1>8 DEF SaveLost
    <2>2. DOMAIN saves' \subseteq DOMAIN saves /\ \A r \in DOMAIN saves' : saves'[r] = saves[r]
      BY <2>1, TypeTables DEF Saved, Table, Drop, Restrict
    <2>3. QED
      BY <2>1, <2>2 DEF Kept
  <1>9. CASE Start
    <2>1. UNCHANGED storage /\ watermark' = IF disk.state = "whole" THEN disk.mark ELSE Fresh
      BY <1>9 DEF Start
    <2>2. QED
      BY <2>1 DEF Kept, storage
  <1>10. ASSUME NEW s \in Saver, SaveLost(s) PROVE disk' = disk
    BY <1>10 DEF SaveLost
  <1>11. CASE Kill
    BY <1>7, <1>11 DEF Kill
  <1>12. ASSUME NEW k \in Walks, Open(k) \/ Ask(k) \/ Answer(k) \/ FailWalk(k)
         PROVE  UNCHANGED <<watermark, storage>>
    BY <1>12 DEF Open, Ask, Answer, FailWalk
  <1>13. CASE Tick \/ (\E id \in Ids : Deliver(id)) \/ (\E id \in Facts : SendFact(id)) \/ Dial \/ Lose
    <2>1. UNCHANGED <<watermark, storage>>
      BY <1>13 DEF Tick, Deliver, SendFact, Dial, Lose
    <2>2. QED
      BY <1>1, <2>1
  <1>14. QED
    BY <1>1, <1>2, <1>3, <1>4, <1>5, <1>6, <1>7, <1>8, <1>9, <1>10, <1>11, <1>12, <1>13
       DEF Next, WalkStep, SaveStep


LEMMA MarksStep ==
  ASSUME IInv, Next, box \subseteq box', printed \subseteq printed'
  PROVE  MarksInv'
  <1>1. ASSUME NEW m \in Marks, Good(m) PROVE Good(m)'
    BY <1>1 DEF Good, Claims
  <1>2. Good(Fresh)
    BY FreshFacts DEF Good, Claims
  <1>3. ASSUME NEW row \in box, row \in Rows, row.id \in printed', NEW m \in Marks,
               m = advanceWatermark(watermark, row)
        PROVE  Good(m)'
    <2>1. watermark \in Marks /\ Good(watermark)
      BY TypeTables DEF IInv, MarksInv, Kept
    <2>2. /\ m.id \in {watermark.id, row.id}
          /\ DOMAIN m.dedup \subseteq DOMAIN watermark.dedup \cup {row.id}
          /\ \A i \in DOMAIN m.dedup : m.dedup[i] = Noted(watermark, row, i)
      BY <1>3, <2>1, AdvanceFacts
    <2>3. Claims(m) \subseteq Claims(watermark) \cup {row.id}
      BY <2>2 DEF Claims
    <2>4. ASSUME NEW i \in DOMAIN m.dedup PROVE \E r \in box : r.id = i /\ r.at = m.dedup[i]
      <3>1. CASE i = row.id
        BY <2>2, <3>1 DEF Noted
      <3>2. CASE i # row.id
        BY <2>1, <2>2, <3>2 DEF Noted, Good
      <3>3. QED
        BY <3>1, <3>2
    <2>5. Claims(m) \subseteq printed'
      BY <1>3, <2>1, <2>3 DEF Good
    <2>6. QED
      BY <2>4, <2>5 DEF Good, Claims
  <1>4. ASSUME NEW m \in Marks, Kept(m)'
        PROVE  Good(m)'
    <2>1. \/ Kept(m) \/ m = Fresh
          \/ \E row \in box : /\ row \in Rows /\ row.id \in printed'
                              /\ m = advanceWatermark(watermark, row)
      BY <1>4, KeptStep DEF IInv
    <2>2. Kept(m) => Good(m)
      BY DEF IInv, MarksInv
    <2>3. QED
      BY <1>1, <1>2, <1>3, <2>1, <2>2
  <1>5. QED
    BY <1>4 DEF MarksInv, Marks

-----------------------------------------------------------------------------
\* What is on its way

\* The wire is left alone, cut, extended by what is sent, or its head received.
LEMMA WireStep ==
  ASSUME TypeOK, BoxInv, Next
  PROVE  \/ wire' = wire /\ box' = box /\ facts' = facts
         \/ wire' = <<>> /\ box' = box /\ facts' = facts
         \/ /\ wire # <<>> /\ wire' = Tail(wire) /\ ReceiveFrame /\ box' = box /\ facts' = facts
         \/ \E id \in Ids : Deliver(id)
         \/ \E id \in Facts : SendFact(id)
  BY DEF Next, Tick, Dial, Lose, ReceiveFrame, Kill, Start, Open, WalkStep, Ask, Answer, Header,
         EndPage, FailWalk, SaveStep, SaveOpen, SaveWrite, SaveRename, SaveLost, Die, operator, socket

LEMMA PushFacts ==
  ASSUME TypeOK, NEW frame \in Frame, Push(frame)
  PROVE  \/ wire' = wire
         \/ /\ DOMAIN wire' = DOMAIN wire \cup {Len(wire) + 1} /\ Len(wire) + 1 \notin DOMAIN wire
            /\ \A i \in DOMAIN wire : wire'[i] = wire[i]
            /\ wire'[Len(wire) + 1] = frame
  <1> SUFFICES ASSUME wire' = Append(wire, frame)
               PROVE  /\ DOMAIN wire' = DOMAIN wire \cup {Len(wire) + 1} /\ Len(wire) + 1 \notin DOMAIN wire
                      /\ \A i \in DOMAIN wire : wire'[i] = wire[i]
                      /\ wire'[Len(wire) + 1] = frame
    BY DEF Push
  <1>1. wire \in Seq(Frame)
    BY DEF TypeOK
  <1>2. /\ wire' \in Seq(Frame) /\ Len(wire') = Len(wire) + 1
        /\ \A i \in 1..Len(wire) : wire'[i] = wire[i]
        /\ wire'[Len(wire) + 1] = frame
    BY <1>1, AppendProperties
  <1>3. Len(wire) \in Nat /\ DOMAIN wire = 1..Len(wire) /\ DOMAIN wire' = 1..Len(wire')
    BY <1>1, <1>2, LenProperties
  <1>4. QED
    BY <1>2, <1>3

LEMMA TailFacts ==
  ASSUME TypeOK, wire # <<>>
  PROVE  /\ 1 \in DOMAIN wire /\ Head(wire) = wire[1]
         /\ \A i \in DOMAIN Tail(wire) : i + 1 \in DOMAIN wire /\ Tail(wire)[i] = wire[i + 1] /\ i + 1 # 1
                                        /\ i \in Int
  <1>1. wire \in Seq(Frame)
    BY DEF TypeOK
  <1>2. /\ Tail(wire) \in Seq(Frame) /\ Len(Tail(wire)) = Len(wire) - 1
        /\ \A i \in 1..Len(Tail(wire)) : Tail(wire)[i] = wire[i + 1]
    BY <1>1, HeadTailProperties
  <1>3. Len(wire) \in Nat /\ Len(wire) # 0 /\ DOMAIN wire = 1..Len(wire)
        /\ DOMAIN Tail(wire) = 1..Len(Tail(wire))
    BY <1>1, <1>2, LenProperties, EmptySeq
  <1>4. Head(wire) = wire[1]
    BY <1>1
  <1>5. QED
    BY <1>2, <1>3, <1>4

\* A page is a part of the mailbox, and gets smaller.
LEMMA RestStep ==
  ASSUME TypeOK, BoxInv, Next, NEW k \in DOMAIN walks'
  PROVE  walks'[k].rest \subseteq box \/ (k \in DOMAIN walks /\ walks'[k].rest \subseteq walks[k].rest)
  <1>1. CASE UNCHANGED walks
    BY <1>1
  <1>2. ASSUME NEW j \in Walks, Open(j)
        PROVE  walks'[k].rest = {} \/ (k \in DOMAIN walks /\ walks'[k] = walks[k])
    BY <1>2 DEF Open, Put
  <1>3. ASSUME walks' = [walks EXCEPT ![k] = Asking(@)] \/ \E j : walks' = [walks EXCEPT ![j] = Asking(@)]
        PROVE  k \in DOMAIN walks /\ walks'[k].rest = walks[k].rest
    BY <1>3, AskTable
  <1>4. ASSUME NEW j, walks' = Drop(walks, j)
        PROVE  k \in DOMAIN walks /\ walks'[k] = walks[k]
    BY <1>4, DropTable
  <1>5. ASSUME NEW j \in Walks, Answer(j)
        PROVE  walks'[k].rest \subseteq box \/ (k \in DOMAIN walks /\ walks'[k] = walks[k])
    <2>1. walks[j] \in Walk /\ j \in DOMAIN walks
      BY <1>5, TypeTables DEF Answer
    <2>2. CASE k = j
      <3>1. walks'[k].rest = Page(box, walks[j].cursor, Limit)
        BY <1>5, <2>1, <2>2 DEF Answer, Walk
      <3>2. QED
        BY <3>1, PageFacts
    <2>3. CASE k # j
      BY <1>5, <2>3 DEF Answer
    <2>4. QED
      BY <2>2, <2>3
  <1>6. ASSUME NEW j \in Walks, Header(j)
        PROVE  k \in DOMAIN walks /\ walks'[k].rest \subseteq walks[k].rest
    <2>1. PICK row \in walks[j].rest :
           /\ DOMAIN walks' = DOMAIN walks
           /\ \A i \in DOMAIN walks \ {j} : walks'[i] = walks[i]
           /\ walks'[j].rest = walks[j].rest \ {row}
      BY <1>6, HeaderFacts
    <2>2. QED
      BY <2>1
  <1>7. ASSUME NEW j \in Walks, EndPage(j)
        PROVE  k \in DOMAIN walks /\ walks'[k].rest = walks[k].rest
    <2>1. CASE walks' = [walks EXCEPT ![j].phase = "save"]
      BY <2>1, TypeTables DEF Walk
    <2>2. CASE walks' # [walks EXCEPT ![j].phase = "save"]
      <3>1. walks' = [walks EXCEPT ![j] = Asking(@)] \/ walks' = Drop(walks, j)
        BY <1>7, <2>2 DEF EndPage
      <3>2. QED
        BY <1>3, <1>4, <3>1
    <2>3. QED
      BY <2>1, <2>2
  <1>8. ASSUME NEW s \in Saver, SaveStep(s), walks' # walks, walks' # None
        PROVE  k \in DOMAIN walks /\ walks'[k].rest = walks[k].rest
    <2>1. (\E j : walks' = [walks EXCEPT ![j] = Asking(@)]) \/ (\E j : walks' = Drop(walks, j))
      BY <1>8 DEF SaveStep, SaveOpen, SaveWrite, SaveRename, SaveLost, Resume, Die
    <2>2. QED
      BY <1>3, <1>4, <2>1
  <1>9. walks' # None
    BY NoneFacts
  <1>10. ASSUME Kill PROVE FALSE
    BY <1>9, <1>10 DEF Kill, Die
  <1>11. ASSUME Tick \/ (\E id \in Ids : Deliver(id)) \/ (\E id \in Facts : SendFact(id)) \/ Dial \/ Lose
                \/ ReceiveFrame \/ Start
         PROVE  UNCHANGED walks
    BY <1>11 DEF Tick, Deliver, SendFact, Dial, Lose, ReceiveFrame, Start
  <1>12. ASSUME NEW j \in Walks, Ask(j) \/ FailWalk(j)
         PROVE  k \in DOMAIN walks /\ walks'[k].rest = walks[k].rest
    BY <1>3, <1>4, <1>12 DEF Ask, FailWalk
  <1>13. QED
    BY <1>1, <1>2, <1>5, <1>6, <1>7, <1>8, <1>9, <1>10, <1>11, <1>12 DEF Next, WalkStep

LEMMA BoxStep ==
  ASSUME IInv, Next
  PROVE  BoxInv' /\ box \subseteq box'
  <1> USE DEF IInv
  <1>1. ASSUME NEW k \in DOMAIN walks', box \subseteq box' PROVE walks'[k].rest \subseteq box'
    <2>1. walks'[k].rest \subseteq box \/ (k \in DOMAIN walks /\ walks'[k].rest \subseteq walks[k].rest)
      BY RestStep
    <2>2. QED
      BY <1>1, <2>1 DEF BoxInv
  <1>2. CASE (wire' = wire \/ wire' = <<>>) /\ box' = box
    BY <1>1, <1>2 DEF BoxInv
  <1>3. CASE wire # <<>> /\ wire' = Tail(wire) /\ box' = box
    <2>1. \A i \in DOMAIN wire' : i + 1 \in DOMAIN wire /\ wire'[i] = wire[i + 1]
      BY <1>3, TailFacts
    <2>2. QED
      BY <1>1, <1>3, <2>1 DEF BoxInv
  <1>4. ASSUME NEW id \in Ids, Deliver(id)
        PROVE  BoxInv' /\ box \subseteq box'
    <2>1. PICK row : row = [at |-> now, id |-> id]
      OBVIOUS
    <2>2. row \in Frame /\ row.id = id
      BY <2>1 DEF Frame, TypeOK
    <2>3. box' = box \cup {row} /\ Push(row) /\ (\A r \in box : r.id # id)
      BY <1>4, <2>1 DEF Deliver
    <2>4. \A i \in DOMAIN wire' : wire'[i] = row \/ (i \in DOMAIN wire /\ wire'[i] = wire[i])
      BY <2>2, <2>3, PushFacts
    <2>5. \A r, q \in box' : r.id = q.id => r = q
      BY <2>2, <2>3 DEF BoxInv
    <2>6. \A i \in DOMAIN wire' : wire'[i].id \in Ids => wire'[i] \in box'
      BY <2>3, <2>4 DEF BoxInv
    <2>7. box \subseteq box'
      BY <2>3
    <2>8. QED
      BY <1>1, <2>5, <2>6, <2>7 DEF BoxInv
  <1>5. ASSUME NEW id \in Facts, SendFact(id)
        PROVE  BoxInv' /\ box \subseteq box'
    <2>1. PICK row : row = [at |-> now, id |-> id]
      OBVIOUS
    <2>2. row \in Frame /\ row.id = id /\ id \notin Ids
      BY <2>1, ListenAssumption DEF Frame, TypeOK
    <2>3. box' = box /\ Push(row)
      BY <1>5, <2>1 DEF SendFact
    <2>4. \A i \in DOMAIN wire' : wire'[i] = row \/ (i \in DOMAIN wire /\ wire'[i] = wire[i])
      BY <2>2, <2>3, PushFacts
    <2>5. \A i \in DOMAIN wire' : wire'[i].id \in Ids => wire'[i] \in box'
      BY <2>2, <2>3, <2>4 DEF BoxInv
    <2>6. QED
      BY <1>1, <2>3, <2>5 DEF BoxInv
  <1>6. QED
    BY <1>2, <1>3, <1>4, <1>5, WireStep

-----------------------------------------------------------------------------
\* What is printed

LEMMA PrintedStep ==
  ASSUME Next
  PROVE  printed \subseteq printed'
  BY DEF Next, Tick, Deliver, SendFact, Dial, Lose, ReceiveFrame, Kill, Start, Open, WalkStep, Ask,
         Answer, Header, EndPage, FailWalk, SaveStep, SaveOpen, SaveWrite, SaveRename, SaveLost, Die,
         Surface, NotPrinted

LEMMA GateStep ==
  ASSUME IInv, Next
  PROVE  GateInv'
  <1> USE DEF IInv
  <1>1. printed \subseteq printed'
    BY PrintedStep
  <1>2. CASE gate' = gate \/ gate' = <<>>
    BY <1>1, <1>2 DEF GateInv
  <1>3. CASE ReceiveFrame
    <2>1. PICK frame :
           /\ gate' = Gated(frame.id) /\ frame.id \in Ids \cup Facts
           /\ \/ Seen(frame.id) \/ (frame.id \in Ids /\ hasSeen(watermark, frame.id))
              \/ Surface(frame.id)
      BY <1>3, ReceiveFacts
    <2>2. frame.id \in printed'
      <3>1. CASE Seen(frame.id)
        BY <1>1, <3>1 DEF Seen, GateInv
      <3>2. CASE hasSeen(watermark, frame.id)
        <4>1. Good(watermark)
          BY TypeTables DEF MarksInv, Kept
        <4>2. QED
          BY <1>1, <3>2, <4>1 DEF Good, Claims, hasSeen
      <3>3. CASE Surface(frame.id)
        BY <3>3 DEF Surface
      <3>4. QED
        BY <2>1, <3>1, <3>2, <3>3
    <2>3. \A j \in DOMAIN gate' : gate'[j] = frame.id \/ \E i \in DOMAIN gate : gate[i] = gate'[j]
      BY <2>1, GateFacts DEF TypeOK
    <2>4. QED
      BY <1>1, <2>2, <2>3 DEF GateInv
  <1>4. gate' = gate \/ gate' = <<>> \/ ReceiveFrame
    BY DEF Next, Tick, Deliver, SendFact, Dial, Lose, Kill, Start, Open, WalkStep, Ask,
         Answer, Header, EndPage, FailWalk, SaveStep, SaveOpen, SaveWrite, SaveRename, SaveLost, Die
  <1>5. QED
    BY <1>2, <1>3, <1>4

LEMMA Step == IInv /\ [Next]_vars => IInv'
  <1> SUFFICES ASSUME IInv, [Next]_vars PROVE IInv'
    OBVIOUS
  <1>1. CASE UNCHANGED vars
    BY <1>1 DEF vars, operator, socket, storage, IInv, TypeOK, BoxInv, MarksInv, GateInv, Kept, Good
  <1>2. CASE Next
    BY <1>2, TypeStep, BoxStep, PrintedStep, MarksStep, GateStep DEF IInv
  <1>3. QED
    BY <1>1, <1>2

-----------------------------------------------------------------------------
\* What a step does to the wire, to a page and to the cursor

\* Only a reception shortens the wire of an open connection.
LEMMA ConsumeStep ==
  ASSUME TypeOK, Next, wire # <<>>, wire' = Tail(wire), link' = "open"
  PROVE  ReceiveFrame
  <1>1. wire' = wire \/ ReceiveFrame \/ (\E id \in Ids : Deliver(id)) \/ (\E id \in Facts : SendFact(id))
    BY DEF Next, Tick, Dial, Lose, Kill, Start, Open, WalkStep, Ask, Answer, Header,
         EndPage, FailWalk, SaveStep, SaveOpen, SaveWrite, SaveRename, SaveLost, Die, operator, socket
  <1>2. wire \in Seq(Frame) /\ Len(wire) \in Nat
    BY LenProperties DEF TypeOK
  <1>3. Len(wire') = Len(wire) - 1
    BY <1>2, HeadTailProperties
  <1>4. ASSUME NEW frame \in Frame, Push(frame)
        PROVE  FALSE
    <2>1. wire' = wire \/ wire' = Append(wire, frame)
      BY <1>4 DEF Push
    <2>2. Len(Append(wire, frame)) = Len(wire) + 1
      BY <1>2, <1>4, AppendProperties
    <2>3. PICK n \in Nat : n = Len(wire)
      BY <1>2
    <2>4. Len(wire') = n - 1 /\ (Len(wire') = n \/ Len(wire') = n + 1)
      BY <1>3, <2>1, <2>2, <2>3
    <2>5. QED
      BY <2>4
  <1>5. ASSUME NEW id \in Ids \cup Facts PROVE ~Push([at |-> now, id |-> id])
    <2>1. PICK frame : frame = [at |-> now, id |-> id]
      OBVIOUS
    <2>2. frame \in Frame
      BY <2>1 DEF Frame, TypeOK
    <2>3. QED
      BY <1>4, <2>1, <2>2
  <1>6. ASSUME wire' = wire PROVE FALSE
    <2>1. PICK n \in Nat : n = Len(wire)
      BY <1>2
    <2>2. Len(wire') = n /\ Len(wire') = n - 1
      BY <1>3, <1>6, <2>1
    <2>3. QED
      BY <2>2
  <1>7. ASSUME NEW id \in Ids, Deliver(id) PROVE FALSE
    BY <1>5, <1>7 DEF Deliver
  <1>8. ASSUME NEW id \in Facts, SendFact(id) PROVE FALSE
    BY <1>5, <1>8 DEF SendFact
  <1>9. QED
    BY <1>1, <1>6, <1>7, <1>8

\* Only the handling of a header takes a row from a page.
LEMMA PageStep ==
  ASSUME TypeOK, BoxInv, Next, NEW k \in DOMAIN walks, k \in DOMAIN walks', walks'[k].phase = "page"
  PROVE  walks'[k].rest = walks[k].rest \/ (k \in Walks /\ Header(k))
  <1>1. ASSUME \E j : walks' = [walks EXCEPT ![j] = Asking(@)]
        PROVE  walks'[k].rest = walks[k].rest
    BY <1>1, AskTable
  <1>2. ASSUME NEW j, walks' = Drop(walks, j)
        PROVE  walks'[k] = walks[k]
    BY <1>2, DropTable
  <1>3. ASSUME NEW j \in Walks, Open(j)
        PROVE  walks'[k] = walks[k]
    BY <1>3 DEF Open, Put
  <1>4. ASSUME NEW j \in Walks, Answer(j)
        PROVE  walks'[k] = walks[k]
    <2>1. walks[j] \in Walk /\ j \in DOMAIN walks
      BY <1>4, TypeTables DEF Answer
    <2>2. k # j
      BY <1>4, <2>1 DEF Answer, Walk
    <2>3. QED
      BY <1>4, <2>2 DEF Answer
  <1>5. ASSUME NEW j \in Walks, Header(j)
        PROVE  k = j \/ walks'[k] = walks[k]
    BY <1>5, HeaderFacts
  <1>6. ASSUME NEW j \in Walks, EndPage(j)
        PROVE  walks'[k].rest = walks[k].rest
    <2>1. CASE walks' = [walks EXCEPT ![j].phase = "save"]
      BY <2>1, TypeTables DEF Walk
    <2>2. CASE walks' # [walks EXCEPT ![j].phase = "save"]
      <3>1. walks' = [walks EXCEPT ![j] = Asking(@)] \/ walks' = Drop(walks, j)
        BY <1>6, <2>2 DEF EndPage
      <3>2. QED
        BY <1>1, <1>2, <3>1
    <2>3. QED
      BY <2>1, <2>2
  <1>7. walks' # None
    BY NoneFacts
  <1>8. ASSUME NEW s \in Saver, SaveStep(s)
        PROVE  walks'[k].rest = walks[k].rest
    <2>1. \/ walks' = walks \/ \E j : walks' = [walks EXCEPT ![j] = Asking(@)]
          \/ \E j : walks' = Drop(walks, j)
      BY <1>7, <1>8 DEF SaveStep, SaveOpen, SaveWrite, SaveRename, SaveLost, Resume, Die
    <2>2. QED
      BY <1>1, <1>2, <2>1
  <1>9. ASSUME NEW j \in Walks, Ask(j) \/ FailWalk(j)
        PROVE  walks'[k].rest = walks[k].rest
    BY <1>1, <1>2, <1>9 DEF Ask, FailWalk
  <1>10. ASSUME Kill PROVE FALSE
    BY <1>7, <1>10 DEF Kill, Die
  <1>11. ASSUME Tick \/ (\E id \in Ids : Deliver(id)) \/ (\E id \in Facts : SendFact(id)) \/ Dial \/ Lose
                \/ ReceiveFrame \/ Start
         PROVE  UNCHANGED walks
    BY <1>11 DEF Tick, Deliver, SendFact, Dial, Lose, ReceiveFrame, Start
  <1>12. QED
    BY <1>3, <1>4, <1>5, <1>6, <1>8, <1>9, <1>10, <1>11 DEF Next, WalkStep

\* What a step prints, and what happens to the watermark: the process ends, nothing
\* changes, a dead process starts, or an envelope or a fact is printed that was not
\* remembered.
LEMMA OutStep ==
  ASSUME TypeOK, BoxInv, Next
  PROVE  \/ out' = <<>> /\ ~alive'
         \/ out' = out /\ watermark' = watermark
         \/ out' = out /\ ~alive
         \/ \E row \in box :
              /\ row \in Rows /\ ~hasSeen(watermark, row.id) /\ Surface(row.id)
              /\ watermark' = advanceWatermark(watermark, row)
              /\ (\E i \in DOMAIN wire : wire[i] = row) \/ (\E k \in DOMAIN walks : row \in walks[k].rest)
         \/ /\ ReceiveFrame /\ wire # <<>> /\ Head(wire).id \in Facts
            /\ Surface(Head(wire).id) /\ watermark' = watermark
  <1>1. CASE ReceiveFrame
    <2>1. PICK frame :
           /\ frame = Head(wire) /\ wire # <<>>
           /\ frame.id \in Ids => frame \in box /\ frame \in Rows
           /\ \/ NotPrinted /\ UNCHANGED <<watermark, saves>>
              \/ /\ Surface(frame.id)
                 /\ \/ frame.id \in Facts /\ watermark' = watermark
                    \/ /\ frame.id \in Ids /\ ~hasSeen(watermark, frame.id)
                       /\ watermark' = advanceWatermark(watermark, frame)
      BY <1>1, ReceiveFacts
    <2>2. 1 \in DOMAIN wire /\ wire[1] = frame
      BY <2>1, TailFacts
    <2>3. QED
      BY <1>1, <2>1, <2>2 DEF NotPrinted
  <1>2. ASSUME NEW k \in Walks, Header(k)
        PROVE  \/ out' = out /\ watermark' = watermark
               \/ \E row \in box :
                    /\ row \in Rows /\ ~hasSeen(watermark, row.id) /\ Surface(row.id)
                    /\ watermark' = advanceWatermark(watermark, row)
                    /\ \E j \in DOMAIN walks : row \in walks[j].rest
    <2>1. PICK row \in walks[k].rest :
           /\ row \in box /\ row \in Rows /\ k \in DOMAIN walks
           /\ \/ NotPrinted /\ UNCHANGED watermark
              \/ /\ ~hasSeen(watermark, row.id) /\ Surface(row.id)
                 /\ watermark' = advanceWatermark(watermark, row)
      BY <1>2, HeaderFacts
    <2>2. QED
      BY <2>1 DEF NotPrinted
  <1>3. CASE Die
    BY <1>3 DEF Die
  <1>4. CASE Start
    BY <1>4 DEF Start
  <1>5. \/ Die \/ Start \/ ReceiveFrame \/ (\E k \in Walks : Header(k))
        \/ out' = out /\ watermark' = watermark
    BY DEF Next, Tick, Deliver, SendFact, Dial, Lose, Kill, Open, WalkStep, Ask, Answer,
         EndPage, FailWalk, SaveStep, SaveOpen, SaveWrite, SaveRename, SaveLost
  <1>6. QED
    BY <1>1, <1>2, <1>3, <1>4, <1>5

-----------------------------------------------------------------------------
\* The invariants

\* Every variable of the client and of what it talks to has its type, and the dedup
\* gate stays bounded (DEDUP_LRU_MAX).
THEOREM TypeCorrect == Spec => []TypeOK
  <1>1. IInv => TypeOK
    BY DEF IInv
  <1>2. QED
    BY <1>1, InitFacts, Step, PTL DEF Spec

\* No watermark, in memory, in a save or in a file, claims an envelope that was not
\* printed: a kill between a page, its saves and their renames loses no envelope to
\* the dedup map of the next process (recordIfFresh, saveWatermark).
THEOREM ClaimsWerePrinted == Spec => []ClaimedWasPrinted
  <1>1. IInv => ClaimedWasPrinted
    <2> SUFFICES ASSUME IInv PROVE ClaimedWasPrinted
      OBVIOUS
    <2>1. ASSUME NEW m \in Marks, Kept(m) PROVE Claims(m) \subseteq printed
      BY <2>1 DEF IInv, MarksInv, Good
    <2>2. watermark \in Marks /\ \A s \in DOMAIN saves : saves[s].snap \in Marks
      BY TypeTables DEF IInv, Save, Marks
    <2>3. \A f \in {tmp, disk} : f.state = "whole" => f.mark \in Marks
      BY DEF IInv, TypeOK, Content, Marks
    <2>4. QED
      BY <2>1, <2>2, <2>3 DEF ClaimedWasPrinted, Kept
  <1>2. QED
    BY <1>1, InitFacts, Step, PTL DEF Spec

-----------------------------------------------------------------------------
\* The steps

\* What the client consumes without printing it - a frame that the gate or the dedup
\* map filters, a header of a page - was printed before (seeIdAndCheckDuplicate,
\* recordIfFresh, runCatchUp).
THEOREM DropsAreDuplicates == Spec => SilentDropsAreDuplicates
  <1>1. ASSUME IInv, Next, wire # <<>>, wire' = Tail(wire), link' = "open"
        PROVE  Head(wire).id \in printed'
    <2>1. ReceiveFrame /\ printed \subseteq printed'
      BY <1>1, ConsumeStep, PrintedStep DEF IInv
    <2>2. PICK frame :
           /\ frame = Head(wire)
           /\ \/ Seen(frame.id) \/ hasSeen(watermark, frame.id)
              \/ Surface(frame.id)
      BY <1>1, <2>1, ReceiveFacts DEF IInv
    <2>3. CASE Seen(frame.id)
      BY <1>1, <2>1, <2>2, <2>3 DEF Seen, IInv, GateInv
    <2>4. CASE hasSeen(watermark, frame.id)
      <3>1. Good(watermark)
        BY <1>1, TypeTables DEF IInv, MarksInv, Kept
      <3>2. QED
        BY <2>1, <2>2, <2>4, <3>1 DEF Good, Claims, hasSeen
    <2>5. CASE Surface(frame.id)
      BY <2>2, <2>5 DEF Surface
    <2>6. QED
      BY <2>2, <2>3, <2>4, <2>5
  <1>2. ASSUME IInv, Next, NEW k \in DOMAIN walks \cap DOMAIN walks', walks'[k].phase = "page",
               NEW r \in walks[k].rest \ walks'[k].rest
        PROVE  r.id \in printed'
    <2>1. k \in Walks /\ Header(k) /\ printed \subseteq printed'
      BY <1>2, PageStep, PrintedStep DEF IInv
    <2>2. PICK row \in walks[k].rest :
           /\ walks'[k].rest = walks[k].rest \ {row}
           /\ hasSeen(watermark, row.id) \/ Surface(row.id)
      BY <1>2, <2>1, HeaderFacts DEF IInv
    <2>3. r = row
      BY <1>2, <2>2
    <2>4. Good(watermark)
      BY <1>2, TypeTables DEF IInv, MarksInv, Kept
    <2>5. QED
      BY <2>1, <2>2, <2>3, <2>4 DEF Good, Claims, hasSeen, Surface
  <1>3. IInv /\ [Next]_vars =>
          [/\ wire # <<>> /\ wire' = Tail(wire) /\ link' = "open"
                => Head(wire).id \in printed'
           /\ \A k \in DOMAIN walks \cap DOMAIN walks' :
                walks'[k].phase = "page" =>
                  {r.id : r \in walks[k].rest \ walks'[k].rest} \subseteq printed']_vars
    BY <1>1, <1>2
  <1>4. QED
    BY <1>3, InitFacts, Step, PTL DEF Spec, SilentDropsAreDuplicates

\* While a process lives, neither a push nor a page, in whatever order the walks handle
\* them, moves its cursor back (advanceWatermark).
THEOREM CursorMovesForward == Spec => CursorNeverGoesBack
  <1>1. ASSUME IInv, Next, alive, alive'
        PROVE  ~Before(Cursor(watermark'), Cursor(watermark))
    <2>1. watermark \in Marks
      BY <1>1, TypeTables DEF IInv
    <2>2. CASE watermark' = watermark
      <3>1. watermark.at \in Nat /\ watermark.id \in Nat
        <4>1. watermark.at \in Times /\ watermark.id \in Ids \cup {0}
          BY <2>1, MarkFields
        <4>2. (\A t \in Times : t \in Nat) /\ \A i \in Ids \cup {0} : i \in Nat
          BY ListenAssumption DEF Times
        <4>3. QED
          BY <4>1, <4>2, Zenon
      <3>2. QED
        BY <2>2, <3>1 DEF Before, Cursor
    <2>3. ASSUME NEW row \in Rows, watermark' = advanceWatermark(watermark, row)
          PROVE  ~Before(Cursor(watermark'), Cursor(watermark))
      BY <2>1, <2>3, AdvanceFacts
    <2>4. watermark' = watermark \/ \E row \in Rows : watermark' = advanceWatermark(watermark, row)
      <3>1. \/ ReceiveFrame \/ (\E k \in Walks : Header(k)) \/ watermark' = watermark
        BY <1>1 DEF Next, Tick, Deliver, SendFact, Dial, Lose, Kill, Start, Open, WalkStep, Ask, Answer,
             EndPage, FailWalk, SaveStep, SaveOpen, SaveWrite, SaveRename, SaveLost, Die
      <3>2. TypeOK /\ BoxInv
        BY <1>1 DEF IInv
      <3>3. ASSUME ReceiveFrame
            PROVE  watermark' = watermark \/ \E row \in Rows : watermark' = advanceWatermark(watermark, row)
        BY <3>2, <3>3, ReceiveFacts
      <3>4. ASSUME NEW k \in Walks, Header(k)
            PROVE  watermark' = watermark \/ \E row \in Rows : watermark' = advanceWatermark(watermark, row)
        BY <3>2, <3>4, HeaderFacts
      <3>5. QED
        BY <3>1, <3>3, <3>4
    <2>5. QED
      BY <2>2, <2>3, <2>4
  <1>2. IInv /\ [Next]_vars =>
          [alive /\ alive' => ~Before(Cursor(watermark'), Cursor(watermark))]_vars
    BY <1>1
  <1>3. QED
    BY <1>2, InitFacts, Step, PTL DEF Spec, CursorNeverGoesBack

-----------------------------------------------------------------------------
\* Exactly once

\* Nothing on its way - on the wire or in a page - is so old that the watermark may have
\* forgotten its id.
Recent ==
  /\ \A i \in DOMAIN wire : wire[i].id \in Ids => wire[i].at >= watermark.at - Retention
  /\ \A k \in DOMAIN walks : \A r \in walks[k].rest : r.at >= watermark.at - Retention

\* What was printed is remembered, or too old to be asked about again.
RememberedInv ==
  \A n \in DOMAIN out : out[n] \in Ids =>
    \E r \in box : /\ r.id = out[n]
                   /\ r.id \in DOMAIN watermark.dedup \/ r.at < watermark.at - Retention

\* A fact is sent once, and is on the wire or printed, never both.
FactsInv ==
  /\ \A i, j \in DOMAIN wire : wire[i].id = wire[j].id /\ wire[i].id \in Facts => i = j
  /\ \A i \in DOMAIN wire : wire[i].id \in Facts =>
       wire[i].id \in facts /\ \A n \in DOMAIN out : out[n] # wire[i].id
  /\ \A n \in DOMAIN out : out[n] \in Facts => out[n] \in facts

DeadInv == alive \/ out = <<>>

OnceInv == PrintedOnce /\ RememberedInv /\ FactsInv /\ DeadInv

LEMMA OnceInit == Init => OnceInv
  BY DEF Init, OnceInv, PrintedOnce, IsInjective, RememberedInv, FactsInv, DeadInv

\* An envelope is printed only if it was not: the watermark remembers or has outlived it.
LEMMA NewRow ==
  ASSUME IInv, OnceInv, Recent, NEW row \in box, row \in Rows, ~hasSeen(watermark, row.id),
         (\E i \in DOMAIN wire : wire[i] = row) \/ (\E k \in DOMAIN walks : row \in walks[k].rest)
  PROVE  \A n \in DOMAIN out : out[n] # row.id
  <1>1. row.at >= watermark.at - Retention /\ row.id \in Ids
    BY DEF Recent, Rows
  <1>2. row.at \in Int /\ watermark.at \in Int /\ Retention \in Int
    <2>1. row.at \in Times /\ watermark.at \in Times
      BY TypeTables, MarkFields DEF IInv, Rows
    <2>2. QED
      BY <2>1, ListenAssumption, RetentionAssumption DEF Times
  <1>3. ASSUME NEW n \in DOMAIN out, out[n] = row.id PROVE FALSE
    <2>1. PICK r \in box : /\ r.id = row.id
                           /\ r.id \in DOMAIN watermark.dedup \/ r.at < watermark.at - Retention
      BY <1>1, <1>3 DEF OnceInv, RememberedInv
    <2>2. r = row
      BY <2>1 DEF IInv, BoxInv
    <2>3. row.at < watermark.at - Retention
      BY <2>1, <2>2 DEF hasSeen
    <2>4. QED
      BY <1>1, <1>2, <2>3
  <1>4. QED
    BY <1>3

\* Printing something new keeps the output free of duplicates.
LEMMA OutInjective ==
  ASSUME TypeOK, PrintedOnce, NEW id \in Ids \cup Facts, Surface(id), \A n \in DOMAIN out : out[n] # id
  PROVE  PrintedOnce'
  <1>1. /\ DOMAIN out' = DOMAIN out \cup {Len(out) + 1} /\ Len(out) + 1 \notin DOMAIN out
        /\ \A i \in DOMAIN out : out'[i] = out[i]
        /\ out'[Len(out) + 1] = id
    BY SurfaceFacts
  <1>2. QED
    BY <1>1 DEF PrintedOnce, IsInjective

\* An envelope printed before stays remembered or old when the cursor moves.
LEMMA Remembering ==
  ASSUME IInv, OnceInv, NEW row \in box, row \in Rows, Surface(row.id), box' = box,
         watermark' = advanceWatermark(watermark, row)
  PROVE  RememberedInv'
  <1>1. PICK v : v = watermark'
    OBVIOUS
  <1>2. watermark \in Marks /\ Good(watermark)
    BY TypeTables DEF IInv, MarksInv, Kept
  <1>3. /\ v \in Marks /\ v.at >= watermark.at
        /\ \A i \in DOMAIN watermark.dedup \cup {row.id} :
             i \in DOMAIN v.dedup \/ Noted(watermark, row, i) < v.at - Retention
    BY <1>1, <1>2, AdvanceFacts
  <1>4. v.at \in Int /\ watermark.at \in Int /\ Retention \in Int /\ \A r \in box : r.at \in Int
    <2>1. v.at \in Times /\ watermark.at \in Times /\ \A r \in box : r.at \in Times
      BY <1>2, <1>3, MarkFields DEF IInv, TypeOK
    <2>2. QED
      BY <2>1, ListenAssumption, RetentionAssumption DEF Times
  <1>5. ASSUME NEW r \in box, r.id = row.id \/ r.id \in DOMAIN watermark.dedup
                              \/ r.at < watermark.at - Retention
        PROVE  r.id \in DOMAIN v.dedup \/ r.at < v.at - Retention
    <2>1. CASE r.id = row.id
      <3>1. \A p, q \in box : p.id = q.id => p = q
        BY DEF IInv, BoxInv
      <3>2. r = row
        BY <2>1, <3>1
      <3>3. QED
        BY <1>3, <3>2 DEF Noted
    <2>2. CASE r.id # row.id /\ r.id \in DOMAIN watermark.dedup
      <3>1. PICK q \in box : q.id = r.id /\ q.at = watermark.dedup[r.id]
        BY <1>2, <2>2 DEF Good
      <3>2. q = r
        BY <3>1 DEF IInv, BoxInv
      <3>3. Noted(watermark, row, r.id) = r.at
        BY <2>2, <3>1, <3>2 DEF Noted
      <3>4. QED
        BY <1>3, <2>2, <3>3
    <2>3. CASE r.at < watermark.at - Retention
      BY <1>3, <1>4, <2>3
    <2>4. QED
      BY <1>5, <2>1, <2>2, <2>3
  <1>6. /\ DOMAIN out' = DOMAIN out \cup {Len(out) + 1}
        /\ \A i \in DOMAIN out : out'[i] = out[i]
        /\ out'[Len(out) + 1] = row.id
    BY SurfaceFacts DEF IInv, Rows
  <1>7. ASSUME NEW n \in DOMAIN out', out'[n] \in Ids
        PROVE  \E r \in box : /\ r.id = out'[n]
                              /\ r.id \in DOMAIN v.dedup \/ r.at < v.at - Retention
    <2>1. CASE n = Len(out) + 1
      BY <1>5, <1>6, <2>1
    <2>2. CASE n # Len(out) + 1
      <3>1. n \in DOMAIN out /\ out'[n] = out[n]
        BY <1>6, <1>7, <2>2
      <3>2. PICK r \in box : /\ r.id = out[n]
                             /\ r.id \in DOMAIN watermark.dedup \/ r.at < watermark.at - Retention
        BY <1>7, <3>1 DEF OnceInv, RememberedInv
      <3>3. QED
        BY <1>5, <3>1, <3>2
    <2>3. QED
      BY <2>1, <2>2
  <1>8. QED
    BY <1>1, <1>7 DEF RememberedInv

\* Facts: the wire changes, and no fact is printed.
LEMMA FactsSent ==
  ASSUME TypeOK, BoxInv, FactsInv, Next,
         \A n \in DOMAIN out' : out'[n] \in Facts => \E m \in DOMAIN out : out[m] = out'[n]
  PROVE  FactsInv'
  <1>1. CASE wire' = wire /\ facts' = facts
    BY <1>1 DEF FactsInv
  <1>2. CASE wire' = <<>> /\ facts' = facts
    BY <1>2 DEF FactsInv
  <1>3. CASE wire # <<>> /\ wire' = Tail(wire) /\ facts' = facts
    <2>1. \A i \in DOMAIN wire' : i + 1 \in DOMAIN wire /\ wire'[i] = wire[i + 1] /\ i \in Int
      BY <1>3, TailFacts
    <2>2. ASSUME NEW i \in DOMAIN wire', NEW j \in DOMAIN wire',
                 wire'[i].id = wire'[j].id, wire'[i].id \in Facts
          PROVE  i = j
      <3>1. i + 1 = j + 1
        BY <2>1, <2>2 DEF FactsInv
      <3>2. QED
        BY <2>1, <3>1
    <2>3. \A i \in DOMAIN wire' : wire'[i].id \in Facts =>
            wire'[i].id \in facts' /\ \A n \in DOMAIN out' : out'[n] # wire'[i].id
      BY <1>3, <2>1 DEF FactsInv
    <2>4. QED
      BY <1>3, <2>2, <2>3 DEF FactsInv
  <1>4. ASSUME NEW id \in Ids \cup Facts, NEW frame, frame = [at |-> now, id |-> id], Push(frame),
               facts \subseteq facts', id \in Facts => id \in facts' /\ id \notin facts
        PROVE  FactsInv'
    <2>1. frame \in Frame /\ frame.id = id
      BY <1>4 DEF Frame, TypeOK
    <2>2. \/ wire' = wire
          \/ /\ DOMAIN wire' = DOMAIN wire \cup {Len(wire) + 1} /\ Len(wire) + 1 \notin DOMAIN wire
             /\ \A i \in DOMAIN wire : wire'[i] = wire[i]
             /\ wire'[Len(wire) + 1] = frame
      BY <1>4, <2>1, PushFacts
    <2>3. CASE wire' = wire
      BY <1>4, <2>3 DEF FactsInv
    <2>4. CASE wire' # wire
      <3>1. PICK l : l = Len(wire) + 1
        OBVIOUS
      <3>2. /\ DOMAIN wire' = DOMAIN wire \cup {l} /\ l \notin DOMAIN wire
            /\ \A i \in DOMAIN wire : wire'[i] = wire[i]
            /\ wire'[l].id = id
        BY <2>1, <2>2, <2>4, <3>1
      <3>3. \A i, j \in DOMAIN wire' : wire'[i].id = wire'[j].id /\ wire'[i].id \in Facts => i = j
        BY <1>4, <3>2 DEF FactsInv
      <3>4. \A i \in DOMAIN wire' : wire'[i].id \in Facts =>
              wire'[i].id \in facts' /\ \A n \in DOMAIN out' : out'[n] # wire'[i].id
        BY <1>4, <3>2 DEF FactsInv
      <3>5. QED
        BY <1>4, <3>3, <3>4 DEF FactsInv
    <2>5. QED
      BY <2>3, <2>4
  <1>5. ASSUME NEW id \in Ids, Deliver(id)
        PROVE  FactsInv'
    <2>1. PICK frame : frame = [at |-> now, id |-> id]
      OBVIOUS
    <2>2. Push(frame) /\ facts' = facts /\ id \notin Facts
      BY <1>5, <2>1, ListenAssumption DEF Deliver
    <2>3. QED
      BY <1>4, <2>1, <2>2
  <1>6. ASSUME NEW id \in Facts, SendFact(id)
        PROVE  FactsInv'
    <2>1. PICK frame : frame = [at |-> now, id |-> id]
      OBVIOUS
    <2>2. Push(frame) /\ facts' = facts \cup {id} /\ id \notin facts
      BY <1>6, <2>1 DEF SendFact
    <2>3. QED
      BY <1>4, <2>1, <2>2
  <1>7. QED
    BY <1>1, <1>2, <1>3, <1>5, <1>6, WireStep

\* A fact is printed: it leaves the wire, where it was the only one of its id.
LEMMA FactPrinted ==
  ASSUME TypeOK, FactsInv, ReceiveFrame, wire # <<>>, Head(wire).id \in Facts, Surface(Head(wire).id)
  PROVE  FactsInv' /\ \A n \in DOMAIN out : out[n] # Head(wire).id
  <1>1. PICK id \in Facts : id = Head(wire).id
    OBVIOUS
  <1>2. wire' = Tail(wire) /\ facts' = facts
    BY DEF ReceiveFrame, operator
  <1>3. /\ 1 \in DOMAIN wire /\ wire[1].id = id
        /\ \A i \in DOMAIN wire' : i + 1 \in DOMAIN wire /\ wire'[i] = wire[i + 1] /\ i + 1 # 1
                                   /\ i \in Int
    BY <1>1, <1>2, TailFacts
  <1>4. /\ DOMAIN out' = DOMAIN out \cup {Len(out) + 1}
        /\ \A i \in DOMAIN out : out'[i] = out[i]
        /\ out'[Len(out) + 1] = id
    BY <1>1, SurfaceFacts
  <1>5. id \in facts /\ \A n \in DOMAIN out : out[n] # id
    BY <1>3 DEF FactsInv
  <1>6. \A n \in DOMAIN out' : out'[n] = id \/ (n \in DOMAIN out /\ out'[n] = out[n])
    BY <1>4
  <1>7. ASSUME NEW i \in DOMAIN wire', NEW j \in DOMAIN wire',
               wire'[i].id = wire'[j].id, wire'[i].id \in Facts
        PROVE  i = j
    <2>1. i + 1 = j + 1
      BY <1>3, <1>7 DEF FactsInv
    <2>2. QED
      BY <1>3, <2>1
  <1>8. ASSUME NEW i \in DOMAIN wire', wire'[i].id \in Facts
        PROVE  wire'[i].id \in facts' /\ \A n \in DOMAIN out' : out'[n] # wire'[i].id
    <2>1. wire'[i].id # id
      BY <1>3, <1>8 DEF FactsInv
    <2>2. wire'[i].id \in facts /\ \A n \in DOMAIN out : out[n] # wire'[i].id
      BY <1>3, <1>8 DEF FactsInv
    <2>3. QED
      BY <1>2, <1>6, <2>1, <2>2
  <1>9. \A n \in DOMAIN out' : out'[n] \in Facts => out'[n] \in facts'
    BY <1>2, <1>5, <1>6 DEF FactsInv
  <1>10. QED
    BY <1>1, <1>5, <1>7, <1>8, <1>9 DEF FactsInv

LEMMA OnceStep == IInv /\ OnceInv /\ Recent /\ [Next]_vars => OnceInv'
  <1> SUFFICES ASSUME IInv, OnceInv, Recent, Next PROVE OnceInv'
    BY DEF vars, operator, socket, storage, OnceInv, PrintedOnce, RememberedInv, FactsInv, DeadInv
  <1>0. TypeOK /\ BoxInv /\ box \subseteq box'
    BY BoxStep DEF IInv
  <1>1. DeadInv'
    BY DEF OnceInv, DeadInv, Next, Tick, Deliver, SendFact, Dial, Lose, ReceiveFrame, Kill, Start, Open,
           WalkStep, Ask, Answer, Header, EndPage, FailWalk, SaveStep, SaveOpen, SaveWrite, SaveRename,
           SaveLost, Die, Idle, Turn
  <1>2. CASE out' = <<>>
    <2>1. FactsInv'
      BY <1>0, <1>2, FactsSent DEF OnceInv
    <2>2. QED
      BY <1>1, <1>2, <2>1 DEF OnceInv, PrintedOnce, IsInjective, RememberedInv
  <1>3. CASE out' = out /\ watermark' = watermark
    <2>1. FactsInv'
      BY <1>0, <1>3, FactsSent DEF OnceInv
    <2>2. RememberedInv' /\ PrintedOnce'
      BY <1>0, <1>3 DEF OnceInv, RememberedInv, PrintedOnce
    <2>3. QED
      BY <1>1, <2>1, <2>2 DEF OnceInv
  <1>4. CASE out' = out /\ ~alive
    BY <1>2, <1>4 DEF OnceInv, DeadInv
  <1>5. ASSUME NEW row \in box, row \in Rows, ~hasSeen(watermark, row.id), Surface(row.id),
               watermark' = advanceWatermark(watermark, row),
               (\E i \in DOMAIN wire : wire[i] = row) \/ (\E k \in DOMAIN walks : row \in walks[k].rest)
        PROVE  OnceInv'
    <2>1. row.id \in Ids /\ row.id \notin Facts
      BY <1>5, ListenAssumption DEF Rows
    <2>2. \A n \in DOMAIN out : out[n] # row.id
      BY <1>5, NewRow
    <2>3. PrintedOnce'
      BY <1>0, <1>5, <2>1, <2>2, OutInjective DEF OnceInv
    <2>4. FactsInv'
      <3>1. /\ DOMAIN out' = DOMAIN out \cup {Len(out) + 1}
            /\ \A i \in DOMAIN out : out'[i] = out[i]
            /\ out'[Len(out) + 1] = row.id
        BY <1>0, <1>5, <2>1, SurfaceFacts
      <3>2. QED
        BY <1>0, <2>1, <3>1, FactsSent DEF OnceInv
    <2>5. box' = box
      <3>1. out' # out
        <4>1. Len(out) + 1 \in DOMAIN out' /\ Len(out) + 1 \notin DOMAIN out
          BY <1>0, <1>5, <2>1, SurfaceFacts
        <4>2. QED
          BY <4>1
      <3>2. QED
        BY <3>1 DEF Next, Tick, Deliver, SendFact, Dial, Lose, ReceiveFrame, Kill, Start, Open,
             WalkStep, Ask, Answer, Header, EndPage, FailWalk, SaveStep, SaveOpen, SaveWrite, SaveRename,
             SaveLost, operator
    <2>6. RememberedInv'
      BY <1>5, <2>5, Remembering
    <2>7. QED
      BY <1>1, <2>3, <2>4, <2>6 DEF OnceInv
  <1>6. CASE /\ ReceiveFrame /\ wire # <<>> /\ Head(wire).id \in Facts
             /\ Surface(Head(wire).id) /\ watermark' = watermark
    <2>1. PICK id \in Facts : id = Head(wire).id
      BY <1>6
    <2>2. FactsInv' /\ \A n \in DOMAIN out : out[n] # id
      BY <1>0, <1>6, <2>1, FactPrinted DEF OnceInv
    <2>3. PrintedOnce'
      BY <1>0, <1>6, <2>1, <2>2, OutInjective DEF OnceInv
    <2>4. /\ DOMAIN out' = DOMAIN out \cup {Len(out) + 1}
          /\ \A i \in DOMAIN out : out'[i] = out[i]
          /\ out'[Len(out) + 1] = id
      BY <1>0, <1>6, <2>1, SurfaceFacts
    <2>5. RememberedInv'
      <3>1. ASSUME NEW n \in DOMAIN out', out'[n] \in Ids
            PROVE  n \in DOMAIN out /\ out'[n] = out[n]
        BY <2>1, <2>4, <3>1, ListenAssumption
      <3>2. QED
        BY <1>0, <1>6, <3>1 DEF OnceInv, RememberedInv
    <2>6. QED
      BY <1>1, <2>2, <2>3, <2>5 DEF OnceInv
  <1>7. QED
    BY <1>0, <1>2, <1>3, <1>4, <1>5, <1>6, OutStep

\* A process prints an envelope or a fact once, whatever the order of pushes, pages and
\* reconnections and whatever the gate forgets, as long as nothing on its way is older
\* than what the watermark remembers (DEDUP_RETENTION_MS).
THEOREM PrintsOnce == Spec /\ []Recent => []PrintedOnce
  <1>1. OnceInv => PrintedOnce
    BY DEF OnceInv
  <1>2. QED
    BY <1>1, InitFacts, Step, OnceInit, OnceStep, PTL DEF Spec

\* So it does for as long as the clock has not passed the retention time.
THEOREM PrintsOnceAtFirst ==
  ASSUME MaxTime <= Retention
  PROVE  Spec => []PrintedOnce
  <1>1. TypeOK => Recent
    <2> SUFFICES ASSUME TypeOK PROVE Recent
      OBVIOUS
    <2>1. watermark.at \in Times
      BY TypeTables, MarkFields
    <2>2. \A i \in DOMAIN wire : wire[i].at \in Times
      <3>1. wire \in Seq(Frame)
        BY DEF TypeOK
      <3>2. \A i \in DOMAIN wire : wire[i] \in Frame
        BY <3>1, LenProperties
      <3>3. QED
        BY <3>2 DEF Frame
    <2>3. \A k \in DOMAIN walks : \A r \in walks[k].rest : r.at \in Times
      BY TypeTables DEF Walk
    <2>4. \A t \in Times : t >= watermark.at - Retention
      BY <2>1, ListenAssumption, RetentionAssumption DEF Times
    <2>5. QED
      BY <2>2, <2>3, <2>4 DEF Recent
  <1>2. QED
    BY <1>1, TypeCorrect, PrintsOnce, PTL

=============================================================================
