------------------------------- MODULE Listen -------------------------------
(***************************************************************************)
(* `robotnet listen` for one handle, with what it talks to: the operator's  *)
(* mailbox for that handle, the push connection, and the watermark file     *)
(* (src/src/commands/listen.ts, src/src/asmtp/watermark.ts, and the dedup   *)
(* gate of src/src/asmtp/reconnecting-listener.ts).                         *)
(*                                                                          *)
(* The client is one Node process.  It starts a catch-up walk whenever a    *)
(* connection opens and does not wait for it; a walk gives up the thread at *)
(* its awaits only, so the headers of a page are handled with no other      *)
(* client step in between (Idle), although the operator goes on and the     *)
(* process may be killed half-way.  Every printed frame starts a save that  *)
(* nobody awaits, and all the saves of a process write the same temporary   *)
(* file.                                                                    *)
(***************************************************************************)
EXTENDS Watermark, Sequences, Functions

CONSTANTS
  Ids,          \* envelope ids, naturals from 1
  Facts,        \* ids of monitor facts, disjoint from Ids
  Walks,        \* bound: catch-up walks that may be under way at once
  Limit,        \* page size (1000)
  GateSize,     \* DEDUP_LRU_MAX
  MaxTime,      \* bound: the operator's clock
  MaxFaults     \* bound: drops, failed walks and kills together

ASSUME ListenAssumption ==
  /\ Ids \subseteq Nat \ {0} /\ Facts \subseteq Nat \ {0} /\ Ids \cap Facts = {}
  /\ Limit \in Nat \ {0} /\ GateSize \in Nat \ {0}
  /\ MaxTime \in Nat /\ MaxFaults \in Nat

VARIABLES
  now, box, facts,   \* operator: clock, the rows of the mailbox, facts sent
  link, wire,        \* connection: "down", "dialed", "open"; frames on their way
  alive,             \* is the process running
  watermark,         \* its watermark in memory
  gate,              \* seenIds of the reconnecting listener, oldest first
  walks,             \* walk -> [phase, cursor, rest, more, fresh]
  saves,             \* saver -> [snap, phase, file]: the saves under way
  tmp, disk,         \* the temporary file of this process, the watermark file
  out,               \* what this process has printed, in order
  printed,           \* what any process has printed
  faults

operator == <<now, box, facts>>
socket == <<link, wire>>
storage == <<saves, tmp, disk>>
vars == <<operator, socket, alive, watermark, gate, walks, storage, out, printed, faults>>

Times == 0..MaxTime
None == [k \in {} |-> k]
Frame == [at: Times, id: Ids \cup Facts]

\* A file is absent, or holds a watermark, or text that does not parse.
Content == [state: {"absent", "torn"}] \cup [state: {"whole"}, mark: Watermarks(Ids, Times)]
Absent == [state |-> "absent"]
Torn == [state |-> "torn"]
Whole(w) == [state |-> "whole", mark |-> w]

Walk == [phase: {"auth", "asked", "answered", "page", "save"}, cursor: [at: Times, id: Ids \cup {0}],
         rest: SUBSET [at: Times, id: Ids], more: BOOLEAN, fresh: BOOLEAN]
Saver == ({"frame"} \X (Ids \cup Facts)) \cup ({"walk"} \X Walks)
Save == [snap: Watermarks(Ids, Times), phase: {"queued", "open", "written"},
         file: {"none", "tmp", "disk", "gone"}]

Put(t, k, row) == [x \in DOMAIN t \cup {k} |-> IF x = k THEN row ELSE t[x]]
Drop(t, k) == Restrict(t, DOMAIN t \ {k})

\* No page is half handled: the client's thread is free.
Idle == alive /\ \A k \in DOMAIN walks : walks[k].phase # "page"

Init ==
  /\ now = 0 /\ box = {} /\ facts = {}
  /\ link = "down" /\ wire = <<>>
  /\ alive = TRUE
  /\ watermark = Fresh
  /\ gate = <<>>
  /\ walks = None
  /\ saves = None /\ tmp = Absent /\ disk = Absent
  /\ out = <<>> /\ printed = {}
  /\ faults = 0

-----------------------------------------------------------------------------
\* The operator: Operator!SendAccepted seen from one box

Tick ==
  /\ now < MaxTime
  /\ now' = now + 1
  /\ UNCHANGED <<box, facts, socket, alive, watermark, gate, walks, storage, out, printed, faults>>

Push(frame) == wire' = IF link = "down" THEN wire ELSE Append(wire, frame)

Deliver(id) ==
  LET row == [at |-> now, id |-> id] IN
  /\ \A r \in box : r.id # id
  /\ box' = box \cup {row}
  /\ Push(row)
  /\ UNCHANGED <<now, facts, link, alive, watermark, gate, walks, storage, out, printed, faults>>

SendFact(id) ==
  /\ id \notin facts
  /\ facts' = facts \cup {id}
  /\ Push([at |-> now, id |-> id])
  /\ UNCHANGED <<now, box, link, alive, watermark, gate, walks, storage, out, printed, faults>>

-----------------------------------------------------------------------------
\* The connection.  The operator registers it at the upgrade, before the client
\* hears of it.

Dial ==
  /\ Idle /\ link = "down"
  /\ link' = "dialed"
  /\ UNCHANGED <<operator, wire, alive, watermark, gate, walks, storage, out, printed, faults>>

Open(k) ==
  /\ Idle /\ link = "dialed" /\ k \notin DOMAIN walks
  /\ link' = "open"
  /\ walks' = Put(walks, k, [phase |-> "auth", cursor |-> Cursor(Fresh), rest |-> {},
                             more |-> FALSE, fresh |-> FALSE])
  /\ UNCHANGED <<operator, wire, alive, watermark, gate, storage, out, printed, faults>>

Lose ==
  /\ link # "down" /\ faults < MaxFaults
  /\ link' = "down" /\ wire' = <<>>
  /\ faults' = faults + 1
  /\ UNCHANGED <<operator, alive, watermark, gate, walks, storage, out, printed>>

-----------------------------------------------------------------------------
\* A frame arrives

Surface(id) == out' = Append(out, id) /\ printed' = printed \cup {id}
NotPrinted == UNCHANGED <<out, printed>>

\* seeIdAndCheckDuplicate: an id seen again moves to the young end.
Seen(id) == \E i \in DOMAIN gate : gate[i] = id

Without(id) ==
  IF ~Seen(id) THEN gate
  ELSE LET i == CHOOSE i \in DOMAIN gate : gate[i] = id
       IN  SubSeq(gate, 1, i - 1) \o SubSeq(gate, i + 1, Len(gate))

\* Mutant: the gate never forgets.
GatedForever(id) == Append(Without(id), id)

Gated(id) ==
  LET all == Append(Without(id), id)
  IN  IF Len(all) > GateSize THEN Tail(all) ELSE all

StartSave(saver, w) == saves' = Put(saves, saver, [snap |-> w, phase |-> "queued", file |-> "none"])

\* The gate, then recordIfFresh: a fact passes through, a header only if unseen.
ReceiveFrame ==
  /\ Idle /\ link = "open" /\ wire # <<>>
  /\ LET frame == Head(wire)
         w == IF frame.id \in Facts THEN watermark ELSE advanceWatermark(watermark, frame)
     IN  /\ wire' = Tail(wire)
         /\ gate' = Gated(frame.id)
         /\ IF Seen(frame.id) \/ (frame.id \in Ids /\ hasSeen(watermark, frame.id))
              THEN NotPrinted /\ UNCHANGED <<watermark, saves>>
              ELSE /\ watermark' = w
                   /\ StartSave(<<"frame", frame.id>>, w)
                   /\ Surface(frame.id)
  /\ UNCHANGED <<operator, link, alive, walks, tmp, disk, faults>>

-----------------------------------------------------------------------------
\* The catch-up walk: runCatchUp

\* The cursor is read from the shared watermark when the request goes out.
Asking(walk) == [walk EXCEPT !.phase = "asked", !.cursor = Cursor(watermark), !.fresh = FALSE]

Ask(k) ==
  /\ Idle /\ k \in DOMAIN walks /\ walks[k].phase = "auth"
  /\ walks' = [walks EXCEPT ![k] = Asking(@)]
  /\ UNCHANGED <<operator, socket, alive, watermark, gate, storage, out, printed, faults>>

\* Mutant: the watermark moves to a page's rows before they are printed.
AnswerClaiming(k) ==
  /\ alive /\ k \in DOMAIN walks /\ walks[k].phase = "asked"
  /\ LET page == Page(box, walks[k].cursor, Limit) IN
       /\ walks' = [walks EXCEPT ![k].phase = "answered", ![k].rest = page,
                                 ![k].more = PromisesMore(page, Limit)]
       /\ \/ page = {} /\ UNCHANGED watermark
          \/ \E row \in page : watermark' = [watermark EXCEPT !.at = row.at, !.id = row.id]
  /\ UNCHANGED <<operator, socket, alive, gate, storage, out, printed, faults>>

\* The operator evaluates the query; the response is on its way.
Answer(k) ==
  /\ k \in DOMAIN walks /\ walks[k].phase = "asked"
  /\ LET page == Page(box, walks[k].cursor, Limit) IN
       walks' = [walks EXCEPT ![k].phase = "answered", ![k].rest = page,
                              ![k].more = PromisesMore(page, Limit)]
  /\ UNCHANGED <<operator, socket, alive, watermark, gate, storage, out, printed, faults>>

\* Is the thread free for walk k, or walk k the one that has it?
Turn(k) == /\ alive /\ k \in DOMAIN walks /\ walks[k].phase \in {"answered", "page"}
           /\ \A j \in DOMAIN walks \ {k} : walks[j].phase # "page"

\* The next header of the page.
Header(k) ==
  /\ Turn(k)
  /\ \E row \in walks[k].rest :
       /\ \A r \in walks[k].rest \ {row} : Before(row, r)
       /\ IF hasSeen(watermark, row.id)
            THEN /\ walks' = [walks EXCEPT ![k].phase = "page", ![k].rest = @ \ {row}]
                 /\ NotPrinted /\ UNCHANGED watermark
            ELSE /\ walks' = [walks EXCEPT ![k].phase = "page", ![k].rest = @ \ {row},
                                           ![k].fresh = TRUE]
                 /\ watermark' = advanceWatermark(watermark, row)
                 /\ Surface(row.id)
  /\ UNCHANGED <<operator, socket, alive, gate, storage, faults>>

\* The page is done: save if anything was fresh, else go on or end.
EndPage(k) ==
  /\ Turn(k) /\ walks[k].rest = {}
  /\ IF walks[k].fresh
       THEN /\ walks' = [walks EXCEPT ![k].phase = "save"]
            /\ StartSave(<<"walk", k>>, watermark)
       ELSE /\ walks' = IF walks[k].more THEN [walks EXCEPT ![k] = Asking(@)] ELSE Drop(walks, k)
            /\ UNCHANGED saves
  /\ UNCHANGED <<operator, socket, alive, watermark, gate, tmp, disk, out, printed, faults>>

\* The bearer cannot be resolved, or the request fails: reported, not retried.
FailWalk(k) ==
  /\ Idle /\ k \in DOMAIN walks /\ walks[k].phase \in {"auth", "asked", "answered"}
  /\ faults < MaxFaults
  /\ walks' = Drop(walks, k)
  /\ faults' = faults + 1
  /\ UNCHANGED <<operator, socket, alive, watermark, gate, storage, out, printed>>

-----------------------------------------------------------------------------
\* saveWatermark: writeFile (open and truncate, then write) and rename, each of
\* them done by the system while the process goes on.

SaveOpen(s) ==
  /\ alive /\ s \in DOMAIN saves /\ saves[s].phase = "queued"
  /\ tmp' = Torn
  /\ saves' = [saves EXCEPT ![s].phase = "open", ![s].file = "tmp"]
  /\ UNCHANGED <<operator, socket, alive, watermark, gate, walks, disk, out, printed, faults>>

\* What a write of w leaves in a file that holds c: over a longer text its tail stays.
Overwritten(c, w) == IF c.state = "whole" THEN {Whole(w), Torn} ELSE {Whole(w)}

\* The file handle follows the file when another save renames it.
SaveWrite(s) ==
  /\ alive /\ s \in DOMAIN saves /\ saves[s].phase = "open"
  /\ \/ /\ saves[s].file = "tmp"
        /\ tmp' \in Overwritten(tmp, saves[s].snap)
        /\ UNCHANGED disk
     \/ /\ saves[s].file = "disk"
        /\ disk' \in Overwritten(disk, saves[s].snap)
        /\ UNCHANGED tmp
     \/ /\ saves[s].file = "gone"
        /\ UNCHANGED <<tmp, disk>>
  /\ saves' = [saves EXCEPT ![s].phase = "written"]
  /\ UNCHANGED <<operator, socket, alive, watermark, gate, walks, out, printed, faults>>

\* After rename, handles on the temporary file are handles on the watermark file.
Renamed(file) == CASE file = "tmp" -> "disk" [] file = "disk" -> "gone" [] OTHER -> file

\* What a save's end means to whoever started it.
Resume(s) ==
  walks' = IF s[1] = "frame" THEN walks
           ELSE IF walks[s[2]].more THEN [walks EXCEPT ![s[2]] = Asking(@)]
           ELSE Drop(walks, s[2])

SaveRename(s) ==
  /\ Idle /\ s \in DOMAIN saves /\ saves[s].phase = "written"
  /\ tmp # Absent
  /\ disk' = tmp /\ tmp' = Absent
  /\ saves' = [r \in DOMAIN saves \ {s} |-> [saves[r] EXCEPT !.file = Renamed(@)]]
  /\ Resume(s)
  /\ UNCHANGED <<operator, socket, alive, watermark, gate, out, printed, faults>>

\* Another save has renamed the file already: ENOENT.  The walk is ended by its
\* catch; the save of a frame has none, and the rejection ends the process.
Die ==
  /\ alive' = FALSE
  /\ link' = "down" /\ wire' = <<>>
  /\ watermark' = Fresh /\ gate' = <<>> /\ walks' = None
  /\ saves' = None /\ tmp' = Absent /\ out' = <<>>

SaveLost(s) ==
  /\ Idle /\ s \in DOMAIN saves /\ saves[s].phase = "written"
  /\ tmp = Absent
  /\ \/ /\ s[1] = "walk"
        /\ walks' = Drop(walks, s[2])
        /\ saves' = Drop(saves, s)
        /\ UNCHANGED <<socket, alive, watermark, gate, tmp, out>>
     \/ /\ s[1] = "frame"
        /\ Die
  /\ UNCHANGED <<operator, disk, printed, faults>>

Kill ==
  /\ alive /\ faults < MaxFaults
  /\ faults' = faults + 1
  /\ Die
  /\ UNCHANGED <<operator, disk, printed>>

\* loadWatermark: what is missing or does not parse is a fresh install.
Start ==
  /\ ~alive
  /\ alive' = TRUE
  /\ watermark' = IF disk.state = "whole" THEN disk.mark ELSE Fresh
  /\ UNCHANGED <<operator, socket, gate, walks, storage, out, printed, faults>>

-----------------------------------------------------------------------------
WalkStep(k) == Ask(k) \/ Answer(k) \/ Header(k) \/ EndPage(k)
SaveStep(s) == SaveOpen(s) \/ SaveWrite(s) \/ SaveRename(s) \/ SaveLost(s)

Next ==
  \/ Tick
  \/ \E id \in Ids : Deliver(id)
  \/ \E id \in Facts : SendFact(id)
  \/ Dial \/ Lose \/ ReceiveFrame \/ Kill \/ Start
  \/ \E k \in Walks : Open(k) \/ WalkStep(k) \/ FailWalk(k)
  \/ \E s \in Saver : SaveStep(s)

Spec == Init /\ [][Next]_vars

\* A handshake completes, the event loop serves every socket and every finished file
\* operation, and the operator answers; nothing makes anyone send, dial or start.
Fairness ==
  /\ WF_vars(\E k \in Walks : Open(k))
  /\ WF_vars(ReceiveFrame)
  /\ \A k \in Walks : WF_vars(WalkStep(k))
  /\ \A s \in Saver : WF_vars(SaveStep(s))

FairSpec == Spec /\ Fairness

-----------------------------------------------------------------------------
\* Invariants

\* Every variable holds a value of its declared shape; the gate stays bounded.
TypeOK ==
  /\ now \in Times
  /\ box \subseteq [at: Times, id: Ids] /\ facts \subseteq Facts
  /\ link \in {"down", "dialed", "open"}
  /\ wire \in Seq(Frame)
  /\ alive \in BOOLEAN
  /\ watermark \in Watermarks(Ids, Times)
  /\ gate \in Seq(Ids \cup Facts) /\ Len(gate) <= GateSize
  /\ DOMAIN walks \subseteq Walks /\ walks \in [DOMAIN walks -> Walk]
  /\ DOMAIN saves \subseteq Saver /\ saves \in [DOMAIN saves -> Save]
  /\ tmp \in Content /\ disk \in Content
  /\ out \in Seq(Ids \cup Facts)
  /\ printed \subseteq Ids \cup Facts
  /\ faults \in 0..MaxFaults

\* One process prints an envelope once, however pushes, pages of overlapping walks
\* and reconnections are interleaved ("exactly-once", reconnecting-listener.ts) - as
\* long as no answer is older than what the watermark remembers.
PrintedOnce == IsInjective(out)

\* No watermark, in memory, in a save under way or in a file, claims an envelope
\* that no process has printed: a process killed half-way through a page, or between
\* a save and its rename, loses no envelope to the next one's dedup map.
Claims(w) == DOMAIN w.dedup \cup ({w.id} \ {0})

ClaimedWasPrinted ==
  /\ Claims(watermark) \subseteq printed
  /\ \A s \in DOMAIN saves : Claims(saves[s].snap) \subseteq printed
  /\ \A f \in {tmp, disk} : f.state = "whole" => Claims(f.mark) \subseteq printed

-----------------------------------------------------------------------------
\* What a step may never do

\* A frame or a header the client consumes without printing it was printed before:
\* no filter - gate, dedup map, cursor - swallows an envelope.
SilentDropsAreDuplicates ==
  [][/\ wire # <<>> /\ wire' = Tail(wire) /\ link' = "open"
          => Head(wire).id \in printed'
     /\ \A k \in DOMAIN walks \cap DOMAIN walks' :
          walks'[k].phase = "page" =>
            {r.id : r \in walks[k].rest \ walks'[k].rest} \subseteq printed']_vars

\* While a process lives its cursor only moves forward, whatever the order in which
\* walks and pushes feed it.
CursorNeverGoesBack ==
  [][alive /\ alive' => ~Before(Cursor(watermark'), Cursor(watermark))]_vars

-----------------------------------------------------------------------------
\* What must happen

\* A frame on its way is printed, unless the connection breaks first.
PushedGetsPrinted ==
  \A id \in Ids \cup Facts :
    (\E i \in DOMAIN wire : wire[i].id = id) ~> (id \in printed \/ link = "down")

\* A walk ends, although it takes its cursor from a watermark that others move and
\* believes every full page to be followed by another.
WalksEnd == \A k \in Walks : (k \in DOMAIN walks) ~> (k \notin DOMAIN walks)

-----------------------------------------------------------------------------
\* What the documents say and the code does not do

\* "REST catch-up after a drop resumes from exactly where the WS left off" (README):
\* when the walks are done and nothing is on its way, the whole mailbox was printed.
NothingSkipped ==
  (link = "open" /\ walks = None /\ wire = <<>>) => \A r \in box : r.id \in printed

\* "so a crash mid-write doesn't leave a half-written watermark" (saveWatermark).
DiskNeverTorn == disk # Torn

=============================================================================
