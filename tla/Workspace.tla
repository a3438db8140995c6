----------------------------- MODULE Workspace -----------------------------
(***************************************************************************)
(* What a command runs as: the profile, the network and the agent it takes  *)
(* from flags, environment and the `.robotnet/config.json` files above it   *)
(* (config.ts, asmtp/identity.ts), and `identity set` and `identity clear`, *)
(* which write those files.                                                 *)
(*                                                                          *)
(* A command is a process.  It reads the files up to three times, and       *)
(* between two accesses others write: nothing locks a file, and writing one *)
(* truncates it first.                                                      *)
(*                                                                          *)
(* A flag and its environment variable act alike, the flag first: one       *)
(* "chosen" value stands for both.  Keys the program does not know and      *)
(* blank or mistyped values are left out; a file that is not JSON is Torn.  *)
(* The profiles that are set up and their networks do not change.           *)
(***************************************************************************)
EXTENDS Naturals, Sequences, FiniteSetsExt

CONSTANTS
  Dirs,         \* directories
  Path,         \* Path[d]: d and the directories above it, up to the root
  HOME,         \* os.homedir()
  Profiles, SetUp,      \* profiles, and those whose configuration directory exists
  DefaultProfile,
  Networks, Known,      \* names, and those each profile's configuration defines
  DefaultNetwork,
  Handles,
  Options,      \* what commands are told of profile and network
  Processes,
  Drafts,       \* what people write into the files by hand
  None,
  Absent, Torn, \* no file; a file that is truncated or is not JSON
  MaxEdits,     \* bound: files changed by hand
  MaxCommands   \* bound: commands started

Content == [profile : Profiles \cup {None},
            network : Networks \cup {None},
            agent : Handles \cup {None}]

ASSUME WorkspaceAssumption ==
  /\ Path \in [Dirs -> Seq(Dirs)]
  /\ \A d \in Dirs : Path[d] # <<>> /\ Path[d][1] = d
  /\ \A d \in Dirs : \A i \in DOMAIN Path[d] :
       Path[Path[d][i]] = SubSeq(Path[d], i, Len(Path[d]))
  /\ HOME \in Dirs
  /\ SetUp \subseteq Profiles /\ DefaultProfile \in Profiles
  /\ Known \in [Profiles -> SUBSET Networks]
  /\ \A p \in Profiles : DefaultNetwork \in Known[p]
  /\ Absent # Torn /\ Absent \notin Content /\ Torn \notin Content
  /\ Options \subseteq (Profiles \cup {None}) \X (Networks \cup {None})
  /\ <<None, None>> \in Options
  /\ None \notin Profiles \cup Networks \cup Handles \cup Dirs
  /\ Drafts \subseteq Content
  /\ MaxEdits \in Nat /\ MaxCommands \in Nat

VARIABLES
  file,       \* each directory's .robotnet/config.json
  process,    \* the command each process runs
  told,       \* what the last `identity set` or `clear` of a directory left there
  alone,      \* processes since whose start nobody else changed a file
  edits,      \* files changed by hand so far
  commands    \* commands started so far

vars == <<file, process, told, alone, edits, commands>>

Or(v, default) == IF v # None THEN v ELSE default

Blank == [profile |-> None, network |-> None, agent |-> None]

-----------------------------------------------------------------------------
\* The two walks up the tree, over the files f

FirstFile(f, walk) ==
  LET hits == {i \in DOMAIN walk : f[walk[i]] # Absent}
  IN  IF hits = {} THEN None ELSE walk[Min(hits)]

\* findWorkspaceConfigFile ends at the home directory
UpToHome(d) ==
  LET there == {i \in DOMAIN Path[d] : Path[d][i] = HOME}
  IN  IF there = {} THEN Path[d] ELSE SubSeq(Path[d], 1, Min(there))

WorkspaceFile(f, d) == FirstFile(f, UpToHome(d))
\* findDirectoryIdentityFile goes on to the root
IdentityFile(f, d) == FirstFile(f, Path[d])

\* loadJsonFile: a file that is gone is an empty object
Payload(f, d) ==
  IF d = None THEN Blank ELSE IF f[d] = Absent THEN Blank ELSE f[d]

\* The network the workspace selects for a command in d that chose none
PinnedNetwork(f, d) ==
  LET payload == Payload(f, WorkspaceFile(f, d))
  IN  IF payload = Torn THEN Torn ELSE Or(payload.network, DefaultNetwork)

\* Mutant: whatever network the file is about
AgentAnywhere(content, network) == content.agent

\* resolveAgentIdentity: the file's agent, if the file is about that network
AgentFor(content, network) ==
  IF content.network = network THEN content.agent ELSE None

-----------------------------------------------------------------------------
Idle == [pc |-> "idle"]

Init ==
  /\ file = [d \in Dirs |-> Absent]
  /\ process = [p \in Processes |-> Idle]
  /\ told = [d \in Dirs |-> None]
  /\ alone = {}
  /\ edits = 0 /\ commands = 0

Command == [kind : {"set"}, handle : Handles] \cup [kind : {"clear"}, handle : {None}]
             \cup [kind : {"act"}, handle : Handles \cup {None}]

\* A command starts in d.  For "act", the handle is that of --as or ROBOTNET_AGENT.
Start(p) ==
  /\ process[p] = Idle
  /\ commands < MaxCommands /\ commands' = commands + 1
  /\ \E c \in Command, d \in Dirs, choice \in Options :
       /\ c.kind = "clear" => choice = <<None, None>>     \* it loads no configuration
       /\ process' = [process EXCEPT ![p] =
            [pc |-> IF c.kind = "clear" THEN "read" ELSE "profile",
             kind |-> c.kind, handle |-> c.handle, cwd |-> d,
             profile |-> choice[1], explicit |-> choice[2] # None, network |-> choice[2],
             workspace |-> None, next |-> Absent]]
  /\ alone' = alone \cup {p}
  /\ UNCHANGED <<file, told, edits>>

\* It ends: done, refused, or killed.
End(p) == process' = [process EXCEPT ![p] = Idle]

Die(p) ==
  /\ process[p] # Idle
  /\ End(p)
  /\ UNCHANGED <<file, told, alone, edits, commands>>

\* resolveProfile: the first look.  Only a command that chose no profile reads the file.
ResolveProfile(p) ==
  LET c == process[p]
      found == WorkspaceFile(file, c.cwd)
      payload == Payload(file, found)
      pin == IF c.profile = None /\ payload # Torn THEN payload.profile ELSE None
  IN
  /\ c.pc = "profile"
  /\ IF \/ c.profile = None /\ payload = Torn
        \/ pin # None /\ pin \notin SetUp
     THEN End(p)
     ELSE process' = [process EXCEPT ![p].pc = "network", ![p].workspace = found,
            ![p].profile = Or(@, Or(pin, DefaultProfile))]
  /\ UNCHANGED <<file, told, alone, edits, commands>>

\* loadConfig reads the same path again, whatever is there by now, and resolves the network.
\* An agent named on the command line or in the environment is all an "act" needs.  The
\* profile and the path are of no use to the steps below and are forgotten.
ResolveNetwork(p) ==
  LET c == process[p]
      payload == Payload(file, c.workspace)
      network == IF payload = Torn THEN None
                 ELSE Or(c.network, Or(payload.network, DefaultNetwork))
      after == IF c.kind = "set" THEN "read" ELSE IF c.handle # None THEN "acts" ELSE "identity"
  IN
  /\ c.pc = "network"
  /\ IF network \in Known[c.profile]
     THEN process' = [process EXCEPT ![p].pc = after, ![p].network = network,
            ![p].profile = None, ![p].workspace = None]
     ELSE End(p)
  /\ UNCHANGED <<file, told, alone, edits, commands>>

\* resolveAgentIdentity: the third look, up to the root
ResolveAgent(p) ==
  LET c == process[p]
      found == IdentityFile(file, c.cwd)
      payload == Payload(file, found)
      agent == IF payload = Torn THEN None ELSE AgentFor(payload, c.network)
  IN
  /\ c.pc = "identity"
  /\ IF agent # None
     THEN process' = [process EXCEPT ![p].pc = "acts", ![p].handle = agent]
     ELSE End(p)
  /\ UNCHANGED <<file, told, alone, edits, commands>>

\* The command does its work on its network as its agent: the other modules.
Act(p) ==
  /\ process[p].pc = "acts"
  /\ End(p)
  /\ UNCHANGED <<file, told, alone, edits, commands>>

-----------------------------------------------------------------------------
\* Writing a directory's own file

\* Mutant: the pin a file has always stays
BoundSeeded(c, content) ==
  [content EXCEPT !.agent = c.handle, !.network = Or(@, c.network)]

\* Mutant: a file without a pin gets the built-in default
BoundDefault(c, content) ==
  [content EXCEPT !.agent = c.handle,
                  !.network = IF c.explicit THEN c.network ELSE Or(@, DefaultNetwork)]

\* writeDirectoryIdentityEntry: what `set` makes of the content
Bound(c, content) ==
  [content EXCEPT !.agent = c.handle,
                  !.network = IF c.explicit THEN c.network ELSE Or(@, c.network)]

\* clearDirectoryIdentity
Cleared(content) == [content EXCEPT !.agent = None]

\* readWorkspaceFileRaw, in the working directory itself
ReadOwn(p) ==
  LET c == process[p]
      content == Payload(file, c.cwd)
      next == IF c.kind = "set" THEN Bound(c, content) ELSE Cleared(content)
  IN
  /\ c.pc = "read"
  /\ IF content = Torn \/ (c.kind = "clear" /\ content.agent = None)
     THEN End(p)
     ELSE process' = [process EXCEPT ![p].next = next,
            ![p].pc = IF next = Blank THEN "unlink" ELSE "truncate"]
  /\ UNCHANGED <<file, told, alone, edits, commands>>

\* writeFile opens the file and with that empties it ...
Truncate(p) ==
  LET c == process[p] IN
  /\ c.pc = "truncate"
  /\ file' = [file EXCEPT ![c.cwd] = Torn]
  /\ told' = [told EXCEPT ![c.cwd] = None]
  /\ alone' = alone \cap {p}
  /\ process' = [process EXCEPT ![p].pc = "fill"]
  /\ UNCHANGED <<edits, commands>>

\* ... and then writes from its start: over what another writer has put there meanwhile, a
\* shorter text leaves the end of the longer one.
Fill(p) ==
  LET c == process[p] IN
  /\ c.pc = "fill"
  /\ \E content \in {c.next} \cup (IF file[c.cwd] = Torn THEN {} ELSE {Torn}) :
       /\ file' = [file EXCEPT ![c.cwd] = content]
       /\ told' = [told EXCEPT ![c.cwd] =
            IF content = Torn \/ c.kind = "clear" THEN None
            ELSE [agent |-> c.handle,
                  network |-> IF c.explicit THEN c.network ELSE c.next.network]]
  /\ alone' = alone \cap {p}
  /\ End(p)
  /\ UNCHANGED <<edits, commands>>

\* `clear` removes a file that would be left empty; it may be gone by now.
Unlink(p) ==
  LET c == process[p] IN
  /\ c.pc = "unlink"
  /\ file' = [file EXCEPT ![c.cwd] = Absent]
  /\ told' = [told EXCEPT ![c.cwd] = None]
  /\ alone' = alone \cap {p}
  /\ End(p)
  /\ UNCHANGED <<edits, commands>>

\* Somebody writes, spoils or removes a file with an editor.
Edit(d) ==
  /\ edits < MaxEdits
  /\ edits' = edits + 1
  /\ \E content \in Drafts \cup {Torn, Absent} :
       /\ content # file[d]
       /\ file' = [file EXCEPT ![d] = content]
  /\ told' = [told EXCEPT ![d] = None]
  /\ alone' = {}
  /\ UNCHANGED <<process, commands>>

Next ==
  \/ \E p \in Processes :
       \/ Start(p) \/ Die(p) \/ Act(p)
       \/ ResolveProfile(p) \/ ResolveNetwork(p) \/ ResolveAgent(p)
       \/ ReadOwn(p) \/ Truncate(p) \/ Fill(p) \/ Unlink(p)
  \/ \E d \in Dirs : Edit(d)

Spec == Init /\ [][Next]_vars

-----------------------------------------------------------------------------
\* Properties

Running ==
  [pc : {"profile", "network", "identity", "acts", "read", "truncate", "fill", "unlink"},
   kind : {"set", "clear", "act"}, handle : Handles \cup {None}, cwd : Dirs,
   profile : Profiles \cup {None}, explicit : BOOLEAN, network : Networks \cup {None},
   workspace : Dirs \cup {None}, next : Content \cup {Absent}]

\* Every variable holds a value of its declared shape.
TypeOK ==
  /\ file \in [Dirs -> Content \cup {Absent, Torn}]
  /\ process \in [Processes -> {Idle} \cup Running]
  /\ told \in [Dirs -> {None} \cup [agent : Handles, network : Networks]]
  /\ alone \subseteq Processes
  /\ edits \in 0..MaxEdits /\ commands \in 0..MaxCommands

\* `identity set` reported that d is bound to an agent on a network (the chosen one, or the
\* one the file says).  From then on, until somebody writes that file again, a command in d,
\* or below it with no nearer file, that chooses nothing but perhaps a profile that knows the
\* network takes that network and that agent from the tree (README.md:58; the pin policy of
\* asmtp/identity.ts:101-111).
SetHolds ==
  \A d \in Dirs : told[d] # None =>
    \A below \in Dirs : WorkspaceFile(file, below) = d =>
      LET network == PinnedNetwork(file, below) IN
      /\ network = told[d].network
      /\ AgentFor(Payload(file, IdentityFile(file, below)), network) = told[d].agent

\* What an `identity set` that was told no network is about to write changes the network of
\* no directory, its own or one below, unless a file changed since it started
\* (commands/identity.ts:47-52: it does not silently flip the pin).
PinsStand ==
  \A p \in alone : process[p] # Idle =>
    LET c == process[p] IN
    c.pc = "truncate" /\ ~c.explicit /\ c.kind = "set" =>
      \A d \in Dirs :
        PinnedNetwork([file EXCEPT ![c.cwd] = c.next], d) = PinnedNetwork(file, d)

\* An agent taken from the tree is that of the workspace the network comes from: where the
\* configuration's walk finds a file, that file names both the agent and the network the
\* command resolved in an earlier look, whatever was written in between and whatever network
\* was chosen (asmtp/identity.ts:21-28).
OneWorkspace ==
  [][\A p \in Processes :
       process[p].pc = "identity" /\ process'[p].pc = "acts" =>
         LET found == WorkspaceFile(file, process[p].cwd)
             c == process'[p]
         IN  found # None =>
               /\ file[found].agent = c.handle
               /\ file[found].network = c.network]_vars
=============================================================================
