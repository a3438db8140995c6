------------------------------- MODULE Policy -------------------------------
(***************************************************************************)
(* The operator's trust policy: who may place an envelope in whose mailbox. *)
(* Pure functions of the agents, allowlist and blocks tables, which the     *)
(* caller passes in (src/src/operator/domain/policy.ts).                    *)
(***************************************************************************)
EXTENDS Naturals

CONSTANTS
  Handles,    \* the handles that may ever be registered, "@owner.name"
  Globs,      \* the owner globs "@owner.*" an allowlist may hold
  GlobOf      \* [Handles -> Globs]: the glob a handle falls under

ASSUME GlobAssumption == GlobOf \in [Handles -> Globs]

Policies == {"open", "allowlist"}

\* An allowlist row grants trust to a handle or to everyone under a glob.
Entries == Handles \cup Globs

-----------------------------------------------------------------------------

isReachable(agents, allowlist, sender, target) ==
  /\ target \in DOMAIN agents
  /\ \/ agents[target].policy = "open"
     \/ <<target, sender>> \in allowlist
     \/ <<target, GlobOf[sender]>> \in allowlist

\* Mutant: it is enough that the target trusts the sender.
canInitiateOneWay(agents, allowlist, initiator, peer) ==
  isReachable(agents, allowlist, initiator, peer)

\* Trust is symmetric between two agents, and implicit towards oneself.
canInitiate(agents, allowlist, initiator, peer) ==
  IF initiator = peer
    THEN initiator \in DOMAIN agents
    ELSE /\ isReachable(agents, allowlist, initiator, peer)
         /\ isReachable(agents, allowlist, peer, initiator)

\* accept's admission test for a whole recipient list: one refusal refuses all.
Admits(agents, allowlist, blocks, sender, recipients) ==
  \A r \in recipients : /\ canInitiate(agents, allowlist, sender, r)
                        /\ <<r, sender>> \notin blocks

=============================================================================
