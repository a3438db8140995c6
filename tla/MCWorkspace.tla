---------------------------- MODULE MCWorkspace ----------------------------
(* A directory above the home directory, the home directory, and a project  *)
(* in it.  The network n2 is known to one profile only.                     *)
EXTENDS Workspace, TLC

CONSTANTS top, home, project, standard, work, ghost, global, n2, h1, h2, p1, p2

MCPath == (project :> <<project, home, top>>) @@ (home :> <<home, top>>) @@ (top :> <<top>>)
MCOptions == {<<None, None>>, <<None, n2>>, <<work, None>>, <<work, n2>>}
MCDrafts == {[Blank EXCEPT !.profile = work], [Blank EXCEPT !.network = n2]}
  \cup {[Blank EXCEPT !.profile = ghost, !.network = global, !.agent = h] : h \in Handles}
  \cup {[Blank EXCEPT !.network = n2, !.agent = h] : h \in Handles}
  \cup {[Blank EXCEPT !.agent = h] : h \in Handles}
MCKnown == (standard :> {global}) @@ (work :> {global, n2}) @@ (ghost :> {global})
Sym == Permutations(Processes) \cup Permutations(Handles)
=============================================================================
