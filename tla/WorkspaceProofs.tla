-------------------------- MODULE WorkspaceProofs --------------------------
(***************************************************************************)
(* Theorems of Workspace, for every tree of directories, every place of the *)
(* home directory in it, and any number of commands.                        *)
(*                                                                          *)
(* The walks come first: the one that ends at the home directory is the     *)
(* beginning of the one that goes to the root, and the walk from a          *)
(* directory is the end of the walk from any below it.  Then what a running *)
(* command has found (CommandOK), what it knows as long as nobody else      *)
(* writes (AloneOK), and what the files owe to reports (ToldInv).           *)
(***************************************************************************)
EXTENDS Workspace, TLAPS, WellFoundedInduction

\* A set of positions has a least one, and Min finds it.
LEMMA MinFacts ==
  ASSUME NEW S \in SUBSET Nat, S # {}
  PROVE  Min(S) \in S /\ \A n \in S : Min(S) <= n
  <1>1. \E x \in S : \A y \in S : ~ (<<y, x>> \in OpToRel(<, Nat))
    BY NatLessThanWellFounded, WFMin
  <1>2. PICK x \in S : \A y \in S : ~ (<<y, x>> \in OpToRel(<, Nat))
    BY <1>1
  <1>3. ASSUME NEW y \in S PROVE x <= y
    <2>1. SUFFICES ASSUME y < x PROVE FALSE
      OBVIOUS
    <2>2. <<y, x>> \in {ss \in Nat \X Nat : ss[1] < ss[2]}
      BY <2>1
    <2>3. <<y, x>> \in OpToRel(<, Nat)
      BY <2>2, Zenon DEF OpToRel
    <2>4. QED
      BY <1>2, <2>3
  <1>4. QED
    BY <1>3 DEF Min

\* i is the first position of the walk with a file.
Hit(f, walk, i) ==
  /\ i \in DOMAIN walk /\ f[walk[i]] # Absent
  /\ \A j \in DOMAIN walk : j < i => f[walk[j]] = Absent

LEMMA FirstFileFacts ==
  ASSUME NEW f, NEW walk \in Seq(Dirs)
  PROVE  \/ FirstFile(f, walk) = None /\ \A i \in DOMAIN walk : f[walk[i]] = Absent
         \/ \E i \in DOMAIN walk : Hit(f, walk, i) /\ FirstFile(f, walk) = walk[i]
  <1> DEFINE hits == {i \in DOMAIN walk : f[walk[i]] # Absent}
  <1>1. hits \in SUBSET Nat /\ \A i \in DOMAIN walk : i \in Nat
    OBVIOUS
  <1>2. CASE hits = {}
    BY <1>2 DEF FirstFile
  <1>3. CASE hits # {}
    <2>1. Min(hits) \in hits /\ \A n \in hits : Min(hits) <= n
      BY <1>1, <1>3, MinFacts
    <2>2. PICK first : first = Min(hits)
      OBVIOUS
    <2>3. /\ first \in DOMAIN walk /\ f[walk[first]] # Absent
          /\ \A n \in hits : first <= n
      BY <2>1, <2>2
    <2>4. ASSUME NEW j \in DOMAIN walk, j < first PROVE f[walk[j]] = Absent
      <3>1. ~(first <= j)
        BY <1>1, <2>3, <2>4
      <3>2. QED
        BY <2>3, <3>1
    <2>5. Hit(f, walk, first)
      BY <2>3, <2>4 DEF Hit
    <2>6. FirstFile(f, walk) = walk[first]
      BY <1>3, <2>2 DEF FirstFile
    <2>7. QED
      BY <2>3, <2>5, <2>6
  <1>4. QED
    BY <1>2, <1>3

LEMMA FirstFileIs ==
  ASSUME NEW f, NEW walk \in Seq(Dirs), NEW i \in DOMAIN walk, Hit(f, walk, i)
  PROVE  FirstFile(f, walk) = walk[i]
  <1>1. PICK j \in DOMAIN walk : Hit(f, walk, j) /\ FirstFile(f, walk) = walk[j]
    BY FirstFileFacts DEF Hit
  <1>2. i \in Nat /\ j \in Nat
    OBVIOUS
  <1>3. i = j
    BY <1>1, <1>2 DEF Hit
  <1>4. QED
    BY <1>1, <1>3

LEMMA FirstFileNone ==
  ASSUME NEW f, NEW walk \in Seq(Dirs), \A i \in DOMAIN walk : f[walk[i]] = Absent
  PROVE  FirstFile(f, walk) = None
  BY FirstFileFacts DEF Hit

-----------------------------------------------------------------------------
\* The walk up to the home directory is the beginning of the walk to the root.
LEMMA UpToHomeFacts ==
  ASSUME NEW d \in Dirs
  PROVE  /\ Path[d] \in Seq(Dirs) /\ UpToHome(d) \in Seq(Dirs)
         /\ Len(UpToHome(d)) \in 1..Len(Path[d])
         /\ \A k \in 1..Len(UpToHome(d)) : UpToHome(d)[k] = Path[d][k]
         /\ \A k \in 1..Len(UpToHome(d)) : k < Len(UpToHome(d)) => Path[d][k] # HOME
         /\ Len(UpToHome(d)) = Len(Path[d]) \/ Path[d][Len(UpToHome(d))] = HOME
  <1> DEFINE there == {i \in DOMAIN Path[d] : Path[d][i] = HOME}
  <1>1. Path[d] \in Seq(Dirs) /\ Path[d] # <<>> /\ DOMAIN Path[d] = 1..Len(Path[d])
    BY WorkspaceAssumption
  <1>2. Len(Path[d]) \in Nat \ {0}
    BY <1>1
  <1>3. CASE there = {}
    BY <1>1, <1>2, <1>3 DEF UpToHome
  <1>4. CASE there # {}
    <2>1. there \in SUBSET Nat
      BY <1>1
    <2>2. Min(there) \in there /\ \A n \in there : Min(there) <= n
      BY <1>4, <2>1, MinFacts
    <2>3. PICK n : n = Min(there)
      OBVIOUS
    <2>4. n \in 1..Len(Path[d]) /\ Path[d][n] = HOME /\ \A k \in 1..n : k < n => Path[d][k] # HOME
      <3>1. n \in 1..Len(Path[d]) /\ Path[d][n] = HOME
        BY <1>1, <2>2, <2>3
      <3>2. ASSUME NEW k \in 1..n, k < n PROVE Path[d][k] # HOME
        <4>1. k \in DOMAIN Path[d] /\ ~(n <= k)
          BY <1>1, <1>2, <3>1, <3>2
        <4>2. k \notin there
          BY <2>2, <2>3, <4>1
        <4>3. QED
          BY <4>1, <4>2
      <3>3. QED
        BY <3>1, <3>2
    <2>5. UpToHome(d) = SubSeq(Path[d], 1, n)
      BY <1>4, <2>3 DEF UpToHome
    <2>6. QED
      BY <1>1, <1>2, <2>4, <2>5
  <1>5. QED
    BY <1>3, <1>4

\* From a directory on the walk of d on, the walk of d is the walk of that directory.
LEMMA PathSuffix ==
  ASSUME NEW d \in Dirs, NEW i \in 1..Len(Path[d]), NEW e, e = Path[d][i]
  PROVE  /\ e \in Dirs
         /\ Len(Path[e]) = Len(Path[d]) - i + 1
         /\ \A k \in 1..Len(Path[e]) : Path[e][k] = Path[d][i + k - 1]
  <1>1. Path[d] \in Seq(Dirs) /\ Len(Path[d]) \in Nat /\ DOMAIN Path[d] = 1..Len(Path[d])
    BY WorkspaceAssumption
  <1>2. Path[e] = SubSeq(Path[d], i, Len(Path[d]))
    BY <1>1, WorkspaceAssumption
  <1>3. QED
    BY <1>1, <1>2

LEMMA UpToHomeSuffix ==
  ASSUME NEW d \in Dirs, NEW i \in 1..Len(UpToHome(d)), NEW e, e = UpToHome(d)[i]
  PROVE  /\ e \in Dirs
         /\ Len(UpToHome(e)) = Len(UpToHome(d)) - i + 1
         /\ \A k \in 1..Len(UpToHome(e)) : UpToHome(e)[k] = UpToHome(d)[i + k - 1]
  <1>1. PICK n : n = Len(UpToHome(d))
    OBVIOUS
  <1>2. /\ n \in 1..Len(Path[d]) /\ i \in 1..n /\ Len(Path[d]) \in Nat
        /\ \A k \in 1..n : UpToHome(d)[k] = Path[d][k]
        /\ \A k \in 1..n : k < n => Path[d][k] # HOME
        /\ n = Len(Path[d]) \/ Path[d][n] = HOME
    <2>1. Len(Path[d]) \in Nat
      BY UpToHomeFacts
    <2>2. i \in 1..n
      BY <1>1
    <2>3. QED
      BY <1>1, <2>1, <2>2, UpToHomeFacts
  <1>3. e = Path[d][i] /\ i \in 1..Len(Path[d])
    BY <1>2
  <1>4. /\ e \in Dirs
        /\ Len(Path[e]) = Len(Path[d]) - i + 1
        /\ \A k \in 1..Len(Path[e]) : Path[e][k] = Path[d][i + k - 1]
    BY <1>3, PathSuffix
  <1>5. PICK m : m = Len(UpToHome(e))
    OBVIOUS
  <1>6. /\ m \in 1..Len(Path[e])
        /\ \A k \in 1..m : UpToHome(e)[k] = Path[e][k]
        /\ \A k \in 1..m : k < m => Path[e][k] # HOME
        /\ m = Len(Path[e]) \/ Path[e][m] = HOME
    BY <1>4, <1>5, UpToHomeFacts
  <1>7. m = n - i + 1
    <2>1. ASSUME m < n - i + 1 PROVE FALSE
      <3>1. Path[e][m] = HOME
        BY <1>2, <1>4, <1>6, <2>1
      <3>2. Path[d][i + m - 1] = HOME /\ i + m - 1 \in 1..n /\ i + m - 1 < n
        BY <1>2, <1>4, <1>6, <2>1, <3>1
      <3>3. QED
        BY <1>2, <3>2
    <2>2. ASSUME m > n - i + 1 PROVE FALSE
      <3>0. n \in Nat /\ i \in Nat /\ i >= 1 /\ i <= n /\ m \in Nat
        BY <1>2, <1>4, <1>6
      <3>1. n - i + 1 \in 1..m /\ n - i + 1 < m
        BY <2>2, <3>0
      <3>2. Path[e][n - i + 1] # HOME
        BY <1>6, <3>1
      <3>3. n - i + 1 \in 1..Len(Path[e])
        BY <1>2, <1>4, <1>6, <3>1
      <3>4. Path[e][n - i + 1] = Path[d][i + (n - i + 1) - 1] /\ i + (n - i + 1) - 1 = n
        <4>1. PICK k \in 1..Len(Path[e]) : k = n - i + 1
          BY <3>3
        <4>2. Path[e][k] = Path[d][i + k - 1]
          BY <1>4
        <4>3. i + k - 1 = n
          BY <3>0, <4>1
        <4>4. QED
          BY <4>1, <4>2, <3>0
      <3>5. n = Len(Path[d])
        BY <1>2, <3>2, <3>4
      <3>6. QED
        BY <1>2, <1>4, <1>6, <2>2, <3>5
    <2>3. m \in Int /\ n - i + 1 \in Int
      BY <1>2, <1>4, <1>6
    <2>4. QED
      BY <2>1, <2>2, <2>3
  <1>8. \A k \in 1..m : UpToHome(e)[k] = UpToHome(d)[i + k - 1]
    <2>1. ASSUME NEW k \in 1..m PROVE UpToHome(e)[k] = UpToHome(d)[i + k - 1]
      <3>1. i + k - 1 \in 1..n /\ k \in 1..Len(Path[e])
        BY <1>2, <1>4, <1>6, <1>7
      <3>2. QED
        BY <1>2, <1>4, <1>6, <3>1
    <2>2. QED
      BY <2>1
  <1>9. QED
    BY <1>1, <1>4, <1>5, <1>7, <1>8

\* Where the shorter walk finds a file, the longer one finds the same.
LEMMA SameFile ==
  ASSUME NEW f, NEW d \in Dirs, WorkspaceFile(f, d) # None
  PROVE  /\ IdentityFile(f, d) = WorkspaceFile(f, d)
         /\ WorkspaceFile(f, d) \in Dirs /\ f[WorkspaceFile(f, d)] # Absent
  <1>1. /\ Path[d] \in Seq(Dirs) /\ UpToHome(d) \in Seq(Dirs)
        /\ Len(UpToHome(d)) \in 1..Len(Path[d])
        /\ \A k \in 1..Len(UpToHome(d)) : UpToHome(d)[k] = Path[d][k]
    BY UpToHomeFacts
  <1>2. PICK i \in DOMAIN UpToHome(d) : Hit(f, UpToHome(d), i) /\ WorkspaceFile(f, d) = UpToHome(d)[i]
    BY <1>1, FirstFileFacts DEF WorkspaceFile
  <1>3. i \in DOMAIN Path[d] /\ Hit(f, Path[d], i) /\ UpToHome(d)[i] = Path[d][i]
    <2>1. DOMAIN UpToHome(d) = 1..Len(UpToHome(d)) /\ DOMAIN Path[d] = 1..Len(Path[d])
          /\ Len(Path[d]) \in Nat
      BY <1>1
    <2>2. i \in 1..Len(UpToHome(d)) /\ i \in 1..Len(Path[d]) /\ UpToHome(d)[i] = Path[d][i]
      BY <1>1, <2>1
    <2>3. \A j \in 1..Len(Path[d]) : j < i => j \in 1..Len(UpToHome(d))
      BY <1>1, <2>1, <2>2
    <2>4. QED
      BY <1>1, <1>2, <2>1, <2>2, <2>3 DEF Hit
  <1>4. IdentityFile(f, d) = Path[d][i]
    BY <1>1, <1>3, FirstFileIs DEF IdentityFile
  <1>5. QED
    BY <1>1, <1>2, <1>3, <1>4 DEF Hit

\* A directory's own file is the first its walk meets.
LEMMA OwnFile ==
  ASSUME NEW f, NEW d \in Dirs, f[d] # Absent
  PROVE  WorkspaceFile(f, d) = d
  <1>1. UpToHome(d) \in Seq(Dirs) /\ Len(UpToHome(d)) >= 1 /\ UpToHome(d)[1] = d
    <2>1. /\ Path[d] \in Seq(Dirs) /\ UpToHome(d) \in Seq(Dirs)
          /\ Len(UpToHome(d)) \in 1..Len(Path[d])
          /\ \A k \in 1..Len(UpToHome(d)) : UpToHome(d)[k] = Path[d][k]
      BY UpToHomeFacts
    <2>2. 1 \in 1..Len(UpToHome(d))
      BY <2>1
    <2>3. Path[d][1] = d
      BY WorkspaceAssumption
    <2>4. QED
      BY <2>1, <2>2, <2>3
  <1>2. 1 \in DOMAIN UpToHome(d) /\ \A j \in DOMAIN UpToHome(d) : ~(j < 1)
    BY <1>1
  <1>3. Hit(f, UpToHome(d), 1)
    BY <1>1, <1>2 DEF Hit
  <1>4. QED
    BY <1>1, <1>2, <1>3, FirstFileIs DEF WorkspaceFile

\* What PinnedNetwork makes of a file that is not spoilt.
LEMMA PinOf ==
  ASSUME NEW f \in [Dirs -> Content \cup {Absent, Torn}], NEW d \in Dirs, NEW e \in Dirs,
         WorkspaceFile(f, d) = e, f[e] \in Content
  PROVE  PinnedNetwork(f, d) = Or(f[e].network, DefaultNetwork)
  <1>1. e # None /\ f[e] # Absent /\ f[e] # Torn
    BY WorkspaceAssumption
  <1>2. Payload(f, e) = f[e]
    BY <1>1 DEF Payload
  <1>3. QED
    BY <1>1, <1>2 DEF PinnedNetwork

\* Writing the network a directory has already into the directory's own file changes the
\* network of no directory: where that file now comes first, what came first before was
\* what the directory itself had.
LEMMA PinKept ==
  ASSUME NEW f \in [Dirs -> Content \cup {Absent, Torn}], NEW e \in Dirs, NEW next \in Content,
         next.network \in Networks, next.network = PinnedNetwork(f, e),
         NEW d \in Dirs
  PROVE  PinnedNetwork([f EXCEPT ![e] = next], d) = PinnedNetwork(f, d)
  <1>1. PICK g : g = [f EXCEPT ![e] = next]
    OBVIOUS
  <1>2. /\ g \in [Dirs -> Content \cup {Absent, Torn}]
        /\ g[e] = next /\ g[e] # Absent /\ \A x \in Dirs : x # e => g[x] = f[x]
    BY <1>1, WorkspaceAssumption
  <1>3. UpToHome(d) \in Seq(Dirs) /\ DOMAIN UpToHome(d) = 1..Len(UpToHome(d))
        /\ Len(UpToHome(d)) \in Nat /\ \A k \in DOMAIN UpToHome(d) : UpToHome(d)[k] \in Dirs
    BY UpToHomeFacts
  <1>4. CASE \A k \in DOMAIN UpToHome(d) : g[UpToHome(d)[k]] = Absent
    <2>1. \A k \in DOMAIN UpToHome(d) : f[UpToHome(d)[k]] = Absent
      BY <1>2, <1>3, <1>4
    <2>2. WorkspaceFile(g, d) = None /\ WorkspaceFile(f, d) = None
      BY <1>3, <1>4, <2>1, FirstFileNone DEF WorkspaceFile
    <2>3. QED
      BY <1>1, <2>2 DEF PinnedNetwork, Payload
  <1>5. ASSUME NEW i \in DOMAIN UpToHome(d), Hit(g, UpToHome(d), i), UpToHome(d)[i] # e
        PROVE  PinnedNetwork(g, d) = PinnedNetwork(f, d)
    <2>1. Hit(f, UpToHome(d), i)
      <3>1. f[UpToHome(d)[i]] # Absent
        BY <1>2, <1>3, <1>5 DEF Hit
      <3>2. ASSUME NEW j \in DOMAIN UpToHome(d), j < i PROVE f[UpToHome(d)[j]] = Absent
        BY <1>2, <1>3, <1>5, <3>2 DEF Hit
      <3>3. QED
        BY <3>1, <3>2 DEF Hit
    <2>2. WorkspaceFile(g, d) = UpToHome(d)[i] /\ WorkspaceFile(f, d) = UpToHome(d)[i]
      BY <1>3, <1>5, <2>1, FirstFileIs DEF WorkspaceFile
    <2>3. g[UpToHome(d)[i]] = f[UpToHome(d)[i]]
      BY <1>2, <1>3, <1>5
    <2>4. QED
      BY <2>2, <2>3 DEF PinnedNetwork, Payload
  <1>6. ASSUME NEW i \in DOMAIN UpToHome(d), Hit(g, UpToHome(d), i), UpToHome(d)[i] = e
        PROVE  PinnedNetwork(g, d) = PinnedNetwork(f, d)
    <2>1. PinnedNetwork(g, d) = next.network
      <3>1. WorkspaceFile(g, d) = e
        BY <1>3, <1>6, FirstFileIs DEF WorkspaceFile
      <3>2. PinnedNetwork(g, d) = Or(next.network, DefaultNetwork)
        BY <1>2, <3>1, PinOf
      <3>3. QED
        BY <3>2, WorkspaceAssumption DEF Or
    <2>2. /\ Len(UpToHome(e)) = Len(UpToHome(d)) - i + 1
          /\ \A k \in 1..Len(UpToHome(e)) : UpToHome(e)[k] = UpToHome(d)[i + k - 1]
      <3>1. i \in 1..Len(UpToHome(d)) /\ e = UpToHome(d)[i]
        BY <1>3, <1>6
      <3>2. QED
        BY ONLY <3>1, UpToHomeSuffix, e \in Dirs, d \in Dirs
    <2>3. UpToHome(e) \in Seq(Dirs) /\ DOMAIN UpToHome(e) = 1..Len(UpToHome(e))
          /\ Len(UpToHome(e)) \in Nat
      BY UpToHomeFacts
    <2>4. \A j \in DOMAIN UpToHome(d) : j < i => f[UpToHome(d)[j]] = Absent
      <3>1. ASSUME NEW j \in DOMAIN UpToHome(d), j < i PROVE f[UpToHome(d)[j]] = Absent
        <4>1. g[UpToHome(d)[j]] = Absent
          BY <1>6, <3>1 DEF Hit
        <4>2. QED
          BY <1>2, <1>3, <4>1
      <3>2. QED
        BY <3>1
    <2>5. WorkspaceFile(f, d) = WorkspaceFile(f, e)
      <3>1. CASE \A k \in DOMAIN UpToHome(e) : f[UpToHome(e)[k]] = Absent
        <4>1. ASSUME NEW j \in DOMAIN UpToHome(d) PROVE f[UpToHome(d)[j]] = Absent
          <5>1. CASE j < i
            BY <2>4, <5>1
          <5>2. CASE ~(j < i)
            <6>1. PICK k \in 1..Len(UpToHome(e)) : k = j - i + 1
              BY <1>3, <2>2, <2>3, <5>2
            <6>2. i + k - 1 = j
              BY <1>3, <6>1
            <6>3. UpToHome(e)[k] = UpToHome(d)[j]
              BY <2>2, <6>2
            <6>4. QED
              BY <2>3, <3>1, <6>3
          <5>3. QED
            BY <5>1, <5>2
        <4>2. QED
          BY <1>3, <2>3, <3>1, <4>1, FirstFileNone DEF WorkspaceFile
      <3>2. ASSUME NEW k \in DOMAIN UpToHome(e), Hit(f, UpToHome(e), k)
            PROVE  WorkspaceFile(f, d) = WorkspaceFile(f, e)
        <4>1. PICK l \in DOMAIN UpToHome(d) : l = i + k - 1
          BY <1>3, <2>2, <2>3
        <4>2. UpToHome(e)[k] = UpToHome(d)[l]
          BY <2>2, <2>3, <4>1
        <4>3. ASSUME NEW j \in DOMAIN UpToHome(d), j < l PROVE f[UpToHome(d)[j]] = Absent
          <5>1. CASE j < i
            BY <2>4, <5>1
          <5>2. CASE ~(j < i)
            <6>1. PICK m \in DOMAIN UpToHome(e) : m = j - i + 1 /\ m < k
              BY <1>3, <2>2, <2>3, <4>1, <4>3, <5>2
            <6>2. i + m - 1 = j
              BY <1>3, <6>1
            <6>3. UpToHome(e)[m] = UpToHome(d)[j]
              BY <2>2, <2>3, <6>2
            <6>4. QED
              BY <3>2, <6>1, <6>3 DEF Hit
          <5>3. QED
            BY <5>1, <5>2
        <4>4. Hit(f, UpToHome(d), l)
          BY <3>2, <4>2, <4>3 DEF Hit
        <4>5. QED
          BY <1>3, <2>3, <3>2, <4>2, <4>4, FirstFileIs DEF WorkspaceFile
      <3>3. QED
        BY <2>3, <3>1, <3>2, FirstFileFacts
    <2>6. QED
      BY <2>1, <2>5 DEF PinnedNetwork
  <1>7. QED
    BY <1>1, <1>3, <1>4, <1>5, <1>6, FirstFileFacts

-----------------------------------------------------------------------------
\* A running command has what its place in the code needs.
CommandOK(c) ==
  /\ c.kind = "set" => c.handle \in Handles
  /\ c.explicit => c.network \in Networks
  /\ c.pc \in {"read", "truncate", "fill"} => c.kind # "act"
  /\ c.pc \in {"profile", "network"} => (~c.explicit => c.network = None)
  /\ c.pc = "network" => c.profile \in Profiles
  /\ c.kind = "set" /\ c.pc \in {"read", "truncate", "fill"} => c.network \in Networks
  /\ c.pc \in {"truncate", "fill"} =>
       /\ c.next \in Content
       /\ c.kind = "set" =>
            /\ c.next.agent = c.handle /\ c.next.network \in Networks
            /\ c.explicit => c.next.network = c.network

\* What a set that was told no network has found is still so, while nobody else writes.
AloneOK(c, f) ==
  c.kind = "set" /\ ~c.explicit =>
    /\ c.pc = "network" => c.workspace = WorkspaceFile(f, c.cwd)
    /\ c.pc \in {"read", "truncate"} => c.network = PinnedNetwork(f, c.cwd)
    /\ c.pc = "truncate" => c.next.network = c.network

CommandsOK == \A p \in Processes : process[p] # Idle => CommandOK(process[p])
AloneInv == \A p \in alone : process[p] # Idle => AloneOK(process[p], file)

\* The last set of a directory is what its file says.
ToldInv ==
  \A d \in Dirs : told[d] # None =>
    /\ file[d] \in Content
    /\ file[d].agent = told[d].agent /\ file[d].network = told[d].network

IInv == TypeOK /\ CommandsOK /\ AloneInv /\ ToldInv

LEMMA InitHolds == Init => IInv
  BY WorkspaceAssumption DEF Init, IInv, TypeOK, CommandsOK, AloneInv, ToldInv

\* A step that writes nothing.
LEMMA Moves ==
  ASSUME IInv, NEW p \in Processes, NEW r \in {Idle} \cup Running,
         process' = [process EXCEPT ![p] = r],
         UNCHANGED <<file, told, edits>>, commands' \in 0..MaxCommands,
         alone' \subseteq alone \cup {p},
         r # Idle => CommandOK(r) /\ (p \in alone' => AloneOK(r, file))
  PROVE  IInv'
  <1> USE DEF IInv
  <1>1. process' \in [Processes -> {Idle} \cup Running] /\ process'[p] = r
        /\ \A q \in Processes : q # p => process'[q] = process[q]
    BY DEF TypeOK
  <1>2. TypeOK'
    BY <1>1 DEF TypeOK
  <1>3. CommandsOK'
    BY <1>1 DEF CommandsOK
  <1>4. AloneInv'
    BY <1>1 DEF AloneInv, TypeOK
  <1>5. ToldInv'
    BY DEF ToldInv
  <1>6. QED
    BY <1>2, <1>3, <1>4, <1>5

\* A step that writes a directory's file, in which nobody is left alone but the writer,
\* who is past what AloneOK speaks of.
LEMMA Writes ==
  ASSUME IInv, NEW d \in Dirs, NEW content \in Content \cup {Absent, Torn},
         NEW t \in {None} \cup [agent : Handles, network : Networks],
         file' = [file EXCEPT ![d] = content], told' = [told EXCEPT ![d] = t],
         t # None => content \in Content /\ content.agent = t.agent /\ content.network = t.network,
         process' \in [Processes -> {Idle} \cup Running], CommandsOK',
         UNCHANGED commands, edits' \in 0..MaxEdits,
         alone' \subseteq alone,
         \A p \in alone' : process'[p] # Idle => process'[p].pc = "fill"
  PROVE  IInv'
  <1> USE DEF IInv
  <1>1. TypeOK'
    BY DEF TypeOK
  <1>2. AloneInv'
    BY DEF AloneInv, AloneOK
  <1>3. ToldInv'
    <2>1. ASSUME NEW e \in Dirs, told'[e] # None
          PROVE  /\ file'[e] \in Content
                 /\ file'[e].agent = told'[e].agent /\ file'[e].network = told'[e].network
      <3>1. CASE e = d
        BY <2>1, <3>1 DEF TypeOK
      <3>2. CASE e # d
        BY <2>1, <3>2 DEF TypeOK, ToldInv
      <3>3. QED
        BY <3>1, <3>2
    <2>2. QED
      BY <2>1 DEF ToldInv
  <1>4. QED
    BY <1>1, <1>2, <1>3

LEMMA RunningFacts ==
  ASSUME IInv, NEW p \in Processes, process[p].pc # "idle"
  PROVE  process[p] \in Running /\ process[p] # Idle /\ CommandOK(process[p])
  BY DEF IInv, TypeOK, Idle, CommandsOK

\* What is read of a file.
LEMMA PayloadType ==
  ASSUME TypeOK, NEW d \in Dirs \cup {None}
  PROVE  Payload(file, d) \in Content \cup {Torn}
  BY DEF TypeOK, Payload, Blank, Content

LEMMA EndStep ==
  ASSUME IInv, NEW p \in Processes, End(p), UNCHANGED <<file, told, alone, edits, commands>>
  PROVE  IInv'
  <1>1. process' = [process EXCEPT ![p] = Idle]
    BY DEF End
  <1>2. alone' \subseteq alone \cup {p} /\ commands' \in 0..MaxCommands
    BY DEF IInv, TypeOK
  <1>3. QED
    BY <1>1, <1>2, Moves

LEMMA StartStep ==
  ASSUME IInv, NEW p \in Processes, Start(p)
  PROVE  IInv'
  <1>1. PICK c \in Command, d \in Dirs, choice \in Options :
          /\ c.kind = "clear" => choice = <<None, None>>
          /\ process' = [process EXCEPT ![p] =
               [pc |-> IF c.kind = "clear" THEN "read" ELSE "profile",
                kind |-> c.kind, handle |-> c.handle, cwd |-> d,
                profile |-> choice[1], explicit |-> choice[2] # None, network |-> choice[2],
                workspace |-> None, next |-> Absent]]
    BY DEF Start
  <1>2. PICK r : r = [pc |-> IF c.kind = "clear" THEN "read" ELSE "profile",
                      kind |-> c.kind, handle |-> c.handle, cwd |-> d,
                      profile |-> choice[1], explicit |-> choice[2] # None, network |-> choice[2],
                      workspace |-> None, next |-> Absent]
    OBVIOUS
  <1>3. /\ c.kind \in {"set", "clear", "act"} /\ c.handle \in Handles \cup {None}
        /\ c.kind = "set" => c.handle \in Handles
    BY DEF Command
  <1>4. choice[1] \in Profiles \cup {None} /\ choice[2] \in Networks \cup {None}
    BY WorkspaceAssumption
  <1>5. r \in Running
    BY <1>2, <1>3, <1>4 DEF Running
  <1>6. CommandOK(r) /\ AloneOK(r, file)
    BY <1>2, <1>3, <1>4 DEF CommandOK, AloneOK
  <1>7. /\ UNCHANGED <<file, told, edits>> /\ commands' \in 0..MaxCommands
        /\ alone' \subseteq alone \cup {p}
    <2>1. commands \in 0..MaxCommands /\ commands < MaxCommands /\ commands' = commands + 1
      BY DEF Start, IInv, TypeOK
    <2>2. MaxCommands \in Nat
      BY WorkspaceAssumption
    <2>3. QED
      BY <2>1, <2>2 DEF Start
  <1>8. QED
    BY <1>1, <1>2, <1>5, <1>6, <1>7, Moves

LEMMA ResolveProfileStep ==
  ASSUME IInv, NEW p \in Processes, ResolveProfile(p)
  PROVE  IInv'
  <1> DEFINE c == process[p]
             found == WorkspaceFile(file, c.cwd)
             payload == Payload(file, found)
             pin == IF c.profile = None /\ payload # Torn THEN payload.profile ELSE None
  <1>1. c \in Running /\ CommandOK(c) /\ c.pc = "profile"
    BY RunningFacts DEF ResolveProfile
  <1>2. UNCHANGED <<file, told, alone, edits, commands>> /\ commands' \in 0..MaxCommands
        /\ alone' \subseteq alone \cup {p}
    BY DEF ResolveProfile, IInv, TypeOK
  <1>3. found \in Dirs \cup {None}
    BY <1>1, SameFile DEF Running
  <1>4. pin \in Profiles \cup {None}
    <2>1. payload \in Content \cup {Torn}
      BY <1>3, PayloadType DEF IInv
    <2>2. QED
      BY <2>1 DEF Content
  <1>5. CASE End(p)
    BY <1>2, <1>5, EndStep
  <1>6. CASE process' = [process EXCEPT ![p].pc = "network", ![p].workspace = found,
                           ![p].profile = Or(@, Or(pin, DefaultProfile))]
    <2>1. PICK r : r = [c EXCEPT !.pc = "network", !.workspace = found,
                                 !.profile = Or(@, Or(pin, DefaultProfile))]
      OBVIOUS
    <2>2. Or(c.profile, Or(pin, DefaultProfile)) \in Profiles
      BY <1>1, <1>4, WorkspaceAssumption DEF Or, Running
    <2>3. r \in Running
      BY <1>1, <1>3, <2>1, <2>2 DEF Running
    <2>4. CommandOK(r) /\ AloneOK(r, file)
      <3>1. /\ r.pc = "network" /\ r.profile \in Profiles /\ r.workspace = WorkspaceFile(file, r.cwd)
            /\ r.kind = c.kind /\ r.handle = c.handle /\ r.explicit = c.explicit
            /\ r.network = c.network
        BY <1>1, <2>1, <2>2 DEF Running
      <3>2. QED
        BY <1>1, <3>1 DEF CommandOK, AloneOK
    <2>5. process' = [process EXCEPT ![p] = r]
      BY <1>6, <2>1
    <2>6. QED
      BY <1>2, <2>3, <2>4, <2>5, Moves
  <1>7. QED
    BY <1>5, <1>6 DEF ResolveProfile

LEMMA ResolveNetworkStep ==
  ASSUME IInv, NEW p \in Processes, ResolveNetwork(p)
  PROVE  IInv'
  <1> DEFINE c == process[p]
             payload == Payload(file, c.workspace)
             network == IF payload = Torn THEN None
                        ELSE Or(c.network, Or(payload.network, DefaultNetwork))
             after == IF c.kind = "set" THEN "read" ELSE IF c.handle # None THEN "acts" ELSE "identity"
  <1>1. c \in Running /\ CommandOK(c) /\ c.pc = "network" /\ c.profile \in Profiles
    BY RunningFacts DEF ResolveNetwork, CommandOK
  <1>2. UNCHANGED <<file, told, alone, edits, commands>> /\ commands' \in 0..MaxCommands
        /\ alone' \subseteq alone \cup {p}
    BY DEF ResolveNetwork, IInv, TypeOK
  <1>3. CASE End(p)
    BY <1>2, <1>3, EndStep
  <1>4. CASE /\ network \in Known[c.profile]
             /\ process' = [process EXCEPT ![p].pc = after, ![p].network = network,
                              ![p].profile = None, ![p].workspace = None]
    <2>1. PICK r : r = [c EXCEPT !.pc = after, !.network = network, !.profile = None, !.workspace = None]
      OBVIOUS
    <2>2. network \in Networks
      BY <1>1, <1>4, WorkspaceAssumption
    <2>3. r \in Running
      BY <1>1, <2>1, <2>2 DEF Running
    <2>4. /\ r.pc \in {"read", "acts", "identity"} /\ r.network = network /\ r.cwd = c.cwd
          /\ r.kind = c.kind /\ r.handle = c.handle /\ r.explicit = c.explicit
      BY <1>1, <2>1 DEF Running
    <2>5. CommandOK(r)
      <3>1. r.pc = "read" => r.kind = "set"
        BY <1>1, <2>1, <2>4 DEF Running
      <3>2. QED
        BY <1>1, <2>2, <2>4, <3>1 DEF CommandOK
    <2>6. ASSUME p \in alone' PROVE AloneOK(r, file)
      <3>1. SUFFICES ASSUME c.kind = "set", ~c.explicit PROVE r.network = PinnedNetwork(file, r.cwd)
        BY <2>4 DEF AloneOK
      <3>2. c.network = None /\ c.workspace = WorkspaceFile(file, c.cwd)
        BY <1>1, <1>2, <2>6, <3>1, RunningFacts DEF IInv, AloneInv, AloneOK, CommandOK
      <3>3. payload # Torn
        BY <2>2, WorkspaceAssumption
      <3>4. network = Or(payload.network, DefaultNetwork)
        BY <3>2, <3>3 DEF Or
      <3>5. QED
        BY <2>4, <3>2, <3>3, <3>4 DEF PinnedNetwork
    <2>7. process' = [process EXCEPT ![p] = r]
      BY <1>4, <2>1
    <2>8. QED
      BY <1>2, <2>3, <2>5, <2>6, <2>7, Moves
  <1>5. QED
    BY <1>3, <1>4 DEF ResolveNetwork

LEMMA ResolveAgentStep ==
  ASSUME IInv, NEW p \in Processes, ResolveAgent(p)
  PROVE  IInv'
  <1> DEFINE c == process[p]
             payload == Payload(file, IdentityFile(file, c.cwd))
             agent == IF payload = Torn THEN None ELSE AgentFor(payload, c.network)
  <1>1. c \in Running /\ CommandOK(c) /\ c.pc = "identity"
    BY RunningFacts DEF ResolveAgent
  <1>2. UNCHANGED <<file, told, alone, edits, commands>> /\ commands' \in 0..MaxCommands
        /\ alone' \subseteq alone \cup {p}
    BY DEF ResolveAgent, IInv, TypeOK
  <1>3. CASE End(p)
    BY <1>2, <1>3, EndStep
  <1>4. CASE /\ agent # None
             /\ process' = [process EXCEPT ![p].pc = "acts", ![p].handle = agent]
    <2>1. PICK r : r = [c EXCEPT !.pc = "acts", !.handle = agent]
      OBVIOUS
    <2>2. agent \in Handles
      <3>1. c.cwd \in Dirs /\ Path[c.cwd] \in Seq(Dirs)
        BY <1>1, WorkspaceAssumption DEF Running
      <3>2. IdentityFile(file, c.cwd) \in Dirs \cup {None}
        BY <3>1, FirstFileFacts DEF IdentityFile
      <3>3. payload \in Content \cup {Torn}
        BY <3>2, PayloadType DEF IInv
      <3>4. QED
        BY <1>4, <3>3 DEF AgentFor, Content
    <2>3. r \in Running
      BY <1>1, <2>1, <2>2 DEF Running
    <2>4. /\ r.pc = "acts" /\ r.handle = agent /\ r.network = c.network
          /\ r.kind = c.kind /\ r.explicit = c.explicit
      BY <1>1, <2>1 DEF Running
    <2>5. CommandOK(r) /\ AloneOK(r, file)
      BY <1>1, <2>2, <2>4 DEF CommandOK, AloneOK
    <2>6. process' = [process EXCEPT ![p] = r]
      BY <1>4, <2>1
    <2>7. QED
      BY <1>2, <2>3, <2>5, <2>6, Moves
  <1>5. QED
    BY <1>3, <1>4 DEF ResolveAgent

LEMMA ReadOwnStep ==
  ASSUME IInv, NEW p \in Processes, ReadOwn(p)
  PROVE  IInv'
  <1> DEFINE c == process[p]
             content == Payload(file, c.cwd)
             next == IF c.kind = "set" THEN Bound(c, content) ELSE Cleared(content)
  <1>1. c \in Running /\ CommandOK(c) /\ c.pc = "read" /\ c.cwd \in Dirs
    BY RunningFacts DEF ReadOwn, Running
  <1>2. UNCHANGED <<file, told, alone, edits, commands>> /\ commands' \in 0..MaxCommands
        /\ alone' \subseteq alone \cup {p}
    BY DEF ReadOwn, IInv, TypeOK
  <1>3. CASE End(p)
    BY <1>2, <1>3, EndStep
  <1>4. CASE /\ content # Torn
             /\ process' = [process EXCEPT ![p].next = next,
                              ![p].pc = IF next = Blank THEN "unlink" ELSE "truncate"]
    <2>1. content \in Content
      BY <1>1, <1>4, PayloadType DEF IInv
    <2>2. /\ next \in Content
          /\ c.kind = "set" =>
               /\ next.agent = c.handle
               /\ next.network = IF c.explicit THEN c.network ELSE Or(content.network, c.network)
      <3>1. CASE c.kind = "set"
        <4>1. c.handle \in Handles /\ c.network \in Networks
          BY <1>1, <3>1 DEF CommandOK
        <4>2. next = [content EXCEPT !.agent = c.handle,
                        !.network = IF c.explicit THEN c.network ELSE Or(@, c.network)]
          BY <3>1 DEF Bound
        <4>3. (IF c.explicit THEN c.network ELSE Or(content.network, c.network)) \in Networks \cup {None}
          BY <2>1, <4>1 DEF Or, Content
        <4>4. QED
          BY <2>1, <4>1, <4>2, <4>3 DEF Content
      <3>2. CASE c.kind # "set"
        BY <2>1, <3>2 DEF Cleared, Content
      <3>3. QED
        BY <3>1, <3>2
    <2>3. PICK r : r = [c EXCEPT !.next = next, !.pc = IF next = Blank THEN "unlink" ELSE "truncate"]
      OBVIOUS
    <2>4. r \in Running
      BY <1>1, <2>2, <2>3 DEF Running
    <2>5. /\ r.pc \in {"truncate", "unlink"} /\ r.next = next /\ r.cwd = c.cwd
          /\ r.network = c.network /\ r.kind = c.kind /\ r.handle = c.handle
          /\ r.explicit = c.explicit
      BY <1>1, <2>3 DEF Running
    <2>6. CommandOK(r)
      <3>1. c.kind = "set" => next.network \in Networks
        BY <1>1, <2>1, <2>2 DEF CommandOK, Or, Content
      <3>2. QED
        BY <1>1, <2>2, <2>5, <3>1 DEF CommandOK
    <2>7. ASSUME p \in alone' PROVE AloneOK(r, file)
      <3>1. SUFFICES ASSUME c.kind = "set", ~c.explicit
            PROVE  r.network = PinnedNetwork(file, r.cwd) /\ r.next.network = r.network
        BY <2>5 DEF AloneOK
      <3>2. c.network = PinnedNetwork(file, c.cwd)
        BY <1>1, <1>2, <2>7, <3>1, RunningFacts DEF IInv, AloneInv, AloneOK
      <3>3. next.network = Or(content.network, c.network)
        BY <2>2, <3>1
      <3>4. next.network = c.network
        <4>1. CASE file[c.cwd] = Absent
          BY <1>1, <3>3, <4>1, WorkspaceAssumption DEF Payload, Blank, Or
        <4>2. CASE file[c.cwd] # Absent
          <5>1. WorkspaceFile(file, c.cwd) = c.cwd /\ content = file[c.cwd]
            BY <1>1, <4>2, OwnFile, WorkspaceAssumption DEF Payload
          <5>2. file \in [Dirs -> Content \cup {Absent, Torn}]
            BY DEF IInv, TypeOK
          <5>3. PinnedNetwork(file, c.cwd) = Or(content.network, DefaultNetwork)
            BY <1>1, <2>1, <5>1, <5>2, PinOf
          <5>4. QED
            BY <3>2, <3>3, <5>3 DEF Or
        <4>3. QED
          BY <4>1, <4>2
      <3>5. QED
        BY <2>5, <3>2, <3>4
    <2>8. process' = [process EXCEPT ![p] = r]
      BY <1>4, <2>3
    <2>9. QED
      BY <1>2, <2>4, <2>6, <2>7, <2>8, Moves
  <1>5. QED
    BY <1>3, <1>4 DEF ReadOwn

LEMMA TruncateStep ==
  ASSUME IInv, NEW p \in Processes, Truncate(p)
  PROVE  IInv'
  <1>1. process[p] \in Running /\ CommandOK(process[p]) /\ process[p].pc = "truncate"
        /\ process[p].cwd \in Dirs
    BY RunningFacts DEF Truncate, Running
  <1>2. PICK r : r = [process[p] EXCEPT !.pc = "fill"]
    OBVIOUS
  <1>3. r \in Running /\ r # Idle /\ r.pc = "fill" /\ r.kind = process[p].kind
        /\ r.handle = process[p].handle /\ r.explicit = process[p].explicit
        /\ r.network = process[p].network /\ r.next = process[p].next
    BY <1>1, <1>2 DEF Running, Idle
  <1>4. CommandOK(r)
    BY <1>1, <1>3 DEF CommandOK
  <1>5. process' = [process EXCEPT ![p] = r]
    BY <1>2 DEF Truncate
  <1>6. /\ process' \in [Processes -> {Idle} \cup Running] /\ process'[p] = r
        /\ \A q \in Processes : q # p => process'[q] = process[q]
    BY <1>3, <1>5 DEF IInv, TypeOK
  <1>7. CommandsOK'
    BY <1>4, <1>6 DEF IInv, CommandsOK
  <1>8. PICK d \in Dirs : d = process[p].cwd
    BY <1>1
  <1>9. /\ file' = [file EXCEPT ![d] = Torn] /\ told' = [told EXCEPT ![d] = None]
        /\ alone' = alone \cap {p} /\ UNCHANGED <<edits, commands>>
        /\ edits' \in 0..MaxEdits
    BY <1>8 DEF Truncate, IInv, TypeOK
  <1>10. alone' \subseteq alone /\ \A q \in alone' : process'[q] # Idle => process'[q].pc = "fill"
    BY <1>3, <1>6, <1>9
  <1>11. QED
    BY <1>6, <1>7, <1>9, <1>10, Writes

LEMMA FillStep ==
  ASSUME IInv, NEW p \in Processes, Fill(p)
  PROVE  IInv'
  <1>1. process[p] \in Running /\ CommandOK(process[p]) /\ process[p].pc = "fill"
        /\ process[p].cwd \in Dirs
    BY RunningFacts DEF Fill, Running
  <1>2. /\ process' \in [Processes -> {Idle} \cup Running] /\ process'[p] = Idle
        /\ \A q \in Processes : q # p => process'[q] = process[q]
    BY DEF Fill, End, IInv, TypeOK
  <1>3. CommandsOK'
    BY <1>2 DEF IInv, CommandsOK
  <1>4. PICK d \in Dirs : d = process[p].cwd
    BY <1>1
  <1>5. PICK content \in {process[p].next} \cup {Torn} :
          /\ file' = [file EXCEPT ![d] = content]
          /\ told' = [told EXCEPT ![d] =
               IF content = Torn \/ process[p].kind = "clear" THEN None
               ELSE [agent |-> process[p].handle,
                     network |-> IF process[p].explicit THEN process[p].network
                                 ELSE process[p].next.network]]
    BY <1>4 DEF Fill
  <1>6. PICK t : t = IF content = Torn \/ process[p].kind = "clear" THEN None
               ELSE [agent |-> process[p].handle,
                     network |-> IF process[p].explicit THEN process[p].network
                                 ELSE process[p].next.network]
    OBVIOUS
  <1>7. process[p].next \in Content
    BY <1>1 DEF CommandOK
  <1>8. /\ t \in {None} \cup [agent : Handles, network : Networks]
        /\ t # None => content \in Content /\ content.agent = t.agent /\ content.network = t.network
    <2>1. CASE content = Torn \/ process[p].kind = "clear"
      BY <1>6, <2>1
    <2>2. CASE content = process[p].next /\ process[p].kind = "set"
      BY <1>1, <1>6, <1>7, <2>2, WorkspaceAssumption DEF CommandOK
    <2>3. process[p].kind # "act"
      BY <1>1 DEF CommandOK
    <2>4. QED
      BY <1>1, <1>5, <2>1, <2>2, <2>3 DEF Running
  <1>9. alone' = alone \cap {p} /\ UNCHANGED <<edits, commands>> /\ edits' \in 0..MaxEdits
    BY DEF Fill, IInv, TypeOK
  <1>10. alone' \subseteq alone /\ \A q \in alone' : process'[q] # Idle => process'[q].pc = "fill"
    BY <1>2, <1>9
  <1>11. told' = [told EXCEPT ![d] = t]
    BY <1>5, <1>6
  <1>12. content \in Content \cup {Absent, Torn} /\ file' = [file EXCEPT ![d] = content]
    BY <1>5, <1>7
  <1>13. QED
    BY <1>2, <1>3, <1>8, <1>9, <1>10, <1>11, <1>12, Writes

LEMMA UnlinkStep ==
  ASSUME IInv, NEW p \in Processes, Unlink(p)
  PROVE  IInv'
  <1>1. process[p].cwd \in Dirs
    BY RunningFacts DEF Unlink, Running
  <1>2. /\ process' \in [Processes -> {Idle} \cup Running] /\ process'[p] = Idle
        /\ \A q \in Processes : q # p => process'[q] = process[q]
    BY DEF Unlink, End, IInv, TypeOK
  <1>3. CommandsOK'
    BY <1>2 DEF IInv, CommandsOK
  <1>4. PICK d \in Dirs : d = process[p].cwd
    BY <1>1
  <1>5. /\ file' = [file EXCEPT ![d] = Absent] /\ told' = [told EXCEPT ![d] = None]
        /\ alone' = alone \cap {p} /\ UNCHANGED <<edits, commands>>
        /\ edits' \in 0..MaxEdits
    BY <1>4 DEF Unlink, IInv, TypeOK
  <1>6. alone' \subseteq alone /\ \A q \in alone' : process'[q] # Idle => process'[q].pc = "fill"
    BY <1>2, <1>5
  <1>7. QED
    BY <1>2, <1>3, <1>5, <1>6, Writes

LEMMA EditStep ==
  ASSUME IInv, NEW d \in Dirs, Edit(d)
  PROVE  IInv'
  <1>1. PICK content \in Drafts \cup {Torn, Absent} : file' = [file EXCEPT ![d] = content]
    BY DEF Edit
  <1>2. content \in Content \cup {Absent, Torn}
    BY WorkspaceAssumption
  <1>3. /\ told' = [told EXCEPT ![d] = None] /\ alone' = {} /\ UNCHANGED <<process, commands>>
        /\ edits' \in 0..MaxEdits
    BY WorkspaceAssumption DEF Edit, IInv, TypeOK
  <1>4. process' \in [Processes -> {Idle} \cup Running] /\ CommandsOK'
    BY <1>3 DEF IInv, TypeOK, CommandsOK
  <1>5. QED
    BY <1>1, <1>2, <1>3, <1>4, Writes

\* Every step keeps the inductive invariant.
LEMMA StepHolds == IInv /\ [Next]_vars => IInv'
  <1> SUFFICES ASSUME IInv, [Next]_vars PROVE IInv'
    OBVIOUS
  <1>1. ASSUME NEW p \in Processes, Die(p) \/ Act(p) PROVE IInv'
    BY <1>1, EndStep DEF Die, Act
  <1>2. ASSUME NEW p \in Processes,
               Start(p) \/ ResolveProfile(p) \/ ResolveNetwork(p) \/ ResolveAgent(p)
        PROVE  IInv'
    BY <1>2, StartStep, ResolveProfileStep, ResolveNetworkStep, ResolveAgentStep
  <1>3. ASSUME NEW p \in Processes, ReadOwn(p) \/ Truncate(p) \/ Fill(p) \/ Unlink(p)
        PROVE  IInv'
    BY <1>3, ReadOwnStep, TruncateStep, FillStep, UnlinkStep
  <1>4. CASE \E d \in Dirs : Edit(d)
    BY <1>4, EditStep
  <1>5. CASE UNCHANGED vars
    BY <1>5 DEF vars, IInv, TypeOK, CommandsOK, AloneInv, ToldInv
  <1>6. QED
    BY <1>1, <1>2, <1>3, <1>4, <1>5 DEF Next

LEMMA InvariantHolds == Spec => []IInv
  BY InitHolds, StepHolds, PTL DEF Spec

-----------------------------------------------------------------------------
\* Files, commands and what was reported keep their shapes.
THEOREM TypeCorrect == Spec => []TypeOK
  <1>1. IInv => TypeOK
    BY DEF IInv
  <1>2. QED
    BY <1>1, InvariantHolds, PTL

\* What `identity set` reported is what commands in the directory, and below it with no
\* nearer file, run as until somebody writes the file again: the two walks up the tree
\* end at the same file.
THEOREM SetsHold == Spec => []SetHolds
  <1>1. IInv => SetHolds
    <2> SUFFICES ASSUME IInv, NEW d \in Dirs, told[d] # None,
                        NEW below \in Dirs, WorkspaceFile(file, below) = d
                 PROVE  /\ PinnedNetwork(file, below) = told[d].network
                        /\ AgentFor(Payload(file, IdentityFile(file, below)),
                                    PinnedNetwork(file, below)) = told[d].agent
      BY DEF SetHolds
    <2>1. /\ file \in [Dirs -> Content \cup {Absent, Torn}] /\ file[d] \in Content
          /\ file[d].agent = told[d].agent /\ file[d].network = told[d].network
          /\ told[d].network \in Networks
      BY DEF IInv, TypeOK, ToldInv
    <2>2. d # None /\ file[d] # Absent /\ told[d].network # None
      BY <2>1, WorkspaceAssumption
    <2>3. PinnedNetwork(file, below) = told[d].network
      BY <2>1, <2>2, PinOf DEF Or
    <2>4. Payload(file, IdentityFile(file, below)) = file[d]
      BY <2>2, SameFile DEF Payload
    <2>5. QED
      BY <2>1, <2>3, <2>4 DEF AgentFor
  <1>2. QED
    BY <1>1, InvariantHolds, PTL

\* A set that was told no network changes the network of no directory, however deep the
\* tree and wherever the home directory is in it.
THEOREM PinsHold == Spec => []PinsStand
  <1>1. IInv => PinsStand
    <2> SUFFICES ASSUME IInv, NEW p \in alone, process[p] # Idle, process[p].pc = "truncate",
                        ~process[p].explicit, process[p].kind = "set", NEW d \in Dirs
                 PROVE  PinnedNetwork([file EXCEPT ![process[p].cwd] = process[p].next], d)
                          = PinnedNetwork(file, d)
      BY DEF PinsStand
    <2>1. p \in Processes /\ file \in [Dirs -> Content \cup {Absent, Torn}]
      BY DEF IInv, TypeOK
    <2>2. process[p] \in Running /\ CommandOK(process[p]) /\ AloneOK(process[p], file)
      BY <2>1, RunningFacts DEF IInv, AloneInv
    <2>3. /\ process[p].cwd \in Dirs /\ process[p].next \in Content
          /\ process[p].next.network \in Networks
          /\ process[p].next.network = PinnedNetwork(file, process[p].cwd)
      BY <2>2 DEF Running, CommandOK, AloneOK
    <2>4. QED
      BY <2>1, <2>3, PinKept
  <1>2. QED
    BY <1>1, InvariantHolds, PTL

\* The agent a command takes from the tree is that of the workspace its network comes from,
\* although the two are looked for at different times and one search ends earlier.
THEOREM WorkspacesAreOne == Spec => OneWorkspace
  <1> DEFINE A == \A p \in Processes :
       process[p].pc = "identity" /\ process'[p].pc = "acts" =>
         LET found == WorkspaceFile(file, process[p].cwd)
             c == process'[p]
         IN  found # None =>
               /\ file[found].agent = c.handle
               /\ file[found].network = c.network
  <1>1. IInv /\ [Next]_vars => A
    <2> SUFFICES ASSUME IInv, [Next]_vars, NEW p \in Processes,
                        process[p].pc = "identity", process'[p].pc = "acts",
                        WorkspaceFile(file, process[p].cwd) # None
                 PROVE  /\ file[WorkspaceFile(file, process[p].cwd)].agent = process'[p].handle
                        /\ file[WorkspaceFile(file, process[p].cwd)].network = process'[p].network
      OBVIOUS
    <2>1. process \in [Processes -> {Idle} \cup Running] /\ process[p] \in Running
          /\ process[p].cwd \in Dirs
      BY RunningFacts DEF IInv, TypeOK, Running
    <2>2. ResolveAgent(p)
      <3>1. process'[p] # process[p]
        OBVIOUS
      <3>2. PICK q \in Processes :
              \/ Start(q) \/ Die(q) \/ Act(q)
              \/ ResolveProfile(q) \/ ResolveNetwork(q) \/ ResolveAgent(q)
              \/ ReadOwn(q) \/ Truncate(q) \/ Fill(q) \/ Unlink(q)
        BY <3>1 DEF Next, vars, Edit
      <3>3. ASSUME q # p PROVE FALSE
        BY <2>1, <3>1, <3>2, <3>3
        DEF Start, Die, Act, ResolveProfile, ResolveNetwork, ResolveAgent, ReadOwn, Truncate,
            Fill, Unlink, End
      <3>4. ~Die(p)
        BY <2>1 DEF Die, End, Idle
      <3>5. ~Start(p)
        BY DEF Start, Idle
      <3>6. QED
        BY <3>2, <3>3, <3>4, <3>5
        DEF Act, ResolveProfile, ResolveNetwork, ReadOwn, Truncate, Fill, Unlink
    <2>3. PICK found \in Dirs : /\ found = WorkspaceFile(file, process[p].cwd)
                                /\ IdentityFile(file, process[p].cwd) = found
                                /\ file[found] # Absent /\ found # None
      BY <2>1, SameFile
    <2>4. Payload(file, found) = file[found]
      BY <2>3 DEF Payload
    <2>5. process'[p] # Idle
      BY DEF Idle
    <2>6. PICK agent : /\ agent # None /\ agent = AgentFor(file[found], process[p].network)
                       /\ process' = [process EXCEPT ![p].pc = "acts", ![p].handle = agent]
      BY <2>1, <2>2, <2>3, <2>4, <2>5 DEF ResolveAgent, End
    <2>7. process'[p].handle = agent /\ process'[p].network = process[p].network
      BY <2>1, <2>6 DEF Running
    <2>8. file[found].network = process[p].network /\ file[found].agent = agent
      BY <2>6 DEF AgentFor
    <2>9. QED
      BY <2>3, <2>7, <2>8
  <1>2. QED
    BY <1>1, InvariantHolds, PTL DEF Spec, OneWorkspace
=============================================================================
