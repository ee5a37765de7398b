------------------------ MODULE MacPlacement_proofs ------------------------
(***************************************************************************)
(* Proofs about MacPlacement, for any number of paths, any names and any   *)
(* number of files that the user saves meanwhile.                          *)
(***************************************************************************)
EXTENDS MacPlacement, TLAPS

Types ==
  /\ pc \in {"find", "choose", "move", "copy", "finish", "clean", "done", "crashed"}
  /\ at \in Nat
  /\ staging \subseteq Paths /\ placed \subseteq Paths
  /\ folder \in [Keys -> Paths \cup {User, None}]
  /\ targets \in Seq(Keys)

\* Until names are chosen nothing moves; then every path has one, and the loop
\* is at a path.
Progress ==
  /\ pc \in {"find", "choose"} => at = 1 /\ staging = Paths /\ placed = {}
  /\ pc \in {"move", "copy", "finish", "clean"} => Len(targets) = Count /\ at \in Paths

Distinct == \A i, j \in DOMAIN targets : targets[i] = targets[j] => i = j

\* Paths that have their place have it in the folder, the others are in staging
\* and their names are still free but for what the user saved under them.
Whereabouts ==
  /\ \A i \in placed : i < at /\ i \in DOMAIN targets /\ folder[targets[i]] = i
  /\ \A i \in Paths \ placed : i \in staging
  /\ \A i \in DOMAIN targets :
       \/ i \in placed \/ (pc = "clean" /\ i = at) \/ (pc = "crashed" /\ folder[targets[i]] = i)
       \/ folder[targets[i]] = None \/ (folder[targets[i]] = User /\ targets[i] \in late)
  /\ pc = "clean" => folder[targets[at]] = at

IInv == Types /\ Progress /\ Distinct /\ Whereabouts

\* Nothing has happened yet.
LEMMA InitIInv == Init => IInv
BY MacPlacementAssumption DEF Init, IInv, Types, Progress, Distinct, Whereabouts, Paths

\* The user saves a file, which never has the name of one that has its place.
LEMMA UserSavesIInv == \A k \in Keys : IInv /\ UserSaves(k) => IInv'
<1> SUFFICES ASSUME NEW k \in Keys, IInv, UserSaves(k) PROVE IInv'
  OBVIOUS
<1> USE DEF IInv, UserSaves
<1>1. Types' BY DEF Types
<1>2. Progress' BY DEF Progress
<1>3. Distinct' BY DEF Distinct
<1>4. \A i \in DOMAIN targets : targets[i] \in Keys
  BY DEF Types
<1>5. \A i \in DOMAIN targets : folder[targets[i]] # None => folder'[targets[i]] = folder[targets[i]]
  BY <1>4 DEF Types
<1>6. \A i \in Paths : i # None
  BY MacPlacementAssumption DEF Paths
<1>7. \A i \in placed : folder[targets[i]] # None
  BY <1>6 DEF Whereabouts, Types
<1>8. \A i \in DOMAIN targets : folder[targets[i]] = None =>
        folder'[targets[i]] = None \/ (folder'[targets[i]] = User /\ targets[i] \in late')
  BY <1>4 DEF Types
<1>9. late \subseteq late'
  OBVIOUS
<1>10. pc = "clean" => at \in DOMAIN targets /\ folder[targets[at]] # None
  BY <1>6 DEF Progress, Whereabouts, Types, Paths
<1>11. Whereabouts'
  <2>1. \A i \in placed' : i < at' /\ i \in DOMAIN targets' /\ folder'[targets'[i]] = i
    BY <1>5, <1>7 DEF Whereabouts
  <2>2. \A i \in Paths \ placed' : i \in staging'
    BY DEF Whereabouts
  <2>3. ASSUME NEW i \in DOMAIN targets'
        PROVE  \/ i \in placed' \/ (pc' = "clean" /\ i = at') \/ (pc' = "crashed" /\ folder'[targets'[i]] = i)
               \/ folder'[targets'[i]] = None \/ (folder'[targets'[i]] = User /\ targets'[i] \in late')
    <3>1. CASE folder[targets[i]] = None
      BY <3>1, <1>8
    <3>2. CASE folder[targets[i]] # None
      BY <3>2, <1>5, <1>9 DEF Whereabouts
    <3> QED BY <3>1, <3>2
  <2>4. pc' = "clean" => folder'[targets'[at']] = at'
    BY <1>5, <1>10 DEF Whereabouts
  <2> QED BY <2>1, <2>2, <2>3, <2>4 DEF Whereabouts
<1> QED BY <1>1, <1>2, <1>3, <1>11

\* Choosing names: a new one is free in the folder and different from the others.
LEMMA ChooseIInv == IInv /\ (Find \/ Choose \/ ChooseEnds) => IInv'
<1> SUFFICES ASSUME IInv, Find \/ Choose \/ ChooseEnds PROVE IInv'
  OBVIOUS
<1> USE DEF IInv
<1>1. CASE Find
  BY <1>1 DEF Find, Types, Progress, Distinct, Whereabouts
<1>2. CASE ChooseEnds
  <2>1. Len(targets) = Count => DOMAIN targets = Paths
    BY DEF Types, Paths
  <2>2. 1 \in Paths
    BY MacPlacementAssumption DEF Paths
  <2> QED BY <1>2, <2>1, <2>2 DEF ChooseEnds, Types, Progress, Distinct, Whereabouts
<1>3. CASE Choose
  <2>1. PICK n \in DOMAIN Candidates[Len(targets) + 1] :
          /\ Available(Candidates[Len(targets) + 1][n])
          /\ targets' = Append(targets, Candidates[Len(targets) + 1][n])
    BY <1>3 DEF Choose
  <2> DEFINE name == Candidates[Len(targets) + 1][n]
  <2>2. Len(targets) + 1 \in 1 .. Count
    <3>1. Len(targets) \in Nat /\ Len(targets) < Count
      BY <1>3 DEF Choose, Types
    <3> QED BY <3>1, MacPlacementAssumption
  <2>3. name \in Keys
    BY <2>1, <2>2, MacPlacementAssumption
  <2>4. targets' \in Seq(Keys) /\ Len(targets') = Len(targets) + 1
    BY <2>1, <2>3 DEF Types
  <2>5. \A i \in DOMAIN targets : i \in DOMAIN targets' /\ targets'[i] = targets[i]
    BY <2>1, <2>3 DEF Types
  <2>6. \A i \in DOMAIN targets' : i \in DOMAIN targets \/ i = Len(targets) + 1
    BY <2>4 DEF Types
  <2>7. targets'[Len(targets) + 1] = name
    BY <2>1, <2>3 DEF Types
  <2>8. folder[name] = None /\ \A i \in DOMAIN targets : targets[i] # name
    BY <2>1 DEF Available, Reserved
  <2> HIDE DEF name
  <2>9. Types' /\ Progress'
    BY <1>3, <2>4 DEF Choose, Types, Progress
  <2>10. Distinct'
    BY <2>5, <2>6, <2>7, <2>8 DEF Distinct
  <2>11. Whereabouts'
    <3>1. placed' = {} /\ staging' = Paths /\ pc' = "choose" /\ folder' = folder /\ late' = late
      BY <1>3 DEF Choose, Progress
    <3>2. \A i \in DOMAIN targets' :
            folder'[targets'[i]] = None \/ (folder'[targets'[i]] = User /\ targets'[i] \in late')
      BY <1>3, <2>5, <2>6, <2>7, <2>8, <3>1 DEF Choose, Whereabouts, Progress
    <3> QED BY <3>1, <3>2 DEF Whereabouts
  <2> QED BY <2>9, <2>10, <2>11
<1> QED BY <1>1, <1>2, <1>3

\* While a path is being placed it has a target, which is its own.
LEMMA AtHasTarget ==
  ASSUME IInv, pc \in {"move", "copy", "finish", "clean"}
  PROVE  /\ DOMAIN targets = Paths /\ at \in Paths /\ Target \in Keys
         /\ \A i \in Paths : i # at => targets[i] # Target
<1>1. DOMAIN targets = Paths
  BY DEF IInv, Types, Progress, Paths
<1>2. at \in Paths /\ targets[at] \in Keys
  BY <1>1 DEF IInv, Types, Progress
<1> QED BY <1>1, <1>2 DEF IInv, Distinct, Target

\* A path put under its target leaves all other targets as they were.
LEMMA PutIsLocal ==
  ASSUME IInv, pc \in {"move", "finish"}, folder' = [folder EXCEPT ![Target] = at]
  PROVE  /\ folder'[targets[at]] = at
         /\ \A i \in Paths : i # at => folder'[targets[i]] = folder[targets[i]]
         /\ folder' \in [Keys -> Paths \cup {User, None}]
BY AtHasTarget DEF IInv, Types, Target

\* The path that was at its place is counted as placed.
LEMMA PlacedIInv ==
  ASSUME IInv, pc \in {"move", "clean"}, Placed, UNCHANGED <<targets, late>>,
         staging' \in {staging, staging \ {at}},
         folder'[targets[at]] = at,
         \A i \in Paths : i # at => folder'[targets[i]] = folder[targets[i]],
         folder' \in [Keys -> Paths \cup {User, None}]
  PROVE  IInv'
<1> USE DEF IInv
<1>1. DOMAIN targets = Paths /\ at \in Paths
  BY AtHasTarget
<1>2. at' \in Nat /\ at < at' /\ (pc' = "move" => at' \in Paths) /\ at # at'
  BY <1>1, MacPlacementAssumption DEF Placed, Paths
<1>3. pc' \in {"move", "done"}
  BY DEF Placed
<1>4. Types'
  BY <1>1, <1>2, <1>3 DEF Types, Placed, Paths
<1>5. Progress'
  <2>1. Len(targets) = Count
    BY DEF Progress
  <2> QED BY <1>2, <1>3, <2>1 DEF Progress, Paths
<1>6. Distinct'
  BY DEF Distinct
<1>7. Whereabouts'
  <2>1. ASSUME NEW i \in placed' PROVE i < at' /\ i \in DOMAIN targets' /\ folder'[targets'[i]] = i
    <3>1. CASE i = at
      BY <3>1, <1>1, <1>2
    <3>2. CASE i # at
      <4>1. i \in placed /\ i \in Paths
        BY <3>2 DEF Placed, Types
      <4>2. i < at /\ folder[targets[i]] = i
        BY <4>1 DEF Whereabouts
      <4>3. i < at'
        BY <4>1, <4>2, <1>1, <1>2, MacPlacementAssumption DEF Paths
      <4> QED BY <3>2, <4>1, <4>2, <4>3, <1>1
    <3> QED BY <3>1, <3>2
  <2>2. \A i \in Paths \ placed' : i \in staging'
    BY DEF Whereabouts, Placed
  <2>3. ASSUME NEW i \in DOMAIN targets', i \notin placed'
        PROVE  folder'[targets'[i]] = None \/ (folder'[targets'[i]] = User /\ targets'[i] \in late')
    <3>1. i # at /\ i \notin placed /\ i \in Paths
      BY <2>3, <1>1 DEF Placed
    <3>2. folder'[targets'[i]] = folder[targets[i]]
      BY <3>1
    <3> QED BY <3>1, <3>2, <1>1 DEF Whereabouts
  <2> QED BY <2>1, <2>2, <2>3, <1>3 DEF Whereabouts
<1> QED BY <1>4, <1>5, <1>6, <1>7

\* Placing: renaming, or copying and renaming, and at any time the end.
LEMMA PlaceIInv == IInv /\ (Move \/ Copy \/ Finish \/ Clean \/ Crash) => IInv'
<1> SUFFICES ASSUME IInv, Move \/ Copy \/ Finish \/ Clean \/ Crash PROVE IInv'
  OBVIOUS
<1> DEFINE Rest == UNCHANGED <<at, staging, folder, targets, placed, late>>
<1>1. ASSUME Rest, pc \in {"move", "copy", "finish"}, pc' \in {"copy", "finish", "done"} PROVE IInv'
  BY <1>1 DEF IInv, Types, Progress, Distinct, Whereabouts, Paths
<1>2. CASE Move
  <2>1. CASE pc' \in {"copy", "done"} /\ Rest
    BY <2>1, <1>1, <1>2 DEF Move
  <2>2. CASE folder' = [folder EXCEPT ![Target] = at] /\ Placed /\ staging' = staging \ {at}
    BY <1>2, <2>2, PutIsLocal, PlacedIInv DEF Move
  <2> QED BY <1>2, <2>1, <2>2 DEF Move, Fails
<1>3. CASE Copy
  <2>1. pc = "copy" /\ pc' \in {"copy", "finish", "done"} /\ Rest
    BY <1>3 DEF Copy, Fails
  <2> QED BY <2>1, <1>1
<1>4. CASE Finish
  <2>1. CASE pc' = "done" /\ Rest
    BY <2>1, <1>1, <1>4 DEF Finish
  <2>2. CASE folder' = [folder EXCEPT ![Target] = at] /\ pc' = "clean" /\ UNCHANGED <<at, placed>>
    <3>1. pc = "finish" /\ UNCHANGED <<staging, targets, late>>
      BY <1>4 DEF Finish
    <3>2. DOMAIN targets = Paths /\ at \in Paths
      BY <3>1, AtHasTarget
    <3>3. at \notin placed
      BY <3>2, MacPlacementAssumption DEF IInv, Whereabouts, Paths
    <3>4. /\ folder'[targets[at]] = at
          /\ \A i \in Paths : i # at => folder'[targets[i]] = folder[targets[i]]
          /\ folder' \in [Keys -> Paths \cup {User, None}]
      BY <2>2, <3>1, PutIsLocal
    <3>5. Types' /\ Progress' /\ Distinct'
      BY <2>2, <3>1, <3>4 DEF IInv, Types, Progress, Distinct, Paths
    <3>6. Whereabouts'
      <4>1. \A i \in placed : i # at /\ i \in Paths
        BY <3>3 DEF IInv, Types
      <4> QED BY <2>2, <3>1, <3>2, <3>4, <4>1 DEF IInv, Whereabouts, Paths
    <3> QED BY <3>5, <3>6 DEF IInv
  <2> QED BY <1>4, <2>1, <2>2 DEF Finish, Fails
<1>5. CASE Clean
  <2>1. folder'[targets[at]] = at /\ folder' = folder
    BY <1>5 DEF Clean, IInv, Whereabouts
  <2>2. folder' \in [Keys -> Paths \cup {User, None}]
    BY <2>1 DEF IInv, Types
  <2> QED BY <1>5, <2>1, <2>2, PlacedIInv DEF Clean
<1>6. CASE Crash
  <2>1. pc' = "crashed" /\ Rest
    BY <1>6 DEF Crash
  <2>2. Types' /\ Progress' /\ Distinct'
    BY <2>1 DEF IInv, Types, Progress, Distinct, Paths
  <2> QED BY <2>1, <2>2 DEF IInv, Whereabouts
<1> QED BY <1>2, <1>3, <1>4, <1>5, <1>6

LEMMA StutterIInv == IInv /\ UNCHANGED vars => IInv'
BY DEF vars, IInv, Types, Progress, Distinct, Whereabouts, Paths

\* The inductive invariant.
THEOREM Invariant == Spec => []IInv
<1>1. IInv /\ [Next]_vars => IInv'
  BY UserSavesIInv, ChooseIInv, PlaceIInv, StutterIInv DEF Next
<1> QED BY InitIInv, <1>1, PTL DEF Spec

\* Whatever fails and wherever the process ends, every received path is whole
\* in the staging directory or under its name, and nothing incomplete has a name.
THEOREM Whole == Spec => []ReceivedIsWhole
<1>1. IInv => ReceivedIsWhole
  BY DEF IInv, Types, Whereabouts, ReceivedIsWhole
<1> QED BY <1>1, Invariant, PTL

\* What is published when the placement is over is there.
THEOREM There == Spec => []ResultIsThere
<1>1. IInv => ResultIsThere
  BY DEF IInv, Whereabouts, ResultIsThere
<1> QED BY <1>1, Invariant, PTL

\* No file of the user is replaced but one that took its name after the choice.
THEOREM UsersFiles == Spec => UsersFilesStay
<1> DEFINE Stays == \A k \in Keys : folder[k] = User /\ folder'[k] # User => k \in late
<1>1. IInv /\ [Next]_vars => Stays
  <2> SUFFICES ASSUME IInv, [Next]_vars, NEW k \in Keys, folder[k] = User, folder'[k] # User
               PROVE  k \in late
    OBVIOUS
  <2>1. CASE \E l \in Keys : UserSaves(l)
    <3>1. PICK l \in Keys : UserSaves(l)
      BY <2>1
    <3> QED BY <3>1 DEF UserSaves, IInv, Types
  <2>2. CASE pc \in {"move", "finish"} /\ folder' = [folder EXCEPT ![Target] = at]
    <3>1. k = targets[at]
      BY <2>2 DEF IInv, Types, Target
    <3>2. at \in DOMAIN targets /\ at \in Paths
      BY <2>2, AtHasTarget
    <3>3. at \notin placed
      BY <3>2, MacPlacementAssumption DEF IInv, Whereabouts, Paths
    <3> QED BY <2>2, <3>1, <3>2, <3>3, MacPlacementAssumption DEF IInv, Whereabouts
  <2>3. CASE UNCHANGED folder
    BY <2>3
  <2> QED BY <2>1, <2>2, <2>3 DEF Next, Find, Choose, ChooseEnds, Move, Copy, Finish, Clean, Crash, vars
<1> QED BY <1>1, Invariant, PTL DEF Spec, UsersFilesStay
=============================================================================
