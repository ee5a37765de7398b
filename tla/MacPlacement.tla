---------------------------- MODULE MacPlacement ----------------------------
(***************************************************************************)
(* Where downloaded files go on macOS (clipboard_files_darwin.go): once a  *)
(* download is complete its files are moved from the staging directory     *)
(* into the folder Finder shows, by renaming, or by copying when the       *)
(* folder is on another volume.  Meanwhile the user works in that folder.  *)
(*                                                                         *)
(* A key is a name as the file system tells names apart, without regard to *)
(* case.  A file or directory is one value: the number of the received     *)
(* path, User for the user's, Part for one that is not complete.           *)
(***************************************************************************)
EXTENDS Integers, Sequences

CONSTANTS Count,       \* number of received paths
          Keys,        \* names in the folder
          Candidates,  \* Candidates[i]: the names that path i may get, in order: its own,
                       \* and that name with " (2)", " (3)" and so on
          None, User, Part,
          MaxUser      \* bound: files that the user puts into the folder

ASSUME MacPlacementAssumption ==
  /\ Count \in Nat \ {0} /\ MaxUser \in Nat
  /\ {None, User, Part} \cap 1 .. Count = {} /\ None # User
  /\ Candidates \in [1 .. Count -> Seq(Keys)]

Paths == 1 .. Count

VARIABLES
  pc,        \* what the download does next
  at,        \* the path it is at
  sameDisk,  \* whether the folder is on the volume of the staging directory
  staging,   \* received paths in the staging directory
  folder,    \* the folder that Finder showed
  temporary, \* names with the suffix .clipall-<pid>.part
  targets,   \* the names chosen so far
  placed,    \* paths whose place is their target: the others are published from staging
  late,      \* history: names that the user gave to a file after they were chosen
  users      \* history: files the user put into the folder

vars == <<pc, at, sameDisk, staging, folder, temporary, targets, placed, late, users>>

Init ==
  /\ pc = "find" /\ at = 1
  /\ sameDisk \in BOOLEAN
  /\ staging = Paths
  /\ folder = [k \in Keys |-> None]
  /\ temporary = [k \in Keys |-> None]
  /\ targets = << >>
  /\ placed = {} /\ late = {} /\ users = 0

\* The user saves a file under a name that is not taken.
UserSaves(k) ==
  /\ users < MaxUser /\ users' = users + 1
  /\ folder[k] = None
  /\ folder' = [folder EXCEPT ![k] = User]
  /\ late' = IF \E i \in DOMAIN targets : targets[i] = k THEN late \cup {k} ELSE late
  /\ UNCHANGED <<pc, at, sameDisk, staging, temporary, targets, placed>>

\* findMacFinderDestination: it may fail, time out or not be permitted.
Find ==
  /\ pc = "find"
  /\ pc' \in {"choose", "done"}
  /\ UNCHANGED <<at, sameDisk, staging, folder, temporary, targets, placed, late, users>>

Reserved == {targets[i] : i \in DOMAIN targets}

\* Wrong: the folder is not looked at.
AvailableUnseen(k) == k \notin Reserved

\* Wrong: the names already given to other paths are not looked at.
AvailableUnreserved(k) == folder[k] = None

\* availableMacDestination: Lstat finds nothing, and no other path has the name.
Available(k) == folder[k] = None /\ k \notin Reserved

\* The first loop of placeMacDownloadedPaths: a name for every path.
Choose ==
  /\ pc = "choose" /\ Len(targets) < Count
  /\ LET names == Candidates[Len(targets) + 1] IN
     \E n \in DOMAIN names :
       /\ Available(names[n]) /\ \A m \in 1 .. n - 1 : ~ Available(names[m])
       /\ targets' = Append(targets, names[n])
  /\ UNCHANGED <<pc, at, sameDisk, staging, folder, temporary, placed, late, users>>

\* All paths have a name, or the folder cannot be read and nothing is moved.
ChooseEnds ==
  /\ pc = "choose"
  /\ pc' = IF Len(targets) = Count THEN "move" ELSE "done"
  /\ UNCHANGED <<at, sameDisk, staging, folder, temporary, targets, placed, late, users>>

Target == targets[at]

\* The path has its place; on to the next one.
Placed ==
  /\ placed' = placed \cup {at}
  /\ at' = at + 1
  /\ pc' = IF at = Count THEN "done" ELSE "move"

\* Go on with the paths as they are: some placed, the others in staging.
Fails == pc' = "done" /\ UNCHANGED <<at, placed>>

\* os.Rename replaces a file that is there by now; on another volume it fails
\* with EXDEV; it may also fail otherwise.
Move ==
  /\ pc = "move"
  /\ \/ /\ sameDisk
        /\ staging' = staging \ {at}
        /\ folder' = [folder EXCEPT ![Target] = at]
        /\ Placed
     \/ Fails /\ UNCHANGED <<staging, folder>>
     \/ ~ sameDisk /\ pc' = "copy" /\ UNCHANGED <<at, placed, staging, folder>>
  /\ UNCHANGED <<sameDisk, temporary, targets, late, users>>

\* Wrong: copyMacPath copies to the final name.
CopyInPlace ==
  /\ pc = "copy"
  /\ folder' = [folder EXCEPT ![Target] = Part]
  /\ temporary' = [temporary EXCEPT ![Target] = at]
  /\ pc' = "finish" /\ UNCHANGED <<at, placed>>
  /\ UNCHANGED <<sameDisk, staging, targets, late, users>>

\* copyMacPath, to a temporary name next to the final one: begun, and then
\* complete, or failed, after which what was copied is removed again.
Copy ==
  /\ pc = "copy"
  /\ CASE temporary[Target] = None ->
            temporary' = [temporary EXCEPT ![Target] = Part] /\ UNCHANGED <<pc, at, placed>>
       [] OTHER ->
            \/ temporary' = [temporary EXCEPT ![Target] = at] /\ pc' = "finish" /\ UNCHANGED <<at, placed>>
            \/ temporary' = [temporary EXCEPT ![Target] = None] /\ Fails
  /\ UNCHANGED <<sameDisk, staging, folder, targets, late, users>>

\* The rename to the final name.
Finish ==
  /\ pc = "finish"
  /\ temporary' = [temporary EXCEPT ![Target] = None]
  /\ \/ folder' = [folder EXCEPT ![Target] = at] /\ pc' = "clean" /\ UNCHANGED <<at, placed>>
     \/ UNCHANGED folder /\ Fails
  /\ UNCHANGED <<sameDisk, staging, targets, late, users>>

\* The staged path is removed, if it can be.
Clean ==
  /\ pc = "clean"
  /\ staging' \in {staging, staging \ {at}}
  /\ Placed
  /\ UNCHANGED <<sameDisk, folder, temporary, targets, late, users>>

\* The process ends in the middle of it.
Crash ==
  /\ pc \notin {"done", "crashed"}
  /\ pc' = "crashed"
  /\ UNCHANGED <<at, sameDisk, staging, folder, temporary, targets, placed, late, users>>

Next ==
  \/ \E k \in Keys : UserSaves(k)
  \/ Find \/ Choose \/ ChooseEnds \/ Move \/ Copy \/ Finish \/ Clean \/ Crash

Spec == Init /\ [][Next]_vars

-----------------------------------------------------------------------------
\* Whatever fails and wherever the process ends, a received path is complete in
\* the staging directory or under its final name, and nothing incomplete ever
\* has a final name.
ReceivedIsWhole ==
  /\ \A i \in Paths : i \in staging \/ folder[targets[i]] = i
  /\ \A k \in Keys : folder[k] \in Paths \cup {User, None}

\* A file of the user in the folder is never replaced, except one that got its
\* name after the download had chosen that name for itself.
UsersFilesStay ==
  [][\A k \in Keys : folder[k] = User /\ folder'[k] # User => k \in late]_vars

\* What is published after the placement, in part or in whole, is there to be
\* pasted: placed paths under their targets, the others in staging.
ResultIsThere ==
  pc = "done" => \A i \in Paths : IF i \in placed THEN folder[targets[i]] = i ELSE i \in staging
=============================================================================
