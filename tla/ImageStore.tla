----------------------------- MODULE ImageStore -----------------------------
(***************************************************************************)
(* The directory in which a node saves the images it receives: saveImage   *)
(* and pruneImages of node.go.  Sizes are in units of which the limit      *)
(* imageMaxMB is a small number.  The file system's clock tells any two    *)
(* saved images apart.                                                     *)
(***************************************************************************)
EXTENDS Integers, FiniteSets, FiniteSetsExt, Folds

CONSTANTS MaxSize,     \* imageMaxMB; 0: unlimited
          ImageSizes,  \* sizes of images
          Faults,      \* whether writing and removing files may fail
          None

ASSUME ImageStoreAssumption == MaxSize \in Nat /\ ImageSizes \subseteq Nat \ {0} /\ Faults \in BOOLEAN

VARIABLES images,   \* the png files other than latest.png: size and time
          latest,   \* size of latest.png, or None
          clock,    \* the file system's clock
          lastSave  \* history: the last save that pruned, or None: its size, whether it was itself
            \* removed, and the files that could not be

imageVars == <<images, latest, clock, lastSave>>

ImagesInit == images = {} /\ latest = None /\ clock = 0 /\ lastSave = None

SizeOf(files) == MapThenSumSet(LAMBDA f : f.size, files)

Total(files, png) == SizeOf(files) + IF png = None THEN 0 ELSE png

\* Wrong: newest first.
Oldest(files) == CHOOSE f \in files : \A g \in files : f.time <= g.time

Newest(files) == CHOOSE f \in files : \A g \in files : g.time <= f.time

\* One step of pruneImages' loop.
PruneOne(acc, f, stuck) ==
  IF acc.total <= MaxSize THEN acc
  ELSE IF f \in stuck THEN [acc EXCEPT !.kept = @ \cup {f}]
  ELSE [acc EXCEPT !.gone = @ \cup {f}, !.total = @ - f.size]

NonePruned(total) == [total |-> total, gone |-> {}, kept |-> {}]

\* The loop, oldest first: the newest comes after all the others.
Pruned(files, total, stuck) ==
  MapThenFoldSet(LAMBDA f, acc : PruneOne(acc, f, stuck), NonePruned(total), LAMBDA f : f, Newest, files)

\* Wrong: latest.png is not counted.
PruneForgetsLatest(files, png, stuck) == Pruned(files, Total(files, None), stuck)

\* pruneImages: while the total of all png files exceeds the limit, the next
\* oldest one but latest.png goes; those that cannot be removed are passed over.
Prune(files, png, stuck) == Pruned(files, Total(files, png), stuck)

\* saveImage, when the directory or the image cannot be written: nothing stays.
SaveFails == Faults /\ UNCHANGED imageVars

\* saveImage: a file of its own, then latest.png, whose failure leaves it as it
\* was or cut off, and then the pruning, unless the directory cannot be read.
Saves(size) ==
  LET new == [size |-> size, time |-> clock + 1]
      all == images \cup {new}
  IN  /\ clock' = clock + 1
      /\ latest' \in {size} \cup IF Faults THEN {latest, 0} ELSE {}
      /\ \/ /\ MaxSize = 0 \/ Faults
            /\ images' = all /\ lastSave' = None
         \/ /\ MaxSize > 0
            /\ \E stuck \in IF Faults THEN SUBSET all ELSE {{}} :
                 LET result == Prune(all, latest', stuck) IN
                 /\ images' = all \ result.gone
                 /\ lastSave' = [size |-> size, lost |-> new \in result.gone, kept |-> result.kept]

SaveImage(size) == SaveFails \/ Saves(size)

-----------------------------------------------------------------------------
ImagesTypeOK ==
  /\ \A f \in images : f.size \in ImageSizes /\ f.time \in 1 .. clock
  /\ \A f, g \in images : f # g => f.time # g.time
  /\ latest \in ImageSizes \cup {0, None}
  /\ clock \in Nat

\* A save keeps the directory within the limit, latest.png included, unless all
\* that is left are files that could not be removed.
LimitKept ==
  lastSave # None => Total(images, latest) <= MaxSize \/ images \subseteq lastSave.kept

\* An image just saved is never given up for older ones: it only goes if it does
\* not fit into the limit together with latest.png and what cannot be removed
\* (main.go and node.go: the oldest images are removed).
NewestKept ==
  lastSave # None /\ lastSave.lost => lastSave.size + Total(lastSave.kept, latest) > MaxSize
=============================================================================
