------------------------------- MODULE HDrop -------------------------------
(***************************************************************************)
(* The list of files on the Windows clipboard, CF_HDROP (hdrop.go): a      *)
(* header of two fields, and the UTF-16 words of the paths, each followed  *)
(* by a zero, and one more zero.  A path is a sequence of words.           *)
(***************************************************************************)
EXTENDS Integers, Sequences

CONSTANT MaxFileEntries  \* 4096 in the program

ASSUME HDropAssumption == MaxFileEntries \in Nat

Paths == Seq(Nat \ {0}) \ {<< >>}

HeaderFields == 2   \* the offset of the list, and DROPFILES.fWide

\* The words of the first n paths, for every n.
WordsUpto(paths) ==
  LET words[n \in 0 .. Len(paths)] ==
        IF n = 0 THEN << >> ELSE words[n - 1] \o paths[n] \o <<0>>
  IN  words

EncodeHDrop(paths) == <<HeaderFields, 1>> \o (WordsUpto(paths)[Len(paths)] \o <<0>>)

\* decodeHDrop's loop, for one word: only a zero matters, and ends a path or, if
\* there is none, the list.
ReadWord(acc, words, i) ==
  IF acc.status # "open" \/ words[i] # 0 THEN acc
  ELSE IF i = acc.start THEN [acc EXCEPT !.status = "terminated"]
  ELSE IF Len(acc.paths) >= MaxFileEntries THEN [acc EXCEPT !.status = "refused"]
  ELSE [acc EXCEPT !.paths = Append(@, SubSeq(words, acc.start, i - 1)), !.start = i + 1]

NothingRead == [start |-> 1, paths |-> << >>, status |-> "open"]

ReadUpto(words) ==
  LET read[i \in 0 .. Len(words)] ==
        IF i = 0 THEN NothingRead ELSE ReadWord(read[i - 1], words, i)
  IN  read

RefusedList == [ok |-> FALSE]

DecodeHDrop(data) ==
  IF Len(data) < HeaderFields \/ data[1] \notin HeaderFields .. Len(data) - 1 \/ data[2] = 0 THEN RefusedList
  ELSE LET words == SubSeq(data, data[1] + 1, Len(data))
           last  == ReadUpto(words)[Len(words)]
       IN  IF last.status = "terminated" THEN [ok |-> TRUE, paths |-> last.paths] ELSE RefusedList

\* What encodeHDrop writes decodeHDrop reads as the same list, and a list that
\* is cut off is refused: it never passes for a shorter selection of files.
HDropIsReadBack(paths) ==
  /\ DecodeHDrop(EncodeHDrop(paths)) =
       IF Len(paths) <= MaxFileEntries THEN [ok |-> TRUE, paths |-> paths] ELSE RefusedList
  /\ \A k \in 0 .. Len(EncodeHDrop(paths)) - 1 : DecodeHDrop(SubSeq(EncodeHDrop(paths), 1, k)) = RefusedList
=============================================================================
