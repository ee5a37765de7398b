---------------------------- MODULE WindowsPaste ----------------------------
(***************************************************************************)
(* Offers of a FileOffers node on the Windows machine where they are       *)
(* pasted: the event loop as far as it meets them (node.go), the paste     *)
(* handler (clipboard_files_windows.go), and the download that fetches the *)
(* files one by one into the staging directory and goes on, after a        *)
(* failure, with those that are missing (file_sync.go).                    *)
(*                                                                         *)
(* The messages come over one connection, in order; some may be lost.      *)
(***************************************************************************)
EXTENDS FileOffers

CONSTANTS MaxPresses,   \* bound: presses of Ctrl+V
          WriteMayFail  \* whether the system may refuse a clipboard write

ASSUME WindowsPasteAssumption == MaxPresses \in Nat /\ WriteMayFail \in BOOLEAN

VARIABLES
  arrived,     \* number of messages received or lost
  board,       \* the Windows clipboard: other, marker or files, of which offer
  fileOffers,  \* Node.fileOffers
  current,     \* the handler's offer, or None
  downloading, \* the handler's flag
  result,      \* the channel results: offer and whether the download succeeded
  publishing,  \* the offer whose marker the handler found on the clipboard
  job,         \* the download goroutine: offer, phase (start, next, ask, copy), and the
               \* file and version it works on
  staged,      \* finished files in the staging directories: offer, file, version
  injecting,   \* goroutines that wait to press Ctrl+V
  presses

boardVars   == <<board, presses, injecting>>
handlerVars == <<current, downloading, publishing>>
jobVars     == <<job, staged>>
pasteVars == <<arrived, boardVars, fileOffers, handlerVars, result, jobVars>>
vars == <<sourceVars, pasteVars>>

NoJob == [offer |-> None, phase |-> "none", file |-> None, version |-> None]

Init ==
  /\ SourceInit
  /\ arrived = 0
  /\ board = [kind |-> "other", offer |-> None] /\ presses = 0 /\ injecting = 0
  /\ fileOffers = << >>
  /\ current = None /\ downloading = FALSE /\ publishing = None
  /\ result = << >> /\ job = NoJob /\ staged = {}

OnBoard(kind, o) == board' = [kind |-> kind, offer |-> o]

-----------------------------------------------------------------------------
(* The event loop *)

\* Text is written to the clipboard; an offer that has not expired replaces the
\* one that the handler has not taken.
Arrives(m) ==
  IF m = Text THEN OnBoard("other", None) /\ UNCHANGED fileOffers
  ELSE /\ fileOffers' = IF Valid(m) THEN <<m>> ELSE fileOffers
       /\ UNCHANGED board

LoopTakesMessage ==
  /\ arrived < Len(sent)
  /\ arrived' = arrived + 1
  /\ Arrives(sent[arrived'])
  /\ UNCHANGED <<sourceVars, presses, injecting, handlerVars, result, jobVars>>

MessageLost ==
  /\ arrived < Len(sent)
  /\ arrived' = arrived + 1
  /\ UNCHANGED <<sourceVars, boardVars, fileOffers, handlerVars, result, jobVars>>

\* Someone copies on the Windows machine.
OtherCopies ==
  /\ board.kind # "other"
  /\ OnBoard("other", None)
  /\ UNCHANGED <<sourceVars, arrived, presses, injecting, fileOffers, handlerVars, result, jobVars>>

-----------------------------------------------------------------------------
(* runFilePasteHandler *)

\* Wrong: the offer becomes current before its marker is written.
HandlerTakesOfferFirst(ok) ==
  /\ fileOffers # << >> /\ publishing = None
  /\ fileOffers' = << >>
  /\ current' = Head(fileOffers)
  /\ IF ok THEN OnBoard("marker", Head(fileOffers))
           ELSE WriteMayFail /\ (OnBoard("other", None) \/ UNCHANGED board)
  /\ UNCHANGED <<sourceVars, arrived, presses, injecting, downloading, publishing, result, jobVars>>

\* An offer: its marker goes to the clipboard; a write that fails may have
\* emptied the clipboard or left it alone.
HandlerTakesOffer(ok) ==
  /\ fileOffers # << >> /\ publishing = None
  /\ fileOffers' = << >>
  /\ IF ok THEN OnBoard("marker", Head(fileOffers)) /\ current' = Head(fileOffers)
           ELSE /\ WriteMayFail /\ (OnBoard("other", None) \/ UNCHANGED board)
                /\ current' = None
  /\ UNCHANGED <<sourceVars, arrived, presses, injecting, downloading, publishing, result, jobVars>>

MarkerMatches(o) == board = [kind |-> "marker", offer |-> o]

\* Wrong: a second download starts while one runs.
PasteAgain ==
  /\ publishing = None /\ current # None /\ MarkerMatches(current)
  /\ downloading' = TRUE
  /\ job' = [NoJob EXCEPT !.offer = current, !.phase = "start"]

\* A paste of the current offer starts its download.  While a download runs, or
\* without a current offer, a paste has no effect and is not remembered.
Paste ==
  /\ publishing = None /\ ~ downloading /\ current # None /\ MarkerMatches(current)
  /\ downloading' = TRUE
  /\ job' = [NoJob EXCEPT !.offer = current, !.phase = "start"]

\* Ctrl+V, seen at the next tick of 20 ms.
HandlerSeesPaste ==
  /\ presses < MaxPresses /\ presses' = presses + 1
  /\ Paste
  /\ UNCHANGED <<sourceVars, arrived, board, injecting, fileOffers, current, publishing,
                 result, staged>>

\* Wrong: a download that failed keeps the flag.
HandlerTakesResultKeepsFlag ==
  /\ result # << >> /\ publishing = None
  /\ result' = << >>
  /\ LET r == Head(result) IN
     /\ downloading' = ~ r.ok
     /\ publishing' = IF r.ok /\ current = r.offer /\ MarkerMatches(r.offer)
                        THEN r.offer ELSE None
  /\ UNCHANGED <<sourceVars, arrived, boardVars, fileOffers, current, jobVars>>

\* A result: is its offer still the current one and on the clipboard?
HandlerTakesResult ==
  /\ result # << >> /\ publishing = None
  /\ result' = << >> /\ downloading' = FALSE
  /\ LET r == Head(result) IN
     publishing' = IF r.ok /\ current = r.offer /\ MarkerMatches(r.offer)
                     THEN r.offer ELSE None
  /\ UNCHANGED <<sourceVars, arrived, boardVars, fileOffers, current, jobVars>>

\* Then the files are written, in a second opening of the clipboard, and the
\* paste is repeated when the keys are released.
HandlerPublishes(ok) ==
  /\ publishing # None /\ publishing' = None
  /\ IF ok THEN /\ OnBoard("files", publishing) /\ current' = None
                /\ injecting' = injecting + 1
           ELSE /\ WriteMayFail /\ (OnBoard("other", None) \/ UNCHANGED board)
                /\ UNCHANGED <<current, injecting>>
  /\ UNCHANGED <<sourceVars, arrived, presses, fileOffers, downloading, result, jobVars>>

\* injectPasteWhenReleased: whatever is on the clipboard by then is pasted; the
\* handler takes the press for one of the user's if a tick falls into it.
Injects ==
  /\ injecting > 0 /\ injecting' = injecting - 1
  /\ Paste \/ UNCHANGED <<downloading, job>>
  /\ UNCHANGED <<sourceVars, arrived, board, presses, fileOffers, current, publishing, result,
                 staged>>

-----------------------------------------------------------------------------
(* receiveFileOffer *)

Wanted == DOMAIN offers[job.offer]
Staged(f) == \E v \in 0 .. MaxEdits : <<job.offer, f, v>> \in staged
Missing == {f \in Wanted : ~ Staged(f)}

\* Results have a channel of one: there is only one download.
JobEnds(ok) ==
  /\ result' = Append(result, [offer |-> job.offer, ok |-> ok])
  /\ job' = NoJob

\* validateFileOffer, once more.
JobStarts ==
  /\ job.phase = "start"
  /\ IF Valid(job.offer) THEN job' = [job EXCEPT !.phase = "next"] /\ UNCHANGED result
                         ELSE JobEnds(FALSE)
  /\ UNCHANGED <<sourceVars, arrived, boardVars, fileOffers, handlerVars, staged>>

\* The next file that is not in the staging directory with its size.
JobAsks(f) ==
  /\ job.phase = "next" /\ f \in Missing
  /\ job' = [job EXCEPT !.phase = "ask", !.file = f]
  /\ UNCHANGED <<sourceVars, arrived, boardVars, fileOffers, handlerVars, result, staged>>

\* The source answers: it sends the file it opened, ...
JobServed ==
  /\ job.phase = "ask"
  /\ Opens(job.offer, job.file)
  /\ job' = [job EXCEPT !.phase = "copy", !.version = version[job.file]]
  /\ UNCHANGED <<sourceVars, arrived, boardVars, fileOffers, handlerVars, result, staged>>

\* ... or it refuses, or the connection breaks or stays silent for 30 seconds
\* before the file is complete: the part is removed and the download fails.
JobFails ==
  /\ job.phase \in {"ask", "copy"}
  /\ JobEnds(FALSE)
  /\ UNCHANGED <<sourceVars, arrived, boardVars, fileOffers, handlerVars, staged>>

\* The whole file arrived: the part gets its name.
JobStores ==
  /\ job.phase = "copy"
  /\ staged' = staged \cup {<<job.offer, job.file, job.version>>}
  /\ job' = [job EXCEPT !.phase = "next", !.file = None, !.version = None]
  /\ UNCHANGED <<sourceVars, arrived, boardVars, fileOffers, handlerVars, result>>

\* All files are there.
JobSucceeds ==
  /\ job.phase = "next" /\ Missing = {}
  /\ JobEnds(TRUE)
  /\ UNCHANGED <<sourceVars, arrived, boardVars, fileOffers, handlerVars, staged>>

-----------------------------------------------------------------------------
Job == \/ \E f \in Files : JobAsks(f)
       \/ JobStarts \/ JobServed \/ JobFails \/ JobStores \/ JobSucceeds

Handler == \/ \E ok \in BOOLEAN : HandlerTakesOffer(ok) \/ HandlerPublishes(ok)
           \/ HandlerTakesResult

Next == \/ SourceNext /\ UNCHANGED pasteVars
        \/ LoopTakesMessage \/ MessageLost \/ OtherCopies
        \/ Handler \/ HandlerSeesPaste \/ Injects
        \/ job # NoJob /\ Job

Safety == Init /\ [][Next]_vars

\* The download's goroutine runs, and each of its reads ends by its timeout; the
\* handler's select takes the results.
Spec == Safety /\ WF_vars(job # NoJob /\ Job) /\ WF_vars(Handler) /\ SF_vars(HandlerTakesResult)

-----------------------------------------------------------------------------
Versions == 0 .. MaxEdits

TypeOK ==
  /\ SourceTypeOK
  /\ arrived \in 0 .. Len(sent)
  /\ board \in [kind : {"other", "marker", "files"}, offer : DOMAIN offers \cup {None}]
  /\ (board.offer = None) = (board.kind = "other")
  /\ Len(fileOffers) <= 1
  /\ {current, publishing} \subseteq DOMAIN offers \cup {None}
  /\ downloading = (job # NoJob \/ result # << >>)
  /\ Len(result) <= 1
  /\ job.phase \in {"none", "start", "next", "ask", "copy"}
  /\ staged \subseteq (DOMAIN offers) \X Files \X Versions

\* Files that are put on the clipboard are complete and are the ones offered,
\* although the source's files change meanwhile, other offers come and go there,
\* and downloads break off and are resumed from what an earlier one left.
PublishedIsOffered ==
  board.kind = "files" =>
    \A f \in DOMAIN offers[board.offer] :
      {v \in Versions : <<board.offer, f, v>> \in staged} = {offers[board.offer][f]}

\* A marker on the clipboard is the current offer's, so that a paste fetches
\* what the clipboard promises; only when a marker could not be written there
\* is no current offer.
MarkerIsServed == board.kind = "marker" => current \in {board.offer, None}

\* A download that starts always ends, and pastes are possible again.
TransfersEnd == downloading ~> ~ downloading
=============================================================================
