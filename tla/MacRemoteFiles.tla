--------------------------- MODULE MacRemoteFiles ---------------------------
(***************************************************************************)
(* Files offered by a peer, on the Mac where they are pasted               *)
(* (clipboard_files_darwin.go, platform_run_darwin.go): the paste handler  *)
(* that publishes an offer, the watcher that is the only goroutine to      *)
(* write files to the pasteboard, the downloads that Finder's requests     *)
(* start, the event loop as far as it meets them, and the main thread that *)
(* runs AppKit and serves the watcher's writes.                            *)
(*                                                                         *)
(* darwinClipboardMu is held over a step of this model only by the watcher *)
(* (Locked); macRemoteFiles.mu is never held over a step.                  *)
(***************************************************************************)
EXTENDS Integers, FiniteSets, SequencesExt

CONSTANTS Offers,
          MaxCopies,    \* bound: copies by the user, and writes of incoming text
          MaxAsks,      \* bound: requests of Finder for promised files
          MayCancel,    \* whether the process may be asked to stop
          AtomicWrite,  \* whether no other program writes to the pasteboard between
                        \* the look at the marker and the write of the files
          None

\* None is none of the values that it stands beside.
ASSUME MacRemoteFilesAssumption ==
  /\ None \notin Offers \cup Nat \cup {"ok", "failed"} \cup [who : Nat, offer : Offers]
  /\ {MaxCopies, MaxAsks} \subseteq Nat
  /\ {MayCancel, AtomicWrite} \subseteq BOOLEAN

VARIABLES
  board,       \* the pasteboard: what kind of thing, of which offer, change count
  copies,      \* changes of the pasteboard that are not the watcher's
  ctxDone,     \* the context given to Node.Run is cancelled
  main,        \* main thread: running (AppKit), stopped (waits for Node.Run), exited
  loop,        \* event loop: select, clipboard (wants the lock), returned
  arrived,     \* offers the event loop passed on
  fileOffers,  \* Node.fileOffers
  fileCh,      \* the watcher's channel: what the selection holds
  watcher,     \* select, flags, clear, paths, send, lock, main, checked, stopped
  seen,        \* its change count
  found,       \* what it found on the pasteboard
  serving,     \* the request it serves: who asks, for which offer
  handler,     \* runFilePasteHandler: select, publish, wait, done
  publishing,  \* the offer it publishes
  answer,      \* what the watcher answered to the handler: None, ok, failed
  files,       \* macRemoteFiles: offer (None: cleared), ready, inFlight, done
  requests,    \* requests of Finder on their way to Go
  asked,       \* history: the offers Finder asked for, in order
  downloads,   \* one record per download started: offer, pc, answer, and how
               \* often its done channel was closed
  offered      \* history: the selections this node offered to its peers

boardVars    == <<board, copies>>
processVars  == <<ctxDone, main>>
loopVars     == <<loop, arrived, offered>>
watcherVars  == <<watcher, seen, found, serving>>
handlerVars  == <<handler, publishing, answer>>
downloadVars == <<requests, asked, downloads>>
vars == <<boardVars, processVars, loopVars, fileOffers, fileCh, watcherVars, handlerVars,
          files, downloadVars>>

\* Who asks the watcher: the handler, or the download with that number.
TheHandler == 0

Cleared == [offer |-> None, ready |-> FALSE, inFlight |-> None, done |-> None]

Init ==
  /\ board = [kind |-> "other", offer |-> None, count |-> 0] /\ copies = 0
  /\ ctxDone = FALSE /\ main = "running"
  /\ loop = "select" /\ arrived = {} /\ offered = {}
  /\ fileOffers = << >> /\ fileCh = << >>
  /\ watcher = "select" /\ seen = 0 /\ found = "nothing" /\ serving = None
  /\ handler = "select" /\ publishing = None /\ answer = None
  /\ files = Cleared
  /\ requests = {} /\ asked = << >> /\ downloads = << >>

\* darwinClipboardMu, held by the watcher while it waits for the main thread.
Locked == watcher \in {"main", "checked"}

\* The context made for an offer ends with the process or when the offer is
\* replaced or cleared.
Cancelled(o) == ctxDone \/ files.offer # o

OnBoard(kind, o) == board' = [kind |-> kind, offer |-> o, count |-> board.count + 1]

-----------------------------------------------------------------------------
(* The user and the process *)

\* Another program writes to the pasteboard.
UserCopies(kind) ==
  /\ copies < MaxCopies
  /\ AtomicWrite => watcher # "checked"
  /\ copies' = copies + 1
  /\ OnBoard(kind, None)
  /\ UNCHANGED <<processVars, loopVars, fileOffers, fileCh, watcherVars, handlerVars,
                 files, downloadVars>>

\* Finder asks for the promised files; the request reaches Go later.
FinderAsks ==
  /\ main = "running" /\ watcher # "checked" /\ board.kind = "remote"
  /\ Len(asked) < MaxAsks
  /\ asked' = Append(asked, board.offer)
  /\ requests' = requests \cup {Len(asked) + 1}
  /\ UNCHANGED <<boardVars, processVars, loopVars, fileOffers, fileCh, watcherVars,
                 handlerVars, files, downloads>>

Cancel ==
  /\ MayCancel /\ ~ ctxDone
  /\ ctxDone' = TRUE
  /\ UNCHANGED <<boardVars, main, loopVars, fileOffers, fileCh, watcherVars, handlerVars,
                 files, downloadVars>>

\* clipallApplicationStop: the main thread leaves AppKit's event loop, ...
MainStops ==
  /\ main = "running" /\ watcher # "checked" /\ ctxDone
  /\ main' = "stopped"
  /\ UNCHANGED <<boardVars, ctxDone, loopVars, fileOffers, fileCh, watcherVars, handlerVars,
                 files, downloadVars>>

\* ... and the process ends when Node.Run has returned.
MainExits ==
  /\ main = "stopped" /\ loop = "returned"
  /\ main' = "exited"
  /\ UNCHANGED <<boardVars, ctxDone, loopVars, fileOffers, fileCh, watcherVars, handlerVars,
                 files, downloadVars>>

-----------------------------------------------------------------------------
(* The event loop *)

\* An incoming offer replaces the one the handler has not taken.
OfferArrives(o) ==
  /\ loop = "select" /\ o \notin arrived
  /\ arrived' = arrived \cup {o}
  /\ fileOffers' = <<o>>
  /\ UNCHANGED <<boardVars, processVars, loop, offered, fileCh, watcherVars, handlerVars,
                 files, downloadVars>>

\* A notice of the file watcher: a selection is offered to the peers.
LoopTakesNotice ==
  /\ loop = "select" /\ fileCh # << >>
  /\ fileCh' = Tail(fileCh)
  /\ offered' = offered \cup ({Head(fileCh)} \ {"nothing"})
  /\ UNCHANGED <<boardVars, processVars, loop, arrived, fileOffers, watcherVars, handlerVars,
                 files, downloadVars>>

\* Any other event makes the loop use the clipboard, ...
LoopWantsClipboard ==
  /\ loop = "select"
  /\ loop' = "clipboard"
  /\ UNCHANGED <<boardVars, processVars, arrived, offered, fileOffers, fileCh, watcherVars,
                 handlerVars, files, downloadVars>>

\* ... to read it, or to write incoming text.
LoopUsesClipboard(write) ==
  /\ loop = "clipboard" /\ ~ Locked
  /\ loop' = "select"
  /\ IF write
       THEN copies < MaxCopies /\ copies' = copies + 1 /\ OnBoard("other", None)
       ELSE UNCHANGED boardVars
  /\ UNCHANGED <<processVars, arrived, offered, fileOffers, fileCh, watcherVars, handlerVars,
                 files, downloadVars>>

LoopReturns ==
  /\ loop = "select" /\ ctxDone
  /\ loop' = "returned"
  /\ UNCHANGED <<boardVars, processVars, arrived, offered, fileOffers, fileCh, watcherVars,
                 handlerVars, files, downloadVars>>

-----------------------------------------------------------------------------
(* macRemoteFiles *)

\* cancelInFlightLocked: the waiters of the download under way are woken.
CloseDone == IF files.done = None THEN downloads
             ELSE [downloads EXCEPT ![files.done].closed = @ + 1]

Clear == files' = Cleared /\ downloads' = CloseDone

\* Wrong: the download under way stays the one of the new offer.
SetKeepsInFlight(o) ==
  files' = [files EXCEPT !.offer = o, !.ready = FALSE] /\ downloads' = CloseDone

Set(o) == files' = [Cleared EXCEPT !.offer = o] /\ downloads' = CloseDone

\* Wrong: a second request starts a second download.
RequestDownloadTwice(k) ==
  LET o == asked[k] IN
  /\ k \in requests
  /\ requests' = requests \ {k}
  /\ IF files.offer = o /\ ~ files.ready
       THEN /\ files' = [files EXCEPT !.inFlight = o, !.done = Len(downloads) + 1]
            /\ downloads' = Append(downloads, [offer |-> o, pc |-> "running", answer |-> None,
                                               closed |-> 0])
       ELSE UNCHANGED <<files, downloads>>
  /\ UNCHANGED <<boardVars, processVars, loopVars, fileOffers, fileCh, watcherVars,
                 handlerVars, asked>>

\* A request of Finder starts the download of the current offer, once.
RequestDownload(k) ==
  LET o == asked[k] IN
  /\ k \in requests
  /\ requests' = requests \ {k}
  /\ IF files.offer = o /\ ~ files.ready /\ files.inFlight # o
       THEN /\ files' = [files EXCEPT !.inFlight = o, !.done = Len(downloads) + 1]
            /\ downloads' = Append(downloads, [offer |-> o, pc |-> "running", answer |-> None,
                                               closed |-> 0])
       ELSE UNCHANGED <<files, downloads>>
  /\ UNCHANGED <<boardVars, processVars, loopVars, fileOffers, fileCh, watcherVars,
                 handlerVars, asked>>

\* Wrong: a download that ends always closes its channel.
DownloadEndsCloses(i, ok) ==
  LET o == downloads[i].offer
      mine == files.inFlight = o /\ files.done = i
  IN
  /\ downloads[i].pc = "running"
  /\ files' = IF mine THEN [files EXCEPT !.inFlight = None, !.done = None, !.ready = TRUE]
                      ELSE files
  /\ downloads' = [downloads EXCEPT
                     ![i].pc = IF mine /\ ok THEN "publish" ELSE "over",
                     ![i].closed = @ + 1]
  /\ UNCHANGED <<boardVars, processVars, loopVars, fileOffers, fileCh, watcherVars,
                 handlerVars, requests, asked>>

\* A download ends, with all files or with an error; if it still is the one
\* under way its result is kept, and files are published.
DownloadEnds(i, ok) ==
  LET o == downloads[i].offer
      mine == files.inFlight = o /\ files.done = i
  IN
  /\ downloads[i].pc = "running"
  /\ files' = IF mine THEN [files EXCEPT !.inFlight = None, !.done = None, !.ready = TRUE]
                      ELSE files
  /\ downloads' = [downloads EXCEPT
                     ![i].pc = IF mine /\ ok THEN "publish" ELSE "over",
                     ![i].closed = IF mine THEN @ + 1 ELSE @]
  /\ UNCHANGED <<boardVars, processVars, loopVars, fileOffers, fileCh, watcherVars,
                 handlerVars, requests, asked>>

\* publishDownloadedFilePaths: ask the watcher, and wait for its answer, ...
DownloadAsks(i) ==
  /\ downloads[i].pc = "publish" /\ watcher = "select"
  /\ downloads' = [downloads EXCEPT ![i].pc = "wait"]
  /\ watcher' = "lock"
  /\ serving' = [who |-> i, offer |-> downloads[i].offer]
  /\ UNCHANGED <<boardVars, processVars, loopVars, fileOffers, fileCh, seen, found,
                 handlerVars, files, requests, asked>>

\* ... unless the offer's context ends first.
DownloadOver(i) ==
  /\ \/ downloads[i].pc \in {"publish", "wait"} /\ Cancelled(downloads[i].offer)
     \/ downloads[i].pc = "wait" /\ downloads[i].answer # None
  /\ downloads' = [downloads EXCEPT ![i].pc = "over"]
  /\ UNCHANGED <<boardVars, processVars, loopVars, fileOffers, fileCh, watcherVars,
                 handlerVars, files, requests, asked>>

-----------------------------------------------------------------------------
(* The paste handler *)

HandlerTakes ==
  /\ handler = "select" /\ fileOffers # << >>
  /\ fileOffers' = Tail(fileOffers)
  /\ Set(Head(fileOffers))
  /\ publishing' = Head(fileOffers)
  /\ handler' = "publish"
  /\ UNCHANGED <<boardVars, processVars, loopVars, fileCh, watcherVars, answer, requests, asked>>

\* publishRemoteFileOffer: ask the watcher, ...
HandlerAsks ==
  /\ handler = "publish" /\ watcher = "select"
  /\ handler' = "wait" /\ answer' = None
  /\ watcher' = "lock"
  /\ serving' = [who |-> TheHandler, offer |-> publishing]
  /\ UNCHANGED <<boardVars, processVars, loopVars, fileOffers, fileCh, seen, found,
                 publishing, files, downloadVars>>

\* ... and wait for its answer.
HandlerAnswered ==
  /\ handler = "wait" /\ answer # None
  /\ handler' = "select" /\ publishing' = None
  /\ IF answer = "ok" THEN UNCHANGED <<files, downloads>> ELSE Clear
  /\ UNCHANGED <<boardVars, processVars, loopVars, fileOffers, fileCh, watcherVars, answer,
                 requests, asked>>

\* The context ends while it asks or waits: the offer is cleared.
HandlerGivesUp ==
  /\ handler \in {"publish", "wait"} /\ ctxDone
  /\ handler' = "select" /\ publishing' = None
  /\ Clear
  /\ UNCHANGED <<boardVars, processVars, loopVars, fileOffers, fileCh, watcherVars, answer,
                 requests, asked>>

HandlerReturns ==
  /\ handler = "select" /\ ctxDone
  /\ handler' = "done"
  /\ Clear
  /\ UNCHANGED <<boardVars, processVars, loopVars, fileOffers, fileCh, watcherVars,
                 publishing, answer, requests, asked>>

-----------------------------------------------------------------------------
(* The watcher *)

Watcher(where) == watcher' = where

WatcherTicks ==
  /\ watcher = "select" /\ board.count # seen
  /\ seen' = board.count
  /\ Watcher("flags")
  /\ UNCHANGED <<boardVars, processVars, loopVars, fileOffers, fileCh, found, serving,
                 handlerVars, files, downloadVars>>

\* Wrong: received files are not told from files the user copied.
WatcherReadsFlagsRemoteOnly ==
  /\ watcher = "flags"
  /\ IF board.kind = "remote" THEN found' = "nothing" /\ Watcher("send")
                              ELSE found' = "other" /\ Watcher("clear")
  /\ UNCHANGED <<boardVars, processVars, loopVars, fileOffers, fileCh, seen, serving,
                 handlerVars, files, downloadVars>>

\* A remote offer is left alone; received files are not a new selection.
WatcherReadsFlags ==
  /\ watcher = "flags"
  /\ IF board.kind = "remote" THEN found' = "nothing" /\ Watcher("send")
     ELSE found' = (IF board.kind = "received" THEN "nothing" ELSE "other") /\ Watcher("clear")
  /\ UNCHANGED <<boardVars, processVars, loopVars, fileOffers, fileCh, seen, serving,
                 handlerVars, files, downloadVars>>

WatcherClears ==
  /\ watcher = "clear"
  /\ Clear
  /\ IF found = "nothing" THEN Watcher("send") ELSE Watcher("paths")
  /\ UNCHANGED <<boardVars, processVars, loopVars, fileOffers, fileCh, seen, found, serving,
                 handlerVars, requests, asked>>

\* The paths are read from what the pasteboard holds by now.
WatcherReadsPaths ==
  /\ watcher = "paths"
  /\ found' = IF board.kind \in {"files", "received"} THEN board.kind ELSE "nothing"
  /\ Watcher("send")
  /\ UNCHANGED <<boardVars, processVars, loopVars, fileOffers, fileCh, seen, serving,
                 handlerVars, files, downloadVars>>

WatcherSends ==
  /\ watcher = "send" /\ fileCh = << >>
  /\ fileCh' = <<found>>
  /\ Watcher("select")
  /\ UNCHANGED <<boardVars, processVars, loopVars, fileOffers, seen, found, serving,
                 handlerVars, files, downloadVars>>

WatcherStops ==
  /\ watcher \in {"select", "send"} /\ ctxDone
  /\ Watcher("stopped")
  /\ UNCHANGED <<boardVars, processVars, loopVars, fileOffers, fileCh, seen, found, serving,
                 handlerVars, files, downloadVars>>

\* A request: lock, and let the main thread write (dispatch_sync).
WatcherLocks ==
  /\ watcher = "lock"
  /\ Watcher("main")
  /\ UNCHANGED <<boardVars, processVars, loopVars, fileOffers, fileCh, seen, found, serving,
                 handlerVars, files, downloadVars>>

\* The result goes to whoever asked; nobody may be waiting for it any more.
Answer(result) ==
  /\ IF serving.who = TheHandler
       THEN answer' = result /\ UNCHANGED downloads
       ELSE downloads' = [downloads EXCEPT ![serving.who].answer = result] /\ UNCHANGED answer
  /\ serving' = None
  /\ Watcher("select")

\* clipallWriteRemoteFileOfferOnMain: the promise, which the system may refuse
\* before or after the pasteboard was cleared.
MainWritesOffer(ok) ==
  /\ watcher = "main" /\ main = "running" /\ serving.who = TheHandler
  /\ IF ok THEN OnBoard("remote", serving.offer)
           ELSE OnBoard("other", None) \/ UNCHANGED board
  /\ Answer(IF ok THEN "ok" ELSE "failed")
  /\ UNCHANGED <<copies, processVars, loopVars, fileOffers, fileCh, seen, found, handler,
                 publishing, files, requests, asked>>

\* Wrong: the marker is not looked at.
MainChecksNothing ==
  /\ watcher = "main" /\ main = "running" /\ serving.who # TheHandler
  /\ Watcher("checked")
  /\ UNCHANGED <<boardVars, processVars, loopVars, fileOffers, fileCh, seen, found, serving,
                 handlerVars, files, downloadVars>>

\* clipallWriteDownloadedFilePathsOnMain: is the offer still on the pasteboard?
MainChecksMarker ==
  /\ watcher = "main" /\ main = "running" /\ serving.who # TheHandler
  /\ IF board.kind = "remote" /\ board.offer = serving.offer
       THEN Watcher("checked") /\ UNCHANGED <<serving, answer, downloads>>
       ELSE Answer("failed")
  /\ UNCHANGED <<boardVars, processVars, loopVars, fileOffers, fileCh, seen, found, handler,
                 publishing, files, requests, asked>>

\* The write itself, which the system may refuse after clearing the pasteboard.
MainWritesFiles(ok) ==
  /\ watcher = "checked"
  /\ IF ok THEN OnBoard("received", serving.offer) ELSE OnBoard("other", None)
  /\ Answer(IF ok THEN "ok" ELSE "failed")
  /\ UNCHANGED <<copies, processVars, loopVars, fileOffers, fileCh, seen, found, handler,
                 publishing, files, requests, asked>>

-----------------------------------------------------------------------------
EventLoop == \/ \E o \in Offers : OfferArrives(o)
             \/ LoopTakesNotice \/ LoopWantsClipboard
             \/ \E write \in BOOLEAN : LoopUsesClipboard(write)
             \/ LoopReturns

Handler == HandlerTakes \/ HandlerAsks \/ HandlerAnswered \/ HandlerGivesUp \/ HandlerReturns

WatchFiles == \/ WatcherTicks \/ WatcherReadsFlags \/ WatcherClears \/ WatcherReadsPaths
              \/ WatcherSends \/ WatcherStops \/ WatcherLocks

Main == \/ \E ok \in BOOLEAN : MainWritesOffer(ok) \/ MainWritesFiles(ok)
        \/ MainChecksMarker
        \/ MainStops \/ MainExits

Download(i) == \/ \E ok \in BOOLEAN : DownloadEnds(i, ok)
               \/ DownloadAsks(i) \/ DownloadOver(i)

Step == \/ \E kind \in {"other", "files"} : UserCopies(kind)
        \/ FinderAsks \/ Cancel
        \/ EventLoop \/ Handler \/ WatchFiles \/ Main
        \/ \E k \in requests : RequestDownload(k)
        \/ \E i \in DOMAIN downloads : Download(i)

\* With the process everything ends.
Next == \/ main # "exited" /\ Step
        \/ main = "exited" /\ UNCHANGED vars

Safety == Init /\ [][Next]_vars

\* Every goroutine that can go on does, the event loop takes what its channels
\* keep ready, and transfers end: each read has a timeout.
Fairness ==
  /\ WF_vars(Handler) /\ SF_vars(HandlerAsks)
  /\ WF_vars(WatchFiles) /\ WF_vars(Main) /\ WF_vars(MainStops) /\ WF_vars(MainExits)
  /\ SF_vars(LoopTakesNotice) /\ SF_vars(LoopReturns)
  /\ SF_vars(LoopUsesClipboard(FALSE))
  /\ WF_vars(\E k \in requests : RequestDownload(k))
  /\ \A i \in 1 .. MaxAsks :
       WF_vars(i \in DOMAIN downloads /\ Download(i))
       /\ SF_vars(i \in DOMAIN downloads /\ DownloadAsks(i))

Spec == Safety /\ Fairness

-----------------------------------------------------------------------------
Kinds == {"other", "files", "remote", "received"}

Download0 == [offer : Offers, pc : {"running", "publish", "wait", "over"},
              answer : {None, "ok", "failed"}, closed : 0 .. 1]

TypeOK ==
  /\ board \in [kind : Kinds, offer : Offers \cup {None}, count : Nat]
  /\ (board.offer = None) = (board.kind \in {"other", "files"})
  /\ copies \in 0 .. MaxCopies
  /\ main \in {"running", "stopped", "exited"}
  /\ loop \in {"select", "clipboard", "returned"}
  /\ Len(fileOffers) <= 1 /\ Len(fileCh) <= 1
  /\ watcher \in {"select", "flags", "clear", "paths", "send", "lock", "main", "checked", "stopped"}
  /\ seen \in 0 .. board.count
  /\ (serving = None) = (watcher \notin {"lock", "main", "checked"})
  /\ handler \in {"select", "publish", "wait", "done"}
  /\ (publishing = None) = (handler \in {"select", "done"})
  /\ files.inFlight \in {None, files.offer} /\ (files.inFlight = None) = (files.done = None)
  /\ asked \in Seq(Offers) /\ requests \subseteq DOMAIN asked
  /\ downloads \in Seq(Download0)
  /\ offered \subseteq Kinds

\* Downloads that end, new offers, and clipboard changes compete for closing the
\* channel of a download: it is open as long as the download is the one under
\* way, and closed once, by whoever comes first (a second close would panic).
DoneClosedOnce ==
  \A i \in DOMAIN downloads : downloads[i].closed = IF files.done = i THEN 0 ELSE 1

\* However often Finder asks, at most one download that was not cancelled runs,
\* so that no two of them write the same staging files.
OneDownloadAtATime ==
  Cardinality({i \in DOMAIN downloads :
                 downloads[i].pc = "running" /\ ~ Cancelled(downloads[i].offer)}) <= 1

\* Received files are never offered back to the peers as a selection of this
\* node's user, whatever happens to the pasteboard while the watcher looks at it.
ReceivedNeverOffered == "received" \notin offered

\* A slow download never overwrites what was copied in the meantime: files only
\* ever replace the promise of their own offer.
ReplacesOnlyItsPromise ==
  [][board'.kind = "received" /\ board' # board
       => board.kind = "remote" /\ board.offer = board'.offer]_vars

\* An offer that the handler published and that still is on the pasteboard is
\* the one a paste downloads (README: "The file contents remain on the source
\* until Finder or Windows Explorer requests the paste, then clipall downloads
\* them").
PublishedOfferIsServed ==
  handler = "select" /\ board.kind = "remote" /\ ~ ctxDone => files.offer = board.offer

\* The process ends when its context is cancelled (Node.Run: "Blocks until ctx
\* is cancelled").
ShutdownCompletes == ctxDone ~> main = "exited"
=============================================================================
