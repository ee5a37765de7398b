------------------------ MODULE MacRemoteFiles_proofs ------------------------
(***************************************************************************)
(* Theorems about MacRemoteFiles for any set of offers and any bounds: the *)
(* types, and the four safety properties of the module.                    *)
(***************************************************************************)
EXTENDS MacRemoteFiles, FiniteSetTheorems, TLAPS

-----------------------------------------------------------------------------
(* The inductive invariant, by the variables its parts are about *)

BoardType ==
  /\ board \in [kind : Kinds, offer : Offers \cup {None}, count : Nat]
  /\ (board.offer = None) = (board.kind \in {"other", "files"})
  /\ copies \in 0 .. MaxCopies
  /\ seen \in 0 .. board.count

ProcessType == ctxDone \in BOOLEAN /\ main \in {"running", "stopped", "exited"}

Notices == {"nothing", "other", "files"}

\* No notice of received files comes into being: between its look at the flags
\* and at the paths the watcher itself writes nothing.
NoticeInv ==
  /\ found \in Notices
  /\ fileCh \in Seq(Notices) /\ Len(fileCh) <= 1
  /\ offered \subseteq Notices \ {"nothing"}
  /\ watcher = "clear" /\ found # "nothing" => board.kind # "received"
  /\ watcher = "paths" => board.kind # "received"

\* The offer that the handler has not taken was never the current one.
OffersInv ==
  /\ loop \in {"select", "clipboard", "returned"}
  /\ arrived \subseteq Offers
  /\ \/ fileOffers = << >>
     \/ \E o \in arrived : /\ fileOffers = <<o>>
                           /\ files.offer # o
                           /\ \A i \in DOMAIN downloads : downloads[i].offer # o
  /\ files.offer \in arrived \cup {None}
  /\ \A i \in DOMAIN downloads : downloads[i].offer \in arrived

HandlerType ==
  /\ handler \in {"select", "publish", "wait", "done"}
  /\ publishing \in Offers \cup {None}
  /\ (publishing = None) = (handler \in {"select", "done"})
  /\ answer \in {None, "ok", "failed"}

Requests == [who : {TheHandler} \cup DOMAIN downloads, offer : Offers]

WatcherType ==
  /\ watcher \in {"select", "flags", "clear", "paths", "send", "lock", "main", "checked", "stopped"}
  /\ IF watcher \in {"lock", "main", "checked"} THEN serving \in Requests ELSE serving = None

AskedType == asked \in Seq(Offers) /\ requests \subseteq DOMAIN asked

\* A download that runs for the current offer is the one under way.
DownloadsInv ==
  /\ downloads \in Seq(Download0)
  /\ files \in [offer : Offers \cup {None}, ready : BOOLEAN, inFlight : Offers \cup {None},
                done : DOMAIN downloads \cup {None}]
  /\ files.inFlight \in {None, files.offer}
  /\ (files.inFlight = None) = (files.done = None)
  /\ DoneClosedOnce
  /\ \A i \in DOMAIN downloads :
       downloads[i].pc = "running" /\ files.offer = downloads[i].offer => files.done = i

Inv == /\ BoardType /\ ProcessType /\ NoticeInv /\ OffersInv /\ HandlerType
       /\ WatcherType /\ AskedType /\ DownloadsInv

\* An action leaves the parts alone whose variables it does not touch.
LEMMA Untouched ==
  /\ BoardType /\ UNCHANGED <<board, copies, seen>> => BoardType'
  /\ ProcessType /\ UNCHANGED <<ctxDone, main>> => ProcessType'
  /\ NoticeInv /\ UNCHANGED <<found, fileCh, offered, watcher, board>> => NoticeInv'
  /\ OffersInv /\ UNCHANGED <<loop, arrived, fileOffers, files, downloads>> => OffersInv'
  /\ HandlerType /\ UNCHANGED <<handler, publishing, answer>> => HandlerType'
  /\ WatcherType /\ UNCHANGED <<watcher, serving, downloads>> => WatcherType'
  /\ AskedType /\ UNCHANGED <<asked, requests>> => AskedType'
  /\ DownloadsInv /\ UNCHANGED <<files, downloads>> => DownloadsInv'
  BY DEF BoardType, ProcessType, NoticeInv, OffersInv, HandlerType, WatcherType, Requests,
         AskedType, DownloadsInv, DoneClosedOnce

LEMMA ConstantFacts ==
  /\ None \notin Offers /\ None \notin Nat /\ None # "ok" /\ None # "failed"
  /\ None \notin [who : Nat, offer : Offers]
  /\ MaxCopies \in Nat /\ MaxAsks \in Nat
  BY MacRemoteFilesAssumption

LEMMA InitInv == Init => Inv
<1> SUFFICES ASSUME Init PROVE Inv
  OBVIOUS
<1> USE ConstantFacts DEF Init
<1>1. BoardType
  <2>1. board \in [kind : Kinds, offer : Offers \cup {None}, count : Nat]
    BY DEF Kinds
  <2>2. board.offer = None /\ board.kind = "other" /\ board.count = 0
    OBVIOUS
  <2> QED BY <2>1, <2>2 DEF BoardType
<1>2. ProcessType
  BY DEF ProcessType
<1>3. NoticeInv
  <2>1. found \in Notices
    BY DEF Notices
  <2> QED BY <2>1 DEF NoticeInv
<1>4. OffersInv /\ DownloadsInv
  BY DEF OffersInv, DownloadsInv, DoneClosedOnce, Cleared
<1>5. HandlerType /\ WatcherType /\ AskedType
  BY DEF HandlerType, WatcherType, AskedType
<1> QED BY <1>1, <1>2, <1>3, <1>4, <1>5 DEF Inv

-----------------------------------------------------------------------------
(* macRemoteFiles *)

\* CloseDone keeps everything of the downloads but the channel it closes, and
\* leaves no open channel behind.
LEMMA CloseDoneCloses ==
  ASSUME DownloadsInv
  PROVE  /\ CloseDone \in Seq(Download0) /\ DOMAIN CloseDone = DOMAIN downloads
         /\ \A i \in DOMAIN downloads : /\ CloseDone[i].offer = downloads[i].offer
                                        /\ CloseDone[i].pc = downloads[i].pc
                                        /\ CloseDone[i].closed = 1
<1>1. CASE files.done = None
  <2>1. CloseDone = downloads
    BY <1>1 DEF CloseDone
  <2>2. \A i \in DOMAIN downloads : i # None
    BY ConstantFacts DEF DownloadsInv
  <2> QED BY <1>1, <2>1, <2>2 DEF DownloadsInv, DoneClosedOnce
<1>2. CASE files.done # None
  <2> DEFINE d == files.done
             closing == [downloads[d] EXCEPT !.closed = @ + 1]
  <2>1. d \in DOMAIN downloads /\ downloads[d] \in Download0 /\ downloads[d].closed = 0
    BY <1>2 DEF DownloadsInv, DoneClosedOnce
  <2>2. /\ closing \in Download0 /\ closing.closed = 1
        /\ closing.offer = downloads[d].offer /\ closing.pc = downloads[d].pc
    BY <2>1 DEF Download0
  <2>3. CloseDone = [downloads EXCEPT ![d] = closing]
    BY <1>2 DEF CloseDone
  <2> HIDE DEF closing, d
  <2>4. \A i \in DOMAIN downloads \ {d} : downloads[i].closed = 1
    BY DEF d, DownloadsInv, DoneClosedOnce
  <2> QED BY <2>1, <2>2, <2>3, <2>4 DEF DownloadsInv
<1> QED BY <1>1, <1>2

Holding(o) == [offer |-> o, ready |-> FALSE, inFlight |-> None, done |-> None]

LEMMA HoldingFiles ==
  /\ Clear => files' = Holding(None) /\ downloads' = CloseDone
  /\ \A o : Set(o) => files' = Holding(o) /\ downloads' = CloseDone
  BY DEF Clear, Set, Cleared, Holding

\* Clearing the offer, or setting one that no download was started for.
LEMMA ResetDownloads ==
  ASSUME DownloadsInv, NEW o \in Offers \cup {None},
         \A i \in DOMAIN downloads : downloads[i].offer # o,
         files' = Holding(o), downloads' = CloseDone
  PROVE  DownloadsInv'
<1>1. \A i \in DOMAIN downloads : i # None
  BY ConstantFacts DEF DownloadsInv
<1>2. DoneClosedOnce'
  BY <1>1, CloseDoneCloses DEF DoneClosedOnce, Holding
<1>3. \A i \in DOMAIN downloads' : files'.offer # downloads'[i].offer
  BY CloseDoneCloses DEF Holding
<1>4. files' \in [offer : Offers \cup {None}, ready : BOOLEAN, inFlight : Offers \cup {None},
                  done : DOMAIN downloads' \cup {None}]
  BY DEF Holding
<1> QED BY <1>2, <1>3, <1>4, CloseDoneCloses DEF DownloadsInv, Holding

LEMMA ClearKeeps ==
  ASSUME DownloadsInv, OffersInv, Clear, UNCHANGED <<loop, arrived, fileOffers>>
  PROVE  DownloadsInv' /\ OffersInv' /\ DOMAIN downloads' = DOMAIN downloads
<1>1. files' = Holding(None) /\ downloads' = CloseDone
  BY HoldingFiles
<1>2. DownloadsInv'
  BY <1>1, ResetDownloads, ConstantFacts DEF OffersInv
<1>3. OffersInv'
  BY <1>1, CloseDoneCloses, ConstantFacts DEF OffersInv, Holding
<1> QED BY <1>1, <1>2, <1>3, CloseDoneCloses

\* A step that leaves the number of downloads alone.
LEMMA WatcherUntouched ==
  WatcherType /\ UNCHANGED <<watcher, serving>> /\ DOMAIN downloads' = DOMAIN downloads
    => WatcherType'
  BY DEF WatcherType, Requests

-----------------------------------------------------------------------------
(* The steps *)

\* What happens to the pasteboard when a program or a goroutine writes to it.
LEMMA WriteKeepsBoardType ==
  ASSUME BoardType, NEW kind \in Kinds, NEW o \in Offers \cup {None},
         (o = None) = (kind \in {"other", "files"}),
         OnBoard(kind, o), UNCHANGED seen, copies' \in 0 .. MaxCopies
  PROVE  BoardType'
<1>1. board' = [kind |-> kind, offer |-> o, count |-> board.count + 1]
  BY DEF OnBoard
<1>2. board.count \in Nat
  BY DEF BoardType
<1> QED BY <1>1, <1>2 DEF BoardType

LEMMA EnvironmentStep ==
  ASSUME Inv, (\E kind \in {"other", "files"} : UserCopies(kind)) \/ FinderAsks \/ Cancel
              \/ MainStops \/ MainExits
  PROVE  Inv'
<1> USE Untouched DEF Inv, boardVars, processVars, loopVars, watcherVars, handlerVars,
                      downloadVars
<1>1. ASSUME NEW kind \in {"other", "files"}, UserCopies(kind)
      PROVE  Inv'
  <2>1. copies' \in 0 .. MaxCopies
    BY <1>1, ConstantFacts DEF UserCopies, BoardType
  <2>2. BoardType'
    BY <1>1, <2>1, WriteKeepsBoardType DEF UserCopies, Kinds
  <2>3. NoticeInv'
    BY <1>1 DEF UserCopies, NoticeInv, OnBoard
  <2> QED BY <1>1, <2>2, <2>3 DEF UserCopies
<1>2. CASE FinderAsks
  <2>1. board.offer \in Offers
    BY <1>2 DEF FinderAsks, BoardType
  <2>2. AskedType'
    BY <1>2, <2>1 DEF FinderAsks, AskedType
  <2> QED BY <1>2, <2>2 DEF FinderAsks
<1>3. CASE Cancel \/ MainStops \/ MainExits
  <2>1. ProcessType'
    BY <1>3 DEF Cancel, MainStops, MainExits, ProcessType
  <2> QED BY <1>3, <2>1 DEF Cancel, MainStops, MainExits
<1> QED BY <1>1, <1>2, <1>3

LEMMA EventLoopStep == ASSUME Inv, EventLoop PROVE Inv'
<1> USE Untouched DEF Inv, boardVars, processVars, loopVars, watcherVars, handlerVars,
                      downloadVars
<1>1. ASSUME NEW o \in Offers, OfferArrives(o)
      PROVE  Inv'
  <2>1. OffersInv'
    <3>1. /\ files.offer # o
          /\ \A i \in DOMAIN downloads : downloads[i].offer # o
      BY <1>1, ConstantFacts DEF OfferArrives, OffersInv
    <3> QED BY <1>1, <3>1 DEF OfferArrives, OffersInv
  <2> QED BY <1>1, <2>1 DEF OfferArrives
<1>2. CASE LoopTakesNotice
  <2>1. Head(fileCh) \in Notices /\ Tail(fileCh) \in Seq(Notices) /\ Len(Tail(fileCh)) <= 1
    BY <1>2 DEF LoopTakesNotice, NoticeInv
  <2>2. NoticeInv'
    BY <1>2, <2>1 DEF LoopTakesNotice, NoticeInv
  <2>3. OffersInv'
    BY <1>2 DEF LoopTakesNotice, OffersInv
  <2> QED BY <1>2, <2>2, <2>3 DEF LoopTakesNotice
<1>3. CASE LoopWantsClipboard \/ LoopReturns
  <2>1. OffersInv'
    BY <1>3 DEF LoopWantsClipboard, LoopReturns, OffersInv
  <2> QED BY <1>3, <2>1 DEF LoopWantsClipboard, LoopReturns
<1>4. ASSUME NEW write \in BOOLEAN, LoopUsesClipboard(write)
      PROVE  Inv'
  <2>1. BoardType'
    <3>1. CASE write
      <4>1. copies' \in 0 .. MaxCopies /\ OnBoard("other", None) /\ UNCHANGED seen
        BY <1>4, <3>1, ConstantFacts DEF LoopUsesClipboard, BoardType
      <4> QED BY <4>1, WriteKeepsBoardType DEF Kinds
    <3>2. CASE ~ write
      BY <1>4, <3>2 DEF LoopUsesClipboard
    <3> QED BY <3>1, <3>2
  <2>2. NoticeInv'
    BY <1>4 DEF LoopUsesClipboard, NoticeInv, OnBoard
  <2>3. OffersInv'
    BY <1>4 DEF LoopUsesClipboard, OffersInv
  <2> QED BY <1>4, <2>1, <2>2, <2>3 DEF LoopUsesClipboard
<1> QED BY <1>1, <1>2, <1>3, <1>4 DEF EventLoop

LEMMA WatchFilesStep == ASSUME Inv, WatchFiles PROVE Inv'
<1> USE Untouched DEF Inv, Watcher, boardVars, processVars, loopVars, watcherVars, handlerVars,
                      downloadVars
<1>1. CASE WatcherTicks
  <2>1. BoardType'
    BY <1>1 DEF WatcherTicks, BoardType
  <2>2. NoticeInv' /\ WatcherType'
    BY <1>1 DEF WatcherTicks, NoticeInv, WatcherType, Requests
  <2> QED BY <1>1, <2>1, <2>2 DEF WatcherTicks
<1>2. CASE WatcherReadsFlags
  <2>1. NoticeInv'
    BY <1>2 DEF WatcherReadsFlags, NoticeInv, Notices
  <2>2. WatcherType'
    BY <1>2 DEF WatcherReadsFlags, WatcherType, Requests
  <2> QED BY <1>2, <2>1, <2>2 DEF WatcherReadsFlags
<1>3. CASE WatcherClears
  <2>1. NoticeInv' /\ WatcherType'
    BY <1>3 DEF WatcherClears, NoticeInv, WatcherType, Requests
  <2>2. DownloadsInv' /\ OffersInv'
    BY <1>3, ClearKeeps DEF WatcherClears
  <2> QED BY <1>3, <2>1, <2>2 DEF WatcherClears
<1>4. CASE WatcherReadsPaths
  <2>1. NoticeInv'
    BY <1>4 DEF WatcherReadsPaths, NoticeInv, Notices
  <2>2. WatcherType'
    BY <1>4 DEF WatcherReadsPaths, WatcherType, Requests
  <2> QED BY <1>4, <2>1, <2>2 DEF WatcherReadsPaths
<1>5. CASE WatcherSends
  <2>1. NoticeInv' /\ WatcherType'
    BY <1>5 DEF WatcherSends, NoticeInv, WatcherType, Requests
  <2> QED BY <1>5, <2>1 DEF WatcherSends
<1>6. CASE WatcherStops \/ WatcherLocks
  <2>1. NoticeInv' /\ WatcherType'
    BY <1>6 DEF WatcherStops, WatcherLocks, NoticeInv, WatcherType, Requests
  <2> QED BY <1>6, <2>1 DEF WatcherStops, WatcherLocks
<1> QED BY <1>1, <1>2, <1>3, <1>4, <1>5, <1>6 DEF WatchFiles

\* The offer that the handler takes was never current, so that no download was
\* started for it.
LEMMA HandlerStep == ASSUME Inv, Handler PROVE Inv'
<1> USE Untouched DEF Inv, boardVars, processVars, loopVars, watcherVars, handlerVars,
                      downloadVars
<1>1. CASE HandlerTakes
  <2>1. PICK o \in arrived : /\ fileOffers = <<o>>
                             /\ \A i \in DOMAIN downloads : downloads[i].offer # o
    BY <1>1 DEF HandlerTakes, OffersInv
  <2>2. Head(fileOffers) = o /\ Tail(fileOffers) = << >> /\ o \in Offers
    BY <2>1 DEF OffersInv
  <2>3. files' = Holding(o) /\ downloads' = CloseDone /\ fileOffers' = << >>
    BY <1>1, <2>2, HoldingFiles DEF HandlerTakes
  <2>4. DownloadsInv' /\ DOMAIN downloads' = DOMAIN downloads
    BY <2>1, <2>2, <2>3, ResetDownloads, CloseDoneCloses
  <2>5. OffersInv'
    BY <1>1, <2>3, CloseDoneCloses DEF HandlerTakes, OffersInv, Holding
  <2>6. HandlerType'
    BY <1>1, <2>2, ConstantFacts DEF HandlerTakes, HandlerType
  <2> QED BY <1>1, <2>4, <2>5, <2>6, WatcherUntouched DEF HandlerTakes
<1>2. CASE HandlerAsks
  <2>1. publishing \in Offers
    BY <1>2 DEF HandlerAsks, HandlerType
  <2>2. HandlerType' /\ NoticeInv'
    BY <1>2 DEF HandlerAsks, HandlerType, NoticeInv
  <2>3. WatcherType'
    BY <1>2, <2>1 DEF HandlerAsks, WatcherType, Requests
  <2> QED BY <1>2, <2>2, <2>3 DEF HandlerAsks
<1>3. CASE HandlerAnswered \/ HandlerGivesUp \/ HandlerReturns
  <2>1. HandlerType'
    BY <1>3 DEF HandlerAnswered, HandlerGivesUp, HandlerReturns, HandlerType
  <2>2. DownloadsInv' /\ OffersInv' /\ DOMAIN downloads' = DOMAIN downloads
    BY <1>3, ClearKeeps DEF HandlerAnswered, HandlerGivesUp, HandlerReturns
  <2> QED BY <1>3, <2>1, <2>2, WatcherUntouched
         DEF HandlerAnswered, HandlerGivesUp, HandlerReturns
<1> QED BY <1>1, <1>2, <1>3 DEF Handler

LEMMA RequestDownloadStep ==
  ASSUME Inv, NEW k \in requests, RequestDownload(k) PROVE Inv'
<1> USE Untouched DEF Inv, boardVars, processVars, loopVars, watcherVars, handlerVars,
                      downloadVars
<1> DEFINE o == asked[k]
           new == [offer |-> o, pc |-> "running", answer |-> None, closed |-> 0]
           starts == files.offer = o /\ ~ files.ready /\ files.inFlight # o
           n == Len(downloads) + 1
<1>1. AskedType' /\ o \in Offers
  BY DEF RequestDownload, AskedType
<1>2. CASE starts
  <2>1. files.inFlight = None /\ files.done = None
    BY <1>1, <1>2 DEF DownloadsInv
  <2>2. /\ downloads' \in Seq(Download0) /\ DOMAIN downloads' = 1 .. n
        /\ DOMAIN downloads = 1 .. Len(downloads) /\ n \in Nat \ {0}
        /\ downloads'[n] = new
        /\ \A i \in DOMAIN downloads : downloads'[i] = downloads[i]
    <3>1. new \in Download0
      BY <1>1 DEF Download0
    <3>2. downloads' = Append(downloads, new)
      BY <1>2 DEF RequestDownload
    <3> HIDE DEF new
    <3> QED BY <3>1, <3>2 DEF DownloadsInv
  <2>3. files' = [files EXCEPT !.inFlight = o, !.done = n]
    BY <1>2 DEF RequestDownload
  <2>4. DownloadsInv'
    <3>1. files' \in [offer : Offers \cup {None}, ready : BOOLEAN,
                      inFlight : Offers \cup {None}, done : DOMAIN downloads' \cup {None}]
          /\ files'.offer = files.offer /\ files'.inFlight = o /\ files'.done = n
      <4> HIDE DEF o, n
      <4>1. n \in DOMAIN downloads'
        BY <2>2
      <4> QED BY <1>1, <2>3, <4>1 DEF DownloadsInv
    <3>2. DoneClosedOnce'
      <4>1. \A i \in DOMAIN downloads : downloads[i].closed = 1
        BY <2>1, <2>2, ConstantFacts DEF DownloadsInv, DoneClosedOnce
      <4> QED BY <2>2, <3>1, <4>1 DEF DoneClosedOnce
    <3>3. \A i \in DOMAIN downloads : downloads[i].pc = "running" => downloads[i].offer # files.offer
      BY <2>1, <2>2, ConstantFacts DEF DownloadsInv
    <3> QED BY <1>1, <1>2, <2>2, <3>1, <3>2, <3>3, ConstantFacts DEF DownloadsInv
  <2>5. OffersInv'
    <3>1. downloads'[n].offer = files.offer /\ files'.offer = files.offer /\ files.offer \in arrived
      BY <1>1, <1>2, <2>2, <2>3, ConstantFacts DEF DownloadsInv, OffersInv
    <3> QED BY <2>2, <3>1 DEF RequestDownload, OffersInv
  <2>6. WatcherType'
    BY <2>2 DEF RequestDownload, WatcherType, Requests
  <2> QED BY <1>1, <2>4, <2>5, <2>6 DEF RequestDownload
<1>3. CASE ~ starts
  <2>1. UNCHANGED <<files, downloads>>
    BY <1>3 DEF RequestDownload
  <2> QED BY <1>1, <2>1 DEF RequestDownload
<1> QED BY <1>2, <1>3

\* A step of one download that changes how far it is.
LEMMA DownloadMoves ==
  ASSUME Inv, NEW i \in DOMAIN downloads, NEW pc \in {"publish", "wait", "over"},
         downloads' = [downloads EXCEPT ![i].pc = pc], UNCHANGED files
  PROVE  DownloadsInv' /\ DOMAIN downloads' = DOMAIN downloads
         /\ \A j \in DOMAIN downloads : downloads'[j].offer = downloads[j].offer
<1> DEFINE moved == [downloads[i] EXCEPT !.pc = pc]
<1>1. downloads[i] \in Download0
  BY DEF Inv, DownloadsInv
<1>2. /\ moved \in Download0 /\ moved.pc = pc
      /\ moved.offer = downloads[i].offer /\ moved.closed = downloads[i].closed
  BY <1>1 DEF Download0
<1>3. downloads' = [downloads EXCEPT ![i] = moved]
  OBVIOUS
<1> HIDE DEF moved
<1>4. /\ downloads' \in Seq(Download0) /\ DOMAIN downloads' = DOMAIN downloads
      /\ downloads'[i] = moved
      /\ \A j \in DOMAIN downloads : j # i => downloads'[j] = downloads[j]
  BY <1>2, <1>3 DEF Inv, DownloadsInv
<1>5. DoneClosedOnce'
  BY <1>2, <1>4 DEF Inv, DownloadsInv, DoneClosedOnce
<1> QED BY <1>2, <1>4, <1>5 DEF Inv, DownloadsInv

LEMMA DownloadStep ==
  ASSUME Inv, NEW i \in DOMAIN downloads, Download(i) PROVE Inv'
<1> USE Untouched DEF Inv, boardVars, processVars, loopVars, watcherVars, handlerVars,
                      downloadVars
<1>1. downloads[i] \in Download0 /\ i # None
  BY ConstantFacts DEF DownloadsInv
<1>2. ASSUME NEW ok \in BOOLEAN, DownloadEnds(i, ok)
      PROVE  Inv'
  <2> DEFINE o == downloads[i].offer
             mine == files.inFlight = o /\ files.done = i
             pc == IF mine /\ ok THEN "publish" ELSE "over"
             closed == IF mine THEN downloads[i].closed + 1 ELSE downloads[i].closed
             ended == [downloads[i] EXCEPT !.pc = pc, !.closed = closed]
  <2>1. downloads[i].closed = IF files.done = i THEN 0 ELSE 1
    BY DEF DownloadsInv, DoneClosedOnce
  <2>2. /\ ended \in Download0 /\ ended.pc # "running" /\ ended.offer = o
        /\ ended.closed = IF files.done = i /\ ~ mine THEN 0 ELSE 1
    <3>1. pc \in {"publish", "over"}
      OBVIOUS
    <3>2. closed \in 0 .. 1 /\ closed = IF files.done = i /\ ~ mine THEN 0 ELSE 1
      BY <2>1
    <3> HIDE DEF pc, closed, mine
    <3> QED BY <1>1, <3>1, <3>2 DEF Download0
  <2>3. downloads' = [downloads EXCEPT ![i] = ended]
    BY <1>2 DEF DownloadEnds
  <2>4. /\ files'.offer = files.offer
        /\ IF mine THEN files' = [files EXCEPT !.inFlight = None, !.done = None, !.ready = TRUE]
                   ELSE files' = files
    BY <1>2 DEF DownloadEnds, DownloadsInv
  <2> HIDE DEF ended
  <2>5. /\ downloads' \in Seq(Download0) /\ DOMAIN downloads' = DOMAIN downloads
        /\ downloads'[i] = ended
        /\ \A j \in DOMAIN downloads : j # i => downloads'[j] = downloads[j]
    BY <2>2, <2>3 DEF DownloadsInv
  <2>6. \A j \in DOMAIN downloads : /\ downloads'[j].offer = downloads[j].offer
                                    /\ downloads'[j].pc = "running" => downloads[j].pc = "running" /\ j # i
    BY <2>2, <2>5
  <2>7. DownloadsInv'
    <3>1. CASE mine
      <4>1. /\ files' \in [offer : Offers \cup {None}, ready : BOOLEAN,
                           inFlight : Offers \cup {None}, done : DOMAIN downloads' \cup {None}]
            /\ files'.inFlight = None /\ files'.done = None
        BY <2>4, <3>1 DEF DownloadsInv
      <4>2. DoneClosedOnce'
        BY <1>1, <2>2, <2>5, <3>1, <4>1, ConstantFacts DEF DownloadsInv, DoneClosedOnce
      <4> QED BY <2>4, <2>5, <2>6, <3>1, <4>1, <4>2 DEF DownloadsInv
    <3>2. CASE ~ mine
      <4>1. DoneClosedOnce'
        BY <2>2, <2>4, <2>5, <3>2 DEF DownloadsInv, DoneClosedOnce
      <4> QED BY <2>4, <2>5, <2>6, <3>2, <4>1 DEF DownloadsInv
    <3> QED BY <3>1, <3>2
  <2>8. OffersInv'
    BY <1>2, <2>4, <2>5, <2>6 DEF DownloadEnds, OffersInv
  <2> QED BY <1>2, <2>5, <2>7, <2>8, WatcherUntouched DEF DownloadEnds
<1>3. CASE DownloadAsks(i)
  <2>1. /\ DownloadsInv' /\ DOMAIN downloads' = DOMAIN downloads
        /\ \A j \in DOMAIN downloads : downloads'[j].offer = downloads[j].offer
    BY <1>3, DownloadMoves DEF DownloadAsks
  <2>2. OffersInv' /\ NoticeInv'
    BY <1>3, <2>1 DEF DownloadAsks, OffersInv, NoticeInv
  <2>3. WatcherType'
    BY <1>1, <1>3, <2>1 DEF DownloadAsks, WatcherType, Requests, Download0
  <2> QED BY <1>3, <2>1, <2>2, <2>3 DEF DownloadAsks
<1>4. CASE DownloadOver(i)
  <2>1. /\ DownloadsInv' /\ DOMAIN downloads' = DOMAIN downloads
        /\ \A j \in DOMAIN downloads : downloads'[j].offer = downloads[j].offer
    BY <1>4, DownloadMoves DEF DownloadOver
  <2>2. OffersInv'
    BY <1>4, <2>1 DEF DownloadOver, OffersInv
  <2> QED BY <1>4, <2>1, <2>2, WatcherUntouched DEF DownloadOver
<1> QED BY <1>2, <1>3, <1>4 DEF Download

\* An answer goes to the handler or to a download that exists, and changes
\* nothing else of it.
LEMMA AnswerKeeps ==
  ASSUME Inv, NEW result \in {"ok", "failed"}, watcher \in {"main", "checked"}, Answer(result),
         UNCHANGED <<files, loop, arrived, fileOffers, handler, publishing,
                     found, fileCh, offered>>
  PROVE  DownloadsInv' /\ OffersInv' /\ HandlerType' /\ WatcherType' /\ NoticeInv'
<1> USE Untouched DEF Inv
<1>1. serving \in Requests
  BY DEF WatcherType
<1>2. WatcherType' /\ NoticeInv'
  BY DEF Answer, Watcher, WatcherType, NoticeInv
<1>3. CASE serving.who = TheHandler
  <2>1. HandlerType'
    BY <1>3 DEF Answer, HandlerType
  <2> QED BY <1>2, <1>3, <2>1 DEF Answer
<1>4. CASE serving.who # TheHandler
  <2> DEFINE i == serving.who
             answered == [downloads[i] EXCEPT !.answer = result]
  <2>1. i \in DOMAIN downloads /\ downloads[i] \in Download0
    BY <1>1, <1>4 DEF Requests, DownloadsInv
  <2>2. /\ answered \in Download0 /\ answered.pc = downloads[i].pc
        /\ answered.offer = downloads[i].offer /\ answered.closed = downloads[i].closed
    BY <2>1 DEF Download0
  <2>3. downloads' = [downloads EXCEPT ![i] = answered] /\ UNCHANGED answer
    BY <1>4 DEF Answer
  <2> HIDE DEF answered, i
  <2>4. /\ downloads' \in Seq(Download0) /\ DOMAIN downloads' = DOMAIN downloads
        /\ \A j \in DOMAIN downloads : /\ downloads'[j].offer = downloads[j].offer
                                       /\ downloads'[j].pc = downloads[j].pc
                                       /\ downloads'[j].closed = downloads[j].closed
    BY <2>1, <2>2, <2>3 DEF DownloadsInv
  <2>5. DoneClosedOnce'
    BY <2>4 DEF DownloadsInv, DoneClosedOnce
  <2>6. DownloadsInv' /\ OffersInv'
    BY <2>4, <2>5 DEF DownloadsInv, OffersInv
  <2> QED BY <1>2, <2>3, <2>6
<1> QED BY <1>3, <1>4

LEMMA MainStep ==
  ASSUME Inv, NEW ok \in BOOLEAN, MainWritesOffer(ok) \/ MainWritesFiles(ok) \/ MainChecksMarker
  PROVE  Inv'
<1> USE Untouched DEF Inv, boardVars, processVars, loopVars, watcherVars, handlerVars,
                      downloadVars
<1>1. watcher \in {"main", "checked"} /\ serving.offer \in Offers
  BY DEF MainWritesOffer, MainWritesFiles, MainChecksMarker, WatcherType, Requests
<1>2. CASE MainWritesOffer(ok)
  <2>1. DownloadsInv' /\ OffersInv' /\ HandlerType' /\ WatcherType' /\ NoticeInv'
    BY <1>1, <1>2, AnswerKeeps DEF MainWritesOffer
  <2>2. BoardType'
    <3>1. UNCHANGED <<copies, seen>> /\ copies' \in 0 .. MaxCopies
      BY <1>2 DEF MainWritesOffer, BoardType
    <3>2. CASE OnBoard("remote", serving.offer)
      BY <1>1, <3>1, <3>2, WriteKeepsBoardType, ConstantFacts DEF Kinds
    <3>3. CASE OnBoard("other", None)
      BY <3>1, <3>3, WriteKeepsBoardType DEF Kinds
    <3> QED BY <1>2, <3>1, <3>2, <3>3 DEF MainWritesOffer
  <2> QED BY <1>2, <2>1, <2>2 DEF MainWritesOffer
<1>3. CASE MainWritesFiles(ok)
  <2>1. DownloadsInv' /\ OffersInv' /\ HandlerType' /\ WatcherType' /\ NoticeInv'
    BY <1>1, <1>3, AnswerKeeps DEF MainWritesFiles
  <2>2. BoardType'
    <3>1. UNCHANGED <<copies, seen>> /\ copies' \in 0 .. MaxCopies
      BY <1>3 DEF MainWritesFiles, BoardType
    <3>2. CASE OnBoard("received", serving.offer)
      BY <1>1, <3>1, <3>2, WriteKeepsBoardType, ConstantFacts DEF Kinds
    <3>3. CASE OnBoard("other", None)
      BY <3>1, <3>3, WriteKeepsBoardType DEF Kinds
    <3> QED BY <1>3, <3>2, <3>3 DEF MainWritesFiles
  <2> QED BY <1>3, <2>1, <2>2 DEF MainWritesFiles
<1>4. CASE MainChecksMarker
  <2>1. CASE board.kind = "remote" /\ board.offer = serving.offer
    <3>1. WatcherType' /\ NoticeInv'
      BY <1>4, <2>1 DEF MainChecksMarker, Watcher, WatcherType, Requests, NoticeInv
    <3> QED BY <1>4, <2>1, <3>1 DEF MainChecksMarker
  <2>2. CASE ~ (board.kind = "remote" /\ board.offer = serving.offer)
    <3>1. DownloadsInv' /\ OffersInv' /\ HandlerType' /\ WatcherType' /\ NoticeInv'
      BY <1>1, <1>4, <2>2, AnswerKeeps DEF MainChecksMarker
    <3> QED BY <1>4, <3>1 DEF MainChecksMarker
  <2> QED BY <2>1, <2>2
<1> QED BY <1>2, <1>3, <1>4

LEMMA StepInv == Inv /\ [Next]_vars => Inv'
<1> SUFFICES ASSUME Inv, [Next]_vars PROVE Inv'
  OBVIOUS
<1>1. CASE UNCHANGED vars
  BY <1>1, Untouched DEF Inv, vars, boardVars, processVars, loopVars, watcherVars, handlerVars,
                         downloadVars
<1>2. CASE Main
  BY <1>2, EnvironmentStep, MainStep DEF Main
<1>3. ASSUME NEW k \in requests, RequestDownload(k) PROVE Inv'
  BY <1>3, RequestDownloadStep
<1>4. ASSUME NEW i \in DOMAIN downloads, Download(i) PROVE Inv'
  BY <1>4, DownloadStep
<1> QED BY <1>1, <1>2, <1>3, <1>4, EnvironmentStep, EventLoopStep, HandlerStep, WatchFilesStep
        DEF Next, Step

LEMMA AlwaysInv == Safety => []Inv
  BY InitInv, StepInv, PTL DEF Safety

-----------------------------------------------------------------------------
(* The properties *)

\* Every variable keeps its type: no channel holds more than one element, the
\* watcher has a request exactly while it serves one, and a download is under
\* way exactly while its channel is kept.
THEOREM TypeCorrect == Safety => []TypeOK
<1>1. Inv => TypeOK
  <2> SUFFICES ASSUME Inv PROVE TypeOK
    OBVIOUS
  <2>1. (serving = None) = (watcher \notin {"lock", "main", "checked"})
    <3>1. Requests \subseteq [who : Nat, offer : Offers]
      BY DEF Inv, DownloadsInv, Requests, TheHandler
    <3> QED BY <3>1, ConstantFacts DEF Inv, WatcherType
  <2>2. Len(fileOffers) <= 1
    BY DEF Inv, OffersInv
  <2>3. offered \subseteq Kinds
    BY DEF Inv, NoticeInv, Notices, Kinds
  <2> QED BY <2>1, <2>2, <2>3
          DEF Inv, BoardType, ProcessType, NoticeInv, OffersInv, HandlerType, WatcherType,
              AskedType, DownloadsInv, TypeOK
<1> QED BY <1>1, AlwaysInv, PTL

\* finishDownload, set, and cancelIfChanged compete for closing the channel of a
\* download: whatever their order, and however many offers and downloads there
\* are, none is closed twice and none is left open.
THEOREM ClosedOnce == Safety => []DoneClosedOnce
<1>1. Inv => DoneClosedOnce
  BY DEF Inv, DownloadsInv
<1> QED BY <1>1, AlwaysInv, PTL

\* beginDownload starts no second download of an offer while one runs that was
\* not cancelled, however often Finder asks and whatever offers come and go.
THEOREM OneAtATime == Safety => []OneDownloadAtATime
<1>1. Inv => OneDownloadAtATime
  <2> SUFFICES ASSUME Inv PROVE OneDownloadAtATime
    OBVIOUS
  <2> DEFINE Running == {i \in DOMAIN downloads :
                           downloads[i].pc = "running" /\ ~ Cancelled(downloads[i].offer)}
  <2>1. Running \subseteq {files.done}
    BY DEF Inv, DownloadsInv, Cancelled
  <2>2. IsFiniteSet({files.done}) /\ Cardinality({files.done}) = 1
    BY FS_Singleton
  <2>3. Cardinality(Running) <= 1
    <3> HIDE DEF Running
    <3> QED BY <2>1, <2>2, FS_Subset
  <2> QED BY <2>3 DEF OneDownloadAtATime
<1> QED BY <1>1, AlwaysInv, PTL

\* The watcher tells received files from files the user copied, although it
\* looks at the pasteboard in two steps.
THEOREM NeverOffered == Safety => []ReceivedNeverOffered
<1>1. Inv => ReceivedNeverOffered
  BY DEF Inv, NoticeInv, Notices, ReceivedNeverOffered
<1> QED BY <1>1, AlwaysInv, PTL

\* What the watcher found when it looked at the marker stays on the pasteboard.
MarkerInv == watcher = "checked" => board.kind = "remote" /\ board.offer = serving.offer

\* Only the watcher's own write puts received files on the pasteboard.
LEMMA ReceivedStep ==
  ASSUME Inv, [Next]_vars, board'.kind = "received", board' # board
  PROVE  watcher = "checked" /\ board'.offer = serving.offer
<1>1. CASE \E ok \in BOOLEAN : MainWritesFiles(ok)
  BY <1>1 DEF MainWritesFiles, OnBoard
<1>2. CASE \E ok \in BOOLEAN : MainWritesOffer(ok)
  BY <1>2 DEF MainWritesOffer, OnBoard
<1>3. CASE EventLoop
  BY <1>3 DEF EventLoop, OfferArrives, LoopTakesNotice, LoopWantsClipboard, LoopUsesClipboard,
              LoopReturns, OnBoard, boardVars
<1>4. CASE \E kind \in {"other", "files"} : UserCopies(kind)
  BY <1>4 DEF UserCopies, OnBoard
<1>5. CASE \/ FinderAsks \/ Cancel \/ MainStops \/ MainExits \/ MainChecksMarker
           \/ Handler \/ WatchFiles \/ UNCHANGED vars
           \/ \E k \in requests : RequestDownload(k)
           \/ \E i \in DOMAIN downloads : Download(i)
  BY <1>5 DEF FinderAsks, Cancel, MainStops, MainExits, MainChecksMarker,
              Handler, HandlerTakes, HandlerAsks, HandlerAnswered, HandlerGivesUp, HandlerReturns,
              WatchFiles, WatcherTicks, WatcherReadsFlags, WatcherClears, WatcherReadsPaths,
              WatcherSends, WatcherStops, WatcherLocks,
              RequestDownload, Download, DownloadEnds, DownloadAsks, DownloadOver,
              vars, boardVars
<1> QED BY <1>1, <1>2, <1>3, <1>4, <1>5 DEF Next, Step, Main

\* The lock keeps the event loop off, AtomicWrite every other program.
LEMMA MarkerStep ==
  ASSUME AtomicWrite, Inv, MarkerInv, [Next]_vars PROVE MarkerInv'
<1>1. CASE EventLoop
  BY <1>1 DEF EventLoop, OfferArrives, LoopTakesNotice, LoopWantsClipboard, LoopUsesClipboard,
              LoopReturns, Locked, MarkerInv, boardVars, watcherVars
<1>2. CASE \E kind \in {"other", "files"} : UserCopies(kind)
  BY <1>2 DEF UserCopies, MarkerInv, watcherVars
<1>3. CASE \/ FinderAsks \/ Cancel \/ MainStops \/ MainExits \/ UNCHANGED vars
           \/ \E k \in requests : RequestDownload(k)
  BY <1>3 DEF FinderAsks, Cancel, MainStops, MainExits, RequestDownload, MarkerInv,
              vars, boardVars, watcherVars
<1>4. CASE Handler
  BY <1>4 DEF Handler, HandlerTakes, HandlerAsks, HandlerAnswered, HandlerGivesUp, HandlerReturns,
              MarkerInv, boardVars, watcherVars
<1>5. CASE WatchFiles
  BY <1>5 DEF WatchFiles, WatcherTicks, WatcherReadsFlags, WatcherClears, WatcherReadsPaths,
              WatcherSends, WatcherStops, WatcherLocks, Watcher, MarkerInv
<1>6. CASE \E i \in DOMAIN downloads : Download(i)
  BY <1>6 DEF Download, DownloadEnds, DownloadAsks, DownloadOver, MarkerInv, boardVars, watcherVars
<1>7. CASE \/ \E ok \in BOOLEAN : MainWritesOffer(ok) \/ MainWritesFiles(ok)
           \/ MainChecksMarker
  BY <1>7 DEF MainWritesOffer, MainWritesFiles, MainChecksMarker, Answer, Watcher, MarkerInv,
              boardVars, watcherVars
<1> QED BY <1>1, <1>2, <1>3, <1>4, <1>5, <1>6, <1>7 DEF Next, Step, Main

\* Between its look at the marker and the write clipall itself changes nothing
\* on the pasteboard: unless another program writes in that moment
\* (AtomicWrite), received files replace nothing but the promise of their offer.
THEOREM OnlyItsPromise == ASSUME AtomicWrite PROVE Safety => ReplacesOnlyItsPromise
<1>1. Init => MarkerInv
  BY DEF Init, MarkerInv
<1>2. Inv /\ MarkerInv /\ [Next]_vars => MarkerInv'
  BY MarkerStep
<1>3. Inv /\ MarkerInv /\ [Next]_vars
        => [board'.kind = "received" /\ board' # board
              => board.kind = "remote" /\ board.offer = board'.offer]_vars
  BY ReceivedStep DEF MarkerInv
<1> QED BY <1>1, <1>2, <1>3, AlwaysInv, PTL DEF Safety, ReplacesOnlyItsPromise
=============================================================================
