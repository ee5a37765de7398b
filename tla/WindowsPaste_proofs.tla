------------------------ MODULE WindowsPaste_proofs ------------------------
(***************************************************************************)
(* Theorems about FileOffers, and about WindowsPaste, which composes it    *)
(* with the machine that pastes, for any files, selections and bounds; and *)
(* about HDrop, for all lists of files.                                    *)
(***************************************************************************)
EXTENDS WindowsPaste, HDrop, SequenceTheorems, WellFoundedInduction, TLAPS

-----------------------------------------------------------------------------
(* The source: the inductive invariant, by the variables it is about *)

Copied == Selections \cup {{}}

\* What FileProvider.Create keeps of a selection.
Snapshots == UNION {[files -> Versions] : files \in Selections}

ClipType ==
  /\ clip \in [files : Copied, count : 0 .. MaxCopies]
  /\ version \in [Files -> 0 .. MaxEdits] /\ edits \in 0 .. MaxEdits
  /\ \A f \in Files : version[f] <= edits

\* A watcher that is about to read has room for its notice.
WatchersType ==
  /\ fileSeen \in [count : 0 .. clip.count, reading : BOOLEAN]
  /\ fileCh \in Seq(Copied) /\ Len(fileCh) <= IF fileSeen.reading THEN 1 ELSE 2
  /\ textSeen \in 0 .. clip.count
  /\ textCh \in 0 .. 2

OffersType ==
  /\ offers \in Seq(Snapshots)
  /\ provider \in DOMAIN offers \cup {None}
  /\ expired \in 0 .. Len(offers)
  /\ refused \in BOOLEAN
  /\ sent \in Seq({Text} \cup DOMAIN offers)

\* What the provider answers for was announced last.
AnnouncedInv == provider # None => sent # << >> /\ sent[Len(sent)] = provider

\* Once the file watcher has seen the last change, its last notice is of what
\* the clipboard holds, and when the loop took that, so is the offer.
UpToDate == ~ fileSeen.reading /\ fileSeen.count = clip.count

NoticesInv == UpToDate /\ fileCh # << >> => fileCh[Len(fileCh)] = clip.files

FollowsInv ==
  UpToDate /\ fileCh = << >> =>
    IF clip.files # {} /\ ~ refused
      THEN provider # None /\ DOMAIN offers[provider] = clip.files
      ELSE provider = None

SourceInv ==
  ClipType /\ WatchersType /\ OffersType /\ AnnouncedInv /\ NoticesInv /\ FollowsInv

-----------------------------------------------------------------------------
(* The machine that pastes *)

OfferNumbers == DOMAIN offers

\* Every file of an offer is staged as it was offered.
Complete(o) == \A f \in DOMAIN offers[o] : <<o, f, offers[o][f]>> \in staged

ChannelsType ==
  /\ arrived \in 0 .. Len(sent)
  /\ fileOffers \in Seq(OfferNumbers) /\ Len(fileOffers) <= 1
  /\ presses \in Nat /\ injecting \in Nat

BoardInv ==
  /\ board \in [kind : {"other", "marker", "files"}, offer : OfferNumbers \cup {None}]
  /\ (board.offer = None) = (board.kind = "other")
  /\ current \in OfferNumbers \cup {None}
  /\ publishing \in OfferNumbers \cup {None}
  /\ MarkerIsServed
  /\ board.kind = "files" => Complete(board.offer)
  /\ publishing # None => Complete(publishing)

\* The download works on a file of its offer, in the version that was offered.
JobInv ==
  /\ job \in [offer : OfferNumbers \cup {None}, phase : {"none", "start", "next", "ask", "copy"},
              file : Files \cup {None}, version : Versions \cup {None}]
  /\ IF job.phase = "none" THEN job = NoJob ELSE job.offer \in OfferNumbers
  /\ job.phase \in {"ask", "copy"} => job.file \in DOMAIN offers[job.offer]
  /\ job.phase = "copy" => job.version = offers[job.offer][job.file]

\* A download that succeeded staged its whole offer.
ResultInv ==
  /\ result \in Seq([offer : OfferNumbers, ok : BOOLEAN]) /\ Len(result) <= 1
  /\ result # << >> /\ Head(result).ok => Complete(Head(result).offer)

\* One download at a time, which ends in one result.
DownloadingInv ==
  /\ downloading = (job # NoJob \/ result # << >>)
  /\ job # NoJob => result = << >>

\* Nothing is staged but what was offered.
StagedInv ==
  \A s \in staged : /\ s \in OfferNumbers \X Files \X Versions
                    /\ s[2] \in DOMAIN offers[s[1]] /\ s[3] = offers[s[1]][s[2]]

Inv == SourceInv /\ ChannelsType /\ BoardInv /\ JobInv /\ ResultInv /\ DownloadingInv /\ StagedInv

-----------------------------------------------------------------------------
(* The steps of the source *)

LEMMA ConstantFacts ==
  /\ None \notin Nat /\ MaxCopies \in Nat /\ MaxEdits \in Nat /\ MaxPresses \in Nat
  /\ \A files \in Selections : files \subseteq Files /\ files # {}
  /\ WriteMayFail \in BOOLEAN
  BY FileOffersAssumption, WindowsPasteAssumption

LEMMA SnapshotShape ==
  ASSUME NEW s
  PROVE  s \in Snapshots <=> (DOMAIN s \in Selections /\ s \in [DOMAIN s -> Versions])
  BY DEF Snapshots

\* An action leaves the parts alone whose variables it does not touch.
LEMMA SourceUntouched ==
  /\ ClipType /\ UNCHANGED <<clip, version, edits>> => ClipType'
  /\ WatchersType /\ UNCHANGED <<clip, fileSeen, fileCh, textSeen, textCh>> => WatchersType'
  /\ OffersType /\ UNCHANGED <<offers, provider, expired, refused, sent>> => OffersType'
  /\ AnnouncedInv /\ UNCHANGED <<provider, sent>> => AnnouncedInv'
  /\ NoticesInv /\ UNCHANGED <<clip, fileSeen, fileCh>> => NoticesInv'
  /\ FollowsInv /\ UNCHANGED <<clip, fileSeen, fileCh, refused, provider, offers>> => FollowsInv'
  BY DEF ClipType, WatchersType, OffersType, AnnouncedInv, NoticesInv, FollowsInv, UpToDate, Copied

\* Taking the first element leaves the last one where it is.
LEMMA LastStays ==
  ASSUME NEW S, NEW q \in Seq(S), q # << >>
  PROVE  /\ Tail(q) \in Seq(S) /\ Len(Tail(q)) = Len(q) - 1 /\ Len(q) > 0
         /\ Tail(q) # << >> => Tail(q)[Len(Tail(q))] = q[Len(q)]
         /\ Tail(q) = << >> => Head(q) = q[Len(q)]
<1>1. Len(q) \in Nat /\ Len(q) > 0
  OBVIOUS
<1>2. Tail(q) \in Seq(S) /\ Len(Tail(q)) = Len(q) - 1
  BY <1>1
<1>3. \A i \in 1 .. Len(Tail(q)) : Tail(q)[i] = q[i + 1]
  BY <1>1, <1>2
<1>4. ASSUME Tail(q) # << >> PROVE Tail(q)[Len(Tail(q))] = q[Len(q)]
  <2>1. Len(Tail(q)) > 0
    BY <1>2, <1>4
  <2> QED BY <1>1, <1>2, <1>3, <2>1
<1>5. ASSUME Tail(q) = << >> PROVE Head(q) = q[Len(q)]
  <2> DEFINE t == Tail(q)
  <2>1. t \in Seq(S) /\ t = << >> /\ Len(t) = Len(q) - 1
    BY <1>2, <1>5
  <2> HIDE DEF t
  <2>2. Len(t) = 0
    BY <2>1
  <2>3. Len(q) = 1
    BY <1>1, <2>1, <2>2
  <2> QED BY <2>3
<1> QED BY <1>1, <1>2, <1>4, <1>5

LEMMA InitSource == SourceInit => SourceInv
<1> SUFFICES ASSUME SourceInit PROVE SourceInv
  OBVIOUS
<1> USE ConstantFacts DEF SourceInit
<1>1. ClipType
  BY DEF ClipType, Copied
<1>2. WatchersType
  BY DEF WatchersType
<1>3. OffersType /\ AnnouncedInv
  <2>1. Len(offers) = 0 /\ provider = None /\ expired = 0
    OBVIOUS
  <2>2. offers \in Seq(Snapshots) /\ sent \in Seq({Text} \cup DOMAIN offers)
    OBVIOUS
  <2>3. expired \in 0 .. Len(offers)
    BY <2>1
  <2>5. refused \in BOOLEAN
    BY DEF SourceInit
  <2>4. provider \in DOMAIN offers \cup {None} /\ AnnouncedInv
    BY <2>1 DEF AnnouncedInv
  <2> QED BY <2>2, <2>3, <2>4, <2>5 DEF OffersType
<1>4. NoticesInv /\ FollowsInv
  BY DEF NoticesInv, FollowsInv
<1> QED BY <1>1, <1>2, <1>3, <1>4 DEF SourceInv

\* A change of the clipboard that nobody noticed so far.
LEMMA ClipChanges ==
  ASSUME SourceInv, NEW files \in Copied, clip.count < MaxCopies,
         clip' = [files |-> files, count |-> clip.count + 1],
         UNCHANGED <<version, edits, fileSeen, fileCh, textSeen, textCh>>
  PROVE  ClipType' /\ WatchersType' /\ NoticesInv' /\ FollowsInv'
<1> USE ConstantFacts DEF SourceInv
<1>1. clip.count \in Nat /\ clip'.count = clip.count + 1
  BY DEF ClipType
<1>2. ClipType' /\ WatchersType'
  BY <1>1 DEF ClipType, WatchersType, Copied
<1>3. ~ UpToDate'
  BY <1>1 DEF WatchersType, UpToDate
<1> QED BY <1>2, <1>3 DEF NoticesInv, FollowsInv

LEMMA SourceStep == SourceInv /\ [SourceNext]_sourceVars => SourceInv'
<1> SUFFICES ASSUME SourceInv, [SourceNext]_sourceVars PROVE SourceInv'
  OBVIOUS
<1> USE SourceUntouched, ConstantFacts DEF SourceInv
<1>1. CASE UNCHANGED sourceVars
  BY <1>1 DEF sourceVars
<1>2. ASSUME NEW files \in Copied, UserCopies(files) PROVE SourceInv'
  BY <1>2, ClipChanges DEF UserCopies
<1>3. ASSUME NEW f \in Files, Edit(f) PROVE SourceInv'
  <2>1. ClipType'
    BY <1>3 DEF Edit, ClipType
  <2> QED BY <1>3, <2>1 DEF Edit
<1>4. CASE Expire
  <2>1. OffersType'
    BY <1>4 DEF Expire, OffersType
  <2> QED BY <1>4, <2>1 DEF Expire
<1>5. CASE FileWatcherTicks
  <2>1. WatchersType'
    BY <1>5 DEF FileWatcherTicks, Blocked, WatchersType, ClipType
  <2>2. NoticesInv' /\ FollowsInv'
    BY <1>5 DEF FileWatcherTicks, NoticesInv, FollowsInv, UpToDate
  <2> QED BY <1>5, <2>1, <2>2 DEF FileWatcherTicks
<1>6. CASE FileWatcherReads
  <2>1. /\ fileCh' \in Seq(Copied) /\ fileCh' # << >> /\ Len(fileCh') <= 2
        /\ fileCh'[Len(fileCh')] = clip.files
    BY <1>6 DEF FileWatcherReads, WatchersType, ClipType
  <2>2. WatchersType' /\ NoticesInv' /\ FollowsInv'
    BY <1>6, <2>1 DEF FileWatcherReads, WatchersType, NoticesInv, FollowsInv
  <2> QED BY <1>6, <2>2 DEF FileWatcherReads
<1>7. CASE TextWatcherPolls
  <2>1. WatchersType'
    BY <1>7 DEF TextWatcherPolls, Blocked, WatchersType, ClipType
  <2> QED BY <1>7, <2>1 DEF TextWatcherPolls
<1>8. ASSUME NEW echo \in BOOLEAN, LoopTakesText(echo) PROVE SourceInv'
  <2>1. WatchersType' /\ ClipType' /\ NoticesInv'
    BY <1>8 DEF LoopTakesText, WatchersType
  <2>2. CASE clip.files # {} \/ echo
    <3>1. UNCHANGED <<provider, sent, offers, expired, refused>>
      BY <1>8, <2>2 DEF LoopTakesText
    <3> QED BY <1>8, <2>1, <3>1 DEF LoopTakesText
  <2>3. CASE ~ (clip.files # {} \/ echo)
    <3>1. provider' = None /\ sent' = Append(sent, Text) /\ UNCHANGED <<offers, expired, refused>>
      BY <1>8, <2>3 DEF LoopTakesText
    <3>2. OffersType' /\ AnnouncedInv'
      BY <3>1 DEF OffersType, AnnouncedInv
    <3>3. FollowsInv'
      BY <1>8, <2>3, <3>1 DEF LoopTakesText, FollowsInv
    <3> QED BY <2>1, <3>2, <3>3
  <2> QED BY <2>2, <2>3
<1>9. ASSUME NEW ok \in BOOLEAN, LoopTakesFiles(ok) PROVE SourceInv'
  <2> DEFINE files == Head(fileCh)
  <2>1. files \in Copied /\ fileCh' = Tail(fileCh) /\ fileCh # << >>
        /\ UNCHANGED <<clip, version, edits, fileSeen, textSeen, textCh, expired>>
    BY <1>9 DEF LoopTakesFiles, WatchersType
  <2>2. WatchersType' /\ ClipType'
    BY <2>1 DEF WatchersType
  <2>3. NoticesInv' /\ (UpToDate' /\ fileCh' = << >> => files = clip.files)
    <3>1. fileCh \in Seq(Copied) /\ Len(fileCh) > 0 /\ Len(fileCh') = Len(fileCh) - 1
      BY <2>1 DEF WatchersType
    <3>2. fileCh' # << >> => fileCh'[Len(fileCh')] = fileCh[Len(fileCh)]
      BY <2>1, <3>1, LastStays
    <3>3. fileCh' = << >> => files = fileCh[Len(fileCh)]
      BY <2>1, <3>1, LastStays
    <3> HIDE DEF files
    <3> QED BY <2>1, <3>2, <3>3 DEF NoticesInv, UpToDate
  <2>4. CASE files = {} \/ ~ ok
    <3>1. /\ ok \/ files # {}
          /\ refused' = (files # {}) /\ provider' = None
          /\ UNCHANGED <<offers, sent>>
      BY <1>9, <2>4 DEF LoopTakesFiles
    <3>2. OffersType' /\ AnnouncedInv'
      BY <2>1, <3>1 DEF OffersType, AnnouncedInv
    <3>3. FollowsInv'
      BY <2>1, <2>3, <3>1 DEF FollowsInv
    <3> QED BY <2>2, <2>3, <3>2, <3>3
  <2>5. CASE files # {} /\ ok
    <3> DEFINE n == Len(offers) + 1
               made == Create(files)
    <3>1. /\ offers' = Append(offers, made) /\ provider' = Len(offers')
          /\ sent' = Append(sent, provider') /\ refused' = FALSE
      BY <1>9, <2>5 DEF LoopTakesFiles
    <3>2. made \in Snapshots /\ DOMAIN made = files
      BY <2>1, <2>5 DEF Create, Copied, Snapshots, ClipType, Versions
    <3> HIDE DEF made, files
    <3>3. /\ offers' \in Seq(Snapshots) /\ Len(offers') = n /\ n \in Nat
          /\ DOMAIN offers' = DOMAIN offers \cup {n} /\ offers'[n] = made
      BY <3>1, <3>2 DEF OffersType
    <3>4. OffersType' /\ AnnouncedInv'
      <4>1. sent \in Seq({Text} \cup DOMAIN offers')
        BY <3>3 DEF OffersType
      <4>2. /\ provider' = n /\ n \in DOMAIN offers' /\ n # None
            /\ sent' = Append(sent, n)
        BY <3>1, <3>3
      <4>3. sent' \in Seq({Text} \cup DOMAIN offers') /\ sent' # << >> /\ sent'[Len(sent')] = n
        BY <4>1, <4>2
      <4>4. expired' \in 0 .. Len(offers')
        BY <2>1, <3>3 DEF OffersType
      <4> QED BY <3>1, <3>3, <4>2, <4>3, <4>4 DEF OffersType, AnnouncedInv
    <3>5. FollowsInv'
      BY <2>1, <2>3, <2>5, <3>1, <3>2, <3>3 DEF FollowsInv
    <3> QED BY <2>2, <2>3, <3>4, <3>5
  <2> QED BY <2>4, <2>5
<1>10. CASE LoopTakesIncoming
  <2>1. ClipType' /\ WatchersType' /\ NoticesInv' /\ FollowsInv'
    BY <1>10, ClipChanges DEF LoopTakesIncoming, Copied
  <2>2. OffersType' /\ AnnouncedInv'
    BY <1>10 DEF LoopTakesIncoming, OffersType, AnnouncedInv
  <2> QED BY <2>1, <2>2
<1> QED BY <1>1, <1>2, <1>3, <1>4, <1>5, <1>6, <1>7, <1>8, <1>9, <1>10
        DEF SourceNext, Watchers, TakesNotice, Copied

-----------------------------------------------------------------------------
(* What holds of the source, whoever pastes *)

Source == SourceInit /\ [][SourceNext]_sourceVars

LEMMA SourceInvariant == Source => []SourceInv
  BY InitSource, SourceStep, PTL DEF Source

\* The machine that pastes reads the source and changes nothing there.
LEMMA SafetyImpliesSource == Safety => Source
<1>1. Init => SourceInit
  BY DEF Init
<1>2. [Next]_vars => [SourceNext]_sourceVars
  BY DEF Next, vars, LoopTakesMessage, MessageLost, OtherCopies, Handler, HandlerTakesOffer,
         HandlerPublishes, HandlerTakesResult, HandlerSeesPaste, Injects, Job, JobAsks, JobStarts,
         JobServed, JobFails, JobStores, JobSucceeds
<1> QED BY <1>1, <1>2, PTL DEF Safety, Source

\* FileProvider.open answers for no offer but the one that the node announced
\* last: an announcement of text, or of other files, ends every earlier offer.
THEOREM LastAnnouncedOnly == Safety => []ServesLastAnnounced
<1>1. SourceInv => ServesLastAnnounced
  BY DEF SourceInv, AnnouncedInv, ServesLastAnnounced, Last
<1> QED BY <1>1, SourceInvariant, SafetyImpliesSource, PTL

\* Whatever the order in which the loop takes the notices of the two watchers,
\* when all changes are noticed the node offers the files on its clipboard, and
\* nothing when there are none or they could not be offered.
THEOREM OfferFollowsClipboard == Safety => []ProviderFollowsClipboard
<1>1. SourceInv => ProviderFollowsClipboard
  BY DEF SourceInv, FollowsInv, UpToDate, FilesNoticed, ProviderFollowsClipboard
<1> QED BY <1>1, SourceInvariant, SafetyImpliesSource, PTL

-----------------------------------------------------------------------------
(* The steps of the machine that pastes *)

\* Offers stay as they were made, announcements and staged files stay there.
Kept ==
  /\ \A o \in OfferNumbers : o \in OfferNumbers' /\ offers'[o] = offers[o]
  /\ Len(sent) <= Len(sent')
  /\ staged \subseteq staged'

LEMMA OfferFacts ==
  ASSUME SourceInv
  PROVE  /\ OfferNumbers \subseteq Nat /\ None \notin OfferNumbers /\ Text \notin OfferNumbers
         /\ \A o \in OfferNumbers : /\ offers[o] \in [DOMAIN offers[o] -> Versions]
                                    /\ DOMAIN offers[o] \subseteq Files
<1>1. offers \in Seq(Snapshots)
  BY DEF SourceInv, OffersType
<1>2. OfferNumbers = 1 .. Len(offers) /\ Len(offers) \in Nat
  BY <1>1 DEF OfferNumbers
<1>3. \A o \in OfferNumbers : offers[o] \in Snapshots
  BY <1>1, <1>2
<1> QED BY <1>2, <1>3, ConstantFacts, SnapshotShape DEF Text

LEMMA SourceKeeps ==
  ASSUME SourceInv, [SourceNext]_sourceVars
  PROVE  /\ \A o \in OfferNumbers : o \in OfferNumbers' /\ offers'[o] = offers[o]
         /\ Len(sent) <= Len(sent')
<1> DEFINE Appended(q, r) == r = q \/ \E x : r = Append(q, x)
<1>1. Appended(offers, offers') /\ Appended(sent, sent')
  <2>1. ASSUME NEW yes \in BOOLEAN, LoopTakesText(yes)
        PROVE  Appended(offers, offers') /\ Appended(sent, sent')
    BY <2>1 DEF LoopTakesText
  <2>2. ASSUME NEW yes \in BOOLEAN, LoopTakesFiles(yes)
        PROVE  Appended(offers, offers') /\ Appended(sent, sent')
    <3>1. CASE Head(fileCh) = {} \/ ~ yes
      BY <2>2, <3>1 DEF LoopTakesFiles
    <3>2. CASE Head(fileCh) # {} /\ yes
      <4>1. offers' = Append(offers, Create(Head(fileCh))) /\ sent' = Append(sent, provider')
        BY <2>2, <3>2 DEF LoopTakesFiles
      <4> QED BY <4>1
    <3> QED BY <3>1, <3>2
  <2> HIDE DEF Appended
  <2>3. ASSUME UNCHANGED <<offers, sent>> PROVE Appended(offers, offers') /\ Appended(sent, sent')
    BY <2>3 DEF Appended
  <2> QED BY <2>1, <2>2, <2>3 DEF SourceNext, sourceVars, UserCopies, Edit, Expire, Watchers,
           FileWatcherTicks, FileWatcherReads, TextWatcherPolls, TakesNotice, LoopTakesIncoming
<1>2. offers \in Seq(Snapshots) /\ sent \in Seq({Text} \cup DOMAIN offers)
  BY DEF SourceInv, OffersType
<1>3. ASSUME NEW S, NEW q \in Seq(S), NEW r, Appended(q, r)
      PROVE  Len(q) <= Len(r) /\ \A i \in DOMAIN q : i \in DOMAIN r /\ r[i] = q[i]
  BY <1>3
<1> HIDE DEF Appended
<1> QED BY <1>1, <1>2, <1>3 DEF OfferNumbers

LEMMA CompleteStays ==
  ASSUME Kept, NEW o \in OfferNumbers, Complete(o)
  PROVE  o \in OfferNumbers' /\ Complete(o)'
  BY DEF Kept, Complete

\* What a step does not touch stays true, as the offers only get more.
LEMMA PasteUntouched ==
  ASSUME SourceInv, SourceInv', Kept
  PROVE  /\ ChannelsType /\ UNCHANGED <<arrived, fileOffers, presses, injecting>> => ChannelsType'
         /\ BoardInv /\ UNCHANGED <<board, current, publishing>> => BoardInv'
         /\ JobInv /\ UNCHANGED job => JobInv'
         /\ ResultInv /\ UNCHANGED result => ResultInv'
         /\ DownloadingInv /\ UNCHANGED <<downloading, job, result>> => DownloadingInv'
         /\ StagedInv /\ UNCHANGED staged => StagedInv'
<1>1. OfferNumbers \subseteq OfferNumbers' /\ \A o \in OfferNumbers : offers'[o] = offers[o]
  BY DEF Kept
<1>2. Len(sent) \in Nat /\ Len(sent') \in Nat /\ Len(sent) <= Len(sent')
  BY DEF Kept, SourceInv, OffersType
<1>3. ASSUME ChannelsType, UNCHANGED <<arrived, fileOffers, presses, injecting>> PROVE ChannelsType'
  <2>1. fileOffers \in Seq(OfferNumbers')
    BY <1>1, <1>3 DEF ChannelsType
  <2> QED BY <1>2, <1>3, <2>1 DEF ChannelsType
<1>4. ASSUME BoardInv, UNCHANGED <<board, current, publishing>> PROVE BoardInv'
  <2>1. board.kind = "files" => Complete(board.offer)'
    BY <1>4, CompleteStays DEF BoardInv
  <2>2. publishing # None => Complete(publishing)'
    BY <1>4, CompleteStays DEF BoardInv
  <2> QED BY <1>1, <1>4, <2>1, <2>2 DEF BoardInv, MarkerIsServed, Complete
<1>5. ASSUME JobInv, UNCHANGED job PROVE JobInv'
  BY <1>1, <1>5 DEF JobInv
<1>6. ASSUME ResultInv, UNCHANGED result PROVE ResultInv'
  <2> DEFINE Results(offered) == [offer : offered, ok : BOOLEAN]
  <2>1. result \in Seq(Results(OfferNumbers')) /\ Len(result) <= 1
    <3>1. Results(OfferNumbers) \subseteq Results(OfferNumbers')
      BY <1>1
    <3>2. result \in Seq(Results(OfferNumbers)) /\ Len(result) <= 1
      BY <1>6 DEF ResultInv
    <3> HIDE DEF Results
    <3> QED BY <3>1, <3>2
  <2>2. ASSUME result # << >>, Head(result).ok PROVE Complete(Head(result).offer)'
    <3>1. result \in Seq(Results(OfferNumbers)) /\ Complete(Head(result).offer)
      BY <1>6, <2>2 DEF ResultInv
    <3> HIDE DEF Results
    <3>2. Head(result) \in Results(OfferNumbers)
      BY <2>2, <3>1
    <3>3. Head(result).offer \in OfferNumbers
      BY <3>2 DEF Results
    <3>4. PICK o \in OfferNumbers : o = Head(result).offer
      BY <3>3
    <3>5. Complete(o)'
      BY <3>1, <3>4, CompleteStays
    <3> QED BY <1>6, <3>4, <3>5 DEF Complete
  <2> QED BY <1>6, <2>1, <2>2 DEF ResultInv
<1>7. ASSUME DownloadingInv, UNCHANGED <<downloading, job, result>> PROVE DownloadingInv'
  BY <1>7 DEF DownloadingInv
<1>8. ASSUME StagedInv, UNCHANGED staged PROVE StagedInv'
  BY <1>1, <1>8 DEF StagedInv
<1> QED BY <1>3, <1>4, <1>5, <1>6, <1>7, <1>8

LEMMA LocalStep ==
  ASSUME SourceInv, UNCHANGED sourceVars, staged \subseteq staged'
  PROVE  SourceInv' /\ Kept
<1>1. SourceInv'
  BY SourceStep
<1>2. offers' = offers /\ sent' = sent
  BY DEF sourceVars
<1>3. sent \in Seq({Text} \cup DOMAIN offers)
  BY DEF SourceInv, OffersType
<1> QED BY <1>1, <1>2, <1>3 DEF Kept, OfferNumbers

\* The clipboard may have been emptied by a write that failed.
LEMMA Emptied ==
  ASSUME Inv, UNCHANGED sourceVars, UNCHANGED staged, OnBoard("other", None) \/ UNCHANGED board,
         current' \in {current, None}, publishing' \in {publishing, None}
  PROVE  BoardInv'
<1>1. OfferNumbers' = OfferNumbers /\ \A o : Complete(o)' = Complete(o)
  BY DEF sourceVars, OfferNumbers, Complete
<1>2. /\ board' \in [kind : {"other", "marker", "files"}, offer : OfferNumbers \cup {None}]
      /\ (board'.offer = None) = (board'.kind = "other")
      /\ board' = board \/ board'.kind = "other"
  BY DEF Inv, BoardInv, OnBoard
<1>3. MarkerIsServed'
  BY <1>2 DEF Inv, BoardInv, MarkerIsServed
<1>4. board'.kind = "files" => Complete(board'.offer)
  BY <1>2 DEF Inv, BoardInv
<1>5. publishing' # None => Complete(publishing')
  BY DEF Inv, BoardInv
<1> QED BY <1>1, <1>2, <1>3, <1>4, <1>5 DEF Inv, BoardInv, Complete, sourceVars

LEMMA LoopStep ==
  ASSUME Inv, LoopTakesMessage \/ MessageLost \/ OtherCopies
  PROVE  Inv'
<1> USE DEF Inv
<1>1. UNCHANGED <<sourceVars, handlerVars, result, jobVars, presses, injecting>>
  BY DEF LoopTakesMessage, MessageLost, OtherCopies, boardVars
<1>2. SourceInv' /\ Kept
  BY <1>1, LocalStep DEF jobVars
<1>3. JobInv' /\ ResultInv' /\ DownloadingInv' /\ StagedInv'
  BY <1>1, <1>2, PasteUntouched DEF jobVars, handlerVars
<1>4. CASE LoopTakesMessage
  <2> DEFINE m == sent[arrived + 1]
  <2>1. /\ arrived \in Nat /\ arrived < Len(sent) /\ arrived' = arrived + 1 /\ Arrives(m)
        /\ sent \in Seq({Text} \cup OfferNumbers)
    BY <1>4 DEF LoopTakesMessage, ChannelsType, SourceInv, OffersType, OfferNumbers
  <2>2. m \in {Text} \cup OfferNumbers
    BY <2>1
  <2>3. sent' = sent /\ OfferNumbers' = OfferNumbers
    BY <1>1 DEF sourceVars, OfferNumbers
  <2> HIDE DEF m
  <2>4. ChannelsType'
    <3>1. fileOffers' = fileOffers \/ (m \in OfferNumbers /\ fileOffers' = <<m>>)
      BY <2>1, <2>2 DEF Arrives
    <3> DEFINE N == OfferNumbers
    <3> HIDE DEF N
    <3>4. \A n \in N : <<n>> \in Seq(N) /\ Len(<<n>>) <= 1
      OBVIOUS
    <3>5. fileOffers \in Seq(N) /\ Len(fileOffers) <= 1
      BY DEF ChannelsType, N
    <3>2. fileOffers' \in Seq(OfferNumbers) /\ Len(fileOffers') <= 1
      BY <3>1, <3>4, <3>5 DEF N
    <3>3. arrived' \in 0 .. Len(sent)
      BY <2>1 DEF SourceInv, OffersType
    <3> QED BY <1>1, <2>3, <3>2, <3>3 DEF ChannelsType
  <2>5. BoardInv'
    BY <1>1, <2>1, Emptied DEF Arrives, jobVars, handlerVars
  <2> QED BY <1>2, <1>3, <2>4, <2>5
<1>5. CASE MessageLost
  <2>1. ChannelsType'
    BY <1>5 DEF MessageLost, boardVars, sourceVars, OfferNumbers, ChannelsType, SourceInv, OffersType
  <2>2. BoardInv'
    BY <1>2, <1>5, PasteUntouched DEF MessageLost, boardVars, handlerVars
  <2> QED BY <1>2, <1>3, <2>1, <2>2
<1>6. CASE OtherCopies
  <2>1. ChannelsType'
    BY <1>2, <1>6, PasteUntouched DEF OtherCopies
  <2>2. BoardInv'
    BY <1>1, <1>6, Emptied DEF OtherCopies, jobVars, handlerVars
  <2> QED BY <1>2, <1>3, <2>1, <2>2
<1> QED BY <1>4, <1>5, <1>6

\* The handler's steps.
LEMMA TakesOfferStep ==
  ASSUME Inv, NEW ok \in BOOLEAN, HandlerTakesOffer(ok)
  PROVE  Inv'
<1> USE DEF Inv
<1> DEFINE o == Head(fileOffers)
<1>1. /\ UNCHANGED <<sourceVars, arrived, presses, injecting, downloading, publishing, result, jobVars>>
      /\ fileOffers' = << >>
  BY DEF HandlerTakesOffer
<1>2. SourceInv' /\ Kept
  BY <1>1, LocalStep DEF jobVars
<1>3. JobInv' /\ ResultInv' /\ DownloadingInv' /\ StagedInv'
  BY <1>1, <1>2, PasteUntouched DEF jobVars
<1>4. ChannelsType'
  BY <1>1 DEF ChannelsType, sourceVars
<1>5. BoardInv'
  <2>1. CASE ~ ok
    BY <1>1, <2>1, Emptied DEF HandlerTakesOffer, jobVars
  <2>2. CASE ok
    <3>1. fileOffers # << >> /\ publishing = None /\ publishing' = None
          /\ board' = [kind |-> "marker", offer |-> o] /\ current' = o
      BY <2>2 DEF HandlerTakesOffer, OnBoard
    <3>2. o \in OfferNumbers /\ OfferNumbers' = OfferNumbers /\ o # None
      BY <1>1, <3>1, OfferFacts DEF ChannelsType, sourceVars, OfferNumbers
    <3> HIDE DEF o
    <3> QED BY <3>1, <3>2 DEF BoardInv, MarkerIsServed
  <2> QED BY <2>1, <2>2
<1> QED BY <1>2, <1>3, <1>4, <1>5

\* Paste of the current offer.
LEMMA PasteStarts ==
  ASSUME Inv, UNCHANGED sourceVars, UNCHANGED <<result, staged>>, Paste
  PROVE  JobInv' /\ DownloadingInv'
<1> USE DEF Inv
<1>1. /\ current \in OfferNumbers /\ downloading' = TRUE /\ ~ downloading
      /\ job' = [offer |-> current, phase |-> "start", file |-> None, version |-> None]
  BY DEF Paste, NoJob, BoardInv
<1>2. OfferNumbers' = OfferNumbers
  BY DEF sourceVars, OfferNumbers
<1>3. JobInv'
  BY <1>1, <1>2 DEF JobInv
<1>4. job' # NoJob /\ result' = << >>
  BY <1>1 DEF NoJob, DownloadingInv
<1> QED BY <1>1, <1>3, <1>4 DEF DownloadingInv

LEMMA PressStep ==
  ASSUME Inv, HandlerSeesPaste \/ Injects
  PROVE  Inv'
<1> USE DEF Inv
<1>1. /\ UNCHANGED <<sourceVars, arrived, board, fileOffers, current, publishing, result, staged>>
      /\ Paste \/ UNCHANGED <<downloading, job>>
  BY DEF HandlerSeesPaste, Injects
<1>2. SourceInv' /\ Kept
  BY <1>1, LocalStep
<1>3. BoardInv' /\ ResultInv' /\ StagedInv'
  BY <1>1, <1>2, PasteUntouched
<1>4. JobInv' /\ DownloadingInv'
  BY <1>1, <1>2, PasteStarts, PasteUntouched
<1>5. presses' \in Nat /\ injecting' \in Nat
  BY DEF HandlerSeesPaste, Injects, ChannelsType
<1>6. ChannelsType'
  BY <1>1, <1>5 DEF ChannelsType, sourceVars, OfferNumbers
<1> QED BY <1>2, <1>3, <1>4, <1>6

LEMMA TakesResultStep ==
  ASSUME Inv, HandlerTakesResult
  PROVE  Inv'
<1> USE DEF Inv
<1> DEFINE r == Head(result)
<1>1. /\ UNCHANGED <<sourceVars, arrived, boardVars, fileOffers, current, jobVars>>
      /\ result # << >> /\ result' = << >> /\ downloading' = FALSE
      /\ publishing' = IF r.ok /\ current = r.offer /\ MarkerMatches(r.offer) THEN r.offer ELSE None
  BY DEF HandlerTakesResult
<1>2. SourceInv' /\ Kept
  BY <1>1, LocalStep DEF jobVars
<1>3. ChannelsType' /\ JobInv' /\ StagedInv'
  BY <1>1, <1>2, PasteUntouched DEF jobVars, boardVars
<1>4. ResultInv'
  BY <1>1 DEF ResultInv
<1>5. DownloadingInv'
  BY <1>1 DEF DownloadingInv, jobVars
<1>6. BoardInv'
  <2>1. CASE publishing' = None
    BY <1>1, <2>1, Emptied DEF boardVars, jobVars
  <2>2. CASE publishing' # None
    <3>1. publishing' = r.offer /\ current = r.offer /\ Complete(r.offer)
      BY <1>1, <2>2 DEF ResultInv
    <3>2. PICK o \in OfferNumbers : o = current /\ publishing' = o /\ Complete(o)
      BY <2>2, <3>1 DEF BoardInv
    <3>3. OfferNumbers' = OfferNumbers /\ Complete(o)'
      BY <1>1, <3>2 DEF sourceVars, jobVars, OfferNumbers, Complete
    <3>4. board.kind = "files" => Complete(board.offer)'
      BY <1>1 DEF sourceVars, jobVars, boardVars, Complete, BoardInv
    <3> QED BY <1>1, <3>2, <3>3, <3>4 DEF BoardInv, MarkerIsServed, boardVars, Complete
  <2> QED BY <2>1, <2>2
<1> QED BY <1>2, <1>3, <1>4, <1>5, <1>6

LEMMA PublishesStep ==
  ASSUME Inv, NEW ok \in BOOLEAN, HandlerPublishes(ok)
  PROVE  Inv'
<1> USE DEF Inv
<1>1. /\ UNCHANGED <<sourceVars, arrived, presses, fileOffers, downloading, result, jobVars>>
      /\ publishing # None /\ publishing' = None /\ injecting' \in {injecting, injecting + 1}
  BY DEF HandlerPublishes
<1>2. SourceInv' /\ Kept
  BY <1>1, LocalStep DEF jobVars
<1>3. JobInv' /\ ResultInv' /\ DownloadingInv' /\ StagedInv'
  BY <1>1, <1>2, PasteUntouched DEF jobVars
<1>4. ChannelsType'
  BY <1>1 DEF ChannelsType, sourceVars, OfferNumbers
<1>5. BoardInv'
  <2>1. CASE ~ ok
    BY <1>1, <2>1, Emptied DEF HandlerPublishes, jobVars
  <2>2. CASE ok
    <3>1. board' = [kind |-> "files", offer |-> publishing] /\ current' = None
      BY <2>2 DEF HandlerPublishes, OnBoard
    <3>2. PICK o \in OfferNumbers : o = publishing /\ Complete(o)
      BY <1>1 DEF BoardInv
    <3>3. OfferNumbers' = OfferNumbers /\ Complete(o)' /\ o # None
      BY <1>1, <3>2, OfferFacts DEF sourceVars, jobVars, OfferNumbers, Complete
    <3> QED BY <1>1, <3>1, <3>2, <3>3 DEF BoardInv, MarkerIsServed, Complete
  <2> QED BY <2>1, <2>2
<1> QED BY <1>2, <1>3, <1>4, <1>5

-----------------------------------------------------------------------------
(* The steps of the download *)

\* A download that ends without success, or with its whole offer staged.
LEMMA EndsStep ==
  ASSUME Inv, NEW ok \in BOOLEAN, job # NoJob, ok => Complete(job.offer), JobEnds(ok),
         UNCHANGED <<sourceVars, arrived, boardVars, fileOffers, handlerVars, staged>>
  PROVE  Inv'
<1> USE DEF Inv
<1>1. SourceInv' /\ Kept
  BY LocalStep
<1>2. ChannelsType' /\ BoardInv' /\ StagedInv'
  BY <1>1, PasteUntouched DEF boardVars, handlerVars
<1>3. job.offer \in OfferNumbers /\ OfferNumbers' = OfferNumbers /\ result = << >>
  BY DEF JobInv, DownloadingInv, NoJob, sourceVars, OfferNumbers
<1>a. PICK r : r = [offer |-> job.offer, ok |-> ok]
  OBVIOUS
<1>4. job' = NoJob /\ result' = <<r>>
  BY <1>3, <1>a DEF JobEnds
<1>5. r \in [offer : OfferNumbers', ok : BOOLEAN] /\ r.ok = ok /\ r.offer = job.offer
  BY <1>3, <1>a
<1>6. JobInv'
  <2>1. None \in OfferNumbers' \cup {None}
    OBVIOUS
  <2> QED BY <1>4 DEF JobInv, NoJob
<1>7. ResultInv'
  <2>1. PICK o \in OfferNumbers : o = r.offer /\ (r.ok => Complete(o)')
    BY <1>3, <1>5 DEF Complete, sourceVars
  <2>2. result' \in Seq([offer : OfferNumbers', ok : BOOLEAN]) /\ Len(result') <= 1
        /\ Head(result') = r
    BY <1>4, <1>5
  <2> QED BY <1>3, <2>1, <2>2 DEF ResultInv, Complete
<1>8. DownloadingInv'
  <2>1. downloading' = downloading /\ downloading = TRUE
    BY DEF DownloadingInv, handlerVars
  <2>2. result' # << >>
    BY <1>4
  <2> QED BY <1>4, <2>1, <2>2 DEF DownloadingInv
<1> QED BY <1>1, <1>2, <1>6, <1>7, <1>8

\* A download that goes on with another file or phase.
LEMMA GoesOnStep ==
  ASSUME Inv, job # NoJob, JobInv', job'.phase # "none",
         UNCHANGED <<sourceVars, arrived, boardVars, fileOffers, handlerVars, result>>,
         Kept, StagedInv'
  PROVE  Inv'
<1> USE DEF Inv
<1>1. SourceInv'
  BY SourceStep
<1>2. ChannelsType' /\ BoardInv' /\ ResultInv'
  BY <1>1, PasteUntouched DEF boardVars, handlerVars
<1>3. DownloadingInv'
  <2>1. job' # NoJob /\ result = << >>
    BY DEF DownloadingInv, NoJob
  <2> QED BY <2>1 DEF DownloadingInv, handlerVars
<1> QED BY <1>1, <1>2, <1>3

LEMMA JobStep ==
  ASSUME Inv, job # NoJob, Job
  PROVE  Inv'
<1> USE DEF Inv
<1> DEFINE Local == UNCHANGED <<sourceVars, arrived, boardVars, fileOffers, handlerVars>>
<1>0. ASSUME Local PROVE OfferNumbers' = OfferNumbers /\ offers' = offers
  BY <1>0 DEF sourceVars, OfferNumbers
<1>1. ASSUME NEW f \in Files, JobAsks(f) PROVE Inv'
  <2>1. Local /\ UNCHANGED <<result, staged>> /\ job.phase = "next" /\ f \in DOMAIN offers[job.offer]
        /\ job' = [job EXCEPT !.phase = "ask", !.file = f]
    BY <1>1 DEF JobAsks, Missing, Wanted
  <2>2. JobInv'
    BY <1>0, <2>1 DEF JobInv
  <2>3. job'.phase # "none"
    BY <2>1 DEF JobInv
  <2> QED BY <2>1, <2>2, <2>3, LocalStep, PasteUntouched, GoesOnStep
<1>2. CASE JobStarts
  <2>1. CASE Valid(job.offer)
    <3>1. Local /\ UNCHANGED <<result, staged>> /\ job' = [job EXCEPT !.phase = "next"]
          /\ job.phase = "start"
      BY <1>2, <2>1 DEF JobStarts
    <3>2. JobInv' /\ job'.phase # "none"
      BY <1>0, <3>1 DEF JobInv
    <3> QED BY <3>1, <3>2, LocalStep, PasteUntouched, GoesOnStep
  <2>2. CASE ~ Valid(job.offer)
    BY <1>2, <2>2, EndsStep DEF JobStarts
  <2> QED BY <2>1, <2>2
<1>3. CASE JobServed
  <2>1. Local /\ UNCHANGED <<result, staged>> /\ job.phase = "ask"
        /\ version[job.file] = offers[job.offer][job.file]
        /\ job' = [job EXCEPT !.phase = "copy", !.version = version[job.file]]
    BY <1>3 DEF JobServed, Opens
  <2>2. job.offer \in OfferNumbers /\ job.file \in DOMAIN offers[job.offer]
    BY <2>1 DEF JobInv
  <2>3. version[job.file] \in Versions
    BY <2>1, <2>2, OfferFacts
  <2>4. JobInv' /\ job'.phase # "none"
    BY <1>0, <2>1, <2>2, <2>3 DEF JobInv
  <2> QED BY <2>1, <2>4, LocalStep, PasteUntouched, GoesOnStep
<1>4. CASE JobFails
  BY <1>4, EndsStep DEF JobFails
<1>5. CASE JobStores
  <2> DEFINE s == <<job.offer, job.file, job.version>>
  <2>1. Local /\ UNCHANGED result /\ job.phase = "copy" /\ staged' = staged \cup {s}
        /\ job' = [job EXCEPT !.phase = "next", !.file = None, !.version = None]
    BY <1>5 DEF JobStores
  <2>2. /\ job.offer \in OfferNumbers /\ job.file \in DOMAIN offers[job.offer]
        /\ job.version = offers[job.offer][job.file]
    BY <2>1 DEF JobInv
  <2>3. JobInv' /\ job'.phase # "none"
    BY <1>0, <2>1, <2>2 DEF JobInv
  <2>4. Kept
    BY <2>1, LocalStep
  <2>5. StagedInv'
    <3>1. s \in OfferNumbers \X Files \X Versions
      BY <2>2, OfferFacts
    <3>2. s[1] = job.offer /\ s[2] = job.file /\ s[3] = job.version
      OBVIOUS
    <3> HIDE DEF s
    <3> QED BY <1>0, <2>1, <2>2, <3>1, <3>2 DEF StagedInv
  <2> QED BY <2>1, <2>3, <2>4, <2>5, GoesOnStep
<1>6. CASE JobSucceeds
  <2>1. job.phase = "next" /\ Missing = {} /\ JobEnds(TRUE) /\ Local /\ UNCHANGED staged
    BY <1>6 DEF JobSucceeds
  <2>2. job.offer \in OfferNumbers
    BY <2>1 DEF JobInv
  <2>3. ASSUME NEW f \in DOMAIN offers[job.offer]
        PROVE  <<job.offer, f, offers[job.offer][f]>> \in staged
    <3>1. PICK v \in Versions : <<job.offer, f, v>> \in staged
      BY <2>1 DEF Missing, Wanted, Staged, Versions
    <3>2. v = offers[job.offer][f]
      BY <3>1 DEF StagedInv
    <3> QED BY <3>1, <3>2
  <2>4. Complete(job.offer)
    BY <2>3 DEF Complete
  <2> QED BY <2>1, <2>4, EndsStep
<1> QED BY <1>1, <1>2, <1>3, <1>4, <1>5, <1>6 DEF Job

-----------------------------------------------------------------------------
(* The inductive invariant and what follows from it *)

LEMMA InitPaste == Init => Inv
<1> SUFFICES ASSUME Init PROVE Inv
  OBVIOUS
<1> USE DEF Init
<1>1. SourceInv
  BY InitSource
<1>2. ChannelsType
  BY <1>1 DEF ChannelsType, SourceInv, OffersType
<1>3. BoardInv
  BY DEF BoardInv, MarkerIsServed
<1>4. JobInv
  <2>1. None \in OfferNumbers \cup {None}
    OBVIOUS
  <2> QED BY DEF JobInv, NoJob
<1>5. ResultInv /\ StagedInv
  BY DEF ResultInv, StagedInv
<1>6. DownloadingInv
  <2>1. downloading = FALSE /\ job = NoJob /\ result = << >>
    OBVIOUS
  <2> QED BY ONLY <2>1 DEF DownloadingInv
<1> QED BY <1>1, <1>2, <1>3, <1>4, <1>5, <1>6 DEF Inv

LEMMA InvStep == Inv /\ [Next]_vars => Inv'
<1> SUFFICES ASSUME Inv, [Next]_vars PROVE Inv'
  OBVIOUS
<1>1. CASE SourceNext /\ UNCHANGED pasteVars
  <2>1. SourceInv' /\ Kept
    BY <1>1, SourceStep, SourceKeeps DEF Inv, Kept, pasteVars, jobVars
  <2> QED BY <1>1, <2>1, PasteUntouched DEF Inv, pasteVars, boardVars, handlerVars, jobVars
<1>2. CASE UNCHANGED vars
  <2>1. SourceInv' /\ Kept
    BY <1>2, LocalStep DEF Inv, vars, pasteVars, jobVars
  <2> QED BY <1>2, <2>1, PasteUntouched DEF Inv, vars, pasteVars, boardVars, handlerVars, jobVars
<1>3. CASE LoopTakesMessage \/ MessageLost \/ OtherCopies
  BY <1>3, LoopStep
<1>4. CASE Handler
  BY <1>4, TakesOfferStep, PublishesStep, TakesResultStep DEF Handler
<1>5. CASE HandlerSeesPaste \/ Injects
  BY <1>5, PressStep
<1>6. CASE job # NoJob /\ Job
  BY <1>6, JobStep
<1> QED BY <1>1, <1>2, <1>3, <1>4, <1>5, <1>6 DEF Next

LEMMA Invariance == Safety => []Inv
  BY InitPaste, InvStep, PTL DEF Safety

\* The offers, the handler's record of them, the download's progress and the
\* staged files always fit together: one download at a time, with at most one
\* result in its channel, and the flag tells which it is.
THEOREM TypeCorrect == Safety => []TypeOK
<1>1. Inv => TypeOK
  <2> SUFFICES ASSUME Inv PROVE TypeOK
    OBVIOUS
  <2>1. \A o \in OfferNumbers : offers[o] \in [DOMAIN offers[o] -> 0 .. MaxEdits]
    BY OfferFacts DEF Inv, Versions
  <2>2. SourceTypeOK
    BY <2>1 DEF Inv, SourceInv, ClipType, WatchersType, OffersType, SourceTypeOK, Copied, OfferNumbers
  <2>3. staged \subseteq OfferNumbers \X Files \X Versions
    BY DEF Inv, StagedInv
  <2>4. downloading = (job # NoJob \/ result # << >>)
    BY DEF Inv, DownloadingInv
  <2> QED BY <2>2, <2>3, <2>4 DEF Inv, ChannelsType, BoardInv, JobInv, ResultInv, TypeOK, OfferNumbers
<1> QED BY <1>1, Invariance, PTL

\* runFilePasteHandler puts on the clipboard only files that receiveFileOffer
\* fetched whole and unchanged, however often the download broke off and was
\* resumed, whatever happened to the files and to the clipboard meanwhile.
THEOREM PublishesOnlyOffered == Safety => []PublishedIsOffered
<1>1. Inv => PublishedIsOffered
  <2> SUFFICES ASSUME Inv, board.kind = "files", NEW f \in DOMAIN offers[board.offer]
               PROVE  {v \in Versions : <<board.offer, f, v>> \in staged} = {offers[board.offer][f]}
    BY DEF PublishedIsOffered
  <2>1. board.offer \in OfferNumbers /\ Complete(board.offer)
    BY DEF Inv, BoardInv
  <2>2. <<board.offer, f, offers[board.offer][f]>> \in staged /\ offers[board.offer][f] \in Versions
    BY <2>1, OfferFacts DEF Complete, Inv
  <2>3. \A v \in Versions : <<board.offer, f, v>> \in staged => v = offers[board.offer][f]
    BY DEF Inv, StagedInv
  <2> QED BY <2>2, <2>3
<1> QED BY <1>1, Invariance, PTL

\* A marker on the clipboard is that of the offer the handler serves: a paste
\* never fetches the files of another offer than the one the clipboard shows.
THEOREM MarkersAreServed == Safety => []MarkerIsServed
<1>1. Inv => MarkerIsServed
  BY DEF Inv, BoardInv
<1> QED BY <1>1, Invariance, PTL

-----------------------------------------------------------------------------
(* Induction over numbers *)

\* Every set of numbers has a least one.
LEMMA LeastNumber ==
  ASSUME NEW T \in SUBSET Nat, T # {}
  PROVE  \E n \in T : \A m \in T : n <= m
<1>1. PICK n \in T : \A m \in T : <<m, n>> \notin OpToRel(<, Nat)
  <2>1. IsWellFoundedOn(OpToRel(<, Nat), Nat)
    BY NatLessThanWellFounded
  <2> QED BY <2>1, WFMin
<1>2. \A m \in T : ~ (m < n)
  BY <1>1 DEF OpToRel
<1>3. \A m \in T : m \in Nat
  OBVIOUS
<1> QED BY <1>2, <1>3

\* Induction up to a bound, by least counterexample; a function defined by
\* recursion up to a bound exists.
LEMMA UptoInduction ==
  ASSUME NEW L \in Nat, NEW P, 0 \in P, \A i \in 1 .. L : i - 1 \in P => i \in P
  PROVE  0 .. L \subseteq P
<1> DEFINE T == {i \in 0 .. L : i \notin P}
<1>1. CASE T = {}
  BY <1>1
<1>2. CASE T # {}
  <2>1. T \in SUBSET Nat
    OBVIOUS
  <2>2. PICK n \in T : \A m \in T : n <= m
    <3> HIDE DEF T
    <3> QED BY <1>2, <2>1, LeastNumber
  <2>3. n \in 1 .. L /\ n - 1 \notin T
    BY <2>2
  <2>4. n - 1 \in P
    BY <2>3
  <2> QED BY <2>2, <2>3, <2>4
<1> QED BY <1>1, <1>2

\* g is the function defined by recursion over 0 .. L.
Counts(g, L, base, h) == g[0] = base /\ \A i \in 1 .. L : g[i] = h[<<i, g[i - 1]>>]

LEMMA UptoRecursion ==
  ASSUME NEW L \in Nat, NEW A, NEW base \in A, NEW h \in [(1 .. L) \X A -> A]
  PROVE  \E g \in [0 .. L -> A] : Counts(g, L, base, h)
<1> DEFINE P == {n \in 0 .. L : \E g \in [0 .. n -> A] : Counts(g, n, base, h)}
<1>1. 0 \in P
  <2> DEFINE g0 == [i \in 0 .. 0 |-> base]
  <2>1. g0 \in [0 .. 0 -> A] /\ Counts(g0, 0, base, h)
    BY DEF Counts
  <2> HIDE DEF g0
  <2> QED BY <2>1
<1>2. ASSUME NEW n \in 1 .. L, n - 1 \in P PROVE n \in P
  <2>1. PICK g \in [0 .. n - 1 -> A] : Counts(g, n - 1, base, h)
    BY <1>2
  <2> DEFINE k == [i \in 0 .. n |-> IF i = n THEN h[<<n, g[n - 1]>>] ELSE g[i]]
  <2>2. h[<<n, g[n - 1]>>] \in A
    BY <2>1
  <2>3. k \in [0 .. n -> A]
    BY <2>2
  <2>4. Counts(k, n, base, h)
    <3>1. k[0] = base /\ \A i \in 0 .. n - 1 : k[i] = g[i]
      BY <2>1 DEF Counts
    <3>2. k[n] = h[<<n, g[n - 1]>>] /\ n - 1 \in 0 .. n - 1
      OBVIOUS
    <3>3. \A i \in 1 .. n - 1 : g[i] = h[<<i, g[i - 1]>>] /\ i \in 0 .. n - 1 /\ i - 1 \in 0 .. n - 1
      BY <2>1 DEF Counts
    <3> HIDE DEF k
    <3>4. \A i \in 1 .. n : k[i] = h[<<i, k[i - 1]>>]
      BY <3>1, <3>2, <3>3, SMTT(20)
    <3> QED BY <3>1, <3>4 DEF Counts
  <2> HIDE DEF k
  <2> QED BY <2>3, <2>4
<1>3. 0 .. L \subseteq P
  <2> HIDE DEF P
  <2> QED BY <1>1, <1>2, UptoInduction
<1>4. L \in P
  BY <1>3
<1> QED BY <1>4

-----------------------------------------------------------------------------
(* CF_HDROP: where the words of each path are *)

Words == Seq(Nat)

LEMMA WordsUptoIs ==
  ASSUME NEW paths \in Seq(Paths)
  PROVE  /\ WordsUpto(paths)[0] = << >>
         /\ \A n \in 0 .. Len(paths) : WordsUpto(paths)[n] \in Words
         /\ \A n \in 1 .. Len(paths) : WordsUpto(paths)[n] = WordsUpto(paths)[n - 1] \o paths[n] \o <<0>>
<1> DEFINE L == Len(paths)
           h == [p \in (1 .. L) \X Words |-> p[2] \o paths[p[1]] \o <<0>>]
           Body(g, n) == IF n = 0 THEN << >> ELSE g[n - 1] \o paths[n] \o <<0>>
           w == CHOOSE g : g = [n \in 0 .. L |-> Body(g, n)]
<1>1. L \in Nat /\ << >> \in Words
  BY DEF Words
<1>2. ASSUME NEW n \in 1 .. L, NEW v \in Words PROVE v \o paths[n] \o <<0>> \in Words
  <2>1. paths[n] \in Seq(Nat) /\ <<0>> \in Seq(Nat)
    <3>1. paths[n] \in Seq(Nat \ {0})
      BY DEF Paths
    <3>2. PICK p \in Seq(Nat \ {0}) : p = paths[n]
      BY <3>1
    <3>3. p \in Seq(Nat)
      OBVIOUS
    <3> QED BY <3>2, <3>3
  <2>2. PICK p, z \in Seq(Nat) : p = paths[n] /\ z = <<0>>
    BY <2>1
  <2>3. v \o p \o z \in Seq(Nat)
    BY DEF Words
  <2> QED BY <2>2, <2>3 DEF Words
<1>3. h \in [(1 .. L) \X Words -> Words]
  BY <1>2
<1>4. PICK g \in [0 .. L -> Words] : Counts(g, L, << >>, h)
  <2> HIDE DEF h
  <2> QED BY <1>1, <1>3, UptoRecursion
<1>5. \A n \in 0 .. L : g[n] = Body(g, n)
  <2> SUFFICES ASSUME NEW n \in 0 .. L PROVE g[n] = Body(g, n)
    OBVIOUS
  <2>1. CASE n = 0
    BY <1>4, <2>1 DEF Counts
  <2>2. CASE n # 0
    <3>1. n \in 1 .. L /\ n - 1 \in 0 .. L
      BY <2>2
    <3>2. PICK v \in Words : v = g[n - 1]
      BY <3>1
    <3>3. h[<<n, v>>] = v \o paths[n] \o <<0>>
      BY <3>1
    <3>4. g[n] = h[<<n, v>>]
      <4> HIDE DEF h
      <4> QED BY <1>4, <3>1, <3>2 DEF Counts
    <3> HIDE DEF h
    <3> QED BY <2>2, <3>2, <3>3, <3>4
  <2> QED BY <2>1, <2>2
<1>6. g = [n \in 0 .. L |-> Body(g, n)]
  <2> HIDE DEF Body
  <2> QED BY <1>5
<1>7. w = [n \in 0 .. L |-> Body(w, n)]
  <2> HIDE DEF Body
  <2> QED BY <1>6
<1>8. WordsUpto(paths) = w
  BY DEF WordsUpto
<1>9. \A n \in 0 .. L : w[n] = Body(w, n)
  <2> HIDE DEF Body, w
  <2> QED BY <1>7
<1> HIDE DEF w
<1>10. w[0] = << >> /\ \A n \in 1 .. L : w[n] = w[n - 1] \o paths[n] \o <<0>>
  <2>1. w[0] = Body(w, 0)
    <3> HIDE DEF Body
    <3> QED BY <1>1, <1>9
  <2>2. ASSUME NEW n \in 1 .. L PROVE w[n] = w[n - 1] \o paths[n] \o <<0>>
    <3>1. w[n] = Body(w, n) /\ n # 0
      <4> HIDE DEF Body
      <4> QED BY <1>9
    <3> QED BY <3>1
  <2> QED BY <2>1, <2>2
<1>11. 0 .. L \subseteq {n \in 0 .. L : w[n] \in Words}
  <2> DEFINE P == {n \in 0 .. L : w[n] \in Words}
  <2>1. 0 \in P
    BY <1>1, <1>10
  <2>2. ASSUME NEW n \in 1 .. L, n - 1 \in P PROVE n \in P
    <3>1. PICK v \in Words : v = w[n - 1]
      BY <2>2
    <3>2. v \o paths[n] \o <<0>> \in Words
      BY <1>2
    <3> QED BY <1>10, <3>1, <3>2
  <2> HIDE DEF P
  <2>3. 0 .. L \subseteq P
    BY <1>1, <2>1, <2>2, UptoInduction
  <2> QED BY <2>3 DEF P
<1> QED BY <1>8, <1>10, <1>11

\* Where the n-th path ends, its zero included.
End(paths, n) == Len(WordsUpto(paths)[n])

\* A path and its zero follow what is there.
LEMMA OnePathMore ==
  ASSUME NEW paths \in Seq(Paths), NEW n \in 1 .. Len(paths)
  PROVE  /\ Len(paths[n]) \in Nat /\ Len(paths[n]) > 0 /\ End(paths, n - 1) \in Nat
         /\ End(paths, n) = End(paths, n - 1) + Len(paths[n]) + 1
         /\ \A j \in 1 .. End(paths, n - 1) : WordsUpto(paths)[n][j] = WordsUpto(paths)[n - 1][j]
         /\ \A j \in 1 .. Len(paths[n]) :
              /\ WordsUpto(paths)[n][End(paths, n - 1) + j] = paths[n][j]
              /\ paths[n][j] \in Nat \ {0}
         /\ WordsUpto(paths)[n][End(paths, n)] = 0
<1>1. PICK p \in Seq(Nat \ {0}) : p = paths[n] /\ p # << >>
  BY DEF Paths
<1>2. n - 1 \in 0 .. Len(paths)
  OBVIOUS
<1>3. PICK v \in Seq(Nat) : v = WordsUpto(paths)[n - 1]
  BY <1>2, WordsUptoIs DEF Words
<1>4. WordsUpto(paths)[n] = v \o p \o <<0>>
  BY <1>1, <1>3, WordsUptoIs
<1>5. Len(p) \in Nat /\ Len(p) > 0 /\ Len(v) \in Nat
  BY <1>1
<1>7. p \in Seq(Nat)
  OBVIOUS
<1>6. PICK q \in Seq(Nat) : q = v \o p
  <2>1. v \o p \in Seq(Nat)
    BY <1>7
  <2> QED BY <2>1
<1>8. Len(q) = Len(v) + Len(p)
  BY <1>6, <1>7
<1>9. \A j \in 1 .. Len(v) : q[j] = v[j]
  BY <1>6, <1>7
<1>10. \A j \in 1 .. Len(p) : q[Len(v) + j] = p[j]
  BY <1>6, <1>7
<1>11. PICK z : z = q \o <<0>>
  OBVIOUS
<1>12. Len(z) = Len(q) + 1 /\ z[Len(q) + 1] = 0 /\ \A j \in 1 .. Len(q) : z[j] = q[j]
  BY <1>11
<1>13. \A j \in 1 .. Len(p) : p[j] \in Nat \ {0}
  OBVIOUS
<1>14. WordsUpto(paths)[n] = z /\ End(paths, n) = Len(z) /\ End(paths, n - 1) = Len(v)
  BY <1>3, <1>4, <1>6, <1>11 DEF End
<1>15. End(paths, n) = End(paths, n - 1) + Len(paths[n]) + 1
  BY <1>1, <1>8, <1>12, <1>14
<1>16. \A j \in 1 .. Len(v) : z[j] = v[j]
  BY <1>5, <1>8, <1>9, <1>12
<1>17. \A j \in 1 .. Len(p) : z[Len(v) + j] = p[j]
  BY <1>5, <1>8, <1>10, <1>12, SMTT(20)
<1>18. z[Len(z)] = 0
  BY <1>12
<1>19. Len(paths[n]) \in Nat /\ Len(paths[n]) > 0 /\ End(paths, n - 1) \in Nat
  BY <1>1, <1>5, <1>14
<1>20. \A j \in 1 .. Len(paths[n]) :
         /\ WordsUpto(paths)[n][End(paths, n - 1) + j] = paths[n][j]
         /\ paths[n][j] \in Nat \ {0}
  BY <1>1, <1>13, <1>14, <1>17
<1>21. \A j \in 1 .. End(paths, n - 1) : WordsUpto(paths)[n][j] = WordsUpto(paths)[n - 1][j]
  BY <1>3, <1>14, <1>16
<1>22. WordsUpto(paths)[n][End(paths, n)] = 0
  BY <1>14, <1>18
<1> QED BY <1>15, <1>19, <1>20, <1>21, <1>22

\* All paths keep their places.
LEMMA EarlierPaths ==
  ASSUME NEW paths \in Seq(Paths)
  PROVE  \A m \in 0 .. Len(paths) : \A n \in 0 .. m :
           /\ End(paths, n) \in Nat /\ End(paths, m) \in Nat /\ End(paths, n) <= End(paths, m)
           /\ \A j \in 1 .. End(paths, n) : WordsUpto(paths)[m][j] = WordsUpto(paths)[n][j]
<1> DEFINE InPlace(m, n) == /\ End(paths, n) <= End(paths, m)
                         /\ \A j \in 1 .. End(paths, n) : WordsUpto(paths)[m][j] = WordsUpto(paths)[n][j]
           P == {m \in 0 .. Len(paths) : \A n \in 0 .. m : InPlace(m, n)}
<1>1. \A n \in 0 .. Len(paths) : End(paths, n) \in Nat
  <2> SUFFICES ASSUME NEW n \in 0 .. Len(paths) PROVE End(paths, n) \in Nat
    OBVIOUS
  <2>1. PICK v \in Seq(Nat) : v = WordsUpto(paths)[n]
    BY WordsUptoIs DEF Words
  <2> QED BY <2>1 DEF End
<1>2. 0 \in P
  BY <1>1
<1>3. ASSUME NEW m \in 1 .. Len(paths), m - 1 \in P PROVE m \in P
  <2>1. InPlace(m, m - 1)
    BY <1>1, OnePathMore
  <2>2. \A n \in 0 .. m - 1 : InPlace(m - 1, n)
    BY <1>3
  <2>3. ASSUME NEW n \in 0 .. m PROVE InPlace(m, n)
    <3>1. CASE n = m
      BY <1>1, <3>1
    <3>2. CASE n # m
      <4>1. n \in 0 .. m - 1 /\ m - 1 \in 0 .. Len(paths)
        BY <3>2
      <4>2. InPlace(m - 1, n)
        BY <2>2, <4>1
      <4> QED BY <1>1, <2>1, <4>1, <4>2
    <3> QED BY <3>1, <3>2
  <2> HIDE DEF InPlace
  <2> QED BY <2>3
<1>4. 0 .. Len(paths) \subseteq P
  <2>1. Len(paths) \in Nat
    OBVIOUS
  <2> HIDE DEF P
  <2> QED BY <1>2, <1>3, <2>1, UptoInduction
<1>5. ASSUME NEW m \in 0 .. Len(paths), NEW n \in 0 .. m PROVE InPlace(m, n) /\ n \in 0 .. Len(paths)
  <2>1. m \in P
    BY <1>4
  <2> QED BY <2>1
<1> QED BY <1>1, <1>5

AllWords(paths) == WordsUpto(paths)[Len(paths)] \o <<0>>

\* The words of the list, all of them or the first ones.
Begins(words, paths) ==
  /\ words \in Words /\ Len(words) <= Len(AllWords(paths))
  /\ \A j \in 1 .. Len(words) : words[j] = AllWords(paths)[j]

LEMMA ListLayout ==
  ASSUME NEW paths \in Seq(Paths)
  PROVE  /\ AllWords(paths) \in Words /\ End(paths, Len(paths)) \in Nat
         /\ Len(AllWords(paths)) = End(paths, Len(paths)) + 1
         /\ AllWords(paths)[End(paths, Len(paths)) + 1] = 0
         /\ \A n \in 1 .. Len(paths) :
              /\ \A j \in 1 .. Len(paths[n]) : AllWords(paths)[End(paths, n - 1) + j] = paths[n][j]
              /\ AllWords(paths)[End(paths, n)] = 0
              /\ End(paths, n) <= End(paths, Len(paths))
<1>1. PICK N \in Nat : N = Len(paths)
  OBVIOUS
<1>2. PICK v \in Seq(Nat) : v = WordsUpto(paths)[N]
  <2>1. N \in 0 .. Len(paths)
    BY <1>1
  <2> QED BY <2>1, WordsUptoIs DEF Words
<1>3. PICK all : all = v \o <<0>>
  OBVIOUS
<1>4. all = AllWords(paths) /\ Len(v) = End(paths, N)
  BY <1>1, <1>2, <1>3 DEF AllWords, End
<1>5. /\ all \in Seq(Nat) /\ Len(all) = Len(v) + 1 /\ all[Len(v) + 1] = 0 /\ Len(v) \in Nat
      /\ \A j \in 1 .. Len(v) : all[j] = v[j]
  BY <1>3
<1>6. ASSUME NEW n \in 1 .. N
      PROVE  /\ \A j \in 1 .. Len(paths[n]) : all[End(paths, n - 1) + j] = paths[n][j]
             /\ all[End(paths, n)] = 0
             /\ End(paths, n) <= Len(v)
  <2>1. /\ End(paths, n) \in Nat /\ End(paths, n) <= Len(v)
        /\ \A j \in 1 .. End(paths, n) : v[j] = WordsUpto(paths)[n][j]
    BY <1>1, <1>2, <1>4, EarlierPaths, SMTT(20)
  <2>2. \A j \in 1 .. End(paths, n) : all[j] = WordsUpto(paths)[n][j]
    <3>1. \A j \in 1 .. End(paths, n) : j \in 1 .. Len(v)
      BY <1>5, <2>1
    <3> QED BY <1>5, <2>1, <3>1
  <2>3. PICK p : p = paths[n]
    OBVIOUS
  <2>4. /\ Len(p) \in Nat /\ End(paths, n - 1) \in Nat /\ End(paths, n) = End(paths, n - 1) + Len(p) + 1
        /\ \A j \in 1 .. Len(p) : WordsUpto(paths)[n][End(paths, n - 1) + j] = p[j]
        /\ WordsUpto(paths)[n][End(paths, n)] = 0
    BY <1>1, <2>3, OnePathMore
  <2>5. \A j \in 1 .. Len(p) : all[End(paths, n - 1) + j] = p[j]
    <3>1. PICK s \in Nat : s = End(paths, n - 1)
      BY <2>4
    <3>2. PICK l \in Nat, e \in Nat : l = Len(p) /\ e = End(paths, n)
      BY <2>1, <2>4
    <3>3. e = s + l + 1
      BY <2>4, <3>1, <3>2
    <3>4. \A j \in 1 .. l : s + j \in 1 .. e
      BY <3>2, <3>3
    <3> QED BY <2>2, <2>4, <3>1, <3>2, <3>4
  <2>6. all[End(paths, n)] = 0
    <3>1. PICK s \in Nat : s = End(paths, n - 1)
      BY <2>4
    <3>2. End(paths, n) \in 1 .. End(paths, n)
      BY <2>1, <2>4, <3>1
    <3> QED BY <2>2, <2>4, <3>2
  <2> QED BY <2>1, <2>3, <2>5, <2>6
<1> QED BY <1>1, <1>4, <1>5, <1>6 DEF Words

-----------------------------------------------------------------------------
(* CF_HDROP: decodeHDrop's loop *)

Scans == [start : Nat \ {0}, paths : Seq(Words), status : {"open", "terminated", "refused"}]

LEMMA ReadWordType ==
  ASSUME NEW words \in Words, NEW i \in 1 .. Len(words), NEW acc \in Scans
  PROVE  ReadWord(acc, words, i) \in Scans
<1>1. PICK start \in Nat \ {0}, paths \in Seq(Words), status \in {"open", "terminated", "refused"} :
        acc = [start |-> start, paths |-> paths, status |-> status]
  BY DEF Scans
<1>2. SubSeq(words, start, i - 1) \in Words
  BY SubSeqProperties DEF Words
<1>3. PICK path \in Words : path = SubSeq(words, start, i - 1)
  BY <1>2
<1>4. Append(paths, path) \in Seq(Words)
  OBVIOUS
<1>5. [start |-> start, paths |-> paths, status |-> "terminated"] \in Scans
  BY DEF Scans
<1>6. [start |-> start, paths |-> paths, status |-> "refused"] \in Scans
  BY DEF Scans
<1>7. i + 1 \in Nat \ {0}
  OBVIOUS
<1>8. PICK more \in Seq(Words) : more = Append(paths, path)
  BY <1>4
<1>9. [start |-> i + 1, paths |-> more, status |-> status] \in Scans
  BY <1>7 DEF Scans
<1>10. [acc EXCEPT !.status = "terminated"] = [start |-> start, paths |-> paths, status |-> "terminated"]
  BY <1>1
<1>11. [acc EXCEPT !.status = "refused"] = [start |-> start, paths |-> paths, status |-> "refused"]
  BY <1>1
<1>12. [acc EXCEPT !.paths = Append(@, SubSeq(words, acc.start, i - 1)), !.start = i + 1] =
         [start |-> i + 1, paths |-> more, status |-> status]
  <2>1. Append(acc.paths, SubSeq(words, acc.start, i - 1)) = more
    BY <1>1, <1>3, <1>8
  <2>2. PICK next : next = i + 1
    OBVIOUS
  <2>3. [acc EXCEPT !.paths = more, !.start = next] = [start |-> next, paths |-> more, status |-> status]
    <3>1. PICK b : b = [acc EXCEPT !.paths = more]
      OBVIOUS
    <3>2. b = [start |-> start, paths |-> more, status |-> status]
      BY <1>1, <3>1
    <3>3. [b EXCEPT !.start = next] = [start |-> next, paths |-> more, status |-> status]
      BY <3>2
    <3>4. [acc EXCEPT !.paths = more, !.start = next] = [[acc EXCEPT !.paths = more] EXCEPT !.start = next]
      OBVIOUS
    <3> QED BY <3>1, <3>3, <3>4
  <2> QED BY <2>1, <2>2, <2>3
<1> QED BY <1>5, <1>6, <1>9, <1>10, <1>11, <1>12 DEF ReadWord

LEMMA ReadUptoIs ==
  ASSUME NEW words \in Words
  PROVE  /\ ReadUpto(words)[0] = NothingRead
         /\ \A i \in 0 .. Len(words) : ReadUpto(words)[i] \in Scans
         /\ \A i \in 1 .. Len(words) : ReadUpto(words)[i] = ReadWord(ReadUpto(words)[i - 1], words, i)
<1> DEFINE L == Len(words)
           h == [p \in (1 .. L) \X Scans |-> ReadWord(p[2], words, p[1])]
           Body(g, i) == IF i = 0 THEN NothingRead ELSE ReadWord(g[i - 1], words, i)
           r == CHOOSE g : g = [i \in 0 .. L |-> Body(g, i)]
<1>1. L \in Nat
  BY DEF Words
<1>2. NothingRead \in Scans
  <2>1. << >> \in Seq(Words)
    OBVIOUS
  <2> QED BY <2>1 DEF NothingRead, Scans
<1>3. h \in [(1 .. L) \X Scans -> Scans]
  BY ReadWordType
<1>4. PICK g \in [0 .. L -> Scans] : Counts(g, L, NothingRead, h)
  <2> HIDE DEF h
  <2> QED BY <1>1, <1>2, <1>3, UptoRecursion
<1>5. \A i \in 0 .. L : g[i] = Body(g, i)
  <2> SUFFICES ASSUME NEW i \in 0 .. L PROVE g[i] = Body(g, i)
    OBVIOUS
  <2>1. CASE i = 0
    BY <1>4, <2>1 DEF Counts
  <2>2. CASE i # 0
    <3>1. i \in 1 .. L /\ i - 1 \in 0 .. L
      BY <1>1, <2>2
    <3>2. PICK acc \in Scans : acc = g[i - 1]
      BY <3>1
    <3>3. h[<<i, acc>>] = ReadWord(acc, words, i)
      BY <3>1
    <3>4. g[i] = h[<<i, acc>>]
      <4> HIDE DEF h
      <4> QED BY <1>4, <3>1, <3>2 DEF Counts
    <3> HIDE DEF h
    <3> QED BY <2>2, <3>2, <3>3, <3>4
  <2> QED BY <2>1, <2>2
<1>6. g = [i \in 0 .. L |-> Body(g, i)]
  <2> HIDE DEF Body
  <2> QED BY <1>5
<1>7. r = [i \in 0 .. L |-> Body(r, i)]
  <2> HIDE DEF Body
  <2> QED BY <1>6
<1>8. ReadUpto(words) = r
  BY DEF ReadUpto
<1>9. \A i \in 0 .. L : r[i] = Body(r, i)
  <2> HIDE DEF Body, r
  <2> QED BY <1>7
<1> HIDE DEF r
<1>10. r[0] = NothingRead /\ \A i \in 1 .. L : r[i] = ReadWord(r[i - 1], words, i)
  <2>1. r[0] = Body(r, 0)
    <3> HIDE DEF Body
    <3> QED BY <1>1, <1>9
  <2>2. ASSUME NEW i \in 1 .. L PROVE r[i] = ReadWord(r[i - 1], words, i)
    <3>1. r[i] = Body(r, i) /\ i # 0
      <4> HIDE DEF Body
      <4> QED BY <1>1, <1>9
    <3> QED BY <3>1
  <2> QED BY <2>1, <2>2
<1>11. 0 .. L \subseteq {i \in 0 .. L : r[i] \in Scans}
  <2> DEFINE P == {i \in 0 .. L : r[i] \in Scans}
  <2>1. 0 \in P
    BY <1>1, <1>2, <1>10
  <2>2. ASSUME NEW i \in 1 .. L, i - 1 \in P PROVE i \in P
    BY <1>10, <2>2, ReadWordType
  <2> HIDE DEF P
  <2>3. 0 .. L \subseteq P
    BY <1>1, <2>1, <2>2, UptoInduction
  <2> QED BY <2>3 DEF P
<1> QED BY <1>8, <1>10, <1>11

\* After i words the first n paths have been read, or are too many.
Reached(acc, paths, i, n) ==
  /\ End(paths, n) <= i
  /\ n < Len(paths) => i < End(paths, n + 1)
  /\ IF n <= MaxFileEntries
       THEN acc = [start |-> End(paths, n) + 1, paths |-> SubSeq(paths, 1, n), status |-> "open"]
       ELSE acc.status = "refused"

\* A word of a path changes nothing, its zero completes it.
LEMMA NextWord ==
  ASSUME NEW paths \in Seq(Paths), NEW words, Begins(words, paths), NEW i \in 1 .. Len(words),
         i <= End(paths, Len(paths)), NEW n \in 0 .. Len(paths), NEW acc,
         Reached(acc, paths, i - 1, n)
  PROVE  \E m \in 0 .. Len(paths) : Reached(ReadWord(acc, words, i), paths, i, m)
<1> USE HDropAssumption
<1>1. PICK N \in Nat : N = Len(paths)
  OBVIOUS
<1>2. \A m \in 0 .. N : End(paths, m) \in Nat /\ End(paths, m) <= End(paths, N)
  <2>1. N \in 0 .. Len(paths)
    BY <1>1
  <2> QED BY <2>1, EarlierPaths
<1>3. n < N
  BY <1>1, <1>2 DEF Reached
<1>4. n + 1 \in 1 .. N /\ (n + 1) - 1 = n
  BY <1>1, <1>3
<1>5. PICK p : p = paths[n + 1]
  OBVIOUS
<1>6. PICK s, e \in Nat : s = End(paths, n) /\ e = End(paths, n + 1)
  BY <1>1, <1>2, <1>4
<1>7. /\ Len(p) \in Nat /\ Len(p) > 0 /\ e = s + Len(p) + 1
      /\ \A j \in 1 .. Len(p) : p[j] \in Nat \ {0}
  BY <1>1, <1>4, <1>5, <1>6, OnePathMore
<1>8. \A j \in 1 .. Len(words) : words[j] = AllWords(paths)[j]
  BY DEF Begins
<1>9. /\ \A j \in 1 .. Len(p) : AllWords(paths)[s + j] = p[j]
      /\ AllWords(paths)[e] = 0
  BY <1>1, <1>4, <1>5, <1>6, ListLayout
<1>10. s <= i - 1 /\ i <= e /\ i \in Nat
  BY <1>1, <1>3, <1>6 DEF Reached
<1>11. CASE i < e
  <2>1. PICK j \in 1 .. Len(p) : i = s + j
    <3>1. i - s \in 1 .. Len(p) /\ i = s + (i - s)
      BY <1>6, <1>7, <1>10, <1>11
    <3> QED BY <3>1
  <2>2. words[i] # 0
    BY <1>7, <1>8, <1>9, <2>1
  <2>3. ReadWord(acc, words, i) = acc
    BY <2>2 DEF ReadWord
  <2>4. Reached(acc, paths, i, n)
    BY <1>1, <1>6, <1>10, <1>11 DEF Reached
  <2> QED BY <2>3, <2>4
<1>12. CASE i = e
  <2>1. words[i] = 0
    BY <1>8, <1>9, <1>12
  <2>2. End(paths, n + 1) <= i /\ (n + 1 < N => i < End(paths, (n + 1) + 1))
    <3>1. ASSUME n + 1 < N PROVE i < End(paths, (n + 1) + 1)
      <4>1. n + 2 \in 1 .. N /\ (n + 2) - 1 = n + 1 /\ (n + 1) + 1 = n + 2
        BY <1>1, <3>1
      <4>2. /\ Len(paths[n + 2]) \in Nat /\ Len(paths[n + 2]) > 0
            /\ End(paths, n + 2) = e + Len(paths[n + 2]) + 1
        BY <1>1, <1>6, <4>1, OnePathMore
      <4> QED BY <1>6, <1>12, <4>1, <4>2
    <3> QED BY <1>6, <1>12, <3>1
  <2>3. CASE ~ (n <= MaxFileEntries)
    <3>1. acc.status = "refused" /\ ReadWord(acc, words, i) = acc
      BY <2>3 DEF Reached, ReadWord
    <3>2. Reached(acc, paths, i, n + 1)
      BY <1>1, <2>2, <2>3, <3>1 DEF Reached
    <3> QED BY <1>1, <1>4, <3>1, <3>2
  <2>4. CASE n <= MaxFileEntries
    <3>1. PICK done : done = SubSeq(paths, 1, n)
      OBVIOUS
    <3>2. done \in Seq(Paths) /\ Len(done) = n /\ \A k \in 1 .. n : done[k] = paths[k]
      BY <1>1, <1>3, <3>1
    <3>3. acc = [start |-> s + 1, paths |-> done, status |-> "open"]
      BY <1>6, <2>4, <3>1 DEF Reached
    <3>4. i # s + 1
      BY <1>6, <1>7, <1>12
    <3>5. CASE n = MaxFileEntries
      <4>1. ReadWord(acc, words, i) = [acc EXCEPT !.status = "refused"]
        BY <2>1, <3>2, <3>3, <3>4, <3>5 DEF ReadWord
      <4>2. ReadWord(acc, words, i).status = "refused"
        BY <3>3, <4>1
      <4>3. ~ (n + 1 <= MaxFileEntries)
        BY <3>5
      <4>4. Reached(ReadWord(acc, words, i), paths, i, n + 1)
        BY <1>1, <2>2, <4>2, <4>3 DEF Reached
      <4> QED BY <1>1, <1>4, <4>4
    <3>6. CASE n # MaxFileEntries
      <4>1. ReadWord(acc, words, i) =
              [acc EXCEPT !.paths = Append(@, SubSeq(words, acc.start, i - 1)), !.start = i + 1]
        BY <2>1, <2>4, <3>2, <3>3, <3>4, <3>6 DEF ReadWord
      <4>2. SubSeq(words, s + 1, i - 1) = p
        <5>1. p \in Seq(Nat)
          <6>1. p \in Seq(Nat \ {0})
            BY <1>1, <1>4, <1>5 DEF Paths
          <6> QED BY <6>1
        <5>2. words \in Seq(Nat)
          BY DEF Begins, Words
        <5>3. i - 1 = s + Len(p) /\ i - 1 <= Len(words)
          BY <1>7, <1>12
        <5>4. PICK q : q = SubSeq(words, s + 1, i - 1)
          OBVIOUS
        <5>5. q \in Seq(Nat) /\ Len(q) = Len(p) /\ \A j \in 1 .. Len(p) : q[j] = words[s + j]
          <6>1. \A j \in s + 1 .. i - 1 : words[j] \in Nat
            <7>1. Len(words) \in Nat /\ \A j \in 1 .. Len(words) : words[j] \in Nat
              BY <5>2
            <7> QED BY <1>6, <5>3, <7>1
          <6>2. s + 1 \in Int /\ i - 1 \in Int
            BY <1>6
          <6>3. /\ SubSeq(words, s + 1, i - 1) \in Seq(Nat)
                /\ Len(SubSeq(words, s + 1, i - 1)) = IF s + 1 <= i - 1 THEN (i - 1) - (s + 1) + 1 ELSE 0
                /\ \A j \in 1 .. (i - 1) - (s + 1) + 1 : SubSeq(words, s + 1, i - 1)[j] = words[(s + 1) + j - 1]
            BY <6>1, <6>2, SubSeqProperties
          <6>4. (i - 1) - (s + 1) + 1 = Len(p) /\ s + 1 <= i - 1
            <7>1. s \in Nat /\ i \in Nat /\ Len(p) \in Nat /\ Len(p) > 0 /\ i - 1 = s + Len(p)
              BY <1>6, <1>7, <1>10, <5>3
            <7>2. PICK l \in Nat : l = Len(p) /\ i = s + l + 1
              BY <7>1
            <7> QED BY <7>1, <7>2
          <6>5. \A j \in 1 .. Len(p) : (s + 1) + j - 1 = s + j
            BY <1>6
          <6>6. \A j \in 1 .. Len(p) : q[j] = words[s + j]
            BY <5>4, <6>3, <6>4, <6>5
          <6> QED BY <5>4, <6>3, <6>4, <6>6
        <5>6. \A j \in 1 .. Len(p) : words[s + j] = p[j]
          <6>1. Len(words) \in Nat
            BY <5>2
          <6>2. \A j \in 1 .. Len(p) : s + j \in 1 .. Len(words)
            BY <1>6, <1>7, <5>3, <6>1
          <6> QED BY <1>8, <1>9, <6>2
        <5> QED BY <5>1, <5>4, <5>5, <5>6, SMTT(20)
      <4>3. p \in Paths
        BY <1>1, <1>4, <1>5
      <4>4. PICK more : more = Append(done, p)
        OBVIOUS
      <4>5. more = SubSeq(paths, 1, n + 1)
        <5>1. /\ more \in Seq(Paths) /\ Len(more) = n + 1 /\ more[n + 1] = p
              /\ \A k \in 1 .. n : more[k] = paths[k]
          BY <3>2, <4>3, <4>4
        <5>2. PICK q : q = SubSeq(paths, 1, n + 1)
          OBVIOUS
        <5>3. q \in Seq(Paths) /\ Len(q) = n + 1 /\ \A k \in 1 .. n + 1 : q[k] = paths[k]
          BY <1>1, <1>3, <5>2
        <5>4. \A k \in 1 .. n + 1 : more[k] = q[k]
          BY <1>5, <5>1, <5>3
        <5> QED BY <5>1, <5>2, <5>3, <5>4
      <4>6. Append(acc.paths, SubSeq(words, acc.start, i - 1)) = more
        BY <3>3, <4>2, <4>4
      <4>7. PICK b : b = [acc EXCEPT !.paths = more]
        OBVIOUS
      <4>8. b = [start |-> s + 1, paths |-> more, status |-> "open"]
        BY <3>3, <4>7
      <4>9. [b EXCEPT !.start = i + 1] = [start |-> i + 1, paths |-> more, status |-> "open"]
        BY <4>8
      <4>10. ReadWord(acc, words, i) = [b EXCEPT !.start = i + 1]
        <5>1. [acc EXCEPT !.paths = more, !.start = i + 1] = [[acc EXCEPT !.paths = more] EXCEPT !.start = i + 1]
          OBVIOUS
        <5> QED BY <4>1, <4>6, <4>7, <5>1
      <4>11. Reached(ReadWord(acc, words, i), paths, i, n + 1)
        <5>1. n + 1 <= MaxFileEntries
          BY <2>4, <3>6
        <5>2. ReadWord(acc, words, i) =
                [start |-> End(paths, n + 1) + 1, paths |-> SubSeq(paths, 1, n + 1), status |-> "open"]
          BY <1>6, <1>12, <4>5, <4>9, <4>10
        <5> QED BY <1>1, <2>2, <5>1, <5>2 DEF Reached
      <4> QED BY <1>1, <1>4, <4>11
    <3> QED BY <3>5, <3>6
  <2> QED BY <2>3, <2>4
<1> QED BY <1>6, <1>10, <1>11, <1>12

\* ... so that the loop never ends a list before its end.
LEMMA ReadsBegun ==
  ASSUME NEW paths \in Seq(Paths), NEW words, Begins(words, paths)
  PROVE  \A i \in 0 .. Len(words) :
           i <= End(paths, Len(paths)) => \E n \in 0 .. Len(paths) : Reached(ReadUpto(words)[i], paths, i, n)
<1> USE HDropAssumption
<1> DEFINE Read(i) == i <= End(paths, Len(paths)) =>
                        \E n \in 0 .. Len(paths) : Reached(ReadUpto(words)[i], paths, i, n)
           P == {i \in 0 .. Len(words) : Read(i)}
<1>1. words \in Words /\ Len(words) \in Nat
  BY DEF Begins, Words
<1>2. PICK N \in Nat : N = Len(paths)
  OBVIOUS
<1>3. 0 \in P
  <2>1. WordsUpto(paths)[0] = << >> /\ ReadUpto(words)[0] = NothingRead
    BY <1>1, WordsUptoIs, ReadUptoIs
  <2>2. End(paths, 0) = 0
    BY <2>1 DEF End
  <2>3. SubSeq(paths, 1, 0) = << >>
    BY SubSeqEmpty
  <2>4. 0 < N => 0 < End(paths, 0 + 1)
    <3>1. ASSUME 0 < N PROVE 0 < End(paths, 1)
      <4>1. 1 \in 1 .. N /\ 1 - 1 = 0
        BY <3>1
      <4>2. Len(paths[1]) \in Nat /\ End(paths, 1) = End(paths, 0) + Len(paths[1]) + 1
        BY <1>2, <4>1, OnePathMore
      <4> QED BY <2>2, <4>2
    <3> QED BY <3>1
  <2>5. Reached(ReadUpto(words)[0], paths, 0, 0)
    BY <1>2, <2>1, <2>2, <2>3, <2>4 DEF Reached, NothingRead
  <2> QED BY <1>1, <1>2, <2>5
<1>4. ASSUME NEW i \in 1 .. Len(words), i - 1 \in P PROVE i \in P
  <2>1. SUFFICES ASSUME i <= End(paths, N)
                 PROVE  \E n \in 0 .. N : Reached(ReadUpto(words)[i], paths, i, n)
    BY <1>2
  <2>2. End(paths, N) \in Nat
    BY <1>2, ListLayout
  <2>3. i - 1 <= End(paths, N)
    BY <2>1, <2>2
  <2>4. PICK n \in 0 .. N : Reached(ReadUpto(words)[i - 1], paths, i - 1, n)
    BY <1>2, <1>4, <2>3
  <2>5. ReadUpto(words)[i] = ReadWord(ReadUpto(words)[i - 1], words, i)
    BY <1>1, ReadUptoIs
  <2>6. \E m \in 0 .. Len(paths) : Reached(ReadWord(ReadUpto(words)[i - 1], words, i), paths, i, m)
    BY <1>2, <2>1, <2>4, NextWord
  <2> QED BY <1>2, <2>5, <2>6
<1>5. 0 .. Len(words) \subseteq P
  <2> HIDE DEF P
  <2> QED BY <1>1, <1>3, <1>4, UptoInduction
<1>6. ASSUME NEW i \in 0 .. Len(words) PROVE Read(i)
  <2>1. i \in P
    BY <1>5
  <2> QED BY <2>1
<1> QED BY <1>6

\* What decodeHDrop makes of the words of a list.
Answer(words) ==
  IF ReadUpto(words)[Len(words)].status = "terminated"
    THEN [ok |-> TRUE, paths |-> ReadUpto(words)[Len(words)].paths]
    ELSE RefusedList

\* The first k fields of what was written: without a list, refused, or the first
\* words of the list.
LEMMA CutList ==
  ASSUME NEW paths \in Seq(Paths), NEW data, data = SubSeq(EncodeHDrop(paths), 1, Len(data)),
         Len(data) \in Nat, Len(data) <= Len(AllWords(paths)) + 2
  PROVE  \/ Len(data) < 3 /\ DecodeHDrop(data) = RefusedList
         \/ \E words : /\ Begins(words, paths) /\ Len(words) = Len(data) - 2 /\ Len(data) >= 3
                       /\ DecodeHDrop(data) = Answer(words)
<1>1. PICK all \in Seq(Nat) : all = AllWords(paths)
  BY ListLayout DEF Words
<1>2. PICK head \in Seq(Nat) : head = <<2, 1>>
  <2>1. <<2, 1>> \in Seq(Nat)
    OBVIOUS
  <2> QED BY <2>1
<1>3. head[1] = 2 /\ head[2] = 1 /\ Len(head) = 2
  BY <1>2
<1>4. PICK full : full = head \o all
  OBVIOUS
<1>5. /\ full \in Seq(Nat) /\ Len(full) = Len(all) + 2 /\ full[1] = 2 /\ full[2] = 1
      /\ \A j \in 1 .. Len(all) : full[j + 2] = all[j]
  <2>1. full \in Seq(Nat) /\ Len(full) = Len(head) + Len(all)
    BY <1>1, <1>2, <1>4
  <2>2. full[1] = head[1] /\ full[2] = head[2]
    BY <1>1, <1>2, <1>3, <1>4
  <2>3. \A j \in 1 .. Len(all) : full[Len(head) + j] = all[j]
    BY <1>1, <1>2, <1>4
  <2>4. \A j \in 1 .. Len(all) : 2 + j = j + 2
    OBVIOUS
  <2> QED BY <1>1, <1>3, <2>1, <2>2, <2>3, <2>4
<1>6. EncodeHDrop(paths) = full
  BY <1>1, <1>2, <1>4 DEF EncodeHDrop, AllWords, HeaderFields
<1>7. PICK k \in Nat : k = Len(data)
  OBVIOUS
<1>8. data \in Seq(Nat) /\ \A j \in 1 .. k : data[j] = full[j]
  <2>1. data = SubSeq(full, 1, k) /\ k <= Len(full)
    BY <1>1, <1>5, <1>6, <1>7
  <2>2. \A j \in 1 .. k : full[j] \in Nat
    BY <1>5, <1>7, <2>1
  <2>3. /\ SubSeq(full, 1, k) \in Seq(Nat)
        /\ \A j \in 1 .. k - 1 + 1 : SubSeq(full, 1, k)[j] = full[1 + j - 1]
    BY <1>7, <2>2, SubSeqProperties
  <2>4. \A j \in 1 .. k : j \in 1 .. k - 1 + 1 /\ 1 + j - 1 = j
    BY <1>7
  <2> QED BY <2>1, <2>3, <2>4
<1>9. CASE k < 2
  <2>1. Len(data) < HeaderFields /\ Len(data) < 3
    BY <1>7, <1>9 DEF HeaderFields
  <2> QED BY <2>1 DEF DecodeHDrop
<1>10. CASE k = 2
  <2>1. data[1] = 2
    BY <1>5, <1>8, <1>10
  <2>2. data[1] \notin HeaderFields .. Len(data) - 1
    BY <1>7, <1>10, <2>1 DEF HeaderFields
  <2>3. DecodeHDrop(data) = RefusedList
    BY <2>2 DEF DecodeHDrop
  <2> QED BY <1>7, <1>10, <2>3
<1>11. CASE k > 2
  <2>1. data[1] = 2 /\ data[2] = 1
    BY <1>5, <1>8, <1>11
  <2>2. ~ (Len(data) < HeaderFields \/ data[1] \notin HeaderFields .. Len(data) - 1 \/ data[2] = 0)
    BY <1>7, <1>11, <2>1 DEF HeaderFields
  <2>3. PICK words : words = SubSeq(data, data[1] + 1, Len(data))
    OBVIOUS
  <2>4. words = SubSeq(data, 3, k)
    BY <1>7, <2>1, <2>3
  <2>5. words \in Seq(Nat) /\ Len(words) = k - 2 /\ \A j \in 1 .. k - 2 : words[j] = data[j + 2]
    <3>1. \A j \in 3 .. k : data[j] \in Nat
      BY <1>7, <1>8
    <3>2. /\ SubSeq(data, 3, k) \in Seq(Nat)
          /\ Len(SubSeq(data, 3, k)) = IF 3 <= k THEN k - 3 + 1 ELSE 0
          /\ \A j \in 1 .. k - 3 + 1 : SubSeq(data, 3, k)[j] = data[3 + j - 1]
      BY <1>7, <3>1, SubSeqProperties
    <3>3. 3 <= k /\ k - 3 + 1 = k - 2 /\ \A j \in 1 .. k - 2 : 3 + j - 1 = j + 2
      BY <1>7, <1>11
    <3> QED BY <2>4, <3>2, <3>3
  <2>6. \A j \in 1 .. k - 2 : words[j] = all[j]
    <3>1. \A j \in 1 .. k - 2 : j + 2 \in 1 .. k /\ j \in 1 .. Len(all)
      BY <1>1, <1>7
    <3> QED BY <1>5, <1>8, <2>5, <3>1
  <2>7. Begins(words, paths)
    <3>1. Len(words) <= Len(all) /\ Len(words) = k - 2
      BY <1>1, <1>7, <2>5
    <3> QED BY <1>1, <2>5, <2>6, <3>1 DEF Begins, Words
  <2>8. DecodeHDrop(data) = Answer(words)
    BY <2>2, <2>3 DEF DecodeHDrop, Answer
  <2>9. Len(words) = Len(data) - 2 /\ Len(data) >= 3
    BY <1>7, <1>11, <2>5
  <2> QED BY <2>7, <2>8, <2>9
<1>12. k < 2 \/ k = 2 \/ k > 2
  BY <1>7
<1> QED BY <1>9, <1>10, <1>11, <1>12

\* For all lists of paths, of any number and length: decodeHDrop reads what
\* encodeHDrop wrote as the same list, refuses one with too many entries, and
\* refuses every list that is cut off, wherever it is.
THEOREM HDropRoundTrip ==
  ASSUME NEW paths \in Seq(Paths)
  PROVE  HDropIsReadBack(paths)
<1> USE HDropAssumption
<1>1. PICK N, e \in Nat : N = Len(paths) /\ e = End(paths, N)
  BY ListLayout
<1>2. PICK all \in Seq(Nat) : all = AllWords(paths)
  BY ListLayout DEF Words
<1>3. Len(all) = e + 1 /\ all[e + 1] = 0
  BY <1>1, <1>2, ListLayout
<1>4. PICK full \in Seq(Nat) : full = EncodeHDrop(paths) /\ Len(full) = Len(all) + 2
  <2>1. PICK head \in Seq(Nat) : head = <<HeaderFields, 1>> /\ Len(head) = 2
    <3>1. <<HeaderFields, 1>> \in Seq(Nat) /\ Len(<<HeaderFields, 1>>) = 2
      BY DEF HeaderFields
    <3> QED BY <3>1
  <2>2. head \o all \in Seq(Nat) /\ Len(head \o all) = Len(all) + 2
    BY <2>1
  <2>3. head \o all = EncodeHDrop(paths)
    BY <1>2, <2>1 DEF EncodeHDrop, AllWords
  <2> QED BY <2>2, <2>3
<1>5. ASSUME NEW k \in 0 .. Len(full) - 1 PROVE DecodeHDrop(SubSeq(full, 1, k)) = RefusedList
  <2>1. PICK data : data = SubSeq(full, 1, k)
    OBVIOUS
  <2>2. data \in Seq(Nat) /\ Len(data) = k /\ k \in Nat
    BY <2>1
  <2>3. data = SubSeq(EncodeHDrop(paths), 1, Len(data))
    BY <1>4, <2>1, <2>2
  <2>4. Len(data) <= Len(AllWords(paths)) + 2
    BY <1>2, <1>4, <2>2
  <2>5. CASE Len(data) < 3 /\ DecodeHDrop(data) = RefusedList
    BY <2>1, <2>5
  <2>6. CASE ~ (Len(data) < 3 /\ DecodeHDrop(data) = RefusedList)
    <3>1. PICK words : /\ Begins(words, paths) /\ Len(words) = Len(data) - 2 /\ Len(data) >= 3
                       /\ DecodeHDrop(data) = Answer(words)
      BY <2>2, <2>3, <2>4, <2>6, CutList
    <3>2. PICK l \in Nat : l = Len(words) /\ l <= e
      BY <1>3, <1>4, <2>2, <3>1
    <3>3. PICK n \in 0 .. N : Reached(ReadUpto(words)[l], paths, l, n)
      <4>1. l \in 0 .. Len(words) /\ l <= End(paths, Len(paths))
        BY <1>1, <3>2
      <4>2. \E n \in 0 .. Len(paths) : Reached(ReadUpto(words)[l], paths, l, n)
        BY <3>1, <4>1, ReadsBegun
      <4> QED BY <1>1, <4>2
    <3>4. ReadUpto(words)[l].status # "terminated"
      BY <3>3 DEF Reached
    <3> QED BY <2>1, <3>1, <3>2, <3>4 DEF Answer
  <2> QED BY <2>5, <2>6
<1>6. DecodeHDrop(full) = IF N <= MaxFileEntries THEN [ok |-> TRUE, paths |-> paths] ELSE RefusedList
  <2>1. full = SubSeq(EncodeHDrop(paths), 1, Len(full))
    BY <1>4, SubSeqFull
  <2>2. Len(full) <= Len(AllWords(paths)) + 2 /\ Len(full) >= 3 /\ Len(full) \in Nat
    BY <1>2, <1>3, <1>4
  <2>3. PICK words : /\ Begins(words, paths) /\ Len(words) = Len(full) - 2
                     /\ DecodeHDrop(full) = Answer(words)
    <3>1. ~ (Len(full) < 3 /\ DecodeHDrop(full) = RefusedList)
      BY <2>2
    <3> QED BY <2>1, <2>2, <3>1, CutList
  <2>4. Len(words) = e + 1 /\ words[e + 1] = 0
    <3>1. Len(words) = e + 1
      BY <1>3, <1>4, <2>3
    <3>2. \A j \in 1 .. Len(words) : words[j] = all[j]
      BY <1>2, <2>3 DEF Begins
    <3> QED BY <1>3, <3>1, <3>2
  <2>5. PICK n \in 0 .. N : Reached(ReadUpto(words)[e], paths, e, n)
    <3>1. e \in 0 .. Len(words)
      BY <1>1, <2>4
    <3>2. e <= End(paths, Len(paths))
      BY <1>1
    <3> QED BY <1>1, <2>3, <3>1, <3>2, ReadsBegun
  <2>6. n = N
    <3>1. ASSUME n # N PROVE FALSE
      <4>1. n + 1 \in 0 .. N /\ N \in 0 .. Len(paths)
        BY <1>1, <3>1
      <4>2. End(paths, n + 1) \in Nat /\ End(paths, n + 1) <= e
        BY <1>1, <4>1, EarlierPaths
      <4>3. e < End(paths, n + 1)
        BY <1>1, <2>5, <3>1 DEF Reached
      <4> QED BY <4>2, <4>3
    <3> QED BY <3>1
  <2>7. ReadUpto(words)[e + 1] = ReadWord(ReadUpto(words)[e], words, e + 1)
    <3>1. e + 1 \in 1 .. Len(words) /\ (e + 1) - 1 = e
      BY <2>4
    <3>2. words \in Words
      BY <2>3 DEF Begins
    <3> QED BY <3>1, <3>2, ReadUptoIs
  <2>8. PICK acc : acc = ReadUpto(words)[e]
    OBVIOUS
  <2>9. CASE N <= MaxFileEntries
    <3>1. SubSeq(paths, 1, N) = paths
      BY <1>1, SubSeqFull
    <3>2. acc = [start |-> e + 1, paths |-> paths, status |-> "open"]
      BY <1>1, <2>5, <2>6, <2>8, <2>9, <3>1 DEF Reached
    <3>3. ReadWord(acc, words, e + 1) = [acc EXCEPT !.status = "terminated"]
      BY <2>4, <3>2 DEF ReadWord
    <3>4. ReadWord(acc, words, e + 1) = [start |-> e + 1, paths |-> paths, status |-> "terminated"]
      BY <3>2, <3>3
    <3>5. Answer(words) = [ok |-> TRUE, paths |-> paths]
      <4>1. PICK last : last = ReadUpto(words)[Len(words)]
        OBVIOUS
      <4>2. last = [start |-> e + 1, paths |-> paths, status |-> "terminated"]
        BY <2>4, <2>7, <2>8, <3>4, <4>1
      <4>3. last.status = "terminated" /\ last.paths = paths
        BY <4>2
      <4> QED BY <4>1, <4>3 DEF Answer
    <3> QED BY <2>3, <2>9, <3>5
  <2>10. CASE ~ (N <= MaxFileEntries)
    <3>1. acc.status = "refused"
      BY <2>5, <2>6, <2>8, <2>10 DEF Reached
    <3>2. ReadWord(acc, words, e + 1) = acc
      BY <3>1 DEF ReadWord
    <3>3. Answer(words) = RefusedList
      BY <2>4, <2>7, <2>8, <3>1, <3>2 DEF Answer
    <3> QED BY <2>3, <2>10, <3>3
  <2> QED BY <2>9, <2>10
<1> QED BY <1>1, <1>4, <1>5, <1>6 DEF HDropIsReadBack
=============================================================================
