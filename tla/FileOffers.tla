----------------------------- MODULE FileOffers -----------------------------
(***************************************************************************)
(* The node that files are copied at, with --files: the clipboard, the     *)
(* watchers for files and text, the event loop's branches that make and    *)
(* withdraw an offer (node.go), and the FileProvider that answers for it   *)
(* (file_sync.go).  Images are noticed and announced just like text.       *)
(*                                                                         *)
(* Offers are numbered in the order they were made: their random           *)
(* identifiers never repeat.  What the node announced is the history sent; *)
(* a module that composes this one with a receiver reads it from there.    *)
(***************************************************************************)
EXTENDS Integers, FiniteSets, SequencesExt

CONSTANTS Files,
          Selections,  \* what a user can copy: sets of files
          MaxCopies,   \* bound: changes of the clipboard
          MaxEdits,    \* bound: changes of files
          MayExpire,   \* whether an offer's lifetime of 24 hours may end
          None

ASSUME FileOffersAssumption ==
  /\ Selections \subseteq (SUBSET Files) \ {{}}
  /\ {MaxCopies, MaxEdits} \subseteq Nat
  /\ MayExpire \in BOOLEAN
  /\ None \notin Nat

VARIABLES
  clip,      \* the clipboard: the files, none when it holds text, and the change count
  version,   \* of each file: its size and modification time, counted by its changes
  edits,     \* changes of files so far
  fileSeen,  \* the file watcher's change count, and whether it is about to read
  fileCh,    \* selections noticed: the channel, and the one the watcher holds
  textSeen, textCh,  \* the same for the text watcher: the number of its notices
  provider,  \* FileProvider: the offer it answers for, or None
  offers,    \* every offer made: the version of each of its files
  expired,   \* offers whose lifetime has ended: the first so many
  refused,   \* history: the last selection could not be offered
  sent       \* history: messages announced, offers by number

sourceVars == <<clip, version, edits, fileSeen, fileCh, textSeen, textCh, provider, offers, expired,
                refused, sent>>

Text == 0

SourceInit ==
  /\ clip = [files |-> {}, count |-> 0]
  /\ version = [f \in Files |-> 0] /\ edits = 0
  /\ fileSeen = [count |-> 0, reading |-> FALSE] /\ fileCh = << >>
  /\ textSeen = 0 /\ textCh = 0
  /\ provider = None /\ offers = << >> /\ expired = 0 /\ refused = FALSE
  /\ sent = << >>

\* A watcher's channel takes one notice; the watcher waits with the next one.
Blocked(notices) == notices > 1

-----------------------------------------------------------------------------
\* The user copies text or files.
UserCopies(files) ==
  /\ clip.count < MaxCopies
  /\ clip' = [files |-> files, count |-> clip.count + 1]
  /\ UNCHANGED <<version, edits, fileSeen, fileCh, textSeen, textCh, provider, offers, expired,
                 refused, sent>>

\* Some program changes a file, or replaces or removes it.
Edit(f) ==
  /\ edits < MaxEdits /\ edits' = edits + 1
  /\ version' = [version EXCEPT ![f] = @ + 1]
  /\ UNCHANGED <<clip, fileSeen, fileCh, textSeen, textCh, provider, offers, expired,
                 refused, sent>>

\* The oldest offer's lifetime ends.
Expire ==
  /\ MayExpire /\ expired < Len(offers)
  /\ expired' = expired + 1
  /\ UNCHANGED <<clip, version, edits, fileSeen, fileCh, textSeen, textCh, provider, offers,
                 refused, sent>>

\* watchFiles: the change count first, ...
FileWatcherTicks ==
  /\ ~ fileSeen.reading /\ ~ Blocked(Len(fileCh)) /\ fileSeen.count # clip.count
  /\ fileSeen' = [count |-> clip.count, reading |-> TRUE]
  /\ UNCHANGED <<clip, version, edits, fileCh, textSeen, textCh, provider, offers, expired,
                 refused, sent>>

\* ... and then the paths that the clipboard holds by now.
FileWatcherReads ==
  /\ fileSeen.reading
  /\ fileSeen' = [fileSeen EXCEPT !.reading = FALSE]
  /\ fileCh' = Append(fileCh, clip.files)
  /\ UNCHANGED <<clip, version, edits, textSeen, textCh, provider, offers, expired, refused, sent>>

\* watchText: selected files come with their names as text.
TextWatcherPolls ==
  /\ ~ Blocked(textCh) /\ textSeen # clip.count
  /\ textSeen' = clip.count
  /\ textCh' = textCh + 1
  /\ UNCHANGED <<clip, version, edits, fileSeen, fileCh, provider, offers, expired, refused, sent>>

-----------------------------------------------------------------------------
(* The event loop *)

\* Wrong: text does not withdraw the offer.
LoopTakesTextOnly(echo) ==
  /\ textCh > 0 /\ textCh' = textCh - 1
  /\ sent' = IF clip.files # {} \/ echo THEN sent ELSE Append(sent, Text)
  /\ UNCHANGED <<clip, version, edits, fileSeen, fileCh, textSeen, provider, offers, expired, refused>>

\* Wrong: it is not asked whether the clipboard holds files.
LoopTakesTextUnchecked(echo) ==
  /\ textCh > 0 /\ textCh' = textCh - 1
  /\ IF echo THEN UNCHANGED <<provider, sent>>
             ELSE provider' = None /\ sent' = Append(sent, Text)
  /\ UNCHANGED <<clip, version, edits, fileSeen, fileCh, textSeen, offers, expired, refused>>

\* A notice of text: nothing while the clipboard holds files, and nothing if it
\* is taken for the echo of a peer's text (ClipNode says when); otherwise the
\* offer ends and the text is announced.
LoopTakesText(echo) ==
  /\ textCh > 0 /\ textCh' = textCh - 1
  /\ IF clip.files # {} \/ echo THEN UNCHANGED <<provider, sent>>
                                ELSE provider' = None /\ sent' = Append(sent, Text)
  /\ UNCHANGED <<clip, version, edits, fileSeen, fileCh, textSeen, offers, expired, refused>>

\* FileProvider.Create: the size and time of each file as they are now.
Create(files) == [f \in files |-> version[f]]

\* A notice of the file watcher: without files, or when FileProvider.Create or
\* the encoding fails, there is no offer any more; otherwise a new one is made
\* from the files as they are, and announced.
LoopTakesFiles(ok) ==
  /\ fileCh # << >> /\ fileCh' = Tail(fileCh)
  /\ LET files == Head(fileCh) IN
     IF files = {} \/ ~ ok
       THEN /\ ok \/ files # {}
            /\ refused' = (files # {})
            /\ provider' = None
            /\ UNCHANGED <<offers, sent>>
       ELSE /\ offers' = Append(offers, Create(files))
            /\ provider' = Len(offers')
            /\ sent' = Append(sent, provider')
            /\ refused' = FALSE
  /\ UNCHANGED <<clip, version, edits, fileSeen, textSeen, textCh, expired>>

\* Incoming text is written to the clipboard and ends the offer.
LoopTakesIncoming ==
  /\ clip.count < MaxCopies
  /\ clip' = [files |-> {}, count |-> clip.count + 1]
  /\ provider' = None
  /\ UNCHANGED <<version, edits, fileSeen, fileCh, textSeen, textCh, offers, expired, refused, sent>>

-----------------------------------------------------------------------------
(* FileProvider.open *)

\* validateFileOffer, of which only the lifetime can change.
Valid(o) == o > expired

\* Wrong: the file is not compared with what was offered.
OpensChanged(o, f) == provider = o /\ Valid(o)

\* It answers for the current offer, as long as the file is the one offered.
Opens(o, f) == provider = o /\ Valid(o) /\ version[f] = offers[o][f]

-----------------------------------------------------------------------------
Watchers == FileWatcherTicks \/ FileWatcherReads \/ TextWatcherPolls

TakesNotice == \E yes \in BOOLEAN : LoopTakesText(yes) \/ LoopTakesFiles(yes)

SourceNext == \/ \E files \in Selections \cup {{}} : UserCopies(files)
              \/ \E f \in Files : Edit(f)
              \/ Expire
              \/ Watchers \/ TakesNotice \/ LoopTakesIncoming

-----------------------------------------------------------------------------
SourceTypeOK ==
  /\ clip \in [files : Selections \cup {{}}, count : 0 .. MaxCopies]
  /\ version \in [Files -> 0 .. MaxEdits] /\ edits \in 0 .. MaxEdits
  /\ fileSeen \in [count : 0 .. clip.count, reading : BOOLEAN]
  /\ fileCh \in Seq(Selections \cup {{}}) /\ Len(fileCh) <= 2
  /\ textSeen \in 0 .. clip.count
  /\ textCh \in 0 .. 2
  /\ provider \in DOMAIN offers \cup {None}
  /\ \A o \in DOMAIN offers : offers[o] \in [DOMAIN offers[o] -> 0 .. MaxEdits]
  /\ expired \in 0 .. Len(offers)
  /\ refused \in BOOLEAN
  /\ sent \in Seq({Text} \cup DOMAIN offers)

FilesNoticed == ~ fileSeen.reading /\ fileSeen.count = clip.count /\ fileCh = << >>

\* However the notices of files and text are delayed and ordered, once all
\* changes of the clipboard are noticed the node offers the files that its user
\* last copied, and offers none when the clipboard holds something else.
ProviderFollowsClipboard ==
  FilesNoticed =>
    IF clip.files # {} /\ ~ refused
      THEN provider # None /\ DOMAIN offers[provider] = clip.files
      ELSE provider = None

\* A node only ever serves what it announced last: as soon as it announces
\* something else, files of an earlier selection cannot be fetched any more.
ServesLastAnnounced == provider # None => Last(sent) = provider
=============================================================================
