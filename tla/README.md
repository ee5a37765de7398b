# A verification of clipall

clipall keeps the clipboards of several machines in step over TCP. This
directory holds TLA+ modules that model its core, TLC configurations that check
them on small instances, and proofs that TLAPS checks for every instance. The
Go (and Objective-C) sources are the reference: `PROJECT.json` names, for each
definition, the lines it stands for.

    tlc -workers 2 -config MCPeerLink_one.cfg MCPeerLink     # a run
    tlapm EventRing_proofs.tla                               # the proofs of a module

## 1. The system

| part | state | operations | hard because | correct if |
|---|---|---|---|---|
| Loop prevention (`loop.go`, `newMessage`) | ring of 32 event identifiers, list of at most 32 echo markers, last timestamp | `Add`, `Contains`, `Consume`, `newMessage` | positions wrap around, markers expire, clocks stand still | an event is not handled again while it is in the ring; a copy is always a new event; a marker takes only its echo |
| Peers (`peer.go`, `acceptLoop`, `handleConn`) | send queue of 16, current connection, one pending message; a reader per accepted connection, incoming channel of 32 | `Send`, `Run`, `connect`, `writeLoop`, `Close`; `Decode` and passing on | dials, writes, broken connections, `Close` and restarts interleave | an event ends exactly once; the order holds within a connection; no connection leaks; writers end |
| Event loop (`Node.Run`) and clipboard watchers | clipboard with change count, notices not taken, ring, markers | user copies, polls, notices, incoming text and images, write and read-back | echo and user's copy look alike; every lock is released between look and use | nothing from a peer is announced as one's own; unrelated copies pass; the exchange comes to rest and converges |
| File offers (`file_sync.go`, file branches of the loop) | provider: current offer and its files; staging directories | `Create`, `Clear`, `open`, `Serve`; fetching, staging, resuming | files change, offers are replaced half way, notices of text and files come in any order | it serves what its clipboard holds; what is pasted is complete and as offered |
| Remote files on Windows (`clipboard_files_windows.go`) | marker on the clipboard, current offer, flag downloading | offer, Ctrl+V, result, repeated paste | clipboard is opened several times, download is asynchronous | a marker is served, pastes become possible again |
| Remote files on macOS (`clipboard_files_darwin.go`, `platform_run_darwin.go`) | pasteboard promise, `macRemoteFiles`, the watcher that is the only writer, AppKit's main thread | set, clear, `requestDownload`, download, publish; stop | five goroutines and threads, one lock, a rendezvous with the main thread | channels are closed once; files appear only when asked for; the process ends |
| Placement in Finder's folder (`placeMacDownloadedPaths`) | names chosen, what is moved, temporary copies | find the folder, choose names, rename or copy | two steps per name, the user works in the folder, any step may fail | nothing is lost, cut off or replaced; what is published is there |
| Saved images (`saveImage`, `pruneImages`) | image directory, `latest.png` | save, prune | writes and removals that fail | the limit is kept, and the newest image |
| Wire protocol (`protocol.go`), HDROP (`hdrop.go`) | none | encode, decode | two versions, streams cut off anywhere, lengths at the limit | what is decoded was encoded |
| Configuration and onboarding (`config.go`, `onboarding.go`, `main.go`) | configuration file | load, ask, save | the file is emptied before it is written | a setup is recorded whole, and once |
| Autostart (`autostart_*.go`) | launch agent or scheduled task, older Run entry, running instances | install, uninstall, start | several steps that fail one by one; logins in between | what is installed is what runs |
| Listening (`network.go`, `Node.listen`) | none | resolve, listen, retry | Tailscale is late, the address is held | the service serves in the end |
| Progress window (`mac_progress_darwin.go`) | a helper process | show, finish | little | - |

The parts interact by channels (watcher to event loop, event loop to peers and
to the paste handler, readers to event loop), by the shared clipboard and its
mutex on macOS, by `FileProvider`'s and `macRemoteFiles`' mutexes, and between
machines by TCP connections, which carry events one way each, and one file per
connection in file transfers.

## 2. The modules

| module | models | state and actions |
|---|---|---|
| `LoopGuard` | `RingBuffer`, `EchoBuffer` | operators only: `RingAdd`, `RingContains`, `EchoAdd`, `EchoExpected`, `EchoRest`, used by the state machines below |
| `EventRing` | `newMessage` and the duplicate check | `Copy` (mint an identifier), `Accept`; `log` is the history of all identifiers |
| `LossyLink` | the promise of a set of links | pairs of link and event in transit, delivered or lost |
| `PeerLink` | `Peer.Run` with `connect` and `writeLoop`, `Send`, `Close`; the receiver's readers, channel and loop | one action per step of the writer (`pc`), `Break` for a connection that breaks after the reader got a prefix of what was under way, `Read`, `PassOn`, `Handle`, `Restart` |
| `ClipNode` | several nodes: clipboard, polling watchers, event loop | `UserCopy`; `Poll` and `ReadData` (two locks, two steps); `Notify`; `Apply` and `ReadBack` (write, then read back and add the marker); `Lose`, `Tick` |
| `FileOffers` | the machine files are copied at | copies, changes of files, both watchers, `LoopTakesText`, `LoopTakesFiles` (the whole branch, `Create` included), `LoopTakesIncoming`; `Opens` is `FileProvider.open` |
| `WireFormat` | `Encode`, `Decode` | operators on streams of numbers |
| `ImageStore` | `saveImage`, `pruneImages` | one action, `SaveImage`; `Prune` is a fold over the images, of which it takes the oldest first |
| `Inbound` | readers, incoming channel, the loop's branch for messages; extends `EventRing`, `WireFormat` and `ImageStore` | `PeerSends` puts an encoded frame on a connection, `Breaks` cuts the stream anywhere, `Reads` decodes, `PassesOn`, `LoopTakesMessage`; `LocalCopy` and `PeerCopies` mint events |
| `HDrop` | `encodeHDrop`, `decodeHDrop` | operators, the loop of `decodeHDrop` as a function of the words read; `HDropIsReadBack` compares them: TLC for short lists (`ShortListsAreReadBack` in `MCWindowsPaste`), `HDropRoundTrip` for all |
| `WindowsPaste` | `FileOffers` and a Windows receiver | `LoopTakesMessage`, the handler's `select` cases, and the download: `JobStarts`, then per missing file `JobAsks`, `JobServed`, `JobStores`, or `JobFails` |
| `MacRemoteFiles` | a Mac receiver | the event loop as far as it meets files or the clipboard's lock, handler, watcher, downloads, main thread; every step between two locks or channel operations is an action |
| `MacPlacement` | the placement of received files on a Mac | `Find`, `Choose` per path, then per path `Move`, or `Copy`, `Finish` and `Clean` on another volume; `UserSaves`, `Crash` |
| `Setup` | a user at a terminal, the configuration file, autostart, the service | `RunClipall`, `Ask`, `Save`, `RunManagement` and its steps, `RunListens`; `ServiceStarts`, `Listens`; `Login`, `NetChanges`, crashes everywhere |

`PeerLink` implements `LossyLink`: the safety part is proved (`PathIsLossyLink`),
the whole, liveness included, is checked by TLC (`ImplementsLossyLink`); `ClipNode` and `WindowsPaste` use links that may lose events and,
for `ClipNode`, deliver them in any order, as `LossyLink` allows. `Inbound`
looks at the receiving end of such links byte by byte. `WindowsPaste` extends
`FileOffers` and reads its history `sent`. The MC
modules only give values to constants (`MCWindowsPaste` also has TLC evaluate `HDrop`). Operators whose comment begins with
"Wrong:" are plausible bugs; no action uses them, and `PROJECT.json` says which
property each of them breaks when it takes the place of the definition after it.

Abstractions. Contents are model values or short strings, and equal hashes mean
equal contents. Timestamps count a node's events where only their order
matters; `EventRing` has the clock. Offers are numbered, as their random
identifiers never repeat. A file is its size and modification time. In
`PeerLink` the pending message and the local `msg` of `writeLoop` are one
variable, as no step has both. A selection's directory entries are left out.
In `FileOffers` a text notice may always be taken for an echo: that covers what
`ClipNode` finds out about markers that are left over or missing.
`ClipNode` has nobody copy files, so that the loop's file branches do nothing
there. In `WireFormat` a header field is one number of the stream, and an
image's payload in `inbound` reads like the start of a frame. `ImageStore`
leaves out images of one instant, a partial image whose removal fails, and files
of other programs: pruning takes any `.png` in the directory for an image of
clipall, the user's included. In `Setup` a file cut off after `n` bytes becomes
what `LoadConfig` makes of it: default values, some of the peers, one of them
garbled, or no mark of completion; `"*"` stands for every explicit address. In
`MacPlacement` a name is what the file system tells apart, so that `a` and `A`
are one.

`clip_safety` and `clip_live` assume what they name: `AtomicPoll` (no change of
the clipboard between a watcher's look at the change count and its read), no
copy between a write and its read-back (`Interference = FALSE`), and a clock
that ticks only when nothing is pending (`Timely`: five seconds are ten polls).
The code guarantees neither of the first two. With `AtomicPoll = FALSE`
`clip_safety` finds `EchoesCovered` violated: a remote write is noticed twice,
and the second notice announced. With `Interference = TRUE` it finds the same,
and a user's copy recorded as an echo and not announced (`loop.go:55-57`: "it
never suppresses unrelated clipboard changes").

## 3. The runs

| run | instance | question |
|---|---|---|
| `inbound` | two connections of one peer of version 2, one of a peer of version 1, one of the node itself; text, image, offer and fetch; 3 events, ring of 2, 4 additions to it, channel of 1, one connection cut off, images of 2 and a limit of 4, failing writes and removals, clock reading 0 or 1 | is what is handled what was sent, once? are only duplicates ignored? does the directory keep its limit? |
| `peer_one` | 1 link, 3 events (one that `Encode` refuses), 3 dials, queue of 2, channel of 1, a restart, shutdown | are events accounted for, in order within a connection, and do writers end? does the link implement `LossyLink`? |
| `clip_safety` | 2 nodes, 2 links in one direction, 1 in the other and a self link, text and an image that reads differently at b, 2 copies, loss, reordering, failing writes | is anything announced that no user copied there? are all echoes covered by markers? |
| `clip_live` | 2 nodes, 2 links in one direction and 1 in the other, text, 2 copies, 2 announcements a node, nothing lost | does it come to rest, does every copy take effect, do the clipboards converge? |
| `files` | 2 files, selections of one or both, 2 changes of the clipboard, an edit, 2 pastes | does the source serve what its clipboard holds? is what is pasted complete and as offered? does every download end? |
| `mac_safety` | 2 offers, 2 requests of Finder, a copy, shutdown at any moment | are done channels closed once? do files appear only when asked for, and in place of their own promise? |
| `mac_place` | 3 paths, two of which differ in case only and one of which has the name the second will get, 3 files that the user saves, both volumes, failures and a crash at each step | is every path whole? is what is published there? do the user's files stay? |
| `setup` | macOS and Windows; 2 commands (plain, with peers, with another address), configuration absent, broken, of an older version or complete, 2 crashes or failures, 2 logins, a change of the network | is the setup recorded whole and once? is what is installed what runs? does it serve in the end? |
| `clip_leftover`, `mac_stale`, `mac_shutdown`, `listen_any` | the smallest instance that shows it | see section 4 |

Why these bounds are enough: the ring of `inbound` wraps around with the
third of up to four additions, two connections of one peer bring the same event again
after others, two images fill the limit with `latest.png` counted, so
that the second one makes pruning choose; the proofs about the ring cover all
sizes. A frame can be cut off at every number, and what is left of it be joined
by no other, as a reconnection is another stream. In `PeerLink` a queue of two
overflows at the third event, three dials allow a retry that fails again, and
an overtaking needs two connections and two events. In `ClipNode` two copies
with two parallel links give every pair of echo, duplicate and user's copy;
contents repeat, so that markers of the same key meet. Two offers are needed
for a stale download, two requests for a double one, and two files for a
download that breaks off half way. In `setup` two crashes allow an interrupted
save after an interrupted installation, two logins an older registration that
comes back. In `mac_place` the three names collide pairwise; the proofs cover
any number. Bounds on counters are named in the
constants and stand in the guards.

Deadlock is checked in `ClipNode` and `PeerLink`, where only quiet states may
stutter, and in `ClipNode` those that reach the bound on announcements. `Inbound`, `WindowsPaste`, `MacPlacement` and `Setup` stop when their
bounded inputs are used up (`CHECK_DEADLOCK FALSE`): a machine where nobody does
anything does nothing. In
`MacRemoteFiles` the program itself can get stuck, which `mac_shutdown` states.

Fairness. Go runs every goroutine that can run: weak fairness of each
goroutine's next step. A channel that stays ready is taken by `select`
sooner or later although other cases compete: strong fairness of the notices,
of incoming messages and of passing on into a full channel. `PeerLink` also
assumes that a peer that is dialled again and again is reached (strong fairness
of `DialSucceeds`), and its last connection does not break. The download of
`WindowsPaste` is weakly fair, as each of its reads ends by a timeout of 30
seconds. `Setup` assumes that launchd and the task scheduler restart what ended
(`KeepAlive`; `RestartCount 999`, once a minute) and that a waiting process tries
again every two seconds. Users are never required to act, and files never to stay as they are.

## 4. What the runs show of the program

All properties of the passing runs hold. Four statements of the repository do
not (`PROJECT.json`, "findings", quotes them):

* `clip_leftover`: two remote writes within one poll interval leave a marker
  that suppresses the user's own copy of that content within five seconds.
* `mac_stale`: the watcher clears the state of an offer set after the change it
  is looking at; the pasteboard then promises files that no paste fetches.
* `mac_shutdown`: watcher (clipboard lock, `dispatch_sync`), event loop (waits
  for the lock) and main thread (waits for the event loop) wait in a circle.
* `listen_any`: with `--listen-host '*'`, or any address that is not Tailscale's,
  `Node.Run` ends at once unless `--files=false` is given too, and a service
  installed that way is restarted for ever.

More that is worth knowing, and no property contradicts:

* An event that the kernel accepted is lost with its connection (`lost` in
  `PeerLink`); the comment at `peer.go:84` only speaks for the pending message.
* Both paste handlers may put an older offer over a newer text, as offers wait
  in a channel of their own.
* Events of version 1 have no timestamp: identical content that such a peer
  copies again is ignored as long as the first one is in the ring
  (`OnlyDuplicatesIgnored` is stated for version 2).
* A configuration file that does not parse is ignored, and the setup that follows
  overwrites it (`main.go:114`, `main.go:162`); the setup counts as complete
  before autostart is installed.
* A service installed without `--peers` while the file has none ends at every
  start (`main.go:191`).
* A download that succeeds after a newer offer replaced it returns at
  `clipboard_files_darwin.go:619` without closing its progress window; one that
  failed keeps its error for every later paste of the same promise.
* A path that was placed before a later one failed is published from the folder,
  so that pasting again in that folder makes a second copy of it.
* `main.go` calls `startAutostartNow`, which only macOS and Windows define.

## 5. The proofs

`EventRing_proofs`, for every ring size, set of contents and peers, and every
reading of the clock. That `Contains` answers for the last `RingSize` events is
not inductive: it does not say where in the array they are. `IInv` adds
`RingHoldsLog` (the j-th last event is j slots behind the write position, with
the wrap-around explicit) and `OwnMinted` (identifiers of this node do not
exceed the last timestamp). `Invariance` proves it, `ContainsIsWindow`,
`NoReplay` and `RecopyMintsNewEvent` follow from it.

`PeerLink_proofs`, for any links, capacities and bounds: `TypeCorrect`, with a
lemma per group of actions and a step per action and per group of variables,
and `NoLeak`. `NoConnectionLeak` is inductive relative to the types: a
connection is opened by the step that makes it the current one, and the writer
leaves the states in which it has a connection only by closing it.

The second part is about the whole way of an event from `Send` to the receiver's
loop. `PathInv` orders what is on that way: the queue, the pending message, the
wires of the connections in the order of their dials, the reader's message, the
channel; with a count of what was announced, and the two ends, handled or lost.
`Restart` empties everything between, so the invariant holds per run of a link.
`OvertakingOnlyByReconnect` follows from the order; `OnePlaceEach` from the
lemmas that the stages exclude each other (`KindsApart`, `OnePosition`) and that
an event announced is in one of them (`SomePlace`). `PathIsLossyLink` maps each
pair of link and event to one of three states, on its way, ended or arrived
(`PairsAreStates`), and each action to a step of `LossyLink` or a stutter.

`ClipNode_proofs`, for any nodes, links, types, contents and bounds. `TypeCorrect`
needs that a watcher that is reading has room for what it reads, and that a
clipboard nobody has written yet holds nothing (`TypeInv`).

`UnrelatedCopiesPass`: markers, and the content that the running handler wrote,
are among what remote writes left on this clipboard (`MarkersWritten`), because
the write is still there when it is read back (`StillThere`). It has two
hypotheses: no user copies between a write and its read-back (`~ Interference`:
what is read back would be the user's), and where that read may fail,
what is stored reads as it was sent (`ReadsBackKnown`: the handler falls back to
the message's own content, `node.go`, which a re-encoded image would not match).

`NoPhantoms` is not inductive: it does not say why the next notice of a watcher
will not be announced. `EchoesAreCovered` does, and with `StillThere`, the
types, and that no watcher has both a change to notice and data to read (`Disjoint`)
it is inductive (`CoverInv`). Announcements, copies, notices and markers are
counted per node and key. The lemmas say how each operation changes such a count
(`CountAppend`, `CountTail`; `ConsumeCounts`: Consume takes one live marker of
the key it is asked for and none of another; `AddCounts`), and each action then
is a comparison of numbers: a copy adds one on both sides, a suppressed notice
takes one from both, an announcement only happens when there is no marker, so that
a user's copy is left to pay for it. The hypotheses say under which timing the
program keeps its promise: a watcher's change count and data are of one
clipboard (`AtomicPoll`), nobody copies between a write and its read-back, five
seconds are longer than what watchers and loop have pending (`Timely`),
`ReadsBackKnown`, and adding a marker drops none that is live
(`RoomForMarkers`: at most 32 live markers). None can be left out: when one of
them alone is given up in `MCClipNode_safety.cfg` (`AtomicPoll = FALSE`, `Interference = TRUE`,
`Timely = FALSE`, `ReadMayFail = TRUE`, `RingSize = 1`), TLC finds both
invariants violated. As it stands that instance meets all of them; no node in it
is sent more than four events and the list has four places.

`NoPhantomsOfFewCopies` replaces the last of these hypotheses, which is about the
program's own state, by one about what users do (`FewCopies`): the contents
they copied, times the links that lead to any one node, are at most `RingSize`.
The argument goes round in a circle that the induction resolves. A marker, a busy
handler and a message on its way each stand for one announcement on one link
(`NeverMore`); announcements are matched one to one with copied contents, as
there are no more of them per node and key (`EventsWereCopied`, which puts the
matchings of all keys together); so a list that a handler is about to add to is not full, no
marker is dropped, and in the next state there are still no more announcements than copies.
`MCClipNode_safety.cfg` meets `FewCopies` in every state.

`Inbound_proofs`, for all connections, names, contents and payloads, for any number
of broken connections and both versions. `HandledWereMade` is not inductive,
as it says nothing of what is under way. The set of streams that frames can make
is defined as the least set that holds the ends and is closed under putting a
frame in front (`Streams`): the ends are the empty stream, and on a broken connection
also the start of a frame. The lemmas say that `Decode` takes the first frame off
(`DecodeFrame`) and waits for the rest of one that is cut off (`DecodeCut`),
that a stream stays one when a frame is appended (`FrameAppended`) and becomes a
broken one when it is cut anywhere (`StreamCut`). `InboundInv` adds what is in
each connection, reader and channel, and that what the ring was given was handled
or came from this node. `ReceivedAsMade`, `IgnoredWereKnown`,
`InboundTypeCorrect` follow, and so does all that `EventRing_proofs` says,
now of the events that the network brings (`NoReplayFromPeers`, `RecopyIsNewAmongPeers`).

The module also proves the two invariants of the image directory, for any sizes,
limit, failures and numbers of images, which needs induction over the
directory. The library's induction theorems take an operator as a parameter,
which the provers cannot instantiate, so the induction is by least
counterexample: the set of numbers for which a statement fails is an ordinary set, and
`WFMin` gives its least element (`LeastNumber`; `SubsetInduction` for the subsets of a
finite set). From it follow that the recursion of the fold has a solution
(`SetRecursion`), that the total size is that of an image and of the others
whichever is taken out first, and that `Prune` returns some of the images, with its total kept up to
date. `LimitKept` and `NewestKept` are inductive with the images' types, distinct times
and finiteness (`StoreInv`): an image just saved has the latest time, so that
pruning, which goes from the oldest, reaches it only when the
others that can be removed are gone, and stops as soon as the total is within the limit.
`DirectoryWithinLimit` and `NewestIsLast` say so of the whole system of `Inbound`.

`WindowsPaste_proofs`, for all files, selections and bounds, about source and receiver
together. `SourceInv` ties the provider's files to the last announcement and to
the newest notice of the watcher; `LastAnnouncedOnly` and `OfferFollowsClipboard`
follow. On the receiver's side the invariant says that a job works on an offer
that was announced, that what it staged is a part of it, file by file as offered,
and that a marker is the one of the current offer: `PublishesOnlyOffered` and
`MarkersAreServed`. `HDropRoundTrip` is about the list of files on the
clipboard, for any number of paths of any length. By induction over the words
read, in the same way, the loop of `decodeHDrop` has after each word exactly the
paths that end there or before, or has refused the list because there were more than
`MaxFileEntries` (`Reached`); a zero that follows a zero is only the list's last
word, so that no proper prefix passes for a list.

`MacRemoteFiles_proofs`, for any numbers of offers, requests and copies.
`DoneClosedOnce` needs to know who may close a channel: the state that is current,
or the step that replaced it, and no two states share one. `OnlyItsPromise` has
a hypothesis, `AtomicWrite`: that nobody writes the pasteboard between the
download's last look at its marker and its own write. The code does not ensure
it (`clipboard_files_darwin.go` looks and writes in two calls); the run assumes
it in its `.cfg`, the theorem names it. The other theorems hold without it.

`Setup_proofs`, for both systems and any number of commands, crashes, failures
and logins. `WholeSetup` rests on what a file cut off can be read as;
`OnlyInstalledRuns` on which registrations are left after each step of
`installAutostart`, those of older versions included.

`MacPlacement_proofs`, for any number of paths, any names and any number of files
that the user saves. That a received path is somewhere whole is not inductive:
a path put under a target could replace another one, and a rename could move
what is not there. `IInv` adds that targets differ (`Distinct`), that nothing moved
before all names are chosen (`Progress`), and where each path is with regard to
the loop's position: those placed are before it and under their targets, the
others in staging, their names still free or taken late by the user
(`Whereabouts`). `PutIsLocal` and `PlacedIInv` do the work for the two ways of
placing; `Whole`, `There` and `UsersFiles` follow from `Invariant`.

The proofs use the assumptions on the constants stated in the modules, and no
others but the hypotheses named above. The bounds on counters are part of the modules;
the proofs hold for every value of them.

Out of the prover's reach, and left to TLC: liveness under fairness (`WritersEnd`,
`ComesToRest`, `CopyTakesEffect`, `Converges`, `TransfersEnd`, `ServedInTheEnd`,
the fairness part of `ImplementsLossyLink`) and ENABLED. Every invariant and action
property of the passing runs is a theorem. No module declares a recursive operator.

## 6. Not modelled

The progress window, which only displays. The names and paths in an offer, the
pruning of staging directories, the pixel formats of images, the parsing of
Tailscale's answers, the quoting in launch agents and tasks, and the installer
scripts are abstracted. A Windows paste handler that stops or restarts is left
out: it forgets its offer, and the marker on the clipboard is then nobody's. So
is a user who runs two commands at two terminals at once.

## 7. Plan

Done, in this order: loop prevention, peers, the event loop with text and
images, macOS, file offers with Windows, incoming frames with saved images,
placement, setup and autostart. To come:

1. `FewCopies` counts all copies; a bound on the copies within five seconds would
   do, as older markers are dead, but needs the time of each write in the model.
2. `MacRemoteFiles`: liveness of the handler and of downloads while the process
   runs, composed with `MacPlacement`; a run without `AtomicWrite`.
3. The validation of paths in an offer and the pruning of staging directories.
