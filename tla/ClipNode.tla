------------------------------ MODULE ClipNode ------------------------------
(***************************************************************************)
(* Several clipall nodes that keep their clipboards in step: the event     *)
(* loop of node.go, the polling watchers of clipboard_darwin.go and        *)
(* clipboard_watchimg_windows.go, the clipboard itself, and loop.go's ring *)
(* and echo markers.  Nobody copies files, so that the file channel and    *)
(* the file branches of the loop never do anything.                        *)
(*                                                                         *)
(* The links between the nodes are the lossy links of LossyLink, which     *)
(* PeerLink implements; with FIFO the events of a link stay in order.      *)
(***************************************************************************)
EXTENDS LoopGuard

CONSTANTS
  Nodes,
  Copiers,       \* the nodes at which a user copies
  Links,         \* <<from, to, k>>: from's peer list leads to to, k tells apart
  Types,         \* message types: text, image
  Contents,
  UserValues,    \* what a user can copy: per type a content or None
  ReadsBack,     \* ReadsBack[n][c]: how c reads after n wrote it (images are
                 \* re-encoded on Windows)
  TTL,           \* life of an echo marker, in ticks
  ChanCap,       \* capacity of a watcher's channel: 1
  MaxCopies,     \* bound: copies made by users
  MaxTS,         \* bound: events announced by a node
  MaxTicks,      \* bound: clock ticks
  FIFO,          \* whether each link keeps the order
  Lossy,         \* whether a link may lose an event
  WriteMayFail,  \* whether the system may refuse a clipboard write
  ReadMayFail,   \* whether the read after a write may return nothing
  AtomicPoll,    \* whether nothing changes the clipboard while a watcher is
                 \* between looking at the change count and reading the data
  Interference,  \* whether a user may copy between a write and its read-back
  Timely,        \* whether a tick is longer than all that watchers and event
                 \* loop have pending
  None

Messages == [type : Types, content : Contents, source : Nodes, ts : 1 .. MaxTS]

ASSUME ClipNodeAssumption ==
  /\ Copiers \subseteq Nodes
  /\ \A l \in Links : l[1] \in Nodes /\ l[2] \in Nodes
  /\ UserValues \subseteq [Types -> Contents \cup {None}]
  /\ ReadsBack \in [Nodes -> [Contents -> Contents]]
  /\ None \notin Contents /\ None \notin Messages
  /\ {TTL, ChanCap} \subseteq Nat \ {0}
  /\ {MaxCopies, MaxTS, MaxTicks} \subseteq Nat
  /\ {FIFO, Lossy, WriteMayFail, ReadMayFail} \subseteq BOOLEAN
  /\ {AtomicPoll, Interference, Timely} \subseteq BOOLEAN

Keys == Types \X Contents

VARIABLES
  clip,      \* the system clipboard: per type a content or None, and whether a
             \* user or a remote write put it there
  changed,   \* watchers that have not noticed the latest change of the clipboard
  reading,   \* watchers between the change count and the data
  notices,   \* what a watcher read and the event loop has not taken yet
  loop,      \* the message whose clipboard write awaits its read-back, or None
  ring,      \* Node.ring
  echoes,    \* Node.echoes
  lastTS,    \* Node.lastEventTS
  transit,   \* <<link, message>> pairs on their way
  now,       \* the clock, in ticks
  copied,    \* history: the copies users made: node, value, and whether all was quiet
  sent,      \* history: the messages announced
  written,   \* history: keys that remote writes left on each clipboard
  hushed     \* history: the suppressed notifications, per node

nodeVars  == <<loop, ring, echoes, lastTS>>
watchVars == <<changed, reading, notices>>
history   == <<copied, sent, written, hushed>>
vars == <<clip, watchVars, nodeVars, transit, now, history>>

EventID(m) == [content |-> m.content, source |-> m.source, ts |-> m.ts]

Init ==
  /\ clip = [n \in Nodes |-> [val |-> [t \in Types |-> None], by |-> "nobody"]]
  /\ changed = [n \in Nodes |-> {}]
  /\ reading = [n \in Nodes |-> {}]
  /\ notices = [n \in Nodes |-> [t \in Types |-> << >>]]
  /\ loop = [n \in Nodes |-> None]
  /\ ring = [n \in Nodes |-> EmptyRing(None)]
  /\ echoes = [n \in Nodes |-> << >>]
  /\ lastTS = [n \in Nodes |-> 0]
  /\ transit = {} /\ now = 0
  /\ copied = << >> /\ sent = << >>
  /\ written = [n \in Nodes |-> {}]
  /\ hushed = [n \in Nodes |-> << >>]

\* Nothing is left for the watchers and the event loop of a node; of any node.
Resting(n) == /\ changed[n] = {} /\ reading[n] = {} /\ loop[n] = None
              /\ \A t \in Types : notices[n][t] = << >>

Quiet == transit = {} /\ \A n \in Nodes : Resting(n)

-----------------------------------------------------------------------------
(* The clipboard and its watchers *)

\* Any write bumps the change count, which every watcher will see.
SetClip(n, value, by) ==
  /\ AtomicPoll => reading[n] = {}
  /\ clip' = [clip EXCEPT ![n] = [val |-> value, by |-> by]]
  /\ changed' = [changed EXCEPT ![n] = Types]

UserCopy(n, value) ==
  /\ Len(copied) < MaxCopies
  /\ Interference \/ loop[n] = None
  /\ SetClip(n, value, "user")
  /\ copied' = Append(copied, [node |-> n, value |-> value, calm |-> Quiet])
  /\ UNCHANGED <<reading, notices, nodeVars, transit, now, sent, written, hushed>>

\* A watcher's tick finds a new change count.  While it waits for room in its
\* channel it does not poll: a notice beyond ChanCap is the one it waits with.
Poll(n, t) ==
  /\ t \in changed[n] \ reading[n]
  /\ Len(notices[n][t]) <= ChanCap
  /\ changed' = [changed EXCEPT ![n] = @ \ {t}]
  /\ reading' = [reading EXCEPT ![n] = @ \cup {t}]
  /\ UNCHANGED <<clip, notices, nodeVars, transit, now, history>>

\* Wrong: an empty read is passed on.
ReadDataUnchecked(n, t) ==
  /\ t \in reading[n]
  /\ reading' = [reading EXCEPT ![n] = @ \ {t}]
  /\ notices' = [notices EXCEPT ![n][t] =
                   Append(@, [content |-> clip[n].val[t], by |-> clip[n].by])]
  /\ UNCHANGED <<clip, changed, nodeVars, transit, now, history>>

\* Wrong: a watcher does not wait for room in its channel but drops the notice.
ReadDataDrops(n, t) ==
  LET content == clip[n].val[t] IN
  /\ t \in reading[n]
  /\ reading' = [reading EXCEPT ![n] = @ \ {t}]
  /\ IF content = None \/ Len(notices[n][t]) >= ChanCap
       THEN UNCHANGED notices
       ELSE notices' = [notices EXCEPT ![n][t] =
                          Append(@, [content |-> content, by |-> clip[n].by])]
  /\ UNCHANGED <<clip, changed, nodeVars, transit, now, history>>

\* Only then it reads the data; a clipboard without this type gives no notice.
ReadData(n, t) ==
  LET content == clip[n].val[t] IN
  /\ t \in reading[n]
  /\ reading' = [reading EXCEPT ![n] = @ \ {t}]
  /\ IF content = None
       THEN UNCHANGED notices
       ELSE notices' = [notices EXCEPT ![n][t] =
                          Append(@, [content |-> content, by |-> clip[n].by])]
  /\ UNCHANGED <<clip, changed, nodeVars, transit, now, history>>

-----------------------------------------------------------------------------
(* The event loop *)

\* newMessage; the wall clock only matters in that it never repeats.
NewMessage(n, t, content) ==
  [type |-> t, content |-> content, source |-> n, ts |-> lastTS[n] + 1]

\* What an announcement does.
Send(n, msg) ==
  /\ lastTS[n] < MaxTS
  /\ lastTS' = [lastTS EXCEPT ![n] = msg.ts]
  /\ ring' = [ring EXCEPT ![n] = RingAdd(@, EventID(msg))]
  /\ transit' = transit \cup {<<l, msg>> : l \in {k \in Links : k[1] = n}}
  /\ sent' = Append(sent, msg)

\* Wrong: echo markers are not consulted.
NotifyUnguarded(n, t) ==
  /\ loop[n] = None
  /\ notices[n][t] # << >>
  /\ notices' = [notices EXCEPT ![n][t] = Tail(@)]
  /\ Send(n, NewMessage(n, t, Head(notices[n][t]).content))
  /\ UNCHANGED <<clip, changed, reading, loop, echoes, now, copied, written, hushed>>

\* A notification of type t: suppressed when an echo of it is expected, else
\* announced to every peer.
Notify(n, t) ==
  LET data == Head(notices[n][t])
      key  == <<t, data.content>>
  IN
  /\ loop[n] = None
  /\ notices[n][t] # << >>
  /\ notices' = [notices EXCEPT ![n][t] = Tail(@)]
  /\ echoes' = [echoes EXCEPT ![n] = EchoRest(@, key, now)]
  /\ IF EchoExpected(echoes[n], key, now)
       THEN /\ hushed' = [hushed EXCEPT ![n] = Append(@, [key |-> key, by |-> data.by])]
            /\ UNCHANGED <<lastTS, ring, transit, sent>>
       ELSE /\ Send(n, NewMessage(n, t, data.content))
            /\ UNCHANGED hushed
  /\ UNCHANGED <<clip, changed, reading, loop, now, copied, written>>

\* A message leaves its link; with FIFO only the oldest one can.
Arrives(l, m) ==
  /\ <<l, m>> \in transit
  /\ FIFO => \A p \in transit : p[1] = l => p[2].ts >= m.ts
  /\ transit' = transit \ {<<l, m>>}

\* An incoming event the ring knows, or whose clipboard write fails: ignored.
Ignore(l, m) ==
  /\ loop[l[2]] = None
  /\ RingContains(ring[l[2]], EventID(m)) \/ WriteMayFail
  /\ Arrives(l, m)
  /\ UNCHANGED <<clip, watchVars, nodeVars, now, history>>

\* An incoming event goes to the clipboard and into the ring.
Apply(l, m) ==
  LET n == l[2]
      stored == ReadsBack[n][m.content]
  IN
  /\ loop[n] = None
  /\ ~ RingContains(ring[n], EventID(m))
  /\ Arrives(l, m)
  /\ SetClip(n, [t \in Types |-> IF t = m.type THEN stored ELSE None], "remote")
  /\ ring' = [ring EXCEPT ![n] = RingAdd(@, EventID(m))]
  /\ loop' = [loop EXCEPT ![n] = m]
  /\ written' = [written EXCEPT ![n] = @ \cup {<<m.type, stored>>}]
  /\ UNCHANGED <<reading, notices, echoes, lastTS, now, copied, sent, hushed>>

\* Wrong: the echo expected is the content of the message, whatever was stored.
ReadBackIgnored(n, ok) ==
  LET m == loop[n] IN
  /\ m # None
  /\ ok \/ ReadMayFail
  /\ echoes' = [echoes EXCEPT ![n] =
                  EchoAdd(@, [key |-> <<m.type, m.content>>, expires |-> now + TTL])]
  /\ loop' = [loop EXCEPT ![n] = None]
  /\ UNCHANGED <<clip, watchVars, ring, lastTS, transit, now, history>>

\* Still in the same handler: what the clipboard reads now is the echo to
\* expect, or the content of the message when the read gives nothing.
ReadBack(n, ok) ==
  LET m == loop[n]
      data == clip[n].val[m.type]
      echoID == IF ok /\ data # None THEN data ELSE m.content
  IN
  /\ m # None
  /\ ok \/ ReadMayFail
  /\ echoes' = [echoes EXCEPT ![n] =
                  EchoAdd(@, [key |-> <<m.type, echoID>>, expires |-> now + TTL])]
  /\ loop' = [loop EXCEPT ![n] = None]
  /\ UNCHANGED <<clip, watchVars, ring, lastTS, transit, now, history>>

-----------------------------------------------------------------------------
(* The environment *)

Lose(p) ==
  /\ Lossy
  /\ p \in transit
  /\ transit' = transit \ {p}
  /\ UNCHANGED <<clip, watchVars, nodeVars, now, history>>

Tick ==
  /\ now < MaxTicks
  /\ Timely => \A n \in Nodes : Resting(n)
  /\ now' = now + 1
  /\ UNCHANGED <<clip, watchVars, nodeVars, transit, history>>

\* A watcher's work, and the event loop's.
Watch(n, t) == Poll(n, t) \/ ReadData(n, t)

Receive(n) == \E p \in transit : p[1][2] = n /\ (Ignore(p[1], p[2]) \/ Apply(p[1], p[2]))

Loop(n) == \/ \E t \in Types : Notify(n, t)
           \/ Receive(n)
           \/ \E ok \in BOOLEAN : ReadBack(n, ok)

\* The bound on announcements is reached.
Exhausted == \E n \in Nodes : lastTS[n] = MaxTS

Next == \/ \E n \in Copiers, value \in UserValues : UserCopy(n, value)
        \/ \E n \in Nodes, t \in Types : Watch(n, t)
        \/ \E n \in Nodes : Loop(n)
        \/ \E p \in transit : Lose(p)
        \/ Tick
        \/ (Quiet \/ Exhausted) /\ UNCHANGED vars

\* Go's scheduler runs every ready goroutine, and select serves every channel
\* that stays ready.
Fairness == /\ \A n \in Nodes, t \in Types : WF_vars(Watch(n, t)) /\ SF_vars(Notify(n, t))
            /\ \A n \in Nodes : SF_vars(Receive(n)) /\ WF_vars(Loop(n))

Safety == Init /\ [][Next]_vars

Spec == Safety /\ Fairness

-----------------------------------------------------------------------------
Origins == {"nobody", "user", "remote"}

TypeOK ==
  /\ clip \in [Nodes -> [val : [Types -> Contents \cup {None}], by : Origins]]
  /\ changed \in [Nodes -> SUBSET Types]
  /\ reading \in [Nodes -> SUBSET Types]
  /\ \A n \in Nodes, t \in Types :
       /\ notices[n][t] \in Seq([content : Contents, by : {"user", "remote"}])
       /\ Len(notices[n][t]) <= ChanCap + 1
  /\ loop \in [Nodes -> Messages \cup {None}]
  /\ \A n \in Nodes : echoes[n] \in Seq([key : Keys, expires : 1 .. MaxTicks + TTL])
                      /\ Len(echoes[n]) <= RingSize
  /\ lastTS \in [Nodes -> 0 .. MaxTS]
  /\ transit \subseteq Links \X Messages
  /\ now \in 0 .. MaxTicks

Announced(n, key) ==
  Cardinality({i \in DOMAIN sent :
                 sent[i].source = n /\ <<sent[i].type, sent[i].content>> = key})

Copied(n, key) ==
  Cardinality({i \in DOMAIN copied : copied[i].node = n /\ copied[i].value[key[1]] = key[2]})

Hushed(n, key) == Cardinality({i \in DOMAIN hushed[n] : hushed[n][i].key = key})

\* A node announces a content at most as often as a user copied it there: what
\* came from a peer is never announced again as a copy of this node's user,
\* whatever the network loses or reorders (loop.go: "used to prevent network
\* loops").
NoPhantomCopies == \A n \in Nodes, key \in Keys : Announced(n, key) <= Copied(n, key)

\* What the watchers of node n will still bring to the event loop under a key.
Pending(n, key) ==
  LET t == key[1]
  IN  Cardinality({i \in DOMAIN notices[n][t] : notices[n][t][i].content = key[2]})
      + IF t \in changed[n] \cup reading[n] /\ clip[n].val[t] = key[2] THEN 1 ELSE 0

\* The live markers of a key, with the one that the running handler will add.
Markers(n, key) ==
  Cardinality({i \in DOMAIN echoes[n] : echoes[n][i].key = key /\ echoes[n][i].expires > now})
  + IF loop[n] # None /\ <<loop[n].type, ReadsBack[n][loop[n].content]>> = key THEN 1 ELSE 0

\* Why that is so: of every content, the announcements made and the notices to
\* come never outnumber the user's copies and the markers.  A marker is there,
\* and alive, by the time its echo is taken; a user's copy that takes the marker
\* of an identical echo leaves its own place to that echo.
EchoesCovered ==
  \A n \in Nodes, key \in Keys :
    Announced(n, key) + Pending(n, key) <= Copied(n, key) + Markers(n, key)

\* Suppression is content-specific: a user's copy is only ever suppressed when a
\* remote write left that very content on this clipboard before (README: "un-
\* related copies are never blocked").
UnrelatedNeverBlocked ==
  \A n \in Nodes : \A i \in DOMAIN hushed[n] :
    hushed[n][i].by = "user" => hushed[n][i].key \in written[n]

\* The exchange dies out: no loop of announcements keeps the nodes busy.
ComesToRest == <>[]Quiet

\* What a user leaves on the clipboard is announced, or it is suppressed as
\* something this clipboard had from a peer, or it does not stay there.
CopyTakesEffect ==
  \A n \in Copiers, key \in Keys :
    (clip[n].by = "user" /\ clip[n].val[key[1]] = key[2])
      ~> \/ Announced(n, key) > 0 \/ Hushed(n, key) > 0
         \/ clip[n].by # "user" \/ clip[n].val[key[1]] # key[2]

\* When all copies are made at one node, every clipboard ends up with the last
\* one as it reads there, even if events arrive twice over parallel links.
SingleCopier == \A i, j \in DOMAIN copied : copied[i].node = copied[j].node

LastCopy(n, t) ==
  LET last == Last(copied)
  IN  IF n = last.node \/ last.value[t] = None THEN last.value[t]
                                                ELSE ReadsBack[n][last.value[t]]

Converges ==
  <>[](copied # << >> /\ SingleCopier
         => \A n \in Nodes, t \in Types : clip[n].val[t] = LastCopy(n, t))

\* A copy that a user makes while nothing is under way reaches every clipboard,
\* whatever was copied before: the event identifier "lets a user copy identical
\* content again without that new event being mistaken for an old duplicate"
\* (README), and a marker "suppresses only the clipboard notification caused by
\* a remote write".
CalmCopySpreads ==
  Quiet /\ copied # << >> /\ Last(copied).calm
    => \A n \in Nodes, t \in Types : clip[n].val[t] = LastCopy(n, t)
=============================================================================
