------------------------------ MODULE Inbound ------------------------------
(***************************************************************************)
(* The receiving side of a node: connections that bring frames             *)
(* (WireFormat), the readers that decode them (handleConn), the incoming   *)
(* channel, and the event loop's branch for incoming messages (node.go),   *)
(* with the ring it asks (EventRing) and the images it saves (ImageStore). *)
(*                                                                         *)
(* Peers of version 2 send events under their source names, peers of       *)
(* version 1 without any.  A peer may hold several connections, and the    *)
(* node may be a peer of itself.                                           *)
(***************************************************************************)
EXTENDS EventRing, WireFormat, ImageStore

CONSTANTS Conns,
          Sender,        \* Sender[c]: the source name of the peer behind c
          Makes,         \* Makes[source]: the contents of the messages a node may make
          TypeOf,        \* TypeOf[content]: its message type
          PayloadOf,     \* PayloadOf[content]
          Valid,         \* contents that validateFileOffer accepts
          FilesEnabled,
          IncomingCap,   \* capacity of Node.incoming: 32
          MaxMinted,     \* bound: events made by all nodes
          MaxBreaks,     \* bound: connections that break within a frame
          WriteMayFail   \* whether the system may refuse a clipboard write

ASSUME InboundAssumption ==
  /\ Sender \in [Conns -> Others \cup {Self}]
  /\ Makes \in [Others \cup {Self} -> SUBSET Contents]
  /\ TypeOf \in [Contents -> MessageTypes]
  /\ Valid \subseteq Contents
  /\ IncomingCap \in Nat \ {0}
  /\ {MaxMinted, MaxBreaks} \subseteq Nat
  /\ {FilesEnabled, WriteMayFail} \subseteq BOOLEAN
  /\ \A c \in Conns : Len(Sender[c]) <= MaxSourceSize
  /\ Contents \subseteq Nat /\ Others \cup {Self} \subseteq Seq(Nat)
  /\ PayloadOf \in [Contents -> Seq(Nat)]
  /\ \A content \in Contents :
       TypeOf[content] = TypeImage => Len(PayloadOf[content]) \in ImageSizes
  /\ Self # << >>   \* the host's name, or "unknown"

VARIABLES
  minted,      \* the messages made, by this node and by the others
  conns,       \* per connection: what is on its way, the last event sent on it, whether it
               \* is open, what its reader holds, and whether the reader has returned
  incoming,    \* Node.incoming
  fileOffers,  \* Node.fileOffers
  handled,     \* history: messages written to the clipboard, saved or offered for paste
  ignored      \* history: messages ignored as duplicates

netVars == <<minted, conns, incoming, fileOffers, handled, ignored>>
inboundVars == <<vars, imageVars, netVars>>

NewConn == [stream |-> << >>, last |-> 0, open |-> TRUE, held |-> << >>, done |-> FALSE]

InboundInit ==
  /\ Init /\ ImagesInit
  /\ minted = << >>
  /\ conns = [c \in Conns |-> NewConn]
  /\ incoming = << >> /\ fileOffers = << >>
  /\ handled = {} /\ ignored = {}

Legacy == << >>   \* no source name: a peer of version 1

\* Wrong: without the timestamp.
EventIDUntimed(m) == [content |-> m.content, source |-> m.source, ts |-> 0]

EventID(m) == [content |-> m.content, source |-> m.source, ts |-> m.ts]

NewMessage(content, source, ts) ==
  [version |-> IF source = Legacy THEN LegacyProtocolVersion ELSE ProtocolVersion,
   type |-> TypeOf[content], content |-> content, source |-> source, ts |-> ts,
   payload |-> PayloadOf[content]]

-----------------------------------------------------------------------------
(* The nodes that send *)

\* This node copies, and announces it; another node does.
LocalCopy(content, now) ==
  /\ Len(minted) < MaxMinted
  /\ content \in Makes[Self] /\ Copy(content, now)
  /\ minted' = Append(minted, NewMessage(content, Self, lastTS'))
  /\ UNCHANGED <<imageVars, conns, incoming, fileOffers, handled, ignored>>

PeerCopies(source, content) ==
  /\ Len(minted) < MaxMinted /\ content \in Makes[source]
  /\ minted' = Append(minted, NewMessage(content, source,
                                IF source = Legacy THEN 0 ELSE Len(minted) + 1))
  /\ UNCHANGED <<vars, imageVars, conns, incoming, fileOffers, handled, ignored>>

\* A peer's writer sends its events in order; it may have dropped some.
Frame(m) == IF m.source = Legacy THEN EncodeLegacy(m) ELSE Encode(m)

PeerSends(c, i) ==
  /\ conns[c].open /\ i > conns[c].last
  /\ minted[i].source = Sender[c] /\ Encodable(minted[i])
  /\ conns' = [conns EXCEPT ![c].stream = @ \o Frame(minted[i]), ![c].last = i]
  /\ UNCHANGED <<vars, imageVars, minted, incoming, fileOffers, handled, ignored>>

\* The connection ends with something on its way, which is cut off anywhere; one
\* that ends otherwise is like one on which nothing more is sent.  Within the machine
\* nothing breaks.
Breaks(c, k) ==
  /\ Sender[c] # Self /\ conns[c].open /\ k < Len(conns[c].stream)
  /\ Cardinality({d \in Conns : ~ conns[d].open}) < MaxBreaks
  /\ conns' = [conns EXCEPT ![c].stream = SubSeq(@, 1, k), ![c].open = FALSE]
  /\ UNCHANGED <<vars, imageVars, minted, incoming, fileOffers, handled, ignored>>

-----------------------------------------------------------------------------
(* handleConn *)

\* The deferred conn.Close; whoever sends on it finds it closed.
Return(c) == conns' = [conns EXCEPT ![c] = [NewConn EXCEPT !.last = conns[c].last, !.open = FALSE,
                                                           !.done = TRUE]]

\* Decode: the next message, if it is not a fetch, which ends the connection.
Reads(c) ==
  LET decoded == Decode(conns[c].stream) IN
  /\ ~ conns[c].done /\ conns[c].held = << >>
  /\ IF decoded.result = "message"
       THEN IF decoded.msg.type = TypeFileFetch THEN Return(c)
            ELSE conns' = [conns EXCEPT ![c].held = <<decoded.msg>>, ![c].stream = decoded.rest]
       ELSE (decoded.result = "refused" \/ ~ conns[c].open) /\ Return(c)
  /\ UNCHANGED <<vars, imageVars, minted, incoming, fileOffers, handled, ignored>>

\* Wrong: whether there is room or not.
PassesOnAnyway(c) ==
  /\ conns[c].held # << >>
  /\ incoming' = incoming \o conns[c].held
  /\ conns' = [conns EXCEPT ![c].held = << >>]
  /\ UNCHANGED <<vars, imageVars, minted, fileOffers, handled, ignored>>

\* The reader waits for room in the channel.
PassesOn(c) ==
  /\ conns[c].held # << >> /\ Len(incoming) < IncomingCap
  /\ incoming' = incoming \o conns[c].held
  /\ conns' = [conns EXCEPT ![c].held = << >>]
  /\ UNCHANGED <<vars, imageVars, minted, fileOffers, handled, ignored>>

-----------------------------------------------------------------------------
(* The event loop's branch for incoming messages *)

\* Nothing happens but that the message is gone.
Skip == UNCHANGED <<vars, imageVars, minted, conns, fileOffers, handled, ignored>>

IgnoreDuplicate(m) ==
  /\ RingContains(ring, EventID(m))
  /\ ignored' = ignored \cup {m}
  /\ UNCHANGED <<vars, imageVars, minted, conns, fileOffers, handled>>

\* Text and images: written to the clipboard, remembered, and images saved.
Apply(m) ==
  /\ m.type \in {TypeText, TypeImage}
  /\ Accept(EventID(m))
  /\ IF m.type = TypeImage THEN SaveImage(Len(m.payload)) ELSE UNCHANGED imageVars
  /\ handled' = handled \cup {m}
  /\ UNCHANGED <<minted, conns, fileOffers, ignored>>

\* An offer replaces the one that the paste handler has not taken.
TakeOffer(m) ==
  /\ m.type = TypeFileOffer /\ FilesEnabled /\ m.content \in Valid
  /\ Accept(EventID(m))
  /\ fileOffers' = <<m>>
  /\ handled' = handled \cup {m}
  /\ UNCHANGED <<imageVars, minted, conns, ignored>>

\* A write that fails, an offer that is not wanted or not valid, other types.
Unusable(m) ==
  \/ m.type \in {TypeText, TypeImage} /\ WriteMayFail
  \/ m.type = TypeFileOffer /\ ~ (FilesEnabled /\ m.content \in Valid)
  \/ m.type \in {TypePing, TypePong}

Drop(m) == ~ RingContains(ring, EventID(m)) /\ Unusable(m) /\ Skip

LoopTakesMessage ==
  /\ incoming # << >> /\ incoming' = Tail(incoming)
  /\ LET m == Head(incoming) IN IgnoreDuplicate(m) \/ Apply(m) \/ TakeOffer(m) \/ Drop(m)

-----------------------------------------------------------------------------
Network == \/ \E content \in Contents, source \in Others : PeerCopies(source, content)
           \/ \E c \in Conns, i \in DOMAIN minted : PeerSends(c, i)
           \/ \E c \in Conns : \E k \in 0 .. Len(conns[c].stream) : Breaks(c, k)

InboundNext ==
  \/ \E content \in Contents, now \in 0 .. MaxTime : LocalCopy(content, now)
  \/ Network
  \/ \E c \in Conns : Reads(c) \/ PassesOn(c)
  \/ LoopTakesMessage

InboundSpec == InboundInit /\ [][InboundNext]_inboundVars

-----------------------------------------------------------------------------
InboundTypeOK ==
  /\ TypeOK /\ ImagesTypeOK
  /\ \A c \in Conns :
       /\ conns[c].last \in 0 .. Len(minted)
       /\ Len(conns[c].held) <= 1
       /\ conns[c].done => ~ conns[c].open /\ conns[c].stream = << >>
  /\ Len(incoming) <= IncomingCap
  /\ Len(fileOffers) <= 1

\* Whatever is cut off, and whichever versions meet, what the loop acts on is
\* a message as its sender made it: no frame is torn, joined or misread.
HandledWereMade == \A m \in handled \cup ignored : \E i \in DOMAIN minted : minted[i] = m

\* Only what was handled before, or came from this node, is ignored: a message
\* of version 2 is never taken for another one (README: identical content copied
\* again is not "mistaken for an old duplicate"), whichever peers of version 1
\* bring the same content.
OnlyDuplicatesIgnored ==
  \A m \in ignored : m.version = ProtocolVersion => m \in handled \/ m.source = Self
=============================================================================
