-------------------------- MODULE PeerLink_proofs --------------------------
(***************************************************************************)
(* Theorems about PeerLink for every set of links, every capacity and      *)
(* every bound: the types; that Peer.Run never leaks a connection; where   *)
(* the events of a link are and in which order; and that the path of an    *)
(* event implements the safety part of LossyLink.                          *)
(***************************************************************************)
EXTENDS PeerLink, TLAPS

\* RingBuffer.Add keeps the shape of the receiver's ring.
LEMMA RingAddShape ==
  ASSUME NEW r, NEW e \in Events,
         r.buf \in [Slots -> Events \cup {None}], r.pos \in Slots, r.count \in 0 .. RingSize
  PROVE  /\ RingAdd(r, e).buf \in [Slots -> Events \cup {None}]
         /\ RingAdd(r, e).pos \in Slots
         /\ RingAdd(r, e).count \in 0 .. RingSize
  BY RingSizeAssumption DEF RingAdd, Slots

LEMMA EmptyRingShape ==
  /\ EmptyRing(None).buf \in [Slots -> Events \cup {None}]
  /\ EmptyRing(None).pos \in Slots
  /\ EmptyRing(None).count \in 0 .. RingSize
  BY RingSizeAssumption DEF EmptyRing, Slots

\* An action leaves the types of the variables alone that it does not touch.
LEMMA UntouchedTypes ==
  /\ SenderType /\ UNCHANGED senderVars => SenderType'
  /\ PeerType /\ UNCHANGED peerVars => PeerType'
  /\ NetType /\ UNCHANGED netVars => NetType'
  /\ ReceiverType /\ UNCHANGED receiverVars => ReceiverType'
  /\ LossType /\ UNCHANGED lossVars => LossType'
  BY DEF senderVars, peerVars, netVars, receiverVars, lossVars,
         SenderType, PeerType, NetType, ReceiverType, RingType, LossType

LEMMA InitType == Init => TypeOK
<1> SUFFICES ASSUME Init PROVE TypeOK
  OBVIOUS
<1> USE PeerLinkAssumption DEF Init, Events, Dials
<1>1. SenderType /\ PeerType /\ NetType /\ LossType
  BY DEF SenderType, PeerType, NetType, LossType
<1>2. ReceiverType
  BY EmptyRingShape DEF ReceiverType, RingType
<1> QED BY <1>1, <1>2 DEF TypeOK

\* The sender's event loop.
LEMMA SenderStepType == TypeOK /\ (Announce \/ Cancel \/ Stop) => TypeOK'
<1> SUFFICES ASSUME TypeOK, Announce \/ Cancel \/ Stop PROVE TypeOK'
  OBVIOUS
<1> USE PeerLinkAssumption, UntouchedTypes DEF TypeOK
<1>1. CASE Announce
  <2>1. announced + 1 \in Events /\ SenderType'
    BY <1>1 DEF Announce, SenderType, Events
  <2>2. PeerType'
    BY <1>1, <2>1 DEF Announce, PeerType
  <2>3. LossType'
    BY <1>1, <2>1 DEF Announce, LossType, Pairs
  <2> QED BY <1>1, <2>1, <2>2, <2>3 DEF Announce
<1>2. CASE Cancel
  <2>1. SenderType'
    BY <1>2 DEF Cancel, SenderType
  <2> QED BY <1>2, <2>1 DEF Cancel
<1>3. CASE Stop
  <2>1. SenderType' /\ PeerType' /\ NetType'
    BY <1>3 DEF Stop, CloseConns, SenderType, PeerType, NetType
  <2> QED BY <1>3, <2>1 DEF Stop
<1> QED BY <1>1, <1>2, <1>3

\* Peer.Run.
LEMMA PeerStepType == ASSUME TypeOK, NEW l \in Links, PeerRun(l) PROVE TypeOK'
<1> USE PeerLinkAssumption, UntouchedTypes DEF TypeOK, Goto
<1>1. CASE Connect(l) \/ DialFails(l) \/ SeeDone(l)
  <2>1. PeerType'
    BY <1>1 DEF Connect, DialFails, SeeDone, PeerType
  <2> QED BY <1>1, <2>1 DEF Connect, DialFails, SeeDone
<1>2. CASE DialSucceeds(l)
  <2>1. dials[l] + 1 \in Dials /\ dials'[l] = dials[l] + 1
    BY <1>2 DEF DialSucceeds, PeerType, Dials
  <2>2. /\ dials' \in [Links -> 0 .. MaxConns]
        /\ conn' \in [Links -> Dials \cup {None}]
        /\ UNCHANGED <<queue, held>>
    BY <1>2, <2>1 DEF DialSucceeds, PeerType, Dials
  <2>3. /\ pc' \in [Links -> {"connect", "dial", "select", "write", "close", "done"}]
        /\ \A k \in Links : pc'[k] = "write" => held[k] # None
    <3>1. pc' = [pc EXCEPT ![l] = IF held[l] = None THEN "select" ELSE "write"]
      BY <1>2 DEF DialSucceeds
    <3> QED BY <3>1 DEF PeerType
  <2>4. PeerType'
    BY <2>2, <2>3 DEF PeerType
  <2>5. NetType'
    BY <1>2, <2>1 DEF DialSucceeds, NetType
  <2> QED BY <1>2, <2>5, <2>4 DEF DialSucceeds
<1>3. CASE Take(l)
  <2>1. PeerType'
    <3>1. Head(queue[l]) \in Events /\ Head(queue[l]) # None
          /\ Tail(queue[l]) \in Seq(Events) /\ Len(Tail(queue[l])) <= SendCap
      BY <1>3 DEF Take, PeerType, Events
    <3> QED BY <1>3, <3>1 DEF Take, PeerType
  <2> QED BY <1>3, <2>1 DEF Take
<1>4. CASE EncodeRefuses(l)
  <2>1. held[l] \in Events
    BY <1>4 DEF EncodeRefuses, Events
  <2>2. PeerType' /\ LossType'
    BY <1>4, <2>1 DEF EncodeRefuses, Release, PeerType, LossType, Pairs
  <2> QED BY <1>4, <2>2 DEF EncodeRefuses
<1>5. CASE WriteSucceeds(l)
  <2>1. held[l] \in Events /\ conn[l] \in Dials
    BY <1>5 DEF WriteSucceeds, PeerType
  <2>2. PeerType'
    BY <1>5 DEF WriteSucceeds, Release, PeerType
  <2>3. NetType'
    <3> DEFINE longer == Append(wire[l][conn[l]], held[l])
    <3>1. longer \in Seq(Events)
      BY <2>1 DEF NetType
    <3>2. UNCHANGED wire \/ wire' = [wire EXCEPT ![l][conn[l]] = longer]
      BY <1>5 DEF WriteSucceeds
    <3>3. UNCHANGED status
      BY <1>5 DEF WriteSucceeds
    <3> HIDE DEF longer
    <3>4. wire' \in [Links -> [Dials -> Seq(Events)]]
      <4>1. PICK c \in Dials : conn[l] = c
        BY <2>1
      <4>2. CASE UNCHANGED wire
        BY <4>2 DEF NetType
      <4>3. CASE wire' = [wire EXCEPT ![l][c] = longer]
        BY <3>1, <4>3 DEF NetType
      <4> QED BY <3>2, <4>1, <4>2, <4>3
    <3> QED BY <3>3, <3>4 DEF NetType
  <2>4. LossType'
    BY <1>5, <2>1 DEF WriteSucceeds, LossType, Pairs
  <2> QED BY <1>5, <2>2, <2>3, <2>4 DEF WriteSucceeds
<1>6. CASE WriteFails(l)
  <2>1. PeerType'
    BY <1>6 DEF WriteFails, PeerType
  <2> QED BY <1>6, <2>1 DEF WriteFails
<1>7. CASE CloseConn(l)
  <2>1. PeerType' /\ NetType'
    BY <1>7 DEF CloseConn, CloseConns, PeerType, NetType
  <2> QED BY <1>7, <2>1 DEF CloseConn
<1> QED BY <1>1, <1>2, <1>3, <1>4, <1>5, <1>6, <1>7 DEF PeerRun

\* What is under way are pairs of a link and an event.
LEMMA UnderWayType == TypeOK => OnWire \subseteq Pairs /\ AtReceiver \subseteq Pairs
<1> SUFFICES ASSUME TypeOK PROVE OnWire \subseteq Pairs /\ AtReceiver \subseteq Pairs
  OBVIOUS
<1>1. OnWire \subseteq Pairs
  BY DEF OnWire, Pairs, TypeOK, NetType
<1>2. \A i \in DOMAIN incoming : incoming[i][1] \in Links /\ incoming[i][3] \in Events
  BY DEF TypeOK, ReceiverType
<1>3. \A l \in Links, d \in Dials : reader[l][d] # None => reader[l][d] \in Events
  BY DEF TypeOK, ReceiverType
<1>4. AtReceiver \subseteq Pairs
  BY <1>2, <1>3 DEF AtReceiver, Pairs
<1> QED BY <1>1, <1>4

\* The network.
LEMMA BreakType ==
  ASSUME TypeOK, NEW l \in Links, NEW d \in Dials, NEW n \in 0 .. Len(wire[l][d]), Break(l, d, n)
  PROVE  TypeOK'
<1> USE PeerLinkAssumption, UntouchedTypes DEF TypeOK
<1>1. wire[l][d] \in Seq(Events)
  BY DEF NetType
<1>2. SubSeq(wire[l][d], 1, n) \in Seq(Events)
  BY <1>1
<1>3. NetType'
  BY <1>2 DEF Break, NetType
<1>4. LossType'
  BY <1>1 DEF Break, LossType, Pairs
<1> QED BY <1>3, <1>4 DEF Break

\* The receiver's readers.
LEMMA ReaderStepType ==
  ASSUME TypeOK, NEW l \in Links, NEW d \in Dials, Read(l, d) \/ PassOn(l, d)
  PROVE  TypeOK'
<1> USE PeerLinkAssumption, UntouchedTypes DEF TypeOK
<1>1. CASE Read(l, d)
  <2>1. wire[l][d] \in Seq(Events) /\ wire[l][d] # << >>
    BY <1>1 DEF Read, NetType
  <2>2. Head(wire[l][d]) \in Events /\ Tail(wire[l][d]) \in Seq(Events)
    BY <2>1
  <2>3. NetType'
    BY <1>1, <2>2 DEF Read, NetType
  <2>4. ReceiverType'
    BY <1>1, <2>2 DEF Read, ReceiverType, RingType
  <2> QED BY <1>1, <2>3, <2>4 DEF Read
<1>2. CASE PassOn(l, d)
  <2>1. reader[l][d] \in Events
    BY <1>2 DEF PassOn, ReceiverType
  <2>2. ReceiverType'
    BY <1>2, <2>1 DEF PassOn, ReceiverType, RingType
  <2> QED BY <1>2, <2>2 DEF PassOn
<1> QED BY <1>1, <1>2

\* The receiver's event loop.
LEMMA HandleType == ASSUME TypeOK, NEW outcome \in Outcomes, Handle(outcome) PROVE TypeOK'
<1> USE PeerLinkAssumption, UntouchedTypes DEF TypeOK
<1> DEFINE m == Head(incoming)
<1>1. m \in Links \X Dials \X Events /\ Tail(incoming) \in Seq(Links \X Dials \X Events)
      /\ Len(Tail(incoming)) <= IncomingCap
  BY DEF Handle, ReceiverType
<1>2. RingType'
  <2>1. m[3] \in Events
    BY <1>1
  <2>2. ring' = IF outcome = "applied" THEN RingAdd(ring, m[3]) ELSE ring
    BY DEF Handle
  <2> HIDE DEF m
  <2> QED BY <2>1, <2>2, RingAddShape DEF ReceiverType, RingType
<1>3. handled' \in Seq(Done)
  <2> DEFINE h == [link |-> m[1], dial |-> m[2], event |-> m[3],
                   outcome |-> outcome, life |-> restarts]
  <2>1. handled' = Append(handled, h)
    BY DEF Handle
  <2>2. h \in Done
    BY <1>1 DEF Done, ReceiverType
  <2> HIDE DEF h
  <2> QED BY <2>1, <2>2 DEF ReceiverType
<1>4. ReceiverType'
  BY <1>1, <1>2, <1>3 DEF Handle, ReceiverType
<1> QED BY <1>4 DEF Handle

LEMMA RestartType == TypeOK /\ Restart => TypeOK'
<1> SUFFICES ASSUME TypeOK, Restart PROVE TypeOK'
  OBVIOUS
<1> USE PeerLinkAssumption, UntouchedTypes DEF TypeOK
<1>1. NetType'
  BY DEF Restart, NetType
<1>2. ReceiverType'
  BY EmptyRingShape DEF Restart, ReceiverType, RingType
<1>3. LossType'
  BY UnderWayType DEF Restart, LossType
<1> QED BY <1>1, <1>2, <1>3 DEF Restart

LEMMA StepType == TypeOK /\ [Next]_vars => TypeOK'
<1> SUFFICES ASSUME TypeOK, [Next]_vars PROVE TypeOK'
  OBVIOUS
<1>1. CASE UNCHANGED vars
  BY <1>1, UntouchedTypes DEF vars, TypeOK
<1> QED BY <1>1, SenderStepType, PeerStepType, BreakType, ReaderStepType, HandleType, RestartType
        DEF Next

\* Every variable keeps its type: in particular the send queue and the incoming
\* channel never hold more than their capacities, the ring's write position
\* never leaves the array, and writeLoop never writes without a message.
THEOREM TypeCorrect == Safety => []TypeOK
  BY InitType, StepType, PTL DEF Safety

-----------------------------------------------------------------------------
\* A step of one link's Peer.Run leaves the connections of the others alone.
LEMMA LeakStep == TypeOK /\ NoConnectionLeak /\ [Next]_vars => NoConnectionLeak'
<1> SUFFICES ASSUME TypeOK, NoConnectionLeak, [Next]_vars,
                    NEW k \in Links, NEW c \in Dials, status'[k][c] = "open"
             PROVE  conn'[k] = c /\ pc'[k] \in {"select", "write", "close"}
  BY DEF NoConnectionLeak
<1> USE PeerLinkAssumption DEF TypeOK, NoConnectionLeak, Goto, Release
<1>1. CASE Announce \/ Cancel
  BY <1>1 DEF Announce, Cancel, netVars, peerVars
<1>2. CASE Stop
  BY <1>2 DEF Stop, CloseConns, PeerType, NetType
<1>3. ASSUME NEW l \in Links, PeerRun(l)
      PROVE  conn'[k] = c /\ pc'[k] \in {"select", "write", "close"}
  <2>1. CASE Connect(l) \/ DialFails(l) \/ Take(l) \/ SeeDone(l)
    BY <2>1 DEF Connect, DialFails, Take, SeeDone, PeerType, netVars
  <2>2. CASE DialSucceeds(l)
    <3>1. dials'[l] \in Dials
      BY <2>2 DEF DialSucceeds, PeerType, Dials
    <3> QED BY <2>2, <3>1 DEF DialSucceeds, PeerType, NetType
  <2>3. CASE EncodeRefuses(l) \/ WriteSucceeds(l) \/ WriteFails(l)
    BY <2>3 DEF EncodeRefuses, WriteSucceeds, WriteFails, PeerType, netVars
  <2>4. CASE CloseConn(l)
    BY <2>4 DEF CloseConn, CloseConns, PeerType, NetType
  <2> QED BY <1>3, <2>1, <2>2, <2>3, <2>4 DEF PeerRun
<1>4. ASSUME NEW l \in Links, NEW d \in Dials, NEW n \in 0 .. Len(wire[l][d]), Break(l, d, n)
      PROVE  conn'[k] = c /\ pc'[k] \in {"select", "write", "close"}
  BY <1>4 DEF Break, NetType, peerVars
<1>5. ASSUME NEW l \in Links, NEW d \in Dials, Read(l, d) \/ PassOn(l, d)
      PROVE  conn'[k] = c /\ pc'[k] \in {"select", "write", "close"}
  BY <1>5 DEF Read, PassOn, netVars, peerVars
<1>6. CASE \E outcome \in Outcomes : Handle(outcome)
  BY <1>6 DEF Handle, netVars, peerVars
<1>7. CASE Restart
  BY <1>7 DEF Restart, peerVars
<1>8. CASE UNCHANGED vars
  BY <1>8 DEF vars, netVars, peerVars
<1> QED BY <1>1, <1>2, <1>3, <1>4, <1>5, <1>6, <1>7, <1>8 DEF Next

\* Peer.Run never leaks a connection: whatever the interleaving of its dials
\* with Peer.Close, with the end of the context and with breaking connections,
\* an open connection is the one in Peer.conn of a writer that is still there.
THEOREM NoLeak == Safety => []NoConnectionLeak
<1>1. Init => NoConnectionLeak
  BY DEF Init, NoConnectionLeak
<1> QED BY <1>1, LeakStep, TypeCorrect, PTL DEF Safety


-----------------------------------------------------------------------------
(* Where an event is *)

InQueue(l, e)       == \E i \in DOMAIN queue[l] : queue[l][i] = e
InWire(l, d, e)     == \E i \in DOMAIN wire[l][d] : wire[l][d][i] = e
InIncoming(l, d, e) == \E i \in DOMAIN incoming : incoming[i] = <<l, d, e>>
InHandled(l, d, e)  == \E i \in DOMAIN handled : /\ handled[i].link = l /\ handled[i].dial = d
                                                 /\ handled[i].event = e

\* Not written yet.
Ahead(l, e) == InQueue(l, e) \/ held[l] = e

\* Written to connection d, and not lost.
OnDial(l, d, e) ==
  InWire(l, d, e) \/ reader[l][d] = e \/ InIncoming(l, d, e) \/ InHandled(l, d, e)

Gone(l, e) == <<l, e>> \in lost \/ <<l, e>> \in refused

\* The writer is done with it.
Passed(l, e) == Gone(l, e) \/ \E d \in Dials : OnDial(l, d, e)

-----------------------------------------------------------------------------
(* The inductive invariant: the path of a link *)

IdleInv == \A l \in Links : pc[l] = "select" => held[l] = None

QueueOrder ==
  \A l \in Links :
    /\ \A i, j \in DOMAIN queue[l] : i < j => queue[l][i] < queue[l][j]
    /\ held[l] # None => \A i \in DOMAIN queue[l] : held[l] < queue[l][i]

ExactlyAnnounced ==
  \A l \in Links, e \in Events :
    e <= announced <=> (Ahead(l, e) \/ Passed(l, e) \/ <<l, e>> \in dropped)

PassedBefore ==
  \A l \in Links, e, f \in Events : Passed(l, e) /\ Ahead(l, f) => e < f

DroppedApart ==
  \A l \in Links, e \in Events : <<l, e>> \in dropped => ~ Ahead(l, e) /\ ~ Passed(l, e)

Classes == ExactlyAnnounced /\ PassedBefore /\ DroppedApart

\* A later connection carries later events only.
DialOrder ==
  /\ \A l \in Links, c, d \in Dials, e, f \in Events :
       OnDial(l, c, e) /\ OnDial(l, d, f) /\ c < d => e < f
  /\ \A l \in Links, d \in Dials, e \in Events : OnDial(l, d, e) => d <= dials[l]
  /\ \A l \in Links : conn[l] \in {None, dials[l]}

GoneApart ==
  /\ lost \cap refused = {}
  /\ \A l \in Links, d \in Dials, e \in Events : Gone(l, e) => ~ OnDial(l, d, e)

-----------------------------------------------------------------------------
(* The inductive invariant: the order within a connection *)

WireOrder ==
  \A l \in Links, d \in Dials :
    /\ \A i, j \in DOMAIN wire[l][d] : i < j => wire[l][d][i] < wire[l][d][j]
    /\ reader[l][d] # None => \A i \in DOMAIN wire[l][d] : reader[l][d] < wire[l][d][i]

IncomingOrder ==
  /\ \A i, j \in DOMAIN incoming :
       i < j /\ incoming[i][1] = incoming[j][1] /\ incoming[i][2] = incoming[j][2]
         => incoming[i][3] < incoming[j][3]
  /\ \A l \in Links, d \in Dials, e, f \in Events :
       InIncoming(l, d, e) /\ (reader[l][d] = f \/ InWire(l, d, f)) => e < f

HandledOrder ==
  /\ \A i, j \in DOMAIN handled :
       i < j /\ handled[i].link = handled[j].link /\ handled[i].dial = handled[j].dial
         => handled[i].event < handled[j].event
  /\ \A l \in Links, d \in Dials, e, f \in Events :
       InHandled(l, d, e) /\ (InIncoming(l, d, f) \/ reader[l][d] = f \/ InWire(l, d, f)) => e < f

PathInv == /\ TypeOK /\ IdleInv /\ QueueOrder /\ Classes /\ DialOrder /\ GoneApart
           /\ WireOrder /\ IncomingOrder /\ HandledOrder

-----------------------------------------------------------------------------
LEMMA EventFacts == Events \subseteq Nat /\ Dials \subseteq Nat /\ None \notin Events /\ None \notin Dials
  BY PeerLinkAssumption DEF Events, Dials

\* What the variables of a link hold.
LEMMA LinkFacts ==
  ASSUME TypeOK, NEW l \in Links
  PROVE  /\ queue[l] \in Seq(Events) /\ Len(queue[l]) \in Nat
         /\ held[l] \in Events \cup {None}
         /\ dials[l] \in Nat
         /\ \A d \in Dials : /\ wire[l][d] \in Seq(Events) /\ Len(wire[l][d]) \in Nat
                             /\ reader[l][d] \in Events \cup {None}
  BY PeerLinkAssumption DEF TypeOK, PeerType, NetType, ReceiverType

LEMMA AppendFacts ==
  ASSUME NEW S, NEW q \in Seq(S), NEW x, NEW r, r = Append(q, x)
  PROVE  /\ Len(q) \in Nat /\ Len(q) + 1 \in DOMAIN r /\ r[Len(q) + 1] = x
         /\ \A i \in DOMAIN q : /\ i \in Nat /\ i < Len(q) + 1 /\ q[i] \in S
                                /\ i \in DOMAIN r /\ r[i] = q[i]
         /\ \A i \in DOMAIN r : /\ i \in Nat
                                /\ (i \in DOMAIN q /\ r[i] = q[i]) \/ (i = Len(q) + 1 /\ r[i] = x)
  OBVIOUS

LEMMA TailFacts ==
  ASSUME NEW S, NEW q \in Seq(S), q # << >>
  PROVE  /\ Head(q) = q[1] /\ q[1] \in S /\ 1 \in DOMAIN q /\ DOMAIN q \subseteq Nat
         /\ \A i \in DOMAIN Tail(q) : /\ i \in Nat /\ i + 1 \in DOMAIN q /\ 1 < i + 1
                                      /\ Tail(q)[i] = q[i + 1] /\ Tail(q)[i] \in S
         /\ \A i \in DOMAIN q : i = 1 \/ (i - 1 \in DOMAIN Tail(q) /\ Tail(q)[i - 1] = q[i])
<1>1. Len(q) \in Nat /\ Len(q) > 0 /\ DOMAIN q = 1 .. Len(q)
  OBVIOUS
<1>2. Tail(q) \in Seq(S) /\ Len(Tail(q)) = Len(q) - 1 /\ DOMAIN Tail(q) = 1 .. Len(q) - 1
  BY <1>1
<1>3. \A i \in 1 .. Len(q) - 1 : Tail(q)[i] = q[i + 1]
  BY <1>1
<1> QED BY <1>1, <1>2, <1>3

LEMMA TripleFacts ==
  ASSUME NEW A, NEW B, NEW C, NEW x \in A \X B \X C
  PROVE  x[1] \in A /\ x[2] \in B /\ x[3] \in C /\ x = <<x[1], x[2], x[3]>>
  OBVIOUS

LEMMA SameClasses ==
  ASSUME Classes, UNCHANGED <<announced, dropped>>,
         \A l \in Links, e \in Events : /\ Ahead(l, e)' <=> Ahead(l, e)
                                        /\ Passed(l, e)' <=> Passed(l, e)
  PROVE  Classes'
  BY DEF Classes, ExactlyAnnounced, PassedBefore, DroppedApart

\* The writer is done with the event it holds.
LEMMA HeldPasses ==
  ASSUME PathInv, NEW l \in Links, NEW g \in Events, held[l] = g,
         held' = [held EXCEPT ![l] = None], UNCHANGED <<announced, dropped, queue>>,
         \A k \in Links, e \in Events :
           Passed(k, e)' <=> (Passed(k, e) \/ (k = l /\ e = g))
  PROVE  /\ QueueOrder' /\ Classes'
         /\ ~ Passed(l, g) /\ \A e \in Events : Passed(l, e) => e < g
<1> USE EventFacts, LinkFacts DEF PathInv
<1>1. Ahead(l, g) /\ ~ InQueue(l, g)
  BY DEF Ahead, InQueue, QueueOrder
<1>2. held' \in [Links -> Events \cup {None}] /\ held'[l] = None
      /\ \A k \in Links : k # l => held'[k] = held[k]
  BY DEF TypeOK, PeerType
<1>3. \A k \in Links, e \in Events : Ahead(k, e)' <=> (Ahead(k, e) /\ ~ (k = l /\ e = g))
  BY <1>1, <1>2 DEF Ahead, InQueue
<1>4. QueueOrder'
  BY <1>2 DEF QueueOrder
<1>5. \A e \in Events : Ahead(l, e) => g <= e
  BY DEF Ahead, InQueue, QueueOrder
<1>6. \A e \in Events : Passed(l, e) => e < g
  BY <1>1 DEF Classes, PassedBefore
<1>7. ~ Passed(l, g)
  BY <1>6
<1>8. ExactlyAnnounced' /\ DroppedApart'
  BY <1>1, <1>3, <1>7 DEF Classes, ExactlyAnnounced, DroppedApart
<1>9. PassedBefore'
  BY <1>3, <1>5 DEF Classes, PassedBefore
<1> QED BY <1>4, <1>6, <1>7, <1>8, <1>9 DEF Classes

\* The streams stay the same, and so does the side of the writer, but for its
\* program counter and a connection that is dialled or closed.
LEMMA SamePath ==
  ASSUME PathInv, UNCHANGED <<announced, dropped, queue, held, lost, refused>>,
         \A l \in Links, d \in Dials, e \in Events : OnDial(l, d, e)' <=> OnDial(l, d, e),
         \A l \in Links : /\ dials'[l] \in Nat /\ dials[l] <= dials'[l]
                          /\ conn'[l] \in {None, dials'[l]}
  PROVE  QueueOrder' /\ Classes' /\ DialOrder' /\ GoneApart'
<1> USE EventFacts, LinkFacts DEF PathInv
<1>1. \A l \in Links, e \in Events : /\ Ahead(l, e)' <=> Ahead(l, e)
                                     /\ Gone(l, e)' <=> Gone(l, e)
  BY DEF Ahead, InQueue, Gone
<1>2. Classes'
  <2>1. \A l \in Links, e \in Events : Passed(l, e)' <=> Passed(l, e)
    BY <1>1 DEF Passed
  <2> QED BY <1>1, <2>1, SameClasses
<1>3. DialOrder'
  BY DEF DialOrder
<1>4. GoneApart'
  BY <1>1 DEF GoneApart
<1>5. QueueOrder'
  BY DEF QueueOrder
<1> QED BY <1>2, <1>3, <1>4, <1>5

LEMMA StreamUntouched ==
  ASSUME PathInv, UNCHANGED <<wire, reader, incoming, handled>>
  PROVE  /\ WireOrder' /\ IncomingOrder' /\ HandledOrder'
         /\ \A l \in Links, d \in Dials, e \in Events : OnDial(l, d, e)' <=> OnDial(l, d, e)
<1>1. \A l \in Links, d \in Dials, e \in Events :
        /\ InWire(l, d, e)' <=> InWire(l, d, e)
        /\ InIncoming(l, d, e)' <=> InIncoming(l, d, e)
        /\ InHandled(l, d, e)' <=> InHandled(l, d, e)
  BY DEF InWire, InIncoming, InHandled
<1> QED BY <1>1 DEF PathInv, WireOrder, IncomingOrder, HandledOrder, OnDial

\* Steps of the writer that move no event.
LEMMA StayingStep ==
  ASSUME PathInv, TypeOK', IdleInv',
         UNCHANGED <<announced, dropped, queue, held, lost, refused>>,
         UNCHANGED <<wire, reader, incoming, handled>>,
         \A l \in Links : /\ dials'[l] \in Nat /\ dials[l] <= dials'[l]
                          /\ conn'[l] \in {None, dials'[l]}
  PROVE  PathInv'
  BY StreamUntouched, SamePath DEF PathInv

LEMMA SenderPath == PathInv /\ TypeOK' /\ (Announce \/ Cancel \/ Stop) => PathInv'
<1> SUFFICES ASSUME PathInv, TypeOK', Announce \/ Cancel \/ Stop PROVE PathInv'
  OBVIOUS
<1> USE EventFacts, LinkFacts DEF PathInv
<1>1. CASE Announce
  <2> DEFINE new == announced + 1
  <2>1. new \in Events /\ announced \in Nat /\ announced' = new
    BY <1>1, PeerLinkAssumption DEF Announce, TypeOK, SenderType, Events
  <2>2. /\ UNCHANGED <<held, conn, dials, pc, lost, refused>>
        /\ UNCHANGED <<wire, reader, incoming, handled>>
    BY <1>1 DEF Announce, netVars, receiverVars
  <2>3. \A l \in Links, e \in Events : Passed(l, e)' <=> Passed(l, e)
    BY <2>2, StreamUntouched DEF Passed, Gone
  <2> DEFINE full(l) == Len(queue[l]) = SendCap
  <2>4. ASSUME NEW l \in Links
        PROVE  queue'[l] = IF full(l) THEN queue[l] ELSE Append(queue[l], new)
    BY <1>1, PeerLinkAssumption DEF Announce, TypeOK, PeerType
  <2>5. ASSUME NEW l \in Links, NEW e \in Events
        PROVE  <<l, e>> \in dropped' <=> (<<l, e>> \in dropped \/ (e = new /\ full(l)))
    BY <1>1 DEF Announce
  <2> HIDE DEF new, full
  <2>6. ASSUME NEW l \in Links, NEW e \in Events
        PROVE  InQueue(l, e)' <=> (InQueue(l, e) \/ (e = new /\ ~ full(l)))
    <3>1. queue[l] \in Seq(Events)
      OBVIOUS
    <3>2. CASE full(l)
      BY <2>4, <3>2 DEF InQueue
    <3>3. CASE ~ full(l)
      <4>1. queue'[l] = Append(queue[l], new)
        BY <2>4, <3>3
      <4> QED BY <3>1, <3>3, <4>1, AppendFacts DEF InQueue
    <3> QED BY <3>2, <3>3
  <2>7. ASSUME NEW l \in Links, NEW e \in Events
        PROVE  /\ Ahead(l, e)' <=> (Ahead(l, e) \/ (e = new /\ ~ full(l)))
               /\ Ahead(l, e) \/ Passed(l, e) \/ <<l, e>> \in dropped => e < new
    <3>1. InQueue(l, e)' <=> (InQueue(l, e) \/ (e = new /\ ~ full(l)))
      BY <2>6
    <3>2. e <= announced <=> e < new
      BY <2>1 DEF new
    <3> QED BY <2>2, <3>1, <3>2 DEF Ahead, Classes, ExactlyAnnounced
  <2>8. Classes'
    <3>1. ExactlyAnnounced'
      <4>1. \A e \in Events : e <= new <=> (e <= announced \/ e = new)
        BY <2>1 DEF new
      <4> QED BY <2>1, <2>3, <2>5, <2>7, <4>1 DEF Classes, ExactlyAnnounced
    <3>2. PassedBefore'
      BY <2>3, <2>7 DEF Classes, PassedBefore
    <3>3. DroppedApart'
      BY <2>3, <2>5, <2>7 DEF Classes, DroppedApart
    <3> QED BY <3>1, <3>2, <3>3 DEF Classes
  <2>9. QueueOrder'
    <3> SUFFICES ASSUME NEW l \in Links
                 PROVE  /\ \A i, j \in DOMAIN queue'[l] : i < j => queue'[l][i] < queue'[l][j]
                        /\ held'[l] # None => \A i \in DOMAIN queue'[l] : held'[l] < queue'[l][i]
      BY DEF QueueOrder
    <3>1. \A i \in DOMAIN queue[l] : queue[l][i] \in Events /\ queue[l][i] < new
      <4>1. \A i \in DOMAIN queue[l] : queue[l][i] \in Events
        OBVIOUS
      <4> QED BY <2>7, <4>1 DEF Ahead, InQueue
    <3>2. held[l] # None => held[l] < new
      BY <2>7 DEF Ahead
    <3>3. CASE full(l)
      BY <2>2, <2>4, <3>3 DEF QueueOrder
    <3>4. CASE ~ full(l)
      <4>1. queue'[l] = Append(queue[l], new) /\ queue[l] \in Seq(Events)
        BY <2>4, <3>4
      <4>2. \A i \in DOMAIN queue'[l] :
              (i \in DOMAIN queue[l] /\ queue'[l][i] = queue[l][i]) \/ (i = Len(queue[l]) + 1 /\ queue'[l][i] = new)
        BY <4>1, AppendFacts
      <4>3. \A i \in DOMAIN queue[l] : i \in Nat /\ i < Len(queue[l]) + 1
        BY <4>1, AppendFacts
      <4> QED BY <2>2, <3>1, <3>2, <4>2, <4>3 DEF QueueOrder
    <3> QED BY <3>3, <3>4
  <2>10. DialOrder' /\ GoneApart' /\ IdleInv'
    BY <2>2, StreamUntouched DEF DialOrder, GoneApart, Gone, IdleInv
  <2> QED BY <2>2, <2>8, <2>9, <2>10, StreamUntouched
<1>2. CASE Cancel \/ Stop
  <2>1. /\ UNCHANGED <<announced, dropped, queue, held, lost, refused, pc, dials>>
        /\ UNCHANGED <<wire, reader, incoming, handled>>
        /\ conn' = conn \/ conn' = [l \in Links |-> None]
    BY <1>2 DEF Cancel, Stop, peerVars, netVars, receiverVars, lossVars
  <2>2. IdleInv'
    BY <2>1 DEF IdleInv
  <2>3. \A l \in Links : conn[l] \in {None, dials[l]} /\ dials[l] \in Nat
    BY DEF DialOrder
  <2>4. \A l \in Links : conn'[l] \in {None, dials'[l]} /\ dials'[l] = dials[l]
    BY ONLY <2>1, <2>3
  <2>5. \A l \in Links : dials'[l] \in Nat /\ dials[l] <= dials'[l]
    BY ONLY <2>3, <2>4
  <2> QED BY ONLY PathInv, TypeOK', <2>1, <2>2, <2>4, <2>5, StayingStep
<1> QED BY <1>1, <1>2

\* The message of a write reached the connection d of link l.
LEMMA WrittenPath ==
  ASSUME PathInv, NEW l \in Links, NEW g \in Events, NEW d \in Dials, d = dials[l],
         wire[l][d] \in Seq(Events), wire' = [wire EXCEPT ![l][d] = Append(wire[l][d], g)],
         UNCHANGED <<reader, incoming, handled, lost, refused, conn, dials>>,
         \A e \in Events : Passed(l, e) => e < g
  PROVE  /\ \A k \in Links, e \in Events : Passed(k, e)' <=> (Passed(k, e) \/ (k = l /\ e = g))
         /\ DialOrder' /\ GoneApart' /\ WireOrder' /\ IncomingOrder' /\ HandledOrder'
<1> USE EventFacts, LinkFacts DEF PathInv
<1>1. /\ wire'[l][d] = Append(wire[l][d], g)
      /\ \A k \in Links, c \in Dials : ~ (k = l /\ c = d) => wire'[k][c] = wire[k][c]
  BY DEF TypeOK, NetType
<1>2. ASSUME NEW k \in Links, NEW c \in Dials, NEW e \in Events
      PROVE  InWire(k, c, e)' <=> (InWire(k, c, e) \/ (k = l /\ c = d /\ e = g))
  <2>1. CASE k = l /\ c = d
    <3>1. /\ Len(wire[l][d]) + 1 \in DOMAIN wire'[l][d] /\ wire'[l][d][Len(wire[l][d]) + 1] = g
          /\ \A i \in DOMAIN wire[l][d] : i \in DOMAIN wire'[l][d] /\ wire'[l][d][i] = wire[l][d][i]
          /\ \A i \in DOMAIN wire'[l][d] :
               (i \in DOMAIN wire[l][d] /\ wire'[l][d][i] = wire[l][d][i]) \/ wire'[l][d][i] = g
      BY ONLY wire[l][d] \in Seq(Events), <1>1, AppendFacts
    <3>2. InWire(l, d, e)' <=> (InWire(l, d, e) \/ e = g)
      BY ONLY <3>1 DEF InWire
    <3> QED BY <2>1, <3>2
  <2>2. CASE ~ (k = l /\ c = d)
    BY <1>1, <2>2 DEF InWire
  <2> QED BY <2>1, <2>2
<1>3. ASSUME NEW k \in Links, NEW c \in Dials, NEW e \in Events
      PROVE  /\ OnDial(k, c, e)' <=> (OnDial(k, c, e) \/ (k = l /\ c = d /\ e = g))
             /\ InIncoming(k, c, e)' <=> InIncoming(k, c, e)
             /\ InHandled(k, c, e)' <=> InHandled(k, c, e)
             /\ Gone(k, e)' <=> Gone(k, e)
  <2>1. InIncoming(k, c, e)' <=> InIncoming(k, c, e)
    BY DEF InIncoming
  <2>2. InHandled(k, c, e)' <=> InHandled(k, c, e)
    BY DEF InHandled
  <2>3. InWire(k, c, e)' <=> (InWire(k, c, e) \/ (k = l /\ c = d /\ e = g))
    BY <1>2
  <2> QED BY <2>1, <2>2, <2>3 DEF OnDial, Gone
<1>4. \A k \in Links, e \in Events : Passed(k, e)' <=> (Passed(k, e) \/ (k = l /\ e = g))
  BY <1>3 DEF Passed
<1>5. \A c \in Dials, e \in Events : OnDial(l, c, e) => e < g /\ c <= d
  BY DEF Passed, DialOrder
<1>6. DialOrder'
  <2>1. ASSUME NEW k \in Links, NEW b \in Dials, NEW c \in Dials, NEW e \in Events, NEW f \in Events,
               OnDial(k, b, e)', OnDial(k, c, f)', b < c
        PROVE  e < f
    <3>1. CASE OnDial(k, b, e) /\ OnDial(k, c, f)
      BY <2>1, <3>1 DEF DialOrder
    <3>2. CASE k = l /\ c = d /\ f = g /\ OnDial(k, b, e)
      BY <1>5, <3>2
    <3>3. CASE k = l /\ b = d /\ OnDial(k, c, f)
      BY <1>5, <2>1, <3>3
    <3> QED BY <1>3, <2>1, <3>1, <3>2, <3>3
  <2>2. \A k \in Links, c \in Dials, e \in Events : OnDial(k, c, e)' => c <= dials'[k]
    BY <1>3 DEF DialOrder
  <2>3. \A k \in Links : conn'[k] \in {None, dials'[k]}
    BY DEF DialOrder
  <2> QED BY <2>1, <2>2, <2>3 DEF DialOrder
<1>7. GoneApart'
  <2>1. ~ Gone(l, g)
    BY DEF Passed
  <2> QED BY <1>3, <2>1 DEF GoneApart
<1>8. WireOrder'
  <2>1. ASSUME NEW i \in DOMAIN wire[l][d] PROVE wire[l][d][i] \in Events /\ wire[l][d][i] < g
    <3>1. wire[l][d][i] \in Events
      BY ONLY i \in DOMAIN wire[l][d], wire[l][d] \in Seq(Events)
    <3>2. OnDial(l, d, wire[l][d][i])
      BY DEF InWire, OnDial
    <3> QED BY ONLY d \in Dials, <1>5, <3>1, <3>2
  <2>2. reader[l][d] # None => reader[l][d] < g
    BY <1>5 DEF OnDial
  <2>3. \A i \in DOMAIN wire'[l][d] :
          (i \in DOMAIN wire[l][d] /\ wire'[l][d][i] = wire[l][d][i])
            \/ (i = Len(wire[l][d]) + 1 /\ wire'[l][d][i] = g)
    BY <1>1, AppendFacts
  <2>4. \A i \in DOMAIN wire[l][d] : i \in Nat /\ i < Len(wire[l][d]) + 1
    BY <1>1, AppendFacts
  <2>5. /\ \A i, j \in DOMAIN wire[l][d] : i < j => wire[l][d][i] < wire[l][d][j]
        /\ reader[l][d] # None => \A i \in DOMAIN wire[l][d] : reader[l][d] < wire[l][d][i]
    BY DEF WireOrder
  <2>6. \A i, j \in DOMAIN wire'[l][d] : i < j => wire'[l][d][i] < wire'[l][d][j]
    BY ONLY <2>1, <2>3, <2>4, <2>5, g \in Events, EventFacts
  <2>7. reader[l][d] # None => \A i \in DOMAIN wire'[l][d] : reader[l][d] < wire'[l][d][i]
    BY ONLY <2>2, <2>3, <2>5
  <2>8. ASSUME NEW k \in Links, NEW c \in Dials, ~ (k = l /\ c = d)
        PROVE  /\ \A i, j \in DOMAIN wire'[k][c] : i < j => wire'[k][c][i] < wire'[k][c][j]
               /\ reader[k][c] # None => \A i \in DOMAIN wire'[k][c] : reader[k][c] < wire'[k][c][i]
    BY <1>1, <2>8 DEF WireOrder
  <2> QED BY ONLY <2>6, <2>7, <2>8, UNCHANGED reader DEF WireOrder
<1>9. IncomingOrder'
  <2>1. \A e \in Events : InIncoming(l, d, e) => e < g
    BY <1>5 DEF OnDial
  <2> QED BY <1>2, <1>3, <2>1 DEF IncomingOrder
<1>10. HandledOrder'
  <2>1. \A e \in Events : InHandled(l, d, e) => e < g
    BY <1>5 DEF OnDial
  <2> QED BY <1>2, <1>3, <2>1 DEF HandledOrder
<1> QED BY <1>4, <1>6, <1>7, <1>8, <1>9, <1>10

\* The event goes with its connection, or Encode refuses it.
LEMMA DiscardedPath ==
  ASSUME PathInv, NEW l \in Links, NEW g \in Events,
         UNCHANGED <<wire, reader, incoming, handled, conn, dials>>,
         \/ lost' = lost \cup {<<l, g>>} /\ UNCHANGED refused
         \/ refused' = refused \cup {<<l, g>>} /\ UNCHANGED lost,
         ~ Passed(l, g)
  PROVE  /\ \A k \in Links, e \in Events : Passed(k, e)' <=> (Passed(k, e) \/ (k = l /\ e = g))
         /\ DialOrder' /\ GoneApart' /\ WireOrder' /\ IncomingOrder' /\ HandledOrder'
<1>1. \A k \in Links, e \in Events : Gone(k, e)' <=> (Gone(k, e) \/ (k = l /\ e = g))
  BY DEF Gone
<1>2. /\ WireOrder' /\ IncomingOrder' /\ HandledOrder'
      /\ \A k \in Links, c \in Dials, e \in Events : OnDial(k, c, e)' <=> OnDial(k, c, e)
  BY StreamUntouched
<1>3. GoneApart'
  BY <1>1, <1>2 DEF PathInv, GoneApart, Passed, Gone
<1> QED BY <1>1, <1>2, <1>3 DEF PathInv, Passed, DialOrder

LEMMA WriterPath == ASSUME PathInv, TypeOK', NEW l \in Links, PeerRun(l) PROVE PathInv'
<1> USE EventFacts DEF Goto
<1>0. /\ TypeOK /\ IdleInv /\ pc \in [Links -> {"connect", "dial", "select", "write", "close", "done"}]
      /\ held \in [Links -> Events \cup {None}] /\ conn \in [Links -> Dials \cup {None}]
      /\ dials \in [Links -> 0 .. MaxConns] /\ MaxConns \in Nat
      /\ queue \in [Links -> Seq(Events)]
      /\ \A k \in Links : conn[k] \in {None, dials[k]}
  BY PeerLinkAssumption DEF PathInv, TypeOK, PeerType, DialOrder
<1>1. CASE Connect(l) \/ DialFails(l) \/ SeeDone(l) \/ WriteFails(l) \/ CloseConn(l)
  <2>1. /\ UNCHANGED <<announced, dropped, queue, held, lost, refused>>
        /\ UNCHANGED <<wire, reader, incoming, handled>> /\ UNCHANGED dials
        /\ conn' = conn \/ conn' = [conn EXCEPT ![l] = None]
    BY <1>1 DEF Connect, DialFails, SeeDone, WriteFails, CloseConn, netVars, receiverVars, lossVars,
                senderVars
  <2>2. \A k \in Links : /\ dials'[k] \in Nat /\ dials[k] <= dials'[k]
                         /\ conn'[k] \in {None, dials'[k]}
    BY <1>0, <2>1
  <2>3. IdleInv'
    BY <1>0, <1>1, <2>1 DEF Connect, DialFails, SeeDone, WriteFails, CloseConn, IdleInv
  <2> QED BY <2>1, <2>2, <2>3, StayingStep
<1>2. CASE DialSucceeds(l)
  <2>1. /\ UNCHANGED <<announced, dropped, queue, held, lost, refused>>
        /\ UNCHANGED <<wire, reader, incoming, handled>>
        /\ dials' = [dials EXCEPT ![l] = @ + 1] /\ conn' = [conn EXCEPT ![l] = dials'[l]]
    BY <1>2 DEF DialSucceeds, receiverVars, lossVars, senderVars
  <2>2. \A k \in Links : /\ dials'[k] \in Nat /\ dials[k] <= dials'[k]
                         /\ conn'[k] \in {None, dials'[k]}
    BY <1>0, <2>1
  <2>3. IdleInv'
    <3>1. pc' = [pc EXCEPT ![l] = IF held[l] = None THEN "select" ELSE "write"]
      BY <1>2 DEF DialSucceeds
    <3> QED BY <1>0, <2>1, <3>1 DEF IdleInv
  <2> QED BY <2>1, <2>2, <2>3, StayingStep
<1>3. CASE Take(l)
  <2>1. /\ UNCHANGED <<announced, dropped, lost, refused, conn, dials>>
        /\ UNCHANGED <<wire, reader, incoming, handled>>
        /\ queue[l] # << >> /\ held[l] = None /\ queue[l] \in Seq(Events)
        /\ held' = [held EXCEPT ![l] = Head(queue[l])]
        /\ queue' = [queue EXCEPT ![l] = Tail(queue[l])]
        /\ pc' = [pc EXCEPT ![l] = "write"]
    BY <1>0, <1>3 DEF Take, receiverVars, lossVars, senderVars, netVars, IdleInv
  <2> DEFINE q == queue[l]
  <2>2. PICK g \in Events : g = Head(q) /\ g = q[1]
    BY <2>1, TailFacts
  <2>3. /\ held'[l] = g /\ queue'[l] = Tail(q)
        /\ \A k \in Links : k # l => held'[k] = held[k] /\ queue'[k] = queue[k]
    BY <1>0, <2>1, <2>2
  <2>4. /\ \A i \in DOMAIN Tail(q) : /\ i \in Nat /\ i + 1 \in DOMAIN q /\ 1 < i + 1
                                     /\ Tail(q)[i] = q[i + 1] /\ Tail(q)[i] \in Events
        /\ \A i \in DOMAIN q : i = 1 \/ (i - 1 \in DOMAIN Tail(q) /\ Tail(q)[i - 1] = q[i])
        /\ 1 \in DOMAIN q
    BY <2>1, TailFacts
  <2>5. \A i, j \in DOMAIN q : i < j => q[i] < q[j]
    BY DEF PathInv, QueueOrder
  <2> HIDE DEF q
  <2>6. QueueOrder'
    <3>1. \A i, j \in DOMAIN Tail(q) : i < j => Tail(q)[i] < Tail(q)[j]
      <4>1. ASSUME NEW i \in DOMAIN Tail(q), NEW j \in DOMAIN Tail(q), i < j
            PROVE  Tail(q)[i] < Tail(q)[j]
        <5>1. i + 1 < j + 1 /\ i + 1 \in DOMAIN q /\ j + 1 \in DOMAIN q
          BY <2>4, <4>1
        <5> QED BY <2>4, <2>5, <5>1
      <4> QED BY <4>1
    <3>2. \A i \in DOMAIN Tail(q) : g < Tail(q)[i]
      BY <2>2, <2>4, <2>5
    <3> QED BY <2>3, <3>1, <3>2 DEF PathInv, QueueOrder
  <2>7. \A k \in Links, e \in Events : Ahead(k, e)' <=> Ahead(k, e)
    <3> SUFFICES ASSUME NEW k \in Links, NEW e \in Events PROVE Ahead(k, e)' <=> Ahead(k, e)
      OBVIOUS
    <3>1. CASE k = l
      <4>1. InQueue(l, e) <=> (e = g \/ InQueue(l, e)')
        <5>1. InQueue(l, e) <=> \E i \in DOMAIN q : q[i] = e
          BY DEF InQueue, q
        <5>2. InQueue(l, e)' <=> \E i \in DOMAIN Tail(q) : Tail(q)[i] = e
          BY <2>3 DEF InQueue
        <5> QED BY ONLY <2>2, <2>4, <5>1, <5>2
      <4> QED BY <2>1, <2>3, <3>1, <4>1 DEF Ahead
    <3>2. CASE k # l
      BY <2>3, <3>2 DEF Ahead, InQueue
    <3> QED BY <3>1, <3>2
  <2>8. Classes'
    <3>1. \A k \in Links, e \in Events : Passed(k, e)' <=> Passed(k, e)
      BY <2>1, StreamUntouched DEF Passed, Gone
    <3> QED BY <2>1, <2>7, <3>1, SameClasses DEF PathInv
  <2>9. DialOrder' /\ GoneApart'
    BY <2>1, StreamUntouched DEF PathInv, DialOrder, GoneApart, Gone
  <2>10. IdleInv'
    BY <1>0, <2>1 DEF IdleInv
  <2> QED BY <2>1, <2>6, <2>8, <2>9, <2>10, StreamUntouched DEF PathInv
<1>4. CASE EncodeRefuses(l)
  <2>1. PICK g \in Events : g = held[l]
    BY <1>0, <1>4 DEF EncodeRefuses, PathInv, TypeOK, PeerType
  <2>2. /\ UNCHANGED <<wire, reader, incoming, handled, conn, dials>>
        /\ UNCHANGED <<announced, dropped, queue, lost>>
        /\ refused' = refused \cup {<<l, g>>} /\ held' = [held EXCEPT ![l] = None]
        /\ pc' = [pc EXCEPT ![l] = "select"]
    BY <1>4, <2>1 DEF EncodeRefuses, Release, netVars, receiverVars, senderVars
  <2>3. ~ Passed(l, g)
    BY <2>1 DEF PathInv, Classes, PassedBefore, Ahead
  <2>4. /\ \A k \in Links, e \in Events : Passed(k, e)' <=> (Passed(k, e) \/ (k = l /\ e = g))
        /\ DialOrder' /\ GoneApart' /\ WireOrder' /\ IncomingOrder' /\ HandledOrder'
    BY <2>2, <2>3, DiscardedPath
  <2>5. QueueOrder' /\ Classes'
    BY <2>1, <2>2, <2>4, HeldPasses
  <2>6. IdleInv'
    BY <1>0, <2>2 DEF IdleInv
  <2> QED BY <2>4, <2>5, <2>6 DEF PathInv
<1>5. CASE WriteSucceeds(l)
  <2>1. PICK g \in Events : g = held[l]
    BY <1>0, <1>5 DEF WriteSucceeds, PathInv, TypeOK, PeerType
  <2>2. PICK d \in Dials : d = conn[l] /\ d = dials[l]
    BY <1>0, <1>5 DEF WriteSucceeds
  <2>3. /\ UNCHANGED <<reader, incoming, handled, conn, dials>>
        /\ UNCHANGED <<announced, dropped, queue, refused>>
        /\ held' = [held EXCEPT ![l] = None] /\ pc' = [pc EXCEPT ![l] = "select"]
    BY <1>5 DEF WriteSucceeds, Release, receiverVars, senderVars
  <2>4. \/ wire' = [wire EXCEPT ![l][d] = Append(wire[l][d], g)] /\ UNCHANGED lost
        \/ lost' = lost \cup {<<l, g>>} /\ UNCHANGED wire
    BY <1>5, <2>1, <2>2 DEF WriteSucceeds
  <2>5. ~ Passed(l, g) /\ \A e \in Events : Passed(l, e) => e < g
    BY <2>1 DEF PathInv, Classes, PassedBefore, Ahead
  <2>6. wire[l][d] \in Seq(Events)
    BY <1>0, LinkFacts
  <2>7. /\ \A k \in Links, e \in Events : Passed(k, e)' <=> (Passed(k, e) \/ (k = l /\ e = g))
        /\ DialOrder' /\ GoneApart' /\ WireOrder' /\ IncomingOrder' /\ HandledOrder'
    <3>1. CASE wire' = [wire EXCEPT ![l][d] = Append(wire[l][d], g)] /\ UNCHANGED lost
      BY <2>2, <2>3, <2>5, <2>6, <3>1, WrittenPath
    <3>2. CASE lost' = lost \cup {<<l, g>>} /\ UNCHANGED wire
      BY <2>3, <2>5, <3>2, DiscardedPath
    <3> QED BY <2>4, <3>1, <3>2
  <2>8. QueueOrder' /\ Classes'
    <3>1. UNCHANGED <<announced, dropped, queue>> /\ held[l] = g /\ held' = [held EXCEPT ![l] = None]
      BY <2>1, <2>3
    <3>2. \A k \in Links, e \in Events : Passed(k, e)' <=> (Passed(k, e) \/ (k = l /\ e = g))
      BY <2>7
    <3> QED BY <2>1, <3>1, <3>2, HeldPasses
  <2>9. IdleInv'
    BY <1>0, <2>3 DEF IdleInv
  <2> QED BY <2>7, <2>8, <2>9 DEF PathInv
<1> QED BY <1>1, <1>2, <1>3, <1>4, <1>5 DEF PeerRun

\* Steps of the receiver that keep every event on its connection.
LEMMA ReceiverSide ==
  ASSUME PathInv, UNCHANGED <<senderVars, peerVars, lossVars>>,
         \A l \in Links, d \in Dials, e \in Events : OnDial(l, d, e)' <=> OnDial(l, d, e)
  PROVE  IdleInv' /\ QueueOrder' /\ Classes' /\ DialOrder' /\ GoneApart'
<1>1. /\ UNCHANGED <<announced, dropped, queue, held, lost, refused, pc, dials, conn>>
      /\ IdleInv /\ \A l \in Links : dials[l] \in Nat /\ conn[l] \in {None, dials[l]}
  BY LinkFacts DEF senderVars, peerVars, lossVars, PathInv, DialOrder
<1>2. IdleInv'
  BY <1>1 DEF IdleInv
<1> QED BY <1>1, <1>2, SamePath

LEMMA ReadPath ==
  ASSUME PathInv, TypeOK', NEW l \in Links, NEW d \in Dials, Read(l, d)
  PROVE  PathInv'
<1> USE EventFacts
<1>0. TypeOK
  BY DEF PathInv
<1>w. PICK w \in Seq(Events) : w = wire[l][d]
  BY <1>0, LinkFacts
<1>1. /\ reader[l][d] = None /\ w # << >>
      /\ reader' = [reader EXCEPT ![l][d] = Head(w)]
      /\ wire' = [wire EXCEPT ![l][d] = Tail(w)]
      /\ UNCHANGED <<incoming, handled>> /\ UNCHANGED <<senderVars, peerVars, lossVars>>
  BY <1>w DEF Read
<1>2. PICK g \in Events : g = Head(w) /\ g = w[1]
  BY <1>0, <1>1, TailFacts
<1>3. /\ reader'[l][d] = g /\ wire'[l][d] = Tail(w)
      /\ \A k \in Links, c \in Dials : ~ (k = l /\ c = d) => /\ reader'[k][c] = reader[k][c]
                                                          /\ wire'[k][c] = wire[k][c]
  BY <1>0, <1>1, <1>2 DEF TypeOK, NetType, ReceiverType
<1>4. /\ \A i \in DOMAIN Tail(w) : /\ i \in Nat /\ i + 1 \in DOMAIN w /\ 1 < i + 1
                                   /\ Tail(w)[i] = w[i + 1] /\ Tail(w)[i] \in Events
      /\ \A i \in DOMAIN w : i = 1 \/ (i - 1 \in DOMAIN Tail(w) /\ Tail(w)[i - 1] = w[i])
      /\ 1 \in DOMAIN w
  BY <1>1, TailFacts
<1>5. \A i, j \in DOMAIN w : i < j => w[i] < w[j]
  BY <1>w DEF PathInv, WireOrder
<1>6. ASSUME NEW k \in Links, NEW c \in Dials, NEW e \in Events
      PROVE  (reader[k][c] = e \/ InWire(k, c, e))' <=> (reader[k][c] = e \/ InWire(k, c, e))
  <2>1. CASE k = l /\ c = d
    <3>1. InWire(l, d, e) <=> (e = g \/ InWire(l, d, e)')
      <4>1. InWire(l, d, e) <=> \E i \in DOMAIN w : w[i] = e
        BY <1>w DEF InWire
      <4>2. InWire(l, d, e)' <=> \E i \in DOMAIN Tail(w) : Tail(w)[i] = e
        BY <1>3 DEF InWire
      <4> QED BY ONLY <1>2, <1>4, <4>1, <4>2
    <3> QED BY <1>1, <1>3, <2>1, <3>1
  <2>2. CASE ~ (k = l /\ c = d)
    BY <1>3, <2>2 DEF InWire
  <2> QED BY <2>1, <2>2
<1>7. ASSUME NEW k \in Links, NEW c \in Dials, NEW e \in Events
      PROVE  /\ InIncoming(k, c, e)' <=> InIncoming(k, c, e)
             /\ InHandled(k, c, e)' <=> InHandled(k, c, e)
  BY <1>1 DEF InIncoming, InHandled
<1>8. IdleInv' /\ QueueOrder' /\ Classes' /\ DialOrder' /\ GoneApart'
  <2>1. \A k \in Links, c \in Dials, e \in Events : OnDial(k, c, e)' <=> OnDial(k, c, e)
    BY <1>6, <1>7 DEF OnDial
  <2> QED BY <1>1, <2>1, ReceiverSide
<1>9. WireOrder'
  <2>1. \A i, j \in DOMAIN Tail(w) : i < j => Tail(w)[i] < Tail(w)[j]
    <3>1. ASSUME NEW i \in DOMAIN Tail(w), NEW j \in DOMAIN Tail(w), i < j
          PROVE  Tail(w)[i] < Tail(w)[j]
      <4>1. i + 1 < j + 1 /\ i + 1 \in DOMAIN w /\ j + 1 \in DOMAIN w
        BY <1>4, <3>1
      <4> QED BY <1>4, <1>5, <4>1
    <3> QED BY <3>1
  <2>2. \A i \in DOMAIN Tail(w) : g < Tail(w)[i]
    BY <1>2, <1>4, <1>5
  <2>3. \A k \in Links, c \in Dials : ~ (k = l /\ c = d) =>
          /\ \A i, j \in DOMAIN wire'[k][c] : i < j => wire'[k][c][i] < wire'[k][c][j]
          /\ reader'[k][c] # None => \A i \in DOMAIN wire'[k][c] : reader'[k][c] < wire'[k][c][i]
    BY <1>3 DEF PathInv, WireOrder
  <2>4. /\ \A i, j \in DOMAIN wire'[l][d] : i < j => wire'[l][d][i] < wire'[l][d][j]
        /\ reader'[l][d] # None => \A i \in DOMAIN wire'[l][d] : reader'[l][d] < wire'[l][d][i]
    BY <1>3, <2>1, <2>2
  <2> QED BY <2>3, <2>4 DEF WireOrder
<1>10. IncomingOrder'
  BY <1>1, <1>6, <1>7 DEF PathInv, IncomingOrder
<1>11. HandledOrder'
  BY <1>1, <1>6, <1>7 DEF PathInv, HandledOrder
<1> QED BY <1>8, <1>9, <1>10, <1>11 DEF PathInv

LEMMA PassOnPath ==
  ASSUME PathInv, TypeOK', NEW l \in Links, NEW d \in Dials, PassOn(l, d)
  PROVE  PathInv'
<1> USE EventFacts
<1>0. TypeOK /\ incoming \in Seq(Links \X Dials \X Events)
  BY DEF PathInv, TypeOK, ReceiverType
<1>1. PICK g \in Events : g = reader[l][d]
  BY <1>0, LinkFacts DEF PassOn
<1>2. /\ incoming' = Append(incoming, <<l, d, g>>)
      /\ reader' = [reader EXCEPT ![l][d] = None]
      /\ UNCHANGED <<wire, handled>> /\ UNCHANGED <<senderVars, peerVars, lossVars>>
  BY <1>1 DEF PassOn, netVars
<1>3. /\ reader'[l][d] = None
      /\ \A k \in Links, c \in Dials : ~ (k = l /\ c = d) => reader'[k][c] = reader[k][c]
  BY <1>0, <1>2 DEF TypeOK, ReceiverType
<1> DEFINE n == Len(incoming) + 1
<1>4. /\ n \in DOMAIN incoming' /\ incoming'[n] = <<l, d, g>>
      /\ \A i \in DOMAIN incoming : /\ i \in Nat /\ i < n
                                    /\ i \in DOMAIN incoming' /\ incoming'[i] = incoming[i]
      /\ \A i \in DOMAIN incoming' :
           (i \in DOMAIN incoming /\ incoming'[i] = incoming[i])
             \/ (i = n /\ incoming'[i] = <<l, d, g>>)
  BY <1>0, <1>2, AppendFacts
<1> HIDE DEF n
<1>5. ASSUME NEW k \in Links, NEW c \in Dials, NEW e \in Events
      PROVE  /\ InIncoming(k, c, e)' <=> (InIncoming(k, c, e) \/ (k = l /\ c = d /\ e = g))
             /\ InHandled(k, c, e)' <=> InHandled(k, c, e)
             /\ InWire(k, c, e)' <=> InWire(k, c, e)
             /\ reader[k][c] = e <=> (reader'[k][c] = e \/ (k = l /\ c = d /\ e = g))
  <2>1. InIncoming(k, c, e)' <=> (InIncoming(k, c, e) \/ <<k, c, e>> = <<l, d, g>>)
    BY <1>4 DEF InIncoming
  <2>2. reader[k][c] = e <=> (reader'[k][c] = e \/ (k = l /\ c = d /\ e = g))
    BY <1>1, <1>3
  <2> QED BY <1>2, <2>1, <2>2 DEF InHandled, InWire
<1>6. IdleInv' /\ QueueOrder' /\ Classes' /\ DialOrder' /\ GoneApart'
  <2>1. \A k \in Links, c \in Dials, e \in Events : OnDial(k, c, e)' <=> OnDial(k, c, e)
    BY <1>5 DEF OnDial
  <2> QED BY <1>2, <2>1, ReceiverSide
<1>7. WireOrder'
  BY <1>2, <1>3 DEF PathInv, WireOrder
<1>8. IncomingOrder'
  <2>1. ASSUME NEW i \in DOMAIN incoming, incoming[i][1] = l, incoming[i][2] = d
        PROVE  incoming[i][3] < g
    <3>4. incoming[i] \in Links \X Dials \X Events
      BY <1>0
    <3>5. incoming[i][3] \in Events /\ incoming[i] = <<incoming[i][1], incoming[i][2], incoming[i][3]>>
      BY ONLY <3>4, TripleFacts
    <3>1. PICK e \in Events : e = incoming[i][3] /\ incoming[i] = <<l, d, e>>
      BY <2>1, <3>5
    <3>2. InIncoming(l, d, e)
      BY <3>1 DEF InIncoming
    <3>3. e < g
      BY <1>1, <3>2 DEF PathInv, IncomingOrder
    <3> QED BY <3>1, <3>3
  <2>2. \A i, j \in DOMAIN incoming' :
          i < j /\ incoming'[i][1] = incoming'[j][1] /\ incoming'[i][2] = incoming'[j][2]
            => incoming'[i][3] < incoming'[j][3]
    <3>1. \A i, j \in DOMAIN incoming :
            i < j /\ incoming[i][1] = incoming[j][1] /\ incoming[i][2] = incoming[j][2]
              => incoming[i][3] < incoming[j][3]
      BY DEF PathInv, IncomingOrder
    <3>4. PICK x : x = <<l, d, g>>
      OBVIOUS
    <3>2. x[1] = l /\ x[2] = d /\ x[3] = g
      BY ONLY <3>4
    <3>3. /\ \A i \in DOMAIN incoming : i \in Nat /\ i < n
          /\ n \in Nat
          /\ \A i \in DOMAIN incoming' :
               (i \in DOMAIN incoming /\ incoming'[i] = incoming[i]) \/ (i = n /\ incoming'[i] = x)
      BY <1>0, <1>4, <3>4 DEF n
    <3> QED BY ONLY <2>1, <3>1, <3>2, <3>3
  <2>3. \A e \in Events : InWire(l, d, e) => g < e
    BY <1>1 DEF PathInv, WireOrder, InWire
  <2>4. \A k \in Links, c \in Dials, e, f \in Events :
          InIncoming(k, c, e)' /\ (reader'[k][c] = f \/ InWire(k, c, f)') => e < f
    BY <1>3, <1>5, <2>3 DEF PathInv, IncomingOrder
  <2> QED BY <2>2, <2>4 DEF IncomingOrder
<1>9. HandledOrder'
  BY <1>2, <1>5 DEF PathInv, HandledOrder
<1> QED BY <1>6, <1>7, <1>8, <1>9 DEF PathInv

LEMMA HandlePath ==
  ASSUME PathInv, TypeOK', NEW outcome \in Outcomes, Handle(outcome)
  PROVE  PathInv'
<1> USE EventFacts
<1>0. TypeOK /\ incoming \in Seq(Links \X Dials \X Events) /\ handled \in Seq(Done) /\ incoming # << >>
  BY DEF PathInv, TypeOK, ReceiverType, Handle
<1>m. PICK m \in Links \X Dials \X Events : m = Head(incoming) /\ m = incoming[1]
  BY <1>0, TailFacts
<1>1. PICK l \in Links, d \in Dials, g \in Events :
        m[1] = l /\ m[2] = d /\ m[3] = g /\ m = <<l, d, g>>
  <2>1. m[1] \in Links /\ m[2] \in Dials /\ m[3] \in Events /\ m = <<m[1], m[2], m[3]>>
    BY ONLY <1>m, TripleFacts
  <2> QED BY ONLY <2>1
<1>h. PICK h : /\ h = [link |-> l, dial |-> d, event |-> g, outcome |-> outcome, life |-> restarts]
               /\ h.link = l /\ h.dial = d /\ h.event = g
  <2>1. PICK h : h = [link |-> l, dial |-> d, event |-> g, outcome |-> outcome, life |-> restarts]
    OBVIOUS
  <2>2. h.link = l /\ h.dial = d /\ h.event = g
    BY ONLY <2>1
  <2> QED BY ONLY <2>1, <2>2
<1>2. /\ incoming' = Tail(incoming) /\ handled' = Append(handled, h)
      /\ UNCHANGED <<wire, reader>> /\ UNCHANGED <<senderVars, peerVars, lossVars>>
  BY <1>m, <1>1, <1>h DEF Handle, netVars
<1> DEFINE n == Len(handled) + 1
<1>3. /\ n \in DOMAIN handled' /\ handled'[n] = h /\ n \in Nat
      /\ \A i \in DOMAIN handled : /\ i \in Nat /\ i < n
                                   /\ i \in DOMAIN handled' /\ handled'[i] = handled[i]
      /\ \A i \in DOMAIN handled' :
           (i \in DOMAIN handled /\ handled'[i] = handled[i]) \/ (i = n /\ handled'[i] = h)
  BY <1>0, <1>2, AppendFacts
<1> HIDE DEF n
<1>4. /\ \A i \in DOMAIN incoming' : /\ i \in Nat /\ i + 1 \in DOMAIN incoming /\ 1 < i + 1
                                     /\ incoming'[i] = incoming[i + 1]
      /\ \A i \in DOMAIN incoming : i = 1 \/ (i - 1 \in DOMAIN incoming' /\ incoming'[i - 1] = incoming[i])
      /\ 1 \in DOMAIN incoming
  BY <1>0, <1>2, TailFacts
<1>5. ASSUME NEW k \in Links, NEW c \in Dials, NEW e \in Events
      PROVE  /\ InHandled(k, c, e)' <=> (InHandled(k, c, e) \/ (k = l /\ c = d /\ e = g))
             /\ InIncoming(k, c, e) <=> (InIncoming(k, c, e)' \/ (k = l /\ c = d /\ e = g))
             /\ InWire(k, c, e)' <=> InWire(k, c, e)
             /\ reader'[k][c] = reader[k][c]
  <2>1. InHandled(k, c, e)' <=> (InHandled(k, c, e) \/ (k = l /\ c = d /\ e = g))
    BY <1>3, <1>h DEF InHandled
  <2>2. InIncoming(k, c, e) <=> (InIncoming(k, c, e)' \/ <<k, c, e>> = m)
    BY <1>m, <1>4 DEF InIncoming
  <2>3. <<k, c, e>> = m <=> (k = l /\ c = d /\ e = g)
    BY <1>1
  <2> QED BY <1>2, <2>1, <2>2, <2>3 DEF InWire
<1>6. IdleInv' /\ QueueOrder' /\ Classes' /\ DialOrder' /\ GoneApart'
  <2>1. \A k \in Links, c \in Dials, e \in Events : OnDial(k, c, e)' <=> OnDial(k, c, e)
    BY <1>5 DEF OnDial
  <2> QED BY <1>2, <2>1, ReceiverSide
<1>7. WireOrder'
  BY <1>2 DEF PathInv, WireOrder
<1>8. /\ \A i, j \in DOMAIN incoming :
           i < j /\ incoming[i][1] = incoming[j][1] /\ incoming[i][2] = incoming[j][2]
             => incoming[i][3] < incoming[j][3]
      /\ \A k \in Links, c \in Dials, e, f \in Events :
           InIncoming(k, c, e) /\ (reader[k][c] = f \/ InWire(k, c, f)) => e < f
  BY DEF PathInv, IncomingOrder
<1>9. IncomingOrder'
  <2>1. ASSUME NEW i \in DOMAIN incoming', NEW j \in DOMAIN incoming', i < j,
               incoming'[i][1] = incoming'[j][1], incoming'[i][2] = incoming'[j][2]
        PROVE  incoming'[i][3] < incoming'[j][3]
    <3>1. /\ i + 1 \in DOMAIN incoming /\ j + 1 \in DOMAIN incoming /\ i + 1 < j + 1
          /\ incoming'[i] = incoming[i + 1] /\ incoming'[j] = incoming[j + 1]
      BY ONLY <1>4, <2>1
    <3> QED BY ONLY <1>8, <2>1, <3>1
  <2>2. \A k \in Links, c \in Dials, e, f \in Events :
          InIncoming(k, c, e)' /\ (reader'[k][c] = f \/ InWire(k, c, f)') => e < f
    BY ONLY <1>5, <1>8
  <2> QED BY ONLY <2>1, <2>2 DEF IncomingOrder
<1>10. HandledOrder'
  <2>1. /\ \A i, j \in DOMAIN handled :
             i < j /\ handled[i].link = handled[j].link /\ handled[i].dial = handled[j].dial
               => handled[i].event < handled[j].event
        /\ \A k \in Links, c \in Dials, e, f \in Events :
             InHandled(k, c, e) /\ (InIncoming(k, c, f) \/ reader[k][c] = f \/ InWire(k, c, f)) => e < f
    BY DEF PathInv, HandledOrder
  <2>2. ASSUME NEW i \in DOMAIN handled, handled[i].link = l, handled[i].dial = d
        PROVE  handled[i].event < g
    <3>4. handled[i] \in Done
      BY ONLY <1>0, i \in DOMAIN handled
    <3>1. handled[i].event \in Events
      BY ONLY <3>4 DEF Done
    <3>2. InHandled(l, d, handled[i].event)
      BY <2>2 DEF InHandled
    <3>3. InIncoming(l, d, g)
      BY <1>5
    <3> QED BY ONLY l \in Links, d \in Dials, g \in Events, <2>1, <3>1, <3>2, <3>3
  <2>3. \A i, j \in DOMAIN handled' :
          i < j /\ handled'[i].link = handled'[j].link /\ handled'[i].dial = handled'[j].dial
            => handled'[i].event < handled'[j].event
    BY ONLY <1>3, <1>h, <2>1, <2>2
  <2>4. ASSUME NEW f \in Events, InIncoming(l, d, f)' PROVE g < f
    <3>1. PICK i \in DOMAIN incoming' : incoming'[i] = <<l, d, f>>
      BY <2>4 DEF InIncoming
    <3>2. /\ i + 1 \in DOMAIN incoming /\ 1 < i + 1 /\ 1 \in DOMAIN incoming
          /\ incoming[i + 1] = <<l, d, f>> /\ incoming[1] = <<l, d, g>>
      BY ONLY <1>m, <1>1, <1>4, <3>1
    <3> QED BY ONLY <1>8, <3>2
  <2>5. \A k \in Links, c \in Dials, e, f \in Events :
          InHandled(k, c, e)' /\ (InIncoming(k, c, f)' \/ reader'[k][c] = f \/ InWire(k, c, f)') => e < f
    BY ONLY <1>5, <1>8, <2>1, <2>4, l \in Links, d \in Dials, g \in Events
  <2> QED BY ONLY <2>3, <2>5 DEF HandledOrder
<1> QED BY <1>6, <1>7, <1>9, <1>10 DEF PathInv

\* Events that are lost with their connection were on it, and are no more.
LEMMA LosingPath ==
  ASSUME PathInv, UNCHANGED <<senderVars, peerVars, dropped, refused>>,
         lost \subseteq lost',
         \A l \in Links, e \in Events :
           <<l, e>> \in lost' => <<l, e>> \in lost \/ \E d \in Dials : OnDial(l, d, e),
         \A l \in Links, d \in Dials, e \in Events :
           /\ OnDial(l, d, e)' => OnDial(l, d, e) /\ <<l, e>> \notin lost'
           /\ OnDial(l, d, e) => OnDial(l, d, e)' \/ <<l, e>> \in lost',
         lost' \subseteq Pairs
  PROVE  IdleInv' /\ QueueOrder' /\ Classes' /\ DialOrder' /\ GoneApart'
<1> USE EventFacts
<1>1. /\ UNCHANGED <<announced, dropped, queue, held, pc, dials, conn>> /\ refused' = refused
  BY DEF senderVars, peerVars
<1>2. IdleInv' /\ QueueOrder'
  BY <1>1 DEF PathInv, IdleInv, QueueOrder
<1>3. \A l \in Links, e \in Events : Passed(l, e)' <=> Passed(l, e)
  BY <1>1 DEF Passed, Gone
<1>4. \A l \in Links, e \in Events : Ahead(l, e)' <=> Ahead(l, e)
  BY <1>1 DEF Ahead, InQueue
<1>5. Classes'
  BY <1>1, <1>3, <1>4, SameClasses DEF PathInv
<1>6. DialOrder'
  BY <1>1 DEF PathInv, DialOrder
<1>7. GoneApart'
  <2>1. ASSUME NEW p \in lost', p \in refused PROVE FALSE
    <3>5. p \in Pairs
      BY <2>1
    <3>1. PICK l \in Links, e \in Events : p = <<l, e>>
      BY ONLY <3>5 DEF Pairs
    <3>2. Gone(l, e)
      BY <2>1, <3>1 DEF Gone
    <3>3. p \notin lost
      BY <2>1 DEF PathInv, GoneApart
    <3>4. PICK d \in Dials : OnDial(l, d, e)
      BY <2>1, <3>1, <3>3
    <3> QED BY <3>2, <3>4 DEF PathInv, GoneApart
  <2>2. \A l \in Links, d \in Dials, e \in Events : Gone(l, e)' => ~ OnDial(l, d, e)'
    BY <1>1 DEF PathInv, GoneApart, Gone
  <2> QED BY <1>1, <2>1, <2>2 DEF GoneApart
<1> QED BY <1>2, <1>5, <1>6, <1>7

LEMMA BreakPath ==
  ASSUME PathInv, TypeOK', NEW l \in Links, NEW d \in Dials, NEW n \in 0 .. Len(wire[l][d]),
         Break(l, d, n)
  PROVE  PathInv'
<1> USE EventFacts
<1>0. TypeOK
  BY DEF PathInv
<1>w. PICK w \in Seq(Events) : w = wire[l][d]
  BY <1>0, LinkFacts
<1>1. /\ wire' = [wire EXCEPT ![l][d] = SubSeq(w, 1, n)]
      /\ lost' = lost \cup {<<l, w[i]>> : i \in n + 1 .. Len(w)}
      /\ UNCHANGED <<senderVars, peerVars, receiverVars, dropped, refused>>
      /\ Len(w) \in Nat /\ n \in 0 .. Len(w)
  BY <1>w DEF Break
<1>2. /\ wire'[l][d] = SubSeq(w, 1, n)
      /\ \A k \in Links, c \in Dials : ~ (k = l /\ c = d) => wire'[k][c] = wire[k][c]
  BY <1>0, <1>1 DEF TypeOK, NetType
<1>3. /\ DOMAIN SubSeq(w, 1, n) = 1 .. n /\ DOMAIN w = 1 .. Len(w)
      /\ \A i \in 1 .. n : SubSeq(w, 1, n)[i] = w[i]
  BY <1>1
<1>4. /\ \A i, j \in DOMAIN w : i < j => w[i] < w[j]
      /\ reader[l][d] # None => \A i \in DOMAIN w : reader[l][d] < w[i]
      /\ \A i \in DOMAIN w : w[i] \in Events
  BY <1>w DEF PathInv, WireOrder
<1>5. /\ UNCHANGED <<reader, incoming, handled>>
      /\ \A k \in Links, c \in Dials, e \in Events : /\ InIncoming(k, c, e)' <=> InIncoming(k, c, e)
                                                     /\ InHandled(k, c, e)' <=> InHandled(k, c, e)
  BY <1>1 DEF receiverVars, InIncoming, InHandled
<1> DEFINE Cut(e) == \E i \in n + 1 .. Len(w) : w[i] = e
           Kept(e) == \E i \in 1 .. n : w[i] = e
<1>6. /\ \A e \in Events : InWire(l, d, e) <=> (Cut(e) \/ Kept(e))
      /\ \A e \in Events : InWire(l, d, e)' <=> Kept(e)
      /\ \A e \in Events : ~ (Cut(e) /\ Kept(e))
  <2>1. \A e \in Events : InWire(l, d, e) <=> (Cut(e) \/ Kept(e))
    BY <1>w, <1>1, <1>3 DEF InWire
  <2>2. \A e \in Events : InWire(l, d, e)' <=> Kept(e)
    BY <1>2, <1>3 DEF InWire
  <2>3. \A i \in 1 .. n, j \in n + 1 .. Len(w) : w[i] < w[j]
    BY <1>1, <1>3, <1>4
  <2>4. \A e \in Events : ~ (Cut(e) /\ Kept(e))
    BY <1>1, <1>3, <1>4, <2>3
  <2> QED BY <2>1, <2>2, <2>4
<1>7. \A k \in Links, c \in Dials, e \in Events :
        ~ (k = l /\ c = d) => (InWire(k, c, e)' <=> InWire(k, c, e))
  BY <1>2 DEF InWire
<1>8. \A k \in Links, e \in Events : <<k, e>> \in lost' <=> (<<k, e>> \in lost \/ (k = l /\ Cut(e)))
  BY <1>1
<1>9. \A e \in Events : Cut(e) => /\ OnDial(l, d, e) /\ ~ OnDial(l, d, e)'
  <2> SUFFICES ASSUME NEW e \in Events, Cut(e) PROVE OnDial(l, d, e) /\ ~ OnDial(l, d, e)'
    OBVIOUS
  <2>1. InWire(l, d, e) /\ ~ InWire(l, d, e)'
    BY <1>6
  <2>2. reader[l][d] # e
    BY <1>3, <1>4
  <2>5. \A b, f \in Events : (InIncoming(l, d, b) \/ InHandled(l, d, b)) /\ InWire(l, d, f) => b < f
    BY DEF PathInv, IncomingOrder, HandledOrder
  <2>3. ~ InIncoming(l, d, e)
    BY ONLY e \in Events, EventFacts, <2>1, <2>5
  <2>4. ~ InHandled(l, d, e)
    BY ONLY e \in Events, EventFacts, <2>1, <2>5
  <2> QED BY <1>5, <2>1, <2>2, <2>3, <2>4 DEF OnDial
<1> HIDE DEF Cut, Kept
<1>10. \A k \in Links, c \in Dials, e \in Events :
         /\ OnDial(k, c, e)' => OnDial(k, c, e)
         /\ OnDial(k, c, e) => OnDial(k, c, e)' \/ (k = l /\ c = d /\ Cut(e))
  <2> SUFFICES ASSUME NEW k \in Links, NEW c \in Dials, NEW e \in Events
               PROVE  /\ OnDial(k, c, e)' => OnDial(k, c, e)
                      /\ OnDial(k, c, e) => OnDial(k, c, e)' \/ (k = l /\ c = d /\ Cut(e))
    OBVIOUS
  <2>1. /\ InWire(k, c, e)' => InWire(k, c, e)
        /\ InWire(k, c, e) => InWire(k, c, e)' \/ (k = l /\ c = d /\ Cut(e))
    BY <1>6, <1>7
  <2> QED BY <1>5, <2>1 DEF OnDial
<1>11. ASSUME NEW k \in Links, NEW c \in Dials, NEW e \in Events, OnDial(k, c, e)'
       PROVE  <<k, e>> \notin lost'
  <2>1. OnDial(k, c, e)
    BY <1>10, <1>11
  <2>2. <<k, e>> \notin lost
    BY <2>1 DEF PathInv, GoneApart, Gone
  <2>3. ASSUME k = l, Cut(e) PROVE FALSE
    <3>1. OnDial(l, d, e) /\ c # d
      BY <1>9, <1>11, <2>3
    <3>2. c < d \/ d < c
      BY <3>1
    <3> QED BY <2>1, <2>3, <3>1, <3>2 DEF PathInv, DialOrder
  <2> QED BY <1>8, <2>2, <2>3
<1>12. IdleInv' /\ QueueOrder' /\ Classes' /\ DialOrder' /\ GoneApart'
  <2>1. lost' \subseteq Pairs /\ lost \subseteq lost'
    BY <1>1 DEF TypeOK, LossType
  <2>2. \A k \in Links, e \in Events :
          <<k, e>> \in lost' => <<k, e>> \in lost \/ \E c \in Dials : OnDial(k, c, e)
    BY <1>8, <1>9
  <2>3. \A k \in Links, c \in Dials, e \in Events : OnDial(k, c, e) => OnDial(k, c, e)' \/ <<k, e>> \in lost'
    BY <1>8, <1>10
  <2> QED BY <1>1, <1>10, <1>11, <2>1, <2>2, <2>3, LosingPath
<1>13. WireOrder'
  <2>1. /\ \A i, j \in 1 .. n : i < j => w[i] < w[j]
        /\ reader[l][d] # None => \A i \in 1 .. n : reader[l][d] < w[i]
    BY <1>1, <1>3, <1>4
  <2>2. /\ \A i, j \in DOMAIN wire'[l][d] : i < j => wire'[l][d][i] < wire'[l][d][j]
        /\ reader'[l][d] # None => \A i \in DOMAIN wire'[l][d] : reader'[l][d] < wire'[l][d][i]
    BY <1>2, <1>3, <1>5, <2>1
  <2>3. ASSUME NEW k \in Links, NEW c \in Dials, ~ (k = l /\ c = d)
        PROVE  /\ \A i, j \in DOMAIN wire'[k][c] : i < j => wire'[k][c][i] < wire'[k][c][j]
               /\ reader'[k][c] # None => \A i \in DOMAIN wire'[k][c] : reader'[k][c] < wire'[k][c][i]
    BY <1>2, <1>5, <2>3 DEF PathInv, WireOrder
  <2> QED BY ONLY <2>2, <2>3 DEF WireOrder
<1>14. \A k \in Links, c \in Dials, e \in Events : InWire(k, c, e)' => InWire(k, c, e)
  BY <1>6, <1>7
<1>15. IncomingOrder' /\ HandledOrder'
  <2>1. IncomingOrder /\ HandledOrder
    BY DEF PathInv
  <2> QED BY ONLY <1>5, <1>14, <2>1 DEF IncomingOrder, HandledOrder
<1> QED BY <1>12, <1>13, <1>15 DEF PathInv

\* The pairs on the wire and at the receiver, by place.
LEMMA UnderWay ==
  ASSUME TypeOK
  PROVE  \A l \in Links, e \in Events :
           /\ <<l, e>> \in OnWire <=> \E d \in Dials : InWire(l, d, e)
           /\ <<l, e>> \in AtReceiver <=> \E d \in Dials : reader[l][d] = e \/ InIncoming(l, d, e)
<1>1. ASSUME NEW l \in Links, NEW e \in Events
      PROVE  <<l, e>> \in OnWire <=> \E d \in Dials : InWire(l, d, e)
  <2> DEFINE W(k, d) == {<<k, wire[k][d][i]>> : i \in DOMAIN wire[k][d]}
             WW == {W(k, d) : k \in Links, d \in Dials}
  <2>1. OnWire = UNION WW
    BY DEF OnWire
  <2>2. \A k \in Links, d \in Dials : <<l, e>> \in W(k, d) <=> k = l /\ InWire(l, d, e)
    BY DEF InWire
  <2> HIDE DEF W
  <2>3. <<l, e>> \in UNION WW <=> \E k \in Links, d \in Dials : <<l, e>> \in W(k, d)
    OBVIOUS
  <2> HIDE DEF WW
  <2> QED BY <2>1, <2>2, <2>3
<1>2. ASSUME NEW l \in Links, NEW e \in Events
      PROVE  <<l, e>> \in AtReceiver
               <=> \E d \in Dials : reader[l][d] = e \/ InIncoming(l, d, e)
  <2>1. \A i \in DOMAIN incoming : /\ incoming[i] = <<incoming[i][1], incoming[i][2], incoming[i][3]>>
                                   /\ incoming[i][2] \in Dials
    <3>1. \A i \in DOMAIN incoming : incoming[i] \in Links \X Dials \X Events
      BY DEF TypeOK, ReceiverType
    <3> QED BY <3>1, TripleFacts
  <2>2. <<l, e>> \in {<<incoming[i][1], incoming[i][3]>> : i \in DOMAIN incoming}
          <=> \E d \in Dials : InIncoming(l, d, e)
    BY <2>1 DEF InIncoming
  <2> DEFINE Readers == {c \in Links \X Dials : reader[c[1]][c[2]] # None}
  <2>3. <<l, e>> \in {<<c[1], reader[c[1]][c[2]]>> : c \in Readers}
          <=> \E d \in Dials : reader[l][d] = e
    <3>1. \A c \in Readers : c[1] \in Links /\ c[2] \in Dials /\ reader[c[1]][c[2]] # None
      OBVIOUS
    <3>2. \A d \in Dials : reader[l][d] = e =>
            <<l, d>> \in Readers /\ <<l, d>>[1] = l /\ <<l, d>>[2] = d
      BY EventFacts
    <3> HIDE DEF Readers
    <3>3. <<l, e>> \in {<<c[1], reader[c[1]][c[2]]>> : c \in Readers}
            <=> \E c \in Readers : c[1] = l /\ reader[c[1]][c[2]] = e
      OBVIOUS
    <3>4. (\E c \in Readers : c[1] = l /\ reader[c[1]][c[2]] = e)
            => \E d \in Dials : reader[l][d] = e
      BY <3>1
    <3>5. ASSUME NEW d \in Dials, reader[l][d] = e
          PROVE  \E c \in Readers : c[1] = l /\ reader[c[1]][c[2]] = e
      <4>1. <<l, d>> \in Readers /\ <<l, d>>[1] = l /\ <<l, d>>[2] = d
        BY <3>2, <3>5
      <4>2. reader[<<l, d>>[1]][<<l, d>>[2]] = e
        BY <3>5, <4>1
      <4> QED BY <4>1, <4>2
    <3> QED BY <3>3, <3>4, <3>5
  <2> QED BY <2>2, <2>3 DEF AtReceiver
<1> QED BY <1>1, <1>2

LEMMA RestartPath ==
  ASSUME PathInv, TypeOK', Restart
  PROVE  PathInv'
<1> USE EventFacts
<1>0. TypeOK /\ incoming \in Seq(Links \X Dials \X Events)
  BY DEF PathInv, TypeOK, ReceiverType
<1>1. /\ wire' = [l \in Links |-> [d \in Dials |-> << >>]]
      /\ reader' = [l \in Links |-> [d \in Dials |-> None]]
      /\ incoming' = << >> /\ handled' = handled
      /\ lost' = lost \cup OnWire \cup AtReceiver
      /\ UNCHANGED <<senderVars, peerVars, dropped, refused>>
  BY DEF Restart
<1>2. ASSUME NEW l \in Links, NEW d \in Dials, NEW e \in Events
      PROVE  /\ ~ InWire(l, d, e)' /\ reader'[l][d] = None /\ ~ InIncoming(l, d, e)'
             /\ InHandled(l, d, e)' <=> InHandled(l, d, e)
             /\ OnDial(l, d, e)' <=> InHandled(l, d, e)
  <2>1. wire'[l][d] = << >> /\ reader'[l][d] = None
    BY <1>1
  <2>2. ~ InWire(l, d, e)' /\ ~ InIncoming(l, d, e)'
    BY <1>1, <2>1 DEF InWire, InIncoming
  <2>3. InHandled(l, d, e)' <=> InHandled(l, d, e)
    BY <1>1 DEF InHandled
  <2> QED BY <2>1, <2>2, <2>3 DEF OnDial
<1> DEFINE Way(l, d, e) == InWire(l, d, e) \/ reader[l][d] = e \/ InIncoming(l, d, e)
<1>3. ASSUME NEW l \in Links, NEW e \in Events
      PROVE  <<l, e>> \in OnWire \cup AtReceiver <=> \E d \in Dials : Way(l, d, e)
  <2>1. /\ <<l, e>> \in OnWire <=> \E d \in Dials : InWire(l, d, e)
        /\ <<l, e>> \in AtReceiver <=> \E d \in Dials : reader[l][d] = e \/ InIncoming(l, d, e)
    BY <1>0, UnderWay
  <2> QED BY ONLY <2>1 DEF Way
<1>4. \A l \in Links, e \in Events :
        <<l, e>> \in lost' <=> (<<l, e>> \in lost \/ \E d \in Dials : Way(l, d, e))
  BY <1>1, <1>3
<1>5. \A l \in Links, d \in Dials, e \in Events : OnDial(l, d, e) <=> (Way(l, d, e) \/ InHandled(l, d, e))
  BY DEF OnDial
<1>6. ASSUME NEW l \in Links, NEW c \in Dials, NEW d \in Dials, NEW e \in Events,
             InHandled(l, c, e), Way(l, d, e)
      PROVE  FALSE
  <2>1. OnDial(l, c, e) /\ OnDial(l, d, e)
    BY <1>5, <1>6
  <2>2. c = d
    <3>2. \A a, b \in Dials : OnDial(l, a, e) /\ OnDial(l, b, e) /\ a < b => e < e
      BY DEF PathInv, DialOrder
    <3>1. ~ (c < d) /\ ~ (d < c)
      BY ONLY c \in Dials, d \in Dials, e \in Events, EventFacts, <2>1, <3>2
    <3> QED BY <3>1
  <2>3. \A f \in Events : Way(l, d, f) => e < f
    BY <1>6, <2>2 DEF PathInv, HandledOrder
  <2> QED BY <1>6, <2>3
<1> HIDE DEF Way
<1>7. IdleInv' /\ QueueOrder' /\ Classes' /\ DialOrder' /\ GoneApart'
  <2>1. lost' \subseteq Pairs /\ lost \subseteq lost'
    BY <1>0, <1>1, UnderWayType DEF TypeOK, LossType
  <2>2. \A l \in Links, e \in Events :
          <<l, e>> \in lost' => <<l, e>> \in lost \/ \E d \in Dials : OnDial(l, d, e)
    BY <1>4, <1>5
  <2>3. ASSUME NEW l \in Links, NEW d \in Dials, NEW e \in Events
        PROVE  /\ OnDial(l, d, e)' => OnDial(l, d, e) /\ <<l, e>> \notin lost'
               /\ OnDial(l, d, e) => OnDial(l, d, e)' \/ <<l, e>> \in lost'
    <3>1. InHandled(l, d, e) => <<l, e>> \notin lost
      BY <1>5 DEF PathInv, GoneApart, Gone
    <3> QED BY <1>2, <1>4, <1>5, <1>6, <3>1
  <2> QED BY <1>1, <2>1, <2>2, <2>3, LosingPath
<1>8. WireOrder'
  <2>1. \A l \in Links, d \in Dials : DOMAIN wire'[l][d] = {}
    BY <1>1
  <2> QED BY ONLY <2>1 DEF WireOrder
<1>9. IncomingOrder'
  <2>1. DOMAIN incoming' = {}
    BY <1>1
  <2> QED BY ONLY <1>2, <2>1 DEF IncomingOrder
<1>10. HandledOrder'
  <2>1. HandledOrder
    BY DEF PathInv
  <2>2. \A l \in Links, d \in Dials, e \in Events : reader'[l][d] # e
    BY <1>2
  <2> QED BY ONLY <1>1, <1>2, <2>1, <2>2 DEF HandledOrder
<1> QED BY <1>7, <1>8, <1>9, <1>10 DEF PathInv

LEMMA InitPath == Init => PathInv
<1> SUFFICES ASSUME Init PROVE PathInv
  OBVIOUS
<1> USE EventFacts
<1>1. TypeOK
  BY InitType
<1>2. /\ \A l \in Links : queue[l] = << >> /\ held[l] = None /\ conn[l] = None /\ pc[l] = "connect"
      /\ \A l \in Links, d \in Dials : wire[l][d] = << >> /\ reader[l][d] = None
      /\ incoming = << >> /\ handled = << >> /\ announced = 0
      /\ lost = {} /\ refused = {} /\ dropped = {}
  BY DEF Init
<1>3. \A l \in Links, e \in Events : ~ Ahead(l, e) /\ ~ Gone(l, e)
  BY <1>2 DEF Ahead, InQueue, Gone
<1>4. \A l \in Links, d \in Dials, e \in Events :
        /\ ~ InWire(l, d, e) /\ ~ InIncoming(l, d, e) /\ ~ InHandled(l, d, e) /\ ~ OnDial(l, d, e)
  BY <1>2 DEF InWire, InIncoming, InHandled, OnDial
<1>5. \A e \in Events : ~ (e <= announced)
  BY <1>2 DEF Events
<1>6. IdleInv /\ QueueOrder /\ DialOrder /\ GoneApart
  BY <1>2, <1>3, <1>4 DEF IdleInv, QueueOrder, DialOrder, GoneApart
<1>7. Classes
  BY <1>2, <1>3, <1>4, <1>5 DEF Classes, ExactlyAnnounced, PassedBefore, DroppedApart, Passed
<1>8. WireOrder /\ IncomingOrder /\ HandledOrder
  BY <1>2, <1>4 DEF WireOrder, IncomingOrder, HandledOrder
<1> QED BY <1>1, <1>6, <1>7, <1>8 DEF PathInv

LEMMA StepPath == PathInv /\ [Next]_vars => PathInv'
<1> SUFFICES ASSUME PathInv, [Next]_vars PROVE PathInv'
  OBVIOUS
<1>1. TypeOK'
  BY StepType DEF PathInv
<1>2. CASE UNCHANGED vars
  <2>1. /\ UNCHANGED <<announced, dropped, queue, held, lost, refused, pc, dials, conn>>
        /\ UNCHANGED <<wire, reader, incoming, handled>>
        /\ IdleInv /\ \A l \in Links : dials[l] \in Nat /\ conn[l] \in {None, dials[l]}
    BY <1>2, LinkFacts DEF vars, senderVars, peerVars, netVars, receiverVars, lossVars, PathInv, DialOrder
  <2>2. IdleInv'
    BY <2>1 DEF IdleInv
  <2> QED BY <1>1, <2>1, <2>2, StayingStep
<1>3. CASE Announce \/ Cancel \/ Stop
  BY <1>1, <1>3, SenderPath
<1>4. CASE \E l \in Links : PeerRun(l)
  BY <1>1, <1>4, WriterPath
<1>5. CASE \E l \in Links, d \in Dials : \E n \in 0 .. Len(wire[l][d]) : Break(l, d, n)
  BY <1>1, <1>5, BreakPath
<1>6. CASE \E l \in Links, d \in Dials : Read(l, d) \/ PassOn(l, d)
  BY <1>1, <1>6, ReadPath, PassOnPath
<1>7. CASE \E outcome \in Outcomes : Handle(outcome)
  BY <1>1, <1>7, HandlePath
<1>8. CASE Restart
  BY <1>1, <1>8, RestartPath
<1> QED BY <1>2, <1>3, <1>4, <1>5, <1>6, <1>7, <1>8 DEF Next

LEMMA PathInvariant == Safety => []PathInv
  BY InitPath, StepPath, PTL DEF Safety

\* Copies that came over one connection are handled in the order of their
\* events: only a connection made later can overtake, whatever the capacities
\* of the queues, the failures and the restarts of the receiver.
THEOREM OvertakingOnlyByReconnect == Safety => []OvertakingNeedsReconnect
<1>1. PathInv => OvertakingNeedsReconnect
  <2> SUFFICES ASSUME PathInv, NEW i \in DOMAIN handled, NEW j \in DOMAIN handled, i < j,
                      handled[i].link = handled[j].link, handled[i].event > handled[j].event
               PROVE  handled[i].dial > handled[j].dial
    BY DEF OvertakingNeedsReconnect
  <2>1. handled \in Seq(Done)
    BY DEF PathInv, TypeOK, ReceiverType
  <2>2. handled[i] \in Done /\ handled[j] \in Done
    BY ONLY <2>1, i \in DOMAIN handled, j \in DOMAIN handled
  <2>3. PICK l \in Links, b \in Dials, c \in Dials, e \in Events, f \in Events :
          /\ l = handled[i].link /\ b = handled[i].dial /\ c = handled[j].dial
          /\ e = handled[i].event /\ f = handled[j].event
    BY ONLY <2>2 DEF Done
  <2>4. InHandled(l, b, e) /\ InHandled(l, c, f)
    BY <2>3 DEF InHandled
  <2>5. b # c
    BY <2>3, EventFacts DEF PathInv, HandledOrder
  <2>6. ~ (b < c)
    <3>1. \A a, d \in Dials, g, h \in Events : OnDial(l, a, g) /\ OnDial(l, d, h) /\ a < d => g < h
      BY DEF PathInv, DialOrder
    <3>2. OnDial(l, b, e) /\ OnDial(l, c, f)
      BY <2>4 DEF OnDial
    <3>3. ~ (e < f)
      BY ONLY <2>3, e \in Events, f \in Events, EventFacts, handled[i].event > handled[j].event
    <3> QED BY ONLY <3>1, <3>2, <3>3, b \in Dials, c \in Dials, e \in Events, f \in Events
  <2> QED BY ONLY <2>3, <2>5, <2>6, EventFacts, b \in Dials, c \in Dials
<1> QED BY <1>1, PathInvariant, PTL

-----------------------------------------------------------------------------
(* An event has one place *)

\* The places of an event, one kind after the other.
LEMMA PlaceKinds ==
  ASSUME NEW l \in Links, NEW e \in Events, NEW x
  PROVE  x \in Places(l, e) <=>
           \/ \E i \in DOMAIN queue[l] : queue[l][i] = e /\ x = <<"queue", 0, i>>
           \/ \E d \in Dials : \E i \in DOMAIN wire[l][d] : wire[l][d][i] = e /\ x = <<"wire", d, i>>
           \/ \E d \in Dials : reader[l][d] = e /\ x = <<"reader", d, 0>>
           \/ \E i \in DOMAIN incoming : /\ incoming[i][1] = l /\ incoming[i][3] = e
                                         /\ x = <<"incoming", 0, i>>
           \/ \E i \in DOMAIN handled : /\ handled[i].link = l /\ handled[i].event = e
                                        /\ x = <<"handled", 0, i>>
           \/ held[l] = e /\ x = <<"held", 0, 0>>
           \/ <<l, e>> \in lost /\ x = <<"lost", 0, 0>>
           \/ <<l, e>> \in dropped /\ x = <<"dropped", 0, 0>>
           \/ <<l, e>> \in refused /\ x = <<"refused", 0, 0>>
<1> DEFINE K == {kind \in {"held", "lost", "dropped", "refused"} :
                   \/ kind = "held" /\ held[l] = e
                   \/ kind = "lost" /\ <<l, e>> \in lost
                   \/ kind = "dropped" /\ <<l, e>> \in dropped
                   \/ kind = "refused" /\ <<l, e>> \in refused}
           O == {<<kind, 0, 0>> : kind \in K}
           Q == {<<"queue", 0, i>> : i \in {i \in DOMAIN queue[l] : queue[l][i] = e}}
           W(d) == {<<"wire", d, i>> : i \in {i \in DOMAIN wire[l][d] : wire[l][d][i] = e}}
           R == {<<"reader", d, 0>> : d \in {d \in Dials : reader[l][d] = e}}
           I == {<<"incoming", 0, i>> :
                  i \in {i \in DOMAIN incoming : incoming[i][1] = l /\ incoming[i][3] = e}}
           H == {<<"handled", 0, i>> :
                  i \in {i \in DOMAIN handled : handled[i].link = l /\ handled[i].event = e}}
           U == UNION {W(d) : d \in Dials}
<1>2. x \in O <=> \/ held[l] = e /\ x = <<"held", 0, 0>>
                  \/ <<l, e>> \in lost /\ x = <<"lost", 0, 0>>
                  \/ <<l, e>> \in dropped /\ x = <<"dropped", 0, 0>>
                  \/ <<l, e>> \in refused /\ x = <<"refused", 0, 0>>
  OBVIOUS
<1>3. x \in U
        <=> \E d \in Dials : \E i \in DOMAIN wire[l][d] : wire[l][d][i] = e /\ x = <<"wire", d, i>>
  OBVIOUS
<1>4. x \in Q <=> \E i \in DOMAIN queue[l] : queue[l][i] = e /\ x = <<"queue", 0, i>>
  OBVIOUS
<1>5. x \in R <=> \E d \in Dials : reader[l][d] = e /\ x = <<"reader", d, 0>>
  OBVIOUS
<1>6. x \in I <=> \E i \in DOMAIN incoming : /\ incoming[i][1] = l /\ incoming[i][3] = e
                                             /\ x = <<"incoming", 0, i>>
  OBVIOUS
<1>7. x \in H <=> \E i \in DOMAIN handled : /\ handled[i].link = l /\ handled[i].event = e
                                            /\ x = <<"handled", 0, i>>
  OBVIOUS
<1>8. x \in Places(l, e) <=> (x \in O \/ x \in Q \/ x \in U \/ x \in R \/ x \in I \/ x \in H)
  <2>1. Places(l, e) = O \cup Q \cup U \cup R \cup I \cup H
    BY DEF Places
  <2> HIDE DEF K, O, Q, U, R, I, H
  <2> QED BY ONLY <2>1
<1> HIDE DEF O, Q, U, R, I, H
<1> QED BY <1>2, <1>3, <1>4, <1>5, <1>6, <1>7, <1>8
\* An event on a connection is on that connection only, and in one of its stages.
LEMMA OneStage ==
  ASSUME PathInv, NEW l \in Links, NEW e \in Events, NEW c \in Dials, NEW d \in Dials,
         OnDial(l, c, e), OnDial(l, d, e)
  PROVE  /\ c = d
         /\ InWire(l, d, e) => reader[l][d] # e /\ ~ InIncoming(l, d, e) /\ ~ InHandled(l, d, e)
         /\ reader[l][d] = e => ~ InIncoming(l, d, e) /\ ~ InHandled(l, d, e)
         /\ InIncoming(l, d, e) => ~ InHandled(l, d, e)
<1>1. c \in Nat /\ d \in Nat /\ e \in Nat /\ e # None
  BY EventFacts
<1>2. ~ (e < e)
  BY <1>1
<1>3. ~ (c < d) /\ ~ (d < c)
  BY <1>2 DEF PathInv, DialOrder
<1>4. c = d
  BY <1>1, <1>3
<1>5. InWire(l, d, e) => reader[l][d] # e
  BY <1>1, <1>2 DEF PathInv, WireOrder, InWire
<1>6. InWire(l, d, e) \/ reader[l][d] = e => ~ InIncoming(l, d, e)
  BY <1>2 DEF PathInv, IncomingOrder
<1>7. InWire(l, d, e) \/ reader[l][d] = e \/ InIncoming(l, d, e) => ~ InHandled(l, d, e)
  BY <1>2 DEF PathInv, HandledOrder
<1> QED BY <1>4, <1>5, <1>6, <1>7

\* The kinds of places exclude each other.
LEMMA KindsApart ==
  ASSUME PathInv, NEW l \in Links, NEW e \in Events
  PROVE  /\ InQueue(l, e) => held[l] # e
         /\ Ahead(l, e) => ~ Passed(l, e)
         /\ <<l, e>> \in dropped => ~ Ahead(l, e) /\ ~ Passed(l, e)
         /\ <<l, e>> \in lost => <<l, e>> \notin refused
         /\ Gone(l, e) => \A d \in Dials : ~ OnDial(l, d, e)
<1>1. e \in Nat /\ e # None
  BY EventFacts
<1>2. ~ (e < e)
  BY <1>1
<1>3. InQueue(l, e) => held[l] # e
  BY <1>1, <1>2 DEF PathInv, QueueOrder, InQueue
<1>4. Ahead(l, e) => ~ Passed(l, e)
  BY <1>2 DEF PathInv, Classes, PassedBefore
<1> QED BY <1>3, <1>4 DEF PathInv, Classes, DroppedApart, GoneApart

\* Within each kind the event has one position.
LEMMA OnePosition ==
  ASSUME PathInv, NEW l \in Links, NEW e \in Events
  PROVE  /\ \A i, j \in DOMAIN queue[l] : queue[l][i] = e /\ queue[l][j] = e => i = j
         /\ \A d \in Dials : \A i, j \in DOMAIN wire[l][d] :
              wire[l][d][i] = e /\ wire[l][d][j] = e => i = j
         /\ \A i, j \in DOMAIN incoming :
              /\ incoming[i][1] = l /\ incoming[i][3] = e
              /\ incoming[j][1] = l /\ incoming[j][3] = e
              => i = j
         /\ \A i, j \in DOMAIN handled :
              /\ handled[i].link = l /\ handled[i].event = e
              /\ handled[j].link = l /\ handled[j].event = e
              => i = j
<1>1. e \in Nat /\ ~ (e < e)
  BY EventFacts
<1>2. \A i, j \in DOMAIN queue[l] : queue[l][i] = e /\ queue[l][j] = e => i = j
  <2>1. queue[l] \in Seq(Events)
    BY LinkFacts DEF PathInv
  <2>2. \A i, j \in DOMAIN queue[l] : i < j \/ j < i \/ i = j
    BY <2>1
  <2> QED BY <1>1, <2>2 DEF PathInv, QueueOrder
<1>3. ASSUME NEW d \in Dials
      PROVE  \A i, j \in DOMAIN wire[l][d] : wire[l][d][i] = e /\ wire[l][d][j] = e => i = j
  <2>1. wire[l][d] \in Seq(Events)
    BY LinkFacts DEF PathInv
  <2>2. \A i, j \in DOMAIN wire[l][d] : i < j \/ j < i \/ i = j
    BY <2>1
  <2> QED BY <1>1, <2>2 DEF PathInv, WireOrder
<1>4. ASSUME NEW i \in DOMAIN incoming, NEW j \in DOMAIN incoming,
             incoming[i][1] = l, incoming[i][3] = e, incoming[j][1] = l, incoming[j][3] = e
      PROVE  i = j
  <2>1. incoming \in Seq(Links \X Dials \X Events)
    BY DEF PathInv, TypeOK, ReceiverType
  <2>2. incoming[i] \in Links \X Dials \X Events /\ incoming[j] \in Links \X Dials \X Events
        /\ (i < j \/ j < i \/ i = j)
    BY <2>1
  <2>3. /\ incoming[i][2] \in Dials /\ incoming[i] = <<l, incoming[i][2], e>>
        /\ incoming[j][2] \in Dials /\ incoming[j] = <<l, incoming[j][2], e>>
    BY <1>4, <2>2, TripleFacts
  <2>4. OnDial(l, incoming[i][2], e) /\ OnDial(l, incoming[j][2], e)
    BY <2>3 DEF OnDial, InIncoming
  <2>5. incoming[i][2] = incoming[j][2]
    BY <2>3, <2>4, OneStage
  <2> QED BY <1>1, <1>4, <2>2, <2>5 DEF PathInv, IncomingOrder
<1>5. ASSUME NEW i \in DOMAIN handled, NEW j \in DOMAIN handled,
             handled[i].link = l, handled[i].event = e, handled[j].link = l, handled[j].event = e
      PROVE  i = j
  <2>1. handled \in Seq(Done)
    BY DEF PathInv, TypeOK, ReceiverType
  <2>2. handled[i] \in Done /\ handled[j] \in Done /\ (i < j \/ j < i \/ i = j)
    BY <2>1
  <2>3. handled[i].dial \in Dials /\ handled[j].dial \in Dials
    BY <2>2 DEF Done
  <2>4. OnDial(l, handled[i].dial, e) /\ OnDial(l, handled[j].dial, e)
    BY <1>5 DEF OnDial, InHandled
  <2>5. handled[i].dial = handled[j].dial
    BY <2>3, <2>4, OneStage
  <2> QED BY <1>1, <1>5, <2>2, <2>5 DEF PathInv, HandledOrder
<1> QED BY <1>2, <1>3, <1>4, <1>5

LEMMA SomePlace ==
  ASSUME TypeOK, NEW l \in Links, NEW e \in Events
  PROVE  Places(l, e) # {} <=> (Ahead(l, e) \/ Passed(l, e) \/ <<l, e>> \in dropped)
<1> DEFINE Handled == \E i \in DOMAIN handled : handled[i].link = l /\ handled[i].event = e
           Incoming == \E i \in DOMAIN incoming : incoming[i][1] = l /\ incoming[i][3] = e
<1>1. (\E d \in Dials : InIncoming(l, d, e)) <=> Incoming
  <2>1. \A i \in DOMAIN incoming : /\ incoming[i] = <<incoming[i][1], incoming[i][2], incoming[i][3]>>
                                   /\ incoming[i][2] \in Dials
    <3>1. \A i \in DOMAIN incoming : incoming[i] \in Links \X Dials \X Events
      BY DEF TypeOK, ReceiverType
    <3> QED BY <3>1, TripleFacts
  <2> QED BY <2>1 DEF InIncoming
<1>2. (\E d \in Dials : InHandled(l, d, e)) <=> Handled
  <2>1. \A i \in DOMAIN handled : handled[i] \in Done
    BY DEF TypeOK, ReceiverType
  <2> QED BY <2>1 DEF InHandled, Done
<1>3. Ahead(l, e) \/ Passed(l, e) \/ <<l, e>> \in dropped <=>
        \/ \E i \in DOMAIN queue[l] : queue[l][i] = e
        \/ \E d \in Dials : \E i \in DOMAIN wire[l][d] : wire[l][d][i] = e
        \/ \E d \in Dials : reader[l][d] = e
        \/ Incoming \/ Handled
        \/ held[l] = e \/ <<l, e>> \in lost \/ <<l, e>> \in dropped \/ <<l, e>> \in refused
  BY <1>1, <1>2 DEF Ahead, Passed, Gone, OnDial, InQueue, InWire
<1>4. Places(l, e) # {} <=> \E x : x \in Places(l, e)
  OBVIOUS
<1>5. (\E x : x \in Places(l, e)) <=>
        \/ \E i \in DOMAIN queue[l] : queue[l][i] = e
        \/ \E d \in Dials : \E i \in DOMAIN wire[l][d] : wire[l][d][i] = e
        \/ \E d \in Dials : reader[l][d] = e
        \/ Incoming \/ Handled
        \/ held[l] = e \/ <<l, e>> \in lost \/ <<l, e>> \in dropped \/ <<l, e>> \in refused
  <2>1. ASSUME NEW x \in Places(l, e)
        PROVE  \/ \E i \in DOMAIN queue[l] : queue[l][i] = e
               \/ \E d \in Dials : \E i \in DOMAIN wire[l][d] : wire[l][d][i] = e
               \/ \E d \in Dials : reader[l][d] = e
               \/ Incoming \/ Handled
               \/ held[l] = e \/ <<l, e>> \in lost \/ <<l, e>> \in dropped \/ <<l, e>> \in refused
    BY ONLY <2>1, PlaceKinds, l \in Links, e \in Events
  <2>2. \A i \in DOMAIN queue[l] : queue[l][i] = e => <<"queue", 0, i>> \in Places(l, e)
    BY ONLY PlaceKinds, l \in Links, e \in Events
  <2>3. \A d \in Dials : \A i \in DOMAIN wire[l][d] :
          wire[l][d][i] = e => <<"wire", d, i>> \in Places(l, e)
    BY ONLY PlaceKinds, l \in Links, e \in Events
  <2>4. \A d \in Dials : reader[l][d] = e => <<"reader", d, 0>> \in Places(l, e)
    BY ONLY PlaceKinds, l \in Links, e \in Events
  <2>5. \A i \in DOMAIN incoming :
          incoming[i][1] = l /\ incoming[i][3] = e => <<"incoming", 0, i>> \in Places(l, e)
    BY ONLY PlaceKinds, l \in Links, e \in Events
  <2>6. \A i \in DOMAIN handled :
          handled[i].link = l /\ handled[i].event = e => <<"handled", 0, i>> \in Places(l, e)
    BY ONLY PlaceKinds, l \in Links, e \in Events
  <2>7. /\ held[l] = e => <<"held", 0, 0>> \in Places(l, e)
        /\ <<l, e>> \in lost => <<"lost", 0, 0>> \in Places(l, e)
        /\ <<l, e>> \in dropped => <<"dropped", 0, 0>> \in Places(l, e)
        /\ <<l, e>> \in refused => <<"refused", 0, 0>> \in Places(l, e)
    BY ONLY PlaceKinds, l \in Links, e \in Events
  <2> QED BY <2>1, <2>2, <2>3, <2>4, <2>5, <2>6, <2>7
<1> QED BY <1>3, <1>4, <1>5

LEMMA OnePlace ==
  ASSUME PathInv, NEW l \in Links, NEW e \in Events,
         NEW x \in Places(l, e), NEW y \in Places(l, e)
  PROVE  x = y
<1> DEFINE Queue(z)    == \E i \in DOMAIN queue[l] : queue[l][i] = e /\ z = <<"queue", 0, i>>
           Wire(z)     == \E d \in Dials : \E i \in DOMAIN wire[l][d] :
                            wire[l][d][i] = e /\ z = <<"wire", d, i>>
           Reader(z)   == \E d \in Dials : reader[l][d] = e /\ z = <<"reader", d, 0>>
           Incoming(z) == \E i \in DOMAIN incoming : /\ incoming[i][1] = l /\ incoming[i][3] = e
                                                     /\ z = <<"incoming", 0, i>>
           Handled(z)  == \E i \in DOMAIN handled : /\ handled[i].link = l /\ handled[i].event = e
                                                    /\ z = <<"handled", 0, i>>
           Held(z)     == held[l] = e /\ z = <<"held", 0, 0>>
           Lost(z)     == <<l, e>> \in lost /\ z = <<"lost", 0, 0>>
           Dropped(z)  == <<l, e>> \in dropped /\ z = <<"dropped", 0, 0>>
           Refused(z)  == <<l, e>> \in refused /\ z = <<"refused", 0, 0>>
           Travels(z)  == Wire(z) \/ Reader(z) \/ Incoming(z) \/ Handled(z)
<1>1. \A z \in {x, y} : \/ Queue(z) \/ Held(z) \/ Lost(z) \/ Dropped(z) \/ Refused(z)
                        \/ Travels(z)
  <2>1. TAKE z \in {x, y}
  <2>2. z \in Places(l, e)
    OBVIOUS
  <2>3. Queue(z) \/ Wire(z) \/ Reader(z) \/ Incoming(z) \/ Handled(z)
          \/ Held(z) \/ Lost(z) \/ Dropped(z) \/ Refused(z)
    BY ONLY <2>2, PlaceKinds, l \in Links, e \in Events
  <2> QED BY <2>3
<1>2. ASSUME NEW z \in {x, y}
      PROVE  /\ Queue(z) => InQueue(l, e)
             /\ Wire(z) => \E d \in Dials : InWire(l, d, e)
             /\ Reader(z) => \E d \in Dials : reader[l][d] = e
             /\ Incoming(z) => \E d \in Dials : InIncoming(l, d, e)
             /\ Handled(z) => \E d \in Dials : InHandled(l, d, e)
  <2>1. \A i \in DOMAIN incoming : /\ incoming[i] = <<incoming[i][1], incoming[i][2], incoming[i][3]>>
                                   /\ incoming[i][2] \in Dials
    <3>1. \A i \in DOMAIN incoming : incoming[i] \in Links \X Dials \X Events
      BY DEF PathInv, TypeOK, ReceiverType
    <3> QED BY <3>1, TripleFacts
  <2>2. \A i \in DOMAIN handled : handled[i].dial \in Dials
    <3>1. \A i \in DOMAIN handled : handled[i] \in Done
      BY DEF PathInv, TypeOK, ReceiverType
    <3> QED BY <3>1 DEF Done
  <2>3. Queue(z) => InQueue(l, e)
    BY DEF InQueue
  <2>4. Wire(z) => \E d \in Dials : InWire(l, d, e)
    BY DEF InWire
  <2>5. Incoming(z) => \E d \in Dials : InIncoming(l, d, e)
    BY <2>1 DEF InIncoming
  <2>6. Handled(z) => \E d \in Dials : InHandled(l, d, e)
    BY <2>2 DEF InHandled
  <2> QED BY <2>3, <2>4, <2>5, <2>6
<1>3. \A z \in {x, y} : Travels(z) => \E d \in Dials : OnDial(l, d, e)
  <2> HIDE DEF Wire, Reader, Incoming, Handled
  <2>1. TAKE z \in {x, y}
  <2>2. HAVE Travels(z)
  <2> QED BY <1>2, <2>2 DEF OnDial
<1>4. CASE Travels(x) /\ Travels(y)
  <2>1. PICK c \in Dials : OnDial(l, c, e)
    BY <1>3, <1>4
  <2>2. \A d \in Dials : OnDial(l, d, e) => d = c
    BY <2>1, OneStage
  <2>3. /\ InWire(l, c, e) => reader[l][c] # e /\ ~ InIncoming(l, c, e) /\ ~ InHandled(l, c, e)
        /\ reader[l][c] = e => ~ InIncoming(l, c, e) /\ ~ InHandled(l, c, e)
        /\ InIncoming(l, c, e) => ~ InHandled(l, c, e)
    BY <2>1, OneStage
  <2>4. /\ \A d \in Dials : InWire(l, d, e) => d = c
        /\ \A d \in Dials : reader[l][d] = e => d = c
        /\ \A d \in Dials : InIncoming(l, d, e) => d = c
        /\ \A d \in Dials : InHandled(l, d, e) => d = c
    BY <2>2 DEF OnDial
  <2>5. \A z \in {x, y} : /\ Wire(z) => InWire(l, c, e)
                          /\ Reader(z) => reader[l][c] = e
                          /\ Incoming(z) => InIncoming(l, c, e)
                          /\ Handled(z) => InHandled(l, c, e)
    <3> HIDE DEF Wire, Reader, Incoming, Handled
    <3>1. TAKE z \in {x, y}
    <3> QED BY <1>2, <2>4
  <2>6. CASE Wire(x) /\ Wire(y)
    <3>1. PICK d \in Dials : \E i \in DOMAIN wire[l][d] : wire[l][d][i] = e /\ x = <<"wire", d, i>>
      BY <2>6
    <3>2. PICK b \in Dials : \E i \in DOMAIN wire[l][b] : wire[l][b][i] = e /\ y = <<"wire", b, i>>
      BY <2>6
    <3>3. d = c /\ b = c
      BY <3>1, <3>2, <2>4 DEF InWire
    <3> QED BY <3>1, <3>2, <3>3, OnePosition
  <2>7. CASE Reader(x) /\ Reader(y)
    BY <2>4, <2>7
  <2>8. CASE Incoming(x) /\ Incoming(y)
    BY <2>8, OnePosition
  <2>9. CASE Handled(x) /\ Handled(y)
    BY <2>9, OnePosition
  <2> HIDE DEF Wire, Reader, Incoming, Handled
  <2> QED BY <1>4, <2>3, <2>5, <2>6, <2>7, <2>8, <2>9
<1>5. \A z \in {x, y} : /\ Queue(z) \/ Held(z) => Ahead(l, e)
                        /\ Lost(z) \/ Refused(z) => Gone(l, e)
                        /\ Travels(z) \/ Lost(z) \/ Refused(z) => Passed(l, e)
  <2> HIDE DEF Queue, Travels
  <2>1. TAKE z \in {x, y}
  <2> QED BY <1>2, <1>3 DEF Ahead, Gone, Passed
<1>6. CASE Queue(x) /\ Queue(y)
  BY <1>6, OnePosition
<1>7. CASE \/ Held(x) /\ Held(y)
           \/ Lost(x) /\ Lost(y)
           \/ Refused(x) /\ Refused(y)
           \/ Dropped(x) /\ Dropped(y)
  BY <1>7
<1>8. /\ Queue(x) \/ Queue(y) => InQueue(l, e)
      /\ Held(x) \/ Held(y) => held[l] = e
      /\ Lost(x) \/ Lost(y) => <<l, e>> \in lost
      /\ Refused(x) \/ Refused(y) => <<l, e>> \in refused
      /\ Dropped(x) \/ Dropped(y) => <<l, e>> \in dropped
  BY DEF InQueue
<1>9. /\ InQueue(l, e) => held[l] # e
      /\ Ahead(l, e) => ~ Passed(l, e)
      /\ <<l, e>> \in dropped => ~ Ahead(l, e) /\ ~ Passed(l, e)
      /\ <<l, e>> \in lost => <<l, e>> \notin refused
      /\ Gone(l, e) => ~ \E d \in Dials : OnDial(l, d, e)
  BY KindsApart
<1> HIDE DEF Queue, Held, Lost, Dropped, Refused, Travels
<1> QED BY <1>1, <1>3, <1>4, <1>5, <1>6, <1>7, <1>8, <1>9

\* Whatever breaks, is retried or restarted, in whatever order: every announced
\* event is in exactly one place of a link's path, or met exactly one end, and an
\* event that was not announced is nowhere.
THEOREM OnePlaceEach == Safety => []NeitherVanishNorMultiply
<1>1. PathInv => NeitherVanishNorMultiply
  <2> SUFFICES ASSUME PathInv, NEW l \in Links, NEW e \in Events
               PROVE  IF e <= announced THEN \E place \in Places(l, e) : Places(l, e) = {place}
                                        ELSE Places(l, e) = {}
    BY DEF NeitherVanishNorMultiply
  <2>1. TypeOK
    BY DEF PathInv
  <2>2. e <= announced <=> Places(l, e) # {}
    BY <2>1, SomePlace DEF PathInv, Classes, ExactlyAnnounced
  <2>3. \A x, y \in Places(l, e) : x = y
    BY OnePlace
  <2> QED BY <2>2, <2>3
<1> QED BY <1>1, PathInvariant, PTL

-----------------------------------------------------------------------------
(* The path implements the lossy link *)

\* The three states an announced event has on a link: under way, at its end
\* without having been handled, or handled.
Transit(l, e) == \/ pc[l] # "done" /\ Ahead(l, e)
                 \/ \E d \in Dials : InWire(l, d, e) \/ reader[l][d] = e \/ InIncoming(l, d, e)
Ended(l, e)   == Gone(l, e) \/ <<l, e>> \in dropped \/ (pc[l] = "done" /\ Ahead(l, e))
Arrived(l, e) == \E d \in Dials : InHandled(l, d, e)

LinkTransit == Waiting \cup OnWire \cup AtReceiver
LinkLost    == lost \cup dropped \cup refused \cup Abandoned

StatesApart ==
  \A l \in Links, e \in Events :
    /\ e <= announced <=> Transit(l, e) \/ Ended(l, e) \/ Arrived(l, e)
    /\ Transit(l, e) => ~ Ended(l, e) /\ ~ Arrived(l, e)
    /\ Ended(l, e) => ~ Arrived(l, e)

PairsAreStates ==
  /\ LinkTransit \subseteq Pairs /\ HandledPairs \subseteq Pairs /\ LinkLost \subseteq Pairs
  /\ \A l \in Links, e \in Events :
       /\ <<l, e>> \in LinkTransit <=> Transit(l, e)
       /\ <<l, e>> \in HandledPairs <=> Arrived(l, e)
       /\ <<l, e>> \in LinkLost <=> Ended(l, e)

LEMMA OneState == PathInv => StatesApart
<1> SUFFICES ASSUME PathInv, NEW l \in Links, NEW e \in Events
             PROVE  /\ e <= announced <=> Transit(l, e) \/ Ended(l, e) \/ Arrived(l, e)
                    /\ Transit(l, e) => ~ Ended(l, e) /\ ~ Arrived(l, e)
                    /\ Ended(l, e) => ~ Arrived(l, e)
  BY DEF StatesApart
<1>1. e <= announced <=> (Ahead(l, e) \/ Passed(l, e) \/ <<l, e>> \in dropped)
  BY DEF PathInv, Classes, ExactlyAnnounced
<1>2. Passed(l, e) <=> \/ Gone(l, e) \/ Arrived(l, e)
                       \/ \E d \in Dials : InWire(l, d, e) \/ reader[l][d] = e \/ InIncoming(l, d, e)
  BY DEF Passed, OnDial, Arrived
<1>3. ASSUME NEW c \in Dials, NEW d \in Dials, InHandled(l, d, e),
             InWire(l, c, e) \/ reader[l][c] = e \/ InIncoming(l, c, e)
      PROVE  FALSE
  <2>1. OnDial(l, c, e) /\ OnDial(l, d, e)
    BY <1>3 DEF OnDial
  <2> QED BY <1>3, <2>1, OneStage
<1>4. Gone(l, e) => ~ \E d \in Dials : \/ InWire(l, d, e) \/ reader[l][d] = e
                                       \/ InIncoming(l, d, e) \/ InHandled(l, d, e)
  BY KindsApart DEF OnDial
<1>5. /\ Ahead(l, e) => ~ Passed(l, e)
      /\ <<l, e>> \in dropped => ~ Ahead(l, e) /\ ~ Passed(l, e)
  BY KindsApart
<1>6. Arrived(l, e) => ~ \E d \in Dials : InWire(l, d, e) \/ reader[l][d] = e \/ InIncoming(l, d, e)
  BY <1>3 DEF Arrived
<1>7. Gone(l, e) => ~ Arrived(l, e)
  BY <1>4 DEF Arrived
<1> QED BY <1>1, <1>2, <1>4, <1>5, <1>6, <1>7 DEF Transit, Ended

\* The variables of LossyLink are these sets of pairs.
LEMMA PairStates == TypeOK => PairsAreStates
<1> SUFFICES ASSUME TypeOK PROVE PairsAreStates
  OBVIOUS
<1>1. \A i \in DOMAIN handled : handled[i] \in Done
  BY DEF TypeOK, ReceiverType
<1>2. HandledPairs \subseteq Pairs
  BY <1>1 DEF HandledPairs, Pairs, Done
<1>3. LinkTransit \subseteq Pairs
  BY UnderWayType DEF LinkTransit, Waiting
<1>4. LinkLost \subseteq Pairs
  BY DEF LinkLost, Abandoned, TypeOK, LossType
<1>5. ASSUME NEW l \in Links, NEW e \in Events
      PROVE  <<l, e>> \in HandledPairs <=> Arrived(l, e)
  <2>1. <<l, e>> \in HandledPairs
          <=> \E i \in DOMAIN handled : handled[i].link = l /\ handled[i].event = e
    BY DEF HandledPairs
  <2>2. \A i \in DOMAIN handled : handled[i].dial \in Dials
    BY <1>1 DEF Done
  <2> QED BY <2>1, <2>2 DEF Arrived, InHandled
<1>6. ASSUME NEW l \in Links, NEW e \in Events
      PROVE  /\ <<l, e>> \in Waiting <=> pc[l] # "done" /\ Ahead(l, e)
             /\ <<l, e>> \in Abandoned <=> pc[l] = "done" /\ Ahead(l, e)
  <2>1. <<l, e>> \in Pairs /\ <<l, e>>[1] = l /\ <<l, e>>[2] = e
    BY DEF Pairs
  <2> QED BY <2>1 DEF Waiting, Abandoned, Ahead, InQueue
<1>7. \A l \in Links, e \in Events :
        /\ <<l, e>> \in OnWire <=> \E d \in Dials : InWire(l, d, e)
        /\ <<l, e>> \in AtReceiver <=> \E d \in Dials : reader[l][d] = e \/ InIncoming(l, d, e)
  BY UnderWay
<1>8. \A l \in Links, e \in Events : <<l, e>> \in LinkTransit <=> Transit(l, e)
  BY <1>6, <1>7 DEF LinkTransit, Transit
<1>9. \A l \in Links, e \in Events : <<l, e>> \in LinkLost <=> Ended(l, e)
  BY <1>6 DEF LinkLost, Ended, Gone
<1> QED BY <1>2, <1>3, <1>4, <1>5, <1>8, <1>9 DEF PairsAreStates

LEMMA NextStates == PathInv' => StatesApart' /\ PairsAreStates'
<1>1. PathInv => StatesApart /\ PairsAreStates
  BY OneState, PairStates DEF PathInv
<1> QED BY <1>1, PTL

LEMMA PairsAre ==
  ASSUME NEW S, S \subseteq Pairs, NEW T, T \subseteq Pairs,
         \A l \in Links, e \in Events : <<l, e>> \in S <=> <<l, e>> \in T
  PROVE  S = T
  BY DEF Pairs

\* A step that announces and handles nothing loses what it ends, if anything.
LEMMA LosingStep ==
  ASSUME PathInv, PathInv', announced' = announced, handled' = handled,
         \A l \in Links, e \in Events : Ended(l, e) => Ended(l, e)'
  PROVE  [Link!Next]_(Link!vars)
<1>1. ASSUME NEW l \in Links, NEW e \in Events
      PROVE  /\ Arrived(l, e)' <=> Arrived(l, e)
             /\ Transit(l, e)' => Transit(l, e)
             /\ Ended(l, e)' <=> Ended(l, e) \/ (Transit(l, e) /\ ~ Transit(l, e)')
  <2>1. Arrived(l, e)' <=> Arrived(l, e)
    BY DEF Arrived, InHandled
  <2>2. e <= announced' <=> e <= announced
    OBVIOUS
  <2>3. /\ e <= announced' <=> Transit(l, e)' \/ Ended(l, e)' \/ Arrived(l, e)'
        /\ Transit(l, e)' => ~ Ended(l, e)' /\ ~ Arrived(l, e)'
        /\ Ended(l, e)' => ~ Arrived(l, e)'
    BY NextStates DEF StatesApart
  <2> QED BY <2>1, <2>2, <2>3, OneState DEF StatesApart
<1>2. /\ LinkTransit \subseteq Pairs /\ LinkTransit' \subseteq Pairs
      /\ LinkLost \subseteq Pairs /\ LinkLost' \subseteq Pairs
      /\ HandledPairs \subseteq Pairs /\ HandledPairs' \subseteq Pairs
  BY PairStates, NextStates DEF PathInv, PairsAreStates
<1>3. ASSUME NEW l \in Links, NEW e \in Events
      PROVE  /\ <<l, e>> \in HandledPairs' <=> <<l, e>> \in HandledPairs
             /\ <<l, e>> \in LinkTransit' => <<l, e>> \in LinkTransit
             /\ <<l, e>> \in LinkLost' <=>
                  <<l, e>> \in LinkLost \/ (<<l, e>> \in LinkTransit /\ <<l, e>> \notin LinkTransit')
  BY <1>1, PairStates, NextStates DEF PathInv, PairsAreStates
<1> DEFINE ended == LinkTransit \ LinkTransit'
<1>4. HandledPairs' = HandledPairs
  BY <1>2, <1>3, PairsAre
<1>5. LinkTransit' = LinkTransit \ ended
  BY <1>2, <1>3 DEF Pairs
<1>6. LinkLost' = LinkLost \cup ended
  BY <1>2, <1>3 DEF Pairs
<1>7. CASE ended = {}
  <2>1. LinkTransit' = LinkTransit /\ LinkLost' = LinkLost
    BY <1>5, <1>6, <1>7
  <2> QED BY <2>1, <1>4 DEF Link!vars, LinkTransit, LinkLost
<1>8. CASE ended # {}
  <2>1. ended \in SUBSET LinkTransit
    OBVIOUS
  <2> HIDE DEF ended
  <2>2. Link!Lose(ended)
    BY <1>4, <1>5, <1>6, <1>8, <2>1 DEF Link!Lose, LinkTransit, LinkLost
  <2> QED BY <2>1, <2>2 DEF Link!Next, LinkTransit
<1> QED BY <1>7, <1>8

LEMMA DeliveringStep ==
  ASSUME PathInv, PathInv', NEW outcome \in Outcomes, Handle(outcome)
  PROVE  Link!Next
<1> DEFINE m == incoming[1]
           done == [link |-> m[1], dial |-> m[2], event |-> m[3],
                    outcome |-> outcome, life |-> restarts]
<1>1. /\ incoming \in Seq(Links \X Dials \X Events) /\ incoming # << >>
      /\ handled \in Seq(Done) /\ handled' = Append(handled, done)
      /\ UNCHANGED <<announced, pc, queue, held, lost, dropped, refused>>
  BY DEF Handle, PathInv, TypeOK, ReceiverType, senderVars, peerVars, lossVars
<1>2. m \in Links \X Dials \X Events /\ 1 \in DOMAIN incoming
  BY <1>1
<1>3. m[1] \in Links /\ m[2] \in Dials /\ m[3] \in Events /\ incoming[1] = <<m[1], m[2], m[3]>>
  BY <1>2, TripleFacts
<1> HIDE DEF m
<1>4. Transit(m[1], m[3])
  BY <1>2, <1>3 DEF Transit, InIncoming
<1>5. ASSUME NEW l \in Links, NEW e \in Events
      PROVE  Arrived(l, e)' <=> Arrived(l, e) \/ (l = m[1] /\ e = m[3])
  <2>1. ASSUME NEW d \in Dials
        PROVE  InHandled(l, d, e)' <=> InHandled(l, d, e) \/ (l = m[1] /\ d = m[2] /\ e = m[3])
    <3>1. /\ Len(handled) + 1 \in DOMAIN handled' /\ handled'[Len(handled) + 1] = done
          /\ \A i \in DOMAIN handled : i \in DOMAIN handled' /\ handled'[i] = handled[i]
          /\ \A i \in DOMAIN handled' :
               (i \in DOMAIN handled /\ handled'[i] = handled[i]) \/ handled'[i] = done
      BY ONLY <1>1, AppendFacts
    <3>2. done.link = m[1] /\ done.dial = m[2] /\ done.event = m[3]
      OBVIOUS
    <3> HIDE DEF done
    <3> QED BY ONLY <3>1, <3>2 DEF InHandled
  <2> QED BY <2>1, <1>3 DEF Arrived
<1>6. ASSUME NEW l \in Links, NEW e \in Events
      PROVE  Ended(l, e)' <=> Ended(l, e)
  BY <1>1 DEF Ended, Gone, Ahead, InQueue
<1>7. ASSUME NEW l \in Links, NEW e \in Events
      PROVE  Transit(l, e)' <=> Transit(l, e) /\ ~ (l = m[1] /\ e = m[3])
  <2>1. /\ e <= announced' <=> Transit(l, e)' \/ Ended(l, e)' \/ Arrived(l, e)'
        /\ Transit(l, e)' => ~ Ended(l, e)' /\ ~ Arrived(l, e)'
        /\ Ended(l, e)' => ~ Arrived(l, e)'
    BY NextStates DEF StatesApart
  <2>2. /\ e <= announced <=> Transit(l, e) \/ Ended(l, e) \/ Arrived(l, e)
        /\ Transit(l, e) => ~ Ended(l, e) /\ ~ Arrived(l, e)
        /\ Ended(l, e) => ~ Arrived(l, e)
    BY OneState DEF StatesApart
  <2>3. announced' = announced
    BY <1>1
  <2> QED BY <1>4, <1>5, <1>6, <2>1, <2>2, <2>3
<1> DEFINE p == <<m[1], m[3]>>
<1>8. PairsAreStates /\ PairsAreStates' /\ p \in Pairs
  BY <1>3, PairStates, NextStates DEF PathInv, Pairs
<1>9. ASSUME NEW l \in Links, NEW e \in Events
      PROVE  /\ <<l, e>> \in LinkTransit' <=> <<l, e>> \in LinkTransit /\ <<l, e>> # p
             /\ <<l, e>> \in HandledPairs' <=> <<l, e>> \in HandledPairs \/ <<l, e>> = p
             /\ <<l, e>> \in LinkLost' <=> <<l, e>> \in LinkLost
  <2>1. <<l, e>> = p <=> l = m[1] /\ e = m[3]
    OBVIOUS
  <2> HIDE DEF p
  <2> QED BY <1>5, <1>6, <1>7, <1>8, <2>1 DEF PairsAreStates
<1>10. p \in LinkTransit
  BY <1>3, <1>4, <1>8 DEF PairsAreStates
<1> HIDE DEF p
<1>11. LinkTransit' = LinkTransit \ {p}
  BY <1>8, <1>9 DEF Pairs, PairsAreStates
<1>12. HandledPairs' = HandledPairs \cup {p}
  BY <1>8, <1>9 DEF Pairs, PairsAreStates
<1>13. LinkLost' = LinkLost
  BY <1>8, <1>9, PairsAre DEF PairsAreStates
<1>14. Link!Deliver(p)
  BY <1>10, <1>11, <1>12, <1>13 DEF Link!Deliver, LinkTransit, LinkLost
<1> QED BY <1>8, <1>14 DEF Link!Next, Pairs

LEMMA AnnouncingStep ==
  ASSUME PathInv, PathInv', Announce
  PROVE  Link!Next
<1>0. PICK new : new = announced + 1
  OBVIOUS
<1> DEFINE full == {l \in Links : Ended(l, new)'}
<1>1. /\ announced' = new /\ new \in Events /\ announced \in Nat
      /\ UNCHANGED <<pc, held, handled, lost, refused>>
  BY <1>0, PeerLinkAssumption
  DEF Announce, Events, PathInv, TypeOK, SenderType, receiverVars
<1>2. ASSUME NEW e \in Events PROVE e <= announced' <=> e <= announced \/ e = new
  BY <1>0, <1>1, EventFacts
<1>3. ~ (new <= announced)
  BY <1>0, <1>1
<1>4. ASSUME NEW l \in Links, NEW e \in Events
      PROVE  /\ InQueue(l, e) => InQueue(l, e)'
             /\ InQueue(l, e)' => InQueue(l, e) \/ e = new
  <2>1. queue[l] \in Seq(Events)
    BY LinkFacts DEF PathInv
  <2>2. queue'[l] = queue[l] \/ queue'[l] = Append(queue[l], new)
    BY <1>0 DEF Announce
  <2>3. CASE queue'[l] = queue[l]
    BY <2>3 DEF InQueue
  <2>4. CASE queue'[l] = Append(queue[l], new)
    <3>1. /\ \A i \in DOMAIN queue[l] : i \in DOMAIN queue'[l] /\ queue'[l][i] = queue[l][i]
          /\ \A i \in DOMAIN queue'[l] :
               (i \in DOMAIN queue[l] /\ queue'[l][i] = queue[l][i]) \/ queue'[l][i] = new
      BY ONLY <2>1, <2>4, AppendFacts
    <3> QED BY ONLY <3>1 DEF InQueue
  <2> QED BY <2>2, <2>3, <2>4
<1>5. ASSUME NEW l \in Links, NEW e \in Events
      PROVE  /\ <<l, e>> \in dropped => <<l, e>> \in dropped'
             /\ <<l, e>> \in dropped' => <<l, e>> \in dropped \/ e = new
  BY <1>0 DEF Announce
<1>6. ASSUME NEW l \in Links, NEW e \in Events
      PROVE  Ended(l, e)' <=> Ended(l, e) \/ (e = new /\ l \in full)
  BY <1>1, <1>4, <1>5 DEF Ended, Gone, Ahead
<1>7. ASSUME NEW l \in Links, NEW e \in Events
      PROVE  Arrived(l, e)' <=> Arrived(l, e)
  BY <1>1 DEF Arrived, InHandled
<1>8. ASSUME NEW l \in Links, NEW e \in Events
      PROVE  /\ Transit(l, e)' <=> Transit(l, e) \/ (e = new /\ l \notin full)
             /\ e = new => ~ Transit(l, e) /\ ~ Ended(l, e) /\ ~ Arrived(l, e)
  <2>1. /\ e <= announced' <=> Transit(l, e)' \/ Ended(l, e)' \/ Arrived(l, e)'
        /\ Transit(l, e)' => ~ Ended(l, e)' /\ ~ Arrived(l, e)'
        /\ Ended(l, e)' => ~ Arrived(l, e)'
    BY NextStates DEF StatesApart
  <2>2. /\ e <= announced <=> Transit(l, e) \/ Ended(l, e) \/ Arrived(l, e)
        /\ Transit(l, e) => ~ Ended(l, e) /\ ~ Arrived(l, e)
        /\ Ended(l, e) => ~ Arrived(l, e)
    BY OneState DEF StatesApart
  <2> HIDE DEF full
  <2> QED BY <1>2, <1>3, <1>6, <1>7, <2>1, <2>2
<1>9. PairsAreStates /\ PairsAreStates' /\ full \subseteq Links
  BY PairStates, NextStates DEF PathInv
<1> HIDE DEF full
<1>10. ASSUME NEW l \in Links, NEW e \in Events
       PROVE  /\ <<l, e>> \in LinkTransit'
                   <=> <<l, e>> \in LinkTransit \/ <<l, e>> \in (Links \ full) \X {new}
              /\ <<l, e>> \in HandledPairs' <=> <<l, e>> \in HandledPairs
              /\ <<l, e>> \in LinkLost' <=> <<l, e>> \in LinkLost \/ <<l, e>> \in full \X {new}
              /\ <<l, e>> \in Links \X {new} => <<l, e>> \notin LinkTransit \cup HandledPairs \cup LinkLost
  BY <1>6, <1>7, <1>8, <1>9 DEF PairsAreStates
<1>11. LinkTransit' = LinkTransit \cup ((Links \ full) \X {new})
  <2>1. (Links \ full) \X {new} \subseteq Pairs
    BY <1>1 DEF Pairs
  <2> DEFINE joined == LinkTransit \cup ((Links \ full) \X {new})
  <2>2. /\ joined \subseteq Pairs /\ LinkTransit' \subseteq Pairs
        /\ \A l \in Links, e \in Events : <<l, e>> \in LinkTransit' <=> <<l, e>> \in joined
    BY <1>9, <1>10, <2>1 DEF PairsAreStates
  <2> HIDE DEF joined
  <2>3. LinkTransit' = joined
    BY <2>2, PairsAre
  <2> QED BY <2>3 DEF joined
<1>12. LinkLost' = LinkLost \cup (full \X {new})
  <2>1. full \X {new} \subseteq Pairs
    BY <1>1, <1>9 DEF Pairs
  <2> DEFINE joined == LinkLost \cup (full \X {new})
  <2>2. /\ joined \subseteq Pairs /\ LinkLost' \subseteq Pairs
        /\ \A l \in Links, e \in Events : <<l, e>> \in LinkLost' <=> <<l, e>> \in joined
    BY <1>9, <1>10, <2>1 DEF PairsAreStates
  <2> HIDE DEF joined
  <2>3. LinkLost' = joined
    BY <2>2, PairsAre
  <2> QED BY <2>3 DEF joined
<1>13. HandledPairs' = HandledPairs
  <2>1. /\ HandledPairs \subseteq Pairs /\ HandledPairs' \subseteq Pairs
        /\ \A l \in Links, e \in Events : <<l, e>> \in HandledPairs' <=> <<l, e>> \in HandledPairs
    BY <1>9, <1>10 DEF PairsAreStates
  <2> QED BY <2>1, PairsAre
<1>14. (Links \X {new}) \cap (LinkTransit \cup HandledPairs \cup LinkLost) = {}
  <2>1. \A p \in Links \X {new} : p[1] \in Links /\ p[2] = new /\ p = <<p[1], p[2]>>
    OBVIOUS
  <2> QED BY <1>1, <1>10, <2>1
<1>15. Link!Announce(new, full)
  BY <1>11, <1>12, <1>13, <1>14 DEF Link!Announce, LinkTransit, LinkLost
<1> QED BY <1>1, <1>9, <1>15 DEF Link!Next

\* Nothing leaves an end, and a writer that returned keeps what it had.
KeepsEnds ==
  /\ announced' = announced /\ handled' = handled
  /\ lost \subseteq lost' /\ dropped \subseteq dropped' /\ refused \subseteq refused'
  /\ \A l \in Links : pc[l] = "done" =>
       pc'[l] = "done" /\ queue'[l] = queue[l] /\ held'[l] = held[l]

LEMMA EndsKept == KeepsEnds => \A l \in Links, e \in Events : Ended(l, e) => Ended(l, e)'
  BY DEF KeepsEnds, Ended, Gone, Ahead, InQueue

LEMMA WriterKeepsEnds == ASSUME TypeOK, NEW l \in Links, PeerRun(l) PROVE KeepsEnds
<1> USE DEF TypeOK, PeerType, Goto, Release, senderVars, peerVars, netVars, receiverVars,
            lossVars, KeepsEnds
<1>1. CASE Connect(l)
  BY <1>1 DEF Connect
<1>2. CASE DialFails(l)
  BY <1>2 DEF DialFails
<1>3. CASE DialSucceeds(l)
  BY <1>3 DEF DialSucceeds
<1>4. CASE Take(l)
  BY <1>4 DEF Take
<1>5. CASE SeeDone(l)
  BY <1>5 DEF SeeDone
<1>6. CASE EncodeRefuses(l)
  BY <1>6 DEF EncodeRefuses
<1>7. CASE WriteSucceeds(l)
  BY <1>7 DEF WriteSucceeds
<1>8. CASE WriteFails(l)
  BY <1>8 DEF WriteFails
<1>9. CASE CloseConn(l)
  BY <1>9 DEF CloseConn
<1> QED BY <1>1, <1>2, <1>3, <1>4, <1>5, <1>6, <1>7, <1>8, <1>9 DEF PeerRun

LEMMA MappedStep == PathInv /\ PathInv' /\ [Next]_vars => [Link!Next]_(Link!vars)
<1> SUFFICES ASSUME PathInv, PathInv', [Next]_vars PROVE [Link!Next]_(Link!vars)
  OBVIOUS
<1>1. CASE Announce
  BY <1>1, AnnouncingStep
<1>2. ASSUME NEW outcome \in Outcomes, Handle(outcome) PROVE [Link!Next]_(Link!vars)
  BY <1>2, DeliveringStep
<1>3. CASE KeepsEnds
  BY <1>3, EndsKept, LosingStep DEF KeepsEnds
<1>4. CASE Cancel \/ Stop
  BY <1>3, <1>4 DEF Cancel, Stop, KeepsEnds, peerVars, receiverVars, lossVars
<1>5. ASSUME NEW l \in Links, PeerRun(l) PROVE KeepsEnds
  BY <1>5, WriterKeepsEnds DEF PathInv
<1>6. ASSUME NEW l \in Links, NEW d \in Dials, NEW n \in 0 .. Len(wire[l][d]), Break(l, d, n)
      PROVE  KeepsEnds
  BY <1>6 DEF Break, KeepsEnds, senderVars, peerVars, receiverVars
<1>7. ASSUME NEW l \in Links, NEW d \in Dials, Read(l, d) \/ PassOn(l, d) PROVE KeepsEnds
  BY <1>7 DEF Read, PassOn, KeepsEnds, senderVars, peerVars, lossVars
<1>8. CASE Restart
  BY <1>3, <1>8 DEF Restart, KeepsEnds, senderVars, peerVars
<1>9. CASE UNCHANGED vars
  BY <1>3, <1>9 DEF vars, KeepsEnds, senderVars, peerVars, receiverVars, lossVars
<1> QED BY <1>1, <1>2, <1>3, <1>4, <1>5, <1>6, <1>7, <1>8, <1>9 DEF Next

\* The path of an event through the send queues, connections, readers, retries and
\* restarts does what LossyLink allows and nothing else: an announced event is on
\* every link delivered at most once or lost, and never both.
THEOREM PathIsLossyLink == Safety => Link!Safety
<1>1. Init => Link!Init
  <2> SUFFICES ASSUME Init PROVE Link!Init
    OBVIOUS
  <2>1. PathInv /\ PairsAreStates /\ StatesApart
    BY InitPath, OneState, PairStates DEF PathInv
  <2>2. ASSUME NEW l \in Links, NEW e \in Events
        PROVE  ~ Transit(l, e) /\ ~ Ended(l, e) /\ ~ Arrived(l, e)
    <3>1. ~ (e <= announced)
      BY PeerLinkAssumption DEF Init, Events
    <3> QED BY <2>1, <3>1 DEF StatesApart
  <2>3. LinkTransit = {} /\ HandledPairs = {} /\ LinkLost = {}
    BY <2>1, <2>2 DEF PairsAreStates, Pairs
  <2> QED BY <2>3 DEF Link!Init, LinkTransit, LinkLost
<1>2. PathInv /\ PathInv' /\ [Next]_vars => [Link!Next]_(Link!vars)
  BY MappedStep
<1> QED BY <1>1, <1>2, PathInvariant, PTL DEF Safety, Link!Safety
=============================================================================
