------------------------------ MODULE PeerLink ------------------------------
(***************************************************************************)
(* How an event travels from one node to another: peer.go (the bounded     *)
(* send queue, the writer that keeps one pending message over reconnects)  *)
(* on the sending side, and the acceptLoop/handleConn readers, the bounded *)
(* incoming channel and the event loop's duplicate check of node.go on the *)
(* receiving side, over TCP connections that break and a receiver that     *)
(* restarts.                                                               *)
(*                                                                         *)
(* Links are the sender's Peer entries.  They all lead to one receiver: a  *)
(* host listed under two names has two of them.  Events are numbered in    *)
(* the order newMessage minted them.  A connection is a link and the       *)
(* number of the dial that made it.                                        *)
(***************************************************************************)
EXTENDS LoopGuard

CONSTANTS Links,
          MaxEvents,      \* bound: events announced
          MaxConns,       \* bound: connections a link makes; the last one is stable
          MaxRestarts,    \* bound: restarts of the receiver
          SendCap,        \* capacity of Peer.sendCh: 16
          IncomingCap,    \* capacity of Node.incoming: 32
          Unencodable,    \* events that Encode refuses
          MayCancel,      \* whether the sender may be asked to stop
          None

ASSUME PeerLinkAssumption ==
  /\ MaxEvents \in Nat /\ MaxConns \in Nat \ {0} /\ MaxRestarts \in Nat
  /\ SendCap \in Nat \ {0} /\ IncomingCap \in Nat \ {0}
  /\ Unencodable \subseteq 1 .. MaxEvents
  /\ MayCancel \in BOOLEAN
  /\ None \notin Nat

Events == 1 .. MaxEvents
Dials  == 1 .. MaxConns

VARIABLES
  announced,  \* number of events the sender's event loop announced
  node,       \* the sender's event loop: running, cancelled (ctx), stopped
  queue,      \* Peer.sendCh
  pc,         \* where Peer.Run is
  held,       \* its local variable msg or pending
  conn,       \* Peer.conn: number of the connection, None when nil
  dials,      \* connections made so far
  status,     \* of each connection: unused, open, closed by the sender, broken
  wire,       \* messages on their way to the reader of each connection
  reader,     \* the message each handleConn decoded and has not passed on
  incoming,   \* Node.incoming: <<link, dial, event>>
  ring,       \* the receiver's Node.ring
  restarts,   \* of the receiver
  handled,    \* history: what the receiver's event loop did, in order
  lost,       \* history: <<link, event>> gone with a connection or a restart
  dropped,    \* history: refused by a full send queue
  refused     \* history: refused by Encode

senderVars   == <<announced, node>>
peerVars     == <<queue, pc, held, conn, dials>>
netVars      == <<status, wire>>
receiverVars == <<reader, incoming, ring, restarts, handled>>
lossVars     == <<lost, dropped, refused>>
vars == <<senderVars, peerVars, netVars, receiverVars, lossVars>>

Init ==
  /\ announced = 0 /\ node = "running"
  /\ queue = [l \in Links |-> << >>]
  /\ pc = [l \in Links |-> "connect"]
  /\ held = [l \in Links |-> None]
  /\ conn = [l \in Links |-> None]
  /\ dials = [l \in Links |-> 0]
  /\ status = [l \in Links |-> [d \in Dials |-> "unused"]]
  /\ wire = [l \in Links |-> [d \in Dials |-> << >>]]
  /\ reader = [l \in Links |-> [d \in Dials |-> None]]
  /\ incoming = << >>
  /\ ring = EmptyRing(None)
  /\ restarts = 0 /\ handled = << >>
  /\ lost = {} /\ dropped = {} /\ refused = {}

-----------------------------------------------------------------------------
(* The sender's event loop *)

\* Wrong: the send queue is not bounded.
AnnounceUnbounded ==
  /\ node # "stopped"
  /\ announced < MaxEvents
  /\ announced' = announced + 1
  /\ queue' = [l \in Links |-> Append(queue[l], announced + 1)]
  /\ UNCHANGED <<node, pc, held, conn, dials, netVars, receiverVars, lossVars>>

\* newMessage and Peer.Send to every peer; Send never blocks and drops the
\* event when the queue of that peer is full.
Announce ==
  /\ node # "stopped"
  /\ announced < MaxEvents
  /\ announced' = announced + 1
  /\ queue' = [l \in Links |-> IF Len(queue[l]) < SendCap
                                 THEN Append(queue[l], announced + 1) ELSE queue[l]]
  /\ dropped' = dropped \cup
       {<<l, announced + 1>> : l \in {k \in Links : Len(queue[k]) = SendCap}}
  /\ UNCHANGED <<node, pc, held, conn, dials, netVars, receiverVars, lost, refused>>

Cancel ==
  /\ MayCancel /\ node = "running"
  /\ node' = "cancelled"
  /\ UNCHANGED <<announced, peerVars, netVars, receiverVars, lossVars>>

CloseConns(st, closing) ==
  [l \in Links |-> [d \in Dials |->
     IF l \in closing /\ d = conn[l] /\ st[l][d] = "open" THEN "closed" ELSE st[l][d]]]

\* The event loop sees ctx.Done: Peer.Close on every peer, and Run returns.
Stop ==
  /\ node = "cancelled"
  /\ node' = "stopped"
  /\ conn' = [l \in Links |-> None]
  /\ status' = CloseConns(status, Links)
  /\ UNCHANGED <<announced, queue, pc, held, dials, wire, receiverVars, lossVars>>

-----------------------------------------------------------------------------
(* Peer.Run, one goroutine for each link *)

Goto(l, where) == pc' = [pc EXCEPT ![l] = where]

\* connect: look at the context first; a pending message goes down with Run.
Connect(l) ==
  /\ pc[l] = "connect"
  /\ IF node = "running" THEN Goto(l, "dial") ELSE Goto(l, "done")
  /\ UNCHANGED <<senderVars, queue, held, conn, dials, netVars, receiverVars, lossVars>>

\* DialContext fails: the peer is unreachable, or the context was cancelled.
DialFails(l) ==
  /\ pc[l] = "dial"
  /\ Goto(l, "connect")
  /\ UNCHANGED <<senderVars, queue, held, conn, dials, netVars, receiverVars, lossVars>>

\* DialContext succeeds, perhaps just as the context is cancelled.
DialSucceeds(l) ==
  /\ pc[l] = "dial"
  /\ dials[l] < MaxConns
  /\ dials' = [dials EXCEPT ![l] = @ + 1]
  /\ conn' = [conn EXCEPT ![l] = dials'[l]]
  /\ status' = [status EXCEPT ![l][dials'[l]] = "open"]
  /\ IF held[l] = None THEN Goto(l, "select") ELSE Goto(l, "write")
  /\ UNCHANGED <<senderVars, queue, held, wire, receiverVars, lossVars>>

\* writeLoop's select: the next message ...
Take(l) ==
  /\ pc[l] = "select"
  /\ queue[l] # << >>
  /\ held' = [held EXCEPT ![l] = Head(queue[l])]
  /\ queue' = [queue EXCEPT ![l] = Tail(@)]
  /\ Goto(l, "write")
  /\ UNCHANGED <<senderVars, conn, dials, netVars, receiverVars, lossVars>>

\* Wrong: writeLoop waits for a message only.
SeeDoneNever(l) == FALSE

\* ... or the end of the context, in any order when both are ready.
SeeDone(l) ==
  /\ pc[l] = "select"
  /\ node # "running"
  /\ Goto(l, "close")
  /\ UNCHANGED <<senderVars, queue, held, conn, dials, netVars, receiverVars, lossVars>>

Release(l) == held' = [held EXCEPT ![l] = None] /\ Goto(l, "select")

EncodeRefuses(l) ==
  /\ pc[l] = "write" /\ held[l] \in Unencodable
  /\ refused' = refused \cup {<<l, held[l]>>}
  /\ Release(l)
  /\ UNCHANGED <<senderVars, queue, conn, dials, netVars, receiverVars, lost, dropped>>

\* conn.Write returns without an error as soon as the kernel has the message;
\* on a connection that broke in the meantime nobody will ever read it.
WriteSucceeds(l) ==
  /\ pc[l] = "write" /\ held[l] \notin Unencodable
  /\ conn[l] # None
  /\ IF status[l][conn[l]] = "open"
       THEN wire' = [wire EXCEPT ![l][conn[l]] = Append(@, held[l])] /\ UNCHANGED lost
       ELSE lost' = lost \cup {<<l, held[l]>>} /\ UNCHANGED wire
  /\ Release(l)
  /\ UNCHANGED <<senderVars, queue, conn, dials, status, receiverVars, dropped, refused>>

\* No connection, a broken one, or the write deadline on one whose reader is
\* behind (bound: not on the last connection).
Unwritable(l) ==
  \/ conn[l] = None
  \/ conn[l] # None /\ status[l][conn[l]] = "broken"
  \/ /\ conn[l] # None /\ status[l][conn[l]] = "open"
     /\ wire[l][conn[l]] # << >> /\ conn[l] < MaxConns

\* Wrong: the message is not returned, so Run has no pending one.
WriteFailsForgets(l) ==
  /\ pc[l] = "write" /\ held[l] \notin Unencodable
  /\ Unwritable(l)
  /\ held' = [held EXCEPT ![l] = None]
  /\ Goto(l, "close")
  /\ UNCHANGED <<senderVars, queue, conn, dials, netVars, receiverVars, lossVars>>

\* Wrong: the message goes back to the end of the send queue.
WriteFailsRequeues(l) ==
  /\ pc[l] = "write" /\ held[l] \notin Unencodable
  /\ Unwritable(l)
  /\ queue' = [queue EXCEPT ![l] = Append(@, held[l])]
  /\ held' = [held EXCEPT ![l] = None]
  /\ Goto(l, "close")
  /\ UNCHANGED <<senderVars, conn, dials, netVars, receiverVars, lossVars>>

\* writeLoop returns the message, and Run keeps it as pending.
WriteFails(l) ==
  /\ pc[l] = "write" /\ held[l] \notin Unencodable
  /\ Unwritable(l)
  /\ Goto(l, "close")
  /\ UNCHANGED <<senderVars, queue, held, conn, dials, netVars, receiverVars, lossVars>>

\* Wrong: Run forgets the connection without closing it.
CloseConnLeaks(l) ==
  /\ pc[l] = "close"
  /\ conn' = [conn EXCEPT ![l] = None]
  /\ Goto(l, "connect")
  /\ UNCHANGED <<senderVars, queue, held, dials, netVars, receiverVars, lossVars>>

\* Run closes the connection and starts over.  What is in the kernel's hands
\* still reaches the reader.
CloseConn(l) ==
  /\ pc[l] = "close"
  /\ conn' = [conn EXCEPT ![l] = None]
  /\ status' = CloseConns(status, {l})
  /\ Goto(l, "connect")
  /\ UNCHANGED <<senderVars, queue, held, dials, wire, receiverVars, lossVars>>

-----------------------------------------------------------------------------
(* The network *)

\* A connection breaks; the first n messages under way have already reached the
\* receiver's kernel, the others are gone.  The last connection does not break.
Break(l, d, n) ==
  /\ status[l][d] \in {"open", "closed"} /\ d < MaxConns
  /\ status' = [status EXCEPT ![l][d] = "broken"]
  /\ wire' = [wire EXCEPT ![l][d] = SubSeq(@, 1, n)]
  /\ lost' = lost \cup {<<l, wire[l][d][i]>> : i \in n + 1 .. Len(wire[l][d])}
  /\ UNCHANGED <<senderVars, peerVars, receiverVars, dropped, refused>>

-----------------------------------------------------------------------------
(* The receiver *)

\* handleConn: Decode the next message of the connection ...
Read(l, d) ==
  /\ reader[l][d] = None
  /\ wire[l][d] # << >>
  /\ reader' = [reader EXCEPT ![l][d] = Head(wire[l][d])]
  /\ wire' = [wire EXCEPT ![l][d] = Tail(@)]
  /\ UNCHANGED <<senderVars, peerVars, status, incoming, ring, restarts, handled, lossVars>>

\* Wrong: the reader passes the message on and keeps it.
PassOnTwice(l, d) ==
  /\ reader[l][d] # None
  /\ Len(incoming) < IncomingCap
  /\ incoming' = Append(incoming, <<l, d, reader[l][d]>>)
  /\ UNCHANGED <<senderVars, peerVars, netVars, reader, ring, restarts, handled, lossVars>>

\* ... and pass it to the event loop, waiting while the channel is full.
PassOn(l, d) ==
  /\ reader[l][d] # None
  /\ Len(incoming) < IncomingCap
  /\ incoming' = Append(incoming, <<l, d, reader[l][d]>>)
  /\ reader' = [reader EXCEPT ![l][d] = None]
  /\ UNCHANGED <<senderVars, peerVars, netVars, ring, restarts, handled, lossVars>>

\* The event loop takes a message: a known event is ignored, one whose clipboard
\* write fails is forgotten, any other is applied and remembered.
Handle(outcome) ==
  /\ incoming # << >>
  /\ LET m == Head(incoming) IN
       /\ (outcome = "ignored") = RingContains(ring, m[3])
       /\ ring' = IF outcome = "applied" THEN RingAdd(ring, m[3]) ELSE ring
       /\ handled' = Append(handled, [link |-> m[1], dial |-> m[2], event |-> m[3],
                                      outcome |-> outcome, life |-> restarts])
  /\ incoming' = Tail(incoming)
  /\ UNCHANGED <<senderVars, peerVars, netVars, reader, restarts, lossVars>>

AtReceiver ==
  {<<c[1], reader[c[1]][c[2]]>> : c \in {c \in Links \X Dials : reader[c[1]][c[2]] # None}}
  \cup {<<incoming[i][1], incoming[i][3]>> : i \in DOMAIN incoming}

OnWire == UNION {{<<l, wire[l][d][i]>> : i \in DOMAIN wire[l][d]} : l \in Links, d \in Dials}

\* The receiving process ends and is started again: its connections break, what
\* it had not handled is gone, and so is its ring.
Restart ==
  /\ restarts < MaxRestarts
  /\ \A l \in Links : dials[l] < MaxConns
  /\ restarts' = restarts + 1
  /\ status' = [l \in Links |-> [d \in Dials |->
                  IF status[l][d] = "unused" THEN "unused" ELSE "broken"]]
  /\ wire' = [l \in Links |-> [d \in Dials |-> << >>]]
  /\ reader' = [l \in Links |-> [d \in Dials |-> None]]
  /\ incoming' = << >>
  /\ ring' = EmptyRing(None)
  /\ lost' = lost \cup OnWire \cup AtReceiver
  /\ UNCHANGED <<senderVars, peerVars, handled, dropped, refused>>

-----------------------------------------------------------------------------
PeerRun(l) == \/ Connect(l) \/ DialFails(l) \/ DialSucceeds(l)
              \/ Take(l) \/ SeeDone(l)
              \/ EncodeRefuses(l) \/ WriteSucceeds(l) \/ WriteFails(l)
              \/ CloseConn(l)

Outcomes == {"applied", "ignored", "failed"}

\* Everything has come to rest: nothing to announce, no message under way.
AllQuiet ==
  /\ announced = MaxEvents \/ node = "stopped"
  /\ \A l \in Links : pc[l] = "done" \/ (pc[l] = "select" /\ queue[l] = << >>)
  /\ OnWire = {} /\ AtReceiver = {}

Next == \/ Announce \/ Cancel \/ Stop
        \/ \E l \in Links : PeerRun(l)
        \/ \E l \in Links, d \in Dials : \E n \in 0 .. Len(wire[l][d]) : Break(l, d, n)
        \/ \E l \in Links, d \in Dials : Read(l, d) \/ PassOn(l, d)
        \/ \E outcome \in Outcomes : Handle(outcome)
        \/ Restart
        \/ AllQuiet /\ UNCHANGED vars

\* Every goroutine keeps running, and a peer that is dialled again and again is
\* reached in the end.
Fairness ==
  /\ WF_vars(Stop)
  /\ \A l \in Links : WF_vars(PeerRun(l)) /\ SF_vars(DialSucceeds(l))
  /\ \A l \in Links, d \in Dials : WF_vars(Read(l, d)) /\ SF_vars(PassOn(l, d))
  /\ WF_vars(\E outcome \in Outcomes : Handle(outcome))

Safety == Init /\ [][Next]_vars

Spec == Safety /\ Fairness

-----------------------------------------------------------------------------
Pairs == Links \X Events

SenderType == announced \in 0 .. MaxEvents /\ node \in {"running", "cancelled", "stopped"}

PeerType ==
  /\ queue \in [Links -> Seq(Events)]
  /\ \A l \in Links : Len(queue[l]) <= SendCap
  /\ pc \in [Links -> {"connect", "dial", "select", "write", "close", "done"}]
  /\ held \in [Links -> Events \cup {None}]
  /\ \A l \in Links : pc[l] = "write" => held[l] # None
  /\ conn \in [Links -> Dials \cup {None}]
  /\ dials \in [Links -> 0 .. MaxConns]

NetType ==
  /\ status \in [Links -> [Dials -> {"unused", "open", "closed", "broken"}]]
  /\ wire \in [Links -> [Dials -> Seq(Events)]]

RingType == /\ ring.buf \in [Slots -> Events \cup {None}] /\ ring.pos \in Slots
            /\ ring.count \in 0 .. RingSize

Done == [link : Links, dial : Dials, event : Events, outcome : Outcomes, life : 0 .. MaxRestarts]

ReceiverType ==
  /\ reader \in [Links -> [Dials -> Events \cup {None}]]
  /\ incoming \in Seq(Links \X Dials \X Events)
  /\ Len(incoming) <= IncomingCap
  /\ RingType
  /\ restarts \in 0 .. MaxRestarts
  /\ handled \in Seq(Done)

LossType == lost \subseteq Pairs /\ dropped \subseteq Pairs /\ refused \subseteq Pairs

TypeOK == SenderType /\ PeerType /\ NetType /\ ReceiverType /\ LossType

HandledPairs == {<<handled[i].link, handled[i].event>> : i \in DOMAIN handled}

\* Where event e of link l is, from the announcement to its end.
Places(l, e) ==
  LET Kinds == {kind \in {"held", "lost", "dropped", "refused"} :
                 \/ kind = "held" /\ held[l] = e
                 \/ kind = "lost" /\ <<l, e>> \in lost
                 \/ kind = "dropped" /\ <<l, e>> \in dropped
                 \/ kind = "refused" /\ <<l, e>> \in refused}
  IN  {<<kind, 0, 0>> : kind \in Kinds}
      \cup {<<"queue", 0, i>> : i \in {i \in DOMAIN queue[l] : queue[l][i] = e}}
      \cup (UNION {{<<"wire", d, i>> : i \in {i \in DOMAIN wire[l][d] : wire[l][d][i] = e}} : d \in Dials})
      \cup {<<"reader", d, 0>> : d \in {d \in Dials : reader[l][d] = e}}
      \cup {<<"incoming", 0, i>> :
              i \in {i \in DOMAIN incoming : incoming[i][1] = l /\ incoming[i][3] = e}}
      \cup {<<"handled", 0, i>> :
              i \in {i \in DOMAIN handled : handled[i].link = l /\ handled[i].event = e}}

\* Over breaking connections, retries and restarts a link neither forgets an
\* event without a trace nor multiplies it: each announced event is in exactly
\* one place of the path or met exactly one end.  The retry of a pending message
\* in particular never sends a second copy of one that was written.
NeitherVanishNorMultiply ==
  \A l \in Links, e \in Events :
    IF e <= announced THEN \E place \in Places(l, e) : Places(l, e) = {place}
                      ELSE Places(l, e) = {}

\* A later copy is handled before an earlier one only if the later one came over
\* a later connection: within one connection the order of the copies is kept.
OvertakingNeedsReconnect ==
  \A i, j \in DOMAIN handled :
    i < j /\ handled[i].link = handled[j].link /\ handled[i].event > handled[j].event
      => handled[i].dial > handled[j].dial

\* Run never leaks a connection: at most the current one is open, and none is
\* once Run returned, even when a dial succeeds just after the node closed all.
NoConnectionLeak ==
  \A l \in Links, d \in Dials :
    status[l][d] = "open" => conn[l] = d /\ pc[l] \in {"select", "write", "close"}

\* After the context is cancelled every writer goroutine ends.
WritersEnd == node = "cancelled" ~> \A l \in Links : pc[l] = "done"

\* What a writer that ended still holds will never be sent.
Abandoned ==
  {p \in Pairs : /\ pc[p[1]] = "done"
                 /\ p[2] = held[p[1]] \/ \E i \in DOMAIN queue[p[1]] : queue[p[1]][i] = p[2]}

Waiting ==
  {p \in Pairs : /\ pc[p[1]] # "done"
                 /\ p[2] = held[p[1]] \/ \E i \in DOMAIN queue[p[1]] : queue[p[1]][i] = p[2]}

\* The path of an event implements the lossy link: delivered at most once on
\* each link or lost, and settled in the end.
Link == INSTANCE LossyLink
  WITH transit   <- Waiting \cup OnWire \cup AtReceiver,
       delivered <- HandledPairs,
       lost      <- lost \cup dropped \cup refused \cup Abandoned

ImplementsLossyLink == Link!Spec
=============================================================================
