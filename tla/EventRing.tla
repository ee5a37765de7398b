----------------------------- MODULE EventRing -----------------------------
(***************************************************************************)
(* One node's event identifiers: how newMessage (node.go) mints them and   *)
(* how the event loop uses the ring of loop.go to accept an event once.    *)
(*                                                                         *)
(* The history variable log is the sequence of all identifiers the node    *)
(* ever put into the ring, its own and the ones it accepted from peers.    *)
(***************************************************************************)
EXTENDS LoopGuard

CONSTANTS Contents,   \* content hashes
          NoEvent,    \* Go's zero EventID, in slots that were never written
          Self,       \* this node's source name
          Others,     \* source names of the peers
          MaxTime,    \* bound on the wall clock's readings
          MaxAdds     \* bound on the length of log

ASSUME EventRingAssumption == /\ Self \notin Others
                              /\ MaxTime \in Nat
                              /\ MaxAdds \in Nat

EventIDs == [content : Contents, source : Others \cup {Self}, ts : Nat]

VARIABLES ring,     \* Node.ring
          lastTS,   \* Node.lastEventTS
          log       \* every identifier added to the ring, oldest first

vars == <<ring, lastTS, log>>

Init == /\ ring = EmptyRing(NoEvent)
        /\ lastTS = 0
        /\ log = << >>

\* Wrong: the clock's reading as it is.
NextTSRaw(now) == now

\* newMessage: the wall clock's reading, unless it did not advance.
NextTS(now) == IF now <= lastTS THEN lastTS + 1 ELSE now

\* A local copy that is not an echo: mint an identifier and remember it.  The
\* wall clock may read anything: it may stand still or be set back.
Copy(content, now) ==
  /\ Len(log) < MaxAdds
  /\ LET id == [content |-> content, source |-> Self, ts |-> NextTS(now)]
     IN  /\ ring' = RingAdd(ring, id)
         /\ log' = Append(log, id)
  /\ lastTS' = NextTS(now)

\* Events of this node exist only once they were minted; a peer entry that
\* resolves to this very node brings them back.
CanArrive(id) == id.source = Self => \E i \in DOMAIN log : log[i] = id

\* An event from the network that is handled successfully.  An event that the
\* ring contains is ignored, which changes nothing.
Accept(id) ==
  /\ Len(log) < MaxAdds
  /\ CanArrive(id)
  /\ ~ RingContains(ring, id)
  /\ ring' = RingAdd(ring, id)
  /\ log' = Append(log, id)
  /\ UNCHANGED lastTS

\* The identifiers the network may bring: timestamps of a bounded clock.
Arrivals == [content : Contents, source : Others \cup {Self}, ts : 0 .. MaxTime]

Next == \/ \E content \in Contents, now \in 0 .. MaxTime : Copy(content, now)
        \/ \E id \in Arrivals : Accept(id)

Spec == Init /\ [][Next]_vars

-----------------------------------------------------------------------------
TypeOK ==
  /\ ring.buf \in [Slots -> EventIDs \cup {NoEvent}]
  /\ ring.pos \in Slots
  /\ ring.count \in 0 .. RingSize
  /\ ring = [buf |-> ring.buf, pos |-> ring.pos, count |-> ring.count]
  /\ lastTS \in Nat
  /\ log \in Seq(EventIDs)

\* The positions in log of the last RingSize additions.
Window == {i \in 1 .. Len(log) : i > Len(log) - RingSize}

\* RingBuffer.Contains answers exactly whether the identifier is among the last
\* RingSize identifiers added: the circular array neither forgets one too
\* early, nor remembers one too long, nor reads a slot that was never written.
RingIsWindow ==
  /\ \A i \in Window : RingContains(ring, log[i])
  /\ \A s \in Slots : RingContains(ring, ring.buf[s])
                        => \E i \in Window : log[i] = ring.buf[s]

\* An event is handled a second time only after more than RingSize others: the
\* guarantee against loops that loop.go's ring gives.  It covers the node's own
\* events too, which a peer entry naming this node would bring back.
NoReplayInWindow ==
  \A i, j \in 1 .. Len(log) : i < j /\ log[i] = log[j] => j - i > RingSize

\* Copying again the same content is a new event whatever the wall clock does
\* (loop.go: "copying the same value again is a new event and must be synced"):
\* no identifier that this node mints was ever in its log.
RecopyIsNew ==
  [][ lastTS' # lastTS =>
        \A i \in 1 .. Len(log) : log[i] # log'[Len(log')] ]_vars
=============================================================================
