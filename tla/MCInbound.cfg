CONSTANTS
  RingSize = 2
  Contents = {11, 12, 13, 14}
  NoEvent = NoEvent
  Self <- This
  Others <- PeerNames
  MaxTime = 1
  MaxAdds = 4
  MaxSourceSize = 1
  MaxPayloadSize = 2
  MaxSize = 4
  ImageSizes = {2}
  Faults = TRUE
  None = None
  c1 = c1
  c2 = c2
  c3 = c3
  c4 = c4
  Conns = {c1, c2, c3, c4}
  Sender <- PeersOf
  Makes <- Senders
  TypeOf <- Types
  PayloadOf <- Payloads
  Valid = {13}
  FilesEnabled = TRUE
  IncomingCap = 1
  MaxMinted = 3
  MaxBreaks = 1
  WriteMayFail = TRUE
SPECIFICATION InboundSpec
INVARIANTS
  InboundTypeOK
  LimitKept
  NewestKept
  RingIsWindow
  NoReplayInWindow
  HandledWereMade
  OnlyDuplicatesIgnored
PROPERTY RecopyIsNew
SYMMETRY ConnSymmetry
CHECK_DEADLOCK FALSE
