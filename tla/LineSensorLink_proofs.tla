------------------------ MODULE LineSensorLink_proofs ------------------------
(***************************************************************************)
(* Theorems about the SPI line between wireless interface and line sensor, *)
(* for any number of faults: of late slaves, of halfwords lost or garbled, *)
(* of DMA channels that fail, of restarts and of stops.                    *)
(***************************************************************************)
EXTENDS LineSensorLink, TLAPS

Part(h, k) == h[1] = "part" /\ h[3] = k
IsCrc(h) == h[1] = "crc"

\* Every response says what it responds to.
Named(responses) == \A c \in Commands : responses[c].of = c

\* The slave: the channel runs in a response only, and is always ahead of the line; the
\* command is in the receive register before the line can ask for another halfword; no
\* part of a response is in the transmit register before the channel runs.
Consistent(s) ==
  /\ s.dma => s.state = "RESPONSE" /\ s.from # None
  /\ s.state = "COMMAND" => s.rxneie /\ s.fillers = 1 /\ (s.dr = Empty => s.rdr # None)
  /\ s.state = "FILLER" => s.from # None /\ s.left = Body(s.from) + 1
  /\ s.state \in {"COMMAND", "FILLER"} => s.dr \in {Junk, Empty}
  /\ Named(s.response)
  /\ s.dma /\ s.dr[1] = "part" => s.dr[2].of = s.from /\ s.left = Body(s.from) + 1 - s.dr[3]
  /\ s.dma /\ s.dr[1] # "part" => s.left = 0

-----------------------------------------------------------------------------
(* What the slave's handlers do.                                            *)

\* Bodies have one or two halfwords.
LEMMA BodyLength ==
  ASSUME NEW c \in Commands
  PROVE  Body(c) \in {1, 2} /\ (c = "values" <=> Body(c) = 2) /\ c # None
  BY DEF Body, Commands, None

\* Halfwords of different kinds are different.
LEMMA HalfwordKinds ==
  /\ Junk[1] = "junk" /\ Empty[1] = "empty" /\ Junk # Empty /\ Junk \in Halfwords
  /\ \A h \in Halfwords : h # Empty /\ h[1] \in {"junk", "part", "crc"} /\ h[2] \in Bodies
  /\ \A h \in Halfwords : h[1] = "part" => h[3] \in {1, 2}
  <1>1. NoBody \in Bodies
    BY DEF NoBody, Bodies
  <1>2. QED
    BY <1>1 DEF Junk, Empty, Halfwords, Parts, Crcs

\* Stopping, after an error or not, leaves the registers and what was begun.
LEMMA StopType ==
  ASSUME NEW s \in Slave, NEW t, t = spiStop(s) \/ t = spiError(s)
  PROVE  /\ t \in Slave
         /\ t.state = "IDLE" /\ t.dma = FALSE /\ t.tx = None /\ t.slot = s.slot
         /\ t.dr = s.dr /\ t.response = s.response /\ t.rdr = s.rdr
  <1>1. NoBody \in Bodies /\ None \in Commands \cup {None} /\ 0 \in 0 .. 3 /\ 0 \in 0 .. FILLERS + 1
    BY DEF NoBody, Bodies, FILLERS
  <1>2. /\ spiStop(s) \in Slave
        /\ spiStop(s).state = "IDLE" /\ spiStop(s).dma = FALSE /\ spiStop(s).tx = None
        /\ spiStop(s).slot = s.slot /\ spiStop(s).dr = s.dr
        /\ spiStop(s).response = s.response /\ spiStop(s).rdr = s.rdr
    BY <1>1 DEF spiStop, Slave
  <1>3. /\ spiError(s) \in Slave
        /\ spiError(s).state = "IDLE" /\ spiError(s).dma = FALSE /\ spiError(s).tx = None
        /\ spiError(s).slot = s.slot /\ spiError(s).dr = s.dr
        /\ spiError(s).response = s.response /\ spiError(s).rdr = s.rdr
    BY <1>2 DEF spiError, Slave
  <1>4. QED
    BY <1>2, <1>3

\* So the slave is consistent when it has been stopped.
LEMMA StopConsistent ==
  ASSUME NEW s \in Slave, Consistent(s)
  PROVE  Consistent(spiStop(s)) /\ Consistent(spiError(s))
  BY StopType DEF Consistent

\* When it is selected and idle it waits for a command, with a filler to send.
LEMMA StartEffect ==
  ASSUME NEW s \in Slave, Consistent(s)
  PROVE  /\ spiStart(s) \in Slave /\ Consistent(spiStart(s))
         /\ spiStart(s).state = "IDLE" \/ (spiStart(s).state = "COMMAND" /\ spiStart(s).dr = Junk)
         /\ spiStart(s).dr \in {s.dr, Junk}
         /\ spiStart(s).slot = s.slot /\ spiStart(s).tx \in {s.tx, None}
  <1>1. CASE s.state # "IDLE"
    BY <1>1, StopType, StopConsistent DEF spiStart
  <1>2. CASE s.state = "IDLE"
    <2> DEFINE t == [s EXCEPT !.state = "COMMAND", !.fillers = 1, !.dr = Junk,
                              !.txeie = TRUE, !.rxneie = TRUE]
    <2>1. t = spiStart(s)
      BY <1>2 DEF spiStart
    <2>2. 1 \in 0 .. FILLERS + 1 /\ Junk \in Halfwords
      BY HalfwordKinds DEF FILLERS
    <2>3. /\ t \in Slave /\ t.state = "COMMAND" /\ t.dr = Junk /\ t.fillers = 1 /\ t.rxneie
          /\ t.dma = s.dma /\ t.response = s.response /\ t.slot = s.slot /\ t.tx = s.tx
      BY <2>2 DEF Slave
    <2> HIDE DEF t
    <2>4. Consistent(t)
      BY <1>2, <2>3, HalfwordKinds DEF Consistent
    <2>5. QED
      BY <2>1, <2>3, <2>4
  <1>3. QED
    BY <1>1, <1>2

\* A command is answered or, while the sum of an earlier response is not finished, not.
LEMMA PreparedType ==
  ASSUME NEW s \in Slave, NEW c \in Commands, NEW newer \in BOOLEAN, NEW length \in 0 .. 3,
         NEW t, t = Prepared(s, c, newer, length)
  PROVE  /\ t \in Slave
         /\ t.from = c /\ t.left = length /\ t.tx = c
         /\ t.state = s.state /\ t.dma = s.dma /\ t.dr = s.dr /\ t.rdr = s.rdr
         /\ t.rxneie = s.rxneie /\ t.fillers = s.fillers /\ t.slot = s.slot
         /\ Named(s.response) => Named(t.response)
  <1> DEFINE f == fillInCommandData(s, c, newer)
  <1>1. /\ f \in Slave
        /\ f.state = s.state /\ f.dma = s.dma /\ f.dr = s.dr /\ f.rdr = s.rdr
        /\ f.rxneie = s.rxneie /\ f.fillers = s.fillers /\ f.slot = s.slot
        /\ Named(s.response) => Named(f.response)
    <2>0. s.response \in [Commands -> Bodies] /\ s.crc \in [Commands -> Bodies]
         /\ getSensorStatus(s) \in BOOLEAN
      BY DEF Slave, getSensorStatus
    <2>1. CASE c = "values" /\ newer
      <3> DEFINE r == [s.response EXCEPT ![c] = [s.response[c] EXCEPT !.new = TRUE, !.err = getSensorStatus(s)]]
                 d == [s.crc EXCEPT ![c] = NoBody]
      <3>1. r \in [Commands -> Bodies] /\ \A k \in Commands : r[k].of = s.response[k].of
        BY <2>0 DEF Bodies
      <3>2. d \in [Commands -> Bodies]
        BY <2>0 DEF NoBody, Bodies
      <3>3. f = [s EXCEPT !.response = r, !.crc = d]
        BY <2>1 DEF fillInCommandData, Slave
      <3> HIDE DEF r, d, f
      <3>4. QED
        BY <3>1, <3>2, <3>3 DEF Slave, Named
    <2>2. CASE ~(c = "values" /\ newer)
      <3> DEFINE e == getSensorStatus(s) \/ (c = "values" /\ s.response[c].err)
                 r == [s.response EXCEPT ![c].err = e]
      <3>0. e \in BOOLEAN
        OBVIOUS
      <3>3. f = [s EXCEPT !.response = r]
        BY <2>2 DEF fillInCommandData, Slave
      <3> HIDE DEF e
      <3>1. r \in [Commands -> Bodies] /\ \A k \in Commands : r[k].of = s.response[k].of
        BY <2>0, <3>0 DEF Bodies
      <3> HIDE DEF r, f
      <3>4. QED
        BY <3>1, <3>3 DEF Slave, Named
    <2>3. QED
      BY <2>1, <2>2
  <1>2. t = [f EXCEPT !.from = c, !.left = length, !.tx = c, !.length = length]
    BY DEF Prepared
  <1> HIDE DEF f
  <1>3. t \in Slave
    BY <1>1, <1>2 DEF Slave
  <1>4. /\ t.from = c /\ t.left = length /\ t.tx = c
        /\ t.state = f.state /\ t.dma = f.dma /\ t.dr = f.dr /\ t.rdr = f.rdr
        /\ t.rxneie = f.rxneie /\ t.fillers = f.fillers /\ t.slot = f.slot
        /\ t.response = f.response
    BY <1>1, <1>2 DEF Slave
  <1>5. QED
    BY <1>1, <1>3, <1>4

\* Either the response is the one to send next, or the slave stops.
Outcome(s, c, t) ==
  /\ t \in Slave
  /\ t.dma = FALSE /\ t.dr = s.dr /\ t.rdr = s.rdr
  /\ Named(s.response) => Named(t.response)
  /\ \/ t.state = "IDLE" /\ t.tx = None /\ t.slot = s.slot
     \/ /\ ~s.slot /\ t.state = "FILLER" /\ t.fillers = s.fillers
        /\ t.from = c /\ t.left = Body(c) + 1 /\ t.slot = TRUE

\* That is what comes of a command.
LEMMA ProcessEffect ==
  ASSUME NEW s \in Slave, NEW c \in Commands, NEW newer \in BOOLEAN, s.dma = FALSE
  PROVE  Outcome(s, c, processCommand(s, c, newer))
  <1> DEFINE t == processCommand(s, c, newer)
  <1> DEFINE ready == Prepared(s, c, newer, Body(c) + 1)
             begun == [ready EXCEPT !.slot = TRUE, !.state = "FILLER"]
  <1>1. Body(c) + 1 \in 0 .. 3
    BY BodyLength
  <1> HIDE DEF ready
  <1>2. /\ ready \in Slave
        /\ ready.from = c /\ ready.left = Body(c) + 1
        /\ ready.dma = s.dma /\ ready.dr = s.dr /\ ready.rdr = s.rdr
        /\ ready.fillers = s.fillers /\ ready.slot = s.slot
        /\ Named(s.response) => Named(ready.response)
    <2>1. ready = Prepared(s, c, newer, Body(c) + 1)
      BY DEF ready
    <2>2. QED
      BY <1>1, <2>1, PreparedType
  <1>3. t = IF s.slot THEN spiError(ready) ELSE begun
    BY DEF processCommand, ready
  <1> HIDE DEF t
  <1>4. ASSUME s.slot PROVE Outcome(s, c, t)
    BY <1>2, <1>3, <1>4, StopType DEF Outcome
  <1>5. ASSUME ~s.slot PROVE Outcome(s, c, t)
    <2>1. /\ begun \in Slave /\ begun.slot = TRUE /\ begun.state = "FILLER"
          /\ begun.from = ready.from /\ begun.left = ready.left /\ begun.dma = ready.dma
          /\ begun.dr = ready.dr /\ begun.rdr = ready.rdr /\ begun.fillers = ready.fillers
          /\ begun.response = ready.response
      BY <1>2 DEF Slave
    <2> HIDE DEF begun
    <2>2. QED
      BY <1>2, <1>3, <1>5, <2>1 DEF Outcome
  <1>6. QED
    BY <1>4, <1>5 DEF t

\* A command is read when it comes, and nothing else once it is in.
LEMMA ReceivedEffect ==
  ASSUME NEW s \in Slave, NEW newer \in BOOLEAN, Consistent(s),
         NEW t, t = OnReceived(s, newer)
  PROVE  /\ t \in Slave /\ Consistent(t)
         /\ t.dr = s.dr /\ t.dma = s.dma
         /\ t.state = "COMMAND" => t = s /\ s.dr # Empty
         /\ t.state = "FILLER" => s.state \in {"COMMAND", "FILLER"} /\ t.fillers = s.fillers
         /\ t.state = "FILLER" /\ s.state = "FILLER" => t.from = s.from /\ t.response = s.response
         /\ t.state = "FILLER" /\ s.state = "COMMAND" => t.fillers = 1
         /\ t.slot = s.slot \/ (~s.slot /\ t.slot = TRUE)
         /\ s.slot => t.tx \in {s.tx, None}
  <1>1. CASE ~s.rxneie \/ s.rdr = None
    <2>1. t = s
      BY <1>1 DEF OnReceived
    <2>2. s.state = "COMMAND" => s.dr # Empty
      BY <1>1 DEF Consistent
    <2>3. s.state = "COMMAND" => s.fillers = 1
      BY DEF Consistent
    <2>4. QED
      BY <2>1, <2>2, <2>3
  <1>2. CASE ~(~s.rxneie \/ s.rdr = None) /\ s.state # "COMMAND"
    <2> DEFINE u == [s EXCEPT !.rxneie = FALSE]
    <2>1. t = u
      BY <1>2 DEF OnReceived
    <2>2. /\ u \in Slave /\ u.state = s.state /\ u.dma = s.dma /\ u.dr = s.dr /\ u.from = s.from
          /\ u.left = s.left /\ u.response = s.response /\ u.fillers = s.fillers
          /\ u.slot = s.slot /\ u.tx = s.tx
      BY DEF Slave
    <2> HIDE DEF u
    <2>3. Consistent(u)
      BY <1>2, <2>2 DEF Consistent
    <2>4. QED
      BY <1>2, <2>1, <2>2, <2>3
  <1>3. CASE ~(~s.rxneie \/ s.rdr = None) /\ s.state = "COMMAND"
    <2> DEFINE read == [s EXCEPT !.rdr = None, !.rxneie = FALSE]
    <2>1. /\ read \in Slave /\ read.state = s.state /\ read.dma = s.dma /\ read.dr = s.dr
          /\ read.response = s.response /\ read.fillers = s.fillers /\ read.slot = s.slot
          /\ read.tx = s.tx
      BY DEF Slave, None
    <2>2. s.dma = FALSE /\ s.fillers = 1 /\ s.dr \in {Junk, Empty}
          /\ Named(s.response)
      BY <1>3 DEF Consistent, Slave
    <2>3. CASE s.rdr \in Commands
      <3> DEFINE asked == [read EXCEPT !.command = s.rdr]
      <3>1. t = processCommand(asked, s.rdr, newer)
        BY <1>3, <2>3 DEF OnReceived
      <3> HIDE DEF read
      <3>2. /\ asked \in Slave /\ asked.state = s.state /\ asked.dma = s.dma /\ asked.dr = s.dr
            /\ asked.response = s.response /\ asked.fillers = s.fillers /\ asked.slot = s.slot
            /\ asked.tx = s.tx
        BY <2>1, <2>3 DEF Slave
      <3> HIDE DEF asked
      <3>3. /\ t \in Slave /\ t.dma = FALSE /\ t.dr = s.dr
            /\ Named(t.response)
            /\ \/ t.state = "IDLE" /\ t.tx = None /\ t.slot = s.slot
               \/ /\ ~s.slot /\ t.state = "FILLER" /\ t.fillers = s.fillers
                  /\ t.from \in Commands /\ t.left = Body(t.from) + 1 /\ t.slot = TRUE
        <4>1. asked.dma = FALSE
          BY <2>1, <2>2, <3>2
        <4>2. /\ t \in Slave /\ t.dma = FALSE /\ t.dr = asked.dr
              /\ Named(asked.response) => Named(t.response)
              /\ \/ t.state = "IDLE" /\ t.tx = None /\ t.slot = asked.slot
                 \/ /\ ~asked.slot /\ t.state = "FILLER" /\ t.fillers = asked.fillers
                    /\ t.from = s.rdr /\ t.left = Body(s.rdr) + 1 /\ t.slot = TRUE
          <5>1. Outcome(asked, s.rdr, t)
            BY <2>3, <3>1, <3>2, <4>1, ProcessEffect, Zenon
          <5>2. QED
            BY <5>1 DEF Outcome
        <4>3. QED
          BY <2>2, <2>3, <3>2, <4>2
      <3>4. Consistent(t)
        BY <2>2, <3>3, BodyLength DEF Consistent
      <3>5. QED
        BY <1>3, <2>2, <3>3, <3>4
    <2>4. CASE s.rdr \notin Commands
      <3>1. t = spiError(read)
        BY <1>3, <2>4 DEF OnReceived
      <3> HIDE DEF read
      <3>2. /\ t \in Slave /\ t.state = "IDLE" /\ t.dma = FALSE /\ t.tx = None
            /\ t.slot = s.slot /\ t.dr = s.dr /\ t.response = s.response
        BY <2>1, <3>1, StopType
      <3>3. Consistent(t)
        BY <2>2, <3>2 DEF Consistent
      <3>4. QED
        BY <2>2, <3>2, <3>3
    <2>5. QED
      BY <2>3, <2>4
  <1>4. QED
    BY <1>1, <1>2, <1>3

\* What the channel puts into the empty register: the next part of the response it is
\* pointed at, its CRC at last, then nothing.
Fed(s, t) ==
  /\ t \in Slave /\ Consistent(t)
  /\ t.state = s.state /\ t.dma = s.dma /\ t.slot = s.slot /\ t.tx = s.tx
  /\ t.fillers = s.fillers /\ t.response = s.response /\ t.rdr = s.rdr
  /\ s.left = 0 => t.dr = Empty
  /\ s.left = 1 => IsCrc(t.dr)
  /\ s.left > 1 => t.dr = <<"part", s.response[s.from], Body(s.from) + 2 - s.left>>

\* That is what it does for a slave that has not sent more than its response.
LEMMA FeedEffect ==
  ASSUME NEW s \in Slave, s.dma, s.from # None, s.dr = Empty, s.state = "RESPONSE",
         s.left <= Body(s.from) + 1, Named(s.response)
  PROVE  Fed(s, Feed(s))
  <1> DEFINE b == s.response[s.from]
             k == Body(s.from) + 2 - s.left
  <1>1. s.from \in Commands /\ s.left \in 0 .. 3 /\ Body(s.from) \in {1, 2}
    BY BodyLength DEF Slave
  <1>2. b \in Bodies /\ b.of = s.from /\ s.crc[s.from] \in Bodies
    BY <1>1 DEF Slave, Named
  <1> DEFINE fed(h) == [s EXCEPT !.dr = h, !.left = s.left - 1, !.tc = s.tc \/ s.left = 1]
  <1>7. /\ s.left = 0 => Feed(s) = s
        /\ s.left = 1 => Feed(s) = fed(<<"crc", s.crc[s.from], 0>>)
        /\ s.left > 1 => Feed(s) = fed(<<"part", b, k>>)
    <2>1. s.left = 0 => Feed(s) = s
      BY DEF Feed
    <2>2. s.left # 0 => s.left > 0
      BY <1>1
    <2>3. s.left # 0 => Feed(s) = fed(IF s.left = 1 THEN <<"crc", s.crc[s.from], 0>> ELSE <<"part", b, k>>)
      BY <2>2 DEF Feed
    <2>4. s.left = 1 => s.left # 0
      OBVIOUS
    <2>5. s.left > 1 => s.left # 0 /\ s.left # 1
      BY <1>1
    <2> HIDE DEF fed, b, k
    <2>6. QED
      BY <2>1, <2>3, <2>4, <2>5
  <1>3. CASE s.left = 0
    <2>1. Feed(s) = s /\ s.dr[1] # "part"
      BY <1>3, <1>7, HalfwordKinds
    <2>2. Consistent(s)
      BY <1>3, <2>1 DEF Consistent
    <2>3. s.left # 1 /\ ~(s.left > 1)
      BY <1>3
    <2>4. Fed(s, s)
      BY <2>2, <2>3 DEF Fed
    <2>5. QED
      BY <2>1, <2>4
  <1>4. CASE s.left = 1
    <2> DEFINE h == <<"crc", s.crc[s.from], 0>>
               t == fed(h)
    <2>1. Feed(s) = t
      BY <1>4, <1>7
    <2>2. h \in Halfwords /\ h[1] = "crc"
      BY <1>2 DEF Halfwords, Crcs
    <2> HIDE DEF h
    <2>3. /\ t \in Slave /\ t.dr = h /\ t.left = 0 /\ t.state = s.state /\ t.dma = s.dma
          /\ t.slot = s.slot /\ t.tx = s.tx /\ t.fillers = s.fillers /\ t.from = s.from
          /\ t.response = s.response /\ t.rdr = s.rdr
      <3>1. s.left - 1 = 0 /\ 0 \in 0 .. 3
        BY <1>4
      <3>2. (s.tc \/ s.left = 1) \in BOOLEAN
        OBVIOUS
      <3> DEFINE tc == s.tc \/ s.left = 1
                 left == s.left - 1
      <3>3. t = [s EXCEPT !.dr = h, !.left = left, !.tc = tc]
        OBVIOUS
      <3> HIDE DEF tc, left, t
      <3>4. QED
        BY <2>2, <3>1, <3>2, <3>3 DEF Slave, tc, left
    <2> HIDE DEF t
    <2>4. Consistent(t)
      BY <2>2, <2>3 DEF Consistent
    <2>5. QED
      BY <1>4, <2>1, <2>2, <2>3, <2>4 DEF Fed, IsCrc
  <1>5. CASE s.left > 1
    <2> DEFINE h == <<"part", b, k>>
               t == [s EXCEPT !.dr = h, !.left = s.left - 1]
    <2>1. Feed(s) = t
      <3>1. s.tc = (s.tc \/ s.left = 1)
        BY <1>5 DEF Slave
      <3>2. Feed(s) = fed(h)
        BY <1>5, <1>7
      <3>3. fed(h) = t
        BY <3>1 DEF Slave
      <3>4. QED
        BY <3>2, <3>3
    <2>2. k \in {1, 2} /\ s.left - 1 \in 0 .. 3 /\ s.left - 1 = Body(s.from) + 1 - k
      BY <1>1, <1>5
    <2>3. h \in Halfwords /\ h[1] = "part" /\ h[2] = b /\ h[3] = k
      BY <1>2, <2>2 DEF Halfwords, Parts
    <2> HIDE DEF h, k
    <2>4. /\ t \in Slave /\ t.dr = h /\ t.left = s.left - 1 /\ t.state = s.state
          /\ t.dma = s.dma /\ t.slot = s.slot /\ t.tx = s.tx /\ t.fillers = s.fillers
          /\ t.from = s.from /\ t.response = s.response /\ t.rdr = s.rdr
      BY <2>2, <2>3 DEF Slave
    <2> HIDE DEF t, b
    <2>5. Consistent(t)
      BY <1>2, <2>2, <2>3, <2>4 DEF Consistent
    <2>6. QED
      BY <1>5, <2>1, <2>4, <2>5 DEF Fed, b, k, h
  <1>6. QED
    BY <1>1, <1>3, <1>4, <1>5

\* The transmit half of the interrupt leaves something in the register: what was there, a
\* filler, or the first part of the response that the channel now runs from.
Begins(s, t) ==
  /\ s.state = "FILLER" /\ s.fillers = FILLERS /\ s.dr = Empty /\ ~s.dma
  /\ t.dma /\ t.dr = <<"part", s.response[s.from], 1>>

Supplied(s, t) ==
  /\ t \in Slave /\ Consistent(t)
  /\ t.dr # Empty
  /\ s.dr # Empty => t = s
  /\ t.state \in {"COMMAND", "FILLER"} => t.state = s.state
  /\ t.slot = s.slot /\ t.tx \in {s.tx, None}
  /\ Begins(s, t) \/ (t.dr \in {s.dr, Junk} /\ (t.dma => s.dma))

LEMMA SupplyEffect ==
  ASSUME NEW s \in Slave, Consistent(s), s.state = "COMMAND" => s.dr # Empty
  PROVE  Supplied(s, OnEmpty(s))
  <1> USE DEF Supplied
  <1>1. CASE s.dr # Empty
    BY <1>1 DEF OnEmpty
  <1>2. CASE s.dr = Empty /\ (s.state # "FILLER" \/ s.fillers < FILLERS)
    <2> DEFINE n == Increment(s.fillers)
               t == [s EXCEPT !.dr = Junk, !.fillers = n]
    <2>1. OnEmpty(s) = t
      <3>1. CASE s.state # "FILLER"
        BY <1>2, <3>1 DEF OnEmpty
      <3>2. CASE s.state = "FILLER"
        <4>1. s.fillers < FILLERS /\ s.fillers # FILLERS /\ ~(s.fillers > FILLERS)
          BY <1>2, <3>2 DEF Slave, FILLERS
        <4>2. QED
          BY <1>2, <3>2, <4>1 DEF OnEmpty
      <3>3. QED
        BY <3>1, <3>2
    <2>2. n \in 0 .. FILLERS + 1 /\ Junk \in Halfwords
      BY HalfwordKinds DEF Slave, FILLERS, Increment
    <2> HIDE DEF n
    <2>3. /\ t \in Slave /\ t.dr = Junk /\ t.state = s.state /\ t.dma = s.dma /\ t.tx = s.tx
          /\ t.from = s.from /\ t.left = s.left /\ t.response = s.response /\ t.slot = s.slot
      BY <2>2 DEF Slave
    <2> HIDE DEF t
    <2>4. Consistent(t)
      BY <1>2, <2>3, HalfwordKinds DEF Consistent
    <2>5. QED
      BY <1>2, <2>1, <2>3, <2>4, HalfwordKinds
  <1>3. CASE s.dr = Empty /\ s.state = "FILLER" /\ s.fillers = FILLERS
    <2> DEFINE u == [s EXCEPT !.state = "RESPONSE", !.dma = TRUE, !.txeie = FALSE]
    <2>1. OnEmpty(s) = Feed(u)
      BY <1>3 DEF OnEmpty
    <2>2. /\ u \in Slave /\ u.state = "RESPONSE" /\ u.dma /\ u.dr = s.dr /\ u.from = s.from
          /\ u.left = s.left /\ u.response = s.response /\ u.slot = s.slot /\ u.tx = s.tx
      BY DEF Slave
    <2>3. /\ s.from # None /\ s.left = Body(s.from) + 1 /\ Named(s.response) /\ ~s.dma
          /\ s.from \in Commands
      BY <1>3 DEF Consistent, Slave
    <2> HIDE DEF u
    <2>4. Body(s.from) \in {1, 2}
      BY <2>3, BodyLength
    <2>5. Fed(u, Feed(u))
      <3>1. u.left <= Body(u.from) + 1 /\ u.from # None /\ u.dr = Empty /\ Named(u.response)
        BY <1>3, <2>2, <2>3, <2>4
      <3>2. QED
        BY <2>2, <3>1, FeedEffect
    <2>6. s.left > 1 /\ Body(s.from) + 2 - s.left = 1
      BY <2>3, <2>4
    <2> DEFINE t == Feed(u)
    <2> HIDE DEF t
    <2>7. Fed(u, t)
      BY <2>5 DEF t
    <2>8. /\ t \in Slave /\ Consistent(t) /\ t.state = "RESPONSE" /\ t.dma /\ t.slot = s.slot
          /\ t.tx = s.tx /\ t.dr = <<"part", s.response[s.from], 1>>
      BY <2>2, <2>6, <2>7 DEF Fed
    <2>9. t.dr # Empty
      BY <2>8 DEF Empty
    <2>10. Supplied(s, t)
      BY <1>3, <2>3, <2>8, <2>9 DEF Begins
    <2>11. QED
      BY <2>1, <2>10 DEF t
  <1>4. CASE s.dr = Empty /\ s.state = "FILLER" /\ s.fillers > FILLERS
    <2> DEFINE u == [s EXCEPT !.dr = Junk]
               t == spiError(u)
    <2>0. s.fillers # FILLERS
      BY <1>4 DEF FILLERS, Slave
    <2>1. OnEmpty(s) = t
      BY <1>4, <2>0 DEF OnEmpty
    <2>2. u \in Slave /\ u.dr = Junk /\ u.response = s.response /\ u.slot = s.slot
      BY HalfwordKinds DEF Slave
    <2> HIDE DEF u
    <2>3. /\ t \in Slave /\ t.state = "IDLE" /\ t.dma = FALSE /\ t.tx = None /\ t.slot = s.slot
          /\ t.dr = Junk /\ t.response = s.response
      BY <2>2, StopType
    <2> HIDE DEF t
    <2>4. Consistent(t)
      BY <2>3 DEF Consistent
    <2>5. QED
      BY <1>4, <2>1, <2>3, <2>4, HalfwordKinds
  <1>5. QED
    BY <1>1, <1>2, <1>3, <1>4 DEF Slave, FILLERS

\* What the interrupt does: what is in the register to be sent stays, a response is begun
\* only in a transfer whose command has been read before.
Replied(s, t) ==
  /\ t \in Slave /\ Consistent(t)
  /\ t.dr # Empty
  /\ s.dr # Empty => t.dr = s.dr /\ t.dma = s.dma
  /\ t.state = "COMMAND" => s.state = "COMMAND" /\ s.dr # Empty
  /\ t.state = "FILLER" =>
       s.state \in {"COMMAND", "FILLER"} /\ (s.dr # Empty => t.fillers = s.fillers)
  /\ s.slot => t.slot /\ t.tx \in {s.tx, None}
  /\ Begins(s, t) \/ (t.dr \in {s.dr, Junk} /\ (t.dma => s.dma))

LEMMA CommandEffect ==
  ASSUME NEW s \in Slave, NEW newer \in BOOLEAN, Consistent(s)
  PROVE  Replied(s, OnEmpty(OnReceived(s, newer)))
  <1> DEFINE r == OnReceived(s, newer)
             t == OnEmpty(r)
  <1>1. /\ r \in Slave /\ Consistent(r)
        /\ r.dr = s.dr /\ r.dma = s.dma
        /\ r.state = "COMMAND" => r = s /\ s.dr # Empty
        /\ r.state = "FILLER" => s.state \in {"COMMAND", "FILLER"} /\ r.fillers = s.fillers
        /\ r.state = "FILLER" /\ s.state = "FILLER" => r.from = s.from /\ r.response = s.response
        /\ r.state = "FILLER" /\ s.state = "COMMAND" => r.fillers = 1
        /\ r.slot = s.slot \/ (~s.slot /\ r.slot = TRUE)
        /\ s.slot => r.tx \in {s.tx, None}
    BY ReceivedEffect
  <1>2. Supplied(r, t)
    <2> HIDE DEF r
    <2>1. r.state = "COMMAND" => r.dr # Empty
      BY <1>1
    <2>2. QED
      BY <1>1, <2>1, SupplyEffect, Zenon
  <1> HIDE DEF r, t
  <1>3. Begins(r, t) => Begins(s, t)
    BY <1>1 DEF Begins, FILLERS
  <1>4. Replied(s, t)
    <2>1. t \in Slave /\ Consistent(t) /\ t.dr # Empty
      BY <1>2 DEF Supplied
    <2>2. s.dr # Empty => t.dr = s.dr /\ t.dma = s.dma
      BY <1>1, <1>2 DEF Supplied
    <2>3. t.state = "COMMAND" => s.state = "COMMAND" /\ s.dr # Empty
      BY <1>1, <1>2 DEF Supplied
    <2>4. t.state = "FILLER" =>
            s.state \in {"COMMAND", "FILLER"} /\ (s.dr # Empty => t.fillers = s.fillers)
      BY <1>1, <1>2 DEF Supplied
    <2>5. s.slot => t.slot /\ t.tx \in {s.tx, None}
      <3>1. t.slot = r.slot /\ t.tx \in {r.tx, None}
        BY <1>2 DEF Supplied
      <3>2. r.slot = s.slot \/ r.slot = TRUE
        BY <1>1
      <3>3. QED
        BY <1>1, <3>1, <3>2
    <2>6. Begins(s, t) \/ (t.dr \in {s.dr, Junk} /\ (t.dma => s.dma))
      BY <1>1, <1>2, <1>3 DEF Supplied
    <2>7. QED
      BY <2>1, <2>2, <2>3, <2>4, <2>5, <2>6 DEF Replied
  <1>5. QED
    BY <1>4 DEF r, t

\* A halfword is shifted out, and the next part of the same response moves up.
Shifted(s, t) ==
  /\ t \in Slave /\ Consistent(t)
  /\ t.state = s.state /\ t.fillers = s.fillers /\ t.slot = s.slot /\ t.tx = s.tx
  /\ ~Part(t.dr, 1)
  /\ Part(s.dr, 1) =>
       \/ ~Part(t.dr, 2) /\ ~IsCrc(t.dr)
       \/ Part(t.dr, 2) /\ s.dr[2].of = "values"
       \/ IsCrc(t.dr) /\ s.dr[2].of = "detailed"

LEMMA ShiftEffect ==
  ASSUME NEW s \in Slave, NEW h \in Commands \cup {"filler"}, Consistent(s)
  PROVE  Shifted(s, Feed([s EXCEPT !.dr = Empty, !.rdr = IF @ = None THEN h ELSE @]))
  <1> DEFINE d == IF s.rdr = None THEN h ELSE s.rdr
             u == [s EXCEPT !.dr = Empty, !.rdr = d]
             t == Feed(u)
  <1>1. t = Feed([s EXCEPT !.dr = Empty, !.rdr = IF @ = None THEN h ELSE @])
    BY DEF Slave
  <1>2. d \in Commands \cup {None, "filler"} /\ d # None
    BY DEF Slave, Commands, None
  <1> HIDE DEF d
  <1>3. /\ u \in Slave /\ u.dr = Empty /\ u.rdr = d /\ u.state = s.state /\ u.dma = s.dma
        /\ u.from = s.from /\ u.left = s.left /\ u.response = s.response /\ u.slot = s.slot
        /\ u.tx = s.tx /\ u.fillers = s.fillers /\ u.rxneie = s.rxneie
    BY <1>2 DEF Slave
  <1> HIDE DEF u
  <1>4. CASE ~s.dma \/ s.left = 0
    <2>1. t = u
      BY <1>3, <1>4 DEF Feed
    <2>2. Consistent(u)
      BY <1>2, <1>3, <1>4, HalfwordKinds DEF Consistent
    <2>3. ~Part(u.dr, 1) /\ ~Part(u.dr, 2) /\ ~IsCrc(u.dr)
      BY <1>3, HalfwordKinds DEF Part, IsCrc
    <2> HIDE DEF t
    <2>4. Shifted(s, t)
      BY <1>3, <2>1, <2>2, <2>3 DEF Shifted
    <2>5. QED
      BY <1>1, <2>4
  <1>5. CASE s.dma /\ s.left # 0
    <2>1. /\ s.state = "RESPONSE" /\ s.from # None /\ Named(s.response) /\ s.from \in Commands
          /\ s.dr[1] = "part" /\ s.dr[2].of = s.from /\ s.left = Body(s.from) + 1 - s.dr[3]
      BY <1>5 DEF Consistent, Slave
    <2>2. s.dr[3] \in {1, 2} /\ Body(s.from) \in {1, 2} /\ s.left \in 0 .. 3
      BY <2>1, BodyLength, HalfwordKinds DEF Slave
    <2>3. Fed(u, t)
      <3>1. u.left <= Body(u.from) + 1
        BY <1>3, <2>1, <2>2
      <3>2. QED
        BY <1>3, <1>5, <2>1, <3>1, FeedEffect
    <2> HIDE DEF t
    <2>4. CASE s.left = 1
      <3>1. IsCrc(t.dr)
        BY <1>3, <2>3, <2>4 DEF Fed
      <3>2. ~Part(t.dr, 1)
        BY <3>1 DEF IsCrc, Part
      <3>3. Part(s.dr, 1) => s.dr[2].of = "detailed"
        BY <2>1, <2>2, <2>4, BodyLength DEF Part, Commands
      <3>4. Shifted(s, t)
        BY <1>3, <2>3, <3>1, <3>2, <3>3 DEF Shifted, Fed
      <3>5. QED
        BY <1>1, <3>4
    <2>5. CASE s.left > 1
      <3>1. s.dr[3] = 1 /\ s.left = 2 /\ Body(s.from) = 2
        BY <2>1, <2>2, <2>5
      <3>2. t.dr = <<"part", s.response[s.from], 2>>
        BY <1>3, <2>3, <2>5, <3>1 DEF Fed
      <3>3. Part(t.dr, 2) /\ ~Part(t.dr, 1)
        BY <3>2 DEF Part
      <3>4. s.dr[2].of = "values"
        BY <2>1, <3>1, BodyLength
      <3>5. Shifted(s, t)
        BY <1>3, <2>3, <3>3, <3>4 DEF Shifted, Fed
      <3>6. QED
        BY <1>1, <3>5
    <2>6. QED
      BY <1>5, <2>2, <2>4, <2>5
  <1>6. QED
    BY <1>4, <1>5

\* Everything else the slave does, but for the line, leaves what is in the register or
\* puts a filler there, and begins nothing.
Quiet(s, t) ==
  /\ t \in Slave /\ Consistent(t)
  /\ t.dr \in {s.dr, Junk, Empty}
  /\ t.state = "FILLER" => s.state = "FILLER" /\ t.fillers = s.fillers /\ t.dr = s.dr
  /\ t.state = "COMMAND" => t.dr # Empty \/ (s.state = "COMMAND" /\ t.dr = s.dr)

\* A handler leaves the slot of the task alone, and either the pointer too or takes it away.
KeepsTask(s, t) == t.slot = s.slot /\ t.tx \in {s.tx, None}

\* The select line starts or stops the slave.
LEMMA SelectEffect ==
  ASSUME NEW s \in Slave, Consistent(s), NEW t, t = spiStart(s) \/ t = spiStop(s)
  PROVE  Quiet(s, t) /\ KeepsTask(s, t)
  <1>1. CASE t = spiStart(s)
    BY <1>1, StartEffect, HalfwordKinds DEF Quiet, KeepsTask
  <1>2. CASE t = spiStop(s)
    <2>1. /\ t \in Slave /\ t.state = "IDLE" /\ t.dma = FALSE /\ t.tx = None /\ t.slot = s.slot
          /\ t.dr = s.dr
      BY <1>2, StopType
    <2>2. Consistent(t)
      BY <1>2, StopConsistent
    <2>3. QED
      BY <2>1, <2>2 DEF Quiet, KeepsTask
  <1>3. QED
    BY <1>1, <1>2

\* An error stops it.
LEMMA ErrorEffect ==
  ASSUME NEW s \in Slave, Consistent(s), NEW t, t = spiError(s)
  PROVE  Quiet(s, t) /\ KeepsTask(s, t)
  <1>1. /\ t \in Slave /\ t.state = "IDLE" /\ t.dma = FALSE /\ t.tx = None /\ t.slot = s.slot
        /\ t.dr = s.dr
    BY StopType
  <1>2. Consistent(t)
    BY StopConsistent
  <1>3. QED
    BY <1>1, <1>2 DEF Quiet, KeepsTask

\* The end of a response makes the slave idle.
LEMMA EndedEffect ==
  ASSUME NEW s \in Slave, Consistent(s), s.dma = FALSE
  PROVE  LET t == processEndOfTransmittingResponse(s) IN Quiet(s, t) /\ KeepsTask(s, t)
  <1> DEFINE new == s.response["values"].new /\ s.command # "values"
             r == [s.response EXCEPT !["values"].new = new]
             u == [s EXCEPT !.response = r, !.state = "IDLE", !.errors = FALSE]
  <1>1. u = processEndOfTransmittingResponse(s)
    BY DEF processEndOfTransmittingResponse, Slave
  <1>2. new \in BOOLEAN
    OBVIOUS
  <1> HIDE DEF new
  <1>3. r \in [Commands -> Bodies] /\ \A c \in Commands : r[c].of = s.response[c].of
    <2>1. s.response \in [Commands -> Bodies]
      BY DEF Slave
    <2>2. QED
      BY <1>2, <2>1 DEF Bodies
  <1> HIDE DEF r
  <1>4. /\ u \in Slave /\ u.state = "IDLE" /\ u.dma = FALSE /\ u.dr = s.dr /\ u.response = r
        /\ u.slot = s.slot /\ u.tx = s.tx
    BY <1>3 DEF Slave
  <1> HIDE DEF u
  <1>5. Named(u.response)
    BY <1>3, <1>4 DEF Consistent, Named
  <1>6. Consistent(u)
    BY <1>4, <1>5 DEF Consistent
  <1>7. Quiet(s, u) /\ KeepsTask(s, u)
    BY <1>4, <1>6 DEF Quiet, KeepsTask
  <1>8. QED
    BY <1>1, <1>7

\* That is what the interrupt does at the end of the channel, or else it stops the slave.
LEMMA EndEffect ==
  ASSUME NEW s \in Slave, Consistent(s),
         NEW off, off = [s EXCEPT !.tc = FALSE, !.dma = FALSE],
         NEW t, t = IF s.state = "RESPONSE" THEN processEndOfTransmittingResponse(off)
                    ELSE spiError(off)
  PROVE  Quiet(s, t) /\ KeepsTask(s, t)
  <1>1. /\ off \in Slave /\ off.state = s.state /\ off.dma = FALSE /\ off.dr = s.dr
        /\ off.response = s.response /\ off.fillers = s.fillers /\ off.slot = s.slot
        /\ off.tx = s.tx /\ off.from = s.from /\ off.left = s.left /\ off.rxneie = s.rxneie
        /\ off.rdr = s.rdr
    BY DEF Slave
  <1>2. Consistent(off)
    BY <1>1 DEF Consistent
  <1>3. Quiet(off, t) /\ KeepsTask(off, t)
    <2>1. CASE s.state # "RESPONSE"
      BY <1>1, <1>2, <2>1, ErrorEffect
    <2>2. CASE s.state = "RESPONSE"
      BY <1>1, <1>2, <2>2, EndedEffect
    <2>3. QED
      BY <2>1, <2>2
  <1>4. QED
    BY <1>1, <1>3 DEF Quiet, KeepsTask

\* What the task works on does not matter to the line.
SameLine(s, t) ==
  /\ t.state = s.state /\ t.dma = s.dma /\ t.dr = s.dr /\ t.from = s.from /\ t.left = s.left
  /\ t.response = s.response /\ t.fillers = s.fillers /\ t.rxneie = s.rxneie /\ t.rdr = s.rdr
  /\ t.tx = s.tx

LEMMA SameLineQuiet ==
  ASSUME NEW s \in Slave, Consistent(s), NEW t \in Slave, SameLine(s, t)
  PROVE  Quiet(s, t)
  <1>1. Consistent(t)
    BY DEF Consistent, SameLine
  <1>2. QED
    BY <1>1 DEF Quiet, SameLine

\* So is a slave that has just been started, by the watchdog or with the power.
Booted == {Boot, [Boot EXCEPT !.restarted = TRUE]}

LEMMA BootEffect ==
  ASSUME NEW b \in Booted
  PROVE  b \in Slave /\ Consistent(b) /\ b.state = "IDLE" /\ b.dr = Empty
  <1> DEFINE r == [c \in Commands |-> [NoBody EXCEPT !.of = c]]
             k == [c \in Commands |-> NoBody]
  <1>1. NoBody \in Bodies
    BY DEF NoBody, Bodies
  <1>2. r \in [Commands -> Bodies] /\ Named(r) /\ k \in [Commands -> Bodies]
    BY <1>1 DEF Named, NoBody, Bodies
  <1> DEFINE Idle(s) == s.state = "IDLE" /\ s.dr = Empty /\ s.dma = FALSE /\ s.response = r
  <1>3. Idle(b)
    <2>1. Idle(Boot)
      BY DEF Boot
    <2>2. Idle([Boot EXCEPT !.restarted = TRUE])
      BY <2>1 DEF Boot
    <2>3. QED
      BY <2>1, <2>2 DEF Booted
  <1>4. 0 \in 0 .. 3 /\ 0 \in 0 .. FILLERS + 1
    BY DEF FILLERS
  <1>5. b \in Slave
    <2> HIDE DEF r, k
    <2>1. Boot = [state |-> "IDLE", fillers |-> 0, tx |-> None, length |-> 0, command |-> None,
                  txeie |-> FALSE, rxneie |-> FALSE, dr |-> Empty, rdr |-> None,
                  dma |-> FALSE, from |-> None, left |-> 0, tc |-> FALSE,
                  unit |-> "reset", summed |-> NoBody, slot |-> FALSE,
                  response |-> r, crc |-> k, errors |-> FALSE, restarted |-> FALSE]
      BY DEF Boot, r, k
    <2>2. Boot \in Slave
      BY <1>1, <1>2, <1>4, <2>1 DEF Slave
    <2>3. [Boot EXCEPT !.restarted = TRUE] \in Slave
      BY <2>2 DEF Slave
    <2>4. QED
      BY <2>2, <2>3 DEF Booted
  <1> HIDE DEF r
  <1>6. Consistent(b)
    BY <1>2, <1>3 DEF Consistent
  <1>7. QED
    BY <1>3, <1>5, <1>6

(* The invariant.                                                           *)

\* The task: its slot is taken until it is done, so no other response is prepared until
\* then, and the pointer it has copied is the pointer, unless the slave has stopped.
TaskInv ==
  /\ task \in {"pointer", "length", "sum", "rest", "switch", "store", "clear"} => spi.slot
  /\ task \in {"length", "sum", "rest", "switch", "store"} => spi.tx \in {pTxData, None}
  /\ task \in {"sum", "rest"} => pTxData # None

\* The client: channels run in a transfer only; that to receive ends with the last
\* halfword; without an error a transfer is over when that channel has ended; and
\* the slave is selected until then.
ClientInv ==
  /\ lsc.rx => lsc.receiving
  /\ lsc.tx \/ lsc.txTc \/ lsc.txTe => lsc.transmitting
  /\ lsc.rxTc => lsc.rx /\ lsc.clocked = lsc.size
  /\ lsc.rxTe => lsc.receiving /\ ~lsc.rx
  /\ lsc.txTe => ~lsc.tx /\ ~lsc.txTc
  /\ lsc.receiving \/ lsc.transmitting => lsc.size >= FILLERS + 2
  /\ lsc.transmitting /\ ~lsc.receiving /\ ~lsc.restart => lsc.clocked = lsc.size
  /\ lsc.clocked <= lsc.size
  /\ lsc.clocked < lsc.size => selected

\* What goes out in a transfer as the first part of a response was begun in it.
BegunInv == Part(spi.dr, 1) /\ lsc.clocked > 0 => spi.dr[2] = answer

\* No response is about to be begun.
NoneBegins == spi.state = "FILLER" => spi.dr # Empty \/ spi.fillers = 1

\* The receive buffer is that of this transfer.
Receiving == lsc.rx \/ (lsc.transmitting /\ ~lsc.receiving /\ ~lsc.restart)

First == received[FILLERS + 1]
Second == received[FILLERS + 2]

\* What can come behind the first part of the response begun, and what cannot come
\* behind the first part of any.
Follows(h) == (Part(h, 2) /\ answer.of = "values") \/ (IsCrc(h) /\ answer.of = "detailed")
Wrong(h) == ~Part(h, 2) /\ ~IsCrc(h)

\* When the first halfword received is the first part of a response, then it is of the
\* one begun and goes on as that does, or what comes next is wrong.
FirstInv ==
  Receiving /\ Part(First, 1) =>
    /\ lsc.clocked = FILLERS + 1 => Wrong(spi.dr) \/ (First[2] = answer /\ Follows(spi.dr))
    /\ lsc.clocked > FILLERS + 1 =>
         Wrong(Second) \/ (First[2] = answer /\ Follows(Second) /\ NoneBegins)
    /\ lsc.clocked = FILLERS + 2 /\ ~Wrong(Second) =>
         /\ spi.state = "FILLER" => spi.dr # Empty /\ spi.fillers = 1
         /\ spi.state = "COMMAND" => spi.dr # Empty

\* A response passed on is the last begun, and none is begun before the next transfer.
Passed == got.kind \in {"values", "error", "details"}
GotInv ==
  Passed =>
    /\ lsc.clocked = lsc.size /\ ~lsc.receiving /\ ~lsc.transmitting /\ NoneBegins
    /\ got.body = answer
    /\ answer.of = IF got.kind = "details" THEN "detailed" ELSE "values"

LineInv == ClientInv /\ BegunInv /\ FirstInv /\ GotInv

IInv == TypeOK /\ TaskInv /\ Consistent(spi) /\ LineInv

-----------------------------------------------------------------------------
(* Its parts, under what the slave does.                                    *)

\* Faults are counted up to their bound.
LEMMA FaultsType ==
  ASSUME faults \in 0 .. Faults, Fault \/ UNCHANGED faults
  PROVE  faults' \in 0 .. Faults
  BY FaultsAssumption DEF Fault

\* Nothing the slave does quietly is noticed on the line.
LEMMA QuietKeeps ==
  ASSUME LineInv, Quiet(spi, spi'), UNCHANGED <<client, got, answer>>
  PROVE  LineInv'
  <1>1. UNCHANGED <<lsc, received, selected, got, answer>>
    BY DEF client
  <1>2. /\ spi'.dr \in {spi.dr, Junk, Empty}
        /\ spi'.state = "FILLER" => /\ spi.state = "FILLER" /\ spi'.fillers = spi.fillers
                                    /\ spi'.dr = spi.dr
        /\ spi'.state = "COMMAND" => \/ spi'.dr # Empty
                                     \/ spi.state = "COMMAND" /\ spi'.dr = spi.dr
    BY DEF Quiet
  <1>3. spi'.dr = spi.dr \/ (Wrong(spi'.dr) /\ ~Part(spi'.dr, 1))
    BY <1>2, HalfwordKinds DEF Wrong, Part, IsCrc
  <1>4. NoneBegins => NoneBegins'
    BY <1>2 DEF NoneBegins
  <1>5. ClientInv'
    BY <1>1 DEF LineInv, ClientInv
  <1>6. BegunInv'
    BY <1>1, <1>3 DEF LineInv, BegunInv
  <1>7. FirstInv'
    <2> SUFFICES ASSUME Receiving, Part(First, 1) PROVE FirstInv'
      BY <1>1 DEF FirstInv, Receiving, First
    <2>1. FirstInv
      BY DEF LineInv
    <2>2. First' = First /\ Second' = Second /\ Wrong(Second)' = Wrong(Second)
          /\ Follows(Second)' = Follows(Second)
      BY <1>1 DEF First, Second, Wrong, Follows
    <2>3. lsc.clocked = FILLERS + 1 =>
            Wrong(spi'.dr) \/ (First[2] = answer /\ Follows(spi'.dr))
      BY <1>3, <2>1 DEF FirstInv
    <2>4. lsc.clocked = FILLERS + 2 /\ ~Wrong(Second) =>
            /\ spi'.state = "FILLER" => spi'.dr # Empty /\ spi'.fillers = 1
            /\ spi'.state = "COMMAND" => spi'.dr # Empty
      BY <1>2, <2>1 DEF FirstInv
    <2>5. lsc.clocked > FILLERS + 1 =>
            Wrong(Second) \/ (First[2] = answer /\ Follows(Second) /\ NoneBegins')
      BY <1>4, <2>1 DEF FirstInv
    <2>6. Wrong(spi.dr)' = Wrong(spi'.dr) /\ Follows(spi.dr)' = Follows(spi'.dr)
      BY <1>1 DEF Wrong, Follows
    <2>7. QED
      BY <1>1, <2>2, <2>3, <2>4, <2>5, <2>6 DEF FirstInv
  <1>8. GotInv'
    BY <1>1, <1>4 DEF LineInv, GotInv, Passed
  <1>9. QED
    BY <1>5, <1>6, <1>7, <1>8 DEF LineInv

\* A handler leaves the task as it is.
LEMMA HandlerKeeps ==
  ASSUME TaskInv, KeepsTask(spi, spi'), UNCHANGED <<task, pTxData>>
  PROVE  TaskInv'
  BY DEF TaskInv, KeepsTask

\* A step of the slave that is quiet keeps the invariant if it keeps the task's part.
LEMMA QuietStep ==
  ASSUME IInv, Quiet(spi, spi'), UNCHANGED <<client, got, answer>>, TaskInv',
         SlaveType', faults' \in 0 .. Faults, cut' \in BOOLEAN
  PROVE  IInv'
  <1>1. LineInv'
    BY QuietKeeps DEF IInv
  <1>2. Consistent(spi)'
    BY DEF Quiet
  <1>3. TypeOK'
    BY DEF IInv, TypeOK, ClientType, client
  <1>4. QED
    BY <1>1, <1>2, <1>3 DEF IInv

\* The select line, the end of a response, an error of its channel.
LEMMA SlaveHandlers ==
  ASSUME IInv, Select \/ ResponseEnd \/ (Fault /\ ResponseError /\ UNCHANGED <<client, got, answer, cut>>)
  PROVE  IInv'
  <1>1. spi \in Slave /\ Consistent(spi) /\ TaskInv /\ SlaveType /\ faults \in 0 .. Faults
        /\ cut \in BOOLEAN
    BY DEF IInv, TypeOK, SlaveType
  <1>2. Quiet(spi, spi') /\ KeepsTask(spi, spi')
    <2>1. CASE Select
      BY <1>1, <2>1, SelectEffect DEF Select, EXTI0_IRQHandler
    <2>2. CASE ResponseEnd
      <3> DEFINE off == [spi EXCEPT !.tc = FALSE, !.dma = FALSE]
      <3>1. spi' = IF spi.state = "RESPONSE" THEN processEndOfTransmittingResponse(off)
                   ELSE spiError(off)
        BY <2>2 DEF ResponseEnd, DMA1_Channel5_IRQHandler
      <3>2. QED
        BY <1>1, <3>1, EndEffect
    <2>3. CASE Fault /\ ResponseError
      BY <1>1, <2>3, ErrorEffect DEF ResponseError
    <2>4. QED
      BY <2>1, <2>2, <2>3
  <1>3. UNCHANGED <<task, pTxData, client, got, answer, cut>> /\ edge' \in BOOLEAN
    BY <1>1 DEF Select, EXTI0_IRQHandler, ResponseEnd, DMA1_Channel5_IRQHandler, ResponseError, SlaveType
  <1>4. faults' \in 0 .. Faults
    BY <1>1, FaultsType DEF Select, ResponseEnd
  <1>5. SlaveType'
    BY <1>1, <1>2, <1>3 DEF SlaveType, Quiet
  <1>6. TaskInv'
    BY <1>1, <1>2, <1>3, HandlerKeeps
  <1>7. QED
    BY <1>1, <1>2, <1>3, <1>4, <1>5, <1>6, QuietStep

\* A restart.
LEMMA RestartStep ==
  ASSUME IInv, Restart \/ PowerLoss
  PROVE  IInv'
  <1>1. SlaveType /\ faults \in 0 .. Faults /\ cut \in BOOLEAN
    BY DEF IInv, TypeOK
  <1>2. /\ spi' \in Booted /\ edge' = FALSE /\ task' = "idle" /\ pTxData' = None
        /\ UNCHANGED <<client, got, answer, cut>>
    BY DEF Restart, PowerLoss, Watchdog, Reboot, Booted
  <1>3. Quiet(spi, spi') /\ spi' \in Slave
    BY <1>2, BootEffect DEF Quiet
  <1>4. faults' \in 0 .. Faults
    BY <1>1, FaultsType DEF Restart, PowerLoss
  <1>5. SlaveType'
    BY <1>2, <1>3 DEF SlaveType
  <1>6. TaskInv'
    BY <1>2 DEF TaskInv
  <1>7. QED
    BY <1>1, <1>2, <1>3, <1>4, <1>5, <1>6, QuietStep

\* The task: it sums and stores, and ends with the slot cleared.
LEMMA WorkStep ==
  ASSUME IInv, Work
  PROVE  IInv'
  <1>1. /\ spi \in Slave /\ Consistent(spi) /\ TaskInv /\ SlaveType /\ faults \in 0 .. Faults
        /\ cut \in BOOLEAN /\ pTxData \in Commands \cup {None} /\ edge \in BOOLEAN
    BY DEF IInv, TypeOK, SlaveType
  <1>2. UNCHANGED <<edge, client, got, answer, cut, faults>> /\ RunTasks
    BY DEF Work, RunTasks, LoadTask, LoadPointer, LoadLength, SumFirst, SumRest,
           SwitchOnCommand, StoreCrc, ClearTask, At
  <1>3. /\ spi' \in Slave /\ SameLine(spi, spi')
        /\ task' \in {"idle", "pointer", "length", "sum", "rest", "switch", "store", "clear",
                      "again", "fault"}
        /\ pTxData' \in Commands \cup {None}
        /\ TaskInv'
    <2>1. CASE LoadTask
      BY <1>1, <2>1 DEF LoadTask, At, TaskInv, SameLine
    <2>2. CASE LoadPointer
      <3>1. spi.tx \in Commands \cup {None}
        BY <1>1 DEF Slave
      <3>2. QED
        BY <1>1, <2>2, <3>1 DEF LoadPointer, At, TaskInv, SameLine
    <2>3. CASE LoadLength
      BY <1>1, <2>3 DEF LoadLength, At, TaskInv, SameLine
    <2>4. CASE SumFirst
      <3> DEFINE unit == IF spi.unit = "reset" THEN "half" ELSE "other"
                 summed == spi.response[pTxData]
                 t == [spi EXCEPT !.unit = unit, !.summed = summed]
      <3>1. spi' = t
        BY <2>4 DEF SumFirst
      <3>2. task = "sum" /\ task' = "rest" /\ pTxData' = pTxData /\ pTxData \in Commands
        BY <1>1, <2>4 DEF SumFirst, At, TaskInv
      <3>3. unit \in {"reset", "half", "whole", "other"} /\ summed \in Bodies
        BY <1>1, <3>2 DEF Slave
      <3> HIDE DEF unit, summed
      <3>4. t \in Slave /\ SameLine(spi, t) /\ t.slot = spi.slot
        BY <1>1, <3>3 DEF Slave, SameLine
      <3> HIDE DEF t
      <3>5. QED
        BY <1>1, <3>1, <3>2, <3>4 DEF TaskInv, SameLine
    <2>5. CASE SumRest
      <3> DEFINE unit == IF spi.unit = "half" /\ spi.summed = spi.response[pTxData]
                         THEN "whole" ELSE "other"
                 t == [spi EXCEPT !.unit = unit]
      <3>1. spi' = t
        BY <2>5 DEF SumRest
      <3>2. task = "rest" /\ task' = "switch" /\ pTxData' = pTxData
        BY <2>5 DEF SumRest, At
      <3>3. unit \in {"reset", "half", "whole", "other"}
        OBVIOUS
      <3> HIDE DEF unit
      <3>4. t \in Slave /\ SameLine(spi, t) /\ t.slot = spi.slot
        BY <1>1, <3>3 DEF Slave, SameLine
      <3> HIDE DEF t
      <3>5. QED
        BY <1>1, <3>1, <3>2, <3>4 DEF TaskInv, SameLine
    <2>6. CASE SwitchOnCommand
      BY <1>1, <2>6 DEF SwitchOnCommand, At, TaskInv, SameLine
    <2>7. CASE StoreCrc
      <3>0. /\ task = "store" /\ task' \in {"clear", "fault"} /\ pTxData' = pTxData
            /\ spi' = spi \/ (spi.tx # None /\ spi' = [spi EXCEPT !.crc[spi.tx] = Sum])
        BY <2>7 DEF StoreCrc, At
      <3>1. CASE spi' = spi
        BY <1>1, <3>0, <3>1 DEF TaskInv, SameLine
      <3>2. CASE spi.tx # None /\ spi' = [spi EXCEPT !.crc[spi.tx] = Sum]
        <4> DEFINE crc == [spi.crc EXCEPT ![spi.tx] = Sum]
                   t == [spi EXCEPT !.crc = crc]
        <4>1. spi' = t
          BY <1>1, <3>2 DEF Slave
        <4>2. Sum \in Bodies
          BY <1>1 DEF Sum, Slave, NoBody, Bodies
        <4>3. spi.crc \in [Commands -> Bodies]
          BY <1>1 DEF Slave
        <4>4. crc \in [Commands -> Bodies]
          BY <4>2, <4>3
        <4> HIDE DEF crc
        <4>5. t \in Slave /\ SameLine(spi, t) /\ t.slot = spi.slot
          BY <1>1, <4>4 DEF Slave, SameLine
        <4> HIDE DEF t
        <4>6. QED
          BY <1>1, <3>0, <4>1, <4>5 DEF TaskInv, SameLine
      <3>3. QED
        BY <3>0, <3>1, <3>2
    <2>8. CASE ClearTask
      <3> DEFINE t == [spi EXCEPT !.slot = FALSE]
      <3>1. spi' = t /\ task' \in {"again", "idle"} /\ pTxData' = None
        BY <2>8 DEF ClearTask, At
      <3>2. t \in Slave /\ SameLine(spi, t)
        BY <1>1 DEF Slave, SameLine
      <3> HIDE DEF t
      <3>3. QED
        BY <3>1, <3>2 DEF TaskInv
    <2>9. QED
      BY <1>2, <2>1, <2>2, <2>3, <2>4, <2>5, <2>6, <2>7, <2>8 DEF RunTasks
  <1>4. Quiet(spi, spi')
    BY <1>1, <1>3, SameLineQuiet
  <1>5. SlaveType'
    BY <1>1, <1>2, <1>3 DEF SlaveType
  <1>6. faults' \in 0 .. Faults /\ cut' \in BOOLEAN /\ UNCHANGED <<client, got, answer>>
    BY <1>1, <1>2
  <1>7. QED
    BY <1>3, <1>4, <1>5, <1>6, QuietStep

\* The SPI interrupt: a response is begun only if none has been passed on, and none is
\* being received that could be.
LEMMA CommandStep ==
  ASSUME IInv, NEW newer \in BOOLEAN, Command(newer)
  PROVE  IInv'
  <1>1. /\ spi \in Slave /\ Consistent(spi) /\ TaskInv /\ SlaveType /\ TypeOK /\ LineInv
    BY DEF IInv, TypeOK, SlaveType
  <1>2. /\ spi' = OnEmpty(OnReceived(spi, newer))
        /\ UNCHANGED <<edge, task, pTxData, client, faults, got, cut>>
        /\ answer' = IF spi'.dma /\ ~spi.dma THEN spi.response[spi.from] ELSE answer
    BY DEF Command, SPI2_IRQHandler
  <1>3. UNCHANGED <<lsc, received, selected, radio>>
    BY <1>2 DEF client
  <1>4. Replied(spi, spi')
    BY <1>1, <1>2, CommandEffect
  <1>5. TypeOK'
    <2>1. SlaveType'
      BY <1>1, <1>2, <1>4 DEF SlaveType, Replied
    <2>2. answer' \in Bodies
      <3>1. CASE spi'.dma /\ ~spi.dma
        <4>1. spi.from \in Commands /\ spi.response \in [Commands -> Bodies]
          BY <1>1, <1>4, <3>1 DEF Replied, Begins, Consistent, Slave
        <4>2. QED
          BY <1>2, <3>1, <4>1
      <3>2. CASE ~(spi'.dma /\ ~spi.dma)
        BY <1>1, <1>2, <3>2 DEF TypeOK
      <3>3. QED
        BY <3>1, <3>2
    <2>3. QED
      BY <1>1, <1>2, <1>3, <2>1, <2>2 DEF TypeOK, ClientType
  <1>6. TaskInv'
    BY <1>1, <1>2, <1>4 DEF TaskInv, Replied
  <1>7. \/ answer' = spi'.dr[2] /\ Begins(spi, spi') /\ Part(spi'.dr, 1)
        \/ answer' = answer /\ spi'.dr \in {spi.dr, Junk}
    <2>1. CASE Begins(spi, spi')
      BY <1>2, <2>1 DEF Begins, Part
    <2>2. CASE spi'.dr \in {spi.dr, Junk} /\ (spi'.dma => spi.dma)
      BY <1>2, <2>2
    <2>3. QED
      BY <1>4, <2>1, <2>2 DEF Replied
  <1>8. NoneBegins' /\ (NoneBegins => answer' = answer)
    <2>1. NoneBegins'
      BY <1>4 DEF Replied, NoneBegins
    <2>2. ~(NoneBegins /\ Begins(spi, spi'))
      BY DEF NoneBegins, Begins, FILLERS
    <2>3. QED
      BY <1>7, <2>1, <2>2
  <1>9. Wrong(spi'.dr) \/ (spi'.dr = spi.dr /\ answer' = answer)
    BY <1>7, HalfwordKinds DEF Wrong, Part, IsCrc
  <1>10. ClientInv'
    BY <1>1, <1>3 DEF LineInv, ClientInv
  <1>11. BegunInv'
    <2>1. ~Part(Junk, 1)
      BY HalfwordKinds DEF Part
    <2>2. QED
      BY <1>1, <1>3, <1>7, <2>1 DEF LineInv, BegunInv
  <1>12. FirstInv'
    <2> SUFFICES ASSUME Receiving, Part(First, 1) PROVE FirstInv'
      BY <1>3 DEF FirstInv, Receiving, First
    <2>1. FirstInv
      BY <1>1 DEF LineInv
    <2>2. First' = First /\ Second' = Second /\ Wrong(Second)' = Wrong(Second)
      BY <1>3 DEF First, Second, Wrong
    <2>3. answer' = answer => /\ Follows(Second)' = Follows(Second)
                              /\ spi'.dr = spi.dr => Follows(spi.dr)' = Follows(spi.dr)
      BY <2>2 DEF Follows
    <2>4. Wrong(spi.dr)' = Wrong(spi'.dr) /\ (spi'.dr = spi.dr => Wrong(spi'.dr) = Wrong(spi.dr))
      BY DEF Wrong
    <2>5. lsc.clocked = FILLERS + 1 =>
            Wrong(spi.dr)' \/ (First'[2] = answer' /\ Follows(spi.dr)')
      BY <1>9, <2>1, <2>2, <2>3, <2>4 DEF FirstInv
    <2>6. lsc.clocked > FILLERS + 1 =>
            Wrong(Second)' \/ (First'[2] = answer' /\ Follows(Second)' /\ NoneBegins')
      BY <1>8, <2>1, <2>2, <2>3 DEF FirstInv
    <2>7. lsc.clocked = FILLERS + 2 /\ ~Wrong(Second) =>
            /\ spi'.state = "FILLER" => spi'.dr # Empty /\ spi'.fillers = 1
            /\ spi'.state = "COMMAND" => spi'.dr # Empty
      <3> SUFFICES ASSUME lsc.clocked = FILLERS + 2, ~Wrong(Second), spi'.state = "FILLER"
                   PROVE  spi'.fillers = 1
        BY <1>4 DEF Replied
      <3>1. spi.state = "FILLER" => spi.dr # Empty /\ spi.fillers = 1
        BY <2>1 DEF FirstInv
      <3>2. spi.state = "COMMAND" => spi.dr # Empty /\ spi.fillers = 1
        BY <1>1, <2>1 DEF FirstInv, Consistent
      <3>3. spi.dr # Empty => spi.state \in {"COMMAND", "FILLER"} /\ spi'.fillers = spi.fillers
        BY <1>4 DEF Replied
      <3>4. spi.state \in {"COMMAND", "FILLER"}
        BY <1>4 DEF Replied
      <3>5. QED
        BY <3>1, <3>2, <3>3, <3>4
    <2>8. QED
      BY <1>3, <2>2, <2>5, <2>6, <2>7 DEF FirstInv
  <1>13. GotInv'
    BY <1>1, <1>2, <1>3, <1>8 DEF LineInv, GotInv, Passed
  <1>14. QED
    BY <1>4, <1>5, <1>6, <1>10, <1>11, <1>12, <1>13 DEF IInv, LineInv, Replied

(* What the client does.                                                    *)

\* A transfer is the same.
SameTransfer(l, m) ==
  /\ m.receiving = l.receiving /\ m.transmitting = l.transmitting /\ m.restart = l.restart
  /\ m.rx = l.rx /\ m.tx = l.tx /\ m.size = l.size /\ m.clocked = l.clocked
  /\ m.rxTc = l.rxTc /\ m.rxTe = l.rxTe /\ m.txTc = l.txTc /\ m.txTe = l.txTe

\* A step of the client alone keeps the invariant if it keeps the line's part.
LEMMA ClientStep ==
  ASSUME IInv, UNCHANGED slave, LineInv', ClientType', faults' \in 0 .. Faults,
         cut' \in BOOLEAN, got' \in [kind : Reports, body : Bodies], answer' \in Bodies
  PROVE  IInv'
  <1>1. UNCHANGED <<spi, edge, task, pTxData>>
    BY DEF slave
  <1>2. TypeOK'
    BY <1>1 DEF IInv, TypeOK, SlaveType
  <1>3. TaskInv'
    BY <1>1 DEF IInv, TaskInv
  <1>4. Consistent(spi)'
    BY <1>1 DEF IInv
  <1>5. QED
    BY <1>2, <1>3, <1>4 DEF IInv

\* The radio's task starts and stops the timer, not a transfer.
LEMMA StartOrStopStep ==
  ASSUME IInv, StartOrStop
  PROVE  IInv'
  <1>1. /\ lsc \in Client /\ ClientType /\ LineInv /\ faults \in 0 .. Faults /\ cut \in BOOLEAN
        /\ got \in [kind : Reports, body : Bodies] /\ answer \in Bodies
    BY DEF IInv, TypeOK, ClientType
  <1>2. UNCHANGED <<slave, got, answer, cut, received, selected>> /\ faults' \in 0 .. Faults
    BY <1>1, FaultsType DEF StartOrStop, FaultIf, startQueryingLineSensor,
       stopQueryingLineSensor, RadioStep
  <1>3. /\ lsc' \in Client /\ SameTransfer(lsc, lsc')
        /\ radio' \in {None, "start", "count", "stop", "halt"}
    <2>1. /\ radio' \in {None, "start", "count", "stop", "halt"}
          /\ \/ lsc' = [lsc EXCEPT !.active = TRUE] \/ lsc' = [lsc EXCEPT !.active = FALSE]
             \/ lsc' = [lsc EXCEPT !.command = "values"] \/ lsc' = [lsc EXCEPT !.command = None]
             \/ lsc' = [lsc EXCEPT !.timer = TRUE] \/ lsc' = [lsc EXCEPT !.timer = FALSE]
      BY DEF StartOrStop, startQueryingLineSensor, stopQueryingLineSensor, RadioStep
    <2>2. \A v \in BOOLEAN : LET l == [lsc EXCEPT !.active = v] IN
            l \in Client /\ SameTransfer(lsc, l)
      BY <1>1 DEF Client, SameTransfer
    <2>3. \A v \in BOOLEAN : LET l == [lsc EXCEPT !.timer = v] IN
            l \in Client /\ SameTransfer(lsc, l)
      BY <1>1 DEF Client, SameTransfer
    <2>4. \A c \in Commands \cup {None} : LET l == [lsc EXCEPT !.command = c] IN
            l \in Client /\ SameTransfer(lsc, l)
      BY <1>1 DEF Client, SameTransfer
    <2>5. "values" \in Commands
      BY DEF Commands
    <2>6. QED
      BY <2>1, <2>2, <2>3, <2>4, <2>5
  <1>4. UNCHANGED <<spi, edge, task, pTxData>>
    BY <1>2 DEF slave
  <1>5. LineInv'
    <2>1. ClientInv'
      BY <1>1, <1>2, <1>3 DEF LineInv, ClientInv, SameTransfer
    <2>2. BegunInv'
      BY <1>1, <1>2, <1>3, <1>4 DEF LineInv, BegunInv, SameTransfer
    <2>3. Receiving' = Receiving
      BY <1>3 DEF Receiving, SameTransfer
    <2>4. FirstInv'
      BY <1>1, <1>2, <1>3, <1>4, <2>3
         DEF LineInv, FirstInv, SameTransfer, First, Second, Wrong, Follows, NoneBegins
    <2>5. GotInv'
      BY <1>1, <1>2, <1>3, <1>4 DEF LineInv, GotInv, Passed, NoneBegins, SameTransfer
    <2>6. QED
      BY <2>1, <2>2, <2>4, <2>5 DEF LineInv
  <1>6. ClientType'
    BY <1>1, <1>2, <1>3 DEF ClientType
  <1>7. QED
    BY <1>1, <1>2, <1>5, <1>6, ClientStep

\* The timer begins a transfer: nothing has been begun or passed on in it.
LEMMA TimerStep ==
  ASSUME IInv, Timer
  PROVE  IInv'
  <1>1. /\ lsc \in Client /\ TypeOK /\ SlaveType /\ ClientType /\ LineInv /\ TaskInv
        /\ Consistent(spi)
    BY DEF IInv, TypeOK, ClientType
  <1>2. /\ ~lsc.receiving /\ ~lsc.transmitting /\ lsc.command \in Commands
        /\ selected' = TRUE /\ UNCHANGED <<received, radio, spi, task, pTxData, cut>>
        /\ got' = Nothing /\ answer' = NoBody
        /\ edge' \in BOOLEAN
    BY <1>1 DEF Timer, sendLineSensorCommand, Edge, Client, SlaveType
  <1>3. faults' \in 0 .. Faults
    BY <1>1, FaultsType DEF Timer, FaultIf, TypeOK
  <1>4. Transfer(lsc.command) \in {4, 5} /\ Longest = 5
    BY <1>2, BodyLength DEF Transfer, Longest, FILLERS, Body
  <1>5. /\ lsc' \in Client /\ lsc'.receiving /\ lsc'.transmitting /\ lsc'.clocked = 0
        /\ lsc'.size >= FILLERS + 2 /\ lsc'.rxTc = lsc.rxTc /\ lsc'.rxTe = lsc.rxTe
        /\ lsc'.txTe = lsc.txTe
    <2> DEFINE size == Transfer(lsc.command)
               l == [lsc EXCEPT !.receiving = TRUE, !.transmitting = TRUE, !.rx = TRUE,
                                !.tx = TRUE, !.asked = lsc.command, !.size = size,
                                !.clocked = 0]
    <2>1. lsc' = l
      BY DEF Timer, sendLineSensorCommand
    <2>2. size \in 0 .. Longest /\ size >= FILLERS + 2 /\ 0 \in 0 .. Longest
      BY <1>4 DEF FILLERS
    <2> HIDE DEF size
    <2>3. /\ l \in Client /\ l.receiving /\ l.transmitting /\ l.clocked = 0 /\ l.size = size
          /\ l.rxTc = lsc.rxTc /\ l.rxTe = lsc.rxTe /\ l.txTe = lsc.txTe
      BY <1>1, <1>2, <2>2 DEF Client
    <2> HIDE DEF l
    <2>4. QED
      BY <2>1, <2>2, <2>3
  <1>6. LineInv'
    <2>1. ~lsc.rxTc /\ ~lsc.rxTe /\ ~lsc.txTe
      BY <1>1, <1>2 DEF LineInv, ClientInv
    <2>2. ClientInv'
      BY <1>2, <1>5, <2>1 DEF ClientInv, FILLERS, Client
    <2>3. BegunInv' /\ GotInv'
      BY <1>2, <1>5 DEF BegunInv, GotInv, Passed, Nothing, None
    <2>4. FirstInv'
      BY <1>5 DEF FirstInv, FILLERS
    <2>5. QED
      BY <2>2, <2>3, <2>4 DEF LineInv
  <1>7. NoBody \in Bodies
    BY DEF NoBody, Bodies
  <1>8. TypeOK'
    BY <1>1, <1>2, <1>3, <1>5, <1>7 DEF TypeOK, SlaveType, ClientType, Nothing, Reports
  <1>9. TaskInv'
    BY <1>1, <1>2 DEF TaskInv
  <1>10. Consistent(spi)'
    BY <1>1, <1>2
  <1>11. QED
    BY <1>6, <1>8, <1>9, <1>10 DEF IInv

\* After an error of a channel the transfer will not be taken for one received; errors of
\* the slave's channel stop it.
LEMMA ChannelErrorStep ==
  ASSUME IInv, ChannelError
  PROVE  IInv'
  <1>1. /\ lsc \in Client /\ ClientType /\ LineInv /\ faults \in 0 .. Faults /\ cut \in BOOLEAN
        /\ got \in [kind : Reports, body : Bodies] /\ answer \in Bodies
    BY DEF IInv, TypeOK, ClientType
  <1>2. CASE ResponseError /\ UNCHANGED <<client, cut>>
    BY <1>2, SlaveHandlers DEF ChannelError
  <1>3. CASE \/ ReceiveError /\ UNCHANGED <<slave, cut>>
             \/ TransmitError /\ cut' = TRUE /\ UNCHANGED slave
    <2>1. faults' \in 0 .. Faults /\ cut' \in BOOLEAN /\ UNCHANGED <<got, answer, slave>>
      BY <1>1, <1>3, FaultsType DEF ChannelError
    <2>2. UNCHANGED <<spi, received, selected, radio>>
      BY <1>3 DEF slave, ReceiveError, TransmitError
    <2>3. /\ lsc' \in Client
          /\ lsc'.receiving = lsc.receiving /\ lsc'.transmitting = lsc.transmitting
          /\ lsc'.restart = lsc.restart /\ lsc'.size = lsc.size /\ lsc'.clocked = lsc.clocked
          /\ lsc'.rxTc = lsc.rxTc /\ lsc'.txTc = lsc.txTc
          /\ \/ lsc.rx /\ ~lsc.rxTc /\ ~lsc'.rx /\ lsc'.tx = lsc.tx /\ lsc'.txTe = lsc.txTe
             \/ lsc.tx /\ ~lsc.txTc /\ lsc'.rx = lsc.rx /\ ~lsc'.tx /\ lsc'.rxTe = lsc.rxTe
      <3>1. CASE ReceiveError
        BY <1>1, <3>1 DEF ReceiveError, Client
      <3>2. CASE TransmitError
        BY <1>1, <3>2 DEF TransmitError, Client
      <3>3. QED
        BY <1>3, <3>1, <3>2
    <2>4. ClientInv'
      BY <1>1, <2>2, <2>3 DEF LineInv, ClientInv
    <2>5. Receiving' => Receiving
      BY <1>1, <2>3 DEF LineInv, ClientInv, Receiving
    <2>6. BegunInv'
      BY <1>1, <2>1, <2>2, <2>3 DEF LineInv, BegunInv
    <2>7. FirstInv'
      BY <1>1, <2>1, <2>2, <2>3, <2>5
         DEF LineInv, FirstInv, First, Second, Wrong, Follows, NoneBegins
    <2>8. GotInv'
      BY <1>1, <2>1, <2>2, <2>3 DEF LineInv, GotInv, Passed, NoneBegins
    <2>9. ClientType'
      BY <1>1, <2>2, <2>3 DEF ClientType
    <2>10. got' \in [kind : Reports, body : Bodies] /\ answer' \in Bodies /\ LineInv'
      BY <1>1, <2>1, <2>4, <2>6, <2>7, <2>8 DEF LineInv
    <2>11. QED
      BY <2>1, <2>9, <2>10, ClientStep
  <1>4. QED
    BY <1>2, <1>3 DEF ChannelError

\* What is received is a response to the command, and then one is begun with its first
\* part and goes on with its second.
LEMMA AcceptedResponse ==
  ASSUME NEW c \in Commands, CrcIsRight(c)
  PROVE  Part(First, 1) /\ ~Wrong(Second) /\ (Follows(Second) => answer.of = c)
  <1>1. PICK b \in Bodies : /\ \A i \in 1 .. Body(c) : received[FILLERS + i] = <<"part", b, i>>
                            /\ received[Transfer(c)] = <<"crc", b, 0>>
    BY DEF CrcIsRight
  <1>2. First = <<"part", b, 1>>
    <2>1. 1 \in 1 .. Body(c)
      BY BodyLength
    <2>2. QED
      BY <1>1, <2>1 DEF First
  <1>3. CASE c = "values"
    <2>1. 2 \in 1 .. Body(c)
      BY <1>3, BodyLength
    <2>2. Second = <<"part", b, 2>>
      BY <1>1, <2>1 DEF Second
    <2>3. QED
      BY <1>2, <1>3, <2>2 DEF Part, Wrong, IsCrc, Follows
  <1>4. CASE c = "detailed"
    <2>1. Transfer(c) = FILLERS + 2
      BY <1>4 DEF Transfer, Body, FILLERS
    <2>2. Second = <<"crc", b, 0>>
      BY <1>1, <2>1 DEF Second
    <2>3. QED
      BY <1>2, <1>4, <2>2 DEF Part, Wrong, IsCrc, Follows
  <1>5. QED
    BY <1>3, <1>4 DEF Commands

\* The end of one channel: the transfer it leaves is l.
Ended(l) ==
  /\ l \in Client /\ l.size = lsc.size /\ l.clocked = lsc.clocked /\ l.command = lsc.command
  /\ \/ /\ lsc.rxTe \/ lsc.rxTc
        /\ ~l.rx /\ ~l.receiving /\ ~l.rxTe /\ ~l.rxTc
        /\ l.transmitting = lsc.transmitting /\ l.tx = lsc.tx
        /\ l.txTc = lsc.txTc /\ l.txTe = lsc.txTe
        /\ ~l.restart => ~lsc.restart /\ ~lsc.rxTe
     \/ /\ lsc.txTe \/ lsc.txTc
        /\ ~l.tx /\ ~l.transmitting /\ ~l.txTe /\ ~l.txTc
        /\ l.receiving = lsc.receiving /\ l.rx = lsc.rx
        /\ l.rxTc = lsc.rxTc /\ l.rxTe = lsc.rxTe
        /\ ~l.restart => ~lsc.restart /\ ~lsc.txTe

LEMMA EndedType ==
  ASSUME lsc \in Client, ClientInv, NEW report \in Reports,
         DMA1_Channel1_IRQHandler(report) \/ DMA1_Channel2_IRQHandler(report)
  PROVE  /\ \E l : Ended(l) /\ checkIfSpiCommunicationWasFinished(l, report)
         /\ UNCHANGED <<received, radio>>
  <1>1. CASE DMA1_Channel1_IRQHandler(report)
    <2> DEFINE tc == lsc.rxTc /\ lsc.rxTe
               restart == lsc.restart \/ lsc.rxTe
               l == [lsc EXCEPT !.rx = FALSE, !.receiving = FALSE, !.restart = restart,
                                !.rxTe = FALSE, !.rxTc = tc]
    <2>1. /\ lsc.rxTe \/ lsc.rxTc
          /\ checkIfSpiCommunicationWasFinished(l, report) /\ UNCHANGED <<received, radio>>
      <3>1. l = [lsc EXCEPT !.rx = FALSE, !.receiving = FALSE, !.restart = @ \/ lsc.rxTe,
                            !.rxTe = FALSE, !.rxTc = @ /\ lsc.rxTe]
        BY DEF Client
      <3> HIDE DEF l
      <3>2. QED
        BY <1>1, <3>1 DEF DMA1_Channel1_IRQHandler
    <2>2. restart \in BOOLEAN /\ tc \in BOOLEAN /\ (~restart => ~lsc.restart /\ ~lsc.rxTe) /\ ~tc
      BY DEF ClientInv
    <2> HIDE DEF restart, tc
    <2>3. /\ l \in Client /\ l.size = lsc.size /\ l.clocked = lsc.clocked /\ l.command = lsc.command
          /\ ~l.rx /\ ~l.receiving /\ ~l.rxTe /\ l.rxTc = tc /\ l.restart = restart
          /\ l.transmitting = lsc.transmitting /\ l.tx = lsc.tx
          /\ l.txTc = lsc.txTc /\ l.txTe = lsc.txTe
      BY <2>2 DEF Client
    <2> HIDE DEF l
    <2>4. Ended(l)
      BY <2>1, <2>2, <2>3 DEF Ended
    <2>5. QED
      BY <2>1, <2>4
  <1>2. CASE DMA1_Channel2_IRQHandler(report)
    <2> DEFINE tc == lsc.txTc /\ lsc.txTe
               restart == lsc.restart \/ lsc.txTe
               l == [lsc EXCEPT !.tx = FALSE, !.transmitting = FALSE, !.restart = restart,
                                !.txTe = FALSE, !.txTc = tc]
    <2>1. /\ lsc.txTe \/ lsc.txTc
          /\ checkIfSpiCommunicationWasFinished(l, report) /\ UNCHANGED <<received, radio>>
      <3>1. l = [lsc EXCEPT !.tx = FALSE, !.transmitting = FALSE, !.restart = @ \/ lsc.txTe,
                            !.txTe = FALSE, !.txTc = @ /\ lsc.txTe]
        BY DEF Client
      <3> HIDE DEF l
      <3>2. QED
        BY <1>2, <3>1 DEF DMA1_Channel2_IRQHandler
    <2>2. restart \in BOOLEAN /\ tc \in BOOLEAN /\ (~restart => ~lsc.restart /\ ~lsc.txTe) /\ ~tc
      BY DEF ClientInv
    <2> HIDE DEF restart, tc
    <2>3. /\ l \in Client /\ l.size = lsc.size /\ l.clocked = lsc.clocked /\ l.command = lsc.command
          /\ ~l.tx /\ ~l.transmitting /\ ~l.txTe /\ l.txTc = tc /\ l.restart = restart
          /\ l.receiving = lsc.receiving /\ l.rx = lsc.rx
          /\ l.rxTc = lsc.rxTc /\ l.rxTe = lsc.rxTe
      BY <2>2 DEF Client
    <2> HIDE DEF l
    <2>4. Ended(l)
      BY <2>1, <2>2, <2>3 DEF Ended
    <2>5. QED
      BY <2>1, <2>4
  <1>3. QED
    BY <1>1, <1>2

\* What can be left of the transfer, and what is passed on: something only when both
\* channels have ended, neither in an error.
Left(l, report) ==
  /\ lsc' \in Client /\ lsc'.size = l.size /\ lsc'.clocked = l.clocked
  /\ lsc'.receiving = l.receiving /\ lsc'.transmitting = l.transmitting
  /\ lsc'.rxTc = l.rxTc /\ lsc'.rxTe = l.rxTe /\ lsc'.txTc = l.txTc /\ lsc'.txTe = l.txTe
  /\ \/ /\ l.receiving \/ l.transmitting
        /\ lsc'.rx = l.rx /\ lsc'.tx = l.tx /\ lsc'.restart = l.restart
        /\ UNCHANGED selected /\ report = None
     \/ /\ ~l.receiving /\ ~l.transmitting /\ l.restart
        /\ ~lsc'.rx /\ ~lsc'.tx
        /\ UNCHANGED selected /\ report = None
     \/ /\ ~l.receiving /\ ~l.transmitting /\ ~l.restart
        /\ lsc'.rx = l.rx /\ lsc'.tx = l.tx
        /\ selected' = FALSE /\ report = Result(l)

LEMMA LeftType ==
  ASSUME NEW l, l \in Client, NEW report \in Reports,
         checkIfSpiCommunicationWasFinished(l, report)
  PROVE  Left(l, report)
  <1>1. CASE l.receiving \/ l.transmitting
    <2>1. lsc' = l /\ UNCHANGED selected /\ report = None
      BY <1>1 DEF checkIfSpiCommunicationWasFinished
    <2>2. QED
      BY <1>1, <2>1 DEF Left
  <1>2. CASE ~l.receiving /\ ~l.transmitting /\ l.restart
    <2> DEFINE m == [l EXCEPT !.rx = FALSE, !.tx = FALSE, !.restart = FALSE,
                              !.command = "values"]
    <2>1. lsc' = m /\ UNCHANGED selected /\ report = None
      BY <1>2 DEF checkIfSpiCommunicationWasFinished
    <2>2. /\ m \in Client /\ m.size = l.size /\ m.clocked = l.clocked
          /\ m.receiving = l.receiving /\ m.transmitting = l.transmitting
          /\ m.rxTc = l.rxTc /\ m.rxTe = l.rxTe /\ m.txTc = l.txTc /\ m.txTe = l.txTe
          /\ ~m.rx /\ ~m.tx
      BY DEF Client, Commands
    <2> HIDE DEF m
    <2>3. QED
      BY <1>2, <2>1, <2>2 DEF Left
  <1>3. CASE ~l.receiving /\ ~l.transmitting /\ ~l.restart
    <2> DEFINE next == NextCommand(l)
               m == [l EXCEPT !.command = next]
    <2>1. lsc' = m /\ selected' = FALSE /\ report = Result(l)
      BY <1>3 DEF checkIfSpiCommunicationWasFinished
    <2>2. next \in Commands \cup {None}
      BY DEF NextCommand, Commands, Client
    <2> HIDE DEF next
    <2>3. /\ m \in Client /\ m.size = l.size /\ m.clocked = l.clocked
          /\ m.receiving = l.receiving /\ m.transmitting = l.transmitting
          /\ m.rxTc = l.rxTc /\ m.rxTe = l.rxTe /\ m.txTc = l.txTc /\ m.txTe = l.txTe
          /\ m.rx = l.rx /\ m.tx = l.tx
      BY <2>2 DEF Client
    <2> HIDE DEF m
    <2>4. QED
      BY <1>3, <2>1, <2>3 DEF Left
  <1>4. QED
    BY <1>1, <1>2, <1>3

\* The end of a channel: what is passed on is the response begun in this transfer.
LEMMA TransferEndStep ==
  ASSUME IInv, TransferEnd
  PROVE  IInv'
  <1>1. /\ lsc \in Client /\ TypeOK /\ SlaveType /\ ClientType /\ LineInv /\ TaskInv
        /\ ClientInv /\ FirstInv
    BY DEF IInv, TypeOK, ClientType, LineInv
  <1>2. PICK report \in Reports :
          /\ DMA1_Channel1_IRQHandler(report) \/ DMA1_Channel2_IRQHandler(report)
          /\ got' = IF report \in {None, "crc"} THEN [got EXCEPT !.kind = report]
                    ELSE [kind |-> report, body |-> received[FILLERS + 1][2]]
    BY DEF TransferEnd
  <1>3. /\ UNCHANGED <<spi, task, pTxData, answer, cut, received, radio>>
        /\ edge' \in BOOLEAN /\ faults' \in 0 .. Faults
    BY <1>1, <1>2, EndedType, FaultsType DEF TransferEnd, Edge, FaultIf, SlaveType, TypeOK
  <1>4. PICK l : Ended(l) /\ checkIfSpiCommunicationWasFinished(l, report)
    BY <1>1, <1>2, EndedType
  <1>5. Left(l, report)
    BY <1>4, LeftType DEF Ended
  <1>6. lsc.clocked \in Nat /\ lsc.size \in Nat
    BY <1>1 DEF Client, Longest, Transfer, Body, FILLERS
  <1>7. ~l.receiving /\ ~l.transmitting /\ ~l.restart =>
          lsc.clocked = lsc.size /\ lsc.size >= FILLERS + 2 /\ Receiving
    BY <1>1, <1>4 DEF Ended, ClientInv, Receiving
  <1>8. ClientInv'
    <2>0. lsc'.clocked = lsc.clocked /\ lsc'.size = lsc.size
      BY <1>4, <1>5 DEF Ended, Left
    <2>1. lsc'.clocked < lsc'.size => selected'
      <3>1. UNCHANGED selected \/ (~l.receiving /\ ~l.transmitting /\ ~l.restart)
        BY <1>5 DEF Left
      <3>2. lsc.clocked = lsc.size => ~(lsc.clocked < lsc.size)
        BY <1>6
      <3>3. QED
        BY <1>1, <1>7, <2>0, <3>1, <3>2 DEF ClientInv
    <2>2. (lsc'.rx => lsc'.receiving) /\ (lsc'.tx \/ lsc'.txTc \/ lsc'.txTe => lsc'.transmitting)
      BY <1>1, <1>4, <1>5 DEF Ended, Left, ClientInv
    <2>3. lsc'.rxTc => lsc'.rx /\ lsc'.clocked = lsc'.size
      BY <1>1, <1>4, <1>5 DEF Ended, Left, ClientInv
    <2>4. (lsc'.rxTe => lsc'.receiving /\ ~lsc'.rx) /\ (lsc'.txTe => ~lsc'.tx /\ ~lsc'.txTc)
      BY <1>1, <1>4, <1>5 DEF Ended, Left, ClientInv
    <2>5. lsc'.receiving \/ lsc'.transmitting => lsc'.size >= FILLERS + 2
      BY <1>1, <1>4, <1>5 DEF Ended, Left, ClientInv
    <2>6. lsc'.transmitting /\ ~lsc'.receiving /\ ~lsc'.restart => lsc'.clocked = lsc'.size
      BY <1>1, <1>4, <1>5 DEF Ended, Left, ClientInv
    <2>7. lsc'.clocked <= lsc'.size
      BY <1>1, <1>4, <1>5 DEF Ended, Left, ClientInv
    <2>8. QED
      BY <2>1, <2>2, <2>3, <2>4, <2>5, <2>6, <2>7 DEF ClientInv
  <1>9. lsc'.clocked = lsc.clocked /\ (Receiving' => Receiving)
    BY <1>1, <1>4, <1>5 DEF Ended, Left, ClientInv, Receiving
  <1>10. BegunInv'
    BY <1>1, <1>3, <1>9 DEF LineInv, BegunInv
  <1>11. FirstInv'
    BY <1>1, <1>3, <1>9 DEF FirstInv, First, Second, Wrong, Follows, NoneBegins
  <1>12. got' \in [kind : Reports, body : Bodies] /\ GotInv'
    <2>1. CASE report \in {None, "crc"}
      <3>1. got' \in [kind : Reports, body : Bodies] /\ got'.kind \in {None, "crc"}
        BY <1>1, <1>2, <2>1 DEF TypeOK
      <3>2. ~Passed'
        BY <3>1 DEF Passed, None
      <3>3. QED
        BY <3>1, <3>2 DEF GotInv
    <2>2. CASE report \notin {None, "crc"}
      <3>1. got' = [kind |-> report, body |-> First[2]]
        BY <1>2, <2>2 DEF First
      <3>2. /\ ~l.receiving /\ ~l.transmitting /\ ~l.restart /\ report = Result(l)
            /\ ~lsc'.receiving /\ ~lsc'.transmitting
            /\ lsc'.clocked = lsc.clocked /\ lsc'.size = lsc.size
        BY <1>4, <1>5, <2>2 DEF Left, Ended
      <3>3. /\ l.command \in Commands /\ CrcIsRight(l.command)
            /\ report = "details" <=> l.command = "detailed"
        <4>1. l.command \in Commands \cup {None}
          BY <1>4 DEF Ended, Client
        <4>2. l.command # None /\ CrcIsRight(l.command)
          BY <2>2, <3>2 DEF Result
        <4>3. report = "details" <=> l.command = "detailed"
          BY <3>2, <4>2 DEF Result
        <4>4. QED
          BY <4>1, <4>2, <4>3
      <3>4. Part(First, 1) /\ ~Wrong(Second) /\ (Follows(Second) => answer.of = l.command)
        BY <3>3, AcceptedResponse
      <3>5. First[2] = answer /\ Follows(Second) /\ NoneBegins
        <4>1. lsc.clocked > FILLERS + 1 /\ Receiving
          BY <1>7, <1>6, <3>2 DEF FILLERS
        <4>2. QED
          BY <1>1, <3>4, <4>1 DEF FirstInv
      <3>6. answer.of = l.command
        BY <3>4, <3>5
      <3>7. lsc.clocked = lsc.size
        BY <1>7, <3>2
      <3>8. answer.of = IF report = "details" THEN "detailed" ELSE "values"
        BY <3>3, <3>6 DEF Commands
      <3>9. got' \in [kind : Reports, body : Bodies] /\ got'.kind = report /\ got'.body = answer
        BY <1>1, <3>1, <3>5 DEF TypeOK
      <3>10. NoneBegins' /\ answer' = answer
        BY <1>3, <3>5 DEF NoneBegins
      <3>11. QED
        BY <3>2, <3>7, <3>8, <3>9, <3>10 DEF GotInv
    <2>3. QED
      BY <2>1, <2>2
  <1>13. LineInv'
    BY <1>8, <1>10, <1>11, <1>12 DEF LineInv
  <1>14. TypeOK'
    <2>1. lsc' \in Client /\ selected' \in BOOLEAN
      BY <1>1, <1>5 DEF Left, ClientType
    <2>2. SlaveType' /\ ClientType'
      BY <1>1, <1>3, <2>1 DEF SlaveType, ClientType
    <2>3. QED
      BY <1>1, <1>3, <1>12, <2>2 DEF TypeOK
  <1>15. TaskInv' /\ Consistent(spi)'
    BY <1>3 DEF IInv, TaskInv
  <1>16. QED
    BY <1>13, <1>14, <1>15 DEF IInv

-----------------------------------------------------------------------------
(* What the wires do.                                                       *)

\* A halfword each way, garbled or not.
LEMMA CarryStep ==
  ASSUME IInv, Tick \/ Garble
  PROVE  IInv'
  <1>1. /\ spi \in Slave /\ Consistent(spi) /\ TypeOK /\ SlaveType /\ ClientType /\ LineInv
        /\ TaskInv /\ lsc \in Client /\ ClientInv /\ BegunInv /\ FirstInv /\ GotInv
        /\ received \in [FILLERS + 1 .. Longest -> Halfwords]
    BY DEF IInv, TypeOK, ClientType, SlaveType, LineInv
  <1>2. /\ Clocking /\ UNCHANGED <<edge, task, pTxData, got, answer, cut>>
        /\ faults' \in 0 .. Faults
    BY <1>1, FaultsType DEF Tick, Garble, Carry, FaultIf, TypeOK
  <1>3. lsc.clocked < lsc.size /\ selected
    BY <1>1, <1>2 DEF Clocking, ClientInv
  <1>4. PICK g \in {Sent, Junk} : Clock(g)
    BY <1>3 DEF Tick, Garble, Carry
  <1>5. PICK h \in Commands \cup {"filler"} : Shift(h)
    <2>1. Outgoing \in Commands \cup {"filler"}
      BY <1>1 DEF Outgoing, Client
    <2>2. QED
      BY <1>3, <2>1 DEF Tick, Garble, Carry
  <1>6. Shifted(spi, spi')
    BY <1>1, <1>5, ShiftEffect DEF Shift
  <1>7. g \in Halfwords /\ (g # Junk => g = spi.dr)
    BY <1>1, HalfwordKinds DEF Sent, Slave
  <1>8. UNCHANGED <<selected, radio>>
        /\ received' = IF lsc.rx /\ lsc.clocked >= FILLERS
                       THEN [received EXCEPT ![lsc.clocked + 1] = g] ELSE received
    BY <1>4 DEF Clock
  <1>9. /\ lsc' \in Client /\ lsc'.clocked = lsc.clocked + 1 /\ lsc'.size = lsc.size
        /\ lsc'.receiving = lsc.receiving /\ lsc'.transmitting = lsc.transmitting
        /\ lsc'.restart = lsc.restart /\ lsc'.rx = lsc.rx /\ lsc'.tx = lsc.tx
        /\ lsc'.rxTe = lsc.rxTe /\ lsc'.txTe = lsc.txTe
        /\ lsc'.rxTc = (lsc.rxTc \/ (lsc.rx /\ lsc.clocked + 1 = lsc.size))
        /\ lsc'.txTc = (lsc.txTc \/ (lsc.tx /\ lsc.clocked + 2 = lsc.size))
    <2> DEFINE clocked == lsc.clocked + 1
               rxTc == lsc.rxTc \/ (lsc.rx /\ lsc.clocked + 1 = lsc.size)
               txTc == lsc.txTc \/ (lsc.tx /\ lsc.clocked + 2 = lsc.size)
               l == [lsc EXCEPT !.clocked = clocked, !.txTc = txTc, !.rxTc = rxTc]
    <2>1. lsc' = l
      BY <1>1, <1>4 DEF Clock, Client
    <2>2. clocked \in 0 .. Longest
      BY <1>1, <1>3 DEF Client, Longest, Transfer, Body, FILLERS
    <2>3. rxTc \in BOOLEAN /\ txTc \in BOOLEAN
      OBVIOUS
    <2> HIDE DEF clocked, rxTc, txTc
    <2>4. /\ l \in Client /\ l.clocked = clocked /\ l.size = lsc.size
          /\ l.receiving = lsc.receiving /\ l.transmitting = lsc.transmitting
          /\ l.restart = lsc.restart /\ l.rx = lsc.rx /\ l.tx = lsc.tx
          /\ l.rxTe = lsc.rxTe /\ l.txTe = lsc.txTe /\ l.rxTc = rxTc /\ l.txTc = txTc
      BY <1>1, <2>2, <2>3 DEF Client
    <2> HIDE DEF l
    <2>5. QED
      BY <2>1, <2>4 DEF clocked, rxTc, txTc
  <1>10. lsc.clocked \in Nat /\ lsc.size \in Nat /\ lsc.size <= 5 /\ Longest = 5
    BY <1>1 DEF Client, Longest, Transfer, Body, FILLERS
  <1>11. ClientInv'
    <2>1. ~lsc.rxTc
      BY <1>1, <1>3, <1>10 DEF ClientInv
    <2>2. ~(lsc.transmitting /\ ~lsc.receiving /\ ~lsc.restart)
      BY <1>1, <1>3, <1>10 DEF ClientInv
    <2>3. lsc'.rxTc => lsc'.rx /\ lsc'.clocked = lsc'.size
      BY <1>9, <2>1
    <2>4. lsc'.tx \/ lsc'.txTc \/ lsc'.txTe => lsc'.transmitting
      BY <1>1, <1>9 DEF ClientInv
    <2>5. lsc'.txTe => ~lsc'.tx /\ ~lsc'.txTc
      BY <1>1, <1>9 DEF ClientInv
    <2>6. lsc'.clocked <= lsc'.size /\ (lsc'.clocked < lsc'.size => selected')
      BY <1>3, <1>8, <1>9, <1>10
    <2>7. QED
      BY <1>1, <1>9, <2>2, <2>3, <2>4, <2>5, <2>6 DEF ClientInv
  <1>12. BegunInv'
    BY <1>6 DEF BegunInv, Shifted
  <1>13. GotInv'
    BY <1>1, <1>2, <1>3, <1>10 DEF GotInv, Passed
  <1>14. received' \in [FILLERS + 1 .. Longest -> Halfwords]
    <2>1. lsc.clocked >= FILLERS => lsc.clocked + 1 \in FILLERS + 1 .. Longest
      BY <1>3, <1>10 DEF FILLERS
    <2>2. QED
      BY <1>1, <1>7, <1>8, <2>1
  <1>15. FirstInv'
    <2> SUFFICES ASSUME Receiving', Part(First, 1)' PROVE FirstInv'
      BY DEF FirstInv
    <2>1. lsc.rx
      BY <1>1, <1>3, <1>9, <1>10 DEF ClientInv, Receiving
    <2>2. Receiving
      BY <2>1 DEF Receiving
    <2>3. FILLERS = 2 /\ First = received[3] /\ Second = received[4]
          /\ First' = received'[3] /\ Second' = received'[4]
      BY DEF First, Second, FILLERS
    <2>4. /\ spi'.state = spi.state /\ spi'.fillers = spi.fillers
          /\ spi.state \in {"COMMAND", "FILLER"} => spi.dr \in {Junk, Empty}
      BY <1>1, <1>6 DEF Shifted, Consistent
    <2>5. CASE lsc.clocked < FILLERS
      BY <1>9, <1>10, <2>3, <2>5 DEF FirstInv
    <2>6. CASE lsc.clocked = FILLERS
      <3>1. First' = g
        BY <1>1, <1>8, <1>10, <2>1, <2>3, <2>6
      <3>2. Part(spi.dr, 1) /\ First' = spi.dr
        BY <1>7, <3>1, HalfwordKinds DEF Part
      <3>3. First'[2] = answer'
        BY <1>1, <1>2, <2>6, <3>2 DEF BegunInv, FILLERS
      <3>4. Wrong(spi'.dr) \/ Follows(spi.dr)'
        BY <1>2, <1>6, <3>2, <3>3 DEF Shifted, Wrong, Follows
      <3>5. QED
        BY <1>9, <2>3, <2>6, <3>3, <3>4 DEF FirstInv, Wrong
    <2>7. CASE lsc.clocked = FILLERS + 1
      <3>1. First' = First /\ Second' = g
        BY <1>1, <1>8, <1>10, <2>1, <2>3, <2>7
      <3>2. CASE g = Junk
        <4>1. Wrong(Second)'
          BY <3>1, <3>2, HalfwordKinds DEF Wrong, Part, IsCrc
        <4>2. QED
          BY <1>9, <2>3, <2>7, <4>1 DEF FirstInv
      <3>3. CASE g = spi.dr
        <4>1. Wrong(spi.dr) \/ (First[2] = answer /\ Follows(spi.dr))
          BY <1>1, <2>2, <2>7, <3>1 DEF FirstInv, Part
        <4>2. Wrong(Second)' = Wrong(spi.dr) /\ Follows(Second)' = Follows(spi.dr)
          BY <1>2, <3>1, <3>3 DEF Wrong, Follows
        <4>3. ~Wrong(spi.dr) => spi.state \notin {"COMMAND", "FILLER"}
          BY <2>4, HalfwordKinds DEF Wrong, Part, IsCrc
        <4>4. ~Wrong(spi.dr) => spi'.state \notin {"COMMAND", "FILLER"}
          BY <2>4, <4>3
        <4>5. QED
          BY <1>2, <1>9, <2>3, <2>7, <3>1, <4>1, <4>2, <4>4 DEF FirstInv, NoneBegins
      <3>4. QED
        BY <1>7, <3>2, <3>3
    <2>8. CASE lsc.clocked = FILLERS + 2
      <3>1. First' = First /\ Second' = Second
        BY <1>1, <1>8, <1>10, <2>3, <2>8
      <3>2. Part(First, 1) /\ Wrong(Second)' = Wrong(Second) /\ Follows(Second)' = Follows(Second)
        BY <1>2, <3>1 DEF Part, Wrong, Follows
      <3>3. Wrong(Second) \/ (First[2] = answer /\ Follows(Second))
        BY <1>1, <2>2, <2>3, <2>8, <3>2 DEF FirstInv
      <3>4. ~Wrong(Second) /\ spi.state = "FILLER" => spi.fillers = 1
        BY <1>1, <2>2, <2>8, <3>2 DEF FirstInv
      <3>5. QED
        BY <1>2, <1>9, <2>3, <2>4, <2>8, <3>1, <3>2, <3>3, <3>4 DEF FirstInv, NoneBegins
    <2>9. QED
      BY <1>3, <1>10, <2>3, <2>5, <2>6, <2>7, <2>8
  <1>16. TypeOK'
    <2>1. ClientType'
      BY <1>1, <1>8, <1>9, <1>14 DEF ClientType
    <2>2. SlaveType'
      BY <1>1, <1>2, <1>6 DEF SlaveType, Shifted
    <2>3. QED
      BY <1>1, <1>2, <2>1, <2>2 DEF TypeOK
  <1>17. TaskInv' /\ Consistent(spi)'
    <2>1. spi'.slot = spi.slot /\ spi'.tx = spi.tx /\ Consistent(spi')
      BY <1>6 DEF Shifted
    <2>2. QED
      BY <1>1, <1>2, <2>1 DEF TaskInv
  <1>18. QED
    BY <1>11, <1>12, <1>13, <1>15, <1>16, <1>17 DEF IInv, LineInv

-----------------------------------------------------------------------------
(* The theorems.                                                            *)

LEMMA InitInv ==
  ASSUME Init
  PROVE  IInv
  <1>1. /\ spi = Boot /\ edge = FALSE /\ task = "idle" /\ pTxData = None
        /\ selected = FALSE /\ radio = None /\ faults = 0 /\ got = Nothing /\ answer = NoBody
        /\ cut = FALSE
        /\ received = [i \in FILLERS + 1 .. Longest |-> Junk]
    BY DEF Init, SlaveInit, ClientInit
  <1>2. /\ lsc \in Client /\ ~lsc.receiving /\ ~lsc.transmitting /\ ~lsc.rx /\ ~lsc.tx
        /\ ~lsc.rxTc /\ ~lsc.rxTe /\ ~lsc.txTc /\ ~lsc.txTe /\ lsc.size = 0 /\ lsc.clocked = 0
    <2>1. 0 \in 0 .. Longest
      BY DEF Longest, Transfer, Body, FILLERS
    <2>2. QED
      BY <2>1 DEF Init, ClientInit, Client, Commands
  <1>3. NoBody \in Bodies
    BY DEF NoBody, Bodies
  <1>4. spi \in Slave /\ Consistent(spi) /\ spi.dr = Empty
    BY <1>1, BootEffect DEF Booted
  <1>5. SlaveType
    BY <1>1, <1>4 DEF SlaveType
  <1>6. ClientType
    BY <1>1, <1>2, HalfwordKinds DEF ClientType
  <1>7. TypeOK
    <2>1. got \in [kind : Reports, body : Bodies]
      BY <1>1, <1>3 DEF Nothing, Reports
    <2>2. faults \in 0 .. Faults
      BY <1>1, FaultsAssumption
    <2>3. QED
      BY <1>1, <1>3, <1>5, <1>6, <2>1, <2>2 DEF TypeOK
  <1>8. TaskInv
    BY <1>1 DEF TaskInv
  <1>9. ClientInv
    BY <1>2 DEF ClientInv
  <1>10. BegunInv /\ GotInv
    BY <1>1, <1>2 DEF BegunInv, GotInv, Passed, Nothing, None
  <1>11. FirstInv
    BY <1>2 DEF FirstInv, Receiving
  <1>12. QED
    BY <1>4, <1>7, <1>8, <1>9, <1>10, <1>11 DEF IInv, LineInv

LEMMA StutterStep ==
  ASSUME IInv, UNCHANGED vars
  PROVE  IInv'
  <1>1. UNCHANGED <<spi, edge, task, pTxData, lsc, received, selected, radio, faults, got, answer, cut>>
    BY DEF vars, slave, client
  <1>2. QED
    BY <1>1 DEF IInv, TypeOK, SlaveType, ClientType, TaskInv, LineInv, ClientInv, BegunInv, FirstInv,
                GotInv, Passed, NoneBegins, Receiving, First, Second, Follows, Wrong

\* The invariant holds whatever happens on the line, for any number of faults.
THEOREM Invariant == Spec => []IInv
  <1>1. Init => IInv
    BY InitInv
  <1>2. IInv /\ [Next]_vars => IInv'
    <2> SUFFICES ASSUME IInv, [Next]_vars PROVE IInv'
      OBVIOUS
    <2>1. ASSUME NEW newer \in BOOLEAN, Command(newer) PROVE IInv'
      BY <2>1, CommandStep
    <2>2. CASE Select
      BY <2>2, SlaveHandlers
    <2>3. CASE ResponseEnd
      BY <2>3, SlaveHandlers
    <2>4. CASE Work
      BY <2>4, WorkStep
    <2>5. CASE Restart
      BY <2>5, RestartStep
    <2>6. CASE StartOrStop
      BY <2>6, StartOrStopStep
    <2>7. CASE Timer
      BY <2>7, TimerStep
    <2>8. CASE TransferEnd
      BY <2>8, TransferEndStep
    <2>9. CASE Tick \/ Garble
      BY <2>9, CarryStep
    <2>10. CASE ChannelError
      BY <2>10, ChannelErrorStep
    <2>11. CASE PowerLoss
      BY <2>11, RestartStep
    <2>12. CASE UNCHANGED vars
      BY <2>12, StutterStep
    <2>13. QED
      BY <2>1, <2>2, <2>3, <2>4, <2>5, <2>6, <2>7, <2>8, <2>9, <2>10, <2>11, <2>12 DEF Next
  <1>3. QED
    BY <1>1, <1>2, PTL DEF Spec

\* The registers, buffers and positions stay within their types: in particular no index of
\* a response, and no place of a halfword, is outside its array.
THEOREM TypeCorrect == Spec => []TypeOK
  <1>1. IInv => TypeOK
    BY DEF IInv
  <1>2. QED
    BY <1>1, Invariant, PTL

\* What the client passes on is the response the slave sent in this very transfer, to that
\* very command (line_sensor_client.c:388-442, spi.c:349-375).
THEOREM AcceptedAreFresh == Spec => []AcceptedIsFresh
  <1>1. IInv => AcceptedIsFresh
    BY DEF IInv, LineInv, GotInv, Passed, AcceptedIsFresh
  <1>2. QED
    BY <1>1, Invariant, PTL

\* The task never writes the CRC it has computed into another response than the one it has
\* summed (spi.c:473-497), because its slot is not given away before it is done (simple_tasks.c:15-32).
THEOREM TaskWritesOwn == Spec => TaskWritesOwnResponse
  <1>1. IInv /\ [Next]_vars => [task = "store" /\ Work => spi.tx \in {pTxData, None}]_vars
    BY DEF IInv, TaskInv
  <1>2. QED
    BY <1>1, Invariant, PTL DEF Spec, TaskWritesOwnResponse
=============================================================================
