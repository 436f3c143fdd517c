--------------------------- MODULE PipelineProofs ---------------------------
(***************************************************************************)
(* Proofs about pipelines: however the children are scheduled and whichever*)
(* descriptors were closed at the start, every command is connected to its *)
(* neighbours and to nothing else, nobody sleeps on a pipe that is ready,  *)
(* and the shell holds only the ends it knows of.                          *)
(***************************************************************************)
EXTENDS Pipeline, WellFoundedInduction, TLAPS

-----------------------------------------------------------------------------
(***************************************************************************)
(* Descriptor tables.                                                      *)
(***************************************************************************)

\* A set of natural numbers that is not empty has a smallest element.
LEMMA MinIsIn ==
    ASSUME NEW S, S \subseteq Nat, S # {}
    PROVE  Min(S) \in S /\ \A y \in S : Min(S) <= y
<1> DEFINE Less == OpToRel(<, Nat)
<1>1. IsWellFoundedOn(Less, Nat) BY NatLessThanWellFounded
<1>2. \A x, y \in Nat : y < x => <<y, x>> \in Less BY DEF OpToRel
<1> HIDE DEF Less
<1>3. PICK x \in S : \A y \in S : ~ (<<y, x>> \in Less) BY <1>1, WFMin
<1>4. ASSUME NEW y \in S PROVE x <= y
  <2>1. x \in Nat /\ y \in Nat OBVIOUS
  <2>2. ~ (y < x) BY <1>2, <1>3, <2>1
  <2> QED BY <2>1, <2>2
<1> QED BY <1>4 DEF Min

\* The smallest of two numbers.
LEMMA MinOfTwo ==
    ASSUME NEW a \in Nat, NEW b \in Nat
    PROVE  Min({a, b}) \in Nat /\ Min({a, b}) <= a /\ Min({a, b}) <= b
           /\ Min({a, b}) \in {a, b}
<1> DEFINE S == {a, b}
<1>1. S \subseteq Nat /\ S # {} OBVIOUS
<1>2. Min(S) \in S /\ \A y \in S : Min(S) <= y BY <1>1, MinIsIn
<1> QED BY <1>2

Below == 0 .. OpenMax - 1

\* min_unused_fd gives a descriptor that is not open, whatever is open.
LEMMA UnusedIsFree ==
    ASSUME NEW t, DOMAIN t \subseteq Below, NEW min \in Nat
    PROVE  MinUnusedFd(t, min) \in Nat /\ MinUnusedFd(t, min) \notin DOMAIN t
<1> DEFINE S == (min .. min + OpenMax) \ DOMAIN t
<1>1. min + OpenMax \in S BY OpenMaxAssumption DEF Below
<1>2. S \subseteq Nat /\ S # {} BY <1>1, OpenMaxAssumption
<1>3. Min(S) \in S BY <1>2, MinIsIn
<1> QED BY <1>2, <1>3 DEF MinUnusedFd

\* Closing a descriptor.
Without(t, fd, u) == DOMAIN u = DOMAIN t \ {fd} /\ \A f \in DOMAIN u : u[f] = t[f]

LEMMA CloseIsTable ==
    ASSUME NEW t, NEW D, IsTable(t, D), NEW fd, NEW u, u = CloseFd(t, fd)
    PROVE  IsTable(u, D) /\ Without(t, fd, u)
BY DEF IsTable, CloseFd, Without

Put(t, fd, ofd) == SetFd(t, fd, Body(ofd, FALSE))

\* Installing a description in a descriptor below the limit.
With(t, fd, ofd, u) ==
    /\ DOMAIN u = DOMAIN t \union {fd}
    /\ u[fd].ofd = ofd
    /\ \A f \in DOMAIN t : f # fd => u[f] = t[f]

LEMMA SetIsTable ==
    ASSUME NEW t, NEW D, IsTable(t, D), NEW fd \in Below, NEW ofd \in D,
           NEW u, u = Put(t, fd, ofd)
    PROVE  IsTable(u, D) /\ With(t, fd, ofd, u)
BY OpenMaxAssumption DEF IsTable, Put, SetFd, Body, Below, With

\* pipe opens two descriptors that were not open.
LEMMA PipeOpens ==
    ASSUME NEW t, NEW D, IsTable(t, D), CanPipe(t), NEW r \in D, NEW w \in D,
           NEW x, x = Pipe(t, r, w),
           NEW a, a = PipeReader(t), NEW b, b = PipeWriter(t)
    PROVE  /\ a \in Below \ DOMAIN t
           /\ b \in Below \ DOMAIN t
           /\ a # b
           /\ IsTable(x, D)
           /\ DOMAIN x = DOMAIN t \union {a, b}
           /\ x[a].ofd = r
           /\ x[b].ofd = w
           /\ \A f \in DOMAIN t : x[f] = t[f]
<1>1. DOMAIN t \subseteq Below BY DEF IsTable, Below
<1>2. PICK u : u = SetFd(t, a, Body(0, FALSE)) OBVIOUS
<1>3. a \in Nat /\ a \notin DOMAIN t BY <1>1, UnusedIsFree DEF PipeReader
<1>4. a \in Below
  BY <1>3, OpenMaxAssumption DEF CanPipe, CanOpen, PipeReader, Below
<1>5. DOMAIN u = DOMAIN t \union {a} BY <1>2 DEF SetFd
<1>6. b = MinUnusedFd(u, 0) BY <1>2 DEF PipeWriter
<1>7. b \in Nat /\ b \notin DOMAIN u BY <1>1, <1>4, <1>5, <1>6, UnusedIsFree
<1>8. b < OpenMax BY DEF CanPipe
<1>9. b \in Below \ DOMAIN t /\ a # b
  BY <1>5, <1>7, <1>8, OpenMaxAssumption DEF Below
<1>10. PICK v : v = Put(t, a, r) OBVIOUS
<1>11. IsTable(v, D) /\ With(t, a, r, v) BY <1>4, <1>10, SetIsTable
<1>12. x = Put(v, b, w) BY <1>10 DEF Pipe, Put
<1>13. b \in Below BY <1>9
<1>14. IsTable(x, D) /\ With(v, b, w, x) BY <1>11, <1>12, <1>13, SetIsTable
<1> QED BY <1>3, <1>4, <1>9, <1>11, <1>14 DEF With

-----------------------------------------------------------------------------
(***************************************************************************)
(* The end of a description.                                               *)
(***************************************************************************)

\* A description is held if some descriptor of some process refers to it.
LEMMA InHeld ==
    ASSUME NEW T, NEW o
    PROVE  o \in Held(T) <=> \E p \in 0 .. N : \E f \in DOMAIN T[p] : T[p][f].ofd = o
BY DEF Held

\* Replacing the table of a process wakes all that sleep on a pipe whose last
\* reader or last writer this closes, and disturbs nobody else.
LEMMA AfterSetTable ==
    ASSUME TypeOK, NEW p \in 0 .. N, NEW t, SetTable(p, t)
    PROVE  /\ fifo' \in [Pipes -> FifoType(Child)]
           /\ asleep' \subseteq asleep
           /\ t = <<>> => p \notin asleep'
           /\ \A q \in Pipes : fifo'[q].content = fifo[q].content
           /\ \A q \in Pipes : \A c \in asleep' :
                 c \in fifo[q].readWakers =>
                     /\ c \in fifo'[q].readWakers
                     /\ HasWriters(fds, q) => HasWriters(fds', q)
           /\ \A q \in Pipes : \A c \in asleep' :
                 c \in fifo[q].writeWakers =>
                     /\ c \in fifo'[q].writeWakers
                     /\ HasReaders(fds, q) => HasReaders(fds', q)
<1>1. fifo \in [Pipes -> FifoType(Child)] BY DEF TypeOK
<1>2. PICK D : D = Dropped OBVIOUS
<1>3. /\ fifo' = [q \in Pipes |-> IF q \in D THEN ClosedFifo(fifo[q]) ELSE fifo[q]]
      /\ asleep' = asleep \ UNION ({WokenByClose(fifo[q]) : q \in D}
                                     \union (IF t = <<>> THEN {{p}} ELSE {}))
  BY <1>2 DEF SetTable
<1>4. ASSUME NEW q \in Pipes
      PROVE  /\ ClosedFifo(fifo[q]) \in FifoType(Child)
             /\ ClosedFifo(fifo[q]).content = fifo[q].content
  BY <1>1 DEF ClosedFifo, FifoType
<1>5. fifo' \in [Pipes -> FifoType(Child)] BY <1>1, <1>3, <1>4
<1>6. asleep' \subseteq asleep BY <1>3
<1>7. t = <<>> => p \notin asleep' BY <1>3
<1>8. \A q \in Pipes : fifo'[q].content = fifo[q].content BY <1>3, <1>4
<1>9. ASSUME NEW q \in Pipes, NEW c \in asleep',
             c \in fifo[q].readWakers \/ c \in fifo[q].writeWakers
      PROVE  q \notin D
  <2>1. SUFFICES ASSUME q \in D PROVE FALSE OBVIOUS
  <2>2. c \in WokenByClose(fifo[q]) BY <1>9 DEF WokenByClose
  <2> QED BY <1>3, <2>1, <2>2
<1>10. ASSUME NEW q \in Pipes, q \notin D
       PROVE  /\ HasWriters(fds, q) => HasWriters(fds', q)
              /\ HasReaders(fds, q) => HasReaders(fds', q)
  <2>1. ASSUME NEW o, o \in Held(fds), o \notin Held(fds'), o.end # "own"
        PROVE  o.of \in D
    BY <1>2, <2>1 DEF Dropped
  <2>2. WriteEnd(q).end # "own" /\ WriteEnd(q).of = q BY DEF WriteEnd
  <2>3. ReadEnd(q).end # "own" /\ ReadEnd(q).of = q BY DEF ReadEnd
  <2> QED BY <1>10, <2>1, <2>2, <2>3 DEF HasWriters, HasReaders
<1> QED BY <1>3, <1>5, <1>6, <1>7, <1>8, <1>9, <1>10

\* What is not the shell's own is the end of one of the pipes.
LEMMA EndsAreOfPipes ==
    ASSUME Ends, NEW d \in Child, NEW f \in DOMAIN fds[d], fds[d][f].ofd.end # "own"
    PROVE  fds[d][f].ofd.of \in Pipes
BY PipelineAssumption DEF Ends, Child

\* So nobody who goes on sleeping is passed over.
LEMMA SleepKept ==
    ASSUME TypeOK, Ends, Wakers, SleepsJustly, NEW p \in 0 .. N, NEW t, SetTable(p, t),
           p \notin asleep', \A c \in asleep' : io'[c] = io[c]
    PROVE  Wakers' /\ SleepsJustly' /\ asleep' \subseteq Child
           /\ fifo' \in [Pipes -> FifoType(Child)]
<1>1. /\ fifo' \in [Pipes -> FifoType(Child)]
      /\ asleep' \subseteq asleep
      /\ t = <<>> => p \notin asleep'
      /\ \A q \in Pipes : fifo'[q].content = fifo[q].content
      /\ \A q \in Pipes : \A c \in asleep' :
            c \in fifo[q].readWakers =>
                /\ c \in fifo'[q].readWakers
                /\ HasWriters(fds, q) => HasWriters(fds', q)
      /\ \A q \in Pipes : \A c \in asleep' :
            c \in fifo[q].writeWakers =>
                /\ c \in fifo'[q].writeWakers
                /\ HasReaders(fds, q) => HasReaders(fds', q)
  BY AfterSetTable
<1>2. ASSUME NEW c \in asleep'
      PROVE  c \in asleep /\ c \in Child /\ fds'[c] = fds[c] /\ io'[c] = io[c]
  <2>1. c \in asleep /\ c \in Child /\ c # p BY <1>1 DEF TypeOK
  <2>2. fds' = [fds EXCEPT ![p] = t] /\ fds = [x \in 0 .. N |-> fds[x]]
    BY DEF SetTable, Ends
  <2>3. fds'[c] = fds[c] BY <2>1, <2>2, PipelineAssumption DEF Child
  <2> QED BY <2>1, <2>3
<1>3. ASSUME NEW c \in Child, NEW f \in DOMAIN fds[c], fds[c][f].ofd.end # "own"
      PROVE  fds[c][f].ofd.of \in Pipes
  BY <1>3, PipelineAssumption DEF Ends, Child
<1>4. ASSUME NEW c \in asleep', io[c].op = "read", 0 \in DOMAIN fds[c],
             fds[c][0].ofd.end = "read", c \in fifo[fds[c][0].ofd.of].readWakers
      PROVE  /\ c \in fifo'[fds[c][0].ofd.of].readWakers
             /\ fifo'[fds[c][0].ofd.of].content = 0
             /\ HasWriters(fds', fds[c][0].ofd.of)
  <2>1. PICK q : q = fds[c][0].ofd.of OBVIOUS
  <2>2. q \in Pipes BY <1>2, <1>3, <1>4, <2>1
  <2>3. fifo[q].content = 0 /\ HasWriters(fds, q) BY <1>2, <1>4, <2>1 DEF SleepsJustly
  <2> QED BY <1>1, <1>4, <2>1, <2>2, <2>3
<1>5. ASSUME NEW c \in asleep', io[c].op = "write", 1 \in DOMAIN fds[c],
             fds[c][1].ofd.end = "write", c \in fifo[fds[c][1].ofd.of].writeWakers
      PROVE  /\ c \in fifo'[fds[c][1].ofd.of].writeWakers
             /\ fifo'[fds[c][1].ofd.of].content = fifo[fds[c][1].ofd.of].content
             /\ HasReaders(fds', fds[c][1].ofd.of)
  <2>1. PICK q : q = fds[c][1].ofd.of OBVIOUS
  <2>2. q \in Pipes BY <1>2, <1>3, <1>5, <2>1
  <2>3. HasReaders(fds, q) BY <1>2, <1>5, <2>1 DEF SleepsJustly
  <2> QED BY <1>1, <1>5, <2>1, <2>2, <2>3
<1>6. Wakers' BY <1>2, <1>4, <1>5 DEF Wakers
<1>7. SleepsJustly'
  <2>1. ASSUME NEW c \in asleep', io[c].op = "write"
        PROVE  LET q == fds[c][1].ofd.of
                   room == PipeSize - fifo'[q].content
               IN  HasReaders(fds', q) /\ room < io[c].left /\
                      (room = 0 \/ io[c].left <= PipeBuf)
    BY <1>2, <1>5, <2>1 DEF Wakers, SleepsJustly
  <2> QED BY <1>2, <1>4, <2>1 DEF Wakers, SleepsJustly
<1> QED BY <1>1, <1>6, <1>7 DEF TypeOK

-----------------------------------------------------------------------------
(***************************************************************************)
(* Polling a pipe.                                                         *)
(***************************************************************************)

\* The pipes as their users poll them.
ReadPoll(q, c, n) == PollRead(fifo[q], HasWriters(fds, q), c, n)
WritePoll(q, c, n) == PollWrite(fifo[q], HasReaders(fds, q), c, n)

\* poll_read: it waits only at an empty pipe with writers, and if it does not
\* wait it wakes those who wait to write.
LEMMA PollReadIs ==
    ASSUME TypeOK, NEW q \in Pipes, NEW c \in Child, NEW n \in Nat, n > 0,
           NEW r, r = ReadPoll(q, c, n)
    PROVE  /\ r.fifo \in FifoType(Child)
           /\ r.count \in Nat
           /\ r.fifo.content <= fifo[q].content
           /\ ~r.done => /\ fifo[q].content = 0 /\ HasWriters(fds, q)
                         /\ r.fifo.content = 0
                         /\ r.fifo.readWakers = fifo[q].readWakers \union {c}
                         /\ r.fifo.writeWakers = fifo[q].writeWakers
                         /\ r.woken = {}
           /\ r.done => /\ ~(fifo[q].content = 0 /\ HasWriters(fds, q))
                        /\ r.fifo.readWakers = fifo[q].readWakers
                        /\ r.woken = fifo[q].writeWakers
<1>1. fifo[q] \in FifoType(Child) BY DEF TypeOK
<1>2. PipeSize \in Nat BY PipeBufAssumption DEF PipeSize
<1>3. fifo[q].content \in Nat /\ fifo[q].content <= PipeSize BY <1>1, <1>2 DEF FifoType
<1>4. CASE fifo[q].content = 0 /\ HasWriters(fds, q)
  <2>1. r = Result([fifo[q] EXCEPT !.readWakers = @ \union {c}], FALSE, 0, {})
    BY <1>4 DEF ReadPoll, PollRead
  <2>2. ~r.done BY <2>1 DEF Result
  <2>3. /\ r.fifo = [fifo[q] EXCEPT !.readWakers = @ \union {c}]
        /\ r.count = 0 /\ r.woken = {}
    BY <2>1 DEF Result
  <2>4. /\ r.fifo \in FifoType(Child) /\ r.fifo.content = fifo[q].content
        /\ r.fifo.readWakers = fifo[q].readWakers \union {c}
        /\ r.fifo.writeWakers = fifo[q].writeWakers
    BY <1>1, <2>3 DEF FifoType
  <2>5. r.count \in Nat /\ r.fifo.content <= fifo[q].content /\ r.fifo.content = 0
    <3>1. fifo[q].content = 0 BY <1>4
    <3>2. r.fifo.content = 0 /\ r.count = 0 BY <2>3, <2>4, <3>1, Zenon
    <3> QED BY <3>1, <3>2
  <2> QED BY <1>4, <2>2, <2>3, <2>4, <2>5, Zenon
<1>5. CASE ~(fifo[q].content = 0 /\ HasWriters(fds, q))
  <2>1. PICK k : k = Min({n, fifo[q].content}) OBVIOUS
  <2>2. r = Result([fifo[q] EXCEPT !.content = @ - k, !.writeWakers = {}],
                   TRUE, k, fifo[q].writeWakers)
    BY <1>5, <2>1 DEF ReadPoll, PollRead
  <2>3. k \in Nat /\ k <= fifo[q].content BY <1>3, <2>1, MinOfTwo
  <2>4. fifo[q].content - k \in 0 .. PipeSize BY <1>2, <1>3, <2>3
  <2>5. r.done BY <2>2 DEF Result
  <2>6. /\ r.fifo = [fifo[q] EXCEPT !.content = @ - k, !.writeWakers = {}]
        /\ r.count = k /\ r.woken = fifo[q].writeWakers
    BY <2>2 DEF Result
  <2>7. r.fifo \in FifoType(Child) BY <1>1, <2>4, <2>6 DEF FifoType
  <2>8. r.fifo.content = fifo[q].content - k /\ r.fifo.readWakers = fifo[q].readWakers
    BY <1>1, <2>6 DEF FifoType
  <2> QED BY <1>3, <1>5, <2>3, <2>5, <2>6, <2>7, <2>8
<1> QED BY <1>4, <1>5

\* When a write cannot proceed.
Stuck(q, n) == /\ PipeSize - fifo[q].content < n
               /\ PipeSize - fifo[q].content = 0 \/ n <= PipeBuf

\* poll_write: it waits only if there are readers and there is no room, and if
\* it writes anything it wakes those who wait to read.
LEMMA PollWriteIs ==
    ASSUME TypeOK, NEW q \in Pipes, NEW c \in Child, NEW n \in Nat, n > 0,
           NEW r, r = WritePoll(q, c, n)
    PROVE  /\ r.fifo \in FifoType(Child)
           /\ r.count \in Nat /\ r.count <= n
           /\ r.fifo.content >= fifo[q].content
           /\ ~r.done => /\ HasReaders(fds, q) /\ Stuck(q, n)
                         /\ r.fifo.content = fifo[q].content
                         /\ r.fifo.writeWakers = fifo[q].writeWakers \union {c}
                         /\ r.fifo.readWakers = fifo[q].readWakers
                         /\ r.woken = {}
           /\ r.done /\ r.count = 0 => ~HasReaders(fds, q) /\ r.fifo = fifo[q] /\ r.woken = {}
           /\ r.done /\ r.count > 0 =>
                 /\ ~Stuck(q, n)
                 /\ r.fifo.writeWakers = fifo[q].writeWakers
                 /\ r.woken = fifo[q].readWakers
<1>1. fifo[q] \in FifoType(Child) BY DEF TypeOK
<1>2. PipeSize \in Nat BY PipeBufAssumption DEF PipeSize
<1>3. fifo[q].content \in Nat /\ fifo[q].content <= PipeSize BY <1>1, <1>2 DEF FifoType
<1>4. CASE ~HasReaders(fds, q)
  <2>1. r = Result(fifo[q], TRUE, 0, {}) BY <1>4 DEF WritePoll, PollWrite
  <2> QED BY <1>1, <1>3, <1>4, <2>1 DEF Result
<1>5. CASE HasReaders(fds, q) /\ Stuck(q, n)
  <2>1. r = Result([fifo[q] EXCEPT !.writeWakers = @ \union {c}], FALSE, 0, {})
    BY <1>5 DEF WritePoll, PollWrite, Stuck
  <2>2. ~r.done BY <2>1 DEF Result
  <2>3. /\ r.fifo = [fifo[q] EXCEPT !.writeWakers = @ \union {c}]
        /\ r.count = 0 /\ r.woken = {}
    BY <2>1 DEF Result
  <2>4. /\ r.fifo \in FifoType(Child) /\ r.fifo.content = fifo[q].content
        /\ r.fifo.writeWakers = fifo[q].writeWakers \union {c}
        /\ r.fifo.readWakers = fifo[q].readWakers
    BY <1>1, <2>3 DEF FifoType
  <2>5. r.count \in Nat /\ r.count <= n /\ r.fifo.content >= fifo[q].content
    BY <1>3, <2>3, <2>4
  <2> QED BY <1>5, <2>2, <2>3, <2>4, <2>5, Zenon
<1>6. CASE HasReaders(fds, q) /\ ~Stuck(q, n)
  <2>1. PICK room : room = PipeSize - fifo[q].content OBVIOUS
  <2>2. room \in Nat BY <1>2, <1>3, <2>1
  <2>3. PICK k : k = Min({n, room}) OBVIOUS
  <2>4. r = Result([fifo[q] EXCEPT !.content = @ + k, !.readWakers = {}],
                   TRUE, k, fifo[q].readWakers)
    BY <1>6, <2>1, <2>3 DEF WritePoll, PollWrite, Stuck
  <2>5. k \in Nat /\ k <= n /\ k <= room /\ k \in {n, room} BY <2>2, <2>3, MinOfTwo
  <2>6. k > 0 BY <1>6, <2>1, <2>2, <2>5 DEF Stuck
  <2>7. fifo[q].content + k \in 0 .. PipeSize /\ fifo[q].content + k >= fifo[q].content
    BY <1>2, <1>3, <2>1, <2>5
  <2>8. [fifo[q] EXCEPT !.content = @ + k, !.readWakers = {}] \in FifoType(Child)
    BY <1>1, <2>7 DEF FifoType
  <2>9. /\ r.fifo = [fifo[q] EXCEPT !.content = @ + k, !.readWakers = {}]
        /\ r.count = k /\ r.woken = fifo[q].readWakers
    BY <2>4 DEF Result
  <2>10. /\ r.fifo.content = fifo[q].content + k
         /\ r.fifo.writeWakers = fifo[q].writeWakers
    BY <1>1, <2>9 DEF FifoType
  <2>11. r.done BY <2>4 DEF Result
  <2>12. /\ r.count \in Nat /\ r.count <= n /\ r.fifo.content >= fifo[q].content
         /\ r.count # 0 /\ r.fifo \in FifoType(Child)
    BY <2>5, <2>6, <2>7, <2>8, <2>9, <2>10
  <2> QED BY <1>6, <2>9, <2>10, <2>11, <2>12, Zenon
<1> QED BY <1>4, <1>5, <1>6

\* A read leaves nobody asleep who could go on.
LEMMA ReadPolled ==
    ASSUME TypeOK, Ends, Operations, Wakers, SleepsJustly,
           NEW c \in Child, c \notin asleep, io[c].op = "read",
           0 \in DOMAIN fds[c], fds[c][0].ofd.end = "read",
           NEW q, q = fds[c][0].ofd.of,
           NEW r, r = ReadPoll(q, c, io[c].left),
           NEW then, ~r.done => then = io[c], Polled(c, q, r, then)
    PROVE  Wakers' /\ SleepsJustly' /\ asleep' \subseteq Child
           /\ fifo' \in [Pipes -> FifoType(Child)]
<1>1. q \in Pipes BY EndsAreOfPipes
<1>2. io[c].left \in Nat /\ io[c].left > 0 BY DEF TypeOK, Operations
<1>3. /\ r.fifo \in FifoType(Child)
      /\ r.count \in Nat
      /\ r.fifo.content <= fifo[q].content
      /\ ~r.done => /\ fifo[q].content = 0 /\ HasWriters(fds, q)
                    /\ r.fifo.content = 0
                    /\ r.fifo.readWakers = fifo[q].readWakers \union {c}
                    /\ r.fifo.writeWakers = fifo[q].writeWakers
                    /\ r.woken = {}
      /\ r.done => /\ ~(fifo[q].content = 0 /\ HasWriters(fds, q))
                   /\ r.fifo.readWakers = fifo[q].readWakers
                   /\ r.woken = fifo[q].writeWakers
  BY <1>1, <1>2, PollReadIs
<1>4. /\ fifo' = [fifo EXCEPT ![q] = r.fifo]
      /\ io' = [io EXCEPT ![c] = then]
      /\ fds' = fds
  BY DEF Polled
<1>5. fifo' \in [Pipes -> FifoType(Child)] BY <1>1, <1>3, <1>4 DEF TypeOK
<1>6. \A p \in Pipes : fifo'[p] = IF p = q THEN r.fifo ELSE fifo[p]
  BY <1>1, <1>4 DEF TypeOK
<1>7. \A d \in Child : d # c => io'[d] = io[d] BY <1>4 DEF TypeOK
<1>8. ASSUME NEW d \in Child, NEW f \in DOMAIN fds[d], fds[d][f].ofd.end # "own"
      PROVE  fds[d][f].ofd.of \in Pipes
  BY <1>8, EndsAreOfPipes
<1>9. CASE r.done
  <2>1. asleep' = asleep \ fifo[q].writeWakers BY <1>3, <1>9, Zenon DEF Polled
  <2>2. /\ ~(fifo[q].content = 0 /\ HasWriters(fds, q))
        /\ r.fifo.readWakers = fifo[q].readWakers
    BY <1>3, <1>9, Zenon
  <2>3. ASSUME NEW d \in asleep' PROVE d \in asleep /\ d \in Child /\ io'[d] = io[d]
    BY <1>7, <2>1 DEF TypeOK
  <2>4. ASSUME NEW d \in asleep', io[d].op = "read"
        PROVE  /\ fds[d][0].ofd.of \in Pipes
               /\ fds[d][0].ofd.of # q
               /\ 0 \in DOMAIN fds[d] /\ fds[d][0].ofd.end = "read"
               /\ d \in fifo[fds[d][0].ofd.of].readWakers
               /\ fifo[fds[d][0].ofd.of].content = 0
               /\ HasWriters(fds, fds[d][0].ofd.of)
    BY <1>8, <2>2, <2>3, <2>4 DEF Wakers, SleepsJustly
  <2>5. ASSUME NEW d \in asleep', io[d].op # "read"
        PROVE  /\ fds[d][1].ofd.of \in Pipes
               /\ fds[d][1].ofd.of # q
               /\ 1 \in DOMAIN fds[d] /\ fds[d][1].ofd.end = "write"
               /\ io[d].op = "write"
               /\ d \in fifo[fds[d][1].ofd.of].writeWakers
    BY <1>8, <2>1, <2>3, <2>5 DEF Wakers
  <2>6. Wakers'
    <3>1. SUFFICES ASSUME NEW d \in asleep'
                   PROVE  \/ /\ io[d].op = "read"
                             /\ 0 \in DOMAIN fds[d] /\ fds[d][0].ofd.end = "read"
                             /\ d \in fifo'[fds[d][0].ofd.of].readWakers
                          \/ /\ io[d].op = "write"
                             /\ 1 \in DOMAIN fds[d] /\ fds[d][1].ofd.end = "write"
                             /\ d \in fifo'[fds[d][1].ofd.of].writeWakers
      BY <1>4, <2>3 DEF Wakers
    <3>2. CASE io[d].op = "read" BY <1>6, <2>4, <3>2
    <3>3. CASE io[d].op # "read" BY <1>6, <2>5, <3>3
    <3> QED BY <3>2, <3>3
  <2>7. SleepsJustly'
    <3>1. SUFFICES ASSUME NEW d \in asleep'
                   PROVE  IF io[d].op = "read"
                            THEN LET p == fds[d][0].ofd.of
                                 IN  fifo'[p].content = 0 /\ HasWriters(fds, p)
                            ELSE LET p == fds[d][1].ofd.of
                                     room == PipeSize - fifo'[p].content
                                 IN  HasReaders(fds, p) /\ room < io[d].left /\
                                        (room = 0 \/ io[d].left <= PipeBuf)
      BY <1>4, <2>3 DEF SleepsJustly
    <3>2. CASE io[d].op = "read" BY <1>6, <2>4, <3>2
    <3>3. CASE io[d].op # "read"
      BY <1>6, <2>3, <2>5, <3>3 DEF SleepsJustly
    <3> QED BY <3>2, <3>3
  <2> QED BY <1>5, <2>3, <2>6, <2>7
<1>10. CASE ~r.done
  <2>1. asleep' = asleep \union {c} BY <1>3, <1>10, Zenon DEF Polled
  <2>2. /\ fifo[q].content = 0 /\ HasWriters(fds, q)
        /\ r.fifo.content = 0
        /\ r.fifo.readWakers = fifo[q].readWakers \union {c}
        /\ r.fifo.writeWakers = fifo[q].writeWakers
        /\ then = io[c]
    BY <1>3, <1>10, Zenon
  <2>3. \A d \in Child : io'[d] = io[d] BY <1>4, <2>2 DEF TypeOK
  <2>4. asleep' \subseteq Child BY <2>1 DEF TypeOK
  <2>5. \A p \in Pipes : /\ fifo'[p].content = fifo[p].content
                         /\ fifo[p].readWakers \subseteq fifo'[p].readWakers
                         /\ fifo[p].writeWakers \subseteq fifo'[p].writeWakers
    BY <1>6, <2>2
  <2>6. c \in fifo'[q].readWakers /\ fifo'[q].content = 0 BY <1>1, <1>6, <2>2
  <2>7. ASSUME NEW d \in asleep'
        PROVE  \/ /\ io[d].op = "read"
                  /\ 0 \in DOMAIN fds[d] /\ fds[d][0].ofd.end = "read"
                  /\ d \in fifo'[fds[d][0].ofd.of].readWakers
               \/ /\ io[d].op = "write"
                  /\ 1 \in DOMAIN fds[d] /\ fds[d][1].ofd.end = "write"
                  /\ d \in fifo'[fds[d][1].ofd.of].writeWakers
    <3>1. CASE d = c BY <2>6, <3>1
    <3>2. CASE d \in asleep BY <1>8, <2>4, <2>5, <3>2 DEF Wakers
    <3> QED BY <2>1, <3>1, <3>2
  <2>8. ASSUME NEW d \in asleep'
        PROVE  IF io[d].op = "read"
                 THEN LET p == fds[d][0].ofd.of
                      IN  fifo'[p].content = 0 /\ HasWriters(fds, p)
                 ELSE LET p == fds[d][1].ofd.of
                          room == PipeSize - fifo'[p].content
                      IN  HasReaders(fds, p) /\ room < io[d].left /\
                             (room = 0 \/ io[d].left <= PipeBuf)
    <3>1. CASE d = c BY <2>2, <2>6, <3>1
    <3>2. CASE d \in asleep BY <1>8, <2>4, <2>5, <3>2 DEF Wakers, SleepsJustly
    <3> QED BY <2>1, <3>1, <3>2
  <2>9. Wakers' BY <1>4, <2>3, <2>4, <2>7 DEF Wakers
  <2>10. SleepsJustly' BY <1>4, <2>3, <2>4, <2>8 DEF SleepsJustly
  <2> QED BY <1>5, <2>4, <2>9, <2>10
<1> QED BY <1>9, <1>10

\* A write leaves nobody asleep who could go on, either.
LEMMA WritePolled ==
    ASSUME TypeOK, Ends, Operations, Wakers, SleepsJustly,
           NEW c \in Child, c \notin asleep, io[c].op = "write",
           1 \in DOMAIN fds[c], fds[c][1].ofd.end = "write",
           NEW q, q = fds[c][1].ofd.of,
           NEW r, r = WritePoll(q, c, io[c].left), r.done => r.count > 0,
           NEW then, ~r.done => then = io[c], Polled(c, q, r, then)
    PROVE  Wakers' /\ SleepsJustly' /\ asleep' \subseteq Child
           /\ fifo' \in [Pipes -> FifoType(Child)]
<1>1. q \in Pipes BY EndsAreOfPipes
<1>2. io[c].left \in Nat /\ io[c].left > 0 BY DEF TypeOK, Operations
<1>3. /\ r.fifo \in FifoType(Child)
      /\ r.fifo.content >= fifo[q].content
      /\ ~r.done => /\ HasReaders(fds, q) /\ Stuck(q, io[c].left)
                    /\ r.fifo.content = fifo[q].content
                    /\ r.fifo.writeWakers = fifo[q].writeWakers \union {c}
                    /\ r.fifo.readWakers = fifo[q].readWakers
                    /\ r.woken = {}
      /\ r.done => /\ ~Stuck(q, io[c].left)
                   /\ r.fifo.writeWakers = fifo[q].writeWakers
                   /\ r.woken = fifo[q].readWakers
  BY <1>1, <1>2, PollWriteIs
<1>4. /\ fifo' = [fifo EXCEPT ![q] = r.fifo]
      /\ io' = [io EXCEPT ![c] = then]
      /\ fds' = fds
  BY DEF Polled
<1>5. fifo' \in [Pipes -> FifoType(Child)] BY <1>1, <1>3, <1>4 DEF TypeOK
<1>6. \A p \in Pipes : fifo'[p] = IF p = q THEN r.fifo ELSE fifo[p]
  BY <1>1, <1>4 DEF TypeOK
<1>7. \A d \in Child : d # c => io'[d] = io[d] BY <1>4 DEF TypeOK
<1>8. ASSUME NEW d \in Child, NEW f \in DOMAIN fds[d], fds[d][f].ofd.end # "own"
      PROVE  fds[d][f].ofd.of \in Pipes
  BY <1>8, EndsAreOfPipes
<1>9. CASE r.done
  <2>1. asleep' = asleep \ fifo[q].readWakers BY <1>3, <1>9, Zenon DEF Polled
  <2>2. /\ ~Stuck(q, io[c].left)
        /\ r.fifo.writeWakers = fifo[q].writeWakers
    BY <1>3, <1>9, Zenon
  <2>3. ASSUME NEW d \in asleep' PROVE d \in asleep /\ d \in Child /\ io'[d] = io[d]
    BY <1>7, <2>1 DEF TypeOK
  <2>4. ASSUME NEW d \in asleep', io[d].op = "read"
        PROVE  /\ fds[d][0].ofd.of \in Pipes
               /\ fds[d][0].ofd.of # q
               /\ 0 \in DOMAIN fds[d] /\ fds[d][0].ofd.end = "read"
               /\ d \in fifo[fds[d][0].ofd.of].readWakers
               /\ fifo[fds[d][0].ofd.of].content = 0
               /\ HasWriters(fds, fds[d][0].ofd.of)
    BY <1>8, <2>1, <2>3, <2>4 DEF Wakers, SleepsJustly
  <2>5. ASSUME NEW d \in asleep', io[d].op # "read"
        PROVE  /\ fds[d][1].ofd.of \in Pipes
               /\ 1 \in DOMAIN fds[d] /\ fds[d][1].ofd.end = "write"
               /\ io[d].op = "write"
               /\ d \in fifo[fds[d][1].ofd.of].writeWakers
    BY <1>8, <2>3, <2>5 DEF Wakers
  \* Who goes on waiting for room has still less of it.
  <2>6. ASSUME NEW d \in asleep', io[d].op # "read", fds[d][1].ofd.of = q
        PROVE  /\ r.fifo.content >= fifo[q].content
               /\ PipeSize - r.fifo.content < io[d].left
               /\ io[d].left <= PipeBuf
    <3>1. /\ PipeSize - fifo[q].content < io[d].left
          /\ PipeSize - fifo[q].content = 0 \/ io[d].left <= PipeBuf
      BY <2>3, <2>6 DEF SleepsJustly
    <3>2. /\ PipeSize \in Nat /\ fifo[q].content \in 0 .. PipeSize
          /\ r.fifo.content \in 0 .. PipeSize /\ io[d].left \in Nat
          /\ r.fifo.content >= fifo[q].content
      <4>1. fifo[q] \in FifoType(Child) /\ io[d].left \in Nat BY <1>1, <2>3 DEF TypeOK
      <4>2. r.fifo \in FifoType(Child) /\ r.fifo.content >= fifo[q].content
        BY <1>3, Zenon
      <4>3. PipeSize \in Nat BY PipeBufAssumption DEF PipeSize
      <4> QED BY <4>1, <4>2, <4>3 DEF FifoType
    <3>3. PipeSize - fifo[q].content # 0 BY <1>2, <2>2, <3>2 DEF Stuck
    <3> QED BY <3>1, <3>2, <3>3
  <2>7. Wakers'
    <3>1. SUFFICES ASSUME NEW d \in asleep'
                   PROVE  \/ /\ io[d].op = "read"
                             /\ 0 \in DOMAIN fds[d] /\ fds[d][0].ofd.end = "read"
                             /\ d \in fifo'[fds[d][0].ofd.of].readWakers
                          \/ /\ io[d].op = "write"
                             /\ 1 \in DOMAIN fds[d] /\ fds[d][1].ofd.end = "write"
                             /\ d \in fifo'[fds[d][1].ofd.of].writeWakers
      BY <1>4, <2>3 DEF Wakers
    <3>2. CASE io[d].op = "read" BY <1>6, <2>4, <3>2
    <3>3. CASE io[d].op # "read" BY <1>6, <2>2, <2>5, <3>3
    <3> QED BY <3>2, <3>3
  <2>8. SleepsJustly'
    <3>1. SUFFICES ASSUME NEW d \in asleep'
                   PROVE  IF io[d].op = "read"
                            THEN LET p == fds[d][0].ofd.of
                                 IN  fifo'[p].content = 0 /\ HasWriters(fds, p)
                            ELSE LET p == fds[d][1].ofd.of
                                     room == PipeSize - fifo'[p].content
                                 IN  HasReaders(fds, p) /\ room < io[d].left /\
                                        (room = 0 \/ io[d].left <= PipeBuf)
      BY <1>4, <2>3 DEF SleepsJustly
    <3>2. CASE io[d].op = "read" BY <1>6, <2>4, <3>2
    <3>3. CASE io[d].op # "read" /\ fds[d][1].ofd.of # q
      BY <1>6, <2>3, <2>5, <3>3 DEF SleepsJustly
    <3>4. CASE io[d].op # "read" /\ fds[d][1].ofd.of = q
      <4>1. HasReaders(fds, q) BY <2>3, <3>4 DEF SleepsJustly
      <4> QED BY <1>1, <1>6, <2>6, <3>4, <4>1
    <3> QED BY <3>2, <3>3, <3>4
  <2> QED BY <1>5, <2>3, <2>7, <2>8
<1>10. CASE ~r.done
  <2>1. asleep' = asleep \union {c} BY <1>3, <1>10, Zenon DEF Polled
  <2>2. /\ HasReaders(fds, q) /\ Stuck(q, io[c].left)
        /\ r.fifo.content = fifo[q].content
        /\ r.fifo.writeWakers = fifo[q].writeWakers \union {c}
        /\ r.fifo.readWakers = fifo[q].readWakers
        /\ then = io[c]
    BY <1>3, <1>10, Zenon
  <2>3. \A d \in Child : io'[d] = io[d] BY <1>4, <2>2 DEF TypeOK
  <2>4. asleep' \subseteq Child BY <2>1 DEF TypeOK
  <2>5. \A p \in Pipes : /\ fifo'[p].content = fifo[p].content
                         /\ fifo[p].readWakers \subseteq fifo'[p].readWakers
                         /\ fifo[p].writeWakers \subseteq fifo'[p].writeWakers
    BY <1>6, <2>2
  <2>6. c \in fifo'[q].writeWakers /\ fifo'[q].content = fifo[q].content BY <1>1, <1>6, <2>2
  <2>7. ASSUME NEW d \in asleep'
        PROVE  \/ /\ io[d].op = "read"
                  /\ 0 \in DOMAIN fds[d] /\ fds[d][0].ofd.end = "read"
                  /\ d \in fifo'[fds[d][0].ofd.of].readWakers
               \/ /\ io[d].op = "write"
                  /\ 1 \in DOMAIN fds[d] /\ fds[d][1].ofd.end = "write"
                  /\ d \in fifo'[fds[d][1].ofd.of].writeWakers
    <3>1. CASE d = c BY <2>6, <3>1
    <3>2. CASE d \in asleep BY <1>8, <2>4, <2>5, <3>2 DEF Wakers
    <3> QED BY <2>1, <3>1, <3>2
  <2>8. ASSUME NEW d \in asleep'
        PROVE  IF io[d].op = "read"
                 THEN LET p == fds[d][0].ofd.of
                      IN  fifo'[p].content = 0 /\ HasWriters(fds, p)
                 ELSE LET p == fds[d][1].ofd.of
                          room == PipeSize - fifo'[p].content
                      IN  HasReaders(fds, p) /\ room < io[d].left /\
                             (room = 0 \/ io[d].left <= PipeBuf)
    <3>1. CASE d = c BY <2>2, <2>6, <3>1 DEF Stuck
    <3>2. CASE d \in asleep BY <1>8, <2>4, <2>5, <3>2 DEF Wakers, SleepsJustly
    <3> QED BY <2>1, <3>1, <3>2
  <2>9. Wakers' BY <1>4, <2>3, <2>4, <2>7 DEF Wakers
  <2>10. SleepsJustly' BY <1>4, <2>3, <2>4, <2>8 DEF SleepsJustly
  <2> QED BY <1>5, <2>4, <2>9, <2>10
<1> QED BY <1>9, <1>10

-----------------------------------------------------------------------------
(***************************************************************************)
(* The steps of the children.                                              *)
(***************************************************************************)

\* An exited child has no descriptors.
LEMMA EmptyIsTable == IsTable(<<>>, Ofd) /\ DOMAIN <<>> = {}
BY DEF IsTable

\* A step of a child concerns its own table, state, operation and status.
LEMMA ChildKeeps ==
    ASSUME IInv, NEW c \in Child, state[c] \in {"connecting", "running"},
           NEW t, IsTable(t, Ofd),
           \A f \in DOMAIN t : t[f].ofd.end # "own" => t[f].ofd.of \in Pipes,
           NEW x \in {"running", "zombie"}, x = "running" => Linked(c, t, fds[0]),
           NEW y \in {None} \union Statuses, x = "zombie" => y \in Statuses,
           NEW z \in [op : {"none", "read", "write", "exit"}, left : Nat],
           z.op # "none" => x = "running",
           z.op \in {"read", "write"} => z.left > 0,
           fds' = [fds EXCEPT ![c] = t],
           state' = [state EXCEPT ![c] = x],
           status' = [status EXCEPT ![c] = y],
           io' = [io EXCEPT ![c] = z],
           UNCHANGED <<kind, shellVars>>,
           fifo' \in [Pipes -> FifoType(Child)], asleep' \subseteq Child,
           Wakers', SleepsJustly'
    PROVE  IInv'
<1>1. /\ UNCHANGED <<kind, pc, next, pipes, pipefail, final>>
      /\ N \in Nat /\ c \in 0 .. N /\ c # 0 /\ 0 \in 0 .. N
  BY PipelineAssumption DEF shellVars, Child
<1>2. fds = [p \in 0 .. N |-> fds[p]] BY DEF IInv, Ends
<1>3. /\ fds' = [p \in 0 .. N |-> fds'[p]]
      /\ fds'[c] = t
      /\ \A p \in 0 .. N : p # c => fds'[p] = fds[p]
      /\ fds'[0] = fds[0]
  BY <1>1, <1>2
<1>4. /\ state' \in [Child -> {"unborn", "connecting", "running", "zombie", "reaped"}]
      /\ state'[c] = x
      /\ \A d \in Child : d # c => state'[d] = state[d]
  BY DEF IInv, TypeOK
<1>5. /\ status' \in [Child -> {None} \union Statuses]
      /\ status'[c] = y
      /\ \A d \in Child : d # c => status'[d] = status[d]
  BY DEF IInv, TypeOK
<1>6. /\ io' \in [Child -> [op : {"none", "read", "write", "exit"}, left : Nat]]
      /\ io'[c] = z
      /\ \A d \in Child : d # c => io'[d] = io[d]
  BY DEF IInv, TypeOK
<1>7. TypeOK'
  <2>1. \A p \in 0 .. N : IsTable(fds'[p], Ofd) BY <1>3 DEF IInv, TypeOK
  <2> QED BY <1>1, <1>4, <1>5, <1>6, <2>1 DEF IInv, TypeOK
<1>8. Progress'
  <2>1. Progress BY DEF IInv
  <2>2. \A d \in Child : pc \in {"shift", "start"} /\ d >= next => state'[d] = "unborn"
    BY <1>4, <2>1 DEF Progress
  <2>3. \A d \in Child : state'[d] = "reaped" <=> pc \in {"wait", "done"} /\ d < next
    BY <1>4, <2>1 DEF Progress
  <2>4. \A d \in Child : state'[d] \in {"zombie", "reaped"} => status'[d] \in Statuses
    BY <1>4, <1>5, <2>1 DEF Progress
  <2> QED BY <1>1, <2>1, <2>2, <2>3, <2>4 DEF Progress
<1>9. Ends'
  <2>1. \A p \in 0 .. N : \A f \in DOMAIN fds'[p] :
           fds'[p][f].ofd.end # "own" => fds'[p][f].ofd.of \in Pipes
    BY <1>3 DEF IInv, Ends
  <2>2. Held0' = Held0 BY <1>1 DEF Held0
  <2>3. ASSUME NEW d \in Child, state'[d] = "connecting"
        PROVE  Placed(fds'[d], PipesOf(d)', d)
    <3>1. d # c /\ state[d] = "connecting" BY <1>4, <2>3
    <3>2. fds'[d] = fds[d] BY <1>3, <3>1, PipelineAssumption DEF Child
    <3>3. PipesOf(d)' = PipesOf(d) BY <3>2 DEF PipesOf
    <3> QED BY <3>1, <3>2, <3>3 DEF IInv, Ends
  <2>4. ASSUME NEW d \in Child, state'[d] = "connecting"
        PROVE  \A f \in DOMAIN fds'[0] : fds'[0][f].ofd = Own(f) =>
                  f \in DOMAIN fds'[d] /\ fds'[d][f].ofd = Own(f)
    <3>1. d # c /\ state[d] = "connecting" BY <1>4, <2>4
    <3>2. fds'[d] = fds[d] BY <1>3, <3>1, PipelineAssumption DEF Child
    <3> QED BY <1>3, <3>1, <3>2 DEF IInv, Ends
  <2>5. pc' # "interrupt" => Placed(fds'[0], pipes', Held0')
    BY <1>1, <1>3, <2>2 DEF IInv, Ends
  <2> QED BY <1>3, <2>1, <2>3, <2>4, <2>5 DEF Ends
<1>10. PipeSetExact' BY <1>1, <1>3 DEF IInv, PipeSetExact
<1>11. Connected'
  <2>1. ASSUME NEW d \in Child, state'[d] = "running"
        PROVE  Linked(d, fds'[d], fds'[0])
    <3>1. CASE d = c BY <1>3, <1>4, <2>1, <3>1
    <3>2. CASE d # c
      <4>1. fds'[d] = fds[d] /\ state[d] = "running"
        BY <1>3, <1>4, <2>1, <3>2, PipelineAssumption DEF Child
      <4> QED BY <1>3, <4>1 DEF IInv, Connected, Running
    <3> QED BY <3>1, <3>2
  <2> QED BY <2>1 DEF Connected, Running, Linked
<1>12. Operations'
  <2>1. ASSUME NEW d \in Child
        PROVE  /\ io'[d].op # "none" => state'[d] = "running"
               /\ io'[d].op \in {"read", "write"} => io'[d].left > 0
    BY <1>4, <1>6 DEF IInv, Operations
  <2> QED BY <2>1 DEF Operations
<1>13. Gathered'
  <2>1. ASSUME NEW d \in Child, pc \in {"wait", "done"}, d < next
        PROVE  status'[d] = status[d]
    <3>1. state[d] = "reaped" BY <2>1 DEF IInv, Progress
    <3> QED BY <1>5, <3>1
  <2>2. CASE pc \notin {"wait", "done"} \/ next = 1
    BY <1>1, <2>2 DEF IInv, Gathered
  <2>3. CASE pc \in {"wait", "done"} /\ next # 1
    <3>1. next \in 1 .. N + 1 BY DEF IInv, TypeOK
    <3>2. next - 1 \in Child /\ next - 1 < next
      BY <2>3, <3>1, PipelineAssumption DEF Child
    <3>3. status'[next - 1] = status[next - 1] BY <2>1, <2>3, <3>2
    <3>4. {d \in Child : d < next /\ status'[d] # 0} = {d \in Child : d < next /\ status[d] # 0}
      BY <2>1, <2>3
    <3>5. \A d \in {e \in Child : e < next /\ status[e] # 0} : status'[d] = status[d]
      BY <2>1, <2>3
    <3> QED BY <1>1, <2>3, <3>3, <3>4, <3>5 DEF IInv, Gathered
  <2> QED BY <2>2, <2>3
<1> QED BY <1>7, <1>8, <1>9, <1>10, <1>11, <1>12, <1>13 DEF IInv

\* A child that goes on where it was.
LEMMA OperationKeeps ==
    ASSUME IInv, NEW c \in Child, state[c] = "running",
           NEW z \in [op : {"none", "read", "write", "exit"}, left : Nat],
           z.op \in {"read", "write"} => z.left > 0,
           io' = [io EXCEPT ![c] = z],
           UNCHANGED <<fds, state, kind, status, shellVars>>,
           fifo' \in [Pipes -> FifoType(Child)], asleep' \subseteq Child,
           Wakers', SleepsJustly'
    PROVE  IInv'
<1>1. PICK t : t = fds[c] OBVIOUS
<1>2. PICK x : x = state[c] OBVIOUS
<1>3. PICK y : y = status[c] OBVIOUS
<1>4. c \in 0 .. N BY PipelineAssumption DEF Child
<1>5. fds' = [fds EXCEPT ![c] = t] BY <1>1, <1>4 DEF IInv, Ends
<1>6. state' = [state EXCEPT ![c] = x] BY <1>2 DEF IInv, TypeOK
<1>7. status' = [status EXCEPT ![c] = y] /\ y \in {None} \union Statuses
  BY <1>3 DEF IInv, TypeOK
<1>8. /\ IsTable(t, Ofd)
      /\ \A f \in DOMAIN t : t[f].ofd.end # "own" => t[f].ofd.of \in Pipes
      /\ Linked(c, t, fds[0])
  BY <1>1, <1>4 DEF IInv, TypeOK, Ends, Connected, Running
<1>9. x = "running" /\ x \in {"running", "zombie"} /\ x # "zombie" BY <1>2
<1>10. UNCHANGED <<kind, shellVars>> OBVIOUS
<1> QED BY <1>5, <1>6, <1>7, <1>8, <1>9, <1>10, ChildKeeps

\* An operation begins or ends without the pipes.
LEMMA NoPollKeeps ==
    ASSUME IInv, NEW c \in Child, state[c] = "running", c \notin asleep,
           NEW z \in [op : {"none", "read", "write", "exit"}, left : Nat],
           z.op \in {"read", "write"} => z.left > 0,
           io' = [io EXCEPT ![c] = z],
           UNCHANGED <<fds, fifo, state, kind, asleep, status, shellVars>>
    PROVE  IInv'
<1>1. \A d \in asleep : io'[d] = io[d] BY DEF IInv, TypeOK
<1>2. Wakers' BY <1>1 DEF IInv, Wakers
<1>3. SleepsJustly' BY <1>1 DEF IInv, SleepsJustly, HasReaders, HasWriters
<1>4. fifo' \in [Pipes -> FifoType(Child)] /\ asleep' \subseteq Child
  BY DEF IInv, TypeOK
<1> QED BY <1>2, <1>3, <1>4, OperationKeeps

\* Exit closes the descriptors of the child.
LEMMA ExitKeeps ==
    ASSUME IInv, NEW c \in Child, state[c] \in {"connecting", "running"},
           NEW e \in Statuses, Exit(c, e)
    PROVE  IInv'
<1>1. PICK t : t = <<>> OBVIOUS
<1>2. IsTable(t, Ofd) /\ DOMAIN t = {} BY <1>1, EmptyIsTable
<1>3. SetTable(c, t) BY <1>1 DEF Exit
<1>4. c \in 0 .. N BY PipelineAssumption DEF Child
<1>5. TypeOK /\ Ends /\ Wakers /\ SleepsJustly BY DEF IInv
<1>6. c \notin asleep' BY <1>1, <1>3, <1>4, <1>5, AfterSetTable
<1>7. asleep' \subseteq asleep BY <1>3, <1>4, <1>5, AfterSetTable
<1>8. \A d \in asleep' : io'[d] = io[d] BY <1>6, <1>7 DEF Exit, IInv, TypeOK
<1>9. /\ Wakers' /\ SleepsJustly' /\ asleep' \subseteq Child
      /\ fifo' \in [Pipes -> FifoType(Child)]
  BY <1>3, <1>4, <1>5, <1>6, <1>8, SleepKept
<1>10. /\ fds' = [fds EXCEPT ![c] = t]
       /\ state' = [state EXCEPT ![c] = "zombie"]
       /\ status' = [status EXCEPT ![c] = e]
       /\ io' = [io EXCEPT ![c] = Idle]
       /\ UNCHANGED <<kind, shellVars>>
  BY <1>1 DEF Exit, SetTable
<1>11. Idle \in [op : {"none", "read", "write", "exit"}, left : Nat] /\ Idle.op = "none"
  BY DEF Idle
<1>12. e \in {None} \union Statuses OBVIOUS
<1>13. \A f \in DOMAIN t : t[f].ofd.end # "own" => t[f].ofd.of \in Pipes BY <1>2
<1> QED BY <1>2, <1>9, <1>10, <1>11, <1>12, <1>13, ChildKeeps

\* The statuses the model uses.
LEMMA SomeStatuses == 0 \in Statuses /\ 1 \in Statuses /\ 2 \in Statuses
BY DEF Statuses

LEMMA ProgramKeeps ==
    ASSUME IInv, NEW c \in Child, Program(c) PROVE IInv'
<1>1. state[c] = "running" /\ io[c].op = "none" BY DEF Program
<1>2. c \notin asleep BY <1>1 DEF IInv, Wakers
<1>3. ASSUME NEW n \in WriteSizes, io' = [io EXCEPT ![c] = [op |-> "write", left |-> n]],
             UNCHANGED <<fds, fifo, state, kind, asleep, status, shellVars>>
      PROVE  IInv'
  <2>1. n \in Nat /\ n > 0 BY PipelineAssumption
  <2>2. PICK z : z = [op |-> "write", left |-> n] OBVIOUS
  <2>3. /\ z \in [op : {"none", "read", "write", "exit"}, left : Nat]
        /\ z.op \in {"read", "write"} => z.left > 0
    BY <2>1, <2>2
  <2>4. io' = [io EXCEPT ![c] = z] BY <1>3, <2>2
  <2> QED BY <1>1, <1>2, <1>3, <2>3, <2>4, NoPollKeeps
<1>4. ASSUME io' = [io EXCEPT ![c] = [op |-> "read", left |-> 1]],
             UNCHANGED <<fds, fifo, state, kind, asleep, status, shellVars>>
      PROVE  IInv'
  <2>1. PICK z : z = [op |-> "read", left |-> 1] OBVIOUS
  <2>2. /\ z \in [op : {"none", "read", "write", "exit"}, left : Nat]
        /\ z.op \in {"read", "write"} => z.left > 0
    BY <2>1
  <2>3. io' = [io EXCEPT ![c] = z] BY <1>4, <2>1
  <2> QED BY <1>1, <1>2, <1>4, <2>2, <2>3, NoPollKeeps
<1>5. ASSUME NEW e \in Statuses, Exit(c, e) PROVE IInv'
  BY <1>1, <1>5, ExitKeeps
<1> QED BY <1>3, <1>4, <1>5 DEF Program

LEMMA ReadKeeps ==
    ASSUME IInv, NEW c \in Child, Read(c) PROVE IInv'
<1>1. state[c] = "running" /\ io[c].op = "read" /\ c \notin asleep BY DEF Read
<1>2. CASE 0 \notin DOMAIN fds[c] \/ fds[c][0].ofd.end # "read"
  <2>1. \E e \in Statuses : Exit(c, e) BY <1>2, SomeStatuses DEF Read
  <2> QED BY <1>1, <2>1, ExitKeeps
<1>3. CASE 0 \in DOMAIN fds[c] /\ fds[c][0].ofd.end = "read"
  <2>1. PICK q : q = fds[c][0].ofd.of OBVIOUS
  <2>2. PICK r : r = ReadPoll(q, c, io[c].left) OBVIOUS
  <2>3. IF ~r.done THEN Polled(c, q, r, io[c])
        ELSE IF r.count > 0 /\ kind[c] = "filter"
          THEN Polled(c, q, r, [op |-> "write", left |-> r.count])
          ELSE Polled(c, q, r, [op |-> "exit", left |-> 0])
    BY <1>3, <2>1, <2>2 DEF Read, ReadPoll
  <2>4. io[c] \in [op : {"none", "read", "write", "exit"}, left : Nat] /\ io[c].left > 0
    BY <1>1 DEF IInv, TypeOK, Operations
  <2>5. TypeOK /\ Ends /\ Operations /\ Wakers /\ SleepsJustly BY DEF IInv
  <2>6. q \in Pipes BY <1>3, <2>1, <2>5, EndsAreOfPipes
  <2>7. r.count \in Nat BY <2>2, <2>4, <2>5, <2>6, PollReadIs
  <2>8. PICK z \in [op : {"none", "read", "write", "exit"}, left : Nat] :
           /\ Polled(c, q, r, z)
           /\ ~r.done => z = io[c]
           /\ z.op \in {"read", "write"} => z.left > 0
    <3>1. PICK u : u = [op |-> "write", left |-> r.count] OBVIOUS
    <3>2. PICK v : v = [op |-> "exit", left |-> 0] OBVIOUS
    <3>3. /\ u \in [op : {"none", "read", "write", "exit"}, left : Nat]
          /\ v \in [op : {"none", "read", "write", "exit"}, left : Nat]
          /\ u.left = r.count /\ v.op \notin {"read", "write"}
      BY <2>7, <3>1, <3>2
    <3>4. CASE ~r.done
      <4>1. Polled(c, q, r, io[c]) BY <2>3, <3>4, Zenon
      <4> QED BY <2>4, <4>1
    <3>5. CASE r.done
      <4>1. (r.count > 0 /\ Polled(c, q, r, u)) \/ Polled(c, q, r, v)
        BY <2>3, <3>1, <3>2, <3>5, Zenon
      <4> QED BY <3>3, <3>5, <4>1, Zenon
    <3> QED BY <3>4, <3>5
  <2>9. /\ Wakers' /\ SleepsJustly' /\ asleep' \subseteq Child
        /\ fifo' \in [Pipes -> FifoType(Child)]
    BY <1>1, <1>3, <2>1, <2>2, <2>5, <2>8, ReadPolled
  <2>10. io' = [io EXCEPT ![c] = z] /\ UNCHANGED <<fds, state, kind, status, shellVars>>
    BY <2>8 DEF Polled
  <2> QED BY <1>1, <2>8, <2>9, <2>10, OperationKeeps
<1> QED BY <1>2, <1>3

LEMMA WriteKeeps ==
    ASSUME IInv, NEW c \in Child, Write(c) PROVE IInv'
<1>1. state[c] = "running" /\ io[c].op = "write" /\ c \notin asleep BY DEF Write
<1>2. CASE 1 \notin DOMAIN fds[c]
  <2>1. Exit(c, 1) BY <1>2 DEF Write
  <2> QED BY <1>1, <2>1, SomeStatuses, ExitKeeps
<1>3. CASE 1 \in DOMAIN fds[c] /\ fds[c][1].ofd.end # "write"
  <2>1. /\ io' = [io EXCEPT ![c] = Idle]
        /\ UNCHANGED <<fds, fifo, state, kind, asleep, status, shellVars>>
    BY <1>3 DEF Write
  <2>2. Idle \in [op : {"none", "read", "write", "exit"}, left : Nat] /\ Idle.op = "none"
    BY DEF Idle
  <2> QED BY <1>1, <2>1, <2>2, NoPollKeeps
<1>4. CASE 1 \in DOMAIN fds[c] /\ fds[c][1].ofd.end = "write"
  <2>1. PICK q : q = fds[c][1].ofd.of OBVIOUS
  <2>2. PICK r : r = WritePoll(q, c, io[c].left) OBVIOUS
  <2>3. IF ~r.done THEN Polled(c, q, r, io[c])
        ELSE IF r.count = 0 THEN Exit(c, 1)
        ELSE Polled(c, q, r, IF r.count = io[c].left THEN Idle
                             ELSE [io[c] EXCEPT !.left = @ - r.count])
    BY <1>4, <2>1, <2>2 DEF Write, WritePoll
  <2>4. io[c] \in [op : {"none", "read", "write", "exit"}, left : Nat] /\ io[c].left > 0
    BY <1>1 DEF IInv, TypeOK, Operations
  <2>5. TypeOK /\ Ends /\ Operations /\ Wakers /\ SleepsJustly BY DEF IInv
  <2>6. q \in Pipes BY <1>4, <2>1, <2>5, EndsAreOfPipes
  <2>7. r.count \in Nat /\ r.count <= io[c].left BY <2>2, <2>4, <2>5, <2>6, PollWriteIs
  <2>8. CASE r.done /\ r.count = 0
    <3>1. Exit(c, 1) BY <2>3, <2>8, Zenon
    <3> QED BY <1>1, <3>1, SomeStatuses, ExitKeeps
  <2>9. CASE ~(r.done /\ r.count = 0)
    <3>1. PICK z \in [op : {"none", "read", "write", "exit"}, left : Nat] :
             /\ Polled(c, q, r, z)
             /\ ~r.done => z = io[c]
             /\ z.op \in {"read", "write"} => z.left > 0
      <4>1. PICK u : u = IF r.count = io[c].left THEN Idle
                         ELSE [io[c] EXCEPT !.left = @ - r.count] OBVIOUS
      <4>2. /\ u \in [op : {"none", "read", "write", "exit"}, left : Nat]
            /\ u.op \in {"read", "write"} => u.left > 0
        <5>1. CASE r.count = io[c].left
          <6>1. u = Idle BY <4>1, <5>1
          <6> QED BY <6>1 DEF Idle
        <5>2. CASE r.count # io[c].left
          <6>1. u = [io[c] EXCEPT !.left = @ - r.count] BY <4>1, <5>2
          <6>2. io[c].left - r.count \in Nat /\ io[c].left - r.count > 0
            BY <2>4, <2>7, <5>2
          <6>3. u = [op |-> io[c].op, left |-> io[c].left - r.count] BY <2>4, <6>1
          <6> QED BY <2>4, <6>2, <6>3
        <5> QED BY <5>1, <5>2
      <4>3. CASE ~r.done
        <5>1. Polled(c, q, r, io[c]) BY <2>3, <4>3, Zenon
        <5> QED BY <2>4, <5>1
      <4>4. CASE r.done
        <5>1. Polled(c, q, r, u) BY <2>3, <2>9, <4>1, <4>4, Zenon
        <5> QED BY <4>2, <4>4, <5>1, Zenon
      <4> QED BY <4>3, <4>4
    <3>2. r.done => r.count > 0
      <4>1. r.count = 0 \/ r.count > 0 BY <2>7
      <4> QED BY <2>9, <4>1, Zenon
    <3>3. /\ Wakers' /\ SleepsJustly' /\ asleep' \subseteq Child
          /\ fifo' \in [Pipes -> FifoType(Child)]
      BY <1>1, <1>4, <2>1, <2>2, <2>5, <3>1, <3>2, WritePolled
    <3>4. io' = [io EXCEPT ![c] = z] /\ UNCHANGED <<fds, state, kind, status, shellVars>>
      BY <3>1 DEF Polled
    <3> QED BY <1>1, <3>1, <3>3, <3>4, OperationKeeps
  <2> QED BY <2>8, <2>9
<1> QED BY <1>2, <1>3, <1>4

LEMMA LeaveKeeps ==
    ASSUME IInv, NEW c \in Child, Leave(c) \/ Killed(c) PROVE IInv'
<1>1. state[c] \in {"connecting", "running"} BY DEF Leave, Killed
<1>2. PICK e \in Statuses : Exit(c, e) BY SomeStatuses DEF Leave, Killed
<1> QED BY <1>1, <1>2, ExitKeeps

-----------------------------------------------------------------------------
(***************************************************************************)
(* A child connects itself to its neighbours.                              *)
(***************************************************************************)

\* A descriptor moves to a target, which loses what it was.
Moved(t, fd, target, x) ==
    /\ DOMAIN x = {target} \union (DOMAIN t \ {fd})
    /\ x[target].ofd = t[fd].ofd
    /\ \A f \in DOMAIN t : f \notin {fd, target} => x[f] = t[f]

LEMMA MoveToIs ==
    ASSUME NEW t, NEW D, IsTable(t, D), NEW fd \in DOMAIN t, NEW target \in Below,
           NEW x, x = MoveTo(t, fd, target)
    PROVE  IsTable(x, D) /\ Moved(t, fd, target, x)
<1>1. fd \in Nat /\ fd # None BY OpenMaxAssumption DEF IsTable, None
<1>2. CASE fd = target
  <2>1. x = t BY <1>2 DEF MoveTo
  <2> QED BY <1>2, <2>1 DEF Moved
<1>3. CASE fd # target
  <2>1. PICK o : o = t[fd].ofd OBVIOUS
  <2>2. PICK u : u = Put(t, target, o) OBVIOUS
  <2>3. Dup2(t, fd, target) = u BY <2>1, <2>2 DEF Dup2, CanDup2, Below, Put
  <2>4. x = CloseFd(u, fd) BY <1>1, <1>3, <2>3 DEF MoveTo
  <2>5. o \in D BY <2>1 DEF IsTable
  <2>6. IsTable(u, D) /\ With(t, target, o, u) BY <2>2, <2>5, SetIsTable
  <2>7. IsTable(x, D) /\ Without(u, fd, x) BY <2>4, <2>6, CloseIsTable
  <2> QED BY <1>3, <2>1, <2>6, <2>7 DEF Moved, With, Without
<1> QED BY <1>2, <1>3

\* A descriptor is duplicated to the smallest one that is not open.
LEMMA DupIs ==
    ASSUME NEW t, NEW D, IsTable(t, D), NEW fd, CanDup(t, fd, 0),
           NEW m, m = MinUnusedFd(t, 0), NEW u, u = Dup(t, fd, 0, FALSE)
    PROVE  m \in Below \ DOMAIN t /\ IsTable(u, D) /\ With(t, m, t[fd].ofd, u)
<1>1. DOMAIN t \subseteq Below BY DEF IsTable, Below
<1>2. m \in Nat /\ m \notin DOMAIN t BY <1>1, UnusedIsFree
<1>3. m \in Below /\ fd \in DOMAIN t
  BY <1>2, OpenMaxAssumption DEF CanDup, CanOpen, Below
<1>4. PICK o : o = t[fd].ofd OBVIOUS
<1>5. u = Put(t, m, o) BY <1>4 DEF Dup, OpenFd, Put
<1>6. o \in D BY <1>3, <1>4 DEF IsTable
<1>7. IsTable(u, D) /\ With(t, m, o, u) BY <1>3, <1>5, <1>6, SetIsTable
<1> QED BY <1>2, <1>3, <1>4, <1>7

\* The descriptors of a table are what k's neighbours need once the reading end
\* of its own pipe is closed.
Ready(t, prev, writer, k) ==
    /\ (prev # None) <=> (k > 1)
    /\ (writer # None) <=> (k \in Pipes)
    /\ prev # None => prev \in DOMAIN t /\ t[prev].ofd = ReadEnd(k - 1)
    /\ writer # None => writer \in DOMAIN t /\ t[writer].ofd = WriteEnd(k)

\* The ends are three different things.
LEMMA EndsDiffer ==
    ASSUME NEW p, NEW q, NEW f
    PROVE  /\ ReadEnd(p) # WriteEnd(q) /\ ReadEnd(p) # Own(f) /\ WriteEnd(p) # Own(f)
           /\ ReadEnd(p) = ReadEnd(q) => p = q
           /\ WriteEnd(p) = WriteEnd(q) => p = q
           /\ Own(f).end = "own" /\ ReadEnd(p).end = "read" /\ WriteEnd(p).end = "write"
           /\ ReadEnd(p).of = p /\ WriteEnd(p).of = p
BY DEF ReadEnd, WriteEnd, Own

\* move_to_stdin_stdout connects the child, wherever the ends of the pipes are
\* among the standard descriptors and whichever of these were closed.
LEMMA ConnectLinks ==
    ASSUME NEW k \in Child, NEW T, IsTable(T, Ofd),
           NEW s \in [prev : Int, reader : Int, writer : Int], Placed(T, s, k),
           NEW t, t = CloseIf(T, s.reader),
           MovesPrevious(s) => CanDup(t, 1, 0),
           NEW u, u = MovePrevious(t, s),
           NEW prev, prev = PreviousAt(t, s),
           NEW w, w = MoveTo(MoveTo(u, s.writer, 1), prev, 0)
    PROVE  /\ IsTable(w, Ofd)
           /\ k > 1 => 0 \in DOMAIN w /\ w[0].ofd = ReadEnd(k - 1)
           /\ k < N => 1 \in DOMAIN w /\ w[1].ofd = WriteEnd(k)
           /\ \A f \in DOMAIN w : ~(f = 0 /\ k > 1) /\ ~(f = 1 /\ k < N) => w[f].ofd = Own(f)
           /\ \A f \in DOMAIN T : T[f].ofd = Own(f) => f \in DOMAIN w
<1>1. k \in Nat /\ k >= 1 /\ k <= N /\ N \in Nat /\ (k \in Pipes <=> k < N)
  BY PipelineAssumption DEF Child, Pipes
<1>2. DOMAIN T \subseteq Below /\ None \notin Below BY OpenMaxAssumption DEF IsTable, Below, None
<1>3. /\ IsTable(t, Ofd)
      /\ DOMAIN t = DOMAIN T \ {s.reader}
      /\ \A f \in DOMAIN t : t[f] = T[f]
  <2>1. CASE s.reader = None BY <1>2, <2>1 DEF CloseIf
  <2>2. CASE s.reader # None
    <3>1. t = CloseFd(T, s.reader) BY <2>2 DEF CloseIf
    <3>2. IsTable(t, Ofd) /\ Without(T, s.reader, t) BY <3>1, CloseIsTable
    <3> QED BY <3>2 DEF Without
  <2> QED BY <2>1, <2>2
<1>4. /\ (s.prev # None) <=> (k > 1)
      /\ (s.writer # None) <=> (k < N)
      /\ s.prev # None => s.prev \in DOMAIN t /\ t[s.prev].ofd = ReadEnd(k - 1)
      /\ s.writer # None => s.writer \in DOMAIN t /\ t[s.writer].ofd = WriteEnd(k)
      /\ \A f \in DOMAIN t : f \notin {s.prev, s.writer} => t[f].ofd = Own(f)
      /\ \A f \in DOMAIN T : T[f].ofd = Own(f) => f \in DOMAIN t /\ t[f].ofd = Own(f)
  <2>1. /\ (s.prev # None) <=> (k > 1)
        /\ (s.reader # None) <=> (k < N)
        /\ (s.writer # None) <=> (k < N)
        /\ s.prev # None => s.prev \in DOMAIN T /\ T[s.prev].ofd = ReadEnd(k - 1)
        /\ s.reader # None => s.reader \in DOMAIN T /\ T[s.reader].ofd = ReadEnd(k)
        /\ s.writer # None => s.writer \in DOMAIN T /\ T[s.writer].ofd = WriteEnd(k)
        /\ \A f \in DOMAIN T : f \notin {s.prev, s.reader, s.writer} => T[f].ofd = Own(f)
    BY <1>1 DEF Placed
  <2>2. s.prev # None => s.prev # s.reader
    <3>1. CASE s.reader = None BY <3>1
    <3>2. CASE s.reader # None
      <4>1. s.prev # None => ReadEnd(k - 1) # ReadEnd(k) BY <1>1 DEF ReadEnd
      <4> QED BY <2>1, <4>1
    <3> QED BY <3>1, <3>2
  <2>3. s.writer # None => s.writer # s.reader
    <3>1. ReadEnd(k) # WriteEnd(k) BY EndsDiffer
    <3> QED BY <2>1, <3>1
  <2>4. ASSUME NEW f \in DOMAIN T, T[f].ofd = Own(f) PROVE f # s.reader
    <3>1. ReadEnd(k) # Own(f) BY EndsDiffer
    <3>2. f # None BY <1>2
    <3> QED BY <2>1, <2>4, <3>1, <3>2
  <2> QED BY <1>3, <2>1, <2>2, <2>3, <2>4
<1>5. s.writer # None => 1 \in Below
  <2>1. ASSUME s.writer # None PROVE OpenMax > 1
    <3>1. /\ s.reader \in Below /\ s.writer \in Below /\ s.reader # s.writer
      BY <1>1, <1>2, <1>4, <2>1, EndsDiffer DEF Placed
    <3> QED BY <3>1, OpenMaxAssumption DEF Below
  <2> QED BY <2>1, OpenMaxAssumption DEF Below
<1>6. s.prev # None => 0 \in Below BY <1>2, <1>3, <1>4, OpenMaxAssumption DEF Below
\* The previous reading end gets out of the way of standard output.
<1>7. /\ IsTable(u, Ofd)
      /\ DOMAIN t \subseteq DOMAIN u
      /\ (prev # None) <=> (k > 1)
      /\ prev # None => prev \in DOMAIN u /\ u[prev].ofd = ReadEnd(k - 1)
      /\ s.writer # None => s.writer \in DOMAIN u /\ u[s.writer].ofd = WriteEnd(k)
      /\ s.writer # None => prev # 1
      /\ \A f \in DOMAIN u : f \notin {prev, s.writer} /\ ~(f = 1 /\ s.writer # None)
             => u[f].ofd = Own(f)
  <2>1. CASE ~MovesPrevious(s)
    <3>1. u = t /\ prev = s.prev BY <2>1 DEF MovePrevious, PreviousAt
    <3>2. s.writer # None => s.prev # 1
      <4>1. s.writer = 1 /\ s.prev = 1 => FALSE BY <1>4, EndsDiffer DEF None
      <4> QED BY <2>1, <4>1 DEF MovesPrevious
    <3> QED BY <1>3, <1>4, <3>1, <3>2
  <2>2. CASE MovesPrevious(s)
    <3>1. u = Dup(t, 1, 0, FALSE) /\ prev = MinUnusedFd(t, 0) /\ s.prev = 1
          /\ s.writer # None /\ s.writer # 1
      BY <2>2 DEF MovePrevious, PreviousAt, MovesPrevious
    <3>2. /\ prev \in Below \ DOMAIN t
          /\ IsTable(u, Ofd) /\ With(t, prev, t[1].ofd, u)
      BY <1>3, <2>2, <3>1, DupIs
    <3>3. s.prev # None /\ prev # None BY <1>2, <3>1, <3>2 DEF None
    <3> QED BY <1>4, <3>1, <3>2, <3>3 DEF With
  <2> QED BY <2>1, <2>2
\* The writing end becomes standard output.
<1>8. PICK v : v = MoveTo(u, s.writer, 1) OBVIOUS
<1>9. /\ IsTable(v, Ofd)
      /\ prev # None => prev \in DOMAIN v /\ v[prev].ofd = ReadEnd(k - 1)
      /\ s.writer # None => 1 \in DOMAIN v /\ v[1].ofd = WriteEnd(k)
      /\ \A f \in DOMAIN v : f # prev /\ ~(f = 1 /\ s.writer # None) => v[f].ofd = Own(f)
      /\ \A f \in DOMAIN t : f # s.writer => f \in DOMAIN v
  <2>1. CASE s.writer = None
    <3>1. v = u BY <1>8, <2>1 DEF MoveTo
    <3>2. None \notin DOMAIN u BY <1>2, <1>7 DEF IsTable, Below
    <3> QED BY <1>7, <2>1, <3>1, <3>2
  <2>2. CASE s.writer # None
    <3>1. s.writer \in DOMAIN u /\ 1 \in Below BY <1>5, <1>7, <2>2
    <3>2. IsTable(v, Ofd) /\ Moved(u, s.writer, 1, v) BY <1>7, <1>8, <3>1, MoveToIs
    <3>3. prev # None => prev # s.writer BY <1>7, <2>2, EndsDiffer
    <3> QED BY <1>7, <2>2, <3>2, <3>3 DEF Moved
  <2> QED BY <2>1, <2>2
\* The previous reading end becomes standard input.
<1>10. w = MoveTo(v, prev, 0) BY <1>8
<1>11. CASE prev = None
  <2>1. w = v BY <1>10, <1>11 DEF MoveTo
  <2>2. None \notin DOMAIN v BY <1>2, <1>9 DEF IsTable, Below
  <2>3. \A f \in DOMAIN T : T[f].ofd = Own(f) => f \in DOMAIN v
    BY <1>2, <1>3, <1>4, <1>9 DEF ReadEnd, WriteEnd, Own
  <2> QED BY <1>4, <1>7, <1>9, <1>11, <2>1, <2>2, <2>3
<1>12. CASE prev # None
  <2>1. prev \in DOMAIN v /\ 0 \in Below BY <1>4, <1>6, <1>7, <1>9, <1>12
  <2>2. IsTable(w, Ofd) /\ Moved(v, prev, 0, w) BY <1>9, <1>10, <2>1, MoveToIs
  <2>3. ASSUME NEW f \in DOMAIN T, T[f].ofd = Own(f) PROVE f \in DOMAIN w
    <3>1. f \in DOMAIN t /\ t[f].ofd = Own(f) BY <1>4, <2>3
    <3>2. f # s.writer BY <1>4, <3>1, EndsDiffer, <1>2, <1>3
    <3>3. f \in DOMAIN v BY <1>9, <3>1, <3>2
    <3>4. f # prev
      <4>1. CASE MovesPrevious(s)
        <5>1. prev = MinUnusedFd(t, 0) BY <4>1 DEF PreviousAt
        <5> QED BY <1>2, <1>3, <3>1, <5>1, UnusedIsFree
      <4>2. CASE ~MovesPrevious(s)
        <5>1. prev = s.prev BY <4>2 DEF PreviousAt
        <5> QED BY <1>4, <1>12, <3>1, <5>1, EndsDiffer
      <4> QED BY <4>1, <4>2
    <3> QED BY <2>2, <3>3, <3>4 DEF Moved
  <2>4. /\ k > 1 /\ 0 \in DOMAIN w /\ w[0].ofd = ReadEnd(k - 1)
    BY <1>7, <1>9, <1>12, <2>2 DEF Moved
  <2>5. k < N => 1 \in DOMAIN w /\ w[1].ofd = WriteEnd(k)
    BY <1>4, <1>7, <1>9, <2>2 DEF Moved
  <2>6. \A f \in DOMAIN w : ~(f = 0 /\ k > 1) /\ ~(f = 1 /\ k < N) => w[f].ofd = Own(f)
    BY <1>4, <1>9, <2>2, <2>4 DEF Moved
  <2> QED BY <2>2, <2>3, <2>4, <2>5, <2>6
<1> QED BY <1>11, <1>12

LEMMA ConnectKeeps ==
    ASSUME IInv, NEW c \in Child, Connect(c) PROVE IInv'
<1>1. state[c] = "connecting" BY DEF Connect
<1>2. /\ TypeOK /\ Ends /\ Operations /\ Wakers /\ SleepsJustly
      /\ c \in 0 .. N /\ N \in Nat
  BY PipelineAssumption DEF IInv, Child
<1>3. io[c].op = "none" /\ c \notin asleep BY <1>1, <1>2 DEF Operations, Wakers
<1>4. io[c] \in [op : {"none", "read", "write", "exit"}, left : Nat] BY <1>2 DEF TypeOK
<1>5. PICK z : z = io[c] OBVIOUS
<1>6. /\ z \in [op : {"none", "read", "write", "exit"}, left : Nat] /\ z.op = "none"
      /\ io' = [io EXCEPT ![c] = z] /\ UNCHANGED <<kind, shellVars>>
      /\ \A d \in asleep : io'[d] = io[d]
  BY <1>2, <1>3, <1>4, <1>5 DEF Connect, TypeOK
<1>7. PICK T : T = fds[c] OBVIOUS
<1>8. PICK s : s = PipesOf(c) OBVIOUS
<1>9. IsTable(T, Ofd) /\ Placed(T, s, c) BY <1>1, <1>2, <1>7, <1>8 DEF TypeOK, Ends
<1>10. s \in [prev : Int, reader : Int, writer : Int]
  <2>1. DOMAIN T \subseteq Int /\ None \in Int
    BY <1>9, OpenMaxAssumption DEF IsTable, None
  <2>2. s = [prev |-> s.prev, reader |-> s.reader, writer |-> s.writer]
    BY <1>8 DEF PipesOf
  <2>3. s.prev \in Int /\ s.reader \in Int /\ s.writer \in Int BY <1>9, <2>1 DEF Placed
  <2> QED BY <2>2, <2>3
<1>11. PICK t : t = CloseIf(T, s.reader) OBVIOUS
<1>12. ASSUME NEW x, SetTable(c, x)
       PROVE  /\ Wakers' /\ SleepsJustly' /\ asleep' \subseteq Child
              /\ fifo' \in [Pipes -> FifoType(Child)]
              /\ fds' = [fds EXCEPT ![c] = x]
  <2>1. asleep' \subseteq asleep BY <1>2, <1>12, AfterSetTable
  <2>2. c \notin asleep' /\ \A d \in asleep' : io'[d] = io[d] BY <1>3, <1>6, <2>1
  <2>3. fds' = [fds EXCEPT ![c] = x] BY <1>12 DEF SetTable
  <2> QED BY <1>2, <1>12, <2>2, <2>3, SleepKept
<1>13. CASE MovesPrevious(s) => CanDup(t, 1, 0)
  <2>1. PICK u : u = MovePrevious(t, s) OBVIOUS
  <2>2. PICK prev : prev = PreviousAt(t, s) OBVIOUS
  <2>3. PICK w : w = MoveTo(MoveTo(u, s.writer, 1), prev, 0) OBVIOUS
  <2>4. /\ SetTable(c, w)
        /\ state' = [state EXCEPT ![c] = "running"]
        /\ status' = status
    BY <1>7, <1>8, <1>11, <1>13, <2>1, <2>2, <2>3 DEF Connect
  <2>5. /\ IsTable(w, Ofd)
        /\ c > 1 => 0 \in DOMAIN w /\ w[0].ofd = ReadEnd(c - 1)
        /\ c < N => 1 \in DOMAIN w /\ w[1].ofd = WriteEnd(c)
        /\ \A f \in DOMAIN w : ~(f = 0 /\ c > 1) /\ ~(f = 1 /\ c < N) => w[f].ofd = Own(f)
        /\ \A f \in DOMAIN T : T[f].ofd = Own(f) => f \in DOMAIN w
    BY <1>9, <1>10, <1>11, <1>13, <2>1, <2>2, <2>3, ConnectLinks
  <2>6. Linked(c, w, fds[0])
    <3>1. \A f \in DOMAIN fds[0] : fds[0][f].ofd = Own(f) =>
             f \in DOMAIN T /\ T[f].ofd = Own(f)
      BY <1>1, <1>2, <1>7 DEF Ends
    <3> QED BY <2>5, <3>1 DEF Linked
  <2>7. ASSUME NEW f \in DOMAIN w, w[f].ofd.end # "own" PROVE w[f].ofd.of \in Pipes
    <3>1. CASE f = 0 /\ c > 1
      <4>1. w[f].ofd.of = c - 1 BY <2>5, <3>1 DEF ReadEnd
      <4> QED BY <1>2, <3>1, <4>1 DEF Pipes
    <3>2. CASE f = 1 /\ c < N
      <4>1. w[f].ofd.of = c BY <2>5, <3>2 DEF WriteEnd
      <4> QED BY <1>2, <3>2, <4>1 DEF Pipes, Child
    <3>3. CASE ~(f = 0 /\ c > 1) /\ ~(f = 1 /\ c < N)
      <4>1. w[f].ofd = Own(f) BY <2>5, <3>3
      <4> QED BY <2>7, <4>1 DEF Own
    <3> QED BY <3>1, <3>2, <3>3
  <2>8. /\ Wakers' /\ SleepsJustly' /\ asleep' \subseteq Child
        /\ fifo' \in [Pipes -> FifoType(Child)]
        /\ fds' = [fds EXCEPT ![c] = w]
    BY <1>12, <2>4
  <2>9. PICK y : y = status[c] OBVIOUS
  <2>10. status' = [status EXCEPT ![c] = y] /\ y \in {None} \union Statuses
    BY <1>2, <2>4, <2>9 DEF TypeOK
  <2>11. state[c] \in {"connecting", "running"} BY <1>1
  <2>12. /\ "running" \in {"running", "zombie"} /\ "running" # "zombie"
         /\ state' = [state EXCEPT ![c] = "running"]
    BY <2>4
  <2> QED BY <1>6, <2>5, <2>6, <2>7, <2>8, <2>10, <2>11, <2>12, ChildKeeps
<1>14. CASE ~(MovesPrevious(s) => CanDup(t, 1, 0))
  <2>1. PICK w : w = <<>> OBVIOUS
  <2>2. /\ SetTable(c, w)
        /\ state' = [state EXCEPT ![c] = "zombie"]
        /\ status' = [status EXCEPT ![c] = 1]
    BY <1>7, <1>8, <1>11, <1>14, <2>1 DEF Connect
  <2>3. IsTable(w, Ofd) /\ DOMAIN w = {} BY <2>1, EmptyIsTable
  <2>4. \A f \in DOMAIN w : w[f].ofd.end # "own" => w[f].ofd.of \in Pipes BY <2>3
  <2>5. /\ Wakers' /\ SleepsJustly' /\ asleep' \subseteq Child
        /\ fifo' \in [Pipes -> FifoType(Child)]
        /\ fds' = [fds EXCEPT ![c] = w]
    BY <1>12, <2>2
  <2>6. state[c] \in {"connecting", "running"} BY <1>1
  <2>7. 1 \in Statuses /\ 1 \in {None} \union Statuses BY SomeStatuses
  <2>8. "zombie" \in {"running", "zombie"} /\ "zombie" # "running" OBVIOUS
  <2> QED BY <1>6, <2>2, <2>3, <2>4, <2>5, <2>6, <2>7, <2>8, ChildKeeps
<1> QED BY <1>13, <1>14

-----------------------------------------------------------------------------
(***************************************************************************)
(* The steps of the shell.                                                 *)
(***************************************************************************)

\* A child finds the ends of its pipes where the shell had them.
LEMMA PlacedAt ==
    ASSUME NEW T, NEW s \in [prev : Int, reader : Int, writer : Int],
           IsTable(T, Ofd), NEW k \in Child, Placed(T, s, k)
    PROVE  /\ At(T, ReadEnd(k - 1)) = s.prev
           /\ At(T, ReadEnd(k)) = s.reader
           /\ At(T, WriteEnd(k)) = s.writer
<1>1. k \in Nat /\ k - 1 \in Nat /\ k - 1 # k BY PipelineAssumption DEF Child
<1>2. None \notin DOMAIN T BY OpenMaxAssumption DEF IsTable, None
<1>3. /\ ReadEnd(k - 1) # ReadEnd(k) /\ ReadEnd(k - 1) # WriteEnd(k)
      /\ ReadEnd(k) # WriteEnd(k)
      /\ \A f : /\ Own(f) # ReadEnd(k - 1) /\ Own(f) # ReadEnd(k) /\ Own(f) # WriteEnd(k)
  BY <1>1 DEF ReadEnd, WriteEnd, Own
<1>4. /\ s.prev # None => s.prev \in DOMAIN T /\ T[s.prev].ofd = ReadEnd(k - 1)
      /\ s.reader # None => s.reader \in DOMAIN T /\ T[s.reader].ofd = ReadEnd(k)
      /\ s.writer # None => s.writer \in DOMAIN T /\ T[s.writer].ofd = WriteEnd(k)
      /\ \A f \in DOMAIN T : f \notin {s.prev, s.reader, s.writer} => T[f].ofd = Own(f)
  BY DEF Placed
<1>5. \A f \in DOMAIN T : T[f].ofd = ReadEnd(k - 1) <=> f = s.prev BY <1>2, <1>3, <1>4
<1>6. \A f \in DOMAIN T : T[f].ofd = ReadEnd(k) <=> f = s.reader BY <1>2, <1>3, <1>4
<1>7. \A f \in DOMAIN T : T[f].ofd = WriteEnd(k) <=> f = s.writer BY <1>2, <1>3, <1>4
<1>8. At(T, ReadEnd(k - 1)) = s.prev BY <1>4, <1>5 DEF At
<1>9. At(T, ReadEnd(k)) = s.reader BY <1>4, <1>6 DEF At
<1>10. At(T, WriteEnd(k)) = s.writer BY <1>4, <1>7 DEF At
<1> QED BY <1>8, <1>9, <1>10

\* A pipe set that says where the ends are says it of all of them.
LEMMA PlacedExact ==
    ASSUME NEW T, NEW s, NEW k, IsTable(T, Ofd), Placed(T, s, k)
    PROVE  {f \in DOMAIN T : T[f].ofd.end # "own"} = {s.prev, s.reader, s.writer} \ {None}
<1>1. None \notin DOMAIN T BY OpenMaxAssumption DEF IsTable, None
<1>2. ASSUME NEW f \in DOMAIN T, T[f].ofd.end # "own"
      PROVE  f \in {s.prev, s.reader, s.writer} /\ f # None
  BY <1>1, <1>2, EndsDiffer DEF Placed
<1>3. ASSUME NEW f \in {s.prev, s.reader, s.writer}, f # None
      PROVE  f \in DOMAIN T /\ T[f].ofd.end # "own"
  BY <1>3, EndsDiffer DEF Placed
<1> QED BY <1>2, <1>3

\* PipeSet::shift closes what the shell needs no more.
LEMMA AfterClosesIs ==
    ASSUME NEW T, IsTable(T, Ofd), NEW s \in [prev : Int, reader : Int, writer : Int],
           NEW k \in Nat, Placed(T, s, k),
           NEW t, t = CloseIf(CloseIf(T, s.prev), s.writer)
    PROVE  /\ IsTable(t, Ofd)
           /\ s.reader # None => s.reader \in DOMAIN t /\ t[s.reader].ofd = ReadEnd(k)
           /\ \A f \in DOMAIN t : f \in DOMAIN T /\ t[f] = T[f]
           /\ \A f \in DOMAIN t : f # s.reader => t[f].ofd = Own(f)
<1>1. None \notin DOMAIN T BY OpenMaxAssumption DEF IsTable, None
<1>2. PICK u : u = CloseIf(T, s.prev) OBVIOUS
<1>3. IsTable(u, Ofd) /\ Without(T, s.prev, u)
  <2>1. CASE s.prev = None
    <3>1. u = T BY <1>2, <2>1 DEF CloseIf
    <3> QED BY <1>1, <2>1, <3>1 DEF Without
  <2>2. CASE s.prev # None
    <3>1. u = CloseFd(T, s.prev) BY <1>2, <2>2 DEF CloseIf
    <3> QED BY <3>1, CloseIsTable
  <2> QED BY <2>1, <2>2
<1>4. IsTable(t, Ofd) /\ Without(u, s.writer, t)
  <2>1. CASE s.writer = None
    <3>1. t = u BY <1>2, <2>1 DEF CloseIf
    <3> QED BY <1>1, <1>3, <2>1, <3>1 DEF Without
  <2>2. CASE s.writer # None
    <3>1. t = CloseFd(u, s.writer) BY <1>2, <2>2 DEF CloseIf
    <3> QED BY <1>3, <3>1, CloseIsTable
  <2> QED BY <2>1, <2>2
<1>5. DOMAIN t = DOMAIN T \ {s.prev, s.writer} /\ \A f \in DOMAIN t : t[f] = T[f]
  BY <1>3, <1>4 DEF Without
<1>6. \A f \in DOMAIN t : f # s.reader => t[f].ofd = Own(f) BY <1>5 DEF Placed
<1>7. s.reader # None => s.reader \in DOMAIN t /\ t[s.reader].ofd = ReadEnd(k)
  <2>1. SUFFICES ASSUME s.reader # None
                 PROVE  s.reader \in DOMAIN t /\ t[s.reader].ofd = ReadEnd(k)
    OBVIOUS
  <2>2. s.reader \in DOMAIN T /\ T[s.reader].ofd = ReadEnd(k) BY <2>1 DEF Placed
  <2>3. s.reader # s.writer
    <3>1. s.writer # None => T[s.writer].ofd = WriteEnd(k) BY DEF Placed
    <3> QED BY <2>1, <2>2, <3>1, EndsDiffer
  <2>4. s.reader # s.prev
    <3>1. s.prev # None => T[s.prev].ofd = ReadEnd(k - 1) BY DEF Placed
    <3>2. ReadEnd(k - 1) # ReadEnd(k) BY DEF ReadEnd
    <3> QED BY <2>1, <2>2, <3>1, <3>2
  <2> QED BY <1>5, <2>2, <2>3, <2>4
<1> QED BY <1>4, <1>5, <1>6, <1>7

\* The children are not the shell.
LEMMA ChildIsNotShell ==
    /\ N \in Nat /\ N >= 2 /\ 0 \in 0 .. N /\ 1 \in Child
    /\ \A c \in Child : c \in 0 .. N /\ c # 0 /\ c \in Nat /\ c >= 1 /\ c <= N
BY PipelineAssumption DEF Child

\* A step that changes the table of the shell and what it knows of the pipes.
LEMMA ShellKeeps ==
    ASSUME IInv, pc \in {"shift", "last_shift"}, NEW t, SetTable(0, t), IsTable(t, Ofd),
           \A f \in DOMAIN t : t[f].ofd.end # "own" => t[f].ofd.of \in Pipes,
           \A f \in DOMAIN t : t[f].ofd = Own(f) =>
              f \in DOMAIN fds[0] /\ fds[0][f].ofd = Own(f),
           pipes' \in [prev : Int, reader : Int, writer : Int],
           pc' \in {"start", "wait", "interrupt"},
           pc' # "interrupt" => Placed(t, pipes', Held0'),
           {f \in DOMAIN t : t[f].ofd.end # "own"}
              = {pipes'.prev, pipes'.reader, pipes'.writer} \ {None},
           next' \in 1 .. N, pc' = "wait" => next' = 1,
           pc' # "wait" => pc = "shift" /\ next' = next,
           pipefail' \in BOOLEAN,
           UNCHANGED <<state, kind, io, status, final>>
    PROVE  IInv'
<1>1. TypeOK /\ Progress /\ Ends /\ Wakers /\ SleepsJustly BY DEF IInv
<1>a. 0 \in 0 .. N BY ChildIsNotShell
<1>2. fds' = [fds EXCEPT ![0] = t] BY DEF SetTable
<1>3. /\ fds' = [p \in 0 .. N |-> fds'[p]]
      /\ fds'[0] = t
      /\ \A p \in 0 .. N : p # 0 => fds'[p] = fds[p]
  BY <1>1, <1>2, <1>a DEF Ends
<1>4. \A c \in Child : fds'[c] = fds[c] /\ c \in 0 .. N BY <1>3, ChildIsNotShell
<1>5. asleep' \subseteq asleep BY <1>1, <1>a, AfterSetTable
<1>6. 0 \notin asleep' BY <1>1, <1>5, ChildIsNotShell DEF TypeOK
<1>7. \A c \in asleep' : io'[c] = io[c] OBVIOUS
<1>8. /\ Wakers' /\ SleepsJustly' /\ asleep' \subseteq Child
      /\ fifo' \in [Pipes -> FifoType(Child)]
  BY <1>1, <1>6, <1>7, <1>a, SleepKept
<1>9. TypeOK'
  <2>1. \A p \in 0 .. N : IsTable(fds'[p], Ofd) BY <1>1, <1>3 DEF TypeOK
  <2>2. next' \in 1 .. N + 1 BY PipelineAssumption
  <2>3. pc' \in {"shift", "start", "last_shift", "wait", "done", "interrupt"} OBVIOUS
  <2> QED BY <1>1, <1>8, <2>1, <2>2, <2>3 DEF TypeOK
<1>10. Progress'
  <2>1. ASSUME NEW c \in Child PROVE state[c] # "reaped" BY <1>1 DEF Progress
  <2>2. ASSUME NEW c \in Child PROVE state'[c] = "reaped" <=> pc' \in {"wait", "done"} /\ c < next'
    <3>1. pc' = "wait" => ~(c < next')
      <4>1. c \in Nat /\ c >= 1 BY ChildIsNotShell
      <4> QED BY <4>1
    <3>2. pc' # "done" /\ state'[c] # "reaped" BY <2>1
    <3> QED BY <3>1, <3>2
  <2>3. ASSUME NEW c \in Child, pc' \in {"shift", "start"}, c >= next'
        PROVE  state'[c] = "unborn"
    BY <1>1, <2>3 DEF Progress
  <2>4. \A c \in Child : state'[c] \in {"zombie", "reaped"} => status'[c] \in Statuses
    BY <1>1 DEF Progress
  <2>5. next' \in Child BY DEF Child
  <2> QED BY <2>2, <2>3, <2>4, <2>5 DEF Progress
<1>11. Ends'
  <2>1. ASSUME NEW p \in 0 .. N, NEW f \in DOMAIN fds'[p], fds'[p][f].ofd.end # "own"
        PROVE  fds'[p][f].ofd.of \in Pipes
    <3>1. CASE p = 0 BY <1>3, <2>1, <3>1
    <3>2. CASE p # 0 BY <1>1, <1>3, <2>1, <3>2 DEF Ends
    <3> QED BY <3>1, <3>2
  <2>2. ASSUME NEW c \in Child, state'[c] = "connecting"
        PROVE  Placed(fds'[c], PipesOf(c)', c)
    <3>1. PipesOf(c)' = PipesOf(c) BY <1>4 DEF PipesOf
    <3> QED BY <1>1, <1>4, <2>2, <3>1 DEF Ends
  <2>3. ASSUME NEW c \in Child, state'[c] = "connecting", NEW f \in DOMAIN fds'[0],
               fds'[0][f].ofd = Own(f)
        PROVE  f \in DOMAIN fds'[c] /\ fds'[c][f].ofd = Own(f)
    <3>1. f \in DOMAIN t /\ t[f].ofd = Own(f) BY <1>3, <2>3
    <3>2. f \in DOMAIN fds[0] /\ fds[0][f].ofd = Own(f) BY <3>1
    <3>3. f \in DOMAIN fds[c] /\ fds[c][f].ofd = Own(f) BY <1>1, <2>3, <3>2 DEF Ends
    <3> QED BY <1>4, <3>3
  <2>4. pc' # "interrupt" => Placed(fds'[0], pipes', Held0') BY <1>3
  <2> QED BY <1>3, <2>1, <2>2, <2>3, <2>4 DEF Ends
<1>12. PipeSetExact' BY <1>3 DEF PipeSetExact
<1>13. Connected'
  <2>1. ASSUME NEW c \in Child, state'[c] = "running" PROVE Linked(c, fds'[c], fds'[0])
    <3>1. Linked(c, fds[c], fds[0]) BY <2>1 DEF IInv, Connected, Running
    <3>2. fds'[c] = fds[c] BY <1>4
    <3>3. \A f \in DOMAIN fds'[0] : fds'[0][f].ofd = Own(f) => f \in DOMAIN fds[c]
      BY <1>3, <3>1 DEF Linked
    <3> QED BY <3>1, <3>2, <3>3 DEF Linked
  <2> QED BY <2>1 DEF Connected, Running, Linked
<1>14. Operations' BY DEF IInv, Operations
<1>15. Gathered'
  <2>1. final = 0 BY DEF IInv, Gathered
  <2> QED BY <2>1 DEF Gathered
<1> QED BY <1>8, <1>9, <1>10, <1>11, <1>12, <1>13, <1>14, <1>15 DEF IInv

\* The shift of PipeSet, with and without another command to come.
LEMMA ShiftIs ==
    ASSUME IInv, pc \in {"shift", "last_shift"}, NEW t, t = AfterCloses
    PROVE  /\ IsTable(t, Ofd)
           /\ pipes.reader \in Int
           /\ pipes.reader # None <=> next - 1 \in Pipes
           /\ pipes.reader # None =>
                 pipes.reader \in DOMAIN t /\ t[pipes.reader].ofd = ReadEnd(next - 1)
           /\ \A f \in DOMAIN t : f \in DOMAIN fds[0] /\ t[f] = fds[0][f]
           /\ \A f \in DOMAIN t : f # pipes.reader => t[f].ofd = Own(f)
<1>1. PICK T : T = fds[0] OBVIOUS
<1>2. PICK s : s = pipes OBVIOUS
<1>3. PICK k : k = next - 1 OBVIOUS
<1>4. k \in Nat
  <2>1. next \in 1 .. N + 1 BY DEF IInv, TypeOK
  <2>2. N \in Nat BY PipelineAssumption
  <2> QED BY <1>3, <2>1, <2>2
<1>5. Placed(T, s, k) BY <1>1, <1>2, <1>3 DEF IInv, Ends, Held0
<1>6. IsTable(T, Ofd) BY <1>1, ChildIsNotShell DEF IInv, TypeOK
<1>7. s \in [prev : Int, reader : Int, writer : Int] BY <1>2 DEF IInv, TypeOK
<1>8. t = CloseIf(CloseIf(T, s.prev), s.writer) BY <1>1, <1>2 DEF AfterCloses
<1>9. /\ IsTable(t, Ofd)
      /\ s.reader # None => s.reader \in DOMAIN t /\ t[s.reader].ofd = ReadEnd(k)
      /\ \A f \in DOMAIN t : f \in DOMAIN T /\ t[f] = T[f]
      /\ \A f \in DOMAIN t : f # s.reader => t[f].ofd = Own(f)
  <2> HIDE <1>1, <1>2, <1>3
  <2> QED BY <1>4, <1>5, <1>6, <1>7, <1>8, AfterClosesIs
<1>10. s.reader # None <=> k \in Pipes BY <1>5 DEF Placed
<1> QED BY <1>1, <1>2, <1>3, <1>7, <1>9, <1>10

LEMMA ShiftsKeeps ==
    ASSUME IInv, ShellShifts PROVE IInv'
<1>1. pc = "shift" /\ next \in Child BY DEF ShellShifts, IInv, Progress
<1>2. /\ next \in Nat /\ next >= 1 /\ next <= N /\ N \in Nat /\ next \in 1 .. N
  BY <1>1, PipelineAssumption DEF Child
<1>3. PICK t : t = AfterCloses OBVIOUS
<1>4. /\ IsTable(t, Ofd)
      /\ pipes.reader \in Int
      /\ pipes.reader # None <=> next - 1 \in Pipes
      /\ pipes.reader # None =>
            pipes.reader \in DOMAIN t /\ t[pipes.reader].ofd = ReadEnd(next - 1)
      /\ \A f \in DOMAIN t : f \in DOMAIN fds[0] /\ t[f] = fds[0][f]
      /\ \A f \in DOMAIN t : f # pipes.reader => t[f].ofd = Own(f)
  BY <1>1, <1>3, ShiftIs
<1>5. next - 1 \in Pipes <=> next > 1 BY <1>2 DEF Pipes
<1>6. \A f \in DOMAIN t : t[f].ofd.end # "own" => f = pipes.reader /\ t[f].ofd.of \in Pipes
  <2>1. SUFFICES ASSUME NEW f \in DOMAIN t, t[f].ofd.end # "own"
                 PROVE  f = pipes.reader /\ t[f].ofd.of \in Pipes
    OBVIOUS
  <2>2. f = pipes.reader BY <1>4, <2>1, EndsDiffer
  <2>3. pipes.reader # None
    BY <1>4, <2>2, OpenMaxAssumption DEF IsTable, None
  <2> QED BY <1>4, <2>2, <2>3, EndsDiffer
<1>7. /\ UNCHANGED <<state, kind, io, status, final>> /\ next' = next
      /\ pipefail' \in BOOLEAN
      /\ pc' = IF ShiftFails(next < N) THEN "interrupt" ELSE "start"
  BY DEF ShellShifts, IInv, TypeOK
<1>8. CASE next < N /\ CanPipe(t)
  <2>1. PICK a : a = PipeReader(t) OBVIOUS
  <2>2. PICK b : b = PipeWriter(t) OBVIOUS
  <2>3. PICK r : r = ReadEnd(next) OBVIOUS
  <2>4. PICK w : w = WriteEnd(next) OBVIOUS
  <2>5. r \in Ofd /\ w \in Ofd BY <1>2, <2>3, <2>4 DEF Ofd, ReadEnd, WriteEnd
  <2>6. PICK x : x = Pipe(t, r, w) OBVIOUS
  <2>7. /\ a \in Below \ DOMAIN t
        /\ b \in Below \ DOMAIN t
        /\ a # b
        /\ IsTable(x, Ofd)
        /\ DOMAIN x = DOMAIN t \union {a, b}
        /\ x[a].ofd = r
        /\ x[b].ofd = w
        /\ \A f \in DOMAIN t : x[f] = t[f]
    BY <1>4, <1>8, <2>1, <2>2, <2>5, <2>6, PipeOpens
  <2>8. /\ SetTable(0, x)
        /\ pipes' = [prev |-> pipes.reader, reader |-> a, writer |-> b]
        /\ pc' = "start"
    BY <1>3, <1>7, <1>8, <2>1, <2>2, <2>3, <2>4, <2>6 DEF ShellShifts, Shift, ShiftFails
  <2>9. a \in Int /\ b \in Int /\ a # None /\ b # None
    BY <2>7, OpenMaxAssumption DEF Below, None
  <2>10. pipes' \in [prev : Int, reader : Int, writer : Int] BY <1>4, <2>8, <2>9
  <2>11. next \in Pipes BY <1>2, <1>8 DEF Pipes
  <2>12. Placed(x, pipes', next)
    <3>1. pipes'.prev = pipes.reader /\ pipes'.reader = a /\ pipes'.writer = b BY <2>8
    <3>2. \A f \in DOMAIN x : f \notin {pipes.reader, a, b} => x[f].ofd = Own(f)
      BY <1>4, <2>7
    <3>3. pipes.reader # None => pipes.reader \in DOMAIN x /\ x[pipes.reader].ofd = ReadEnd(next - 1)
      BY <1>4, <2>7
    <3> QED BY <1>4, <1>5, <2>3, <2>4, <2>7, <2>9, <2>11, <3>1, <3>2, <3>3 DEF Placed
  <2>13. Held0' = next BY <1>7, <2>8 DEF Held0
  <2>14. {f \in DOMAIN x : x[f].ofd.end # "own"}
           = {pipes'.prev, pipes'.reader, pipes'.writer} \ {None}
    BY <2>7, <2>12, PlacedExact
  <2>15. \A f \in DOMAIN x : x[f].ofd.end # "own" => x[f].ofd.of \in Pipes
    <3>1. r.of = next /\ w.of = next BY <2>3, <2>4, EndsDiffer
    <3> QED BY <1>6, <2>7, <2>11, <3>1
  <2>16. \A f \in DOMAIN x : x[f].ofd = Own(f) =>
            f \in DOMAIN fds[0] /\ fds[0][f].ofd = Own(f)
    <3>1. \A f : r # Own(f) /\ w # Own(f) BY <2>3, <2>4, EndsDiffer
    <3> QED BY <1>4, <2>7, <3>1
  <2>17. pc' \in {"start", "wait", "interrupt"} /\ pc' # "wait" BY <2>8
  <2> QED BY <1>1, <1>2, <1>7, <2>7, <2>8, <2>10, <2>12, <2>13, <2>14, <2>15, <2>16, <2>17, ShellKeeps
<1>9. CASE ~(next < N /\ CanPipe(t))
  <2>1. /\ SetTable(0, t)
        /\ pipes' = [NoPipes EXCEPT !.prev = pipes.reader]
    BY <1>3, <1>9 DEF ShellShifts, Shift
  <2>2. pipes' = [prev |-> pipes.reader, reader |-> None, writer |-> None]
    BY <2>1 DEF NoPipes
  <2>3. pipes' \in [prev : Int, reader : Int, writer : Int] BY <1>4, <2>2 DEF None
  <2>4. /\ pipes'.prev = pipes.reader /\ pipes'.reader = None /\ pipes'.writer = None
    BY <2>2
  <2>5. {f \in DOMAIN t : t[f].ofd.end # "own"}
           = {pipes'.prev, pipes'.reader, pipes'.writer} \ {None}
    <3>1. pipes.reader # None => pipes.reader \in DOMAIN t /\ t[pipes.reader].ofd.end # "own"
      BY <1>4, EndsDiffer
    <3>2. None \notin DOMAIN t BY <1>4, OpenMaxAssumption DEF IsTable, None
    <3> QED BY <1>6, <2>4, <3>1, <3>2
  <2>6. pc' \in {"start", "interrupt"} /\ (pc' = "start" => next = N)
    BY <1>2, <1>3, <1>7, <1>9 DEF ShiftFails
  <2>7. pc' # "interrupt" => Placed(t, pipes', Held0')
    <3>1. SUFFICES ASSUME pc' = "start" PROVE Placed(t, pipes', Held0') BY <2>6
    <3>2. Held0' = next /\ next = N BY <1>7, <2>6, <3>1 DEF Held0
    <3>3. next \notin Pipes BY <1>2, <3>2 DEF Pipes
    <3> QED BY <1>4, <1>5, <2>4, <3>2, <3>3 DEF Placed
  <2>8. \A f \in DOMAIN t : t[f].ofd = Own(f) =>
            f \in DOMAIN fds[0] /\ fds[0][f].ofd = Own(f)
    BY <1>4
  <2>9. \A f \in DOMAIN t : t[f].ofd.end # "own" => t[f].ofd.of \in Pipes BY <1>6
  <2>10. pc' \in {"start", "wait", "interrupt"} /\ pc' # "wait" BY <2>6
  <2> QED BY <1>1, <1>2, <1>4, <1>7, <2>1, <2>3, <2>5, <2>7, <2>8, <2>9, <2>10, ShellKeeps
<1> QED BY <1>8, <1>9

LEMMA LastShiftKeeps ==
    ASSUME IInv, ShellLastShift PROVE IInv'
<1>1. pc = "last_shift" /\ next = N + 1 BY DEF ShellLastShift, IInv, Progress
<1>2. N \in Nat /\ N >= 2 BY PipelineAssumption
<1>3. PICK t : t = AfterCloses OBVIOUS
<1>4. /\ IsTable(t, Ofd)
      /\ pipes.reader # None <=> next - 1 \in Pipes
      /\ \A f \in DOMAIN t : f \in DOMAIN fds[0] /\ t[f] = fds[0][f]
      /\ \A f \in DOMAIN t : f # pipes.reader => t[f].ofd = Own(f)
  BY <1>1, <1>3, ShiftIs
<1>5. next - 1 \notin Pipes BY <1>1, <1>2 DEF Pipes
<1>6. \A f \in DOMAIN t : t[f].ofd = Own(f)
  <2>1. None \notin DOMAIN t BY <1>4, OpenMaxAssumption DEF IsTable, None
  <2> QED BY <1>4, <1>5, <2>1
<1>7. /\ SetTable(0, t)
      /\ pipes' = [NoPipes EXCEPT !.prev = pipes.reader]
      /\ pc' = "wait" /\ next' = 1 /\ pipefail' \in BOOLEAN
      /\ UNCHANGED <<state, kind, io, status, final>>
  BY <1>3 DEF ShellLastShift, Shift
<1>8. pipes' = NoPipes BY <1>4, <1>5, <1>7 DEF NoPipes
<1>9. pipes'.prev = None /\ pipes'.reader = None /\ pipes'.writer = None
      /\ pipes' \in [prev : Int, reader : Int, writer : Int]
  BY <1>8 DEF NoPipes, None
<1>10. Placed(t, pipes', Held0')
  <2>1. Held0' = 0 BY <1>7 DEF Held0
  <2>2. 0 \notin Pipes BY DEF Pipes
  <2> QED BY <1>6, <1>9, <2>1, <2>2 DEF Placed
<1>11. {f \in DOMAIN t : t[f].ofd.end # "own"}
         = {pipes'.prev, pipes'.reader, pipes'.writer} \ {None}
  BY <1>6, <1>9, EndsDiffer
<1>12. \A f \in DOMAIN t : t[f].ofd.end # "own" => t[f].ofd.of \in Pipes
  BY <1>6, EndsDiffer
<1>13. \A f \in DOMAIN t : t[f].ofd = Own(f) =>
          f \in DOMAIN fds[0] /\ fds[0][f].ofd = Own(f)
  BY <1>4
<1>14. pc' \in {"start", "wait", "interrupt"} /\ next' \in 1 .. N BY <1>2, <1>7
<1> QED BY <1>1, <1>4, <1>7, <1>9, <1>10, <1>11, <1>12, <1>13, <1>14, ShellKeeps

LEMMA CannotStartKeeps ==
    ASSUME IInv, ShellCannotStart PROVE IInv'
<1>1. /\ pc = "start" /\ pc' = "interrupt"
      /\ UNCHANGED <<next, pipes, pipefail, fds, fifo, state, kind, io, asleep, status, final>>
  BY DEF ShellCannotStart
<1>2. TypeOK' BY <1>1 DEF IInv, TypeOK
<1>3. Progress' BY <1>1 DEF IInv, Progress
<1>4. Ends'
  <2>1. \A c \in Child : PipesOf(c)' = PipesOf(c) BY <1>1 DEF PipesOf
  <2> QED BY <1>1, <2>1 DEF IInv, Ends
<1>5. PipeSetExact' BY <1>1 DEF IInv, PipeSetExact
<1>6. Connected' BY <1>1 DEF IInv, Connected, Running, Linked
<1>7. Operations' BY <1>1 DEF IInv, Operations
<1>8. Wakers' BY <1>1 DEF IInv, Wakers
<1>9. SleepsJustly' BY <1>1 DEF IInv, SleepsJustly, HasReaders, HasWriters
<1>10. Gathered' BY <1>1 DEF IInv, Gathered
<1> QED BY <1>2, <1>3, <1>4, <1>5, <1>6, <1>7, <1>8, <1>9, <1>10 DEF IInv

LEMMA StartsKeeps ==
    ASSUME IInv, ShellStarts PROVE IInv'
<1>1. PICK c \in Child : c = next /\ state[c] = "unborn"
  BY ChildIsNotShell DEF ShellStarts, IInv, Progress
<1>2. PICK t : t = fds[0] OBVIOUS
<1>3. /\ pc = "start" /\ SetTable(c, t)
      /\ state' = [state EXCEPT ![c] = "connecting"]
      /\ next' = c + 1
      /\ pc' = IF c < N THEN "shift" ELSE "last_shift"
      /\ UNCHANGED <<pipes, pipefail, kind, io, status, final>>
  BY <1>1, <1>2 DEF ShellStarts
<1>4. /\ TypeOK /\ Progress /\ Ends /\ Operations /\ Wakers /\ SleepsJustly
      /\ Connected /\ PipeSetExact
  BY DEF IInv
<1>5. /\ c \in 0 .. N /\ c # 0 /\ c \in Nat /\ c >= 1 /\ c <= N
      /\ N \in Nat /\ 0 \in 0 .. N
  BY ChildIsNotShell
<1>6. fds' = [fds EXCEPT ![c] = t] BY <1>3 DEF SetTable
<1>7. /\ fds' = [p \in 0 .. N |-> fds'[p]]
      /\ fds'[c] = t
      /\ \A p \in 0 .. N : p # c => fds'[p] = fds[p]
      /\ fds'[0] = t
  BY <1>2, <1>4, <1>5, <1>6 DEF Ends
<1>8. /\ state' \in [Child -> {"unborn", "connecting", "running", "zombie", "reaped"}]
      /\ state'[c] = "connecting"
      /\ \A d \in Child : d # c => state'[d] = state[d]
  BY <1>3, <1>4 DEF TypeOK
<1>9. \A d \in Child : d # c => fds'[d] = fds[d] BY <1>7, ChildIsNotShell
<1>10. c \notin asleep BY <1>1, <1>4 DEF Operations, Wakers
<1>11. asleep' \subseteq asleep BY <1>3, <1>4, <1>5, AfterSetTable
<1>12. c \notin asleep' /\ \A d \in asleep' : io'[d] = io[d] BY <1>3, <1>10, <1>11
<1>13. /\ Wakers' /\ SleepsJustly' /\ asleep' \subseteq Child
       /\ fifo' \in [Pipes -> FifoType(Child)]
  BY <1>3, <1>4, <1>5, <1>12, SleepKept
<1>14. IsTable(t, Ofd) BY <1>2, <1>4, <1>5 DEF TypeOK
<1>15. Placed(t, pipes, c)
  <2>1. Held0 = c BY <1>1, <1>3 DEF Held0
  <2> QED BY <1>2, <1>3, <1>4, <2>1 DEF Ends
<1>16. TypeOK'
  <2>1. \A p \in 0 .. N : IsTable(fds'[p], Ofd) BY <1>4, <1>7, <1>14 DEF TypeOK
  <2>2. next' \in 1 .. N + 1 BY <1>3, <1>5
  <2>3. pc' \in {"shift", "start", "last_shift", "wait", "done", "interrupt"} BY <1>3
  <2> QED BY <1>3, <1>4, <1>8, <1>13, <2>1, <2>2, <2>3 DEF TypeOK
<1>17. Progress'
  <2>1. pc' = "shift" => next' \in Child BY <1>3, <1>5 DEF Child
  <2>2. pc' = "last_shift" => next' = N + 1 BY <1>3, <1>5
  <2>3. ASSUME NEW d \in Child, d >= next' PROVE state'[d] = "unborn"
    <3>1. d \in Nat /\ d # c /\ d >= c BY <1>3, <1>5, <2>3, ChildIsNotShell
    <3>2. state[d] = "unborn" BY <1>1, <1>3, <1>4, <3>1 DEF Progress
    <3> QED BY <1>8, <3>1, <3>2
  <2>4. ASSUME NEW d \in Child PROVE state'[d] # "reaped"
    <3>1. state[d] # "reaped" BY <1>3, <1>4 DEF Progress
    <3> QED BY <1>8, <3>1
  <2>5. ASSUME NEW d \in Child, state'[d] \in {"zombie", "reaped"}
        PROVE  status'[d] \in Statuses
    BY <1>3, <1>4, <1>8, <2>5 DEF Progress
  <2>6. pc' \in {"shift", "last_shift"} BY <1>3
  <2> QED BY <2>1, <2>2, <2>3, <2>4, <2>5, <2>6 DEF Progress
<1>18. Ends'
  <2>1. ASSUME NEW p \in 0 .. N, NEW f \in DOMAIN fds'[p], fds'[p][f].ofd.end # "own"
        PROVE  fds'[p][f].ofd.of \in Pipes
    <3>1. CASE p = c BY <1>2, <1>4, <1>5, <1>7, <2>1, <3>1 DEF Ends
    <3>2. CASE p # c BY <1>4, <1>7, <2>1, <3>2 DEF Ends
    <3> QED BY <3>1, <3>2
  <2>2. Held0' = c
    <3>1. pc' \in {"shift", "last_shift"} /\ next' - 1 = c BY <1>3, <1>5
    <3> QED BY <3>1 DEF Held0
  <2>3. ASSUME NEW d \in Child, state'[d] = "connecting"
        PROVE  Placed(fds'[d], PipesOf(d)', d)
    <3>1. CASE d = c
      <4>1. pipes \in [prev : Int, reader : Int, writer : Int] BY <1>4 DEF TypeOK
      <4>2. /\ At(t, ReadEnd(c - 1)) = pipes.prev
            /\ At(t, ReadEnd(c)) = pipes.reader
            /\ At(t, WriteEnd(c)) = pipes.writer
        BY <1>14, <1>15, <4>1, PlacedAt
      <4>3. PipesOf(d)' = [prev |-> pipes.prev, reader |-> pipes.reader, writer |-> pipes.writer]
        BY <1>7, <3>1, <4>2 DEF PipesOf
      <4>4. PipesOf(d)' = pipes BY <4>1, <4>3
      <4> QED BY <1>7, <1>15, <3>1, <4>4
    <3>2. CASE d # c
      <4>1. PipesOf(d)' = PipesOf(d) BY <1>9, <3>2 DEF PipesOf
      <4> QED BY <1>4, <1>8, <1>9, <2>3, <3>2, <4>1 DEF Ends
    <3> QED BY <3>1, <3>2
  <2>4. ASSUME NEW d \in Child, state'[d] = "connecting", NEW f \in DOMAIN fds'[0],
               fds'[0][f].ofd = Own(f)
        PROVE  f \in DOMAIN fds'[d] /\ fds'[d][f].ofd = Own(f)
    <3>1. f \in DOMAIN fds[0] /\ fds[0][f].ofd = Own(f) BY <1>2, <1>7, <2>4
    <3>2. CASE d = c BY <1>2, <1>7, <3>1, <3>2
    <3>3. CASE d # c
      <4>1. state[d] = "connecting" /\ fds'[d] = fds[d] BY <1>8, <1>9, <2>4, <3>3
      <4> QED BY <1>4, <3>1, <4>1 DEF Ends
    <3> QED BY <3>2, <3>3
  <2>5. Placed(fds'[0], pipes', Held0') BY <1>3, <1>7, <1>15, <2>2
  <2> QED BY <1>7, <2>1, <2>3, <2>4, <2>5 DEF Ends
<1>19. PipeSetExact' BY <1>2, <1>3, <1>4, <1>7 DEF PipeSetExact
<1>20. Connected'
  <2>1. ASSUME NEW d \in Child, state'[d] = "running" PROVE Linked(d, fds'[d], fds'[0])
    <3>1. d # c /\ state[d] = "running" BY <1>8, <2>1
    <3>2. fds'[d] = fds[d] /\ fds'[0] = fds[0] BY <1>2, <1>7, <1>9, <3>1
    <3> QED BY <1>4, <3>1, <3>2 DEF Connected, Running
  <2> QED BY <2>1 DEF Connected, Running, Linked
<1>21. Operations'
  <2>1. ASSUME NEW d \in Child
        PROVE  /\ io[d].op # "none" => state'[d] = "running"
               /\ io[d].op \in {"read", "write"} => io[d].left > 0
    BY <1>1, <1>4, <1>8 DEF Operations
  <2> QED BY <1>3, <2>1 DEF Operations
<1>22. Gathered'
  <2>1. final = 0 BY <1>3 DEF IInv, Gathered
  <2>2. pc' \notin {"wait", "done"} BY <1>3
  <2> QED BY <1>3, <2>1, <2>2 DEF Gathered
<1> QED BY <1>13, <1>16, <1>17, <1>18, <1>19, <1>20, <1>21, <1>22 DEF IInv

LEMMA WaitsKeeps ==
    ASSUME IInv, ShellWaits PROVE IInv'
<1>1. PICK c \in Child : c = next /\ state[c] = "zombie"
  BY DEF ShellWaits, IInv, Progress
<1>2. /\ pc = "wait"
      /\ state' = [state EXCEPT ![c] = "reaped"]
      /\ final' = Collected(final, status[c])
      /\ next' = c + 1
      /\ pc' = IF c < N THEN "wait" ELSE "done"
      /\ UNCHANGED <<pipes, pipefail, fds, fifo, kind, io, asleep, status>>
  BY <1>1 DEF ShellWaits
<1>3. /\ TypeOK /\ Progress /\ Ends /\ Operations /\ Wakers /\ SleepsJustly
      /\ Connected /\ PipeSetExact
  BY DEF IInv
<1>4. /\ c \in Nat /\ c >= 1 /\ c <= N /\ N \in Nat BY ChildIsNotShell
<1>5. /\ state' \in [Child -> {"unborn", "connecting", "running", "zombie", "reaped"}]
      /\ state'[c] = "reaped"
      /\ \A d \in Child : d # c => state'[d] = state[d]
  BY <1>2, <1>3 DEF TypeOK
<1>6. status[c] \in Statuses BY <1>1, <1>3 DEF Progress
<1>7. final' \in Statuses BY <1>2, <1>3, <1>6 DEF TypeOK, Collected
<1>8. TypeOK'
  <2>1. next' \in 1 .. N + 1 BY <1>2, <1>4
  <2>2. pc' \in {"shift", "start", "last_shift", "wait", "done", "interrupt"} BY <1>2
  <2> QED BY <1>2, <1>3, <1>5, <1>7, <2>1, <2>2 DEF TypeOK
<1>9. Progress'
  <2>1. pc' = "wait" => next' \in Child BY <1>2, <1>4 DEF Child
  <2>2. pc' = "done" => next' = N + 1 BY <1>2, <1>4
  <2>3. ASSUME NEW d \in Child PROVE state'[d] = "reaped" <=> d < next'
    <3>1. CASE d = c BY <1>2, <1>4, <1>5, <3>1
    <3>2. CASE d # c
      <4>1. state'[d] = "reaped" <=> d < c BY <1>1, <1>2, <1>3, <1>5, <3>2 DEF Progress
      <4>2. d \in Nat BY ChildIsNotShell
      <4> QED BY <1>2, <1>4, <3>2, <4>1, <4>2
    <3> QED BY <3>1, <3>2
  <2>4. ASSUME NEW d \in Child, state'[d] \in {"zombie", "reaped"}
        PROVE  status'[d] \in Statuses
    BY <1>2, <1>3, <1>5, <1>6, <2>4 DEF Progress
  <2>5. pc' \in {"wait", "done"} BY <1>2
  <2> QED BY <2>1, <2>2, <2>3, <2>4, <2>5 DEF Progress
<1>10. Ends'
  <2>1. Held0 = 0 /\ Held0' = 0 BY <1>2 DEF Held0
  <2>2. \A d \in Child : PipesOf(d)' = PipesOf(d) BY <1>2 DEF PipesOf
  <2>3. \A d \in Child : state'[d] = "connecting" => state[d] = "connecting" BY <1>5
  <2>4. pc # "interrupt" BY <1>2
  <2> QED BY <1>2, <1>3, <2>1, <2>2, <2>3, <2>4 DEF Ends
<1>11. PipeSetExact' BY <1>2, <1>3 DEF PipeSetExact
<1>12. Connected'
  <2>1. \A d \in Child : state'[d] = "running" => state[d] = "running" BY <1>5
  <2> QED BY <1>2, <1>3, <2>1 DEF Connected, Running, Linked
<1>13. Operations'
  <2>1. ASSUME NEW d \in Child
        PROVE  /\ io[d].op # "none" => state'[d] = "running"
               /\ io[d].op \in {"read", "write"} => io[d].left > 0
    BY <1>1, <1>3, <1>5 DEF Operations
  <2> QED BY <1>2, <2>1 DEF Operations
<1>14. Wakers' BY <1>2, <1>3 DEF Wakers
<1>15. SleepsJustly' BY <1>2, <1>3 DEF SleepsJustly, HasReaders, HasWriters
\* The status of the child is the last failure unless it is a success.
<1>16. Gathered'
  <2>1. next' - 1 = c /\ next' # 1 /\ pc' \in {"wait", "done"} BY <1>2, <1>4
  <2>2. CASE ~pipefail
    <3>1. final' = status[c] BY <1>2, <2>2 DEF Collected
    <3> QED BY <1>2, <2>1, <2>2, <3>1 DEF Gathered
  <2>3. CASE pipefail
    <3>1. PICK F : F = {d \in Child : d < c /\ status[d] # 0} OBVIOUS
    <3>2. {d \in Child : d < next' /\ status'[d] # 0}
            = F \union (IF status[c] # 0 THEN {c} ELSE {})
      <4>1. ASSUME NEW d \in Child PROVE d < next' <=> d < c \/ d = c
        BY <1>2, <1>4, ChildIsNotShell
      <4> QED BY <1>2, <3>1, <4>1
    <3>3. CASE status[c] # 0
      <4>1. final' = status[c] BY <1>2, <3>3 DEF Collected
      <4>2. \A d \in F \union {c} : d <= c BY <1>4, <3>1, ChildIsNotShell
      <4> QED BY <1>2, <2>1, <2>3, <3>2, <3>3, <4>1, <4>2 DEF Gathered
    <3>4. CASE status[c] = 0
      <4>1. final' = final BY <1>2, <2>3, <3>4 DEF Collected
      <4>2. CASE c = 1
        <5>1. final = 0 BY <1>1, <4>2 DEF IInv, Gathered
        <5>2. \A d \in Child : ~(d < c) BY <4>2, ChildIsNotShell
        <5>3. F = {} BY <3>1, <5>2
        <5> QED BY <1>2, <2>1, <2>3, <3>2, <3>4, <4>1, <5>1, <5>3 DEF Gathered
      <4>3. CASE c # 1
        <5>1. IF F = {} THEN final = 0
              ELSE \E d \in F : final = status[d] /\ \A e \in F : e <= d
          BY <1>1, <1>2, <2>3, <3>1, <4>3 DEF IInv, Gathered
        <5> QED BY <1>2, <2>1, <2>3, <3>2, <3>4, <4>1, <5>1 DEF Gathered
      <4> QED BY <4>2, <4>3
    <3> QED BY <3>3, <3>4
  <2> QED BY <1>3, <2>2, <2>3 DEF TypeOK
<1> QED BY <1>8, <1>9, <1>10, <1>11, <1>12, <1>13, <1>14, <1>15, <1>16 DEF IInv

-----------------------------------------------------------------------------
(***************************************************************************)
(* The theorems.                                                           *)
(***************************************************************************)

LEMMA InitIsFine == Init => IInv
<1>1. SUFFICES ASSUME Init PROVE IInv OBVIOUS
<1>2. PICK D \in StartFds : fds = [p \in 0 .. N |->
                    IF p = 0 THEN [f \in D |-> Body(Own(f), FALSE)] ELSE <<>>]
  BY <1>1 DEF Init
<1>3. N \in Nat /\ N >= 2 /\ 0 \in 0 .. N /\ 1 \in Child BY ChildIsNotShell
<1>4. PICK t : t = [f \in D |-> Body(Own(f), FALSE)] OBVIOUS
<1>5. IsTable(t, Ofd) /\ \A f \in DOMAIN t : t[f].ofd = Own(f)
  <2>1. D \subseteq Below BY PipelineAssumption DEF Below
  <2>2. \A f \in D : f \in Nat BY <2>1, OpenMaxAssumption DEF Below
  <2>3. \A f \in D : Own(f) \in Ofd BY <2>2 DEF Own, Ofd
  <2> QED BY <1>4, <2>1, <2>3 DEF IsTable, Body, Below
<1>6. fds = [p \in 0 .. N |-> fds[p]] /\ fds[0] = t /\ \A p \in 0 .. N : p # 0 => fds[p] = <<>>
  BY <1>2, <1>3, <1>4
<1>7. TypeOK
  <2>1. \A p \in 0 .. N : IsTable(fds[p], Ofd) BY <1>5, <1>6, EmptyIsTable
  <2>2. NewFifo \in FifoType(Child)
    <3>1. PipeSize \in Nat BY PipeBufAssumption DEF PipeSize
    <3> QED BY <3>1 DEF NewFifo, FifoType
  <2>3. fifo \in [Pipes -> FifoType(Child)] BY <1>1, <2>2 DEF Init
  <2>4. pipes \in [prev : Int, reader : Int, writer : Int]
    BY <1>1 DEF Init, NoPipes, None
  <2>5. /\ pc = "shift" /\ next = 1 /\ pipefail = FALSE /\ asleep = {} /\ final = 0
        /\ kind \in [Child -> Kinds]
        /\ state = [c \in Child |-> "unborn"]
    BY <1>1 DEF Init
  <2>6. io \in [Child -> [op : {"none", "read", "write", "exit"}, left : Nat]]
    BY <1>1 DEF Init, Idle
  <2>7. status \in [Child -> {None} \union Statuses] BY <1>1 DEF Init
  <2>8. next \in 1 .. N + 1 BY <1>3, <2>5
  <2> QED BY <2>1, <2>3, <2>4, <2>5, <2>6, <2>7, <2>8, SomeStatuses DEF TypeOK
<1>8. Progress BY <1>1, <1>3 DEF Init, Progress
<1>9. Ends
  <2>1. \A p \in 0 .. N : \A f \in DOMAIN fds[p] :
           fds[p][f].ofd.end # "own" => fds[p][f].ofd.of \in Pipes
    <3>1. \A f \in DOMAIN t : t[f].ofd.end = "own" BY <1>5, EndsDiffer
    <3> QED BY <1>6, <3>1, EmptyIsTable
  <2>2. Held0 = 0 BY <1>1 DEF Init, Held0
  <2>3. pipes.prev = None /\ pipes.reader = None /\ pipes.writer = None
    BY <1>1 DEF Init, NoPipes
  <2>4. 0 \notin Pipes BY DEF Pipes
  <2>5. Placed(fds[0], pipes, Held0)
    <3>1. Placed(t, pipes, 0)
      <4>1. \A f \in DOMAIN t : t[f].ofd = Own(f) BY <1>5
      <4> QED BY <2>3, <2>4, <4>1 DEF Placed
    <3> QED BY <1>6, <2>2, <3>1
  <2>6. \A c \in Child : state[c] # "connecting" BY <1>1 DEF Init
  <2> QED BY <1>6, <2>1, <2>5, <2>6 DEF Ends
<1>10. PipeSetExact
  <2>1. pipes.prev = None /\ pipes.reader = None /\ pipes.writer = None
    BY <1>1 DEF Init, NoPipes
  <2>2. \A f \in DOMAIN t : t[f].ofd.end = "own" BY <1>5, EndsDiffer
  <2> QED BY <1>6, <2>1, <2>2 DEF PipeSetExact
<1>11. Connected BY <1>1 DEF Init, Connected, Running
<1>12. Operations BY <1>1 DEF Init, Operations, Idle
<1>13. Wakers /\ SleepsJustly BY <1>1 DEF Init, Wakers, SleepsJustly
<1>14. Gathered BY <1>1 DEF Init, Gathered
<1> QED BY <1>7, <1>8, <1>9, <1>10, <1>11, <1>12, <1>13, <1>14 DEF IInv

LEMMA NextKeeps == IInv /\ [Next]_vars => IInv'
<1>1. SUFFICES ASSUME IInv, [Next]_vars PROVE IInv' OBVIOUS
<1>2. CASE ShellShifts BY <1>1, <1>2, ShiftsKeeps
<1>3. CASE ShellStarts BY <1>1, <1>3, StartsKeeps
<1>4. CASE ShellCannotStart BY <1>1, <1>4, CannotStartKeeps
<1>5. CASE ShellLastShift BY <1>1, <1>5, LastShiftKeeps
<1>6. CASE ShellWaits BY <1>1, <1>6, WaitsKeeps
<1>7. ASSUME NEW c \in Child, Run(c) \/ Killed(c) PROVE IInv'
  BY <1>1, <1>7, ConnectKeeps, ProgramKeeps, ReadKeeps, WriteKeeps, LeaveKeeps DEF Run
<1>8. CASE UNCHANGED vars
  <2>1. UNCHANGED vars BY <1>8
  <2>2. TypeOK' /\ Progress' BY <1>1, <2>1 DEF vars, IInv, TypeOK, Progress
  <2>3. Ends'
    <3>1. \A c \in Child : PipesOf(c)' = PipesOf(c) BY <2>1 DEF vars, PipesOf
    <3>2. Held0' = Held0 BY <2>1 DEF vars, Held0
    <3> QED BY <1>1, <2>1, <3>1, <3>2 DEF vars, IInv, Ends
  <2>4. PipeSetExact' BY <1>1, <2>1 DEF vars, IInv, PipeSetExact
  <2>5. Connected' BY <1>1, <2>1 DEF vars, IInv, Connected, Running, Linked
  <2>6. Operations' /\ Wakers' BY <1>1, <2>1 DEF vars, IInv, Operations, Wakers
  <2>7. SleepsJustly'
    BY <1>1, <2>1 DEF vars, IInv, SleepsJustly, HasReaders, HasWriters
  <2>8. Gathered' BY <1>1, <2>1 DEF vars, IInv, Gathered
  <2> QED BY <2>2, <2>3, <2>4, <2>5, <2>6, <2>7, <2>8 DEF IInv
<1> QED BY <1>1, <1>2, <1>3, <1>4, <1>5, <1>6, <1>7, <1>8 DEF Next, Shell

\* The inductive invariant holds, for any number of commands, any capacity of
\* the pipes and any set of descriptors open at the start.
THEOREM Invariant == Spec => []IInv
BY InitIsFine, NextKeeps, PTL DEF Spec

\* move_to_stdin_stdout: when a command runs, its standard input and output are
\* the pipes to its neighbours, it holds no other end of a pipe, and it has all
\* the other descriptors of the shell.
THEOREM CommandsConnected == Spec => []Connected
<1>1. IInv => Connected BY DEF IInv
<1> QED BY <1>1, Invariant, PTL

\* poll_read and poll_write, close and exit: whoever sleeps on a pipe waits for
\* something that has not happened, and its waker is in the pipe.
THEOREM NobodySleepsTooLong == Spec => [](SleepsJustly /\ Wakers)
<1>1. IInv => SleepsJustly /\ Wakers BY DEF IInv
<1> QED BY <1>1, Invariant, PTL

\* PipeSet: the shell holds the pipe ends its pipe set names and no other, so
\* that none is left when all commands have been started.
THEOREM ShellHoldsWhatItKnows == Spec => []PipeSetExact
<1>1. IInv => PipeSetExact BY DEF IInv
<1> QED BY <1>1, Invariant, PTL

\* execute_multi_command_pipeline: the exit status of the pipeline is that of
\* its last command or, with pipefail, of the last one that failed.
THEOREM StatusOfPipeline == Spec => []StatusRight
<1>1. IInv => StatusRight
  <2>1. SUFFICES ASSUME IInv, pc = "done" PROVE StatusRight BY DEF StatusRight
  <2>2. next = N + 1 /\ N \in Nat /\ N >= 2
    BY <2>1, PipelineAssumption DEF IInv, Progress
  <2>3. PICK F : F = {c \in Child : status[c] # 0} OBVIOUS
  <2>4. {c \in Child : c < next /\ status[c] # 0} = F
    BY <2>2, <2>3, ChildIsNotShell DEF Child
  <2>5. IF ~pipefail THEN final = status[N]
        ELSE IF F = {} THEN final = 0
        ELSE \E c \in F : final = status[c] /\ \A d \in F : d <= c
    <3>1. next - 1 = N /\ next # 1 BY <2>2
    <3> QED BY <2>1, <2>4, <3>1 DEF IInv, Gathered
  <2>6. ASSUME NEW c \in F, \A d \in F : d <= c PROVE Max(F) = c
    <3>1. F \subseteq Nat BY <2>3, ChildIsNotShell
    <3>2. PICK m : m = Max(F) OBVIOUS
    <3>3. \A d \in F : c >= d BY <2>6, <3>1
    <3>4. m \in F /\ \A d \in F : m >= d BY <3>2, <3>3 DEF Max
    <3> QED BY <2>6, <3>1, <3>2, <3>4
  <2> QED BY <2>3, <2>5, <2>6 DEF StatusRight
<1> QED BY <1>1, Invariant, PTL
=============================================================================
