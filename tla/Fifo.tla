-------------------------------- MODULE Fifo --------------------------------
(***************************************************************************)
(* The pipes of the virtual system (FileBody::Fifo in                      *)
(* yash-env/src/system/virtual/file_body.rs).                              *)
(*                                                                         *)
(* A pipe is a record of the number of bytes in it and of the tasks whose  *)
(* wakers wait in it; the numbers of its readers and writers are what the  *)
(* descriptor tables say and are passed in.  Polling never blocks: it      *)
(* either completes or leaves the caller's waker in the pipe.  "woken" is  *)
(* the set of tasks the operation wakes.                                   *)
(***************************************************************************)
EXTENDS Integers, FiniteSetsExt

CONSTANT PipeBuf    \* PIPE_BUF: writes up to it are atomic

ASSUME PipeBufAssumption == PipeBuf \in Nat \ {0}

PipeSize == 2 * PipeBuf

NewFifo == [content |-> 0, readWakers |-> {}, writeWakers |-> {}]

FifoType(Task) == [content : 0 .. PipeSize,
                   readWakers : SUBSET Task, writeWakers : SUBSET Task]

Result(fifo, done, count, woken) ==
    [fifo |-> fifo, done |-> done, count |-> count, woken |-> woken]

\* poll_read with a buffer of n > 0 bytes.  count = 0 is the end of the file.
PollRead(fifo, writers, task, n) ==
    IF fifo.content = 0 /\ writers
      THEN Result([fifo EXCEPT !.readWakers = @ \union {task}], FALSE, 0, {})
      ELSE LET count == Min({n, fifo.content})
           IN  Result([fifo EXCEPT !.content = @ - count, !.writeWakers = {}],
                      TRUE, count, fifo.writeWakers)

\* poll_write of n > 0 bytes.  count = 0 stands for EPIPE.
PollWrite(fifo, readers, task, n) ==
    LET room == PipeSize - fifo.content
    IN  IF ~readers THEN Result(fifo, TRUE, 0, {})
        ELSE IF room < n /\ (room = 0 \/ n <= PipeBuf)
          THEN Result([fifo EXCEPT !.writeWakers = @ \union {task}], FALSE, 0, {})
          ELSE LET count == Min({n, room})
               IN  Result([fifo EXCEPT !.content = @ + count, !.readWakers = {}],
                          TRUE, count, fifo.readWakers)

\* A wrong version: the writers are not woken.
WokenReaders(fifo) == fifo.readWakers

\* close of the last reader or the last writer: nobody waits any longer.
WokenByClose(fifo) == fifo.readWakers \union fifo.writeWakers
ClosedFifo(fifo) == [fifo EXCEPT !.readWakers = {}, !.writeWakers = {}]
=============================================================================
