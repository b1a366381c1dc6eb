------------------------------- MODULE SimUart -------------------------------
(***************************************************************************)
(* UART objects of scripts (src/src/ajs_io.c) on the simulated board       *)
(* (src/src/simio/io_simulation.c).  A thread takes what the simulator     *)
(* sends and appends it to a buffer, from which the script reads; the      *)
(* buffer is shared between them with a lock that the thread lets go while *)
(* it receives.  The counters have eight bits: they count to the size of   *)
(* the buffer, which then is zero.                                         *)
(***************************************************************************)
EXTENDS Naturals, Sequences

CONSTANTS
  Size,      \* size of the buffer, 256 in the program, and modulus of its counters
  MaxChunk,  \* bound: bytes that the simulator sends at once
  MaxRead    \* bound: bytes that the script reads at once

VARIABLES
  uart,     \* the script has a UART object
  uartBuf,  \* bytes
  uartPos,  \* of the first byte that was not read
  uartLen,  \* of the bytes that were received
  thread,   \* "idle", "shuffle", "recv", "count", "trigger"
  sz,       \* bytes of the message that are still to be received
  room,     \* readLen: what the thread goes on to receive
  ready,    \* the bit of the trigger in trigSet
  next,     \* the byte the simulator sends next
  queue,    \* history: bytes that were received and not read
  upset     \* history: a counter wrapped, or the UART was opened while the thread received

vars == <<uart, uartBuf, uartPos, uartLen, thread, sz, room, ready, next, queue, upset>>

\* More bytes than fit in the buffer, so that each position is told apart.
Bytes == 0..Size
At(i) == uartBuf[i % Size]

TypeOK ==
  /\ uart \in BOOLEAN /\ uartBuf \in [0..Size - 1 -> Bytes]
  /\ uartPos \in 0..Size - 1 /\ uartLen \in 0..Size - 1
  /\ thread \in {"idle", "shuffle", "recv", "count", "trigger"}
  /\ sz \in 0..MaxChunk /\ room \in 0..MaxChunk
  /\ ready \in BOOLEAN /\ next \in Bytes /\ upset \in BOOLEAN
  /\ queue \in Seq(Bytes) /\ Len(queue) <= Size

Init ==
  /\ uart = FALSE /\ uartBuf = [i \in 0..Size - 1 |-> 0] /\ uartPos = 0 /\ uartLen = 0
  /\ thread = "idle" /\ sz = 0 /\ room = 0 /\ ready = FALSE /\ next = 0
  /\ queue = <<>> /\ upset = FALSE

threadVars == <<thread, sz, room, next>>
scriptVars == <<uart, uartPos>>

-----------------------------------------------------------------------------
(* The thread                                                              *)

\* A trigger of the receiver comes with the bytes.
Message ==
  /\ thread = "idle" /\ sz' \in 1..MaxChunk /\ thread' = "shuffle"
  /\ UNCHANGED <<scriptVars, uartBuf, uartLen, room, ready, next, queue, upset>>

Smaller(a, b) == IF a < b THEN a ELSE b

\* With the lock: what was not read goes to the front; what then does not fit is
\* discarded.
Shuffle ==
  /\ thread = "shuffle"
  /\ uartLen' = (uartLen + Size - uartPos) % Size
  /\ uartBuf' = [i \in 0..Size - 1 |-> IF i < uartLen' THEN At(i + uartPos) ELSE uartBuf[i]]
  /\ uartPos' = 0
  /\ LET fits == Smaller(Size - uartLen', sz) IN
     IF fits = 0 THEN /\ thread' = "trigger" /\ next' = (next + sz) % (Size + 1)
                      /\ sz' = 0 /\ UNCHANGED room
     ELSE thread' = "recv" /\ room' = fits /\ UNCHANGED <<sz, next>>
  /\ UNCHANGED <<uart, ready, queue, upset>>

\* Without the lock.
Recv ==
  /\ thread = "recv" /\ thread' = "count"
  /\ uartBuf' = [i \in 0..Size - 1 |->
                  IF i \in uartLen..uartLen + room - 1
                  THEN (next + i - uartLen) % (Size + 1) ELSE uartBuf[i]]
  /\ next' = (next + room) % (Size + 1)
  /\ UNCHANGED <<scriptVars, uartLen, sz, room, ready, queue, upset>>

\* With the lock; uartLen is of eight bits.
Count ==
  /\ thread = "count"
  /\ uartLen' = (uartLen + room) % Size /\ sz' = sz - room /\ room' = 0
  /\ thread' = IF sz' > 0 THEN "shuffle" ELSE "trigger"
  /\ upset' = (upset \/ uartLen + room >= Size)
  /\ queue' = IF upset' THEN <<>>
              ELSE queue \o [i \in 1..room |-> uartBuf[uartLen + i - 1]]
  /\ UNCHANGED <<scriptVars, uartBuf, ready, next>>

\* The word of the bits has no lock: a bit that the script clears or sets at the
\* same time may undo this one.
Trigger ==
  /\ thread = "trigger" /\ thread' = "idle" /\ ready' \in {ready, TRUE}
  /\ UNCHANGED <<scriptVars, uartBuf, uartLen, sz, room, next, queue, upset>>

-----------------------------------------------------------------------------
(* The script                                                              *)

\* The buffer is emptied without the lock; the driver leaves the trigger of the
\* receiver unset, and it is whatever was in memory.
NativeIoUart ==
  /\ ~uart /\ uart' = TRUE /\ uartPos' = 0 /\ uartLen' = 0
  /\ queue' = <<>> /\ upset' = (thread \in {"recv", "count"})
  /\ UNCHANGED <<uartBuf, ready, threadVars>>

NativeUartFinalizer ==
  /\ uart /\ uart' = FALSE
  /\ UNCHANGED <<uartBuf, uartPos, uartLen, ready, threadVars, queue, upset>>

\* A trigger that is set while there are bytes fires at once.
NativeUartSetTrigger ==
  /\ uart /\ ready' = (ready \/ uartLen > 0)
  /\ UNCHANGED <<scriptVars, uartBuf, uartLen, threadVars, queue, upset>>

NativeUartClearTrigger ==
  /\ uart /\ ready' = FALSE
  /\ UNCHANGED <<scriptVars, uartBuf, uartLen, threadVars, queue, upset>>

\* ServiceIO takes the bit before it calls the script.
ServiceIO ==
  /\ ready /\ ready' = FALSE
  /\ UNCHANGED <<scriptVars, uartBuf, uartLen, threadVars, queue, upset>>

Drained(n) == SubSeq(queue, n + 1, Len(queue))

\* With the lock.  A position after the length fails an assertion, or counts as
\* a great many bytes where there is none.
NativeUartRead ==
  /\ uart
  /\ \E length \in 1..MaxRead :
       LET n == IF uartLen >= uartPos THEN Smaller(length, uartLen - uartPos) ELSE length IN
       /\ uartPos' = (uartPos + n) % Size
       /\ ready' = (ready \/ uartLen > uartPos')
       /\ queue' = IF upset THEN <<>> ELSE Drained(n)
  /\ UNCHANGED <<uart, uartBuf, uartLen, threadVars, upset>>

Next ==
  \/ Message \/ Shuffle \/ Recv \/ Count \/ Trigger
  \/ NativeIoUart \/ NativeUartFinalizer \/ NativeUartSetTrigger \/ NativeUartClearTrigger
  \/ ServiceIO \/ NativeUartRead

Spec == Init /\ [][Next]_vars

-----------------------------------------------------------------------------
(* Properties                                                              *)

\* What the script would read next is what was received and not read, in order,
\* as long as the buffer was not filled to the last byte.
BufferIsQueue ==
  ~upset => /\ uartPos + Len(queue) = uartLen
            /\ \A i \in 1..Len(queue) : uartBuf[uartPos + i - 1] = queue[i]
=============================================================================
