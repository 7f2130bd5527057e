----------------------------- MODULE ConsoleLog -----------------------------
(***************************************************************************)
(* The boot log of the board: the ring of cmd/kernel/consoleIO.go, its     *)
(* dump and the heartbeat over the USB-Serial/JTAG endpoint, driven by the *)
(* halt loop of main (main_tinygo.go).                                     *)
(*                                                                         *)
(* A byte of the log is the number of its place in the log, 1, 2, ..., and *)
(* a byte of the heartbeat is minus its place in it.  A step is the write  *)
(* of one byte, a wait for the endpoint that timed out, or the end of a    *)
(* string.                                                                 *)
(*                                                                         *)
(* The endpoint and the host are hardware.  Bytes gather in a FIFO; a      *)
(* flush hands them to the host, and until the host has read them there is *)
(* no space for more.  A host that is connected reads before a wait runs   *)
(* out, which is what the length of the wait is chosen for                 *)
(* (consoleIO.go:120).                                                     *)
(***************************************************************************)
EXTENDS Integers, SequencesExt

CONSTANTS
  BufferSize,        \* consoleLogBufferSize
  FlushChunkBytes,   \* usbFlushChunkBytes
  ByteRetryLimit,    \* usbByteRetryLimit
  WriteRetryLimit,   \* usbWriteRetryLimit
  AliveLength,       \* bytes of the heartbeat
  LineLengths,       \* bytes of a line of the log
  LogLimit,          \* bound on the bytes logged
  Departures         \* bound on the times the host disconnects

ASSUME ConsoleLogAssumption ==
  /\ BufferSize \in Nat \ {0} /\ FlushChunkBytes \in Nat \ {0}
  /\ ByteRetryLimit \in Nat \ {0} /\ WriteRetryLimit \in Nat \ {0}
  /\ AliveLength \in Nat \ {0} /\ LineLengths \subseteq Nat \ {0}
  /\ LogLimit \in Nat /\ Departures \in Nat

VARIABLES
  consoleLogBuffer,
  consoleLogWrite,
  consoleLogFull,
  logged,      \* number of bytes logged so far
  pc,          \* where main is: booting, sleeping, in the dump, in the heartbeat
  out,         \* the strings being written and how far the first one is
  fifo,        \* bytes in the endpoint
  flushed,     \* the endpoint waits for the host
  connected,
  departures,
  received     \* bytes of the log the host has read

ring == <<consoleLogBuffer, consoleLogWrite, consoleLogFull, logged>>
usb  == <<fifo, flushed>>
host == <<connected, departures, received>>
vars == <<ring, pc, out, usb, host>>

Slots == 0..(BufferSize - 1)

Alive == [k \in 1..AliveLength |-> -k]

(* Writing the strings, one usbWriteBytes after the other. *)
Writing(strings) ==
  [strings |-> strings, i |-> 0, pending |-> 0, attempt |-> 0, retry |-> 0]

Idle == Writing(<<>>)

Init ==
  /\ consoleLogBuffer = [x \in Slots |-> 0]
  /\ consoleLogWrite = 0 /\ consoleLogFull = FALSE
  /\ logged = 0
  /\ pc = "boot" /\ out = Idle
  /\ fifo = <<>> /\ flushed = FALSE
  /\ connected \in BOOLEAN /\ departures = 0 /\ received = <<>>

-----------------------------------------------------------------------------
(***************************************************************************)
(* The ring.                                                               *)
(***************************************************************************)

(* The bytes of a line that land in slot x of the ring. *)
LandingIn(x, n) == {k \in 1..n : (consoleLogWrite + k - 1) % BufferSize = x}

(* Mutant: the ring is full only once a byte has been overwritten. *)
consoleLoglnLateFull(n) ==
  /\ pc = "boot" /\ logged + n <= LogLimit
  /\ consoleLogBuffer' =
       [x \in Slots |-> IF LandingIn(x, n) = {} THEN consoleLogBuffer[x]
                        ELSE logged + Max(LandingIn(x, n))]
  /\ consoleLogWrite' = (consoleLogWrite + n) % BufferSize
  /\ consoleLogFull' = (consoleLogFull \/ consoleLogWrite + n > BufferSize)
  /\ logged' = logged + n
  /\ UNCHANGED <<pc, out, usb, host>>

(* consoleLogln with the line break; main and its thread log while booting. *)
consoleLogln(n) ==
  /\ pc = "boot" /\ logged + n <= LogLimit
  /\ consoleLogBuffer' =
       [x \in Slots |-> IF LandingIn(x, n) = {} THEN consoleLogBuffer[x]
                        ELSE logged + Max(LandingIn(x, n))]
  /\ consoleLogWrite' = (consoleLogWrite + n) % BufferSize
  /\ consoleLogFull' = (consoleLogFull \/ consoleLogWrite + n >= BufferSize)
  /\ logged' = logged + n
  /\ UNCHANGED <<pc, out, usb, host>>

RingEmpty == ~consoleLogFull /\ consoleLogWrite = 0

Part(a, b) == [k \in 1..(b - a) |-> consoleLogBuffer[a + k - 1]]

(* What dumpConsoleLog writes: a full ring from its oldest byte on. *)
LogStrings ==
  IF consoleLogFull
  THEN <<Part(consoleLogWrite, BufferSize), Part(0, consoleLogWrite)>>
  ELSE <<Part(0, consoleLogWrite)>>

-----------------------------------------------------------------------------
(***************************************************************************)
(* The loop of main.                                                       *)
(***************************************************************************)

(* Mutant: the log is dumped once, whether or not that succeeds. *)
NextRoundOnce ==
  /\ pc \in {"boot", "sleep"}
  /\ pc' = IF RingEmpty \/ pc = "sleep" THEN "alive" ELSE "dump"
  /\ out' = Writing(IF RingEmpty \/ pc = "sleep" THEN <<Alive>> ELSE LogStrings)
  /\ UNCHANGED <<ring, usb, host>>

(* Mutant: nothing is written when there is nothing to dump. *)
NextRoundSilent ==
  /\ pc \in {"boot", "sleep"}
  /\ pc' = IF RingEmpty THEN "sleep" ELSE "dump"
  /\ out' = IF RingEmpty THEN Idle ELSE Writing(LogStrings)
  /\ UNCHANGED <<ring, usb, host>>

(* The end of booting, or of the delay between two rounds: dumpConsoleLog  *)
(* starts, and is over at once when there is nothing to dump.              *)
NextRound ==
  /\ pc \in {"boot", "sleep"}
  /\ pc' = IF RingEmpty THEN "alive" ELSE "dump"
  /\ out' = Writing(IF RingEmpty THEN <<Alive>> ELSE LogStrings)
  /\ UNCHANGED <<ring, usb, host>>

(* The strings are written: a dump empties the ring, then comes the        *)
(* heartbeat; after the heartbeat main sleeps.                             *)
Succeeds ==
  \/ /\ pc = "dump"
     /\ consoleLogWrite' = 0 /\ consoleLogFull' = FALSE
     /\ pc' = "alive" /\ out' = Writing(<<Alive>>)
     /\ UNCHANGED <<consoleLogBuffer, logged>>
  \/ pc = "alive" /\ pc' = "sleep" /\ out' = Idle /\ UNCHANGED ring

(* Mutant: the ring is emptied although the dump failed. *)
FailsEmptied ==
  \/ /\ pc = "dump"
     /\ pc' = "alive" /\ out' = Writing(<<Alive>>)
     /\ consoleLogWrite' = 0 /\ consoleLogFull' = FALSE
     /\ UNCHANGED <<consoleLogBuffer, logged>>
  \/ /\ pc = "alive" /\ out.retry + 1 < WriteRetryLimit
     /\ out' = [Writing(<<Alive>>) EXCEPT !.retry = out.retry + 1]
     /\ UNCHANGED <<pc, ring>>
  \/ /\ pc = "alive" /\ out.retry + 1 >= WriteRetryLimit
     /\ pc' = "sleep" /\ out' = Idle /\ UNCHANGED ring

(* A byte was given up.  A dump leaves the ring for the next round, which  *)
(* starts it over; consoleWriteString starts the heartbeat over a few      *)
(* times and drops it.                                                     *)
Fails ==
  \/ pc = "dump" /\ pc' = "alive" /\ out' = Writing(<<Alive>>) /\ UNCHANGED ring
  \/ /\ pc = "alive" /\ out.retry + 1 < WriteRetryLimit
     /\ out' = [Writing(<<Alive>>) EXCEPT !.retry = out.retry + 1]
     /\ UNCHANGED <<pc, ring>>
  \/ /\ pc = "alive" /\ out.retry + 1 >= WriteRetryLimit
     /\ pc' = "sleep" /\ out' = Idle /\ UNCHANGED ring

-----------------------------------------------------------------------------
(***************************************************************************)
(* usbWriteString and usbWriteBytes.                                       *)
(***************************************************************************)

HasByte == out.strings # <<>> /\ out.i < Len(Head(out.strings))

AtEnd == out.strings # <<>> /\ out.i = Len(Head(out.strings))

(* usbWriteByte finds space in the endpoint. *)
WriteByte ==
  /\ HasByte /\ ~flushed
  /\ fifo' = Append(fifo, Head(out.strings)[out.i + 1])
  /\ flushed' = (out.pending + 1 >= FlushChunkBytes)
  /\ out' = [out EXCEPT !.i = @ + 1, !.attempt = 0,
               !.pending = IF flushed' THEN 0 ELSE @ + 1]
  /\ UNCHANGED <<pc, ring, host>>

(* Mutant: a byte that is given up is left out. *)
ByteTimeoutSkips ==
  /\ HasByte /\ ~connected
  /\ out' = IF out.attempt + 1 < ByteRetryLimit
            THEN [out EXCEPT !.attempt = @ + 1]
            ELSE [out EXCEPT !.attempt = 0, !.i = @ + 1]
  /\ UNCHANGED <<pc, ring, usb, host>>

(* usbWriteByteWithRetry after a wait that ran out; without a host even an *)
(* empty endpoint may refuse.                                              *)
ByteTimeout ==
  /\ HasByte /\ ~connected
  /\ IF out.attempt + 1 < ByteRetryLimit
     THEN out' = [out EXCEPT !.attempt = @ + 1] /\ UNCHANGED <<pc, ring, flushed>>
     ELSE Fails /\ flushed' = (flushed \/ out.pending > 0)
  /\ UNCHANGED <<fifo, host>>

EndString ==
  /\ AtEnd
  /\ flushed' = (flushed \/ out.pending > 0)
  /\ IF Len(out.strings) > 1
     THEN out' = Writing(Tail(out.strings)) /\ UNCHANGED <<pc, ring>>
     ELSE Succeeds
  /\ UNCHANGED <<fifo, host>>

-----------------------------------------------------------------------------
(***************************************************************************)
(* The host.                                                               *)
(***************************************************************************)

(* The bytes of the log among the bytes, in their order. *)
LogBytes(bytes) ==
  LET places == {k \in DOMAIN bytes : bytes[k] > 0}
      Place(j) == CHOOSE k \in places : Cardinality(places \cap (1..k)) = j
  IN  [j \in 1..Cardinality(places) |-> bytes[Place(j)]]

HostReads ==
  /\ connected /\ flushed
  /\ received' = received \o LogBytes(fifo)
  /\ fifo' = <<>> /\ flushed' = FALSE
  /\ UNCHANGED <<ring, pc, out, connected, departures>>

HostConnects ==
  /\ ~connected /\ connected' = TRUE
  /\ UNCHANGED <<ring, pc, out, usb, departures, received>>

HostLeaves ==
  /\ connected /\ departures < Departures
  /\ connected' = FALSE /\ departures' = departures + 1
  /\ UNCHANGED <<ring, pc, out, usb, received>>

Main ==
  \/ \E n \in LineLengths : consoleLogln(n)
  \/ NextRound
  \/ WriteByte
  \/ ByteTimeout
  \/ EndString

Next == Main \/ HostReads \/ HostConnects \/ HostLeaves

(* Nothing stops main, and a connected host polls the endpoint. *)
Spec == Init /\ [][Next]_vars /\ WF_vars(Main) /\ WF_vars(HostReads)

-----------------------------------------------------------------------------
(***************************************************************************)
(* Properties.                                                             *)
(***************************************************************************)

(* The last bytes logged, as many as the ring holds. *)
Latest ==
  LET kept == IF logged < BufferSize THEN logged ELSE BufferSize
  IN  [k \in 1..kept |-> logged - kept + k]

(* Until it is dumped the ring holds the latest bytes, and dumpConsoleLog  *)
(* would write them oldest first, however often the ring has wrapped and   *)
(* also when the last line ends exactly at its end.                        *)
RingHoldsLatest ==
  \/ FlattenSeq(LogStrings) = Latest
  \/ RingEmpty /\ pc # "boot"

(* The bytes of the log handed to the endpoint. *)
Stream == received \o LogBytes(fifo)

(* The ring is emptied only after all of it has gone out, in order and     *)
(* uninterrupted: no wait that ran out, retry or wrap loses a byte.        *)
DumpComplete == logged > 0 /\ RingEmpty => IsSuffix(Latest, Stream)

(* The host never sees a gap or bytes out of order: after a byte of the    *)
(* log comes the next one or, when a dump is started over, the first.      *)
StreamInOrder ==
  \A k \in 1..(Len(Stream) - 1) :
    Stream[k + 1] \in {Stream[k] + 1, Head(Latest)}

(* main_tinygo.go:29: a host that stays connected gets in the end all that *)
(* the ring has kept of the log, whatever came and went before.            *)
LogDelivered ==
  <>[]connected => <>(pc # "boot" /\ RingEmpty /\ IsSuffix(Latest, received))

(* main_tinygo.go:30: "a late-connecting monitor always sees the alive     *)
(* heartbeat": a host that stays connected reads its end again and again.  *)
HeartbeatHeard ==
  <>[]connected =>
    []<><<HostReads /\ \E k \in DOMAIN fifo : fifo[k] = -AliveLength>>_vars

(* main_tinygo.go:29: "boot messages appear exactly once once USB is       *)
(* ready": the host reads no byte of the log twice.  A dump that is        *)
(* started over sends its beginning again.                                 *)
BootMessagesOnce ==
  \A k, l \in DOMAIN received : received[k] = received[l] => k = l
=============================================================================
