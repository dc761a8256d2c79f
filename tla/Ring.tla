---------------------------------- MODULE Ring ---------------------------------
(***************************************************************************)
(* The lock-free ring of src/src/ring.c between one producer (ring_write)  *)
(* and one consumer (ring_available, ring_read), at the grain of its       *)
(* atomic loads and stores and of the copy of one sample.                  *)
(*                                                                         *)
(* Both indices run freely: they wrap at the width of size_t (IndexRange), *)
(* not at the size of the buffer.  Each side loads its own index and the   *)
(* other side's once, when it is called, and works from that snapshot      *)
(* while the other side goes on; the caller's memcpy of one or two chunks  *)
(* is a step per sample; the call ends with the store of its own index.    *)
(*                                                                         *)
(* The load of the caller's own index is merged with the load of the       *)
(* other one: no other thread stores to it.                                *)
(***************************************************************************)
EXTENDS Integers, Sequences

CONSTANTS Sample,      \* the values a sample can take
          Silence,     \* the value ring_init fills the buffer with
          N,           \* ring->size
          IndexRange,  \* the number of values of a size_t
          Chunks,      \* the sequences of samples a producer may write
          MaxRead      \* the most samples a consumer asks for

ASSUME SizeAssumption == N \in Nat \ {0}
ASSUME IndexAssumption == IndexRange \in Nat /\ IndexRange > N
                          /\ IndexRange % N = 0
ASSUME ChunkAssumption == Chunks \subseteq Seq(Sample)
ASSUME SilenceAssumption == Silence \in Sample
ASSUME ReadAssumption == MaxRead \in Nat

VARIABLES
  buffer,           \* the slots, numbered as in C
  read_idx,         \* stored by the consumer, loaded by both
  write_idx,        \* stored by the producer, loaded by both
  writing,          \* a ring_write is in flight; its arguments and locals:
  input,            \*   samples[0 .. num_samples-1]
  available_space,  \*   free slots by the snapshot taken at entry
  to_write,         \*   how many samples this call accepts
  written,          \*   how many of them memcpy has copied
  reading,          \* a ring_read is in flight; its arguments and locals:
  num_samples,      \*   how many samples are asked for
  available,        \*   queued samples by the snapshot taken at entry
  to_read,          \*   how many samples this call returns
  output,           \* what memcpy has copied into the caller's array
  seen              \* what ring_available told the consumer before this read

writerVars == <<writing, input, available_space, to_write, written>>
readerVars == <<reading, num_samples, available, to_read, output, seen>>
vars == <<buffer, read_idx, write_idx, writerVars, readerVars>>

Smaller(a, b) == IF a < b THEN a ELSE b
Index == 0..(IndexRange - 1)
Slots == 0..(N - 1)

(* Fault: the difference of the indices in a wider, signed type.           *)
MinusSigned(i, j) == i - j

(* Arithmetic of size_t. *)
Minus(i, j) == (i - j) % IndexRange
Plus(i, k) == (i + k) % IndexRange

(* The slot memcpy reaches for sample k of a call that starts at index idx *)
(* and moves num samples: the first chunk runs up to the end of the        *)
(* buffer, the second starts over at slot 0.                               *)
Address(idx, num, k) ==
  LET pos == idx % N
      space_to_end == N - pos
      first_chunk == Smaller(num, space_to_end)
  IN IF k < first_chunk THEN pos + k ELSE k - first_chunk

Init ==
  /\ buffer = [s \in Slots |-> Silence]
  /\ read_idx = 0 /\ write_idx = 0
  /\ writing = FALSE /\ input = <<>>
  /\ available_space = 0 /\ to_write = 0 /\ written = 0
  /\ reading = FALSE /\ num_samples = 0 /\ available = 0 /\ to_read = 0
  /\ output = <<>> /\ seen = 0

--------------------------------------------------------------------------------
(* ring_write *)

(* Fault: the free space is not consulted.                                 *)
WriteBeginUnchecked(samples) ==
  /\ ~writing
  /\ writing' = TRUE
  /\ input' = samples
  /\ available_space' = N - Minus(write_idx, read_idx)
  /\ to_write' = Len(samples)
  /\ written' = 0
  /\ UNCHANGED <<buffer, read_idx, write_idx, readerVars>>

WriteBegin(samples) ==
  /\ ~writing
  /\ writing' = TRUE
  /\ input' = samples
  /\ available_space' = N - Minus(write_idx, read_idx)
  /\ to_write' = Smaller(Len(samples), available_space')
  /\ written' = 0
  /\ UNCHANGED <<buffer, read_idx, write_idx, readerVars>>

WriteCopy ==
  /\ writing
  /\ written < to_write
  /\ buffer' = [buffer EXCEPT ![Address(write_idx, to_write, written)]
                                = input[written + 1]]
  /\ written' = written + 1
  /\ UNCHANGED <<read_idx, write_idx, writing, input, available_space,
                 to_write, readerVars>>

(* Fault: the index advances by what was offered, not by what fitted.      *)
WriteCommitOffered ==
  /\ writing
  /\ written = to_write
  /\ write_idx' = Plus(write_idx, Len(input))
  /\ writing' = FALSE
  /\ input' = <<>>
  /\ available_space' = 0 /\ to_write' = 0 /\ written' = 0
  /\ UNCHANGED <<buffer, read_idx, readerVars>>

WriteCommit ==
  /\ writing
  /\ written = to_write
  /\ write_idx' = Plus(write_idx, to_write)
  /\ writing' = FALSE
  /\ input' = <<>>
  /\ available_space' = 0 /\ to_write' = 0 /\ written' = 0
  /\ UNCHANGED <<buffer, read_idx, readerVars>>

--------------------------------------------------------------------------------
(* ring_available and ring_read *)

(* Fault: a write still in flight is counted.                              *)
RingAvailableEarly ==
  /\ ~reading
  /\ seen' = Minus(Plus(write_idx, to_write), read_idx)
  /\ UNCHANGED <<buffer, read_idx, write_idx, writerVars, reading,
                 num_samples, available, to_read, output>>

RingAvailable ==
  /\ ~reading
  /\ seen' = Minus(write_idx, read_idx)
  /\ UNCHANGED <<buffer, read_idx, write_idx, writerVars, reading,
                 num_samples, available, to_read, output>>

(* Fault: the consumer takes what it asked for, queued or not.             *)
ReadBeginUnchecked(n) ==
  /\ ~reading
  /\ reading' = TRUE
  /\ num_samples' = n
  /\ available' = Minus(write_idx, read_idx)
  /\ to_read' = n
  /\ output' = <<>>
  /\ UNCHANGED <<buffer, read_idx, write_idx, writerVars, seen>>

ReadBegin(n) ==
  /\ ~reading
  /\ reading' = TRUE
  /\ num_samples' = n
  /\ available' = Minus(write_idx, read_idx)
  /\ to_read' = Smaller(n, available')
  /\ output' = <<>>
  /\ UNCHANGED <<buffer, read_idx, write_idx, writerVars, seen>>

ReadCopy ==
  /\ reading
  /\ Len(output) < to_read
  /\ output' = Append(output, buffer[Address(read_idx, to_read, Len(output))])
  /\ UNCHANGED <<buffer, read_idx, write_idx, writerVars, reading,
                 num_samples, available, to_read, seen>>

ReadCommit ==
  /\ reading
  /\ Len(output) = to_read
  /\ read_idx' = Plus(read_idx, to_read)
  /\ reading' = FALSE
  /\ num_samples' = 0 /\ available' = 0 /\ to_read' = 0 /\ seen' = 0
  /\ UNCHANGED <<buffer, write_idx, writerVars, output>>

--------------------------------------------------------------------------------

Writer == WriteCopy \/ WriteCommit
Reader == ReadCopy \/ ReadCommit

Next == \/ \E samples \in Chunks : WriteBegin(samples)
        \/ WriteCopy
        \/ WriteCommit
        \/ RingAvailable
        \/ \E n \in 0..MaxRead : ReadBegin(n)
        \/ ReadCopy
        \/ ReadCommit

(* A thread inside a call keeps running: the code never waits there. *)
Fairness == WF_vars(Writer) /\ WF_vars(Reader)

SafeSpec == Init /\ [][Next]_vars
Spec == SafeSpec /\ Fairness

--------------------------------------------------------------------------------
(* Properties *)

Used == Minus(write_idx, read_idx)

(* Every variable keeps its type: the C locals stay inside what their     *)
(* memcpy lengths may be and the indices inside a size_t.                  *)
TypeOK ==
  /\ buffer \in [Slots -> Sample]
  /\ read_idx \in Index /\ write_idx \in Index
  /\ writing \in BOOLEAN /\ input \in Seq(Sample)
  /\ available_space \in 0..N /\ to_write \in 0..N /\ written \in 0..N
  /\ reading \in BOOLEAN /\ num_samples \in 0..MaxRead
  /\ available \in 0..N /\ to_read \in 0..N
  /\ output \in Seq(Sample)
  /\ seen \in 0..N

(* The producer never laps the consumer, through any wrap of the indices  *)
(* at the width of size_t: the distance of the two indices stays at most  *)
(* the size of the buffer, for a committed write and for one in flight.   *)
NoOverrun == Used + to_write <= N

(* The slots a ring_write in flight has yet to store to and the ones a    *)
(* ring_read in flight has yet to load are never the same slot: memcpy on *)
(* both sides runs without a lock and without a data race.                *)
ToStore == {Address(write_idx, to_write, k) : k \in written..(to_write - 1)}
ToLoad == {Address(read_idx, to_read, k) : k \in Len(output)..(to_read - 1)}
NoDataRace == ToStore \cap ToLoad = {}

(* What ring_available told the consumer stays available: a later         *)
(* ring_read returns at least that much of what it is asked for, whatever *)
(* the producer did in between.                                            *)
AvailableIsHonoured == reading => to_read >= Smaller(num_samples, seen)

(* The ring is a bounded queue: the queued samples are the ones between   *)
(* the two indices.                                                        *)
Contents == [k \in 1..Used |-> buffer[(read_idx + k - 1) % N]]

Queue == INSTANCE SampleQueue WITH
           Capacity <- N,
           queue <- Contents,
           putting <- writing,
           offer <- input,
           putMin <- available_space,
           getting <- reading,
           ask <- num_samples,
           getMin <- available,
           got <- IF reading THEN <<>> ELSE output

(* The ring implements the bounded FIFO queue: samples come out in the    *)
(* order they went in, none lost, doubled or invented, a short count      *)
(* exactly when space or samples ran short, and every call returns.       *)
ImplementsSampleQueue == Queue!Spec
================================================================================
