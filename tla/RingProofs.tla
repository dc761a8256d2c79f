------------------------------- MODULE RingProofs ------------------------------
(***************************************************************************)
(* Proofs about the ring of module Ring, for every buffer size, every      *)
(* width of the indices that the size divides, and every set of samples.   *)
(***************************************************************************)
EXTENDS Ring, SequenceTheorems, TLAPS

--------------------------------------------------------------------------------
(* Modular arithmetic *)

(* A number written as a multiple of d plus a remainder has that remainder. *)
LEMMA ModUnique ==
  ASSUME NEW d \in Nat \ {0}, NEW q \in Int, NEW r \in 0..(d - 1)
  PROVE  (d * q + r) % d = r
  OBVIOUS

(* The remainder lies below the divisor, and the rest is a multiple of it. *)
LEMMA ModSplit ==
  ASSUME NEW d \in Nat \ {0}, NEW x \in Int
  PROVE  /\ x % d \in 0..(d - 1)
         /\ x \div d \in Int
         /\ x = d * (x \div d) + (x % d)
  OBVIOUS

(* Adding a multiple of the divisor does not change the remainder. *)
LEMMA ModShift ==
  ASSUME NEW d \in Nat \ {0}, NEW x \in Int, NEW q \in Int
  PROVE  (x + d * q) % d = x % d
<1> DEFINE r == x % d
           e == x \div d
<1>1. r \in 0..(d - 1) /\ e \in Int /\ x = d * e + r
  BY ModSplit
<1>2. x + d * q = d * (e + q) + r
  BY <1>1
<1> HIDE DEF r, e
<1>3. e + q \in Int
  BY <1>1
<1>4. (d * (e + q) + r) % d = r
  BY <1>1, <1>3, ModUnique
<1> QED
  BY <1>2, <1>4 DEF r

(* The width of the indices is a whole number of buffers. *)
LEMMA WholeBuffers ==
  \E q \in Nat : IndexRange = N * q
<1>1. IndexRange = N * (IndexRange \div N) + (IndexRange % N)
  BY ModSplit, SizeAssumption, IndexAssumption
<1>2. IndexRange \div N \in Nat
  BY SizeAssumption, IndexAssumption
<1> QED
  BY <1>1, <1>2, SizeAssumption, IndexAssumption

(* size_t subtraction of two indices. *)
LEMMA MinusValue ==
  ASSUME NEW i \in Index, NEW j \in Index
  PROVE  /\ Minus(i, j) = IF i >= j THEN i - j ELSE i - j + IndexRange
         /\ Minus(i, j) \in Index
  BY IndexAssumption DEF Index, Minus

(* size_t addition of at most one buffer to an index. *)
LEMMA PlusValue ==
  ASSUME NEW i \in Index, NEW k \in 0..N
  PROVE  /\ Plus(i, k) = IF i + k < IndexRange THEN i + k
                                               ELSE i + k - IndexRange
         /\ Plus(i, k) \in Index
  BY IndexAssumption, SizeAssumption DEF Index, Plus

(* The slot of an index does not notice the wrap of the index. *)
LEMMA SlotOfWrapped ==
  ASSUME NEW i \in Index, NEW k \in 0..N, NEW m \in Int
  PROVE  (Plus(i, k) + m) % N = (i + k + m) % N
<1>1. PICK q \in Nat : IndexRange = N * q
  BY WholeBuffers
<1>2. CASE i + k < IndexRange
  BY <1>2, PlusValue
<1>3. CASE i + k >= IndexRange
  <2>1. Plus(i, k) + m = (i + k + m) + N * (-q)
    BY <1>1, <1>3, PlusValue, SizeAssumption, IndexAssumption DEF Index
  <2>2. i + k + m \in Int /\ -q \in Int
    BY SizeAssumption, IndexAssumption DEF Index
  <2>3. ((i + k + m) + N * (-q)) % N = (i + k + m) % N
    BY <2>2, ModShift, SizeAssumption
  <2> QED
    BY <2>1, <2>3
<1> QED
  BY <1>2, <1>3, IndexAssumption, SizeAssumption DEF Index

(* Starting from a slot, an offset below the size either fits or wraps once. *)
LEMMA SlotOffset ==
  ASSUME NEW x \in Int, NEW k \in 0..(N - 1)
  PROVE  (x + k) % N = IF (x % N) + k < N THEN (x % N) + k ELSE (x % N) + k - N
<1> DEFINE p == x % N
           d == x \div N
<1>1. p \in 0..(N - 1) /\ d \in Int /\ x = N * d + p
  BY ModSplit, SizeAssumption
<1>2. /\ x + k = N * d + (p + k)
      /\ x + k = N * (d + 1) + (p + k - N)
  BY <1>1, SizeAssumption
<1> HIDE DEF p, d
<1>3. CASE p + k < N
  <2>1. p + k \in 0..(N - 1)
    BY <1>1, <1>3, SizeAssumption
  <2>2. (N * d + (p + k)) % N = p + k
    BY <1>1, <2>1, ModUnique, SizeAssumption
  <2> QED
    BY <1>2, <1>3, <2>2 DEF p
<1>4. CASE p + k >= N
  <2>1. p + k - N \in 0..(N - 1) /\ d + 1 \in Int /\ ~(p + k < N)
    BY <1>1, <1>4, SizeAssumption
  <2>2. (N * (d + 1) + (p + k - N)) % N = p + k - N
    BY <2>1, ModUnique, SizeAssumption
  <2> QED
    BY <1>2, <2>1, <2>2 DEF p
<1> QED
  BY <1>1, <1>3, <1>4, SizeAssumption

(* Two different offsets below the size reach two different slots. *)
LEMMA SlotsDistinct ==
  ASSUME NEW x \in Int, NEW j \in 0..(N - 1), NEW k \in 0..(N - 1), j # k
  PROVE  (x + j) % N # (x + k) % N
<1> DEFINE p == x % N
           offset(i) == IF p + i < N THEN p + i ELSE p + i - N
<1>1. p \in 0..(N - 1)
  BY ModSplit, SizeAssumption
<1>2. (x + j) % N = offset(j) /\ (x + k) % N = offset(k)
  BY SlotOffset
<1> HIDE DEF p
<1>3. offset(j) # offset(k)
  BY <1>1, SizeAssumption
<1> QED
  BY <1>2, <1>3

(* The two chunks of memcpy reach the slot of the k-th index after the first. *)
LEMMA AddressIsSlot ==
  ASSUME NEW i \in Index, NEW num \in 0..N, NEW k \in 0..(num - 1)
  PROVE  /\ Address(i, num, k) = (i + k) % N
         /\ Address(i, num, k) \in Slots
<1>1. i \in Int /\ k \in 0..(N - 1) /\ i % N \in 0..(N - 1)
  BY ModSplit, SizeAssumption, IndexAssumption DEF Index
<1>2. (i + k) % N = IF (i % N) + k < N THEN (i % N) + k ELSE (i % N) + k - N
  BY <1>1, SlotOffset
<1>3. Address(i, num, k) = IF (i % N) + k < N THEN (i % N) + k
                                              ELSE (i % N) + k - N
  BY <1>1, SizeAssumption DEF Address, Smaller
<1> QED
  BY <1>1, <1>2, <1>3, SizeAssumption DEF Slots

--------------------------------------------------------------------------------
(* The inductive invariant *)

(* What a ring_write in flight may rely on: the space it saw is still free, *)
(* and what it has copied lies, unpublished, right after the queued samples. *)
WriterInv ==
  /\ available_space + Used <= N
  /\ to_write = Smaller(Len(input), available_space)
  /\ written <= to_write
  /\ \A k \in 0..(written - 1) : buffer[(write_idx + k) % N] = input[k + 1]
  /\ ~writing => input = <<>> /\ available_space = 0

(* What a ring_read in flight may rely on: the samples it saw are still     *)
(* queued, and what it has copied is a prefix of them.                      *)
ReaderInv ==
  /\ available <= Used
  /\ seen <= Used
  /\ to_read = Smaller(num_samples, available)
  /\ reading => /\ seen <= available
                /\ Len(output) <= to_read
                /\ \A k \in 1..Len(output) :
                     output[k] = buffer[(read_idx + k - 1) % N]
  /\ ~reading => num_samples = 0 /\ available = 0

Inv == TypeOK /\ WriterInv /\ ReaderInv

(* The distance of the indices is a number of samples, and it leads from    *)
(* the read index to the write index.                                       *)
LEMMA UsedValue ==
  ASSUME TypeOK, Used <= N
  PROVE  /\ Used \in 0..N
         /\ write_idx = Plus(read_idx, Used)
<1>1. Used = IF write_idx >= read_idx THEN write_idx - read_idx
                                      ELSE write_idx - read_idx + IndexRange
  BY MinusValue DEF TypeOK, Used
<1>2. Used \in 0..N
  BY <1>1, SizeAssumption, IndexAssumption DEF TypeOK, Index
<1>3. Plus(read_idx, Used) = IF read_idx + Used < IndexRange
                             THEN read_idx + Used
                             ELSE read_idx + Used - IndexRange
  BY <1>2, PlusValue DEF TypeOK
<1> QED
  BY <1>1, <1>2, <1>3, SizeAssumption, IndexAssumption DEF TypeOK, Index

(* The slots of the unpublished samples follow those of the queued ones.    *)
LEMMA WriteSlot ==
  ASSUME TypeOK, Used <= N, NEW k \in Int
  PROVE  (write_idx + k) % N = (read_idx + Used + k) % N
  BY UsedValue, SlotOfWrapped DEF TypeOK

(* Storing the write index publishes exactly the samples accepted.          *)
LEMMA UsedAfterWrite ==
  ASSUME TypeOK, NEW n \in 0..N, Used + n <= N
  PROVE  Minus(Plus(write_idx, n), read_idx) = Used + n
<1>1. Used = IF write_idx >= read_idx THEN write_idx - read_idx
                                      ELSE write_idx - read_idx + IndexRange
  BY MinusValue DEF TypeOK, Used
<1>2. /\ Plus(write_idx, n) \in Index
      /\ Plus(write_idx, n) = IF write_idx + n < IndexRange THEN write_idx + n
                              ELSE write_idx + n - IndexRange
  BY PlusValue DEF TypeOK
<1>3. Minus(Plus(write_idx, n), read_idx) =
        IF Plus(write_idx, n) >= read_idx
        THEN Plus(write_idx, n) - read_idx
        ELSE Plus(write_idx, n) - read_idx + IndexRange
  BY <1>2, MinusValue DEF TypeOK
<1> QED
  BY <1>1, <1>2, <1>3, SizeAssumption, IndexAssumption DEF TypeOK, Index

(* Storing the read index releases exactly the samples returned.            *)
LEMMA UsedAfterRead ==
  ASSUME TypeOK, Used <= N, NEW n \in 0..Used
  PROVE  Minus(write_idx, Plus(read_idx, n)) = Used - n
<1>1. Used = IF write_idx >= read_idx THEN write_idx - read_idx
                                      ELSE write_idx - read_idx + IndexRange
  BY MinusValue DEF TypeOK, Used
<1>2. Used \in 0..N /\ n \in 0..N
  BY UsedValue, SizeAssumption
<1>3. /\ Plus(read_idx, n) \in Index
      /\ Plus(read_idx, n) = IF read_idx + n < IndexRange THEN read_idx + n
                             ELSE read_idx + n - IndexRange
  BY <1>2, PlusValue DEF TypeOK
<1>4. Minus(write_idx, Plus(read_idx, n)) =
        IF write_idx >= Plus(read_idx, n)
        THEN write_idx - Plus(read_idx, n)
        ELSE write_idx - Plus(read_idx, n) + IndexRange
  BY <1>3, MinusValue DEF TypeOK
<1>5. /\ read_idx \in Nat /\ write_idx \in Nat /\ IndexRange \in Nat
      /\ read_idx < IndexRange /\ write_idx < IndexRange
      /\ n \in Nat /\ n <= Used /\ Used \in Nat
  BY <1>2, SizeAssumption, IndexAssumption DEF TypeOK, Index
<1>6. CASE write_idx >= read_idx
  BY <1>1, <1>3, <1>4, <1>5, <1>6
<1>7. CASE write_idx < read_idx
  BY <1>1, <1>3, <1>4, <1>5, <1>7
<1> QED
  BY <1>5, <1>6, <1>7

(* The slots of a producer's copy hold none of the queued samples.          *)
LEMMA CopyMissesQueue ==
  ASSUME TypeOK, NEW k \in 0..(N - 1), Used + k < N, NEW j \in 0..(Used - 1)
  PROVE  (write_idx + k) % N # (read_idx + j) % N
<1>1. Used <= N /\ Used \in 0..N
  BY UsedValue, MinusValue, SizeAssumption DEF TypeOK, Used, Index
<1>2. (write_idx + k) % N = (read_idx + Used + k) % N
  BY <1>1, WriteSlot
<1>3. /\ read_idx \in Int /\ Used + k \in 0..(N - 1) /\ j \in 0..(N - 1)
      /\ Used + k # j /\ read_idx + Used + k = read_idx + (Used + k)
  BY <1>1, SizeAssumption, IndexAssumption DEF TypeOK, Index
<1>4. (read_idx + (Used + k)) % N # (read_idx + j) % N
  BY <1>3, SlotsDistinct
<1> QED
  BY <1>2, <1>3, <1>4

--------------------------------------------------------------------------------
(* The invariant holds initially and every action preserves it. *)

(* The values the locals are reset to have the type of the locals.          *)
LEMMA Resets ==
  0 \in 0..N /\ 0 \in Index /\ 0 \in 0..MaxRead /\ <<>> \in Seq(Sample)
  BY SizeAssumption, IndexAssumption, ReadAssumption DEF Index

LEMMA InitInv == Init => Inv
<1> SUFFICES ASSUME Init PROVE Inv
  OBVIOUS
<1>1. Used = 0
  BY MinusValue, IndexAssumption, SizeAssumption DEF Init, Used, Index
<1>2. TypeOK
  <2>1. buffer \in [Slots -> Sample]
    BY SilenceAssumption DEF Init
  <2> QED
    BY <2>1, Resets DEF Init, TypeOK
<1>3. WriterInv
  BY <1>1, SizeAssumption DEF Init, WriterInv, Smaller
<1>4. ReaderInv
  BY <1>1, ReadAssumption DEF Init, ReaderInv, Smaller
<1> QED
  BY <1>2, <1>3, <1>4 DEF Inv

(* In every state of the invariant the distance of the indices is a size.   *)
LEMMA InvUsed == Inv => Used \in 0..N
  BY UsedValue, MinusValue, SizeAssumption DEF Inv, TypeOK, WriterInv, Used, Index

LEMMA WriteBeginInv ==
  ASSUME Inv, NEW samples \in Chunks, WriteBegin(samples)
  PROVE  Inv'
<1>1. Used \in 0..N /\ Used' = Used
  BY InvUsed DEF Used, WriteBegin
<1>2. samples \in Seq(Sample) /\ Len(samples) \in Nat
  BY ChunkAssumption
<1>3. available_space' = N - Used
  BY DEF WriteBegin, Used
<1>4. available_space' \in 0..N /\ to_write' \in 0..N
  BY <1>1, <1>2, <1>3, SizeAssumption DEF WriteBegin, Smaller
<1>5. TypeOK'
  BY <1>2, <1>4, SizeAssumption DEF Inv, TypeOK, WriteBegin, readerVars
<1>6. WriterInv'
  BY <1>1, <1>2, <1>3, <1>4, SizeAssumption DEF WriterInv, WriteBegin
<1>7. ReaderInv'
  BY <1>1 DEF Inv, ReaderInv, WriteBegin, readerVars
<1> QED
  BY <1>5, <1>6, <1>7 DEF Inv

LEMMA WriteCopyInv ==
  ASSUME Inv, WriteCopy
  PROVE  Inv'
<1> DEFINE slot == (write_idx + written) % N
<1>1. Used \in 0..N /\ Used' = Used
  BY InvUsed DEF Used, WriteCopy
<1>2. /\ written \in 0..(N - 1) /\ written \in 0..(to_write - 1)
      /\ written + 1 \in 0..N /\ Used + written < N
      /\ written + 1 \in 1..Len(input) /\ to_write \in 0..N
  BY <1>1, SizeAssumption DEF Inv, TypeOK, WriterInv, WriteCopy, Smaller
<1>3. /\ Address(write_idx, to_write, written) = slot
      /\ slot \in Slots
  BY <1>2, AddressIsSlot DEF Inv, TypeOK
<1>4. /\ buffer' = [buffer EXCEPT ![slot] = input[written + 1]]
      /\ input[written + 1] \in Sample
  BY <1>2, <1>3 DEF WriteCopy, Inv, TypeOK
<1> HIDE DEF slot
<1>5. /\ buffer'[slot] = input[written + 1]
      /\ \A s \in Slots : s # slot => buffer'[s] = buffer[s]
      /\ buffer' \in [Slots -> Sample]
  BY <1>3, <1>4 DEF Inv, TypeOK
<1>6. \A x \in Int : x % N \in Slots
  BY ModSplit, SizeAssumption DEF Slots
<1>7. write_idx \in Int /\ read_idx \in Int /\ N \in Nat
  BY SizeAssumption, IndexAssumption DEF Inv, TypeOK, Index
<1>8. TypeOK'
  BY <1>2, <1>5 DEF Inv, TypeOK, WriteCopy, readerVars
<1>9. WriterInv'
  <2>1. ASSUME NEW k \in 0..(written' - 1)
        PROVE  buffer'[(write_idx + k) % N] = input[k + 1]
    <3>1. k \in 0..written /\ k \in 0..(N - 1)
      BY <1>2, <1>7 DEF WriteCopy
    <3>2. CASE k = written
      BY <3>2, <1>5 DEF slot
    <3>3. CASE k # written
      <4>1. k \in 0..(written - 1) /\ k \in Int
        BY <3>1, <3>3, <1>2
      <4>2. (write_idx + k) % N # slot
        BY <3>1, <3>3, <1>2, <1>7, SlotsDistinct DEF slot
      <4>3. (write_idx + k) % N \in Slots
        BY <1>6, <1>7, <4>1
      <4> QED
        BY <4>1, <4>2, <4>3, <1>5 DEF Inv, WriterInv
    <3> QED
      BY <3>2, <3>3
  <2> QED
    BY <2>1, <1>1, <1>2 DEF Inv, WriterInv, WriteCopy
<1>10. ReaderInv'
  <2>1. ASSUME reading, NEW k \in 1..Len(output)
        PROVE  buffer'[(read_idx + k - 1) % N] = buffer[(read_idx + k - 1) % N]
    <3>1. /\ k - 1 \in 0..(Used - 1) /\ k - 1 \in Int
          /\ read_idx + (k - 1) = read_idx + k - 1
          /\ read_idx + (k - 1) \in Int
      BY <2>1, <1>1, <1>7 DEF Inv, TypeOK, ReaderInv, Smaller
    <3>2. slot # (read_idx + (k - 1)) % N
      BY <3>1, <1>2, CopyMissesQueue DEF Inv, slot
    <3>3. (read_idx + (k - 1)) % N \in Slots
      BY <1>6, <3>1
    <3> QED
      BY <3>1, <3>2, <3>3, <1>5
  <2> QED
    BY <2>1, <1>1 DEF Inv, ReaderInv, WriteCopy, readerVars
<1> QED
  BY <1>8, <1>9, <1>10 DEF Inv

LEMMA WriteCommitInv ==
  ASSUME Inv, WriteCommit
  PROVE  Inv'
<1>1. Used \in 0..N /\ to_write \in 0..N /\ Used + to_write <= N
  BY InvUsed, SizeAssumption DEF Inv, TypeOK, WriterInv, Smaller
<1>2. Used' = Used + to_write
  BY <1>1, UsedAfterWrite DEF Used, WriteCommit, Inv
<1>3. write_idx' \in Index
  BY <1>1, PlusValue DEF WriteCommit, Inv, TypeOK
<1>4. TypeOK'
  BY <1>3, Resets DEF Inv, TypeOK, WriteCommit, readerVars
<1>5. WriterInv'
  BY <1>1, <1>2, SizeAssumption DEF WriterInv, WriteCommit, Smaller
<1>6. ReaderInv'
  BY <1>1, <1>2, SizeAssumption
     DEF Inv, TypeOK, ReaderInv, WriteCommit, readerVars
<1> QED
  BY <1>4, <1>5, <1>6 DEF Inv

LEMMA RingAvailableInv ==
  ASSUME Inv, RingAvailable
  PROVE  Inv'
<1>1. Used \in 0..N /\ Used' = Used /\ seen' = Used
  BY InvUsed DEF Used, RingAvailable, writerVars
<1>2. TypeOK'
  BY <1>1 DEF Inv, TypeOK, RingAvailable, writerVars
<1>3. WriterInv'
  BY <1>1 DEF Inv, WriterInv, RingAvailable, writerVars
<1>4. ReaderInv'
  BY <1>1 DEF Inv, ReaderInv, RingAvailable, writerVars
<1> QED
  BY <1>2, <1>3, <1>4 DEF Inv

LEMMA ReadBeginInv ==
  ASSUME Inv, NEW n \in 0..MaxRead, ReadBegin(n)
  PROVE  Inv'
<1>1. Used \in 0..N /\ Used' = Used /\ available' = Used
  BY InvUsed DEF Used, ReadBegin, writerVars
<1>2. to_read' \in 0..N
  BY <1>1, ReadAssumption, SizeAssumption DEF ReadBegin, Smaller
<1>3. TypeOK'
  BY <1>1, <1>2 DEF Inv, TypeOK, ReadBegin, writerVars
<1>4. WriterInv'
  BY <1>1 DEF Inv, WriterInv, ReadBegin, writerVars
<1>5. ReaderInv'
  <2>1. available' <= Used' /\ seen' <= Used' /\ seen' <= available'
    BY <1>1 DEF Inv, TypeOK, ReaderInv, ReadBegin
  <2>2. Len(output') = 0 /\ Len(output') <= to_read'
    BY <1>2 DEF ReadBegin
  <2>3. \A k \in 1..Len(output') :
          output'[k] = buffer'[(read_idx' + k - 1) % N]
    BY <2>2
  <2> QED
    BY <2>1, <2>2, <2>3 DEF ReaderInv, ReadBegin
<1> QED
  BY <1>3, <1>4, <1>5 DEF Inv

LEMMA ReadCopyInv ==
  ASSUME Inv, ReadCopy
  PROVE  Inv'
<1> DEFINE len == Len(output)
           slot == (read_idx + len) % N
<1>1. Used \in 0..N /\ Used' = Used
  BY InvUsed DEF Used, ReadCopy, writerVars
<1>2. /\ len \in 0..(to_read - 1) /\ to_read \in 0..N /\ len \in Nat
      /\ output \in Seq(Sample) /\ read_idx \in Int
  BY SizeAssumption, IndexAssumption DEF Inv, TypeOK, ReadCopy, Index
<1>3. /\ Address(read_idx, to_read, len) = slot
      /\ slot \in Slots
  BY <1>2, AddressIsSlot DEF Inv, TypeOK
<1>4. output' = Append(output, buffer[slot]) /\ buffer[slot] \in Sample
  BY <1>3 DEF ReadCopy, Inv, TypeOK
<1> HIDE DEF slot
<1>5. /\ output' \in Seq(Sample)
      /\ Len(output') = len + 1
      /\ \A k \in 1..len : output'[k] = output[k]
      /\ output'[len + 1] = buffer[slot]
  BY <1>2, <1>4
<1>6. TypeOK'
  BY <1>5 DEF Inv, TypeOK, ReadCopy, writerVars
<1>7. WriterInv'
  BY <1>1 DEF Inv, WriterInv, ReadCopy, writerVars
<1>8. ReaderInv'
  <2>1. \A k \in 1..Len(output') :
          output'[k] = buffer'[(read_idx' + k - 1) % N]
    <3> SUFFICES ASSUME NEW k \in 1..Len(output')
                 PROVE  output'[k] = buffer[(read_idx + k - 1) % N]
      BY DEF ReadCopy
    <3>1. CASE k = len + 1
      <4>1. read_idx + k - 1 = read_idx + len
        BY <3>1, <1>2
      <4> QED
        BY <3>1, <4>1, <1>5 DEF slot
    <3>2. CASE k # len + 1
      <4>1. k \in 1..len
        BY <3>2, <1>2, <1>5
      <4> QED
        BY <4>1, <1>5 DEF Inv, ReaderInv, ReadCopy
    <3> QED
      BY <3>1, <3>2
  <2> QED
    BY <2>1, <1>1, <1>2, <1>5 DEF Inv, ReaderInv, ReadCopy
<1> QED
  BY <1>6, <1>7, <1>8 DEF Inv

LEMMA ReadCommitInv ==
  ASSUME Inv, ReadCommit
  PROVE  Inv'
<1>1. /\ Used \in 0..N /\ to_read \in 0..Used /\ available_space \in 0..N
      /\ to_read \in 0..N
  BY InvUsed, ReadAssumption DEF Inv, TypeOK, ReaderInv, Smaller
<1>2. Used' = Used - to_read
  BY <1>1, UsedAfterRead DEF Used, ReadCommit, Inv
<1>3. read_idx' \in Index
  BY <1>1, PlusValue DEF ReadCommit, Inv, TypeOK
<1>4. TypeOK'
  BY <1>3, Resets DEF Inv, TypeOK, ReadCommit, writerVars
<1>5. WriterInv'
  BY <1>1, <1>2, SizeAssumption DEF Inv, WriterInv, ReadCommit, writerVars
<1>6. ReaderInv'
  BY <1>1, <1>2 DEF ReaderInv, ReadCommit, Smaller
<1> QED
  BY <1>4, <1>5, <1>6 DEF Inv

LEMMA StutterInv ==
  ASSUME Inv, UNCHANGED vars
  PROVE  Inv'
<1>1. Used' = Used
  BY DEF Used, vars
<1> QED
  BY <1>1 DEF Inv, TypeOK, WriterInv, ReaderInv, vars, writerVars, readerVars

LEMMA NextInv == Inv /\ [Next]_vars => Inv'
  BY WriteBeginInv, WriteCopyInv, WriteCommitInv, RingAvailableInv,
     ReadBeginInv, ReadCopyInv, ReadCommitInv, StutterInv DEF Next

THEOREM RingInvariant == SafeSpec => []Inv
  BY InitInv, NextInv, PTL DEF SafeSpec

--------------------------------------------------------------------------------
(* The safety properties *)

(* Every reachable state is well typed: no memcpy is ever asked for a       *)
(* length outside the buffer, and no index leaves the range of a size_t.    *)
THEOREM TypeCorrect == Spec => []TypeOK
<1>1. Inv => TypeOK
  BY DEF Inv
<1> QED
  BY <1>1, RingInvariant, PTL DEF Spec

(* The producer never laps the consumer, for any size, any width of the     *)
(* indices that the size divides, and any interleaving of the two calls.    *)
THEOREM NeverOverrun == Spec => []NoOverrun
<1>1. Inv => NoOverrun
  BY InvUsed, SizeAssumption DEF Inv, TypeOK, WriterInv, NoOverrun, Smaller
<1> QED
  BY <1>1, RingInvariant, PTL DEF Spec

(* The two memcpy never reach the same slot at the same time: the slots     *)
(* still to be stored lie behind all the queued samples, the slots still to *)
(* be loaded lie among them.                                                *)
THEOREM NeverDataRace == Spec => []NoDataRace
<1>1. ASSUME Inv PROVE NoDataRace
  <2>1. SUFFICES ASSUME NEW i \in written..(to_write - 1),
                        NEW j \in Len(output)..(to_read - 1)
                 PROVE  Address(write_idx, to_write, i)
                          # Address(read_idx, to_read, j)
    BY DEF NoDataRace, ToStore, ToLoad
  <2>2. /\ i \in 0..(to_write - 1) /\ to_write \in 0..N /\ i \in 0..(N - 1)
        /\ Used + i < N
    BY <1>1, InvUsed, SizeAssumption DEF Inv, TypeOK, WriterInv, Smaller
  <2>3. /\ j \in 0..(to_read - 1) /\ to_read \in 0..N /\ j \in 0..(Used - 1)
    BY <1>1, InvUsed, SizeAssumption, ReadAssumption
       DEF Inv, TypeOK, ReaderInv, Smaller
  <2>4. Address(write_idx, to_write, i) = (write_idx + i) % N
    BY <1>1, <2>2, AddressIsSlot DEF Inv, TypeOK
  <2>5. Address(read_idx, to_read, j) = (read_idx + j) % N
    BY <1>1, <2>3, AddressIsSlot DEF Inv, TypeOK
  <2> QED
    BY <1>1, <2>2, <2>3, <2>4, <2>5, CopyMissesQueue DEF Inv
<1> QED
  BY <1>1, RingInvariant, PTL DEF Spec

(* A consumer that was told how much is available gets at least that much.  *)
THEOREM AvailableHolds == Spec => []AvailableIsHonoured
<1>1. Inv => AvailableIsHonoured
  BY ReadAssumption DEF Inv, TypeOK, ReaderInv, AvailableIsHonoured, Smaller
<1> QED
  BY <1>1, RingInvariant, PTL DEF Spec

--------------------------------------------------------------------------------
(* The ring implements the bounded queue *)

(* A window of u slots from index r on, read as a sequence.                 *)
Window(buf, r, u) == [k \in 1..u |-> buf[(r + k - 1) % N]]

LEMMA WindowType ==
  ASSUME NEW buf \in [Slots -> Sample], NEW r \in Int, NEW u \in Nat
  PROVE  /\ Window(buf, r, u) \in Seq(Sample)
         /\ Len(Window(buf, r, u)) = u
         /\ \A k \in 1..u : Window(buf, r, u)[k] = buf[(r + k - 1) % N]
<1>1. ASSUME NEW k \in 1..u
      PROVE  buf[(r + k - 1) % N] \in Sample
  <2>1. r + k - 1 \in Int
    OBVIOUS
  <2>2. (r + k - 1) % N \in Slots
    BY <2>1, ModSplit, SizeAssumption DEF Slots
  <2> QED
    BY <2>2
<1>2. Window(buf, r, u) \in [1..u -> Sample]
  BY <1>1 DEF Window
<1> QED
  BY <1>2 DEF Window

(* The samples between the two indices form a sequence of Used samples.     *)
LEMMA ContentsType ==
  ASSUME Inv
  PROVE  /\ Contents \in Seq(Sample)
         /\ Len(Contents) = Used
         /\ \A k \in 1..Used : Contents[k] = buffer[(read_idx + k - 1) % N]
<1>1. Used \in Nat /\ read_idx \in Int /\ buffer \in [Slots -> Sample]
  BY InvUsed, SizeAssumption, IndexAssumption DEF Inv, TypeOK, Index
<1>2. Contents = Window(buffer, read_idx, Used)
  BY DEF Contents, Window
<1> QED
  BY <1>1, <1>2, WindowType

(* Two sequences of one length that agree at every position are equal.      *)
LEMMA SameSequence ==
  ASSUME NEW S, NEW s \in Seq(S), NEW t \in Seq(S), Len(s) = Len(t),
         \A k \in 1..Len(s) : s[k] = t[k]
  PROVE  s = t
  OBVIOUS

(* The elements of a concatenation.                                         *)
LEMMA Concatenation ==
  ASSUME NEW S, NEW s \in Seq(S), NEW t \in Seq(S)
  PROVE  /\ s \o t \in Seq(S)
         /\ Len(s \o t) = Len(s) + Len(t)
         /\ \A k \in 1..Len(s) : (s \o t)[k] = s[k]
         /\ \A k \in (Len(s) + 1)..(Len(s) + Len(t)) :
              (s \o t)[k] = t[k - Len(s)]
  BY ConcatProperties

LEMMA InitQueue == Init => Queue!Init
<1> SUFFICES ASSUME Init PROVE Queue!Init
  OBVIOUS
<1>1. Inv /\ Used = 0
  BY InitInv, MinusValue, IndexAssumption, SizeAssumption
     DEF Init, Used, Index
<1>2. Contents = <<>>
  BY <1>1, ContentsType
<1> QED
  BY <1>2 DEF Init, Queue!Init

LEMMA WriteBeginQueue ==
  ASSUME Inv, NEW samples \in Chunks, WriteBegin(samples)
  PROVE  Queue!PutCall(samples)
<1>1. Contents' = Contents /\ available_space' = N - Used
  BY DEF WriteBegin, Contents, Used
<1>2. Queue!Free = N - Used
  BY ContentsType DEF Queue!Free
<1> QED
  BY <1>1, <1>2 DEF WriteBegin, readerVars, Queue!PutCall, Queue!getVars

LEMMA WriteCopyQueue ==
  ASSUME Inv, WriteCopy
  PROVE  UNCHANGED Queue!vars
<1>1. Used' = Used /\ Used \in 0..N /\ read_idx' = read_idx
  BY InvUsed DEF Used, WriteCopy
<1>2. written \in 0..(N - 1) /\ written \in 0..(to_write - 1)
      /\ Used + written < N /\ to_write \in 0..N
  BY <1>1, SizeAssumption DEF Inv, TypeOK, WriterInv, WriteCopy, Smaller
<1>3. Address(write_idx, to_write, written) = (write_idx + written) % N
  BY <1>2, AddressIsSlot DEF Inv, TypeOK
<1>4. ASSUME NEW k \in 1..Used
      PROVE  Contents'[k] = Contents[k]
  <2>1. k - 1 \in 0..(Used - 1) /\ read_idx + (k - 1) = read_idx + k - 1
        /\ read_idx + k - 1 \in Int
    BY <1>1, IndexAssumption DEF Inv, TypeOK, Index
  <2>2. (read_idx + k - 1) % N # (write_idx + written) % N
    BY <1>2, <2>1, CopyMissesQueue DEF Inv
  <2>3. (read_idx + k - 1) % N \in Slots
    BY <2>1, ModSplit, SizeAssumption DEF Slots
  <2>4. buffer'[(read_idx + k - 1) % N] = buffer[(read_idx + k - 1) % N]
    BY <1>3, <2>2, <2>3 DEF Inv, TypeOK, WriteCopy
  <2> QED
    BY <1>1, <2>4 DEF Contents
<1>5. Contents' = Contents
  BY <1>1, <1>4 DEF Contents
<1> QED
  BY <1>5 DEF WriteCopy, readerVars, Queue!vars

LEMMA WriteCommitQueue ==
  ASSUME Inv, WriteCommit
  PROVE  Queue!PutReturn
<1> DEFINE accepted == SubSeq(input, 1, to_write)
<1>1. /\ Used \in 0..N /\ to_write \in 0..N /\ Used + to_write <= N
      /\ available_space \in 0..N /\ available_space + Used <= N
      /\ to_write = Smaller(Len(input), available_space)
      /\ to_write <= Len(input) /\ input \in Seq(Sample)
  BY InvUsed, SizeAssumption DEF Inv, TypeOK, WriterInv, Smaller
<1>2. Used' = Used + to_write
  BY <1>1, UsedAfterWrite DEF Used, WriteCommit, Inv
<1>3. /\ Contents \in Seq(Sample) /\ Len(Contents) = Used
      /\ \A k \in 1..Used : Contents[k] = buffer[(read_idx + k - 1) % N]
  BY ContentsType
<1>4. /\ Contents' \in Seq(Sample) /\ Len(Contents') = Used + to_write
      /\ \A k \in 1..(Used + to_write) :
           Contents'[k] = buffer[(read_idx + k - 1) % N]
  <2>1. Contents' = Window(buffer, read_idx, Used + to_write)
    BY <1>2 DEF Contents, Window, WriteCommit
  <2>2. /\ Used + to_write \in Nat /\ read_idx \in Int
        /\ buffer \in [Slots -> Sample]
    BY <1>1, IndexAssumption DEF Inv, TypeOK, Index
  <2> QED
    BY <2>1, <2>2, WindowType, SizeAssumption
<1>5. /\ accepted \in Seq(Sample) /\ Len(accepted) = to_write
      /\ \A k \in 1..to_write : accepted[k] = input[k]
  BY <1>1
<1> HIDE DEF accepted
<1>6. /\ Contents \o accepted \in Seq(Sample)
      /\ Len(Contents \o accepted) = Used + to_write
      /\ \A k \in 1..Used : (Contents \o accepted)[k] = Contents[k]
      /\ \A k \in (Used + 1)..(Used + to_write) :
           (Contents \o accepted)[k] = accepted[k - Used]
  <2> DEFINE c == Contents
  <2>1. c \in Seq(Sample) /\ accepted \in Seq(Sample)
    BY <1>3, <1>5
  <2> HIDE DEF c
  <2>2. /\ c \o accepted \in Seq(Sample)
        /\ Len(c \o accepted) = Len(c) + Len(accepted)
        /\ \A k \in 1..Len(c) : (c \o accepted)[k] = c[k]
        /\ \A k \in (Len(c) + 1)..(Len(c) + Len(accepted)) :
             (c \o accepted)[k] = accepted[k - Len(c)]
    BY <2>1, Concatenation
  <2> QED
    BY <2>2, <1>3, <1>5 DEF c
<1>7. ASSUME NEW k \in 1..(Used + to_write)
      PROVE  Contents'[k] = (Contents \o accepted)[k]
  <2>1. CASE k \in 1..Used
    BY <2>1, <1>3, <1>4, <1>6
  <2>2. CASE k \in (Used + 1)..(Used + to_write)
    <3>1. /\ k - Used \in 1..to_write /\ k - Used - 1 \in 0..(written - 1)
          /\ k - Used - 1 \in Int
      BY <2>2, <1>1 DEF WriteCommit
    <3>2. buffer[(write_idx + (k - Used - 1)) % N] = input[k - Used]
      <4>1. (k - Used - 1) + 1 = k - Used
        BY <3>1, <1>1
      <4> QED
        BY <3>1, <4>1 DEF Inv, WriterInv
    <3>3. (write_idx + (k - Used - 1)) % N
            = (read_idx + Used + (k - Used - 1)) % N
      BY <3>1, <1>1, WriteSlot DEF Inv
    <3>4. read_idx + Used + (k - Used - 1) = read_idx + k - 1
      BY <1>1, IndexAssumption DEF Inv, TypeOK, Index
    <3>5. Contents'[k] = accepted[k - Used]
      BY <1>4, <1>5, <3>1, <3>2, <3>3, <3>4
    <3> QED
      BY <3>5, <2>2, <1>6
  <2>3. k \in 1..Used \/ k \in (Used + 1)..(Used + to_write)
    BY <1>1, SizeAssumption
  <2> QED
    BY <2>1, <2>2, <2>3
<1>8. Contents' = Contents \o accepted
  BY <1>4, <1>6, <1>7, SameSequence
<1>9. available_space \in available_space..Queue!Free
  BY <1>1, <1>3, SizeAssumption DEF Queue!Free
<1>10. \E free \in available_space..Queue!Free :
        Contents' = Contents \o
                      SubSeq(input, 1, Queue!Smaller(Len(input), free))
  BY <1>1, <1>8, <1>9 DEF accepted, Smaller, Queue!Smaller
<1> QED
  BY <1>10 DEF WriteCommit, readerVars, Queue!PutReturn, Queue!getVars

LEMMA RingAvailableQueue ==
  ASSUME Inv, RingAvailable
  PROVE  UNCHANGED Queue!vars
<1>1. Contents' = Contents
  BY DEF RingAvailable, Contents, Used
<1> QED
  BY <1>1 DEF RingAvailable, writerVars, Queue!vars

LEMMA ReadBeginQueue ==
  ASSUME Inv, NEW n \in 0..MaxRead, ReadBegin(n)
  PROVE  Queue!GetCall(n)
<1>1. Contents' = Contents /\ available' = Len(Contents)
  BY ContentsType DEF ReadBegin, Contents, Used
<1> QED
  BY <1>1 DEF ReadBegin, writerVars, Queue!GetCall, Queue!putVars

LEMMA ReadCopyQueue ==
  ASSUME Inv, ReadCopy
  PROVE  UNCHANGED Queue!vars
<1>1. Contents' = Contents
  BY DEF ReadCopy, Contents, Used
<1> QED
  BY <1>1 DEF ReadCopy, writerVars, Queue!vars

(* The first elements of a sequence, and the rest of it.                    *)
LEMMA Split ==
  ASSUME NEW S, NEW s \in Seq(S), NEW n \in 0..Len(s)
  PROVE  /\ SubSeq(s, 1, n) \in Seq(S)
         /\ Len(SubSeq(s, 1, n)) = n
         /\ \A k \in 1..n : SubSeq(s, 1, n)[k] = s[k]
         /\ SubSeq(s, n + 1, Len(s)) \in Seq(S)
         /\ Len(SubSeq(s, n + 1, Len(s))) = Len(s) - n
         /\ \A k \in 1..(Len(s) - n) :
              SubSeq(s, n + 1, Len(s))[k] = s[n + k]
<1>1. /\ SubSeq(s, 1, n) \in Seq(S)
      /\ Len(SubSeq(s, 1, n)) = n
      /\ \A k \in 1..n : SubSeq(s, 1, n)[k] = s[k]
  OBVIOUS
<1>2. /\ SubSeq(s, n + 1, Len(s)) \in Seq(S)
      /\ Len(SubSeq(s, n + 1, Len(s))) = Len(s) - n
  OBVIOUS
<1>3. ASSUME NEW k \in 1..(Len(s) - n)
      PROVE  SubSeq(s, n + 1, Len(s))[k] = s[n + k]
  OBVIOUS
<1> QED
  BY <1>1, <1>2, <1>3

LEMMA ReadCommitQueue ==
  ASSUME Inv, ReadCommit
  PROVE  Queue!GetReturn
<1> DEFINE c == Contents
           n == to_read
<1>1. /\ Used \in 0..N /\ Used \in Nat /\ n \in 0..Used /\ n \in Nat
      /\ available \in 0..N /\ available <= Used
      /\ read_idx \in Index /\ read_idx \in Int
      /\ buffer \in [Slots -> Sample] /\ n \in 0..N
  BY InvUsed, SizeAssumption, IndexAssumption, ReadAssumption
     DEF Inv, TypeOK, ReaderInv, Smaller, Index
<1>2. Used' = Used - n
  BY <1>1, UsedAfterRead DEF Used, ReadCommit, Inv
<1>3. /\ c \in Seq(Sample) /\ Len(c) = Used
      /\ \A k \in 1..Used : c[k] = buffer[(read_idx + k - 1) % N]
  BY ContentsType
<1>4. /\ c' \in Seq(Sample) /\ Len(c') = Used - n
      /\ \A k \in 1..(Used - n) : c'[k] = buffer[(read_idx' + k - 1) % N]
  <2>1. c' = Window(buffer, read_idx', Used - n)
    BY <1>2 DEF Contents, Window, ReadCommit
  <2>2. Used - n \in Nat /\ read_idx' \in Int
    BY <1>1, PlusValue, IndexAssumption DEF ReadCommit, Index
  <2> QED
    BY <1>1, <2>1, <2>2, WindowType
<1> HIDE DEF c
<1>5. /\ SubSeq(c, 1, n) \in Seq(Sample)
      /\ Len(SubSeq(c, 1, n)) = n
      /\ \A k \in 1..n : SubSeq(c, 1, n)[k] = c[k]
      /\ SubSeq(c, n + 1, Len(c)) \in Seq(Sample)
      /\ Len(SubSeq(c, n + 1, Len(c))) = Used - n
      /\ \A k \in 1..(Used - n) : SubSeq(c, n + 1, Len(c))[k] = c[n + k]
  BY <1>1, <1>3, Split
<1>6. output = SubSeq(c, 1, n)
  <2>1. /\ output \in Seq(Sample) /\ Len(output) = n
        /\ \A k \in 1..n : output[k] = buffer[(read_idx + k - 1) % N]
    BY DEF Inv, TypeOK, ReaderInv, ReadCommit
  <2>2. \A k \in 1..n : output[k] = SubSeq(c, 1, n)[k]
    <3>1. \A k \in 1..n : k \in 1..Used
      BY <1>1
    <3> QED
      BY <1>3, <1>5, <2>1, <3>1
  <2> QED
    BY <1>5, <2>1, <2>2, SameSequence
<1>7. c' = SubSeq(c, n + 1, Len(c))
  <2>1. ASSUME NEW k \in 1..(Used - n)
        PROVE  c'[k] = SubSeq(c, n + 1, Len(c))[k]
    <3>1. /\ k - 1 \in Int /\ n + k \in 1..Used
          /\ read_idx' + k - 1 = Plus(read_idx, n) + (k - 1)
      BY <1>1, PlusValue DEF ReadCommit, Index
    <3>2. (Plus(read_idx, n) + (k - 1)) % N = (read_idx + n + (k - 1)) % N
      BY <1>1, <3>1, SlotOfWrapped
    <3>3. read_idx + n + (k - 1) = read_idx + (n + k) - 1
      BY <1>1
    <3>4. c'[k] = buffer[(read_idx + (n + k) - 1) % N]
      BY <1>4, <3>1, <3>2, <3>3
    <3> QED
      BY <1>3, <1>5, <3>1, <3>4
  <2> QED
    BY <1>4, <1>5, <2>1, SameSequence
<1>8. n = Queue!Smaller(num_samples, available) /\ available \in available..Len(c)
  BY <1>1, <1>3 DEF Inv, ReaderInv, Smaller, Queue!Smaller
<1>9. /\ reading' = FALSE /\ output' = output /\ num_samples' = 0
      /\ available' = 0 /\ UNCHANGED <<writing, input, available_space>>
  BY DEF ReadCommit, writerVars
<1> HIDE DEF n
<1>10. \E queued \in available..Len(c) :
         /\ output' = SubSeq(c, 1, Queue!Smaller(num_samples, queued))
         /\ c' = SubSeq(c, Queue!Smaller(num_samples, queued) + 1, Len(c))
  BY <1>6, <1>7, <1>8, <1>9
<1> QED
  BY <1>9, <1>10 DEF ReadCommit, Queue!GetReturn, Queue!putVars, c

LEMMA StutterQueue ==
  ASSUME UNCHANGED vars
  PROVE  UNCHANGED Queue!vars
<1>1. Contents' = Contents
  BY DEF vars, Contents, Used
<1> QED
  BY <1>1 DEF vars, writerVars, readerVars, Queue!vars

(* The ring implements the bounded first-in first-out queue: every step of  *)
(* the two calls is a step of the queue or is invisible to it.              *)
THEOREM RingIsAQueue == Spec => Queue!SafeSpec
<1>1. Inv /\ [Next]_vars => [Queue!Next]_Queue!vars
  BY WriteBeginQueue, WriteCopyQueue, WriteCommitQueue, RingAvailableQueue,
     ReadBeginQueue, ReadCopyQueue, ReadCommitQueue, StutterQueue
     DEF Next, Queue!Next
<1> QED
  BY <1>1, InitQueue, RingInvariant, PTL DEF Spec, SafeSpec, Queue!SafeSpec
================================================================================
