---------------------------- MODULE KeyboardProofs ----------------------------
(***************************************************************************)
(* Proofs, for every buffer size and every count a program passes, of the  *)
(* type invariant, RingIsConsistent and StoresInsideBuffer of Keyboard; of *)
(* DropsOnlyWhenFull; and that the buffer implements InputQueue.           *)
(***************************************************************************)
EXTENDS Keyboard, SequenceTheorems, TLAPS

-----------------------------------------------------------------------------
(* The remainder that BUFFER_SIZE wraps positions with, for the positions  *)
(* the code wraps.                                                         *)
LEMMA SlotMeans ==
  /\ \A i \in 0..(BufferSize - 1) : Slot(i) = i
  /\ \A i \in BufferSize..(2 * BufferSize - 1) : Slot(i) = i - BufferSize
  BY BufferAssumption DEF Slot

(* Advancing a position by one and then by k is advancing it by k + 1.     *)
LEMMA SlotShift ==
  \A a, k \in 0..(BufferSize - 1) :
    /\ Slot(Slot(a + 1) + k) = Slot(a + k + 1)
    /\ Slot(Slot(a + k) + 1) = Slot(a + k + 1)
    /\ Slot(a + k) \in 0..(BufferSize - 1)
  <1> TAKE a, k \in 0..(BufferSize - 1)
  <1>1. BufferSize \in Nat /\ BufferSize > 0
    BY BufferAssumption
  <1>2. Slot(Slot(a + 1) + k) = Slot(a + k + 1)
    <2>1. CASE a + 1 < BufferSize
      <3>1. Slot(a + 1) = a + 1
        BY <1>1, <2>1, SlotMeans
      <3> QED BY <1>1, <3>1
    <2>2. CASE a + 1 = BufferSize
      <3>1. Slot(a + 1) = 0 /\ Slot(k) = k /\ Slot(a + k + 1) = k
        BY <1>1, <2>2, SlotMeans
      <3> QED BY <1>1, <3>1
    <2> QED BY <1>1, <2>1, <2>2
  <1>3. Slot(Slot(a + k) + 1) = Slot(a + k + 1)
    <2>1. CASE a + k < BufferSize
      <3>1. Slot(a + k) = a + k
        BY <1>1, <2>1, SlotMeans
      <3> QED BY <3>1
    <2>2. CASE BufferSize <= a + k
      <3>1. Slot(a + k) = a + k - BufferSize /\ a + k - BufferSize + 1 \in 0..(BufferSize - 1)
        BY <1>1, <2>2, SlotMeans
      <3>2. Slot(Slot(a + k) + 1) = a + k + 1 - BufferSize
        BY <1>1, <3>1, SlotMeans
      <3>3. Slot(a + k + 1) = a + k + 1 - BufferSize
        BY <1>1, <2>2, <3>1, SlotMeans
      <3> QED BY <3>2, <3>3
    <2> QED BY <1>1, <2>1, <2>2
  <1>4. Slot(a + k) \in 0..(BufferSize - 1)
    <2>1. CASE a + k < BufferSize
      BY <1>1, <2>1, SlotMeans
    <2>2. CASE BufferSize <= a + k
      BY <1>1, <2>2, SlotMeans
    <2> QED BY <1>1, <2>1, <2>2
  <1> QED BY <1>2, <1>3, <1>4

-----------------------------------------------------------------------------
(* The inductive invariant: the three invariants, and what the reader's    *)
(* own position and the handler's rely on.                                 *)
ControlShape ==
  /\ handling => wire # <<>>
  /\ pc = "read" => num <= want

Inv == TypeOK /\ RingIsConsistent /\ StoresInsideBuffer /\ ControlShape

LEMMA InitInv == Init => Inv
  <1> SUFFICES ASSUME Init PROVE Inv
    OBVIOUS
  <1>1. BufferSize \in Nat /\ BufferSize > 0 /\ CountLimit \in Nat /\ CountLimit > 0
        /\ WireSize \in Nat
    BY BufferAssumption, CountAssumption, WireAssumption
  <1>2. TypeOK
    <2>1. wire \in Seq(Char \union {OtherKey}) /\ Len(wire) <= WireSize
      BY <1>1 DEF Init
    <2>2. buffer \in [0..(BufferSize - 1) -> Char \union {Nothing}]
      BY DEF Init
    <2>3. /\ 0 \in 0..(BufferSize - 1) /\ 0 \in 0..BufferSize /\ 0 \in 0..(CountLimit - 1)
          /\ "user" \in {"user", "read", "wait", "fetch", "decrement", "use"}
      BY <1>1
    <2> QED BY <2>1, <2>2, <2>3, Zenon DEF Init, TypeOK
  <1>3. RingIsConsistent
    BY <1>1, SlotMeans DEF Init, RingIsConsistent, Pending
  <1>4. StoresInsideBuffer /\ ControlShape
    BY <1>1 DEF Init, StoresInsideBuffer, ControlShape
  <1> QED BY <1>2, <1>3, <1>4 DEF Inv

(* Steps that leave the ring, the reader and its position alone.           *)
LEMMA DeviceInv ==
  ASSUME Inv,
         (\E code \in Char \union {OtherKey} : PressKey(code)) \/ TakeIrq1
  PROVE  Inv'
  <1>1. UNCHANGED <<ring, reader>>
    BY DEF PressKey, TakeIrq1, ring, reader
  <1>2. UNCHANGED <<buffer, read, write, count, pc, held, want, num>>
    BY <1>1 DEF ring, reader
  <1>3. /\ wire' \in Seq(Char \union {OtherKey}) /\ Len(wire') <= WireSize
        /\ (handling' => wire' # <<>>)
        /\ interrupts' \in BOOLEAN /\ handling' \in BOOLEAN /\ inService' \in BOOLEAN
    <2>1. CASE TakeIrq1
      BY <2>1 DEF TakeIrq1, Inv, TypeOK
    <2>2. ASSUME NEW code \in Char \union {OtherKey}, PressKey(code)
          PROVE  /\ wire' \in Seq(Char \union {OtherKey}) /\ Len(wire') <= WireSize
                 /\ (handling' => wire' # <<>>)
                 /\ interrupts' \in BOOLEAN /\ handling' \in BOOLEAN /\ inService' \in BOOLEAN
      BY <2>2, WireAssumption DEF PressKey, Inv, TypeOK
    <2> QED BY <2>1, <2>2
  <1>4. TypeOK'
    BY <1>2, <1>3 DEF Inv, TypeOK
  <1>5. RingIsConsistent' /\ StoresInsideBuffer' /\ ControlShape'
    BY <1>2, <1>3 DEF Inv, RingIsConsistent, Pending, StoresInsideBuffer, ControlShape
  <1> QED BY <1>4, <1>5 DEF Inv

(* The handler may strike anywhere in the reader: what it adds comes after *)
(* all that is pending.                                                    *)
LEMMA HandleIrq1Inv ==
  ASSUME Inv, HandleIrq1
  PROVE  Inv'
  <1>1. /\ BufferSize \in Nat /\ BufferSize > 0 /\ WireSize \in Nat
        /\ read \in 0..(BufferSize - 1) /\ write \in 0..(BufferSize - 1)
        /\ count \in 0..BufferSize
        /\ buffer \in [0..(BufferSize - 1) -> Char \union {Nothing}]
    BY BufferAssumption, WireAssumption DEF Inv, TypeOK
  <1>2. UNCHANGED <<pc, held, want, num>>
    BY DEF HandleIrq1, reader
  <1>3. /\ wire' \in Seq(Char \union {OtherKey}) /\ Len(wire') <= WireSize
        /\ handling' = FALSE /\ interrupts' \in BOOLEAN /\ inService' \in BOOLEAN
    <2>1. wire \in Seq(Char \union {OtherKey}) /\ wire # <<>> /\ Len(wire) <= WireSize
      BY DEF HandleIrq1, Inv, TypeOK, ControlShape
    <2>2. wire' = Tail(wire)
      BY DEF HandleIrq1
    <2>3. Len(wire') = Len(wire) - 1 /\ Len(wire) \in Nat /\ wire' \in Seq(Char \union {OtherKey})
      BY <2>1, <2>2
    <2> QED BY <1>1, <2>1, <2>3 DEF HandleIrq1
  <1>4. StoresInsideBuffer' /\ ControlShape'
    BY <1>2, <1>3 DEF Inv, StoresInsideBuffer, ControlShape
  <1>5. CASE UNCHANGED ring
    <2>1. TypeOK'
      BY <1>2, <1>3, <1>5 DEF ring, Inv, TypeOK
    <2>2. RingIsConsistent'
      BY <1>2, <1>5 DEF ring, Inv, RingIsConsistent, Pending
    <2> QED BY <1>4, <2>1, <2>2 DEF Inv
  <1>6. CASE Head(wire) \in Char /\ count # BufferSize
    <2> DEFINE c == Head(wire)
    <2>1. /\ buffer' = [buffer EXCEPT ![write] = c]
          /\ write' = Slot(write + 1)
          /\ count' = count + 1
          /\ read' = read
      BY <1>6 DEF HandleIrq1, AddToBuffer
    <2>2. Pending \in 0..(BufferSize - 1) /\ Pending' = Pending + 1
      BY <1>1, <1>2, <1>6, <2>1 DEF Inv, RingIsConsistent, Pending
    <2>3. write = Slot(read + Pending) /\ write' = Slot(read + Pending')
      <3>1. write = Slot(read + Pending)
        BY DEF Inv, RingIsConsistent
      <3>2. Slot(Slot(read + Pending) + 1) = Slot(read + Pending + 1)
        BY <1>1, <2>2, SlotShift
      <3>3. read + Pending + 1 = read + Pending'
        BY <1>1, <2>2
      <3> QED BY <2>1, <3>1, <3>2, <3>3
    <2>4. write' \in 0..(BufferSize - 1)
      <3>1. Slot(write + 0 + 1) = write' /\ 0 \in 0..(BufferSize - 1)
        BY <1>1, <2>1
      <3>2. CASE write + 1 < BufferSize
        BY <1>1, <2>1, <3>2, SlotMeans
      <3>3. CASE write + 1 = BufferSize
        BY <1>1, <2>1, <3>3, SlotMeans
      <3> QED BY <1>1, <3>2, <3>3
    <2>5. \A i \in 0..(Pending' - 1) : buffer'[Slot(read' + i)] \in Char
      <3> SUFFICES ASSUME NEW i \in 0..(Pending' - 1)
                   PROVE  buffer'[Slot(read + i)] \in Char
        BY <2>1
      <3>1. i \in 0..(BufferSize - 1) /\ Slot(read + i) \in 0..(BufferSize - 1)
        <4>1. i \in 0..(BufferSize - 1)
          BY <1>1, <2>2
        <4> QED BY <1>1, <4>1, SlotShift
      <3>2. CASE Slot(read + i) = write
        BY <1>1, <1>6, <2>1, <3>2
      <3>3. CASE Slot(read + i) # write
        <4>1. i \in 0..(Pending - 1)
          BY <2>2, <2>3, <3>3
        <4> QED BY <1>1, <2>1, <3>1, <3>3, <4>1 DEF Inv, RingIsConsistent
      <3> QED BY <3>2, <3>3
    <2>6. TypeOK'
      <3>1. buffer' \in [0..(BufferSize - 1) -> Char \union {Nothing}]
        BY <1>1, <1>6, <2>1
      <3>2. count' \in 0..BufferSize
        BY <1>1, <1>6, <2>1
      <3> QED BY <1>1, <1>2, <1>3, <2>1, <2>4, <3>1, <3>2 DEF Inv, TypeOK
    <2>7. RingIsConsistent'
      BY <1>1, <1>2, <2>1, <2>3, <2>5 DEF Inv, RingIsConsistent
    <2> QED BY <1>4, <2>6, <2>7 DEF Inv
  <1> QED BY <1>5, <1>6 DEF HandleIrq1, AddToBuffer

-----------------------------------------------------------------------------
(* Steps of the reader that leave the ring, the wire and the count alone.  *)
LEMMA ReaderControlInv ==
  ASSUME Inv,
         (\E fd \in ReadFd, n \in ReadCount : CallRead(fd, n)) \/ ReadMore \/ ReadReturns
           \/ SeeCharacter \/ UseCharacter
  PROVE  Inv'
  <1>1. UNCHANGED <<ring, device>>
    BY DEF CallRead, ReadMore, ReadReturns, SeeCharacter, UseCharacter
  <1>2. UNCHANGED <<buffer, read, write, count, wire, handling, inService>>
    BY <1>1 DEF ring, device
  <1>3. /\ CountLimit \in Nat /\ CountLimit > 0 /\ ReadCount \subseteq Nat
        /\ want \in 0..(CountLimit - 1) /\ num \in 0..(CountLimit - 1)
        /\ held \in Char \union {Nothing} /\ interrupts \in BOOLEAN
        /\ count \in 0..BufferSize /\ BufferSize \in Nat
    BY CountAssumption, BufferAssumption DEF Inv, TypeOK
  <1>4. /\ pc' \in {"user", "refuse", "read", "wait", "fetch", "use"}
        /\ pc # "decrement"
        /\ pc' = "fetch" => count > 0
        /\ held' = held /\ interrupts' \in BOOLEAN
        /\ want' \in 0..(CountLimit - 1) /\ num' \in 0..(CountLimit - 1)
        /\ StoresInsideBuffer'
        /\ pc' = "read" => num' <= want'
    <2>1. ASSUME NEW fd \in ReadFd, NEW n \in ReadCount, CallRead(fd, n) PROVE <1>4!:
      BY <1>3, <2>1 DEF CallRead, StoresInsideBuffer, SyscallGate
    <2>2. CASE ReadMore
      BY <1>3, <2>2 DEF ReadMore, StoresInsideBuffer
    <2>3. CASE ReadReturns
      BY <1>3, <2>3 DEF ReadReturns, StoresInsideBuffer
    <2>4. CASE SeeCharacter
      BY <1>3, <2>4 DEF SeeCharacter, StoresInsideBuffer, Inv
    <2>5. CASE UseCharacter
      <3>1. num \in 0..(want - 1)
        BY <2>5 DEF UseCharacter, Inv, StoresInsideBuffer
      <3> QED BY <1>3, <2>5, <3>1 DEF UseCharacter, StoresInsideBuffer
    <2> QED BY <2>1, <2>2, <2>3, <2>4, <2>5
  <1>5. TypeOK'
    BY <1>2, <1>4 DEF Inv, TypeOK
  <1>6. RingIsConsistent' /\ ControlShape'
    BY <1>2, <1>4 DEF Inv, RingIsConsistent, Pending, ControlShape
  <1> QED BY <1>4, <1>5, <1>6 DEF Inv

(* Between the fetch and the decrement the character is no longer pending, *)
(* though buffer_count still counts it.                                    *)
LEMMA FetchInv ==
  ASSUME Inv, FetchCharacter
  PROVE  Inv'
  <1>1. /\ BufferSize \in Nat /\ BufferSize > 0
        /\ read \in 0..(BufferSize - 1) /\ count \in 0..BufferSize
        /\ buffer \in [0..(BufferSize - 1) -> Char \union {Nothing}]
    BY BufferAssumption DEF Inv, TypeOK
  <1>2. /\ pc = "fetch" /\ pc' = "decrement" /\ count' = count
        /\ read' = Slot(read + 1) /\ held' = buffer[read]
        /\ UNCHANGED <<buffer, write, wire, handling, inService, interrupts, want, num>>
    BY DEF FetchCharacter, device
  <1>3. count > 0 /\ Pending = count /\ Pending' = count - 1
    BY <1>2 DEF Inv, RingIsConsistent, Pending
  <1>4. read' \in 0..(BufferSize - 1)
    <2>1. CASE read + 1 < BufferSize
      BY <1>1, <1>2, <2>1, SlotMeans
    <2>2. CASE read + 1 = BufferSize
      BY <1>1, <1>2, <2>2, SlotMeans
    <2> QED BY <1>1, <2>1, <2>2
  <1>5. \A k \in 0..(count - 1) : Slot(read' + k) = Slot(read + (k + 1))
    <2> SUFFICES ASSUME NEW k \in 0..(count - 1)
                 PROVE  Slot(read' + k) = Slot(read + (k + 1))
      OBVIOUS
    <2>1. k \in 0..(BufferSize - 1) /\ read + k + 1 = read + (k + 1)
      BY <1>1
    <2> QED BY <1>1, <1>2, <2>1, SlotShift
  <1>6. write' = Slot(read' + Pending')
    <2>1. count - 1 \in 0..(count - 1) /\ count - 1 + 1 = count
      BY <1>1, <1>3
    <2>2. write = Slot(read + count)
      BY <1>3 DEF Inv, RingIsConsistent
    <2> QED BY <1>2, <1>3, <1>5, <2>1, <2>2
  <1>7. \A i \in 0..(Pending' - 1) : buffer'[Slot(read' + i)] \in Char
    <2> SUFFICES ASSUME NEW i \in 0..(count - 2)
                 PROVE  buffer[Slot(read' + i)] \in Char
      BY <1>1, <1>2, <1>3
    <2>1. i \in 0..(count - 1) /\ i + 1 \in 0..(count - 1)
      BY <1>1
    <2> QED BY <1>3, <1>5, <2>1 DEF Inv, RingIsConsistent
  <1>8. TypeOK'
    BY <1>1, <1>2, <1>4 DEF Inv, TypeOK
  <1>9. RingIsConsistent'
    BY <1>2, <1>3, <1>6, <1>7 DEF RingIsConsistent
  <1>10. StoresInsideBuffer' /\ ControlShape'
    BY <1>2 DEF Inv, StoresInsideBuffer, ControlShape
  <1> QED BY <1>8, <1>9, <1>10 DEF Inv

(* The decrement catches buffer_count up with what is pending.             *)
LEMMA DecrementInv ==
  ASSUME Inv, Decrement
  PROVE  Inv'
  <1>1. BufferSize \in Nat /\ count \in 0..BufferSize
    BY BufferAssumption DEF Inv, TypeOK
  <1>2. /\ pc = "decrement" /\ pc' = "use" /\ count' = count - 1
        /\ UNCHANGED <<buffer, read, write, wire, handling, inService,
                       interrupts, held, want, num>>
    BY DEF Decrement, device
  <1>3. count > 0 /\ Pending' = Pending
    BY <1>2 DEF Inv, RingIsConsistent, Pending
  <1>4. TypeOK'
    BY <1>1, <1>2, <1>3 DEF Inv, TypeOK
  <1>5. RingIsConsistent' /\ StoresInsideBuffer' /\ ControlShape'
    BY <1>2, <1>3 DEF Inv, RingIsConsistent, StoresInsideBuffer, ControlShape
  <1> QED BY <1>4, <1>5 DEF Inv

-----------------------------------------------------------------------------
(* Every step, and a step that changes nothing, preserves the invariant.   *)
LEMMA NextInv == Inv /\ [Next]_vars => Inv'
  <1> SUFFICES ASSUME Inv, [Next]_vars PROVE Inv'
    OBVIOUS
  <1>1. CASE UNCHANGED vars
    <2>1. UNCHANGED <<buffer, read, write, count, wire, handling, inService,
                      interrupts, pc, held, want, num>>
      BY <1>1 DEF vars, ring, device, reader
    <2> QED BY <2>1 DEF Inv, TypeOK, RingIsConsistent, Pending, StoresInsideBuffer, ControlShape
  <1>2. CASE \E code \in Char \union {OtherKey} : PressKey(code)
    BY <1>2, DeviceInv
  <1>3. CASE \E fd \in ReadFd, n \in ReadCount : CallRead(fd, n)
    BY <1>3, ReaderControlInv
  <1>4. CASE Irq1
    BY <1>4, DeviceInv, HandleIrq1Inv DEF Irq1
  <1>5. CASE Reader
    BY <1>5, ReaderControlInv, FetchInv, DecrementInv DEF Reader
  <1> QED BY <1>1, <1>2, <1>3, <1>4, <1>5 DEF Next

(* The invariant holds in every behaviour.                                 *)
LEMMA SpecInv == Spec => []Inv
  BY InitInv, NextInv, PTL DEF Spec, SafetySpec

(* Every variable of the keyboard path keeps its type: positions stay      *)
(* inside key_buffer, buffer_count between 0 and BUFFER_SIZE, whatever the *)
(* interleaving of the handler with kgetc.                                 *)
THEOREM TypeCorrect == Spec => []TypeOK
  <1>1. Inv => TypeOK
    BY DEF Inv
  <1> QED BY <1>1, SpecInv, PTL

(* The positions and the count agree for every BUFFER_SIZE, so kgetc reads *)
(* only slots that the handler filled, and the handler overwrites none     *)
(* that is unread.                                                         *)
THEOREM RingStaysConsistent == Spec => []RingIsConsistent
  <1>1. Inv => RingIsConsistent
    BY DEF Inv
  <1> QED BY <1>1, SpecInv, PTL

(* sys_read never stores outside the caller's buffer, for every count and  *)
(* every sequence of characters and backspaces.                            *)
THEOREM ReadStoresInsideBuffer == Spec => []StoresInsideBuffer
  <1>1. Inv => StoresInsideBuffer
    BY DEF Inv
  <1> QED BY <1>1, SpecInv, PTL

-----------------------------------------------------------------------------
(* Two positions less than BUFFER_SIZE apart have different slots.         *)
LEMMA SlotsDiffer ==
  \A a, j, k \in 0..(BufferSize - 1) : j < k => Slot(a + j) # Slot(a + k)
  <1> TAKE a, j, k \in 0..(BufferSize - 1)
  <1>1. BufferSize \in Nat /\ BufferSize > 0
    BY BufferAssumption
  <1>2. CASE a + j < BufferSize
    <2>1. Slot(a + j) = a + j
      BY <1>1, <1>2, SlotMeans
    <2>2. CASE a + k < BufferSize
      BY <1>1, <2>1, <2>2, SlotMeans
    <2>3. CASE a + k >= BufferSize
      BY <1>1, <2>1, <2>3, SlotMeans
    <2> QED BY <1>1, <2>2, <2>3
  <1>3. CASE a + j >= BufferSize
    <2>1. Slot(a + j) = a + j - BufferSize
      BY <1>1, <1>3, SlotMeans
    <2>2. CASE a + k >= BufferSize
      BY <1>1, <2>1, <2>2, SlotMeans
    <2>3. CASE a + k < BufferSize
      BY <1>1, <1>3, <2>3
    <2> QED BY <1>1, <2>2, <2>3
  <1> QED BY <1>1, <1>2, <1>3

(* A function on 1..n is a sequence of n elements.                         *)
LEMMA FunctionIsSeq ==
  ASSUME NEW S, NEW n \in Nat, NEW q \in [1..n -> S]
  PROVE  q \in Seq(S) /\ Len(q) = n
  OBVIOUS

(* The n characters from position r on, read off the buffer b.             *)
Window(b, r, n) == [i \in 1..n |-> b[Slot(r + i - 1)]]

Filled(b, r, n) == \A i \in 0..(n - 1) : b[Slot(r + i)] \in Char

IsWindow(q, b, r, n) ==
  /\ q \in Seq(Char) /\ Len(q) = n
  /\ \A i \in 1..n : q[i] = b[Slot(r + (i - 1))]

(* If the slots are filled they are a sequence of n characters.            *)
LEMMA Stretch ==
  ASSUME NEW b \in [0..(BufferSize - 1) -> Char \union {Nothing}],
         NEW r \in 0..(BufferSize - 1), NEW n \in 0..BufferSize,
         Filled(b, r, n)
  PROVE  IsWindow(Window(b, r, n), b, r, n)
  <1> DEFINE q == Window(b, r, n)
  <1>1. BufferSize \in Nat
    BY BufferAssumption
  <1>2. \A i \in 1..n : q[i] = b[Slot(r + (i - 1))] /\ q[i] \in Char
    <2> TAKE i \in 1..n
    <2>1. i - 1 \in 0..(n - 1) /\ r + i - 1 = r + (i - 1)
      BY <1>1
    <2>2. q[i] = b[Slot(r + (i - 1))]
      BY <2>1 DEF Window
    <2>3. b[Slot(r + (i - 1))] \in Char
      BY <2>1 DEF Filled
    <2> QED BY <2>2, <2>3
  <1>3. n \in Nat /\ q \in [1..n -> Char]
    <2>1. n \in Nat
      BY <1>1
    <2>2. DOMAIN q = 1..n
      BY DEF Window
    <2>3. \A i \in DOMAIN q : q[i] \in Char
      BY <1>2, <2>2
    <2>4. q = [i \in 1..n |-> q[i]]
      BY DEF Window
    <2> QED BY <2>1, <2>2, <2>3, <2>4
  <1>4. q \in Seq(Char) /\ Len(q) = n
    BY <1>3, FunctionIsSeq
  <1> QED BY <1>2, <1>4 DEF IsWindow

(* The pending characters are the queue.                                   *)
LEMMA QueueOfInv ==
  ASSUME Inv
  PROVE  /\ Pending \in 0..BufferSize
         /\ Queue \in Seq(Char) /\ Len(Queue) = Pending
         /\ \A i \in 1..Pending : Queue[i] = buffer[Slot(read + (i - 1))]
  <1>1. Pending \in 0..BufferSize
    BY BufferAssumption DEF Inv, TypeOK, RingIsConsistent, Pending
  <1>2. /\ buffer \in [0..(BufferSize - 1) -> Char \union {Nothing}]
        /\ read \in 0..(BufferSize - 1)
        /\ Filled(buffer, read, Pending)
        /\ Queue = Window(buffer, read, Pending)
    BY DEF Inv, TypeOK, RingIsConsistent, Queue, Filled, Window
  <1>3. IsWindow(Queue, buffer, read, Pending)
    BY <1>1, <1>2, Stretch
  <1> QED BY <1>1, <1>3 DEF IsWindow

(* The same of the state after a step.                                     *)
LEMMA QueueOfInvNext ==
  ASSUME Inv'
  PROVE  /\ Pending' \in 0..BufferSize
         /\ Queue' \in Seq(Char) /\ Len(Queue') = Pending'
         /\ \A i \in 1..Pending' : Queue'[i] = buffer'[Slot(read' + (i - 1))]
  <1>1. Pending' \in 0..BufferSize
    BY BufferAssumption DEF Inv, TypeOK, RingIsConsistent, Pending
  <1>2. /\ buffer' \in [0..(BufferSize - 1) -> Char \union {Nothing}]
        /\ read' \in 0..(BufferSize - 1)
        /\ Filled(buffer', read', Pending')
        /\ Queue' = Window(buffer', read', Pending')
    BY DEF Inv, TypeOK, RingIsConsistent, Queue, Filled, Window
  <1>3. IsWindow(Queue', buffer', read', Pending')
    BY <1>1, <1>2, Stretch
  <1> QED BY <1>1, <1>3 DEF IsWindow

(* Steps that leave the buffer, the position to read from and what is      *)
(* pending alone leave the queue alone.                                    *)
LEMMA SameQueue ==
  ASSUME buffer' = buffer, read' = read, Pending' = Pending
  PROVE  Queue' = Queue
  BY DEF Queue


-----------------------------------------------------------------------------
(* What each step does to the queue.  The handler's character goes to the  *)
(* end of it, unless the buffer is full, and to nowhere else.              *)
LEMMA HandlerAppends ==
  ASSUME Inv, Inv', HandleIrq1
  PROVE  \/ Queue' = Queue /\ (Head(wire) \in Char => count = BufferSize)
         \/ /\ Head(wire) \in Char /\ Len(Queue) < BufferSize
            /\ Queue' = Append(Queue, Head(wire))
  <1>1. UNCHANGED <<pc, held, want, num>>
    BY DEF HandleIrq1, reader
  <1>2. CASE UNCHANGED ring /\ (Head(wire) \in Char => count = BufferSize)
    <2>1. buffer' = buffer /\ read' = read /\ Pending' = Pending
      BY <1>1, <1>2 DEF ring, Pending
    <2> QED BY <1>2, <2>1, SameQueue
  <1>3. CASE Head(wire) \in Char /\ count # BufferSize
    <2> DEFINE c == Head(wire)
    <2>1. /\ buffer' = [buffer EXCEPT ![write] = c]
          /\ count' = count + 1 /\ read' = read
      BY <1>3 DEF HandleIrq1, AddToBuffer
    <2>2. /\ BufferSize \in Nat /\ BufferSize > 0
          /\ read \in 0..(BufferSize - 1) /\ write \in 0..(BufferSize - 1)
          /\ count \in 0..BufferSize /\ write = Slot(read + Pending)
          /\ buffer \in [0..(BufferSize - 1) -> Char \union {Nothing}]
      BY BufferAssumption DEF Inv, TypeOK, RingIsConsistent
    <2>3. Pending \in 0..(BufferSize - 1) /\ Pending' = Pending + 1
      BY <1>1, <1>3, <2>1, <2>2 DEF Inv, RingIsConsistent, Pending
    <2>4. /\ Queue \in Seq(Char) /\ Len(Queue) = Pending
          /\ \A i \in 1..Pending : Queue[i] = buffer[Slot(read + (i - 1))]
      BY QueueOfInv
    <2>5. /\ Queue' \in Seq(Char) /\ Len(Queue') = Pending + 1
          /\ \A i \in 1..(Pending + 1) : Queue'[i] = buffer'[Slot(read + (i - 1))]
      BY <2>1, <2>3, QueueOfInvNext
    <2>6. \A i \in 1..Pending : Slot(read + (i - 1)) # write
                                /\ Slot(read + (i - 1)) \in 0..(BufferSize - 1)
      <3> TAKE i \in 1..Pending
      <3>1. i - 1 \in 0..(BufferSize - 1) /\ i - 1 < Pending
        BY <2>2, <2>3
      <3> QED BY <2>2, <2>3, <3>1, SlotsDiffer, SlotShift
    <2>7. /\ Append(Queue, c) \in Seq(Char) /\ Len(Append(Queue, c)) = Pending + 1
          /\ \A i \in 1..Pending : Append(Queue, c)[i] = Queue[i]
          /\ Append(Queue, c)[Pending + 1] = c
      BY <1>3, <2>3, <2>4, AppendProperties
    <2>8. \A i \in 1..(Pending + 1) : Queue'[i] = Append(Queue, c)[i]
      <3> TAKE i \in 1..(Pending + 1)
      <3>1. CASE i = Pending + 1
        <4>1. i - 1 = Pending
          BY <2>3, <3>1
        <4>2. buffer'[write] = c
          BY <2>1, <2>2
        <4> QED BY <2>2, <2>5, <2>7, <3>1, <4>1, <4>2
      <3>2. CASE i \in 1..Pending
        <4>1. buffer'[Slot(read + (i - 1))] = buffer[Slot(read + (i - 1))]
          BY <2>1, <2>2, <2>6, <3>2
        <4> QED BY <2>4, <2>5, <2>7, <3>2, <4>1
      <3>3. i = Pending + 1 \/ i \in 1..Pending
        BY <2>3
      <3> QED BY <3>1, <3>2, <3>3, Zenon
    <2>9. Queue' = Append(Queue, c)
      BY <2>5, <2>7, <2>8, SeqEqual
    <2>10. Len(Queue) < BufferSize
      BY <2>2, <2>3, <2>4
    <2> QED BY <1>3, <2>9, <2>10
  <1> QED BY <1>2, <1>3 DEF HandleIrq1, AddToBuffer

(* kgetc takes the first character of the queue and leaves the rest.       *)
LEMMA FetchTakesFirst ==
  ASSUME Inv, Inv', FetchCharacter
  PROVE  Queue # <<>> /\ held' = Head(Queue) /\ Queue' = Tail(Queue)
  <1>1. /\ BufferSize \in Nat /\ BufferSize > 0
        /\ read \in 0..(BufferSize - 1) /\ count \in 0..BufferSize
    BY BufferAssumption DEF Inv, TypeOK
  <1>2. /\ pc = "fetch" /\ pc' = "decrement" /\ count' = count
        /\ read' = Slot(read + 1) /\ held' = buffer[read] /\ buffer' = buffer
    BY DEF FetchCharacter
  <1>3. count > 0 /\ Pending = count /\ Pending' = count - 1
    BY <1>2 DEF Inv, RingIsConsistent, Pending
  <1>4. /\ Queue \in Seq(Char) /\ Len(Queue) = count
        /\ \A i \in 1..count : Queue[i] = buffer[Slot(read + (i - 1))]
    BY <1>3, QueueOfInv
  <1>5. /\ Queue' \in Seq(Char) /\ Len(Queue') = count - 1
        /\ \A i \in 1..(count - 1) : Queue'[i] = buffer[Slot(read' + (i - 1))]
    BY <1>2, <1>3, QueueOfInvNext
  <1>6. Queue # <<>>
    BY <1>1, <1>3, <1>4, EmptySeq
  <1>7. held' = Head(Queue)
    <2>1. Queue[1] = buffer[Slot(read + 0)] /\ Slot(read + 0) = read
      <3>1. 1 \in 1..count /\ 1 - 1 = 0 /\ read + 0 = read
        BY <1>1, <1>3
      <3>2. Slot(read) = read
        BY <1>1, SlotMeans
      <3> QED BY <1>4, <3>1, <3>2
    <2>2. Head(Queue) = Queue[1]
      BY <1>4, <1>6
    <2> QED BY <1>2, <2>1, <2>2
  <1>8. /\ Tail(Queue) \in Seq(Char) /\ Len(Tail(Queue)) = count - 1
        /\ \A i \in 1..(count - 1) : Tail(Queue)[i] = Queue[i + 1]
    BY <1>4, <1>6, HeadTailProperties
  <1>9. \A i \in 1..(count - 1) : Queue'[i] = Tail(Queue)[i]
    <2> TAKE i \in 1..(count - 1)
    <2>1. /\ i - 1 \in 0..(BufferSize - 1) /\ i + 1 \in 1..count
          /\ read + (i - 1) + 1 = read + ((i + 1) - 1)
      BY <1>1
    <2>2. Slot(read' + (i - 1)) = Slot(read + ((i + 1) - 1))
      BY <1>1, <1>2, <2>1, SlotShift
    <2> QED BY <1>4, <1>5, <1>8, <2>1, <2>2
  <1>10. Queue' = Tail(Queue)
    BY <1>5, <1>8, <1>9, SeqEqual
  <1> QED BY <1>6, <1>7, <1>10

(* No other step changes the queue or the character kgetc holds.  The      *)
(* decrement is among them: it counts off what the fetch took.             *)
LEMMA OthersKeepQueue ==
  ASSUME Inv,
         \/ UNCHANGED vars
         \/ \E code \in Char \union {OtherKey} : PressKey(code)
         \/ TakeIrq1
         \/ \E fd \in ReadFd, n \in ReadCount : CallRead(fd, n)
         \/ ReadMore \/ ReadReturns \/ SeeCharacter \/ UseCharacter \/ Decrement
  PROVE  Queue' = Queue /\ held' = held
  <1>1. buffer' = buffer /\ read' = read /\ held' = held
    BY DEF PressKey, TakeIrq1, CallRead, ReadMore, ReadReturns, SeeCharacter,
           UseCharacter, Decrement, vars, ring, reader
  <1>2. Pending' = Pending
    BY DEF PressKey, TakeIrq1, CallRead, ReadMore, ReadReturns, SeeCharacter,
           UseCharacter, Decrement, vars, ring, reader, Pending
  <1> QED BY <1>1, <1>2, SameQueue

-----------------------------------------------------------------------------
(* Every step of the keyboard path is one of the abstract queue, or none.  *)
LEMMA StepRefines == Inv /\ Inv' /\ [Next]_vars => [IQ!Next]_(IQ!vars)
  <1> SUFFICES ASSUME Inv, Inv', [Next]_vars PROVE [IQ!Next]_(IQ!vars)
    OBVIOUS
  <1>1. CASE HandleIrq1
    <2>1. held' = held
      BY <1>1 DEF HandleIrq1, reader
    <2>2. CASE Queue' = Queue
      BY <2>1, <2>2 DEF IQ!vars
    <2>3. CASE /\ Head(wire) \in Char /\ Len(Queue) < BufferSize
               /\ Queue' = Append(Queue, Head(wire))
      BY <2>1, <2>3 DEF IQ!Next, IQ!Accept
    <2> QED BY <1>1, <2>2, <2>3, HandlerAppends
  <1>2. CASE FetchCharacter
    BY <1>2, FetchTakesFirst DEF IQ!Next, IQ!Take
  <1>3. CASE Queue' = Queue /\ held' = held
    BY <1>3 DEF IQ!vars
  <1> QED BY <1>1, <1>2, <1>3, OthersKeepQueue DEF Next, Irq1, Reader

LEMMA InitRefines == Init => IQ!Init
  <1> SUFFICES ASSUME Init PROVE IQ!Init
    OBVIOUS
  <1>1. Queue \in Seq(Char) /\ Len(Queue) = 0
    BY InitInv, QueueOfInv DEF Init, Pending
  <1>2. Queue = <<>>
    BY <1>1, EmptySeq
  <1> QED BY <1>2 DEF Init, IQ!Init

(* For every BUFFER_SIZE the buffer is a bounded queue: kgetc gets the     *)
(* characters the handler accepted once each and in order, wherever in     *)
(* kgetc the handler strikes (key.c:74-104).                               *)
THEOREM BufferIsAQueue == Spec => ImplementsInputQueue
  <1>1. Spec => [][IQ!Next]_(IQ!vars)
    BY SpecInv, StepRefines, PTL DEF Spec, SafetySpec
  <1> QED BY <1>1, InitRefines, PTL DEF Spec, SafetySpec, ImplementsInputQueue, IQ!Spec

(* A code leaves the controller only in the interrupt handler: taking the  *)
(* last of a nonempty sequence away changes it.                            *)
LEMMA OnlyHandlerConsumes ==
  ASSUME Inv, [Next]_vars, wire # <<>>, wire' = Tail(wire)
  PROVE  HandleIrq1
  <1>1. wire \in Seq(Char \union {OtherKey}) /\ Len(wire) \in Nat
        /\ Len(Tail(wire)) = Len(wire) - 1
    BY HeadTailProperties, LenProperties DEF Inv, TypeOK
  <1>2. ASSUME wire' = wire PROVE FALSE
    BY <1>1, <1>2
  <1>3. ASSUME NEW code \in Char \union {OtherKey}, PressKey(code) PROVE FALSE
    <2>1. Len(Append(wire, code)) = Len(wire) + 1
      BY <1>1, <1>3, AppendProperties
    <2>2. Len(wire') = Len(wire) + 1
      BY <1>3, <2>1 DEF PressKey
    <2> QED BY <1>1, <2>2
  <1> QED BY <1>2, <1>3 DEF Next, Irq1, Reader, TakeIrq1, CallRead, ReadMore, ReadReturns,
             SeeCharacter, FetchCharacter, Decrement, UseCharacter, vars, device

(* A character that a key produces is lost only with BUFFER_SIZE others    *)
(* waiting, or BUFFER_SIZE - 1 between kgetc's fetch and its decrement     *)
(* (key.c:74-104).                                                         *)
THEOREM LossMeansFull == Spec => DropsOnlyWhenFull
  <1> DEFINE Arrives == /\ wire # <<>> /\ wire' = Tail(wire) /\ Head(wire) \in Char
                        /\ Len(Queue) < Room
             Kept == Queue' = Append(Queue, Head(wire))
  <1>1. ASSUME Inv, Inv', [Next]_vars, Arrives PROVE Kept
    <2>1. HandleIrq1
      BY <1>1, OnlyHandlerConsumes
    <2>2. count # BufferSize
      <3>1. Len(Queue) = Pending /\ Pending < Room
        BY <1>1, QueueOfInv
      <3> QED BY BufferAssumption, <1>1, <3>1 DEF Inv, TypeOK, Pending, Room
    <2> QED BY <1>1, <2>1, <2>2, HandlerAppends
  <1>2. Inv /\ Inv' /\ [Next]_vars => [Arrives => Kept]_vars
    BY <1>1
  <1> QED BY <1>2, SpecInv, PTL DEF Spec, SafetySpec, DropsOnlyWhenFull

=============================================================================
