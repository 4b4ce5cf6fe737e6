------------------------------- MODULE Keyboard -------------------------------
(***************************************************************************)
(* The keyboard path of the kernel: the interrupt handler of IRQ 1         *)
(* (idt.c), the circular buffer it fills (key.c: handle_press,             *)
(* add_to_buffer), and the reader that empties it with interrupts on       *)
(* (key.c: kgetc, syscall_def.c: sys_read).                                *)
(*                                                                         *)
(* There is one processor.  The handler runs with interrupts off, so what  *)
(* it does is one action; it may come between any two steps of the reader, *)
(* whose steps are therefore the accesses to the variables the two share.  *)
(***************************************************************************)
EXTENDS Integers, Sequences, SequencesExt

CONSTANTS
  Char,            \* the characters keys produce
  Backspace,       \* one of them
  OtherKey,        \* a scan code that produces none: a release, a modifier
  Nothing,         \* the content of a slot never written
  BufferSize,      \* BUFFER_SIZE
  WireSize,        \* the scan codes the keyboard controller can hold back
  ReadFd,          \* the file descriptors programs pass to read
  ReadCount,       \* the counts programs pass to read
  CountLimit       \* the values of an int16_t, and of a uint16_t

ASSUME BufferAssumption == BufferSize \in Nat \ {0}
ASSUME WireAssumption == WireSize \in Nat \ {0}
ASSUME CharAssumption ==
  Backspace \in Char /\ OtherKey \notin Char /\ Nothing \notin Char
ASSUME CountAssumption ==
  CountLimit \in Nat \ {0} /\ ReadCount \subseteq Nat /\ ReadFd \subseteq Nat

VARIABLES
  buffer,      \* key_buffer
  read,        \* buffer_read
  write,       \* buffer_write
  count,       \* buffer_count
  wire,        \* scan codes the controller has not handed over, oldest first
  interrupts,  \* the processor's interrupt flag
  handling,    \* the processor is in irq1_interrupt_handler
  inService,   \* the PIC waits for the end of the interrupt
  pc,          \* where the reader is; "user" outside sys_read
  held,        \* `result' in kgetc
  want,        \* `count' in sys_read
  num          \* `num_read' in sys_read

ring == <<buffer, read, write, count>>
device == <<wire, handling, inService>>
reader == <<pc, held, want, num>>
vars == <<ring, device, interrupts, reader>>

-----------------------------------------------------------------------------
Slot(i) == i % BufferSize

(* The gates of the interrupt descriptor table: an interrupt gate turns    *)
(* interrupts off until the iret, a trap gate leaves them as they are.     *)
Irq1Gate == "interrupt"
(* Definitions whose names end in Mistake are what the code would be with  *)
(* a likely mistake in it: the runs check that each one breaks a property. *)
GateMistake == "interrupt"

SyscallGate == "trap"

Init ==
  /\ buffer = [i \in 0..(BufferSize - 1) |-> Nothing]
  /\ read = 0
  /\ write = 0
  /\ count = 0
  /\ wire = <<>>
  /\ interrupts = TRUE
  /\ handling = FALSE
  /\ inService = FALSE
  /\ pc = "user"
  /\ held = Nothing
  /\ want = 0
  /\ num = 0

(* Someone presses or releases a key.                                      *)
PressKey(code) ==
  /\ Len(wire) < WireSize
  /\ wire' = Append(wire, code)
  /\ UNCHANGED <<ring, handling, inService, interrupts, reader>>

WrapMistake(c) ==
  IF count # BufferSize
    THEN /\ buffer' = [buffer EXCEPT ![write] = c]
         /\ write' = write + 1
         /\ count' = count + 1
         /\ UNCHANGED read
    ELSE UNCHANGED ring

AdvanceMistake(c) ==
  IF count # BufferSize
    THEN /\ buffer' = [buffer EXCEPT ![write] = c]
         /\ write' = Slot(write + 1)
         /\ count' = count + 1
         /\ UNCHANGED read
    ELSE /\ write' = Slot(write + 1)
         /\ UNCHANGED <<buffer, read, count>>

FullMistake(c) ==
  IF count # BufferSize - 1
    THEN /\ buffer' = [buffer EXCEPT ![write] = c]
         /\ write' = Slot(write + 1)
         /\ count' = count + 1
         /\ UNCHANGED read
    ELSE UNCHANGED ring

(* add_to_buffer drops the character when the buffer is full.              *)
AddToBuffer(c) ==
  IF count # BufferSize
    THEN /\ buffer' = [buffer EXCEPT ![write] = c]
         /\ write' = Slot(write + 1)
         /\ count' = count + 1
         /\ UNCHANGED read
    ELSE UNCHANGED ring

(* The PIC raises one interrupt at a time, and only when the processor     *)
(* takes interrupts.                                                       *)
TakeIrq1 ==
  /\ wire # <<>>
  /\ interrupts
  /\ ~inService
  /\ handling' = TRUE
  /\ inService' = TRUE
  /\ interrupts' = (Irq1Gate = "trap")
  /\ UNCHANGED <<ring, wire, reader>>

(* irq1_interrupt_handler reads the scan code, handles it, tells the PIC,  *)
(* and returns to what it interrupted.                                     *)
HandleIrq1 ==
  /\ handling
  /\ wire' = Tail(wire)
  /\ IF Head(wire) \in Char THEN AddToBuffer(Head(wire)) ELSE UNCHANGED ring
  /\ inService' = FALSE
  /\ handling' = FALSE
  /\ interrupts' = TRUE
  /\ UNCHANGED reader

-----------------------------------------------------------------------------
(* sys_read, called through the gate of interrupt 0x80, truncates its file *)
(* descriptor and its count to 16 bits.                                    *)
CallRead(fd, n) ==
  /\ pc = "user" /\ ~handling
  /\ pc' = IF fd % CountLimit = 0 THEN "read" ELSE "refuse"
  /\ want' = n % CountLimit
  /\ num' = 0
  /\ interrupts' = (SyscallGate = "trap")
  /\ UNCHANGED <<ring, device, held>>

ReadMore ==
  /\ pc = "read"
  /\ num < want
  /\ pc' = "wait"
  /\ UNCHANGED <<ring, device, interrupts, held, want, num>>

(* A descriptor other than 0 makes it return -1, any other call its count. *)
(* The iretq of syscall_entry restores the program's interrupt flag.       *)
ReadReturns ==
  /\ pc = "refuse" \/ (pc = "read" /\ num >= want)
  /\ pc' = "user"
  /\ interrupts' = TRUE
  /\ UNCHANGED <<ring, device, held, want, num>>

(* kgetc spins until it sees a count other than 0.                         *)
SeeCharacter ==
  /\ pc = "wait"
  /\ count # 0
  /\ pc' = "fetch"
  /\ UNCHANGED <<ring, device, interrupts, held, want, num>>

PreincrementMistake ==
  /\ pc = "fetch"
  /\ held' = buffer[Slot(read + 1)]
  /\ read' = Slot(read + 1)
  /\ pc' = "decrement"
  /\ UNCHANGED <<buffer, write, count, device, interrupts, want, num>>

FetchCharacter ==
  /\ pc = "fetch"
  /\ held' = buffer[read]
  /\ read' = Slot(read + 1)
  /\ pc' = "decrement"
  /\ UNCHANGED <<buffer, write, count, device, interrupts, want, num>>

(* buffer_count-- is taken to be the one instruction that clang makes of   *)
(* it, which no interrupt divides.                                         *)
Decrement ==
  /\ pc = "decrement"
  /\ count' = count - 1
  /\ pc' = "use"
  /\ UNCHANGED <<buffer, read, write, device, interrupts, held, want, num>>

EraseMistake ==
  /\ pc = "use"
  /\ num' = IF held # Backspace THEN num + 1 ELSE num - 1
  /\ pc' = "read"
  /\ UNCHANGED <<ring, device, interrupts, held, want>>

(* sys_read steps back over the last character on a backspace, ignores one *)
(* that has nothing to erase, and stores any other character.              *)
UseCharacter ==
  /\ pc = "use"
  /\ num' = IF held # Backspace THEN num + 1
            ELSE IF num = 0 THEN 0
            ELSE num - 1
  /\ pc' = "read"
  /\ UNCHANGED <<ring, device, interrupts, held, want>>

Reader ==
  /\ ~handling
  /\ \/ ReadMore \/ ReadReturns \/ SeeCharacter \/ FetchCharacter
     \/ Decrement \/ UseCharacter

Irq1 == TakeIrq1 \/ HandleIrq1

Next ==
  \/ \E code \in Char \union {OtherKey} : PressKey(code)
  \/ \E fd \in ReadFd, n \in ReadCount : CallRead(fd, n)
  \/ Irq1
  \/ Reader

SafetySpec == Init /\ [][Next]_vars

(* The processor takes a pending interrupt when it may, and finishes its   *)
(* handler.  The reader needs strong fairness, since each interrupt        *)
(* disables its next step; keys are so much slower than instructions that  *)
(* it gets its turn between any two of them.                               *)
Spec == SafetySpec /\ WF_vars(Irq1) /\ SF_vars(Reader)

-----------------------------------------------------------------------------
TypeOK ==
  /\ buffer \in [0..(BufferSize - 1) -> Char \union {Nothing}]
  /\ read \in 0..(BufferSize - 1)
  /\ write \in 0..(BufferSize - 1)
  /\ count \in 0..BufferSize
  /\ wire \in Seq(Char \union {OtherKey}) /\ Len(wire) <= WireSize
  /\ interrupts \in BOOLEAN
  /\ handling \in BOOLEAN /\ inService \in BOOLEAN
  /\ pc \in {"user", "refuse", "read", "wait", "fetch", "decrement", "use"}
  /\ held \in Char \union {Nothing}
  /\ want \in 0..(CountLimit - 1)
  /\ num \in 0..(CountLimit - 1)

(* The characters in the buffer: buffer_count of them, less the one kgetc  *)
(* has fetched and not yet subtracted.                                     *)
Pending == IF pc = "decrement" THEN count - 1 ELSE count

Queue == [i \in 1..Pending |-> buffer[Slot(read + i - 1)]]

(* The two positions and the count describe one stretch of the buffer, all *)
(* of it written: "The number of characters in the buffer." (key.c:64) is  *)
(* what lies between the position to read from and the one to write to, so *)
(* kgetc never reads a slot nobody filled and the interrupt handler never  *)
(* fills one nobody has read, wherever in kgetc it strikes.                *)
RingIsConsistent ==
  /\ pc \in {"fetch", "decrement"} => count > 0
  /\ write = Slot(read + Pending)
  /\ \A i \in 0..(Pending - 1) : buffer[Slot(read + i)] \in Char

(* sys_read stores inside the caller's buffer: every character it is about *)
(* to store goes to an index from 0 to count - 1, however the backspaces   *)
(* fall (syscall_def.c:33-49).                                             *)
StoresInsideBuffer ==
  pc \in {"wait", "fetch", "decrement", "use"} => num \in 0..(want - 1)

(* The reader gets the accepted characters once each and in order, though  *)
(* the handler strikes between its fetch and its decrement.                *)
IQ == INSTANCE InputQueue WITH Capacity <- BufferSize, queue <- Queue, got <- held

ImplementsInputQueue == IQ!Spec

(* A key is lost only when the buffer is full, except that between kgetc's *)
(* fetch and its decrement, while buffer_count still counts the character  *)
(* that has left, the last free slot is lost too (key.c:74-104).           *)
Room == IF pc = "decrement" THEN BufferSize - 1 ELSE BufferSize

DropsOnlyWhenFull ==
  [][(/\ wire # <<>> /\ wire' = Tail(wire) /\ Head(wire) \in Char
      /\ Len(Queue) < Room) => Queue' = Append(Queue, Head(wire))]_vars

(* A program that waits for input gets the character someone typed: the    *)
(* handler can run while kgetc spins, since interrupt 0x80 goes through a  *)
(* trap gate (boot.c:252), and acknowledges each interrupt (idt.c:152).    *)
Typed == Queue # <<>> \/ \E i \in 1..Len(wire) : wire[i] \in Char

WaitingReadWakes == (pc = "wait" /\ Typed) ~> (pc = "use")

=============================================================================
