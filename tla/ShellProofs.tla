------------------------------ MODULE ShellProofs ------------------------------
(***************************************************************************)
(* Proofs, for any alphabet and programs, any sizes of page, alignment and *)
(* first buffer, any amount of memory and lines of any length, of what     *)
(* Shell promises.                                                         *)
(***************************************************************************)
EXTENDS Shell, TLAPS

(* The theorem of Induction that is used does not depend on Op.            *)
Loop == INSTANCE Induction WITH Op <- Append

-----------------------------------------------------------------------------
(* Pages and alignment.                                                    *)
LEMMA Products ==
  ASSUME NEW w \in Nat, NEW p \in Nat, NEW q \in Nat, p <= q
  PROVE  p * w \in Nat /\ p * w <= q * w
  <1>1. p * w \in Nat /\ (q - p) * w \in Nat
    <2>1. \A x, y \in Nat : x * y \in Nat
      OBVIOUS
    <2> QED BY <2>1
  <1>2. q * w = p * w + (q - p) * w
    OBVIOUS
  <1> QED BY <1>1, <1>2

(* A quotient and a remainder are those of the division.                   *)
LEMMA DivMod ==
  ASSUME NEW n \in Nat, NEW w \in Nat \ {0}
  PROVE  n \div w \in Nat /\ n % w \in 0..(w - 1) /\ n = (n % w) + (n \div w) * w
  OBVIOUS

(* A number that RoundUp returns is a multiple, and big enough.            *)
Multiple(x, y) == \E k \in Nat : x = k * y

(* What is written as a product is a multiple.                             *)
LEMMA IsMultiple ==
  ASSUME NEW y, NEW k \in Nat
  PROVE  Multiple(k * y, y)
  BY DEF Multiple

(* RoundUp returns a multiple, never less than it was given.               *)
LEMMA RoundUpIs ==
  ASSUME NEW x \in Nat, NEW y \in Nat \ {0}
  PROVE  RoundUp(x, y) \in Nat /\ RoundUp(x, y) >= x /\ Multiple(RoundUp(x, y), y)
  <1> DEFINE q == x \div y
             r == x % y
  <1>1. q \in Nat /\ r \in 0..(y - 1) /\ x = r + q * y
    BY DivMod
  <1>2. q * y \in Nat /\ (q + 1) * y = q * y + y
    BY <1>1, Products
  <1>3. CASE r = 0
    <2>1. RoundUp(x, y) = x /\ x = q * y
      BY <1>1, <1>3 DEF RoundUp
    <2> HIDE DEF q, r
    <2>2. Multiple(q * y, y)
      BY <1>1, IsMultiple
    <2> QED BY <2>1, <2>2
  <1>4. CASE r # 0
    <2>1. RoundUp(x, y) = x + (y - r)
      BY <1>4 DEF RoundUp
    <2> HIDE DEF q, r
    <2>2. RoundUp(x, y) = (q + 1) * y
      BY <1>1, <1>2, <2>1
    <2>3. PICK j \in Nat : j = q + 1
      BY <1>1
    <2>4. Multiple(j * y, y)
      BY IsMultiple
    <2> QED BY <1>1, <2>1, <2>2, <2>3, <2>4
  <1> QED BY <1>3, <1>4

(* A multiple divides without remainder: malloc asks mmap for whole pages  *)
(* and the division loses nothing.                                         *)
LEMMA Divides ==
  ASSUME NEW x \in Nat, NEW y \in Nat \ {0}, Multiple(x, y)
  PROVE  x \div y \in Nat /\ x = (x \div y) * y
  <1>1. PICK k \in Nat : x = k * y
    BY DEF Multiple
  <1> DEFINE q == x \div y
             r == x % y
  <1>2. q \in Nat /\ r \in 0..(y - 1) /\ x = r + q * y
    BY DivMod
  <1> HIDE DEF q, r
  <1>3. ~(q < k)
    <2>1. q < k => (q + 1) * y <= k * y
      BY <1>2, Products
    <2>2. (q + 1) * y = q * y + y /\ q * y \in Nat
      BY <1>2, Products
    <2> QED BY <1>1, <1>2, <2>1, <2>2
  <1>4. k <= q
    BY <1>2, <1>3
  <1>5. k * y <= q * y /\ k * y \in Nat /\ q * y \in Nat
    BY <1>2, <1>4, Products
  <1>6. r = 0
    BY <1>1, <1>2, <1>5
  <1> QED BY <1>2, <1>5, <1>6 DEF q

(* What is left of a multiple after another is taken from it.              *)
LEMMA Multiples ==
  ASSUME NEW y \in Nat \ {0}, NEW x \in Nat, NEW z \in Nat, Multiple(x, y), Multiple(z, y)
  PROVE  x <= z => Multiple(z - x, y)
  <1>1. PICK k \in Nat : x = k * y
    BY DEF Multiple
  <1>2. PICK l \in Nat : z = l * y
    BY DEF Multiple
  <1>3. z - x = (l - k) * y
    BY <1>1, <1>2
  <1>4. CASE k <= l
    <2>1. PICK j \in Nat : j = l - k
      BY <1>4
    <2>2. Multiple(j * y, y)
      BY IsMultiple
    <2> QED BY <1>3, <2>1, <2>2
  <1>5. CASE l < k
    <2>1. l * y <= k * y
      BY <1>5, Products
    <2>2. x <= z => z - x = 0 * y
      BY <1>1, <1>2, <2>1
    <2> QED BY <2>2, IsMultiple
  <1> QED BY <1>4, <1>5

(* A page is a number of the units that malloc rounds to.                  *)
LEMMA PagesAreAligned ==
  ASSUME NEW x, Multiple(x, PageSize)
  PROVE  Multiple(x, Align)
  <1>1. PICK k \in Nat : x = k * PageSize
    BY DEF Multiple
  <1> DEFINE q == PageSize \div Align
  <1>2. q \in Nat /\ PageSize = q * Align
    <2>1. PageSize % Align = 0 /\ PageSize = (PageSize % Align) + q * Align /\ q \in Nat
      BY SizeAssumption, DivMod
    <2>2. q * Align \in Nat
      BY SizeAssumption, <2>1, Products
    <2> QED BY <2>1, <2>2
  <1> HIDE DEF q
  <1>3. x = (k * q) * Align /\ k * q \in Nat
    BY <1>1, <1>2, SizeAssumption
  <1> QED BY <1>3 DEF Multiple

(* malloc leaves no single byte at the end of memory: its space is a       *)
(* multiple of Align, which is more than 1.                                *)
LEMMA AlignedSmall ==
  ASSUME NEW x \in Nat, Multiple(x, Align), x <= 1
  PROVE  x = 0
  <1>1. PICK k \in Nat : x = k * Align
    BY DEF Multiple
  <1>2. k >= 1 => 1 * Align <= k * Align
    BY SizeAssumption, Products
  <1> QED BY <1>1, <1>2, SizeAssumption

-----------------------------------------------------------------------------
(* The invariant.  What malloc has not given out ends where this run's      *)
(* memory ends.                                                            *)
Sound(h, p) ==
  /\ h.bump + h.space = p.next * PageSize
  /\ p.first * PageSize <= h.bump
  /\ Multiple(h.space, Align)

(* The types that TypeOK leaves out, and the pages that there are.         *)
Records ==
  /\ heap \in [bump : Int, space : Nat]
  /\ line \in [ptr : Int, n : Nat \ {0}, num : Int, cursor : Int] \union {NoLine}
  /\ maps.next + maps.left <= Memory + 1

(* The buffer is the last that malloc gave out, and the line fits.         *)
BufferSound ==
  /\ Sound(heap, maps)
  /\ maps.first * PageSize <= line.ptr
  /\ line.ptr + RoundUp(line.n, Align) = heap.bump
  /\ line.num < line.n

(* The places of the program where the buffer is in use.                   *)
Reading == {"getline", "strsep", "exec"}

(* What the heap and the line are in each place.  malloc fails only for    *)
(* the first buffer: a buffer at Failed has no character yet, since the    *)
(* first one faults.                                                       *)
Buffers ==
  /\ pc = "prompt" => heap = NoHeap \/ Sound(heap, maps)
  /\ pc \in Reading =>
       /\ line # NoLine
       /\ Len(keys) = line.num + 1
       /\ line.cursor = line.ptr + Len(keys)
       /\ IF line.ptr = Failed THEN pc = "getline" /\ keys = <<>> ELSE BufferSound

(* The buffer holds what was typed.                                        *)
Typed(n) == \A i \in 1..n : m[line.ptr + i - 1] = keys[i]
Letters(n) == \A i \in 1..n : keys[i] \in Letter

(* Before the line ends every character is a letter; then the last is the  *)
(* newline; then it is the byte that ends the name.                        *)
Typing ==
  /\ pc = "getline" => Letters(Len(keys)) /\ Typed(Len(keys))
  /\ pc = "strsep" =>
       /\ Len(keys) >= 1 /\ Letters(Len(keys) - 1) /\ Typed(Len(keys))
       /\ keys[Len(keys)] = NL
  /\ pc = "exec" =>
       /\ Len(keys) > 1 /\ Letters(Len(keys) - 1) /\ Typed(Len(keys) - 1)
       /\ name = line.ptr /\ m[name + Len(keys) - 1] = NUL

(* The first fault halts the shell.                                        *)
Faults == (pc # "halted" => fault = {}) /\ FaultsOnlyAtTheEdge

(* The inductive invariant.                                                *)
Inv == TypeOK /\ Records /\ Buffers /\ Typing /\ Faults

-----------------------------------------------------------------------------
(* What mmap and malloc return.                                            *)
Maps == [first : 1..(Memory + 1), next : 1..(Memory + 1), left : 0..Memory]

(* q is p after the mapping of some more pages.                            *)
Mapping(p, q) ==
  /\ q \in Maps
  /\ q.first = p.first /\ p.next <= q.next
  /\ q.next + q.left = p.next + p.left

(* mmap gives the next pages, all of them or -1 with some mapped.          *)
LEMMA MmapIs ==
  ASSUME NEW p \in Maps, p.next + p.left <= Memory + 1, NEW pages \in Nat
  PROVE  LET a == Mmap(p, pages) IN
         /\ Mapping(p, a.maps)
         /\ pages <= p.left => a.result = p.next * PageSize /\ a.maps.next = p.next + pages
         /\ ~(pages <= p.left) => a.result = Failed
  <1> DEFINE got == IF pages <= p.left THEN pages ELSE p.left
             q == [p EXCEPT !.next = @ + got, !.left = @ - got]
  <1>1. got \in 0..p.left /\ (pages <= p.left => got = pages)
    BY DEF Maps
  <1> HIDE DEF got
  <1>2. q.first = p.first /\ q.next = p.next + got /\ q.left = p.left - got
    BY DEF Maps
  <1>3. p.first \in 1..(Memory + 1) /\ p.next \in 1..(Memory + 1) /\ p.left \in 0..Memory
    BY DEF Maps
  <1>4. p.next + got \in 1..(Memory + 1) /\ p.left - got \in 0..Memory
    BY <1>1, <1>3, SizeAssumption
  <1>5. q \in Maps
    BY <1>4 DEF Maps
  <1>6. Mapping(p, q)
    BY <1>1, <1>2, <1>3, <1>5 DEF Mapping
  <1>7. Mmap(p, pages) = [result |-> IF pages <= p.left THEN p.next * PageSize ELSE Failed,
                          maps |-> q]
    BY DEF Mmap, got
  <1> HIDE DEF q
  <1>8. /\ Mmap(p, pages).maps = q
        /\ Mmap(p, pages).result = IF pages <= p.left THEN p.next * PageSize ELSE Failed
    BY <1>7
  <1> QED BY <1>1, <1>2, <1>6, <1>8

(* Memory of a size that malloc may give out, before it is asked.          *)
Ready ==
  /\ maps \in Maps /\ maps.next + maps.left <= Memory + 1 /\ maps.first <= maps.next
  /\ heap \in [bump : Int, space : Nat]
  /\ heap = NoHeap \/ Sound(heap, maps)

(* a is what malloc may answer for a size.                                 *)
Answer(a, size) ==
  /\ Mapping(maps, a.maps)
  /\ a.heap \in [bump : Int, space : Nat]
  /\ a.result = Failed \/ /\ Sound(a.heap, a.maps)
                          /\ a.maps.first * PageSize <= a.result
                          /\ a.result \in Nat
                          /\ a.result + RoundUp(size, Align) = a.heap.bump

(* malloc gives memory of the size asked for, below what is left, and all  *)
(* inside what is mapped; or mmap's -1.                                    *)
LEMMA MallocIs ==
  ASSUME Ready, NEW size \in Nat \ {0}
  PROVE  Answer(Malloc(size), size)
  <1> DEFINE sz == RoundUp(size, Align)
             more == RoundUp(sz, PageSize)
             pages == more \div PageSize
             new == Mmap(maps, pages)
             bump == heap.bump
             space == heap.space
             start == maps.first * PageSize
             end == maps.next * PageSize
  <1>1. /\ sz \in Nat /\ sz >= size /\ Multiple(sz, Align)
        /\ more \in Nat /\ more >= sz /\ Multiple(more, PageSize)
    BY SizeAssumption, RoundUpIs
  <1>2. Multiple(more, Align)
    BY <1>1, PagesAreAligned
  <1>3. pages \in Nat /\ more = pages * PageSize
    BY <1>1, SizeAssumption, Divides
  <1>4. bump \in Int /\ space \in Nat /\ maps \in Maps
    BY DEF Ready
  <1>5. /\ maps.first \in Nat /\ maps.next \in Nat /\ maps.first <= maps.next
        /\ start \in Nat /\ end \in Nat /\ start <= end
    BY SizeAssumption, Products DEF Ready, Maps
  <1>6. CASE space >= sz
    <2>1. Malloc(size) = [result |-> bump, maps |-> maps,
                          heap |-> [bump |-> bump + sz, space |-> space - sz]]
      BY <1>6 DEF Malloc
    <2>2. Sound(heap, maps)
      <3>1. space # 0
        BY <1>1, <1>4, <1>6
      <3> QED BY <3>1 DEF Ready, NoHeap
    <2>3. bump + space = end /\ start <= bump /\ Multiple(space, Align)
      BY <2>2 DEF Sound
    <2>4. Multiple(space - sz, Align)
      BY <1>1, <1>4, <1>6, <2>3, SizeAssumption, Multiples
    <2>5. Mapping(maps, maps)
      BY <1>4, <1>5 DEF Mapping
    <2> HIDE DEF sz, more, bump, space, start, end
    <2> DEFINE h == [bump |-> bump + sz, space |-> space - sz]
    <2>6. h \in [bump : Int, space : Nat] /\ h.bump = bump + sz /\ h.space = space - sz
      BY <1>1, <1>4, <1>6
    <2>7. Malloc(size) = [result |-> bump, maps |-> maps, heap |-> h]
      BY <2>1
    <2> HIDE DEF h
    <2>8. Malloc(size).result = bump /\ Malloc(size).maps = maps /\ Malloc(size).heap = h
      BY <2>7
    <2>9. h.bump + h.space = end /\ start <= h.bump /\ Multiple(h.space, Align)
      BY <1>1, <1>4, <1>5, <2>3, <2>4, <2>6
    <2>10. Sound(h, maps)
      BY <2>9 DEF Sound, start, end
    <2>11. bump \in Nat /\ start <= bump /\ bump + sz = h.bump
      BY <1>4, <1>5, <2>3, <2>6
    <2> QED BY <2>5, <2>6, <2>8, <2>10, <2>11 DEF Answer, sz, start
  <1>7. CASE ~(space >= sz)
    <2> DEFINE h == [bump |-> new.result + sz, space |-> more - sz]
    <2>1. Malloc(size) = [result |-> new.result, maps |-> new.maps, heap |-> h]
      BY <1>7 DEF Malloc
    <2>2. Malloc(size).result = new.result /\ Malloc(size).maps = new.maps
          /\ Malloc(size).heap = h
      BY <2>1
    <2>3. /\ Mapping(maps, new.maps)
          /\ pages <= maps.left => new.result = end /\ new.maps.next = maps.next + pages
          /\ ~(pages <= maps.left) => new.result = Failed
      <3> HIDE DEF pages
      <3> QED BY <1>3, <1>4, MmapIs DEF Ready
    <2>4. h.bump = new.result + sz /\ h.space = more - sz
      OBVIOUS
    <2> HIDE DEF sz, more, pages, new
    <2>5. new.result \in Int /\ more - sz \in Nat
      BY <1>1, <1>5, <2>3 DEF Failed
    <2>6. h \in [bump : Int, space : Nat]
      BY <1>1, <2>5
    <2>7. Multiple(more - sz, Align)
      BY <1>1, <1>2, SizeAssumption, Multiples
    <2> HIDE DEF h
    <2>8. CASE pages <= maps.left
      <3>1. new.maps.next * PageSize = end + more
        <4>1. new.maps.next = maps.next + pages
          BY <2>3, <2>8
        <4>2. (maps.next + pages) * PageSize = maps.next * PageSize + pages * PageSize
          <5>1. \A a, b, c \in Nat : (a + b) * c = a * c + b * c
            OBVIOUS
          <5>2. maps.next \in Nat /\ pages \in Nat /\ PageSize \in Nat
            BY <1>3, <1>5, SizeAssumption
          <5> QED BY <5>1, <5>2
        <4> QED BY <1>3, <4>1, <4>2
      <3>2. new.maps.first = maps.first
        BY <2>3 DEF Mapping
      <3> HIDE DEF end
      <3>3. new.result = end
        BY <2>3, <2>8
      <3>4. h.bump + h.space = new.maps.next * PageSize
        BY <1>1, <1>5, <2>4, <3>1, <3>3
      <3>5. new.maps.first * PageSize <= h.bump
        BY <1>1, <1>5, <2>4, <3>2, <3>3
      <3>6. Sound(h, new.maps)
        BY <2>4, <2>7, <3>4, <3>5 DEF Sound
      <3>7. new.maps.first * PageSize <= new.result /\ new.result \in Nat
        BY <1>5, <3>2, <3>3
      <3> QED BY <2>2, <2>3, <2>4, <2>6, <3>6, <3>7 DEF Answer, sz
    <2>9. CASE ~(pages <= maps.left)
      BY <2>2, <2>3, <2>6, <2>9 DEF Answer
    <2> QED BY <2>8, <2>9
  <1> QED BY <1>6, <1>7

(* mmap keeps the pages there are.                                         *)
LEMMA MappingKeeps ==
  ASSUME NEW p \in Maps, p.next + p.left <= Memory + 1, NEW q, Mapping(p, q)
  PROVE  q \in Maps /\ q.next + q.left <= Memory + 1 /\ (p.first <= p.next => q.first <= q.next)
  BY DEF Mapping, Maps

(* Every address that is mapped is one of memory's, and above NULL.         *)
LEMMA MappedIs ==
  ASSUME NEW p \in Maps
  PROVE  /\ p.first * PageSize \in Nat /\ p.next * PageSize \in Nat
         /\ PageSize <= p.first * PageSize
         /\ \A a \in Mapped(p) : a \in Address /\ a \in Nat /\ a > 0
         /\ \A a \in Int : a \in Mapped(p) <=> (p.first * PageSize <= a /\ a < p.next * PageSize)
  <1>1. p.first \in Nat /\ p.first >= 1 /\ p.next \in Nat /\ p.next <= Memory + 1
    BY SizeAssumption DEF Maps
  <1>2. p.first * PageSize \in Nat /\ p.next * PageSize \in Nat
    BY <1>1, SizeAssumption, Products
  <1>3. 1 * PageSize <= p.first * PageSize
    BY <1>1, SizeAssumption, Products
  <1>4. p.next * PageSize <= (Memory + 1) * PageSize /\ (Memory + 1) * PageSize \in Nat
    BY <1>1, SizeAssumption, Products
  <1> DEFINE start == p.first * PageSize
             end == p.next * PageSize
             limit == (Memory + 1) * PageSize
  <1>5. Mapped(p) = start..(end - 1)
    BY DEF Mapped
  <1>6. Address = 0..(limit + 2)
    BY DEF Address
  <1>7. start \in Nat /\ end \in Nat /\ PageSize <= start /\ end <= limit /\ limit \in Nat
    BY <1>2, <1>3, <1>4, SizeAssumption
  <1> HIDE DEF start, end, limit
  <1>8. \A a \in Mapped(p) : a \in Address /\ a \in Nat /\ a > 0
    BY <1>5, <1>6, <1>7, SizeAssumption
  <1>9. \A a \in Int : a \in Mapped(p) <=> (start <= a /\ a < end)
    BY <1>5, <1>7
  <1> QED BY <1>7, <1>8, <1>9 DEF start, end

-----------------------------------------------------------------------------
(* The invariant holds at first.                                           *)
LEMMA InitInv == Init => Inv
  <1> SUFFICES ASSUME Init PROVE Inv
    OBVIOUS
  <1>1. TypeOK
    BY SizeAssumption DEF Init, TypeOK, NoHeap, NoLine, Address, NULL, NUL
  <1>2. Records
    BY SizeAssumption DEF Init, Records, NoHeap, NULL
  <1> QED BY <1>1, <1>2 DEF Init, Inv, Buffers, Typing, Faults, FaultsOnlyAtTheEdge, Reading

(* The types in the form the lemmas above ask for.                         *)
LEMMA TypesAre ==
  ASSUME Inv
  PROVE  /\ maps \in Maps /\ maps.next + maps.left <= Memory + 1 /\ maps.first <= maps.next
         /\ heap \in [bump : Int, space : Nat]
         /\ keys \in Seq(Letter \union {NL})
  BY DEF Inv, TypeOK, Records, Maps

(* A new line has a buffer of its own, or Failed.                          *)
LEMMA PromptInv ==
  ASSUME Inv, Prompt
  PROVE  Inv'
  <1> DEFINE a == Malloc(FirstSize)
  <1>1. /\ pc = "prompt" /\ pc' = "getline" /\ m' = [i \in Address |-> Fresh]
        /\ heap' = a.heap /\ maps' = a.maps /\ keys' = <<>>
        /\ input' = NULL /\ name' = NULL /\ fault' = fault
        /\ line' = [ptr |-> a.result, n |-> FirstSize, num |-> -1, cursor |-> a.result]
    BY DEF Prompt
  <1>2. Answer(a, FirstSize)
    <2>1. Ready
      BY <1>1, TypesAre DEF Ready, Inv, Buffers
    <2> QED BY <2>1, SizeAssumption, MallocIs
  <1> HIDE DEF a
  <1>3. maps' \in Maps /\ maps'.next + maps'.left <= Memory + 1 /\ maps'.first <= maps'.next
    BY <1>1, <1>2, TypesAre, MappingKeeps DEF Answer
  <1>4. heap' \in [bump : Int, space : Nat] /\ a.result \in Int
    BY <1>1, <1>2 DEF Answer, Failed
  <1>5. line'.ptr = a.result /\ line'.n = FirstSize /\ line'.num = -1 /\ line'.cursor = a.result
    BY <1>1
  <1>6. FirstSize \in Nat \ {0}
    BY SizeAssumption
  <1>7. line' \in [ptr : Int, n : Nat \ {0}, num : Int, cursor : Int] /\ line' # NoLine
    BY <1>1, <1>4, <1>5, <1>6 DEF NoLine
  <1>8. NULL \in Address
    BY MappedIs, SizeAssumption, Products DEF NULL, Address
  <1>9. TypeOK'
    <2>1. m' \in [Address -> Letter \union {NL, NUL, Fresh}]
      BY <1>1
    <2>2. keys' \in Seq(Letter \union {NL})
      BY <1>1
    <2> QED BY <1>1, <1>3, <1>4, <1>5, <1>6, <1>8, <2>1, <2>2 DEF TypeOK, Maps
  <1>10. Records'
    BY <1>3, <1>4, <1>7 DEF Records
  <1>11. Len(keys') = 0
    BY <1>1
  <1>12. Buffers'
    <2>1. line'.cursor = line'.ptr + Len(keys') /\ Len(keys') = line'.num + 1
      BY <1>4, <1>5, <1>11
    <2>2. line'.ptr # Failed => BufferSound'
      BY <1>1, <1>2, <1>5, <1>6 DEF Answer, BufferSound, Sound
    <2> QED BY <1>1, <1>7, <2>1, <2>2 DEF Buffers, Reading
  <1>13. Typing'
    BY <1>1, <1>11 DEF Typing, Letters, Typed
  <1>14. Faults'
    BY <1>1 DEF Inv, Faults, FaultsOnlyAtTheEdge
  <1> QED BY <1>9, <1>10, <1>12, <1>13, <1>14 DEF Inv

(* The places of a line's characters are mapped; the byte that ends it may *)
(* miss, at the end of memory only.                                        *)
Holding(h, p, r, n, num) ==
  /\ p \in Maps /\ h \in [bump : Int, space : Nat] /\ Sound(h, p)
  /\ r \in Nat /\ n \in Nat \ {0} /\ num \in Nat /\ num < n
  /\ p.first * PageSize <= r /\ r + RoundUp(n, Align) = h.bump

(* Where a character and those before it lie, and where the byte that ends *)
(* the line, two places further on, may miss.                              *)
Inside(p, r, n, num) ==
  /\ \A x \in r..(r + num) : x \in Mapped(p)
  /\ r + num + 2 \notin Mapped(p) =>
       /\ r + num + 2 \in {r + n, r + n + 1}
       /\ r + RoundUp(n, Align) = p.next * PageSize

(* A line that fits its buffer lies in mapped memory.                      *)
LEMMA EdgeIs ==
  ASSUME NEW h, NEW p, NEW r, NEW n, NEW num, Holding(h, p, r, n, num)
  PROVE  Inside(p, r, n, num)
  <1> DEFINE start == p.first * PageSize
             end == p.next * PageSize
             sz == RoundUp(n, Align)
             space == h.space
  <1>0. /\ p \in Maps /\ h \in [bump : Int, space : Nat] /\ Sound(h, p)
        /\ r \in Nat /\ n \in Nat \ {0} /\ num \in Nat /\ num < n
        /\ start <= r /\ r + sz = h.bump
    BY DEF Holding
  <1>1. /\ start \in Nat /\ end \in Nat /\ start <= r
        /\ \A x \in Int : x \in Mapped(p) <=> (start <= x /\ x < end)
    BY <1>0, MappedIs
  <1>2. sz \in Nat /\ sz >= n
    BY <1>0, SizeAssumption, RoundUpIs
  <1>3. r + sz + space = end /\ space \in Nat
    BY <1>0 DEF Sound
  <1>4. space <= 1 => space = 0
    BY <1>0, <1>3, AlignedSmall DEF Sound
  <1> HIDE DEF start, end, sz, space
  <1>5. \A x \in r..(r + num) : x \in Mapped(p)
    BY <1>0, <1>1, <1>2, <1>3
  <1>6. ASSUME r + num + 2 \notin Mapped(p)
        PROVE  r + num + 2 \in {r + n, r + n + 1} /\ r + sz = end
    <2>1. r + num + 2 >= end
      BY <1>0, <1>1, <1>6
    <2>2. space <= 1
      BY <1>0, <1>2, <1>3, <2>1
    <2> QED BY <1>0, <1>2, <1>3, <1>4, <2>1, <2>2
  <1> QED BY <1>5, <1>6 DEF Inside, sz, end

Bytes == Letter \union {NL, NUL, Fresh}

(* A character in its place after the ones before, in the same buffer or   *)
(* copied to another.                                                      *)
Stores(b, r, text) ==
  /\ b \in [Address -> Bytes]
  /\ \A i \in 1..Len(text) : b[r + i - 1] = text[i]

(* Storing one character keeps those before it, wherever they are now.     *)
LEMMA StoredIs ==
  ASSUME NEW old \in [Address -> Bytes], NEW text \in Seq(Letter \union {NL}),
         NEW ptr \in Nat, \A i \in 1..Len(text) : old[ptr + i - 1] = text[i],
         \A x \in ptr..(ptr + Len(text) - 1) : x \in Address,
         NEW r \in Nat, \A x \in r..(r + Len(text)) : x \in Address,
         NEW copied, copied = memcpy(old, r, ptr, Len(text)) \/ (r = ptr /\ copied = old),
         NEW c \in Letter \union {NL},
         NEW stored, stored = [copied EXCEPT ![r + Len(text)] = c]
  PROVE  Stores(stored, r, Append(text, c))
  <1> DEFINE n == Len(text)
  <1>1. n \in Nat
    OBVIOUS
  <1>2. copied \in [Address -> Bytes] /\ \A i \in 1..n : copied[r + i - 1] = text[i]
    <2>1. CASE r = ptr /\ copied = old
      BY <2>1
    <2>2. CASE copied = memcpy(old, r, ptr, Len(text))
      <3>1. copied = [a \in Address |-> IF a \in r..(r + n - 1) THEN old[ptr + (a - r)] ELSE old[a]]
        BY <2>2 DEF memcpy
      <3> HIDE DEF n
      <3>2. ASSUME NEW a \in r..(r + n - 1)
            PROVE  ptr + (a - r) \in Address
        <4>1. ptr + (a - r) \in ptr..(ptr + n - 1)
          BY <1>1
        <4> QED BY <4>1 DEF n
      <3>3. copied \in [Address -> Bytes]
        BY <3>1, <3>2
      <3>4. ASSUME NEW i \in 1..n
            PROVE  copied[r + i - 1] = text[i]
        <4>1. r + i - 1 \in r..(r + n - 1) /\ r + i - 1 \in r..(r + n)
              /\ ptr + (r + i - 1 - r) = ptr + i - 1
          BY <1>1
        <4>2. r + i - 1 \in Address
          BY <4>1 DEF n
        <4>3. copied[r + i - 1] = old[ptr + i - 1]
          BY <3>1, <4>1, <4>2
        <4> QED BY <4>3 DEF n
      <3> QED BY <3>3, <3>4
    <2> QED BY <2>1, <2>2
  <1>3. r + n \in Address
    BY <1>1
  <1>4. stored \in [Address -> Bytes]
    BY <1>2, <1>3 DEF Bytes
  <1>5. ASSUME NEW i \in 1..(n + 1)
        PROVE  stored[r + i - 1] = Append(text, c)[i]
    <2>1. r + i - 1 \in Address
      <3>1. r + i - 1 \in r..(r + n)
        BY <1>1
      <3> QED BY <3>1
    <2>2. CASE i = n + 1
      <3>1. r + i - 1 = r + n /\ Append(text, c)[i] = c
        BY <1>1, <2>2
      <3> QED BY <1>2, <1>3, <3>1
    <2>3. CASE i # n + 1
      <3>1. i \in 1..n /\ r + i - 1 # r + n /\ Append(text, c)[i] = text[i]
        BY <1>1, <2>3
      <3> QED BY <1>2, <2>1, <3>1
    <2> QED BY <2>2, <2>3
  <1>6. Len(Append(text, c)) = n + 1
    OBVIOUS
  <1> QED BY <1>4, <1>5, <1>6 DEF Stores

(* One turn of getline's loop: with or without growth, with or without     *)
(* malloc's failure, in the middle or at the end of the line.              *)
LEMMA CharacterInv ==
  ASSUME Inv, NEW c \in Letter \union {NL}, GetCharacter(c)
  PROVE  Inv'
  <1> DEFINE num == line.num + 1
             grows == Grows(line.n, num)
             a == IF grows THEN Malloc(line.n * 2)
                  ELSE [result |-> line.ptr, heap |-> heap, maps |-> maps]
             r == a.result
             cursor == IF grows THEN r + num ELSE line.cursor
             stores == {cursor} \union (IF grows THEN r..(r + num - 1) ELSE {})
                         \union (IF c = NL THEN {cursor + 2} ELSE {})
             copied == IF grows THEN memcpy(m, r, line.ptr, num) ELSE m
             stored == [copied EXCEPT ![cursor] = c]
             n == IF grows THEN line.n * 2 ELSE line.n
  <1>1. /\ pc = "getline" /\ keys' = Append(keys, c) /\ heap' = a.heap /\ maps' = a.maps
        /\ line' = [ptr |-> r, n |-> n, num |-> num, cursor |-> cursor + 1]
        /\ fault' = stores \ Mapped(maps') /\ input' = input /\ name' = name
        /\ fault' # {} => pc' = "halted" /\ m' = m
        /\ fault' = {} /\ c = NL => pc' = "strsep" /\ m' = [stored EXCEPT ![cursor + 2] = NUL]
        /\ fault' = {} /\ c # NL => pc' = "getline" /\ m' = stored
    BY DEF GetCharacter
  <1>2. /\ line \in [ptr : Int, n : Nat \ {0}, num : Int, cursor : Int]
        /\ Len(keys) = num /\ line.cursor = line.ptr + num
        /\ num \in Nat /\ keys \in Seq(Letter \union {NL})
        /\ IF line.ptr = Failed THEN num = 0 ELSE BufferSound
    <2>1. line \in [ptr : Int, n : Nat \ {0}, num : Int, cursor : Int]
      BY <1>1 DEF Inv, Records, Buffers, Reading
    <2>2. Len(keys) = num /\ line.cursor = line.ptr + num
          /\ IF line.ptr = Failed THEN keys = <<>> ELSE BufferSound
      BY <1>1 DEF Inv, Buffers, Reading
    <2>3. Len(keys) \in Nat /\ keys \in Seq(Letter \union {NL})
      BY TypesAre
    <2> QED BY <2>1, <2>2, <2>3
  <1>3. /\ grows <=> line.n <= num
        /\ line.n \in Nat \ {0} /\ line.ptr \in Int /\ n \in Nat \ {0}
        /\ line.ptr = Failed => ~grows
        /\ line.ptr # Failed /\ grows => num = line.n
    BY <1>2 DEF Grows, BufferSound
  <1>4. Answer(a, n)
    <2>1. CASE grows
      <3>1. Ready
        BY <1>2, <1>3, <2>1, TypesAre DEF Ready, BufferSound
      <3>2. PICK size \in Nat \ {0} : size = line.n * 2
        BY <1>3
      <3> QED BY <2>1, <3>1, <3>2, MallocIs
    <2>2. CASE ~grows
      <3>1. a.result = line.ptr /\ a.heap = heap /\ a.maps = maps /\ n = line.n
        BY <2>2
      <3>2. Mapping(maps, maps) /\ heap \in [bump : Int, space : Nat]
        BY TypesAre DEF Mapping, Maps
      <3>3. BufferSound => line.ptr \in Nat
        <4>1. maps.first * PageSize \in Nat
          BY TypesAre, MappedIs
        <4> QED BY <1>3, <4>1 DEF BufferSound
      <3> HIDE DEF a, n
      <3> QED BY <1>2, <3>1, <3>2, <3>3 DEF Answer, BufferSound
    <2> QED BY <2>1, <2>2
  <1>5. cursor = r + num
    BY <1>2
  <1>6. r = Failed \/ num < n
    BY <1>2, <1>3 DEF BufferSound
  <1>7. /\ maps' \in Maps /\ maps'.next + maps'.left <= Memory + 1 /\ maps'.first <= maps'.next
        /\ heap' \in [bump : Int, space : Nat] /\ r \in Int
    <2> HIDE DEF a, n
    <2>1. Mapping(maps, maps') /\ heap' \in [bump : Int, space : Nat]
      BY <1>1, <1>4 DEF Answer
    <2>2. r \in Int
      BY <1>4 DEF Answer, Failed
    <2> QED BY <2>1, <2>2, TypesAre, MappingKeeps
  <1>8. /\ line'.ptr = r /\ line'.n = n /\ line'.num = num /\ line'.cursor = r + num + 1
        /\ line' \in [ptr : Int, n : Nat \ {0}, num : Int, cursor : Int] /\ line' # NoLine
    <2> HIDE DEF a, r, n, num, cursor
    <2>1. /\ line'.ptr = r /\ line'.n = n /\ line'.num = num /\ line'.cursor = cursor + 1
          /\ line' \in [ptr : Int, n : Nat \ {0}, num : Int, cursor : Int]
      BY <1>1, <1>2, <1>3, <1>5, <1>7
    <2>2. line' # NoLine
      BY <2>1, <1>3 DEF NoLine
    <2> QED BY <1>5, <2>1, <2>2
  <1>9. /\ keys' \in Seq(Letter \union {NL}) /\ Len(keys') = num + 1 /\ keys' # <<>>
        /\ \A i \in 1..num : keys'[i] = keys[i]
        /\ keys'[num + 1] = c /\ Last(keys') = c
    <2> HIDE DEF num
    <2>1. keys' = Append(keys, c) /\ Len(keys) = num /\ keys \in Seq(Letter \union {NL})
      BY <1>1, <1>2
    <2>2. /\ keys' \in Seq(Letter \union {NL}) /\ Len(keys') = num + 1
          /\ \A i \in 1..num : keys'[i] = keys[i]
          /\ keys'[num + 1] = c
      BY <2>1
    <2> QED BY <1>2, <2>2 DEF Last
  <1>10. Records'
    BY <1>7, <1>8 DEF Records
  <1>11. ASSUME m' \in [Address -> Letter \union {NL, NUL, Fresh}],
                pc' \in {"getline", "strsep", "halted"}
         PROVE  TypeOK'
    <2>1. input' \in Address /\ name' \in Address
      BY <1>1 DEF Inv, TypeOK
    <2> HIDE DEF a, r, stores, n, num, cursor, stored
    <2>2. line'.ptr \in Int /\ line'.cursor \in Int /\ line'.n \in Nat /\ line'.num >= -1
      BY <1>2, <1>3, <1>7, <1>8
    <2> QED BY <1>7, <1>9, <1>11, <2>1, <2>2 DEF TypeOK, Maps
  <1> HIDE DEF a, r, stores, n, num, cursor, stored
  <1>12. CASE r = Failed
    <2>1. -1 \in stores
      <3>1. CASE grows
        <4>1. -1 \in r..(r + num - 1)
          BY <1>2, <1>3, <1>12, <3>1 DEF Failed
        <4> QED BY <3>1, <4>1 DEF stores
      <3>2. CASE ~grows
        <4>1. cursor = -1
          BY <1>2, <1>3, <1>5, <1>12, <3>2 DEF Failed, r, a
        <4> QED BY <4>1 DEF stores
      <3> QED BY <3>1, <3>2
    <2>2. -1 \notin Mapped(maps')
      BY <1>7, MappedIs
    <2>3. fault' # {} /\ line'.ptr = Failed
      BY <1>1, <1>8, <1>12, <2>1, <2>2
    <2>4. pc' = "halted" /\ m' = m
      BY <1>1, <2>3
    <2>5. TypeOK'
      BY <1>11, <2>4 DEF Inv, TypeOK
    <2>6. Faults'
      BY <2>3, <2>4 DEF Faults, FaultsOnlyAtTheEdge
    <2> QED BY <1>10, <2>4, <2>5, <2>6 DEF Inv, Buffers, Typing, Reading
  <1>13. CASE r # Failed
    <2>1. /\ Sound(heap', maps') /\ maps'.first * PageSize <= r /\ r \in Nat
          /\ r + RoundUp(n, Align) = heap'.bump /\ num < n
      BY <1>1, <1>4, <1>6, <1>13 DEF Answer, r
    <2>2. /\ \A x \in r..(r + num) : x \in Mapped(maps')
          /\ r + num + 2 \notin Mapped(maps') =>
               /\ r + num + 2 \in {r + n, r + n + 1}
               /\ r + RoundUp(n, Align) = maps'.next * PageSize
      <3>1. num \in Nat /\ num < n
        BY <1>2, <2>1
      <3>2. n \in Nat \ {0}
        BY <1>3
      <3>3. maps' \in Maps
        BY <1>7
      <3>4. heap' \in [bump : Int, space : Nat]
        BY <1>7
      <3>5. r \in Nat
        BY <2>1
      <3>6. Holding(heap', maps', r, n, num)
        BY <2>1, <3>1, <3>2, <3>3, <3>4, <3>5 DEF Holding
      <3> QED BY <3>6, EdgeIs DEF Inside
    <2>3. \A x \in r..(r + num) : x \in Address
      BY <1>7, <2>2, MappedIs
    <2>4. fault' \subseteq (IF c = NL THEN {r + num + 2} ELSE {})
      <3>1. stores \subseteq (r..(r + num)) \union (IF c = NL THEN {r + num + 2} ELSE {})
        BY <1>2, <1>5, <2>1 DEF stores
      <3> QED BY <1>1, <2>2, <3>1
    <2>5. BufferSound'
      BY <1>8, <2>1 DEF BufferSound
    <2>6. Buffers'
      <3>1. pc' # "prompt"
        BY <1>1
      <3>2. line'.cursor = line'.ptr + Len(keys') /\ Len(keys') = line'.num + 1
        BY <1>2, <1>7, <1>8, <1>9
      <3> QED BY <1>8, <1>13, <2>5, <3>1, <3>2 DEF Buffers
    <2>7. CASE fault' # {}
      <3>1. c = NL /\ fault' = {r + num + 2} /\ r + num + 2 \notin Mapped(maps')
        BY <1>1, <2>4, <2>7
      <3>2. FaultsOnlyAtTheEdge'
        BY <1>8, <1>9, <2>2, <3>1 DEF FaultsOnlyAtTheEdge
      <3>3. pc' = "halted" /\ m' = m
        BY <1>1, <2>7
      <3>4. TypeOK'
        BY <1>11, <3>3 DEF Inv, TypeOK
      <3> QED BY <1>10, <2>6, <3>2, <3>3, <3>4 DEF Inv, Typing, Faults
    <2>8. CASE fault' = {}
      <3>1. /\ stored \in [Address -> Bytes]
            /\ \A i \in 1..(num + 1) : stored[r + i - 1] = keys'[i]
        <4> DEFINE ptr == line.ptr
        <4>1. BufferSound
          <5>1. line.ptr # Failed
            BY <1>3, <1>13 DEF r, a
          <5> QED BY <1>2, <5>1
        <4>2. ptr \in Nat
          <5>1. maps.first * PageSize \in Nat
            BY TypesAre, MappedIs
          <5> QED BY <1>3, <4>1, <5>1 DEF BufferSound
        <4>3. \A x \in ptr..(ptr + num - 1) : x \in Address
          <5>1. CASE num = 0
            BY <4>2, <5>1
          <5>2. CASE num # 0
            <6>1. num - 1 \in Nat /\ num - 1 < line.n
              BY <1>2, <1>3, <4>1, <5>2 DEF BufferSound
            <6>2. maps \in Maps
              BY TypesAre
            <6>3. heap \in [bump : Int, space : Nat]
              BY TypesAre
            <6>4. line.n \in Nat \ {0}
              BY <1>3
            <6>5. Sound(heap, maps) /\ maps.first * PageSize <= ptr
                  /\ ptr + RoundUp(line.n, Align) = heap.bump
              BY <4>1 DEF BufferSound
            <6> HIDE DEF ptr
            <6>6. \A x \in ptr..(ptr + (num - 1)) : x \in Mapped(maps)
              <7>1. Holding(heap, maps, ptr, line.n, num - 1)
                BY <4>2, <6>1, <6>2, <6>3, <6>4, <6>5 DEF Holding
              <7> QED BY <7>1, EdgeIs DEF Inside
            <6>7. ptr + (num - 1) = ptr + num - 1
              BY <1>2, <4>2
            <6> QED BY <6>2, <6>6, <6>7, MappedIs
          <5> QED BY <5>1, <5>2
        <4>4. m \in [Address -> Bytes]
          BY DEF Inv, TypeOK, Bytes
        <4>5. \A i \in 1..num : m[ptr + i - 1] = keys[i]
          BY <1>1, <1>2 DEF Inv, Typing, Typed
        <4>6. copied = memcpy(m, r, ptr, num) \/ (r = ptr /\ copied = m)
          BY DEF copied, r, a
        <4>7. keys \in Seq(Letter \union {NL}) /\ Len(keys) = num
          BY <1>2
        <4>8. stored = [copied EXCEPT ![r + num] = c] /\ keys' = Append(keys, c)
          BY <1>1, <1>5 DEF stored
        <4> HIDE DEF ptr, copied
        <4>9. Stores(stored, r, Append(keys, c))
          <5>1. \A i \in 1..Len(keys) : m[ptr + i - 1] = keys[i]
            BY <4>5, <4>7
          <5>2. \A x \in ptr..(ptr + Len(keys) - 1) : x \in Address
            BY <4>3, <4>7
          <5>3. \A x \in r..(r + Len(keys)) : x \in Address
            BY <2>3, <4>7
          <5>4. copied = memcpy(m, r, ptr, Len(keys)) \/ (r = ptr /\ copied = m)
            BY <4>6, <4>7
          <5>5. r \in Nat
            BY <2>1
          <5>6. keys \in Seq(Letter \union {NL})
            BY <4>7
          <5>7. stored = [copied EXCEPT ![r + Len(keys)] = c]
            BY <4>7, <4>8
          <5> QED BY <4>2, <4>4, <5>1, <5>2, <5>3, <5>4, <5>5, <5>6, <5>7, StoredIs
        <4> QED BY <1>9, <4>8, <4>9 DEF Stores
      <3>2. /\ m' \in [Address -> Bytes]
            /\ \A i \in 1..(num + 1) : m'[line'.ptr + i - 1] = keys'[i]
        <4>1. CASE c # NL
          BY <1>1, <1>8, <2>8, <3>1, <4>1
        <4>2. CASE c = NL
          <5>1. m' = [stored EXCEPT ![r + num + 2] = NUL]
            BY <1>1, <1>5, <2>8, <4>2
          <5>2. \A i \in 1..(num + 1) : r + num + 2 # r + i - 1 /\ r + i - 1 \in r..(r + num)
            BY <1>2, <2>1
          <5>3. m' \in [Address -> Bytes]
            BY <3>1, <5>1 DEF Bytes
          <5>4. \A i \in 1..(num + 1) : m'[r + i - 1] = stored[r + i - 1]
            BY <2>3, <3>1, <5>1, <5>2
          <5> QED BY <1>8, <3>1, <5>3, <5>4
        <4> QED BY <4>1, <4>2
      <3>3. pc' = IF c = NL THEN "strsep" ELSE "getline"
        BY <1>1, <2>8
      <3>4. TypeOK'
        BY <1>11, <3>2, <3>3 DEF Bytes
      <3>5. Typing'
        <4>1. \A i \in 1..num : keys'[i] \in Letter
          BY <1>1, <1>2, <1>9 DEF Inv, Typing, Letters
        <4>2. Len(keys') = num + 1 /\ Len(keys') - 1 = num /\ keys'[num + 1] = c
              /\ num + 1 >= 1
          BY <1>2, <1>9
        <4>3. CASE c # NL
          <5>1. \A i \in 1..(num + 1) : keys'[i] \in Letter
            BY <1>2, <4>1, <4>2, <4>3
          <5> QED BY <3>2, <3>3, <4>2, <4>3, <5>1 DEF Typing, Letters, Typed
        <4>4. CASE c = NL
          BY <3>2, <3>3, <4>1, <4>2, <4>4 DEF Typing, Letters, Typed
        <4> QED BY <4>3, <4>4
      <3> QED BY <1>10, <2>6, <2>8, <3>4, <3>5 DEF Inv, Faults, FaultsOnlyAtTheEdge
    <2> QED BY <2>7, <2>8
  <1> QED BY <1>12, <1>13


-----------------------------------------------------------------------------
(* Loops over a string.  at[p] is the value at the first of the places T   *)
(* from p on.                                                              *)
Walk(at, T, val) == at = [p \in Nat |-> IF p \in T THEN val[p] ELSE at[p + 1]]

(* Such a function exists, whatever the places.                            *)
LEMMA WalkSome ==
  ASSUME NEW T \in SUBSET Nat, NEW val
  PROVE  \E at : Walk(at, T, val)
  <1> DEFINE From(p) == {q \in T : q >= p}
             Least(S) == CHOOSE q \in S : \A r \in S : q <= r
             at == [p \in Nat |-> IF From(p) = {} THEN 0 ELSE val[Least(From(p))]]
  <1>1. ASSUME NEW p \in Nat
        PROVE  at[p] = IF p \in T THEN val[p] ELSE at[p + 1]
    <2>1. at[p] = IF From(p) = {} THEN 0 ELSE val[Least(From(p))]
      OBVIOUS
    <2>2. CASE p \in T
      <3>1. p \in From(p) /\ \A r \in From(p) : p <= r
        BY <2>2
      <3>2. Least(From(p)) \in From(p) /\ \A r \in From(p) : Least(From(p)) <= r
        BY <3>1
      <3>3. From(p) \in SUBSET Nat
        OBVIOUS
      <3> HIDE DEF at, From, Least
      <3>4. Least(From(p)) = p
        BY <3>1, <3>2, <3>3
      <3> QED BY <2>1, <2>2, <3>1, <3>4
    <2>3. CASE p \notin T
      <3>0. \A q \in T : q >= p <=> q >= p + 1
        <4>1. \A q \in T : q \in Nat /\ q # p
          BY <2>3
        <4> QED BY <4>1
      <3>1. From(p) = From(p + 1)
        BY <3>0
      <3>2. at[p + 1] = IF From(p + 1) = {} THEN 0 ELSE val[Least(From(p + 1))]
        OBVIOUS
      <3> HIDE DEF at, From, Least
      <3> QED BY <2>1, <2>3, <3>1, <3>2
    <2> QED BY <2>2, <2>3
  <1>2. at = [p \in Nat |-> at[p]]
    OBVIOUS
  <1> HIDE DEF at
  <1>3. at = [p \in Nat |-> IF p \in T THEN val[p] ELSE at[p + 1]]
    BY <1>1, <1>2
  <1> QED BY <1>3 DEF Walk

(* And its value is that of the first place.                               *)
LEMMA WalkStops ==
  ASSUME NEW T, NEW val, NEW at, Walk(at, T, val), NEW s \in Nat, NEW e \in Nat, s <= e,
         e \in T, \A q \in s..(e - 1) : q \notin T
  PROVE  at[s] = val[e]
  <1> DEFINE n == e - s
             same == {i \in Nat : at[e - i] = val[e]}
  <1>1. n \in Nat
    OBVIOUS
  <1>2. 0 \in same
    BY DEF Walk
  <1>3. ASSUME NEW i \in 0..(n - 1), i \in same PROVE i + 1 \in same
    <2>1. e - (i + 1) \in s..(e - 1) /\ e - (i + 1) \in Nat /\ e - (i + 1) + 1 = e - i
      OBVIOUS
    <2>2. at[e - (i + 1)] = at[e - i]
      BY <2>1 DEF Walk
    <2> QED BY <1>3, <2>2
  <1> HIDE DEF same, n
  <1>4. \A i \in 0..n : i \in same
    BY <1>1, <1>2, <1>3, Loop!UpTo
  <1>5. n \in same /\ e - n = s
    BY <1>1, <1>4 DEF n
  <1> QED BY <1>5 DEF same

(* The loop of Stop from s ends at e.                                      *)
StopsAt(b, s, stops, e) ==
  /\ s \in Nat /\ e \in Nat /\ s <= e
  /\ b[e] \in stops \union {NUL}
  /\ \A q \in s..(e - 1) : b[q] \notin stops \union {NUL}

(* Stop returns where its loop ends.                                       *)
LEMMA StopIs ==
  ASSUME NEW b, NEW s, NEW stops, NEW e, StopsAt(b, s, stops, e)
  PROVE  Stop(b, s, stops) = e
  <1> DEFINE T == {p \in Nat : b[p] \in stops \union {NUL}}
             val == [p \in Nat |-> p]
             Loop1(f) == f = [p \in Nat |-> IF b[p] \in stops \union {NUL} THEN p ELSE f[p + 1]]
             at == CHOOSE f : Loop1(f)
  <1>0. /\ s \in Nat /\ e \in Nat /\ s <= e /\ b[e] \in stops \union {NUL}
        /\ \A q \in s..(e - 1) : b[q] \notin stops \union {NUL}
    BY DEF StopsAt
  <1>1. \A f : Walk(f, T, val) <=> Loop1(f)
    BY DEF Walk
  <1>2. Stop(b, s, stops) = at[s]
    BY DEF Stop
  <1>3. T \in SUBSET Nat /\ e \in T /\ \A q \in s..(e - 1) : q \notin T
    BY <1>0
  <1>4. val[e] = e
    BY <1>0
  <1> HIDE DEF T, val, Loop1
  <1>5. Loop1(at)
    BY <1>1, <1>3, WalkSome
  <1> HIDE DEF at
  <1>6. Walk(at, T, val)
    BY <1>1, <1>5
  <1>7. at[s] = val[e]
    BY <1>0, <1>3, <1>6, WalkStops
  <1> QED BY <1>2, <1>4, <1>7

-----------------------------------------------------------------------------
(* The line in its buffer, while the shell reads it.                       *)
InBuffer ==
  /\ line.ptr \in Nat \ {0} /\ BufferSound
  /\ Len(keys) \in Nat /\ keys \in Seq(Letter \union {NL})
  /\ \A x \in line.ptr..(line.ptr + Len(keys) - 1) : x \in Mapped(maps) /\ x \in Address

(* The characters of the line lie in mapped memory.                        *)
LEMMA InBufferIs ==
  ASSUME Inv, pc \in Reading, line.ptr # Failed
  PROVE  InBuffer
  <1> DEFINE num == line.num
             ptr == line.ptr
             n == line.n
             len == Len(keys)
  <1>1. /\ line \in [ptr : Int, n : Nat \ {0}, num : Int, cursor : Int]
        /\ len = num + 1 /\ BufferSound
    BY DEF Inv, Records, Buffers
  <1>2. len \in Nat /\ keys \in Seq(Letter \union {NL})
    BY TypesAre
  <1>3. ptr \in Int /\ n \in Nat \ {0} /\ num \in Int /\ num < n
    BY <1>1 DEF BufferSound
  <1>4. maps \in Maps /\ heap \in [bump : Int, space : Nat]
    BY TypesAre
  <1>5. /\ Sound(heap, maps) /\ maps.first * PageSize <= ptr
        /\ ptr + RoundUp(n, Align) = heap.bump
    BY <1>1 DEF BufferSound
  <1>6. maps.first * PageSize \in Nat /\ maps.first * PageSize >= PageSize
    BY <1>4, MappedIs
  <1> HIDE DEF ptr, n, num, len
  <1>7. ptr \in Nat \ {0}
    BY <1>3, <1>5, <1>6, SizeAssumption
  <1>8. \A x \in ptr..(ptr + len - 1) : x \in Mapped(maps)
    <2>1. CASE len = 0
      BY <1>7, <2>1
    <2>2. CASE len # 0
      <3>1. num \in Nat
        BY <1>1, <1>2, <1>3, <2>2
      <3>2. Holding(heap, maps, ptr, n, num)
        BY <1>3, <1>4, <1>5, <1>7, <3>1 DEF Holding
      <3>3. ptr + num = ptr + len - 1
        BY <1>1, <1>2, <1>3, <1>7
      <3> QED BY <3>2, <3>3, EdgeIs DEF Inside
    <2> QED BY <2>1, <2>2
  <1>9. \A x \in ptr..(ptr + len - 1) : x \in Mapped(maps) /\ x \in Address
    BY <1>4, <1>8, MappedIs
  <1> QED BY <1>1, <1>2, <1>7, <1>9 DEF InBuffer, ptr, len

(* No character is NUL, and the newline is not a letter.                   *)
LEMMA CharactersAre ==
  /\ NL # NUL /\ NL \notin Letter /\ NUL \notin Letter
  /\ \A c \in Letter \union {NL} : c \in 1..127
  /\ \A c \in Letter : c \in Nat
  <1>1. Letter \subseteq 1..127 /\ NL \in (1..127) \ Letter
    BY CharAssumption
  <1>2. NUL \notin 1..127
    BY DEF NUL
  <1>3. \A c \in 1..127 : c \in Nat
    OBVIOUS
  <1> QED BY <1>1, <1>2, <1>3

(* strsep finds the newline, nothing before it being NUL or a newline, and *)
(* puts the end of the name there.                                         *)
LEMMA CutLineInv ==
  ASSUME Inv, CutLine
  PROVE  Inv'
  <1> DEFINE ptr == line.ptr
             len == Len(keys) - 1
             s == strsep(m, ptr, {NL})
             cut == [m EXCEPT ![ptr + len] = NUL]
  <1>1. /\ pc = "strsep" /\ m' = s.m /\ name' = s.result /\ input' = s.rest
        /\ pc' = IF stringlen(s.m, s.result) = 0 THEN "prompt" ELSE "exec"
        /\ UNCHANGED <<heap, maps, line, keys, fault>>
    BY DEF CutLine
  <1>2. InBuffer /\ ptr # Failed
    <2>1. ptr # Failed
      BY <1>1 DEF Inv, Buffers, Reading
    <2> QED BY <1>1, <2>1, InBufferIs DEF Reading
  <1>3. ptr \in Nat \ {0} /\ len \in Nat /\ keys \in Seq(Letter \union {NL})
    BY <1>1, <1>2 DEF InBuffer, Inv, Typing
  <1>4. \A x \in ptr..(ptr + len) : x \in Mapped(maps) /\ x \in Address
    <2>1. ptr + Len(keys) - 1 = ptr + len
      BY <1>2, <1>3 DEF InBuffer
    <2> QED BY <1>2, <2>1 DEF InBuffer
  <1>5. /\ \A i \in 1..len : m[ptr + i - 1] = keys[i] /\ keys[i] \in Letter
        /\ m[ptr + len] = NL
    <2>1. /\ \A i \in 1..Len(keys) : m[ptr + i - 1] = keys[i]
          /\ \A i \in 1..len : keys[i] \in Letter
          /\ keys[Len(keys)] = NL
      BY <1>1 DEF Inv, Typing, Typed, Letters
    <2>2. Len(keys) = len + 1 /\ len + 1 \in 1..Len(keys) /\ ptr + (len + 1) - 1 = ptr + len
      BY <1>2, <1>3 DEF InBuffer
    <2>3. \A i \in 1..len : i \in 1..Len(keys)
      BY <2>2, <1>3
    <2> QED BY <2>1, <2>2, <2>3
  <1>6. NL # NUL /\ NL \notin Letter /\ NUL \notin Letter
    BY CharactersAre
  <1> HIDE DEF ptr, len
  <1>7. \A q \in ptr..((ptr + len) - 1) : m[q] \in Letter /\ q # ptr + len
    <2> SUFFICES ASSUME NEW q \in ptr..((ptr + len) - 1) PROVE m[q] \in Letter /\ q # ptr + len
      OBVIOUS
    <2>1. q - ptr + 1 \in 1..len /\ ptr + (q - ptr + 1) - 1 = q /\ q # ptr + len
      BY <1>3
    <2> QED BY <1>5, <2>1
  <1>8. Stop(m, ptr, {NL}) = ptr + len
    <2>1. ptr \in Nat /\ ptr + len \in Nat /\ ptr <= ptr + len
      BY <1>3
    <2>2. m[ptr + len] \in {NL} \union {NUL}
      BY <1>5
    <2>3. \A q \in ptr..((ptr + len) - 1) : m[q] \notin {NL} \union {NUL}
      BY <1>6, <1>7
    <2>4. StopsAt(m, ptr, {NL}, ptr + len)
      BY <2>1, <2>2, <2>3 DEF StopsAt
    <2> QED BY <2>4, StopIs
  <1>9. m' = cut /\ name' = ptr /\ input' = ptr + len + 1
        /\ pc' = IF stringlen(cut, ptr) = 0 THEN "prompt" ELSE "exec"
    <2>1. ptr # NULL /\ m[ptr + len] # NUL
      BY <1>3, <1>5, <1>6 DEF NULL
    <2>2. s = [result |-> ptr, rest |-> ptr + len + 1, m |-> cut]
      BY <1>8, <2>1 DEF strsep
    <2> HIDE DEF s, cut
    <2>3. s.result = ptr /\ s.rest = ptr + len + 1 /\ s.m = cut
      BY <2>2
    <2> QED BY <1>1, <2>3
  <1>10. m \in [Address -> Bytes] /\ ptr + len \in Address /\ ptr + len \in Mapped(maps)
    <2>1. ptr + len \in ptr..(ptr + len)
      BY <1>3
    <2> QED BY <1>4, <2>1 DEF Inv, TypeOK, Bytes
  <1>11. /\ cut \in [Address -> Bytes] /\ cut[ptr + len] = NUL
         /\ \A i \in 1..len : cut[ptr + i - 1] = keys[i]
    <2>1. cut \in [Address -> Bytes] /\ cut[ptr + len] = NUL
      BY <1>10 DEF Bytes
    <2>2. \A i \in 1..len : ptr + i - 1 # ptr + len /\ ptr + i - 1 \in ptr..(ptr + len)
      BY <1>3
    <2> QED BY <1>4, <1>5, <1>10, <2>1, <2>2
  <1>12. stringlen(cut, ptr) = len
    <2>1. \A q \in ptr..((ptr + len) - 1) : cut[q] \notin {} \union {NUL}
      <3>1. \A q \in ptr..((ptr + len) - 1) : cut[q] = m[q]
        <4>1. \A q \in ptr..((ptr + len) - 1) : q \in ptr..(ptr + len)
          BY <1>3
        <4> QED BY <1>4, <1>7, <1>10, <4>1
      <3> QED BY <1>6, <1>7, <3>1
    <2>2. cut[ptr + len] \in {} \union {NUL}
      BY <1>11
    <2>3. ptr \in Nat /\ ptr + len \in Nat /\ ptr <= ptr + len
      BY <1>3
    <2> HIDE DEF cut
    <2>4. Stop(cut, ptr, {}) = ptr + len
      <3>1. StopsAt(cut, ptr, {}, ptr + len)
        BY <2>1, <2>2, <2>3 DEF StopsAt
      <3> QED BY <3>1, StopIs
    <2> QED BY <1>3, <2>4 DEF stringlen
  <1> HIDE DEF cut
  <1>13. pc' = IF len = 0 THEN "prompt" ELSE "exec"
    BY <1>9, <1>12
  <1>14. ptr \in Address /\ ptr + len + 1 \in Address
    <2>1. maps \in Maps
      BY TypesAre
    <2>2. ptr + len < maps.next * PageSize /\ maps.next * PageSize \in Nat
      BY <1>3, <1>10, <2>1, MappedIs
    <2>3. maps.next \in Nat /\ maps.next <= Memory + 1
      BY <2>1 DEF Maps
    <2>4. maps.next * PageSize <= (Memory + 1) * PageSize /\ (Memory + 1) * PageSize \in Nat
      BY <2>3, SizeAssumption, Products
    <2> DEFINE end == maps.next * PageSize
               limit == (Memory + 1) * PageSize
    <2>5. Address = 0..(limit + 2)
      BY DEF Address
    <2>6. ptr + len < end /\ end <= limit /\ end \in Nat /\ limit \in Nat
      BY <2>2, <2>4
    <2> HIDE DEF end, limit
    <2> QED BY <1>3, <2>5, <2>6
  <1>15. TypeOK'
    <2>1. m' \in [Address -> Letter \union {NL, NUL, Fresh}]
      BY <1>9, <1>11 DEF Bytes
    <2>2. pc' \in {"prompt", "getline", "strsep", "exec", "program", "halted"}
      BY <1>13
    <2>3. input' \in Address /\ name' \in Address
      BY <1>9, <1>14
    <2> QED BY <1>1, <2>1, <2>2, <2>3 DEF Inv, TypeOK
  <1>16. Records'
    BY <1>1 DEF Inv, Records
  <1>17. Buffers'
    <2>1. /\ line # NoLine /\ Len(keys) = line.num + 1 /\ line.cursor = line.ptr + Len(keys)
          /\ BufferSound
      BY <1>1, <1>2 DEF Inv, Buffers, Reading, ptr
    <2>2. BufferSound' /\ Sound(heap', maps') /\ line'.ptr # Failed
      BY <1>1, <1>2, <2>1 DEF BufferSound, ptr, Sound
    <2>3. pc' # "getline"
      BY <1>13
    <2> QED BY <1>1, <2>1, <2>2, <2>3 DEF Buffers
  <1>18. Typing'
    <2>1. pc' # "getline" /\ pc' # "strsep"
      BY <1>13
    <2>2. ASSUME pc' = "exec"
          PROVE  /\ Len(keys') > 1 /\ Letters(Len(keys) - 1)' /\ Typed(Len(keys) - 1)'
                 /\ name' = line'.ptr /\ m'[name' + Len(keys') - 1] = NUL
      <3>1. len # 0
        BY <1>13, <2>2
      <3>2. keys' = keys /\ line' = line /\ Len(keys) - 1 = len /\ Len(keys) \in Nat
        BY <1>1, <1>2 DEF len, InBuffer
      <3>3. Len(keys) > 1 /\ ptr + Len(keys) - 1 = ptr + len
        BY <1>3, <3>1, <3>2
      <3>4. \A i \in 1..len : m'[line'.ptr + i - 1] = keys'[i] /\ keys'[i] \in Letter
        BY <1>5, <1>9, <1>11, <3>2 DEF ptr
      <3>5. m'[name' + Len(keys') - 1] = NUL /\ name' = line'.ptr
        BY <1>9, <1>11, <3>2, <3>3 DEF ptr
      <3> QED BY <3>2, <3>3, <3>4, <3>5 DEF Letters, Typed
    <2> QED BY <1>1, <2>1, <2>2 DEF Typing, Letters, Typed
  <1>19. Faults'
    <2>1. fault' = {}
      BY <1>1 DEF Inv, Faults
    <2> QED BY <2>1 DEF Faults, FaultsOnlyAtTheEdge
  <1> QED BY <1>15, <1>16, <1>17, <1>18, <1>19 DEF Inv

(* exec takes memory from the shell's view, or answers -1.                 *)
LEMMA ExecInv ==
  ASSUME Inv, Exec
  PROVE  Inv'
  <1>1. /\ pc = "exec" /\ pc' \in {"prompt", "program", "halted"}
        /\ UNCHANGED <<m, heap, line, input, name, keys, fault>>
        /\ pc' = "prompt" => maps' = maps
    BY DEF Exec
  <1>2. \/ maps' = maps
        \/ maps' = [maps EXCEPT !.left = IF @ = 0 THEN 0 ELSE @ - 1]
    BY DEF Exec
  <1>3. maps' \in Maps /\ maps'.next + maps'.left <= Memory + 1 /\ maps'.first <= maps'.next
    <2> DEFINE left == IF maps.left = 0 THEN 0 ELSE maps.left - 1
               new == [maps EXCEPT !.left = left]
    <2>1. maps \in Maps /\ maps.next + maps.left <= Memory + 1 /\ maps.first <= maps.next
      BY TypesAre
    <2>2. maps.left \in 0..Memory /\ maps.next \in Nat
      BY <2>1, SizeAssumption DEF Maps
    <2>3. left \in 0..Memory /\ left <= maps.left
      BY <2>2, SizeAssumption
    <2>4. maps' = maps \/ maps' = new
      BY <1>2
    <2> HIDE DEF left
    <2>5. new.first = maps.first /\ new.next = maps.next /\ new.left = left
      BY <2>1 DEF Maps
    <2>6. new \in Maps
      BY <2>1, <2>3 DEF Maps
    <2> HIDE DEF new
    <2>7. new.next + new.left <= Memory + 1 /\ new.first <= new.next
      BY <2>1, <2>2, <2>3, <2>5, SizeAssumption
    <2> QED BY <2>1, <2>4, <2>6, <2>7
  <1>4. TypeOK'
    BY <1>1, <1>3 DEF Inv, TypeOK, Maps
  <1>5. Records'
    BY <1>1, <1>3 DEF Inv, Records
  <1>6. Buffers'
    <2>1. BufferSound
      BY <1>1 DEF Inv, Buffers, Reading
    <2>2. pc' = "prompt" => Sound(heap', maps')
      BY <1>1, <2>1 DEF BufferSound
    <2> QED BY <1>1, <2>2 DEF Buffers, Reading
  <1>7. Faults'
    BY <1>1 DEF Inv, Faults, FaultsOnlyAtTheEdge
  <1> QED BY <1>1, <1>4, <1>5, <1>6, <1>7 DEF Inv, Typing

(* The program's exit starts the shell again, past its pages.              *)
LEMMA ExitInv ==
  ASSUME Inv, Exit
  PROVE  Inv'
  <1>1. PICK pages \in 0..1 :
          LET p == Mmap(maps, pages).maps IN
          /\ pc' = IF p.left = 0 THEN "halted" ELSE "prompt"
          /\ maps' = [first |-> p.next, next |-> p.next,
                      left |-> IF p.left = 0 THEN 0 ELSE p.left - 1]
    BY DEF Exit
  <1>2. pc = "program" /\ heap' = NoHeap /\ line' = NoLine
        /\ UNCHANGED <<m, input, name, keys, fault>>
    BY DEF Exit
  <1> DEFINE p == Mmap(maps, pages).maps
             left == IF p.left = 0 THEN 0 ELSE p.left - 1
  <1>3. pc' \in {"halted", "prompt"} /\ maps' = [first |-> p.next, next |-> p.next, left |-> left]
    BY <1>1
  <1>4. Mapping(maps, p)
    BY TypesAre, MmapIs
  <1>5. p \in Maps /\ p.next + p.left <= Memory + 1
    <2> HIDE DEF p
    <2> QED BY <1>4, TypesAre, MappingKeeps
  <1> HIDE DEF p
  <1>6. left \in 0..Memory /\ left <= p.left /\ p.left \in 0..Memory /\ p.next \in 1..(Memory + 1)
    BY <1>5, SizeAssumption DEF Maps
  <1> HIDE DEF left
  <1>7. maps'.first = p.next /\ maps'.next = p.next /\ maps'.left = left /\ maps' \in Maps
    BY <1>3, <1>6 DEF Maps
  <1>8. maps'.next + maps'.left <= Memory + 1 /\ maps'.first <= maps'.next
    BY <1>5, <1>6, <1>7, SizeAssumption
  <1>9. TypeOK'
    <2>1. heap'.bump \in Int /\ heap'.space \in Nat
      BY <1>2 DEF NoHeap, NULL
    <2>2. line'.ptr \in Int /\ line'.cursor \in Int /\ line'.n \in Nat /\ line'.num >= -1
      BY <1>2 DEF NoLine, NULL
    <2>3. m' \in [Address -> Letter \union {NL, NUL, Fresh}] /\ input' \in Address
          /\ name' \in Address /\ keys' \in Seq(Letter \union {NL})
      BY <1>2 DEF Inv, TypeOK
    <2> QED BY <1>3, <1>7, <1>8, <2>1, <2>2, <2>3 DEF TypeOK, Maps
  <1>10. Records'
    BY <1>2, <1>8 DEF Records, NoHeap, NULL
  <1>11. Buffers'
    BY <1>2, <1>3 DEF Buffers, Reading
  <1>12. Faults'
    BY <1>2 DEF Inv, Faults, FaultsOnlyAtTheEdge
  <1> QED BY <1>3, <1>9, <1>10, <1>11, <1>12 DEF Inv, Typing

(* Every step keeps the invariant.                                         *)
LEMMA NextInv == Inv /\ [Next]_vars => Inv'
  <1> SUFFICES ASSUME Inv, [Next]_vars PROVE Inv'
    OBVIOUS
  <1>1. CASE Prompt
    BY <1>1, PromptInv
  <1>2. CASE \E c \in Letter \union {NL} : GetCharacter(c)
    BY <1>2, CharacterInv
  <1>3. CASE CutLine
    BY <1>3, CutLineInv
  <1>4. CASE Exec
    BY <1>4, ExecInv
  <1>5. CASE Exit
    BY <1>5, ExitInv
  <1>6. CASE UNCHANGED vars
    BY <1>6 DEF vars, Inv, TypeOK, Records, Buffers, BufferSound, Sound, Typing, Letters, Typed,
                Faults, FaultsOnlyAtTheEdge
  <1>7. CASE Backspace
    BY <1>6, <1>7 DEF Backspace
  <1> QED BY <1>1, <1>2, <1>3, <1>4, <1>5, <1>6, <1>7 DEF Next

(* And so it always holds.                                                 *)
LEMMA SpecInv == Spec => []Inv
  BY InitInv, NextInv, PTL DEF Spec

(* What the shell calls exec with: the line that was typed.                *)
NameIs ==
  /\ Len(keys) \in Nat /\ Len(keys) > 1
  /\ Front(keys) \in Seq(Letter) /\ Len(Front(keys)) = Len(keys) - 1
  /\ name \in Nat \ {0} /\ Holds(m, name, Front(keys))

(* The name is the line without its newline.                               *)
LEMMA NameInv ==
  ASSUME Inv, pc = "exec"
  PROVE  NameIs
  <1> DEFINE len == Len(keys) - 1
             text == Front(keys)
  <1>1. InBuffer
    BY InBufferIs DEF Inv, Buffers, Reading
  <1>2. /\ Len(keys) > 1 /\ name = line.ptr /\ m[name + Len(keys) - 1] = NUL
        /\ \A i \in 1..len : m[line.ptr + i - 1] = keys[i] /\ keys[i] \in Letter
    BY DEF Inv, Typing, Letters, Typed
  <1>3. Len(keys) \in Nat /\ keys \in Seq(Letter \union {NL}) /\ name \in Nat \ {0}
    BY <1>1, <1>2 DEF InBuffer
  <1>4. len \in Nat /\ len <= Len(keys) /\ name + Len(keys) - 1 = name + len
    BY <1>2, <1>3
  <1>5. text = [i \in 1..len |-> keys[i]]
    BY <1>3, <1>4 DEF Front, SubSeq
  <1> HIDE DEF text
  <1>6. text \in Seq(Letter) /\ Len(text) = len /\ DOMAIN text = 1..len
    <2> HIDE DEF len
    <2>1. \A i \in 1..len : keys[i] \in Letter
      BY <1>2
    <2> QED BY <1>4, <1>5, <2>1
  <1>7. \A i \in DOMAIN text : m[name + i - 1] = text[i]
    BY <1>2, <1>5, <1>6
  <1>8. Holds(m, name, text)
    BY <1>2, <1>4, <1>6, <1>7 DEF Holds
  <1> QED BY <1>2, <1>3, <1>6, <1>8 DEF NameIs, text

-----------------------------------------------------------------------------
(* Every variable keeps to its type: all addresses that exec and strsep    *)
(* are given are addresses of memory, and the pages never run past it.     *)
THEOREM TypeCorrect == Spec => []TypeOK
  <1>1. Inv => TypeOK
    BY DEF Inv
  <1> QED BY <1>1, SpecInv, PTL

(* getline stores outside mapped memory only at malloc's -1 or one byte    *)
(* late at the very end of memory (stdio.c:147-185, stdlib.c:34-59).       *)
THEOREM FaultsAtTheEdge == Spec => []FaultsOnlyAtTheEdge
  <1>1. Inv => FaultsOnlyAtTheEdge
    BY DEF Inv, Faults
  <1> QED BY <1>1, SpecInv, PTL

(* The buffer of the line stays in mapped memory and apart from what       *)
(* malloc has left, through every growth.                                  *)
THEOREM BufferOwned == Spec => []BufferIsOwned
  <1>1. ASSUME Inv PROVE BufferIsOwned
    <2> SUFFICES ASSUME pc \in Reading, line.ptr # Failed
                 PROVE  LET buffer == line.ptr..(line.ptr + line.n - 1) IN
                        /\ buffer \subseteq Mapped(maps)
                        /\ buffer \intersect (heap.bump..(heap.bump + heap.space - 1)) = {}
      BY DEF BufferIsOwned, Reading
    <2> DEFINE ptr == line.ptr
               n == line.n
               sz == RoundUp(n, Align)
               bump == heap.bump
               space == heap.space
    <2>1. ptr \in Nat /\ BufferSound
      BY <1>1, InBufferIs DEF InBuffer
    <2>2. n \in Nat \ {0} /\ bump \in Int /\ space \in Nat
      BY <1>1 DEF Inv, Buffers, Records
    <2>3. sz \in Nat /\ sz >= n
      BY <2>2, SizeAssumption, RoundUpIs
    <2>4. ptr + sz = bump /\ bump + space = maps.next * PageSize
          /\ maps.first * PageSize <= ptr
      BY <2>1 DEF BufferSound, Sound
    <2>5. \A a \in Int : a \in Mapped(maps) <=>
                         (maps.first * PageSize <= a /\ a < maps.next * PageSize)
      BY <1>1, TypesAre, MappedIs
    <2>6. maps.first * PageSize \in Nat /\ maps.next * PageSize \in Nat
      BY <1>1, TypesAre, MappedIs
    <2> DEFINE start == maps.first * PageSize
               end == maps.next * PageSize
    <2> HIDE DEF ptr, n, sz, bump, space, start, end
    <2>7. ptr..(ptr + n - 1) \subseteq Mapped(maps)
      BY <2>1, <2>2, <2>3, <2>4, <2>5, <2>6 DEF start, end
    <2>8. (ptr..(ptr + n - 1)) \intersect (bump..(bump + space - 1)) = {}
      BY <2>1, <2>2, <2>3, <2>4
    <2> QED BY <2>7, <2>8 DEF ptr, n, bump, space
  <1> QED BY <1>1, SpecInv, PTL

(* exec is called with the line as typed, whatever the growth of the       *)
(* buffer and whatever the memory held (init.c:22-27).                     *)
THEOREM ExecsTyped == Spec => []ExecsTypedName
  <1>1. ASSUME Inv PROVE ExecsTypedName
    <2> SUFFICES ASSUME pc = "exec" PROVE Len(keys) > 1 /\ Holds(m, name, Front(keys))
      BY DEF ExecsTypedName
    <2>1. NameIs
      BY <1>1, NameInv
    <2> QED BY <2>1 DEF NameIs
  <1> QED BY <1>1, SpecInv, PTL

-----------------------------------------------------------------------------
(* A string of characters in memory.                                       *)
String(b, s, text) ==
  /\ s \in Nat /\ text \in Seq(Nat) /\ Len(text) \in Nat
  /\ \A i \in 1..Len(text) : text[i] \in 1..127
  /\ DOMAIN text = 1..Len(text)
  /\ \A i \in 1..Len(text) : b[s + i - 1] = text[i]
  /\ b[s + Len(text)] = NUL

(* Its characters, counted from 0 as the loops do.                         *)
LEMMA StringAt ==
  ASSUME NEW b, NEW s, NEW text, String(b, s, text)
  PROVE  /\ \A i \in 0..(Len(text) - 1) : b[s + i] = text[i + 1] /\ b[s + i] \in 1..127
         /\ \A i \in 1..Len(text) : text[i] \in 1..127
         /\ \A i \in 0..Len(text) : b[s + i] \in 0..127
         /\ b[s + Len(text)] = 0 /\ s \in Nat /\ Len(text) \in Nat
  <1>1. s \in Nat /\ text \in Seq(Nat) /\ Len(text) \in Nat
    BY DEF String
  <1>2. \A i \in 1..Len(text) : b[s + i - 1] = text[i]
    BY DEF String
  <1>3. b[s + Len(text)] = 0
    BY DEF String, NUL
  <1>4. \A i \in 1..Len(text) : text[i] \in 1..127
    BY DEF String
  <1> DEFINE n == Len(text)
  <1> HIDE DEF n
  <1>5. ASSUME NEW i \in 0..(n - 1) PROVE b[s + i] = text[i + 1] /\ b[s + i] \in 1..127
    <2>1. i + 1 \in 1..n /\ s + (i + 1) - 1 = s + i
      BY <1>1 DEF n
    <2>2. b[s + (i + 1) - 1] = text[i + 1] /\ text[i + 1] \in 1..127
      BY <1>2, <1>4, <2>1 DEF n
    <2> QED BY <2>1, <2>2
  <1>6. ASSUME NEW i \in 0..n PROVE b[s + i] \in 0..127
    <2>1. i \in 0..(n - 1) \/ i = n
      BY <1>1 DEF n
    <2>2. CASE i \in 0..(n - 1)
      BY <1>5, <2>2
    <2>3. CASE i = n
      BY <1>3, <2>3 DEF n
    <2> QED BY <2>1, <2>2, <2>3
  <1> QED BY <1>1, <1>3, <1>4, <1>5, <1>6 DEF n

(* stringlen is the number of its characters.                              *)
LEMMA LengthIs ==
  ASSUME NEW b, NEW s, NEW text, String(b, s, text)
  PROVE  stringlen(b, s) = Len(text)
  <1> DEFINE n == Len(text)
             e == s + n
  <1>1. /\ \A i \in 0..(n - 1) : b[s + i] \in 1..127
        /\ b[e] = 0 /\ s \in Nat /\ n \in Nat
    BY StringAt
  <1> HIDE DEF n
  <1>2. \A q \in s..(e - 1) : b[q] \notin {} \union {NUL}
    <2> SUFFICES ASSUME NEW q \in s..(e - 1) PROVE b[q] \notin {} \union {NUL}
      OBVIOUS
    <2>1. q - s \in 0..(n - 1) /\ s + (q - s) = q
      BY <1>1
    <2>2. b[q] \in 1..127
      BY <1>1, <2>1
    <2> QED BY <2>2 DEF NUL
  <1>3. StopsAt(b, s, {}, e)
    BY <1>1, <1>2 DEF StopsAt, NUL
  <1>4. Stop(b, s, {}) = e
    BY <1>3, StopIs
  <1> QED BY <1>1, <1>4 DEF stringlen, n

(* The first number of a set is the one that CHOOSE finds.                 *)
LEMMA ChosenIs ==
  ASSUME NEW S \in SUBSET Nat, S # {}
  PROVE  LET k == CHOOSE i \in S : \A j \in S : i <= j
         IN  k \in S /\ \A j \in S : k <= j
  BY Loop!LeastNatural

(* strpbrk finds the first character of accept.                            *)
LEMMA StrpbrkIs ==
  ASSUME NEW b, NEW s, NEW text, String(b, s, text), s # NULL, NEW accept, NUL \notin accept
  PROVE  LET found == {i \in DOMAIN text : text[i] \in accept} IN
         strpbrk(b, s, accept) =
           (IF found = {} THEN NULL ELSE s + (CHOOSE i \in found : \A j \in found : i <= j) - 1)
  <1> DEFINE n == Len(text)
             found == {i \in DOMAIN text : text[i] \in accept}
             k == CHOOSE i \in found : \A j \in found : i <= j
  <1>1. /\ \A i \in 0..(n - 1) : b[s + i] = text[i + 1] /\ b[s + i] \in 1..127
        /\ b[s + n] = 0 /\ s \in Nat /\ n \in Nat
    BY StringAt
  <1>2. DOMAIN text = 1..n
    BY DEF String
  <1>3. found \in SUBSET Nat /\ \A i \in 1..n : i \in found <=> text[i] \in accept
    BY <1>2
  <1>4. found \subseteq 1..n
    BY <1>2
  <1> HIDE DEF n
  <1>5. CASE found = {}
    <2> DEFINE e == s + n
    <2>1. \A q \in s..(e - 1) : b[q] \notin accept \union {NUL}
      <3> SUFFICES ASSUME NEW q \in s..(e - 1) PROVE b[q] \notin accept \union {NUL}
        OBVIOUS
      <3>1. q - s \in 0..(n - 1) /\ s + (q - s) = q /\ q - s + 1 \in 1..n
        BY <1>1
      <3>2. b[q] \in 1..127 /\ b[q] = text[q - s + 1]
        BY <1>1, <3>1
      <3>3. text[q - s + 1] \notin accept
        BY <1>3, <1>5, <3>1
      <3> QED BY <3>2, <3>3 DEF NUL
    <2>2. StopsAt(b, s, accept, e)
      BY <1>1, <2>1 DEF StopsAt, NUL
    <2>3. Stop(b, s, accept) = e
      BY <2>2, StopIs
    <2> QED BY <1>1, <1>5, <2>3 DEF strpbrk, NUL
  <1>6. CASE found # {}
    <2>1. k \in found /\ \A j \in found : k <= j
      <3> HIDE DEF found
      <3> QED BY <1>3, <1>6, ChosenIs
    <2> HIDE DEF found, k
    <2>2. k \in 1..n
      BY <1>4, <2>1
    <2> DEFINE e == s + k - 1
    <2>3. e \in Nat /\ s <= e /\ k - 1 \in 0..(n - 1) /\ s + (k - 1) = e /\ k - 1 + 1 = k
      BY <1>1, <2>2
    <2>4. b[e] = text[k] /\ b[e] \in 1..127 /\ text[k] \in accept
      <3>1. b[s + (k - 1)] = text[k - 1 + 1] /\ b[s + (k - 1)] \in 1..127
        BY <1>1, <2>3
      <3> QED BY <1>3, <2>1, <2>2, <2>3, <3>1
    <2>5. \A q \in s..(e - 1) : b[q] \notin accept \union {NUL}
      <3> SUFFICES ASSUME NEW q \in s..(e - 1) PROVE b[q] \notin accept \union {NUL}
        OBVIOUS
      <3>1. q - s \in 0..(n - 1) /\ s + (q - s) = q /\ q - s + 1 \in 1..n /\ ~(k <= q - s + 1)
        BY <1>1, <2>2
      <3>2. b[q] \in 1..127 /\ b[q] = text[q - s + 1]
        BY <1>1, <3>1
      <3>3. text[q - s + 1] \notin accept
        BY <1>3, <2>1, <3>1
      <3> QED BY <3>2, <3>3 DEF NUL
    <2>6. StopsAt(b, s, accept, e)
      BY <1>1, <2>3, <2>4, <2>5 DEF StopsAt
    <2> HIDE DEF e
    <2>7. Stop(b, s, accept) = e /\ b[e] # NUL
      BY <2>4, <2>6, StopIs DEF NUL
    <2>8. strpbrk(b, s, accept) = e
      BY <2>7 DEF strpbrk
    <2> QED BY <1>6, <2>8 DEF e, k, found
  <1> QED BY <1>5, <1>6

(* The characters of the copy, in a region of its own.                     *)
LEMMA StrcpyIs ==
  ASSUME NEW b, NEW s, NEW text, String(b, s, text), NEW size \in Nat, Len(text) < size, size <= s,
         \A i \in 0..(size - 1) : i \in DOMAIN b, \A i \in 0..Len(text) : s + i \in DOMAIN b
  PROVE  LET copy == strcpy(memset(b, 0, 255, size), 0, s) IN
         \A i \in DOMAIN text : copy[i - 1] = text[i]
  <1> DEFINE n == Len(text)
             blank == memset(b, 0, 255, size)
             copy == strcpy(blank, 0, s)
  <1>1. /\ s \in Nat /\ n \in Nat /\ text \in Seq(Nat) /\ DOMAIN text = 1..n
        /\ \A i \in 1..n : b[s + i - 1] = text[i]
        /\ b[s + n] = NUL
    BY DEF String
  <1>2. blank = [a \in DOMAIN b |-> IF a \in 0..(0 + size - 1) THEN 255 ELSE b[a]]
    BY DEF memset
  <1> HIDE DEF n, blank
  <1>3. \A i \in 0..n : s + i \notin 0..(0 + size - 1) /\ s + i \in DOMAIN b
    BY <1>1 DEF n
  <1>4. \A i \in 0..n : blank[s + i] = b[s + i]
    BY <1>2, <1>3
  <1>5. String(blank, s, text)
    <2>1. \A i \in 1..n : i - 1 \in 0..n /\ s + (i - 1) = s + i - 1
      BY <1>1
    <2>2. \A i \in 1..n : blank[s + i - 1] = b[s + i - 1]
      BY <1>4, <2>1
    <2>3. blank[s + n] = b[s + n]
      BY <1>1, <1>4
    <2> QED BY <1>1, <2>2, <2>3 DEF String, n
  <1>6. stringlen(blank, s) = n
    BY <1>5, LengthIs DEF n
  <1>7. copy = [a \in DOMAIN b |-> IF a \in 0..(0 + n - 1) THEN blank[s + (a - 0)] ELSE blank[a]]
    <2>1. DOMAIN blank = DOMAIN b
      BY <1>2
    <2> QED BY <1>6, <2>1 DEF strcpy, memcpy
  <1> HIDE DEF copy
  <1>8. ASSUME NEW i \in 1..n PROVE copy[i - 1] = text[i]
    <2>1. i - 1 \in 0..(0 + n - 1) /\ i - 1 \in 0..(size - 1) /\ s + (i - 1 - 0) = s + i - 1
          /\ i - 1 \in 0..n /\ s + (i - 1) = s + i - 1
      BY <1>1 DEF n
    <2>2. copy[i - 1] = blank[s + (i - 1)]
      BY <1>7, <2>1
    <2>3. blank[s + (i - 1)] = b[s + (i - 1)]
      BY <1>4, <2>1
    <2> QED BY <1>1, <2>1, <2>2, <2>3
  <1> QED BY <1>1, <1>8 DEF n, copy, blank

(* Where strcmp stops, what it finds there, and that it is 0 only if the    *)
(* strings are the same.                                                   *)
Differ(b1, s1, b2, s2) == {i \in Nat : b1[s1 + i] # b2[s2 + i] \/ b1[s1 + i] = NUL}

(* The loop of strcmp ends at the first difference or at the end.          *)
LEMMA StrcmpIs ==
  ASSUME NEW b1, NEW s1, NEW b2, NEW s2, NEW e \in Differ(b1, s1, b2, s2),
         \A i \in 0..(e - 1) : i \notin Differ(b1, s1, b2, s2)
  PROVE  strcmp(b1, s1, b2, s2) =
           IF b1[s1 + e] # b2[s2 + e] THEN IF b1[s1 + e] < b2[s2 + e] THEN -1 ELSE 1 ELSE 0
  <1> DEFINE T == Differ(b1, s1, b2, s2)
             val == [i \in Nat |->
                       IF b1[s1 + i] # b2[s2 + i] THEN IF b1[s1 + i] < b2[s2 + i] THEN -1 ELSE 1
                       ELSE 0]
             Loop1(f) == f = [i \in Nat |->
                         IF b1[s1 + i] # b2[s2 + i] THEN IF b1[s1 + i] < b2[s2 + i] THEN -1 ELSE 1
                         ELSE IF b1[s1 + i] = NUL THEN 0 ELSE f[i + 1]]
             from == CHOOSE f : Loop1(f)
  <1>1. \A f : Walk(f, T, val) <=> Loop1(f)
    <2> SUFFICES ASSUME NEW f PROVE Walk(f, T, val) <=> Loop1(f)
      OBVIOUS
    <2> DEFINE left == [p \in Nat |-> IF p \in T THEN val[p] ELSE f[p + 1]]
               right == [i \in Nat |->
                         IF b1[s1 + i] # b2[s2 + i] THEN IF b1[s1 + i] < b2[s2 + i] THEN -1 ELSE 1
                         ELSE IF b1[s1 + i] = NUL THEN 0 ELSE f[i + 1]]
    <2>1. \A i \in Nat : left[i] = right[i]
      BY DEF Differ
    <2>2. left = right
      BY <2>1
    <2> QED BY <2>2 DEF Walk
  <1>2. strcmp(b1, s1, b2, s2) = from[0]
    BY DEF strcmp
  <1>3. T \in SUBSET Nat /\ e \in Nat /\ e \in T
    BY DEF Differ
  <1>4. val[e] = IF b1[s1 + e] # b2[s2 + e] THEN IF b1[s1 + e] < b2[s2 + e] THEN -1 ELSE 1 ELSE 0
    BY <1>3
  <1> HIDE DEF T, val, Loop1
  <1>5. Loop1(from)
    BY <1>1, <1>3, WalkSome
  <1> HIDE DEF from
  <1>6. Walk(from, T, val)
    BY <1>1, <1>5
  <1>7. \A i \in 0..(e - 1) : i \notin T
    BY DEF T
  <1>8. from[0] = val[e]
    BY <1>3, <1>6, <1>7, WalkStops
  <1> QED BY <1>2, <1>4, <1>8

(* What strcmp should answer.                                              *)
Compares(b1, s1, t1, b2, s2, t2) ==
  LET order == strcmp(b1, s1, b2, s2) IN
  /\ order = 0 <=> t1 = t2
  /\ order = -strcmp(b2, s2, b1, s1)

(* And does.                                                               *)
LEMMA StringsCompare ==
  ASSUME NEW b1, NEW s1, NEW t1, NEW b2, NEW s2, NEW t2, String(b1, s1, t1), String(b2, s2, t2)
  PROVE  Compares(b1, s1, t1, b2, s2, t2)
  <1> DEFINE n1 == Len(t1)
             n2 == Len(t2)
             T == Differ(b1, s1, b2, s2)
             U == Differ(b2, s2, b1, s1)
             c1(i) == b1[s1 + i]
             c2(i) == b2[s2 + i]
  <1>1. /\ n1 \in Nat /\ n2 \in Nat
        /\ \A i \in 0..(n1 - 1) : c1(i) = t1[i + 1] /\ c1(i) \in 1..127
        /\ \A i \in 0..(n2 - 1) : c2(i) = t2[i + 1] /\ c2(i) \in 1..127
        /\ c1(n1) = 0 /\ c2(n2) = 0
    BY StringAt
  <1>2. T \in SUBSET Nat /\ U = T
    BY DEF Differ
  <1>3. \A i \in Nat : i \in T <=> (c1(i) # c2(i) \/ c1(i) = 0)
    BY DEF Differ, NUL
  <1>4. n1 \in T
    BY <1>1, <1>3
  <1> HIDE DEF T, U
  <1>5. PICK e \in T : \A j \in T : e <= j
    BY <1>2, <1>4, Loop!LeastNatural
  <1>6. e \in Nat /\ \A i \in 0..(e - 1) : i \notin T
    BY <1>2, <1>5
  <1>7. e <= n1
    BY <1>4, <1>5
  <1> DEFINE order == strcmp(b1, s1, b2, s2)
             back == strcmp(b2, s2, b1, s1)
  <1>8. /\ order = IF c1(e) # c2(e) THEN IF c1(e) < c2(e) THEN -1 ELSE 1 ELSE 0
        /\ back = IF c2(e) # c1(e) THEN IF c2(e) < c1(e) THEN -1 ELSE 1 ELSE 0
    <2>1. e \in Differ(b1, s1, b2, s2) /\ \A i \in 0..(e - 1) : i \notin Differ(b1, s1, b2, s2)
      BY <1>5, <1>6 DEF T
    <2>2. e \in Differ(b2, s2, b1, s1) /\ \A i \in 0..(e - 1) : i \notin Differ(b2, s2, b1, s1)
      BY <1>2, <1>5, <1>6 DEF U
    <2> QED BY <2>1, <2>2, StrcmpIs
  <1> HIDE DEF order, back, n1, n2
  <1>9. \A i \in 0..(e - 1) : c1(i) = c2(i) /\ c1(i) # 0
    BY <1>3, <1>6
  <1>10. e <= n2
    <2>1. ASSUME n2 < e PROVE FALSE
      <3>1. n2 \in 0..(e - 1)
        BY <1>1, <1>6, <2>1
      <3> QED BY <1>1, <1>9, <3>1
    <2> QED BY <1>1, <1>6, <2>1
  <1>11. c1(e) \in 0..127 /\ c2(e) \in 0..127
    <2>1. e \in 0..(n1 - 1) \/ e = n1
      BY <1>1, <1>6, <1>7
    <2>2. e \in 0..(n2 - 1) \/ e = n2
      BY <1>1, <1>6, <1>10
    <2>3. c1(e) \in 0..127
      BY <1>1, <2>1
    <2>4. c2(e) \in 0..127
      BY <1>1, <2>2
    <2> QED BY <2>3, <2>4
  <1>12. order = -back
    <2>1. PICK x \in 0..127 : x = c1(e)
      BY <1>11
    <2>2. PICK y \in 0..127 : y = c2(e)
      BY <1>11
    <2>3. /\ order = IF x # y THEN IF x < y THEN -1 ELSE 1 ELSE 0
          /\ back = IF y # x THEN IF y < x THEN -1 ELSE 1 ELSE 0
      BY <1>8, <2>1, <2>2
    <2> QED BY <2>3
  <1>13. ASSUME t1 = t2 PROVE order = 0
    <2>1. n1 = n2
      BY <1>13 DEF n1, n2
    <2>2. c1(e) = c2(e)
      <3>1. CASE e = n1
        BY <1>1, <2>1, <3>1
      <3>2. CASE e # n1
        <4>1. e \in 0..(n1 - 1) /\ e \in 0..(n2 - 1)
          BY <1>1, <1>6, <1>7, <2>1, <3>2
        <4> QED BY <1>1, <1>13, <4>1
      <3> QED BY <3>1, <3>2
    <2> QED BY <1>8, <2>2
  <1>14. ASSUME order = 0 PROVE t1 = t2
    <2>1. c1(e) = c2(e) /\ c1(e) = 0
      <3>1. c1(e) = c2(e)
        BY <1>8, <1>14
      <3> QED BY <1>3, <1>5, <1>6, <3>1
    <2>2. e = n1 /\ e = n2
      <3>1. e \notin 0..(n1 - 1)
        <4> SUFFICES ASSUME e \in 0..(n1 - 1) PROVE FALSE
          OBVIOUS
        <4>1. c1(e) \in 1..127
          BY <1>1
        <4> QED BY <2>1, <4>1
      <3>2. e \notin 0..(n2 - 1)
        <4> SUFFICES ASSUME e \in 0..(n2 - 1) PROVE FALSE
          OBVIOUS
        <4>1. c2(e) \in 1..127
          BY <1>1
        <4> QED BY <2>1, <4>1
      <3> QED BY <1>1, <1>6, <1>7, <1>10, <3>1, <3>2
    <2>3. \A i \in 1..n1 : t1[i] = t2[i]
      <3> SUFFICES ASSUME NEW i \in 1..n1 PROVE t1[i] = t2[i]
        OBVIOUS
      <3>1. i - 1 \in 0..(e - 1) /\ i - 1 \in 0..(n1 - 1) /\ i - 1 \in 0..(n2 - 1) /\ i - 1 + 1 = i
        BY <1>1, <2>2
      <3>2. c1(i - 1) = t1[i - 1 + 1] /\ c2(i - 1) = t2[i - 1 + 1] /\ c1(i - 1) = c2(i - 1)
        BY <1>1, <1>9, <3>1
      <3> QED BY <3>1, <3>2
    <2>4. t1 \in Seq(Nat) /\ t2 \in Seq(Nat) /\ Len(t1) = Len(t2)
          /\ \A i \in 1..Len(t1) : t1[i] = t2[i]
      BY <2>2, <2>3 DEF String, n1, n2
    <2>5. t1 \in [1..Len(t1) -> Nat] /\ t2 \in [1..Len(t1) -> Nat]
      BY <2>4
    <2>6. t1 = [i \in 1..Len(t1) |-> t1[i]] /\ t2 = [i \in 1..Len(t1) |-> t2[i]]
      BY <2>5
    <2> QED BY <2>4, <2>6
  <1> QED BY <1>12, <1>13, <1>14 DEF Compares, order, back

(* Loops that pass over the characters of a set.                           *)
SkipsTo(b, s, set, e) ==
  /\ s \in Nat /\ e \in Nat /\ s <= e
  /\ b[e] \notin set
  /\ \A q \in s..(e - 1) : b[q] \in set

(* Skip returns where its loop ends.                                       *)
LEMMA SkipIs ==
  ASSUME NEW b, NEW s, NEW set, NEW e, SkipsTo(b, s, set, e)
  PROVE  Skip(b, s, set) = e
  <1> DEFINE T == {p \in Nat : b[p] \notin set}
             val == [p \in Nat |-> p]
             Loop1(f) == f = [p \in Nat |-> IF b[p] \in set THEN f[p + 1] ELSE p]
             at == CHOOSE f : Loop1(f)
  <1>0. /\ s \in Nat /\ e \in Nat /\ s <= e /\ b[e] \notin set
        /\ \A q \in s..(e - 1) : b[q] \in set
    BY DEF SkipsTo
  <1>1. \A f : Walk(f, T, val) <=> Loop1(f)
    <2> SUFFICES ASSUME NEW f PROVE Walk(f, T, val) <=> Loop1(f)
      OBVIOUS
    <2> DEFINE left == [p \in Nat |-> IF p \in T THEN val[p] ELSE f[p + 1]]
               right == [p \in Nat |-> IF b[p] \in set THEN f[p + 1] ELSE p]
    <2>1. \A i \in Nat : left[i] = right[i]
      OBVIOUS
    <2>2. left = right
      BY <2>1
    <2> QED BY <2>2 DEF Walk
  <1>2. Skip(b, s, set) = at[s]
    BY DEF Skip
  <1>3. T \in SUBSET Nat /\ e \in T /\ \A q \in s..(e - 1) : q \notin T
    BY <1>0
  <1>4. val[e] = e
    BY <1>0
  <1> HIDE DEF T, val, Loop1
  <1>5. Loop1(at)
    BY <1>1, <1>3, WalkSome
  <1> HIDE DEF at
  <1>6. Walk(at, T, val)
    BY <1>1, <1>5
  <1>7. at[s] = val[e]
    BY <1>0, <1>3, <1>6, WalkStops
  <1> QED BY <1>2, <1>4, <1>7

(* k is past the characters of set that start at i.                        *)
PastThese(text, i, set, k) ==
  /\ k \in i..(Len(text) + 1)
  /\ \A j \in i..(k - 1) : text[j] \in set
  /\ k <= Len(text) => text[k] \notin set

(* There is such a place, and Past is it.                                  *)
LEMMA PastIs ==
  ASSUME NEW text, Len(text) \in Nat, NEW i \in 1..(Len(text) + 1), NEW set
  PROVE  PastThese(text, i, set, Past(text, i, set))
  <1> DEFINE n == Len(text)
             S == {k \in i..(n + 1) : k = n + 1 \/ text[k] \notin set}
  <1>1. n \in Nat /\ i \in Nat /\ i <= n + 1
    OBVIOUS
  <1> HIDE DEF n
  <1>2. S \in SUBSET Nat /\ n + 1 \in S
    BY <1>1
  <1>3. \A k \in S : k \in i..(n + 1) /\ (k <= n => text[k] \notin set)
    BY <1>1
  <1>4. \A j \in i..(n + 1) : j \notin S => text[j] \in set
    OBVIOUS
  <1> HIDE DEF S
  <1>5. PICK k \in S : \A j \in S : k <= j
    BY <1>2, Loop!LeastNatural
  <1>6. k \in i..(n + 1) /\ (k <= n => text[k] \notin set)
    BY <1>3
  <1>7. \A j \in i..(k - 1) : j \in i..(n + 1) /\ j \notin S
    BY <1>1, <1>5, <1>6
  <1>8. \A j \in i..(k - 1) : text[j] \in set
    BY <1>4, <1>7
  <1>9. \E k1 \in i..(n + 1) : /\ \A j \in i..(k1 - 1) : text[j] \in set
                               /\ k1 <= n => text[k1] \notin set
    BY <1>6, <1>8
  <1> QED BY <1>9 DEF PastThese, Past, n

(* Skip finds it in memory.                                                *)
LEMMA SkipPast ==
  ASSUME NEW b, NEW s, NEW text, String(b, s, text), NEW i \in 1..(Len(text) + 1),
         NEW set, 0 \notin set
  PROVE  Skip(b, s + (i - 1), set) = s + (Past(text, i, set) - 1)
  <1> DEFINE n == Len(text)
             k == Past(text, i, set)
             start == s + (i - 1)
             e == s + (k - 1)
  <1>1. /\ \A j \in 0..(n - 1) : b[s + j] = text[j + 1] /\ b[s + j] \in 1..127
        /\ b[s + n] = 0 /\ s \in Nat /\ n \in Nat
    BY StringAt
  <1>2. PastThese(text, i, set, k)
    BY <1>1, PastIs
  <1>3. /\ k \in i..(n + 1) /\ \A j \in i..(k - 1) : text[j] \in set
        /\ k <= n => text[k] \notin set
    BY <1>2 DEF PastThese
  <1> HIDE DEF k
  <1>4. i \in Nat /\ i >= 1 /\ k \in Nat /\ i <= k /\ k <= n + 1
    BY <1>1, <1>3
  <1> HIDE DEF n
  <1>5. start \in Nat /\ e \in Nat /\ start <= e
    BY <1>1, <1>4
  <1>6. b[e] \notin set
    <2>1. CASE k <= n
      <3>1. k - 1 \in 0..(n - 1) /\ k - 1 + 1 = k
        BY <1>1, <1>4, <2>1
      <3>2. b[s + (k - 1)] = text[k - 1 + 1]
        BY <1>1, <3>1
      <3> QED BY <1>3, <2>1, <3>1, <3>2
    <2>2. CASE k = n + 1
      <3>1. k - 1 = n
        BY <1>1, <2>2
      <3> QED BY <1>1, <3>1
    <2> QED BY <1>1, <1>4, <2>1, <2>2
  <1>7. \A q \in start..(e - 1) : b[q] \in set
    <2> SUFFICES ASSUME NEW q \in start..(e - 1) PROVE b[q] \in set
      OBVIOUS
    <2>1. q - s \in 0..(n - 1) /\ s + (q - s) = q /\ q - s + 1 \in i..(k - 1)
      BY <1>1, <1>4
    <2>2. b[s + (q - s)] = text[q - s + 1]
      BY <1>1, <2>1
    <2> QED BY <1>3, <2>1, <2>2
  <1>8. SkipsTo(b, start, set, e)
    BY <1>5, <1>6, <1>7 DEF SkipsTo
  <1> QED BY <1>8, SkipIs DEF k

-----------------------------------------------------------------------------
(* Numbers.  The value of a text, one digit at a time.                     *)
Digit(c) == IF isdigit(c) THEN c - 48 ELSE c - 87

(* One digit of a number, in each base.                                    *)
DecStep(v, c) == v * 10 + Digit(c)
HexStep(v, c) == v * 16 + Digit(c)
(* Folds of the digits.                                                    *)
Dec == INSTANCE Induction WITH Op <- DecStep
Hex == INSTANCE Induction WITH Op <- HexStep

(* f[i] is the value of the first i characters.                            *)
Values(f, text, base) ==
  f[0] = 0 /\ \A i \in 1..Len(text) : f[i] = f[i - 1] * base + Digit(text[i])

(* ValueOf is the last of them.                                            *)
LEMMA ValueSteps ==
  ASSUME NEW text \in Seq(Nat), NEW base \in {10, 16}
  PROVE  \E f : Values(f, text, base) /\ ValueOf(text, base) = f[Len(text)]
  <1>1. CASE base = 10
    <2>1. ValueOf(text, 10) = Dec!Fold(0, text)
      BY DEF ValueOf, Dec!Fold, DecStep, Digit, FoldLeft, Dec!FoldLeft, MapThenFoldSet,
             Dec!MapThenFoldSet, Max, Dec!Max
    <2>2. PICK f : /\ f[0] = 0
                   /\ \A i \in 1..Len(text) : f[i] = DecStep(f[i - 1], text[i])
                   /\ Dec!Fold(0, text) = f[Len(text)]
      BY Dec!FoldSteps
    <2>3. Values(f, text, 10)
      BY <2>2 DEF Values, DecStep
    <2> QED BY <1>1, <2>1, <2>2, <2>3
  <1>2. CASE base = 16
    <2>1. ValueOf(text, 16) = Hex!Fold(0, text)
      BY DEF ValueOf, Hex!Fold, HexStep, Digit, FoldLeft, Hex!FoldLeft, MapThenFoldSet,
             Hex!MapThenFoldSet, Max, Hex!Max
    <2>2. PICK f : /\ f[0] = 0
                   /\ \A i \in 1..Len(text) : f[i] = HexStep(f[i - 1], text[i])
                   /\ Hex!Fold(0, text) = f[Len(text)]
      BY Hex!FoldSteps
    <2>3. Values(f, text, 16)
      BY <2>2 DEF Values, HexStep
    <2> QED BY <1>2, <2>1, <2>2, <2>3
  <1> QED BY <1>1, <1>2

(* There is one such function only, up to the end of the text.             *)
LEMMA ValueIs ==
  ASSUME NEW text \in Seq(Nat), NEW base \in {10, 16}, NEW g, Values(g, text, base)
  PROVE  ValueOf(text, base) = g[Len(text)]
  <1> DEFINE n == Len(text)
  <1>1. PICK f : Values(f, text, base) /\ ValueOf(text, base) = f[n]
    BY ValueSteps
  <1> DEFINE same == {i \in Nat : f[i] = g[i]}
  <1>2. 0 \in same
    BY <1>1 DEF Values
  <1>3. n \in Nat
    OBVIOUS
  <1>4. ASSUME NEW i \in 0..(n - 1), i \in same PROVE i + 1 \in same
    <2>1. i + 1 \in 1..n /\ i + 1 - 1 = i
      BY <1>3
    <2>2. f[i + 1] = f[i] * base + Digit(text[i + 1]) /\ g[i + 1] = g[i] * base + Digit(text[i + 1])
      BY <1>1, <2>1 DEF Values
    <2> QED BY <1>4, <2>1, <2>2
  <1> HIDE DEF same, n
  <1>5. \A i \in 0..n : i \in same
    BY <1>2, <1>3, <1>4, Loop!UpTo
  <1>6. n \in same
    BY <1>3, <1>5
  <1> QED BY <1>1, <1>6 DEF same, n

(* One more digit.                                                         *)
LEMMA ValueMore ==
  ASSUME NEW text \in Seq(Nat), NEW c \in Nat, NEW base \in {10, 16}
  PROVE  ValueOf(Append(text, c), base) = ValueOf(text, base) * base + Digit(c)
  <1> DEFINE n == Len(text)
             more == Append(text, c)
             g(f) == [i \in 0..(n + 1) |-> IF i <= n THEN f[i] ELSE f[n] * base + Digit(c)]
  <1>1. PICK f : Values(f, text, base) /\ ValueOf(text, base) = f[n]
    BY ValueSteps
  <1>2. /\ n \in Nat /\ more \in Seq(Nat) /\ Len(more) = n + 1
        /\ \A i \in 1..n : more[i] = text[i]
        /\ more[n + 1] = c
    OBVIOUS
  <1> HIDE DEF more
  <1>3. /\ \A i \in 0..n : g(f)[i] = f[i]
        /\ g(f)[n + 1] = f[n] * base + Digit(c)
    BY <1>2
  <1>4. Values(g(f), more, base)
    <2> HIDE DEF g
    <2>1. g(f)[0] = 0
      BY <1>1, <1>2, <1>3 DEF Values
    <2>2. ASSUME NEW i \in 1..(n + 1)
          PROVE  g(f)[i] = g(f)[i - 1] * base + Digit(more[i])
      <3>1. CASE i = n + 1
        <4>1. i - 1 = n /\ n \in 0..n
          BY <1>2, <3>1
        <4> QED BY <1>2, <1>3, <3>1, <4>1
      <3>2. CASE i # n + 1
        <4>1. i \in 1..n /\ i \in 0..n /\ i - 1 \in 0..n
          BY <1>2, <3>2
        <4>2. f[i] = f[i - 1] * base + Digit(text[i])
          BY <1>1, <4>1 DEF Values
        <4> QED BY <1>2, <1>3, <4>1, <4>2
      <3> QED BY <3>1, <3>2
    <2> QED BY <1>2, <2>1, <2>2 DEF Values
  <1>5. ValueOf(more, base) = g(f)[n + 1]
    <2> DEFINE h == g(f)
    <2> HIDE DEF g, h
    <2>1. Values(h, more, base)
      BY <1>4 DEF h
    <2>2. ValueOf(more, base) = h[Len(more)]
      BY <1>2, <2>1, ValueIs
    <2> QED BY <1>2, <2>2 DEF h
  <1> QED BY <1>1, <1>3, <1>5 DEF more

(* A single digit.                                                         *)
LEMMA ValueOfOne ==
  ASSUME NEW c \in Nat, NEW base \in {10, 16}
  PROVE  ValueOf(<<c>>, base) = 0 * base + Digit(c)
  <1>1. <<c>> \in Seq(Nat) /\ Len(<<c>>) = 1 /\ <<c>>[1] = c
    OBVIOUS
  <1>2. PICK f : Values(f, <<c>>, base) /\ ValueOf(<<c>>, base) = f[Len(<<c>>)]
    BY <1>1, ValueSteps
  <1>3. f[0] = 0 /\ f[1] = f[1 - 1] * base + Digit(<<c>>[1])
    BY <1>1, <1>2 DEF Values
  <1> QED BY <1>1, <1>2, <1>3

(* A digit and its character.                                              *)
Character(d) == IF d \in 0..9 THEN 48 + d ELSE 87 + d

(* A digit is the digit of its character.                                  *)
LEMMA CharacterIs ==
  ASSUME NEW d \in 0..15
  PROVE  Character(d) \in Nat /\ Digit(Character(d)) = d /\ (Character(d) = 48 => d = 0)
  BY DEF Character, Digit, isdigit

(* The function of the loop that takes a number apart.                     *)
Apart(f, n, base) ==
  f = [v \in 0..n |-> IF v < base THEN <<v>> ELSE Append(f[v \div base], v % base)]

(* A number of two digits or more loses one in a division.                 *)
LEMMA DivLess ==
  ASSUME NEW v \in Nat, NEW base \in {10, 16}, ~(v < base)
  PROVE  /\ v \div base \in 1..(v - 1) /\ v % base \in 0..(base - 1)
         /\ v = (v \div base) * base + (v % base)
  <1>1. CASE base = 10
    BY <1>1
  <1>2. CASE base = 16
    BY <1>2
  <1> QED BY <1>1, <1>2

(* The function exists: each number needs only a smaller one.              *)
LEMMA ApartSome ==
  ASSUME NEW n \in Nat, NEW base \in {10, 16}
  PROVE  \E f : Apart(f, n, base)
  <1> DEFINE Good(k) == \E f : Apart(f, k, base)
             good == {k \in Nat : Good(k)}
  <1>1. 0 \in good
    <2> DEFINE f == [v \in 0..0 |-> <<v>>]
    <2>1. 0 < base /\ \A v \in 0..0 : v < base
      OBVIOUS
    <2>2. Apart(f, 0, base)
      BY <2>1 DEF Apart
    <2> QED BY <2>2
  <1>2. ASSUME NEW k \in 0..(n - 1), k \in good PROVE k + 1 \in good
    <2>1. PICK f : Apart(f, k, base)
      BY <1>2
    <2> DEFINE w == k + 1
               top == IF w < base THEN <<w>> ELSE Append(f[w \div base], w % base)
               g == [v \in 0..w |-> IF v = w THEN top ELSE f[v]]
    <2>2. w \in Nat /\ k \in Nat
      OBVIOUS
    <2>3. ASSUME NEW v \in 0..w
          PROVE  g[v] = IF v < base THEN <<v>> ELSE Append(g[v \div base], v % base)
      <3>1. ASSUME ~(v < base) PROVE v \div base \in 0..k /\ g[v \div base] = f[v \div base]
        <4>1. v \in Nat /\ v <= w
          BY <2>2
        <4>2. v \div base \in 1..(v - 1)
          BY <3>1, <4>1, DivLess
        <4>3. v \div base \in 0..k /\ v \div base # w /\ v \div base \in 0..w
          BY <2>2, <4>1, <4>2
        <4> QED BY <4>3
      <3>2. CASE v = w
        <4>1. g[v] = top
          BY <3>2
        <4> HIDE DEF g
        <4> QED BY <3>1, <3>2, <4>1
      <3>3. CASE v # w
        <4>1. v \in 0..k
          BY <2>2, <3>3
        <4>2. g[v] = f[v]
          BY <3>3
        <4>3. f[v] = IF v < base THEN <<v>> ELSE Append(f[v \div base], v % base)
          BY <2>1, <4>1 DEF Apart
        <4> HIDE DEF g
        <4> QED BY <3>1, <4>2, <4>3
      <3> QED BY <3>2, <3>3
    <2>4. g = [v \in 0..w |-> g[v]]
      OBVIOUS
    <2> HIDE DEF g
    <2>5. g = [v \in 0..w |-> IF v < base THEN <<v>> ELSE Append(g[v \div base], v % base)]
      BY <2>3, <2>4
    <2>6. Apart(g, w, base)
      BY <2>5 DEF Apart
    <2> QED BY <2>2, <2>6
  <1> HIDE DEF good
  <1>3. \A k \in 0..n : k \in good
    BY <1>1, <1>2, Loop!UpTo
  <1>4. n \in good
    BY <1>3
  <1> QED BY <1>4 DEF good

(* What it makes of every number up to n.                                  *)
Digits(d, v, base) ==
  /\ d \in Seq(0..(base - 1)) /\ Len(d) \in Nat \ {0} /\ DOMAIN d = 1..Len(d)
  /\ Len(d) > 1 => d[1] # 0
  /\ Len(d) = 1 => d[1] = v
  /\ ValueOf([i \in DOMAIN d |-> Character(d[i])], base) = v

(* One more digit at the end.                                              *)
LEMMA DigitsMore ==
  ASSUME NEW d, NEW v \in Nat \ {0}, NEW base \in {10, 16}, Digits(d, v, base),
         NEW r \in 0..(base - 1)
  PROVE  Digits(Append(d, r), v * base + r, base)
  <1> DEFINE n == Len(d)
             e == Append(d, r)
             text(q) == [i \in DOMAIN q |-> Character(q[i])]
  <1>0. \A x \in 0..(base - 1) : x \in 0..15
    OBVIOUS
  <1>1. /\ d \in Seq(0..(base - 1)) /\ n \in Nat \ {0} /\ DOMAIN d = 1..n
        /\ n > 1 => d[1] # 0
        /\ n = 1 => d[1] = v
        /\ ValueOf(text(d), base) = v
    BY DEF Digits
  <1>2. /\ e \in Seq(0..(base - 1)) /\ Len(e) = n + 1 /\ DOMAIN e = 1..(n + 1)
        /\ \A i \in 1..n : e[i] = d[i]
        /\ e[n + 1] = r
    BY <1>1
  <1> HIDE DEF e, n
  <1>3. \A i \in 1..n : d[i] \in 0..15
    <2>1. \A i \in 1..n : d[i] \in 0..(base - 1)
      BY <1>1 DEF n
    <2> QED BY <1>0, <2>1
  <1>4. text(d) \in Seq(Nat) /\ Len(text(d)) = n
    <2>1. \A i \in 1..n : Character(d[i]) \in Nat
      BY <1>3, CharacterIs
    <2> QED BY <1>1, <2>1
  <1>5. Character(r) \in Nat /\ Digit(Character(r)) = r
    BY <1>0, CharacterIs
  <1>6. text(e) = Append(text(d), Character(r))
    <2>1. DOMAIN text(e) = 1..(n + 1)
      BY <1>2
    <2>2. Append(text(d), Character(r)) =
            [i \in 1..(n + 1) |-> IF i = n + 1 THEN Character(r) ELSE text(d)[i]]
      <3> DEFINE old == text(d)
                 c == Character(r)
      <3>1. old \in Seq(Nat) /\ Len(old) = n
        BY <1>4
      <3>2. c \in Nat
        BY <1>5
      <3> HIDE DEF old, c
      <3>3. Append(old, c) = [i \in 1..(n + 1) |-> IF i = n + 1 THEN c ELSE old[i]]
        <4> DEFINE longer == Append(old, c)
        <4>1. /\ longer \in Seq(Nat) /\ Len(longer) = n + 1 /\ longer[n + 1] = c
              /\ \A i \in 1..n : longer[i] = old[i]
          BY <1>1, <3>1, <3>2
        <4> HIDE DEF longer
        <4>2. longer \in [1..(n + 1) -> Nat]
          BY <4>1
        <4>3. longer = [i \in 1..(n + 1) |-> longer[i]]
          BY <4>2
        <4>4. \A i \in 1..(n + 1) : longer[i] = IF i = n + 1 THEN c ELSE old[i]
          <5>1. \A i \in 1..(n + 1) : i # n + 1 => i \in 1..n
            BY <1>1
          <5> QED BY <4>1, <5>1
        <4> QED BY <4>3, <4>4 DEF longer
      <3> QED BY <3>3 DEF old, c
    <2>3. ASSUME NEW i \in 1..(n + 1)
          PROVE  text(e)[i] = IF i = n + 1 THEN Character(r) ELSE text(d)[i]
      <3>1. text(e)[i] = Character(e[i])
        BY <1>2
      <3>2. CASE i = n + 1
        BY <1>2, <3>1, <3>2
      <3>3. CASE i # n + 1
        <4>1. i \in 1..n
          BY <1>1, <3>3
        <4>2. text(d)[i] = Character(d[i])
          BY <1>1, <4>1
        <4> QED BY <1>2, <3>1, <3>3, <4>1, <4>2
      <3> QED BY <3>2, <3>3
    <2>4. text(e) = [i \in 1..(n + 1) |-> text(e)[i]]
      BY <1>2
    <2> HIDE DEF text
    <2> QED BY <2>2, <2>3, <2>4
  <1> DEFINE old == text(d)
  <1> HIDE DEF text, old
  <1>7. ValueOf(text(e), base) = v * base + r
    <2>1. old \in Seq(Nat) /\ ValueOf(old, base) = v
      BY <1>1, <1>4 DEF old
    <2>2. PICK c \in Nat : c = Character(r)
      BY <1>5
    <2>3. ValueOf(Append(old, c), base) = v * base + Digit(c)
      BY <2>1, ValueMore
    <2> QED BY <1>5, <1>6, <2>2, <2>3 DEF old
  <1>8. e[1] # 0 /\ n + 1 \in Nat \ {0} /\ n + 1 # 1
    <2>1. 1 \in 1..n /\ (n = 1 \/ n > 1)
      BY <1>1
    <2> QED BY <1>1, <1>2, <2>1
  <1> QED BY <1>2, <1>7, <1>8 DEF Digits, e, text

(* The last turn of the loop.                                              *)
LEMMA DigitsOne ==
  ASSUME NEW base \in {10, 16}, NEW v \in 0..(base - 1)
  PROVE  Digits(<<v>>, v, base)
  <1>1. /\ <<v>> \in Seq(0..(base - 1)) /\ Len(<<v>>) = 1 /\ DOMAIN <<v>> = 1..1
        /\ <<v>>[1] = v
    OBVIOUS
  <1>2. [i \in DOMAIN <<v>> |-> Character(<<v>>[i])] = <<Character(v)>>
    BY <1>1
  <1>3. v \in 0..15
    OBVIOUS
  <1>4. PICK c \in Nat : c = Character(v) /\ Digit(c) = v
    BY <1>3, CharacterIs
  <1>5. ValueOf(<<c>>, base) = 0 * base + Digit(c)
    BY ValueOfOne
  <1>6. ValueOf(<<c>>, base) = v
    BY <1>4, <1>5
  <1> QED BY <1>1, <1>2, <1>4, <1>6 DEF Digits

(* No number up to n is the first to come out wrong.                       *)
LEMMA DigitsAre ==
  ASSUME NEW n \in Nat, NEW base \in {10, 16}, NEW f, Apart(f, n, base)
  PROVE  Digits(f[n], n, base)
  <1> DEFINE bad == {v \in 0..n : ~Digits(f[v], v, base)}
  <1>1. SUFFICES ASSUME bad # {} PROVE FALSE
    OBVIOUS
  <1>2. bad \in SUBSET Nat
    OBVIOUS
  <1> HIDE DEF bad
  <1>3. PICK v \in bad : \A w \in bad : v <= w
    BY <1>1, <1>2, Loop!LeastNatural
  <1>4. v \in 0..n /\ ~Digits(f[v], v, base)
    BY <1>3 DEF bad
  <1>5. f[v] = IF v < base THEN <<v>> ELSE Append(f[v \div base], v % base)
    BY <1>4 DEF Apart
  <1>6. CASE v < base
    <2>1. v \in 0..(base - 1) /\ f[v] = <<v>>
      BY <1>4, <1>5, <1>6
    <2> QED BY <1>4, <2>1, DigitsOne
  <1>7. CASE ~(v < base)
    <2> DEFINE q == v \div base
               r == v % base
    <2>1. v \in Nat
      BY <1>4
    <2>2. q \in 1..(v - 1) /\ r \in 0..(base - 1) /\ v = q * base + r
      BY <1>7, <2>1, DivLess
    <2>3. f[v] = Append(f[q], r)
      BY <1>5, <1>7
    <2> HIDE DEF q, r
    <2>4. q \in Nat \ {0} /\ q \in 0..n /\ ~(v <= q)
      BY <1>4, <2>1, <2>2
    <2>5. Digits(f[q], q, base)
      <3>1. q \notin bad
        BY <1>3, <2>4
      <3> QED BY <2>4, <3>1 DEF bad
    <2> DEFINE d == f[q]
    <2> HIDE DEF d
    <2>6. Digits(Append(d, r), q * base + r, base)
      BY <2>2, <2>4, <2>5, DigitsMore DEF d
    <2> QED BY <1>4, <2>2, <2>3, <2>6 DEF d
  <1> QED BY <1>6, <1>7

(* print_digits prints the number, without leading zeros.                  *)
LEMMA PrintIs ==
  ASSUME NEW v \in Nat, NEW base \in {10, 16}
  PROVE  LET d == print_digits(v, base)
         IN  ValueOf(d, base) = v /\ (Len(d) > 1 => d[1] # 48)
  <1> DEFINE f == CHOOSE g : Apart(g, v, base)
             d == f[v]
             text == [i \in DOMAIN d |-> Character(d[i])]
  <1>1. print_digits(v, base) = text
    BY DEF print_digits, Apart, Character
  <1>2. Apart(f, v, base)
    BY ApartSome
  <1> HIDE DEF f
  <1>3. Digits(d, v, base)
    BY <1>2, DigitsAre
  <1> HIDE DEF d
  <1>4. /\ d \in Seq(0..(base - 1)) /\ Len(d) \in Nat \ {0} /\ DOMAIN d = 1..Len(d)
        /\ Len(d) > 1 => d[1] # 0
        /\ ValueOf(text, base) = v
    BY <1>3 DEF Digits
  <1>5. Len(text) = Len(d) /\ text[1] = Character(d[1])
    BY <1>4
  <1>6. d[1] \in 0..15
    <2>1. d[1] \in 0..(base - 1)
      BY <1>4
    <2> QED BY <2>1
  <1>7. text[1] = 48 => d[1] = 0
    BY <1>5, <1>6, CharacterIs
  <1> HIDE DEF text
  <1> QED BY <1>1, <1>4, <1>5, <1>7

(* The loop of atoi over the digits at first..(end - 1).                   *)
Converts(f, b, first, end) ==
  f = [p \in first..end |-> IF p = first THEN 0 ELSE f[p - 1] * 10 + (b[p - 1] - 48)]

(* What the loop returns.                                                  *)
Converted(b, first, end) == (CHOOSE f : Converts(f, b, first, end))[end]

(* It is the value of the digits.                                          *)
LEMMA ConvertIs ==
  ASSUME NEW b, NEW first \in Nat, NEW number \in Seq(Nat),
         \A k \in 1..Len(number) : number[k] = b[first + k - 1] /\ number[k] \in 48..57,
         NEW end \in Nat, end = first + Len(number)
  PROVE  Converted(b, first, end) = ValueOf(number, 10)
  <1> DEFINE n == Len(number)
  <1>1. n \in Nat /\ end = first + n
    OBVIOUS
  <1>2. \A k \in 1..n : Digit(number[k]) = b[first + k - 1] - 48
    <2> SUFFICES ASSUME NEW k \in 1..n PROVE Digit(number[k]) = b[first + k - 1] - 48
      OBVIOUS
    <2>1. number[k] = b[first + k - 1] /\ number[k] \in 48..57
      OBVIOUS
    <2> QED BY <2>1 DEF Digit, isdigit
  <1>3. 10 \in {10, 16}
    OBVIOUS
  <1>4. \E f : Converts(f, b, first, end)
    <2>1. PICK f : Values(f, number, 10)
      BY <1>3, ValueSteps
    <2>2. f[0] = 0 /\ \A k \in 1..n : f[k] = f[k - 1] * 10 + Digit(number[k])
      BY <2>1 DEF Values
    <2> HIDE DEF n
    <2> DEFINE g == [p \in first..end |-> f[p - first]]
    <2>3. ASSUME NEW p \in first..end
          PROVE  g[p] = IF p = first THEN 0 ELSE g[p - 1] * 10 + (b[p - 1] - 48)
      <3>1. CASE p = first
        BY <2>2, <3>1
      <3>2. CASE p # first
        <4>1. p - 1 \in first..end /\ p - first \in 1..n /\ p - 1 - first = p - first - 1
              /\ first + (p - first) - 1 = p - 1
          BY <1>1, <3>2
        <4>2. g[p] = f[p - first] /\ g[p - 1] = f[p - first - 1]
          BY <4>1
        <4>3. f[p - first] = f[p - first - 1] * 10 + (b[p - 1] - 48)
          BY <1>2, <2>2, <4>1
        <4> HIDE DEF g
        <4> QED BY <3>2, <4>2, <4>3
      <3> QED BY <3>1, <3>2
    <2>4. g = [p \in first..end |-> g[p]]
      OBVIOUS
    <2> HIDE DEF g
    <2>5. Converts(g, b, first, end)
      BY <2>3, <2>4 DEF Converts
    <2> QED BY <2>5
  <1>5. ASSUME NEW f, Converts(f, b, first, end) PROVE f[end] = ValueOf(number, 10)
    <2> DEFINE g == [k \in 0..n |-> f[first + k]]
    <2>0. \A p \in first..end : f[p] = IF p = first THEN 0 ELSE f[p - 1] * 10 + (b[p - 1] - 48)
      BY <1>5 DEF Converts
    <2>1. g[0] = 0
      BY <1>1, <2>0
    <2>2. ASSUME NEW k \in 1..n PROVE g[k] = g[k - 1] * 10 + Digit(number[k])
      <3>1. /\ k \in 0..n /\ k - 1 \in 0..n /\ first + k \in first..end /\ first + k # first
            /\ first + k - 1 = first + (k - 1)
        BY <1>1
      <3>2. f[first + k] = f[first + k - 1] * 10 + (b[first + k - 1] - 48)
        BY <2>0, <3>1
      <3>3. g[k] = f[first + k] /\ g[k - 1] = f[first + (k - 1)]
        BY <3>1
      <3>4. Digit(number[k]) = b[first + k - 1] - 48
        BY <1>2
      <3> HIDE DEF g
      <3> QED BY <3>1, <3>2, <3>3, <3>4
    <2>3. g[n] = f[end]
      BY <1>1
    <2> HIDE DEF g
    <2>4. Values(g, number, 10)
      BY <2>1, <2>2 DEF Values
    <2> QED BY <1>3, <2>3, <2>4, ValueIs
  <1> QED BY <1>4, <1>5 DEF Converted

(* Digits have a value.                                                    *)
LEMMA ValueIsNat ==
  ASSUME NEW number \in Seq(Nat), \A k \in 1..Len(number) : number[k] \in 48..57
  PROVE  ValueOf(number, 10) \in Nat
  <1> DEFINE n == Len(number)
  <1>1. PICK f : Values(f, number, 10) /\ ValueOf(number, 10) = f[n]
    <2>1. 10 \in {10, 16}
      OBVIOUS
    <2> QED BY <2>1, ValueSteps
  <1>2. f[0] = 0 /\ \A k \in 1..n : f[k] = f[k - 1] * 10 + Digit(number[k])
    BY <1>1 DEF Values
  <1>3. \A k \in 1..n : Digit(number[k]) \in Nat
    <2> SUFFICES ASSUME NEW k \in 1..n PROVE Digit(number[k]) \in Nat
      OBVIOUS
    <2>1. PICK x \in 48..57 : x = number[k]
      OBVIOUS
    <2>2. Digit(x) \in Nat
      BY DEF Digit, isdigit
    <2> QED BY <2>1, <2>2
  <1>4. n \in Nat
    OBVIOUS
  <1> DEFINE good == {k \in Nat : f[k] \in Nat}
  <1>5. 0 \in good
    BY <1>2
  <1>6. ASSUME NEW k \in 0..(n - 1), k \in good PROVE k + 1 \in good
    <2>1. k + 1 \in 1..n /\ k + 1 - 1 = k /\ f[k] \in Nat
      BY <1>4, <1>6
    <2>2. f[k + 1] = f[k] * 10 + Digit(number[k + 1]) /\ Digit(number[k + 1]) \in Nat
      BY <1>2, <1>3, <2>1
    <2>3. PICK x \in Nat, y \in Nat : x = f[k] /\ y = Digit(number[k + 1])
      BY <2>1, <2>2
    <2>4. f[k + 1] = x * 10 + y
      BY <2>2, <2>3
    <2>5. f[k + 1] \in Nat
      BY <2>4
    <2> QED BY <2>5
  <1> HIDE DEF good, n
  <1>7. \A k \in 0..n : k \in good
    BY <1>4, <1>5, <1>6, Loop!UpTo
  <1> QED BY <1>1, <1>4, <1>7 DEF good

(* atoi returns the number that the text begins with.                      *)
LEMMA AtoiIs ==
  ASSUME NEW b, NEW s, NEW text, String(b, s, text)
  PROVE  atoi(b, s) = ValueOf(Number(text), 10) /\ atoi(b, s) \in Nat
  <1> DEFINE n == Len(text)
             space == 9..13 \union {32}
             i == Past(text, 1, space)
             j == Past(text, i, 48..57)
             number == Number(text)
             first == s + (i - 1)
             end == s + (j - 1)
  <1>1. /\ \A k \in 0..(n - 1) : b[s + k] = text[k + 1]
        /\ s \in Nat /\ n \in Nat
    BY StringAt
  <1>2. i \in 1..(n + 1)
    <2>1. 1 \in 1..(n + 1)
      BY <1>1
    <2>2. PastThese(text, 1, space, i)
      BY <1>1, <2>1, PastIs
    <2> QED BY <2>2 DEF PastThese
  <1>3. j \in i..(n + 1) /\ \A k \in i..(j - 1) : text[k] \in 48..57
    <2>1. PastThese(text, i, 48..57, j)
      BY <1>1, <1>2, PastIs
    <2> QED BY <2>1 DEF PastThese
  <1>4. {c \in 0..255 : isspace(c)} = space /\ {c \in 0..255 : isdigit(c)} = 48..57
    <2>1. \A c : c \in {x \in 0..255 : isspace(x)} <=> c \in space
      BY DEF isspace
    <2>2. \A c : c \in {x \in 0..255 : isdigit(x)} <=> c \in 48..57
      BY DEF isdigit
    <2> QED BY <2>1, <2>2
  <1>5. Skip(b, s, space) = first
    <2>1. Skip(b, s + (1 - 1), space) = first
      <3>1. 1 \in 1..(n + 1) /\ 0 \notin space
        BY <1>1
      <3> HIDE DEF space
      <3> QED BY <3>1, SkipPast
    <2>2. s + (1 - 1) = s
      BY <1>1
    <2> QED BY <2>1, <2>2
  <1>6. Skip(b, first, 48..57) = end
    <2>1. 0 \notin 48..57
      OBVIOUS
    <2> HIDE DEF i
    <2> QED BY <1>2, <2>1, SkipPast
  <1>7. atoi(b, s) = Converted(b, first, end)
    <2> DEFINE from == Skip(b, s, {c \in 0..255 : isspace(c)})
               to == Skip(b, from, {c \in 0..255 : isdigit(c)})
    <2>1. atoi(b, s) = Converted(b, from, to)
      BY DEF atoi, Converted, Converts
    <2>2. from = first
      BY <1>4, <1>5
    <2> HIDE DEF from, first, end
    <2>3. to = end
      BY <1>4, <1>6, <2>2
    <2> QED BY <2>1, <2>2, <2>3
  <1>8. number = SubSeq(text, i, j - 1)
    BY DEF Number
  <1> HIDE DEF i, j, number
  <1>9. i \in Nat /\ i >= 1 /\ i <= n + 1 /\ j \in Nat /\ i <= j /\ j <= n + 1
    BY <1>1, <1>2, <1>3
  <1>10. text \in Seq(Nat) /\ Len(text) = n
    BY DEF String
  <1> HIDE DEF n
  <1>11. /\ number \in Seq(Nat) /\ Len(number) = j - i
         /\ \A k \in 1..(j - i) : number[k] = text[i + k - 1]
    BY <1>1, <1>8, <1>9, <1>10
  <1>12. \A k \in 1..(j - i) : number[k] = b[first + k - 1] /\ number[k] \in 48..57
    <2> SUFFICES ASSUME NEW k \in 1..(j - i)
                 PROVE  number[k] = b[first + k - 1] /\ number[k] \in 48..57
      OBVIOUS
    <2>1. /\ i + k - 1 \in i..(j - 1) /\ i + k - 2 \in 0..(n - 1) /\ i + k - 2 + 1 = i + k - 1
          /\ s + (i + k - 2) = first + k - 1
      BY <1>1, <1>9
    <2>2. b[s + (i + k - 2)] = text[i + k - 2 + 1] /\ text[i + k - 1] \in 48..57
      BY <1>1, <1>3, <2>1
    <2> QED BY <1>11, <2>1, <2>2
  <1>13. first \in Nat /\ end \in Nat /\ end = first + Len(number)
    BY <1>1, <1>9, <1>11
  <1> HIDE DEF first, end
  <1>14. Converted(b, first, end) = ValueOf(number, 10)
    <2>1. \A k \in 1..Len(number) : number[k] = b[first + k - 1] /\ number[k] \in 48..57
      BY <1>11, <1>12
    <2>2. number \in Seq(Nat)
      BY <1>11
    <2> QED BY <1>13, <2>1, <2>2, ConvertIs
  <1>16. atoi(b, s) = ValueOf(number, 10)
    BY <1>7, <1>14
  <1>17. ValueOf(number, 10) \in Nat
    <2>1. \A k \in 1..Len(number) : number[k] \in 48..57
      BY <1>11, <1>12
    <2> QED BY <1>11, <2>1, ValueIsNat
  <1> QED BY <1>16, <1>17 DEF number

-----------------------------------------------------------------------------
(* Tokens.  Where the word that starts at i ends: one past its last         *)
(* character.                                                              *)
After(text, delim, i) == Past(text, i, (1..127) \ delim)

(* A word ends there.                                                      *)
LEMMA AfterIs ==
  ASSUME NEW b, NEW s, NEW text, String(b, s, text), NEW delim, NEW i \in 1..Len(text),
         text[i] \notin delim
  PROVE  LET j == After(text, delim, i) IN
         /\ j \in (i + 1)..(Len(text) + 1)
         /\ \A k \in i..(j - 1) : text[k] \notin delim
         /\ j <= Len(text) => text[j] \in delim
         /\ Word(text, delim, i) = SubSeq(text, i, j - 1)
  <1> DEFINE n == Len(text)
             j == After(text, delim, i)
             rest == (1..127) \ delim
  <1>1. n \in Nat /\ (\A k \in 1..n : text[k] \in 1..127)
    BY StringAt
  <1>2. i \in Nat /\ i >= 1 /\ i <= n /\ i \in 1..(n + 1)
    BY <1>1
  <1>3. PastThese(text, i, rest, j)
    BY <1>1, <1>2, PastIs DEF After
  <1>4. /\ j \in i..(n + 1) /\ \A k \in i..(j - 1) : text[k] \in rest
        /\ j <= n => text[j] \notin rest
    BY <1>3 DEF PastThese
  <1> HIDE DEF j
  <1>5. j # i
    <2>1. text[i] \in rest
      BY <1>1, <1>2
    <2> QED BY <1>2, <1>4, <2>1
  <1>6. j \in (i + 1)..(n + 1) /\ j \in Nat
    BY <1>1, <1>2, <1>4, <1>5
  <1>7. \A k \in i..(j - 1) : text[k] \notin delim
    BY <1>4
  <1>8. j <= n => text[j] \in delim
    <2>1. j <= n => j \in 1..n
      BY <1>2, <1>6
    <2> QED BY <1>1, <1>4, <2>1
  <1> DEFINE ends == {k \in i..n : k = n \/ text[k + 1] \in delim}
             last == CHOOSE k \in ends : \A l \in ends : k <= l
  <1> HIDE DEF n, rest
  <1>9. j - 1 \in ends
    <2>1. j - 1 \in i..n /\ (j - 1 # n => j <= n) /\ j - 1 + 1 = j
      BY <1>1, <1>2, <1>6
    <2> QED BY <1>8, <2>1
  <1>10. \A k \in ends : j - 1 <= k
    <2> SUFFICES ASSUME NEW k \in i..n, k = n \/ text[k + 1] \in delim PROVE j - 1 <= k
      OBVIOUS
    <2>1. CASE k = n
      BY <1>1, <1>6, <2>1
    <2>2. CASE text[k + 1] \in delim
      <3>1. k + 1 \notin i..(j - 1)
        BY <1>7, <2>2
      <3> QED BY <1>1, <1>2, <1>6, <3>1
    <2> QED BY <2>1, <2>2
  <1>11. ends \in SUBSET Nat
    BY <1>2
  <1>12. Word(text, delim, i) = SubSeq(text, i, last)
    BY DEF Word, n
  <1> HIDE DEF ends
  <1>13. last \in ends /\ \A l \in ends : last <= l
    BY <1>9, <1>11, ChosenIs
  <1> HIDE DEF last
  <1>14. last = j - 1
    <2>1. last \in Nat /\ last <= j - 1 /\ j - 1 <= last
      BY <1>9, <1>10, <1>11, <1>13
    <2> QED BY <1>6, <2>1
  <1> QED BY <1>6, <1>7, <1>8, <1>12, <1>14 DEF n, j

(* The turns of the caller of strtok_r: one of them, with what the rest    *)
(* find in f.                                                              *)
Turn(b, s, text, delim, f, p) ==
  IF p > s + Len(text) THEN {}
  ELSE LET t == strtok_r(b, p, delim) IN
       IF t.result = NULL THEN {}
       ELSE {<<t.result - s + 1, [i \in 1..stringlen(t.m, t.result) |-> t.m[t.result + i - 1]]>>}
              \union f[t.save]

(* All of them.                                                            *)
Turns(f, b, s, text, delim) ==
  f = [p \in s..(s + Len(text) + 1) |-> Turn(b, s, text, delim, f, p)]

(* What a turn at position k should find.                                  *)
TurnOf(text, delim, s, f, k) ==
  LET i == Past(text, k, delim) IN
  IF i = Len(text) + 1 THEN {}
  ELSE {<<i, Word(text, delim, i)>>} \union f[s + After(text, delim, i)]

(* The bytes of a string, its end included, are in memory.                 *)
InMemory(b, s, text) == \A i \in 0..Len(text) : s + i \in DOMAIN b

(* strtok_r finds the next word, and cuts it where it ends.                *)
LEMMA TurnIs ==
  ASSUME NEW b, NEW s, NEW text, String(b, s, text), s # NULL, InMemory(b, s, text),
         NEW delim, delim # {}, 0 \notin delim, NEW f, NEW k \in 1..(Len(text) + 1)
  PROVE  Turn(b, s, text, delim, f, s + (k - 1)) = TurnOf(text, delim, s, f, k)
  <1> DEFINE n == Len(text)
             p == s + (k - 1)
             i == Past(text, k, delim)
             start == s + (i - 1)
             t == strtok_r(b, p, delim)
  <1>1. /\ \A x \in 0..(n - 1) : b[s + x] = text[x + 1] /\ b[s + x] \in 1..127
        /\ b[s + n] = 0 /\ s \in Nat /\ n \in Nat
        /\ \A x \in 1..n : text[x] \in 1..127
    BY StringAt
  <1>2. Skip(b, p, delim) = start
    BY SkipPast
  <1>3. i \in k..(n + 1) /\ (i <= n => text[i] \notin delim)
    <2>1. PastThese(text, k, delim, i)
      BY <1>1, PastIs
    <2> QED BY <2>1 DEF PastThese
  <1> HIDE DEF i
  <1>4. i \in Nat /\ i >= 1 /\ i <= n + 1 /\ ~(p > s + n) /\ s # 0
    BY <1>1, <1>3 DEF NULL
  <1> HIDE DEF n, p
  <1>5. CASE i = n + 1
    <2>1. start = s + n
      BY <1>1, <1>5
    <2>2. b[start] = NUL
      BY <1>1, <2>1 DEF NUL
    <2>3. t = [result |-> NULL, save |-> NULL, m |-> b]
      BY <1>2, <2>2 DEF strtok_r
    <2> HIDE DEF t
    <2>4. t.result = NULL
      BY <2>3
    <2>5. Turn(b, s, text, delim, f, p) = {}
      BY <2>4 DEF Turn, t
    <2> QED BY <1>5, <2>5 DEF TurnOf, n, p, i
  <1>6. CASE i # n + 1
    <2> DEFINE j == After(text, delim, i)
               e == s + (j - 1)
               word == SubSeq(text, i, j - 1)
               cut == [b EXCEPT ![e] = NUL]
    <2>1. i \in 1..n /\ text[i] \notin delim
      BY <1>1, <1>3, <1>4, <1>6
    <2>2. /\ j \in (i + 1)..(n + 1)
          /\ \A x \in i..(j - 1) : text[x] \notin delim
          /\ j <= n => text[j] \in delim
          /\ Word(text, delim, i) = word
      BY <2>1, AfterIs DEF n
    <2> HIDE DEF j
    <2>3. /\ j \in Nat /\ i < j /\ j <= n + 1 /\ start \in Nat /\ e \in Nat /\ start <= e
          /\ start # 0
      BY <1>1, <1>4, <2>1, <2>2
    <2>4. \A q \in start..(e - 1) : b[q] \in 1..127 /\ b[q] \notin delim /\ b[q] = text[q - s + 1]
      <3> SUFFICES ASSUME NEW q \in start..(e - 1)
                   PROVE  b[q] \in 1..127 /\ b[q] \notin delim /\ b[q] = text[q - s + 1]
        OBVIOUS
      <3>1. q - s \in 0..(n - 1) /\ s + (q - s) = q /\ q - s + 1 \in i..(j - 1)
        BY <1>1, <1>4, <2>3
      <3>2. b[s + (q - s)] = text[q - s + 1] /\ b[s + (q - s)] \in 1..127
        BY <1>1, <3>1
      <3> QED BY <2>2, <3>1, <3>2
    <2>5. b[e] \in delim \union {NUL}
      <3>1. CASE j <= n
        <4>1. j - 1 \in 0..(n - 1) /\ j - 1 + 1 = j
          BY <1>1, <1>4, <2>3, <3>1
        <4>2. b[s + (j - 1)] = text[j - 1 + 1]
          BY <1>1, <4>1
        <4> QED BY <2>2, <3>1, <4>1, <4>2
      <3>2. CASE j = n + 1
        <4>1. j - 1 = n
          BY <1>1, <3>2
        <4> QED BY <1>1, <4>1 DEF NUL
      <3> QED BY <1>1, <2>3, <3>1, <3>2
    <2>6. b[start] # NUL
      <3>1. start \in start..(e - 1)
        BY <1>1, <1>4, <2>3
      <3>2. b[start] \in 1..127
        BY <2>4, <3>1
      <3>3. PICK c \in 1..127 : c = b[start]
        BY <3>2
      <3>4. c # NUL
        BY DEF NUL
      <3> QED BY <3>3, <3>4
    <2>7. Stop(b, start, delim) = e
      <3>1. \A q \in start..(e - 1) : b[q] \notin delim \union {NUL}
        <4> SUFFICES ASSUME NEW q \in start..(e - 1) PROVE b[q] \notin delim \union {NUL}
          OBVIOUS
        <4>1. b[q] \in 1..127 /\ b[q] \notin delim
          BY <2>4
        <4>2. PICK c \in 1..127 : c = b[q]
          BY <4>1
        <4>3. c # NUL
          BY DEF NUL
        <4> QED BY <4>1, <4>2, <4>3
      <3> HIDE DEF start, e
      <3>2. StopsAt(b, start, delim, e)
        BY <2>3, <2>5, <3>1 DEF StopsAt
      <3> QED BY <3>2, StopIs
    <2>8. t = [result |-> start, save |-> e + 1, m |-> cut]
      BY <1>2, <2>6, <2>7 DEF strtok_r
    <2> HIDE DEF t
    <2>9. t.result = start /\ t.save = e + 1 /\ t.m = cut
      <3> HIDE DEF start, e, cut
      <3> QED BY <2>8
    <2>10. /\ word \in Seq(Nat) /\ Len(word) = j - i /\ DOMAIN word = 1..(j - i)
           /\ \A x \in 1..(j - i) : word[x] = text[i + x - 1]
      <3>1. text \in Seq(Nat) /\ Len(text) = n
        BY DEF String, n
      <3> QED BY <1>1, <1>4, <2>3, <3>1
    <2>11. /\ cut[e] = NUL
           /\ \A q \in start..(e - 1) : cut[q] = b[q]
      <3>1. e \in DOMAIN b /\ \A q \in start..(e - 1) : q \in DOMAIN b /\ q # e
        <4>1. j - 1 \in 0..n
          BY <1>1, <1>4, <2>3
        <4>2. ASSUME NEW q \in start..(e - 1) PROVE q \in DOMAIN b /\ q # e
          <5>1. q - s \in 0..n /\ s + (q - s) = q /\ q # e
            BY <1>1, <1>4, <2>3
          <5> QED BY <5>1 DEF InMemory, n
        <4> QED BY <4>1, <4>2 DEF InMemory, n
      <3> HIDE DEF e, start
      <3> QED BY <3>1
    <2> HIDE DEF cut
    <2>12. ASSUME NEW x \in 1..(j - i)
           PROVE  /\ start + x - 1 \in start..(e - 1) /\ start + x - 1 - s + 1 = i + x - 1
                  /\ cut[start + x - 1] = word[x] /\ word[x] \in 1..127
      <3>1. start + x - 1 \in start..(e - 1) /\ start + x - 1 - s + 1 = i + x - 1
        BY <1>1, <1>4, <2>3
      <3>2. cut[start + x - 1] = b[start + x - 1] /\ b[start + x - 1] = text[start + x - 1 - s + 1]
            /\ b[start + x - 1] \in 1..127
        <4> DEFINE q == start + x - 1
        <4>1. q \in start..(e - 1)
          BY <3>1
        <4> HIDE DEF q
        <4>2. cut[q] = b[q] /\ b[q] = text[q - s + 1] /\ b[q] \in 1..127
          BY <2>4, <2>11, <4>1
        <4>3. q = start + x - 1 /\ q - s + 1 = start + x - 1 - s + 1
          BY <1>1, <1>4, <2>3 DEF q
        <4> HIDE DEF start, e
        <4> QED BY <4>2, <4>3
      <3> QED BY <2>10, <3>1, <3>2
    <2>13. String(cut, start, word)
      <3>1. start + (j - i) = e
        BY <1>1, <1>4, <2>3
      <3> HIDE DEF start, e, word
      <3>2. \A x \in 1..Len(word) : word[x] \in 1..127 /\ cut[start + x - 1] = word[x]
        BY <2>10, <2>12
      <3>3. cut[start + Len(word)] = NUL /\ Len(word) \in Nat
        <4>1. Len(word) = j - i
          BY <2>10
        <4>2. j - i \in Nat
          BY <1>4, <2>3
        <4>3. cut[e] = NUL
          BY <2>11
        <4> QED BY <3>1, <4>1, <4>2, <4>3
      <3> QED BY <2>3, <2>10, <3>2, <3>3 DEF String
    <2> HIDE DEF word
    <2>14. stringlen(cut, start) = j - i
      <3> HIDE DEF start
      <3> QED BY <2>10, <2>13, LengthIs
    <2>15. [x \in 1..(j - i) |-> cut[start + x - 1]] = word
      <3>1. word \in [1..(j - i) -> Nat]
        BY <2>10
      <3>2. word = [x \in 1..(j - i) |-> word[x]]
        BY <3>1
      <3>3. \A x \in 1..(j - i) : cut[start + x - 1] = word[x]
        BY <2>12
      <3> HIDE DEF start
      <3> QED BY <3>2, <3>3
    <2>16. start - s + 1 = i /\ e + 1 = s + j
      BY <1>1, <1>4, <2>3
    <2>17. t.result # NULL
      BY <2>3, <2>9 DEF NULL
    <2>18. Turn(b, s, text, delim, f, p) =
             {<<t.result - s + 1, [x \in 1..stringlen(t.m, t.result) |-> t.m[t.result + x - 1]]>>}
               \union f[t.save]
      BY <1>4, <2>17 DEF Turn, t, n
    <2> HIDE DEF start, e
    <2>19. Turn(b, s, text, delim, f, p) = {<<i, word>>} \union f[s + j]
      BY <2>9, <2>14, <2>15, <2>16, <2>18
    <2> QED BY <1>6, <2>2, <2>19 DEF TurnOf, n, p, i, j
  <1> QED BY <1>5, <1>6

(* The words from position k on, taking k for the start of a line.         *)
Starts(text, delim, k) ==
  {i \in k..Len(text) : text[i] \notin delim /\ (i = k \/ text[i - 1] \in delim)}
(* Each with its position.                                                 *)
Words(text, delim, k) == {<<i, Word(text, delim, i)>> : i \in Starts(text, delim, k)}

(* The first of them, and those after its end.                             *)
LEMMA WordsAre ==
  ASSUME NEW b, NEW s, NEW text, String(b, s, text), NEW delim, NEW k \in 1..(Len(text) + 1)
  PROVE  LET i == Past(text, k, delim) IN
         /\ i \in k..(Len(text) + 1)
         /\ i = Len(text) + 1 => Words(text, delim, k) = {}
         /\ i # Len(text) + 1 =>
              /\ After(text, delim, i) \in (i + 1)..(Len(text) + 1)
              /\ Words(text, delim, k) =
                   {<<i, Word(text, delim, i)>>}
                     \union Words(text, delim, After(text, delim, i) + 1)
  <1> DEFINE n == Len(text)
             i == Past(text, k, delim)
             S == Starts(text, delim, k)
  <1>1. n \in Nat
    BY StringAt
  <1>2. /\ i \in k..(n + 1) /\ (i <= n => text[i] \notin delim)
        /\ \A x \in k..(i - 1) : text[x] \in delim
    <2>1. PastThese(text, k, delim, i)
      BY <1>1, PastIs
    <2> QED BY <2>1 DEF PastThese
  <1> HIDE DEF i
  <1>3. i \in Nat /\ k \in Nat /\ k >= 1 /\ k <= i /\ i <= n + 1
    BY <1>1, <1>2
  <1>4. \A x \in S : x >= i /\ x <= n
    <2> SUFFICES ASSUME NEW x \in k..n, text[x] \notin delim PROVE x >= i /\ x <= n
      BY DEF Starts
    <2>1. x \notin k..(i - 1)
      BY <1>2
    <2> HIDE DEF n
    <2> QED BY <1>1, <1>3, <2>1
  <1>5. ASSUME i = n + 1 PROVE Words(text, delim, k) = {}
    <2>1. S \subseteq k..n
      BY DEF Starts
    <2>2. \A x \in S : FALSE
      <3> HIDE DEF S, n
      <3> SUFFICES ASSUME NEW x \in S PROVE FALSE
        OBVIOUS
      <3>1. x \in Nat /\ x >= i /\ x <= n
        BY <1>1, <1>3, <1>4, <2>1
      <3> QED BY <1>1, <1>5, <3>1
    <2> QED BY <2>2 DEF Words
  <1>6. ASSUME i # n + 1
        PROVE  /\ After(text, delim, i) \in (i + 1)..(n + 1)
               /\ Words(text, delim, k) =
                    {<<i, Word(text, delim, i)>>}
                      \union Words(text, delim, After(text, delim, i) + 1)
    <2> DEFINE j == After(text, delim, i)
               R == Starts(text, delim, j + 1)
    <2>1. i \in 1..n /\ text[i] \notin delim
      <3> HIDE DEF n
      <3> QED BY <1>1, <1>2, <1>3, <1>6
    <2>2. /\ j \in (i + 1)..(n + 1)
          /\ \A x \in i..(j - 1) : text[x] \notin delim
          /\ j <= n => text[j] \in delim
      BY <2>1, AfterIs
    <2> HIDE DEF j
    <2>3. S = {x \in k..n : text[x] \notin delim /\ (x = k \/ text[x - 1] \in delim)}
          /\ R = {x \in (j + 1)..n : text[x] \notin delim /\ (x = j + 1 \/ text[x - 1] \in delim)}
      BY DEF Starts
    <2> HIDE DEF n, S, R
    <2>4. j \in Nat /\ j > i /\ j <= n + 1 /\ i <= n
      BY <1>1, <1>3, <2>1, <2>2
    <2>5. i \in S
      <3>1. i = k \/ text[i - 1] \in delim
        <4>1. i # k => i - 1 \in k..(i - 1)
          BY <1>3
        <4> QED BY <1>2, <4>1
      <3>2. i \in k..n
        BY <1>1, <1>3, <2>4
      <3> QED BY <2>1, <2>3, <3>1, <3>2
    <2>6. ASSUME NEW x \in R PROVE x \in S
      <3>1. x \in (j + 1)..n /\ text[x] \notin delim /\ (x = j + 1 \/ text[x - 1] \in delim)
        BY <2>3
      <3>2. x \in k..n
        BY <1>1, <1>3, <2>4, <3>1
      <3>3. x = j + 1 => x - 1 = j /\ j <= n
        BY <1>1, <2>4, <3>1
      <3>4. text[x - 1] \in delim
        BY <2>2, <3>1, <3>3
      <3> QED BY <2>3, <3>1, <3>2, <3>4
    <2>7. ASSUME NEW x \in S, x # i PROVE x \in R
      <3>1. x \in k..n /\ text[x] \notin delim /\ (x = k \/ text[x - 1] \in delim)
        BY <2>3
      <3>2. x \in Nat /\ x > i /\ x # k
        BY <1>3, <1>4, <2>7, <3>1
      <3>3. x >= j
        <4>1. ASSUME x < j PROVE FALSE
          <5>1. x - 1 \in i..(j - 1)
            BY <1>3, <2>4, <3>2, <4>1
          <5> QED BY <2>2, <3>1, <3>2, <5>1
        <4> QED BY <2>4, <3>2, <4>1
      <3>4. x # j
        BY <1>4, <2>2, <3>1
      <3>5. x \in (j + 1)..n
        BY <1>1, <1>4, <2>4, <3>1, <3>2, <3>3, <3>4
      <3> QED BY <2>3, <3>1, <3>2, <3>5
    <2>8. S = {i} \union R
      BY <2>5, <2>6, <2>7
    <2>9. Words(text, delim, k) = {<<x, Word(text, delim, x)>> : x \in S}
          /\ Words(text, delim, j + 1) = {<<x, Word(text, delim, x)>> : x \in R}
      BY DEF Words, S, R
    <2>10. Words(text, delim, k) = {<<i, Word(text, delim, i)>>} \union Words(text, delim, j + 1)
      BY <2>8, <2>9
    <2> QED BY <2>2, <2>10 DEF j
  <1> QED BY <1>2, <1>5, <1>6 DEF n, i

(* The calls of strtok_r together take the words of the text.              *)
LEMMA TokensAre ==
  ASSUME NEW b, NEW s, NEW text, String(b, s, text), s # NULL, InMemory(b, s, text),
         NEW delim, delim # {}, 0 \notin delim
  PROVE  Tokens(b, s, text, delim) = Words(text, delim, 1)
  <1> DEFINE n == Len(text)
             W(k) == Words(text, delim, k)
             f0 == [p \in s..(s + n + 1) |-> W(p - s + 1)]
             next == CHOOSE f : Turns(f, b, s, text, delim)
  <1>1. n \in Nat /\ s \in Nat
    BY StringAt
  <1>2. Tokens(b, s, text, delim) = next[s]
    BY DEF Tokens, Turns, Turn
  <1>3. W(n + 2) = {}
    <2>1. \A i \in (n + 2)..n : FALSE
      BY <1>1
    <2>2. Starts(text, delim, n + 2) = {}
      BY <2>1 DEF Starts
    <2> QED BY <2>2 DEF Words
  (* The words from k on, if f holds those further on.                     *)
  <1>4. ASSUME NEW f, NEW k \in 1..(n + 1),
               \A l \in (k + 1)..(n + 2) : f[s + (l - 1)] = W(l)
        PROVE  Turn(b, s, text, delim, f, s + (k - 1)) = W(k)
    <2> DEFINE i == Past(text, k, delim)
               j == After(text, delim, i)
    <2>1. Turn(b, s, text, delim, f, s + (k - 1)) = TurnOf(text, delim, s, f, k)
      BY TurnIs
    <2>2. /\ i \in k..(n + 1)
          /\ i = n + 1 => W(k) = {}
          /\ i # n + 1 => /\ j \in (i + 1)..(n + 1)
                          /\ W(k) = {<<i, Word(text, delim, i)>>} \union W(j + 1)
      BY WordsAre
    <2>3. TurnOf(text, delim, s, f, k) =
            IF i = n + 1 THEN {} ELSE {<<i, Word(text, delim, i)>>} \union f[s + j]
      BY DEF TurnOf
    <2> HIDE DEF n, W, i, j
    <2>4. ASSUME i # n + 1 PROVE f[s + j] = W(j + 1)
      <3>1. PICK l \in (k + 1)..(n + 2) : l = j + 1
        BY <1>1, <2>2, <2>4
      <3>2. s + (l - 1) = s + j
        BY <1>1, <2>2, <2>4, <3>1
      <3> QED BY <1>4, <3>1, <3>2
    <2> QED BY <2>1, <2>2, <2>3, <2>4
  <1>5. Turns(f0, b, s, text, delim)
    <2>1. ASSUME NEW p \in s..(s + n + 1)
          PROVE  f0[p] = Turn(b, s, text, delim, f0, p)
      <3> HIDE DEF W
      <3>1. f0[p] = W(p - s + 1)
        OBVIOUS
      <3>2. CASE p = s + n + 1
        <4>1. p > s + n /\ p - s + 1 = n + 2
          BY <1>1, <3>2
        <4> HIDE DEF f0
        <4>2. Turn(b, s, text, delim, f0, p) = {}
          BY <4>1 DEF Turn
        <4> QED BY <1>3, <3>1, <4>1, <4>2
      <3>3. CASE p # s + n + 1
        <4> DEFINE k == p - s + 1
        <4>1. k \in 1..(n + 1) /\ s + (k - 1) = p
          BY <1>1, <3>3
        <4>2. ASSUME NEW l \in (k + 1)..(n + 2) PROVE f0[s + (l - 1)] = W(l)
          <5>1. s + (l - 1) \in s..(s + n + 1) /\ (s + (l - 1)) - s + 1 = l
            BY <1>1, <4>1
          <5> QED BY <5>1
        <4> HIDE DEF f0, k
        <4>3. Turn(b, s, text, delim, f0, s + (k - 1)) = W(k)
          BY <1>4, <4>1, <4>2
        <4> QED BY <3>1, <4>1, <4>3 DEF k
      <3> QED BY <3>2, <3>3
    <2>2. f0 = [p \in s..(s + n + 1) |-> f0[p]]
      OBVIOUS
    <2> HIDE DEF f0
    <2>3. f0 = [p \in s..(s + n + 1) |-> Turn(b, s, text, delim, f0, p)]
      BY <2>1, <2>2
    <2> QED BY <2>3 DEF Turns
  <1> HIDE DEF f0
  <1>6. Turns(next, b, s, text, delim)
    BY <1>5
  <1> HIDE DEF next, W, n
  <1>7. \A p \in s..(s + n + 1) : next[p] = Turn(b, s, text, delim, next, p)
    BY <1>6 DEF Turns, n
  <1> DEFINE at(d) == n + 2 - d
             bad == {d \in 0..(n + 1) : next[s + (at(d) - 1)] # W(at(d))}
  <1>8. bad = {}
    <2> SUFFICES ASSUME bad # {} PROVE FALSE
      OBVIOUS
    <2>1. bad \in SUBSET Nat
      OBVIOUS
    <2> HIDE DEF bad
    <2>2. PICK d \in bad : \A e \in bad : d <= e
      BY <2>1, Loop!LeastNatural
    <2>3. d \in 0..(n + 1) /\ next[s + (at(d) - 1)] # W(at(d))
      BY <2>2 DEF bad
    <2> DEFINE k == at(d)
    <2>4. k \in 1..(n + 2) /\ s + (k - 1) \in s..(s + n + 1)
      BY <1>1, <2>3
    <2>5. next[s + (k - 1)] = Turn(b, s, text, delim, next, s + (k - 1))
      BY <1>7, <2>4
    <2>6. CASE k = n + 2
      <3>1. s + (k - 1) > s + n
        BY <1>1, <2>6
      <3>2. Turn(b, s, text, delim, next, s + (k - 1)) = {}
        <4> HIDE DEF k
        <4> QED BY <3>1 DEF Turn, n
      <3> HIDE DEF k
      <3> QED BY <1>3, <2>3, <2>5, <2>6, <3>2 DEF k
    <2>7. CASE k # n + 2
      <3>1. k \in 1..(n + 1)
        BY <1>1, <2>4, <2>7
      <3>2. ASSUME NEW l \in (k + 1)..(n + 2) PROVE next[s + (l - 1)] = W(l)
        <4> DEFINE e == n + 2 - l
        <4>1. e \in 0..(n + 1) /\ e \in Nat /\ ~(d <= e) /\ at(e) = l
          BY <1>1, <2>3, <2>4
        <4>2. e \notin bad
          BY <2>2, <4>1
        <4>3. next[s + (at(e) - 1)] = W(at(e))
          BY <4>1, <4>2 DEF bad
        <4> QED BY <4>1, <4>3
      <3> HIDE DEF k
      <3>3. Turn(b, s, text, delim, next, s + (k - 1)) = W(k)
        BY <1>4, <3>1, <3>2
      <3> QED BY <2>3, <2>5, <3>3 DEF k
    <2> QED BY <2>6, <2>7
  <1>9. next[s] = W(1)
    <2>1. n + 1 \in 0..(n + 1) /\ at(n + 1) = 1 /\ s + (1 - 1) = s
      BY <1>1
    <2>2. next[s + (at(n + 1) - 1)] = W(at(n + 1))
      BY <1>8, <2>1
    <2> QED BY <2>1, <2>2
  <1> QED BY <1>2, <1>9 DEF W

(* The name that exec is called with is a string in memory, above the      *)
(* first page.                                                             *)
LEMMA NameIsString ==
  ASSUME Inv, pc = "exec"
  PROVE  LET text == Front(keys) IN
         /\ String(m, name, text) /\ InMemory(m, name, text) /\ name # NULL /\ name >= PageSize
         /\ \A i \in 0..(PageSize - 1) : i \in DOMAIN m
  <1> DEFINE text == Front(keys)
             n == Len(text)
  <1>1. NameIs
    BY NameInv
  <1>2. /\ text \in Seq(Letter) /\ n = Len(keys) - 1 /\ Len(keys) \in Nat /\ Len(keys) > 1
        /\ name \in Nat \ {0} /\ Holds(m, name, text)
    BY <1>1 DEF NameIs
  <1>3. n \in Nat /\ DOMAIN text = 1..n
    BY <1>2
  <1>4. \A i \in 1..n : m[name + i - 1] = text[i]
    BY <1>2, <1>3 DEF Holds
  <1>5. m[name + n] = NUL
    BY <1>2 DEF Holds
  <1>6. \A i \in 1..n : text[i] \in 1..127
    <2>1. \A i \in 1..n : text[i] \in Letter
      BY <1>2, <1>3
    <2> QED BY <2>1, CharactersAre
  <1>7. text \in Seq(Nat)
    <2>1. \A i \in 1..n : text[i] \in Nat
      <3>1. \A i \in 1..n : text[i] \in Letter
        BY <1>2, <1>3
      <3> QED BY <3>1, CharactersAre
    <2> HIDE DEF text
    <2>2. text \in [1..n -> Nat]
      BY <1>2, <2>1
    <2> QED BY <1>2, <2>2
  <1>8. String(m, name, text)
    BY <1>2, <1>3, <1>4, <1>5, <1>6, <1>7 DEF String
  <1> HIDE DEF text
  <1>9. InBuffer /\ name = line.ptr
    BY InBufferIs DEF Inv, Buffers, Reading, Typing
  <1>10. \A x \in name..(name + Len(keys) - 1) : x \in Mapped(maps) /\ x \in Address
    BY <1>9 DEF InBuffer
  <1>11. DOMAIN m = Address
    BY DEF Inv, TypeOK
  <1>12. InMemory(m, name, text)
    <2>1. \A i \in 0..n : name + i \in name..(name + Len(keys) - 1)
      <3> HIDE DEF n
      <3> QED BY <1>2, <1>3
    <2> QED BY <1>10, <1>11, <2>1 DEF InMemory
  <1>13. name >= PageSize
    <2>1. maps.first * PageSize <= name
      BY <1>9 DEF InBuffer, BufferSound
    <2>2. maps.first * PageSize \in Nat /\ PageSize <= maps.first * PageSize
      BY TypesAre, MappedIs
    <2> DEFINE start == maps.first * PageSize
    <2> HIDE DEF start
    <2>3. start <= name /\ start \in Nat /\ PageSize <= start
      BY <2>1, <2>2 DEF start
    <2> QED BY <1>2, <2>3, SizeAssumption
  <1>14. \A i \in 0..(PageSize - 1) : i \in DOMAIN m
    <2>1. 1 * PageSize <= (Memory + 1) * PageSize /\ (Memory + 1) * PageSize \in Nat
      BY SizeAssumption, Products
    <2> DEFINE limit == (Memory + 1) * PageSize
    <2>2. Address = 0..(limit + 2)
      BY DEF Address
    <2>3. PageSize <= limit /\ limit \in Nat
      BY <2>1, SizeAssumption
    <2> HIDE DEF limit
    <2> QED BY <1>11, <2>2, <2>3, SizeAssumption
  <1> QED BY <1>2, <1>8, <1>12, <1>13, <1>14 DEF text, NULL

(* The name of a program, as the shell and the kernel hold it.             *)
LEMMA ProgramIsString ==
  ASSUME NEW p \in Program
  PROVE  String(p \o <<NUL>>, 1, p)
  <1>1. p \in Seq(Letter)
    BY CharAssumption
  <1> DEFINE n == Len(p)
             b == p \o <<NUL>>
  <1>2. /\ n \in Nat /\ DOMAIN p = 1..n
        /\ \A i \in 1..n : p[i] \in Letter /\ b[i] = p[i]
        /\ b[n + 1] = NUL
    BY <1>1
  <1>3. p \in Seq(Nat)
    <2>1. \A i \in 1..n : p[i] \in Nat
      <3>1. \A i \in 1..n : p[i] \in Letter
        BY <1>2
      <3> QED BY <3>1, CharactersAre
    <2>2. p \in [1..n -> Nat]
      BY <1>1, <2>1
    <2> QED BY <1>2, <2>2
  <1>4. \A i \in 1..n : p[i] \in 1..127
    BY <1>2, CharactersAre
  <1> HIDE DEF b
  <1>5. \A i \in 1..n : b[1 + i - 1] = p[i]
    <2>1. \A i \in 1..n : 1 + i - 1 = i
      BY <1>2
    <2> QED BY <1>2, <2>1
  <1>6. b[1 + n] = NUL
    BY <1>2
  <1> QED BY <1>2, <1>3, <1>4, <1>5, <1>6 DEF String, b

(* Each of the string functions on that name.                              *)
LEMMA NamesAgree ==
  ASSUME Inv, pc = "exec"
  PROVE  StringsAgree
  <1> DEFINE text == Front(keys)
             blank == {32}
             blanks == {i \in DOMAIN text : text[i] = 32}
             value == atoi(m, name)
             copy == strcpy(memset(m, 0, 255, PageSize), 0, name)
  <1>1. /\ String(m, name, text) /\ InMemory(m, name, text) /\ name # NULL /\ name >= PageSize
        /\ \A i \in 0..(PageSize - 1) : i \in DOMAIN m
    BY NameIsString
  <1> HIDE DEF text
  <1>2. stringlen(m, name) = Len(text)
    BY <1>1, LengthIs
  <1>3. NUL \notin blank /\ 0 \notin blank /\ blank # {}
    BY DEF NUL
  <1>4. strpbrk(m, name, blank) =
          (IF blanks = {} THEN NULL
           ELSE name + (CHOOSE i \in blanks : \A j \in blanks : i <= j) - 1)
    <2>1. blanks = {i \in DOMAIN text : text[i] \in blank}
      OBVIOUS
    <2> HIDE DEF blanks
    <2> DEFINE found == {i \in DOMAIN text : text[i] \in blank}
    <2>2. strpbrk(m, name, blank) =
            (IF found = {} THEN NULL ELSE name + (CHOOSE i \in found : \A j \in found : i <= j) - 1)
      <3> HIDE DEF blank
      <3> QED BY <1>1, <1>3, StrpbrkIs
    <2> HIDE DEF found, blank
    <2> QED BY <2>1, <2>2 DEF found
  <1>5. Tokens(m, name, text, blank) =
          {<<i, Word(text, blank, i)>> : i \in WordStarts(text, blank)}
    <2>1. Tokens(m, name, text, blank) = Words(text, blank, 1)
      <3> HIDE DEF blank
      <3> QED BY <1>1, <1>3, TokensAre
    <2>2. Starts(text, blank, 1) = WordStarts(text, blank)
      <3>1. DOMAIN text = 1..Len(text)
        BY <1>1 DEF String
      <3> QED BY <3>1 DEF Starts, WordStarts
    <2> QED BY <2>1, <2>2 DEF Words
  <1>6. value = ValueOf(Number(text), 10) /\ value \in Nat
    BY <1>1, AtoiIs
  <1> HIDE DEF value
  <1>7. ASSUME NEW base \in {10, 16}
        PROVE  LET d == print_digits(value, base)
               IN  ValueOf(d, base) = value /\ (Len(d) > 1 => d[1] # 48)
    BY <1>6, PrintIs
  <1>8. ASSUME NEW p \in Program
        PROVE  LET order == strcmp(p \o <<NUL>>, 1, m, name) IN
               /\ order = 0 <=> p = text
               /\ order = -strcmp(m, name, p \o <<NUL>>, 1)
    <2> DEFINE b == p \o <<NUL>>
    <2>1. String(b, 1, p)
      BY ProgramIsString
    <2> HIDE DEF b
    <2>2. Compares(b, 1, p, m, name, text)
      BY <1>1, <2>1, StringsCompare
    <2> QED BY <2>2 DEF Compares, b
  <1>9. ASSUME Len(text) < PageSize
        PROVE  \A i \in DOMAIN text : copy[i - 1] = text[i]
    <2>1. PageSize \in Nat /\ PageSize <= name
      BY <1>1, SizeAssumption DEF String
    <2>2. \A i \in 0..Len(text) : name + i \in DOMAIN m
      BY <1>1 DEF InMemory
    <2> QED BY <1>1, <1>9, <2>1, <2>2, StrcpyIs
  <1> HIDE DEF copy, blank, blanks
  <1> QED BY <1>2, <1>4, <1>5, <1>6, <1>7, <1>8, <1>9
          DEF StringsAgree, text, value, copy, blank, blanks

(* On every line that can be typed, whatever new memory holds, the string  *)
(* and number functions return what StringsAgree says: lengths, places,    *)
(* words, numbers, digits, orders, and the characters of a copy; nothing   *)
(* of the end that strcpy does not copy, nor of calls of strtok_r after    *)
(* the last word has reached the end (strlib.c, stdlib.c:73-88,            *)
(* stdio.c:28-71).                                                         *)
THEOREM StringsAreRight == Spec => []StringsAgree
  <1>1. Inv => StringsAgree
    <2>1. pc # "exec" => StringsAgree
      BY DEF StringsAgree
    <2> QED BY <2>1, NamesAgree
  <1> QED BY <1>1, SpecInv, PTL
================================================================================
