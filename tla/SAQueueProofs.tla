---------------------------- MODULE SAQueueProofs ----------------------------
(***************************************************************************)
(* Proofs about SAQueue for every capacity that divides the word: the ring *)
(* invariant, and that the ring buffer implements the bounded deque.       *)
(***************************************************************************)
EXTENDS SAQueue, SequenceTheorems, TLAPS

(* Remainders of the small sums the queue computes.                        *)
LEMMA ModSmall ==
    ASSUME NEW m \in Nat \ {0}, NEW x \in 0 .. m - 1
    PROVE  x % m = x
OBVIOUS

(* A sum that passes the modulus once.                                     *)
LEMMA ModWrap ==
    ASSUME NEW m \in Nat \ {0}, NEW x \in m .. 2 * m - 1
    PROVE  x % m = x - m
OBVIOUS

(* A cursor moved by at most one turn.                                     *)
LEMMA ModSum ==
    ASSUME NEW m \in Nat \ {0}, NEW a \in 0 .. m - 1, NEW n \in 0 .. m
    PROVE  (a + n) % m = IF a + n < m THEN a + n ELSE a + n - m
OBVIOUS

(* The predecessor of zero.                                                *)
LEMMA ModMinusOne ==
    ASSUME NEW m \in Nat \ {0}
    PROVE  (0 - 1) % m = m - 1
OBVIOUS

(* Moving a cursor forward.                                                *)
LEMMA IncSlot ==
    ASSUME NEW i \in Slots
    PROVE  Inc(i) = IF i = MaxCount - 1 THEN 0 ELSE i + 1
<1> USE CapacityAssumption DEF Slots
<1>1. (i + 1) % WordMod = i + 1
  BY ModSmall
<1>2. CASE i = MaxCount - 1
  BY <1>1, <1>2, ModWrap DEF Inc
<1>3. CASE i # MaxCount - 1
  BY <1>1, <1>3, ModSmall DEF Inc
<1> QED BY <1>2, <1>3

(* Moving the read cursor back: the size_t underflow at slot 0 lands on    *)
(* the last slot because the capacity divides the word.                    *)
LEMMA DecSlot ==
    ASSUME NEW i \in Slots
    PROVE  Dec(i) = IF i = 0 THEN MaxCount - 1 ELSE i - 1
<1> USE CapacityAssumption DEF Slots
<1>1. CASE i = 0
  <2>0. WordMod \in Nat \ {0}
    OBVIOUS
  <2>1. (i - 1) % WordMod = WordMod - 1
    BY <1>1, <2>0, ModMinusOne
  <2> QED BY <1>1, <2>1 DEF Dec
<1>2. CASE i # 0
  <2>1. (i - 1) % WordMod = i - 1
    BY <1>2, ModSmall
  <2> QED BY <1>2, <2>1, ModSmall DEF Dec
<1> QED BY <1>1, <1>2

(* The slot `n' places after a cursor, for at most one turn of the ring.   *)
LEMMA RingSlot ==
    ASSUME NEW a \in Slots, NEW n \in 0 .. MaxCount
    PROVE  (a + n) % MaxCount = IF a + n < MaxCount THEN a + n ELSE a + n - MaxCount
<1>1. MaxCount \in Nat \ {0} /\ a \in 0 .. MaxCount - 1
  BY CapacityAssumption DEF Slots
<1> QED BY <1>1, ModSum

(* The ring invariant is inductive: the cursors, the count and the slot    *)
(* reserved for a caller agree after any sequence of SAQueue calls.        *)
LEMMA RingInvInductive == RingInv /\ [Next]_vars => RingInv'
<1> SUFFICES ASSUME RingInv, [Next]_vars PROVE RingInv'
  OBVIOUS
<1>m. MaxCount \in Nat \ {0} /\ Zero \in Data /\ None \notin Data
  BY CapacityAssumption, DataAssumption
<1> USE <1>m
<1>t. TypeOK /\ CursorsAgree /\ ReservedIsAnEnd
  BY DEF RingInv
<1>w. next_write = IF next_read + count < MaxCount THEN next_read + count
                                                   ELSE next_read + count - MaxCount
  BY <1>t, RingSlot DEF TypeOK, CursorsAgree
<1>room. /\ ReadAfterRoom \in Slots /\ CountAfterRoom \in 0 .. MaxCount - 1
         /\ next_write = IF ReadAfterRoom + CountAfterRoom < MaxCount
                           THEN ReadAfterRoom + CountAfterRoom
                           ELSE ReadAfterRoom + CountAfterRoom - MaxCount
  BY <1>t, <1>w, IncSlot DEF TypeOK, ReadAfterRoom, CountAfterRoom, isFill, Slots
<1> DEFINE Cursors ==
        /\ next_read' \in Slots /\ next_write' \in Slots /\ count' \in 0 .. MaxCount
        /\ next_write' = IF next_read' + count' < MaxCount THEN next_read' + count'
                                                 ELSE next_read' + count' - MaxCount
<1>1. ASSUME NEW d \in Data, add(d) PROVE RingInv'
  <2>1. Cursors
    BY <1>1, <1>t, <1>room, IncSlot DEF add, TypeOK, Slots
  <2>2. TypeOK'
    BY <1>1, <1>t, <2>1 DEF add, TypeOK, Slots
  <2>3. CursorsAgree'
    BY <2>1, RingSlot DEF CursorsAgree
  <2>4. ReservedIsAnEnd'
    BY <1>1 DEF add, ReservedIsAnEnd
  <2> QED BY <2>2, <2>3, <2>4 DEF RingInv
<1>2. ASSUME NEW d \in Data, addFront(d) PROVE RingInv'
  <2>0. next_read' = IF ReadAfterRoom = 0 THEN MaxCount - 1 ELSE ReadAfterRoom - 1
    BY <1>2, <1>room, DecSlot DEF addFront
  <2>1. Cursors
    BY <1>2, <1>t, <1>room, <2>0 DEF addFront, TypeOK, Slots
  <2>2. TypeOK'
    BY <1>2, <1>t, <2>1 DEF addFront, TypeOK, Slots
  <2>3. CursorsAgree'
    BY <2>1, RingSlot DEF CursorsAgree
  <2>4. ReservedIsAnEnd'
    BY <1>2 DEF addFront, ReservedIsAnEnd
  <2> QED BY <2>2, <2>3, <2>4 DEF RingInv
<1>3. ASSUME NEW d \in Data, fill(d) PROVE RingInv'
  <2>1. Cursors
    BY <1>3, <1>t, <1>w DEF fill, TypeOK, Slots
  <2>2. TypeOK'
    BY <1>3, <1>t, <2>1 DEF fill, TypeOK, Slots
  <2>3. CursorsAgree'
    BY <2>1, RingSlot DEF CursorsAgree
  <2>4. ReservedIsAnEnd'
    BY <1>3 DEF fill, ReservedIsAnEnd
  <2> QED BY <2>2, <2>3, <2>4 DEF RingInv
<1>4. ASSUME addRaw PROVE RingInv'
  <2>0. next_write' = IF next_write = MaxCount - 1 THEN 0 ELSE next_write + 1
    BY <1>4, <1>t, IncSlot DEF addRaw, TypeOK
  <2>1. Cursors
    BY <1>4, <1>t, <1>room, <2>0 DEF addRaw, TypeOK, Slots
  <2>2. TypeOK'
    BY <1>4, <1>t, <2>1 DEF addRaw, TypeOK, Slots
  <2>3. CursorsAgree'
    BY <2>1, RingSlot DEF CursorsAgree
  <2>4. ReservedIsAnEnd'
    <3>1. count' \in 1 .. MaxCount /\ raw' = next_write
      BY <1>4, <1>room DEF addRaw
    <3> DEFINE last == CountAfterRoom
    <3>2. count' - 1 = last /\ last \in 0 .. MaxCount /\ next_read' = ReadAfterRoom
      BY <1>4, <1>room DEF addRaw
    <3> HIDE DEF last
    <3>3. next_write = (next_read' + last) % MaxCount
      BY <1>room, <3>2, RingSlot DEF last
    <3>4. next_write = Slot(count - 1)'
      BY <3>2, <3>3, Zenon DEF Slot
    <3> QED BY <3>1, <3>4 DEF ReservedIsAnEnd
  <2> QED BY <2>2, <2>3, <2>4 DEF RingInv
<1>5. ASSUME addFrontRaw PROVE RingInv'
  <2>0. next_read' = IF ReadAfterRoom = 0 THEN MaxCount - 1 ELSE ReadAfterRoom - 1
    BY <1>5, <1>room, DecSlot DEF addFrontRaw
  <2>1. Cursors
    BY <1>5, <1>t, <1>room, <2>0 DEF addFrontRaw, TypeOK, Slots
  <2>2. TypeOK'
    BY <1>5, <1>t, <2>1 DEF addFrontRaw, TypeOK, Slots
  <2>3. CursorsAgree'
    BY <2>1, RingSlot DEF CursorsAgree
  <2>4. ReservedIsAnEnd'
    BY <1>5, <1>room DEF addFrontRaw, ReservedIsAnEnd
  <2> QED BY <2>2, <2>3, <2>4 DEF RingInv
<1>6. ASSUME NEW i \in Slots, readonly(i) PROVE RingInv'
  <2>1. Cursors
    BY <1>6, <1>t, <1>w DEF readonly, TypeOK, Slots
  <2>2. TypeOK'
    BY <1>6, <1>t, <2>1 DEF readonly, TypeOK, Slots
  <2>3. CursorsAgree'
    BY <2>1, RingSlot DEF CursorsAgree
  <2>4. ReservedIsAnEnd'
    BY <1>6 DEF readonly, ReservedIsAnEnd
  <2> QED BY <2>2, <2>3, <2>4 DEF RingInv
<1>7. ASSUME get PROVE RingInv'
  <2>1. Cursors
    BY <1>7, <1>t, <1>w, IncSlot DEF get, TypeOK, Slots
  <2>2. TypeOK'
    BY <1>7, <1>t, <2>1 DEF get, TypeOK, Slots
  <2>3. CursorsAgree'
    BY <2>1, RingSlot DEF CursorsAgree
  <2>4. ReservedIsAnEnd'
    BY <1>7 DEF get, ReservedIsAnEnd
  <2> QED BY <2>2, <2>3, <2>4 DEF RingInv
<1>8. ASSUME getRaw PROVE RingInv'
  <2>1. Cursors
    BY <1>8, <1>t, <1>w, IncSlot DEF getRaw, TypeOK, Slots
  <2>2. TypeOK'
    BY <1>8, <1>t, <2>1 DEF getRaw, TypeOK, Slots
  <2>3. CursorsAgree'
    BY <2>1, RingSlot DEF CursorsAgree
  <2>4. ReservedIsAnEnd'
    BY <1>8 DEF getRaw, ReservedIsAnEnd
  <2> QED BY <2>2, <2>3, <2>4 DEF RingInv
<1>9. ASSUME clear PROVE RingInv'
  <2>1. Cursors
    BY <1>9, <1>t, <1>w DEF clear, TypeOK, Slots
  <2>2. TypeOK'
    BY <1>9, <1>t, <2>1 DEF clear, Cleared, TypeOK, Slots
  <2>3. CursorsAgree'
    BY <2>1, RingSlot DEF CursorsAgree
  <2>4. ReservedIsAnEnd'
    BY <1>9 DEF clear, ReservedIsAnEnd
  <2> QED BY <2>2, <2>3, <2>4 DEF RingInv
<1>10. CASE UNCHANGED vars
  BY <1>10, <1>t DEF vars, RingInv, TypeOK, CursorsAgree, ReservedIsAnEnd, Slot
<1> QED
  BY <1>1, <1>2, <1>3, <1>4, <1>5, <1>6, <1>7, <1>8, <1>9, <1>10 DEF Next

(* SAQueue_create leaves a ring that satisfies the invariant.              *)
LEMMA RingInvInit == Init => RingInv
<1> SUFFICES ASSUME Init PROVE RingInv
  OBVIOUS
<1>1. MaxCount \in Nat \ {0} /\ Zero \in Data
  BY CapacityAssumption, DataAssumption
<1>2. TypeOK
  BY <1>1 DEF Init, TypeOK, Slots, Cleared
<1>3. CursorsAgree
  BY <1>1, <1>2, RingSlot DEF Init, CursorsAgree, TypeOK
<1> QED BY <1>2, <1>3 DEF RingInv, ReservedIsAnEnd, Init

(* After any sequence of SAQueue calls the cursors index the ring, count   *)
(* is the distance between them, and a slot reserved by addRaw or          *)
(* addFrontRaw is an end of the queue: for every capacity dividing 2^64.   *)
THEOREM RingCorrect == Spec => []RingInv
<1>1. Init => RingInv
  BY RingInvInit
<1>2. RingInv /\ [Next]_vars => RingInv'
  BY RingInvInductive
<1> QED BY <1>1, <1>2, PTL DEF Spec

-----------------------------------------------------------------------------
(* The refinement.  The deque is the window of n slots that begins at slot *)
(* r of the ring; each operation of the ring is an operation on windows.   *)
Window(buf, r, n) == [i \in 1 .. n |-> buf[(r + (i - 1)) % MaxCount]]

Place(r, i) == IF r + i < MaxCount THEN r + i ELSE r + i - MaxCount

(* A window is a sequence of its slots' contents.                          *)
LEMMA WindowSeq ==
    ASSUME NEW buf \in [Slots -> Data], NEW r \in Slots, NEW n \in 0 .. MaxCount
    PROVE  /\ Window(buf, r, n) \in Seq(Data) /\ Len(Window(buf, r, n)) = n
           /\ \A i \in 1 .. n : /\ Place(r, i - 1) \in Slots
                                /\ Window(buf, r, n)[i] = buf[Place(r, i - 1)]
<1>m. MaxCount \in Nat \ {0}
  BY CapacityAssumption
<1>1. \A i \in 1 .. n : (r + (i - 1)) % MaxCount = Place(r, i - 1)
  <2> SUFFICES ASSUME NEW i \in 1 .. n PROVE (r + (i - 1)) % MaxCount = Place(r, i - 1)
    OBVIOUS
  <2>1. i - 1 \in 0 .. MaxCount
    BY <1>m
  <2> QED BY <2>1, RingSlot DEF Place
<1>2. \A i \in 1 .. n : Place(r, i - 1) \in Slots
  BY <1>m DEF Place, Slots
<1>3. Window(buf, r, n) = [i \in 1 .. n |-> buf[Place(r, i - 1)]]
  BY <1>1 DEF Window
<1>4. n \in Nat
  BY <1>m
<1>5. Window(buf, r, n) \in [1 .. n -> Data]
  BY <1>2, <1>3
<1>6. Window(buf, r, n) \in Seq(Data) /\ Len(Window(buf, r, n)) = n
  BY <1>4, <1>5, IsASeq, LenProperties
<1> QED BY <1>2, <1>3, <1>6

(* Taking the front element: the window shrinks from the left.             *)
LEMMA WindowTail ==
    ASSUME NEW buf \in [Slots -> Data], NEW r \in Slots, NEW n \in 1 .. MaxCount
    PROVE  /\ Window(buf, r, n) # <<>> /\ Head(Window(buf, r, n)) = buf[r]
           /\ Tail(Window(buf, r, n)) = Window(buf, Inc(r), n - 1)
<1>m. MaxCount \in Nat \ {0} /\ n \in 0 .. MaxCount /\ n - 1 \in 0 .. MaxCount
      /\ r \in 0 .. MaxCount - 1
  BY CapacityAssumption DEF Slots
<1>i. Inc(r) \in Slots /\ Inc(r) = IF r = MaxCount - 1 THEN 0 ELSE r + 1
  BY <1>m, IncSlot DEF Slots
<1> DEFINE w == Window(buf, r, n)
           v == Window(buf, Inc(r), n - 1)
           t == Tail(w)
<1>1. /\ w \in Seq(Data) /\ Len(w) = n
      /\ \A i \in 1 .. n : w[i] = buf[Place(r, i - 1)]
  BY <1>m, WindowSeq
<1>2. /\ v \in Seq(Data) /\ Len(v) = n - 1
      /\ \A i \in 1 .. n - 1 : v[i] = buf[Place(Inc(r), i - 1)]
  <2>1. PICK k \in Slots : k = Inc(r)
    BY <1>i
  <2>2. PICK m \in 0 .. MaxCount : m = n - 1
    BY <1>m
  <2>3. /\ Window(buf, k, m) \in Seq(Data) /\ Len(Window(buf, k, m)) = m
        /\ \A i \in 1 .. m : Window(buf, k, m)[i] = buf[Place(k, i - 1)]
    BY WindowSeq
  <2> QED BY <2>1, <2>2, <2>3
<1> HIDE DEF w, v
<1>3. w # <<>>
  BY <1>1, <1>m
<1>4. /\ t \in Seq(Data) /\ Len(t) = n - 1
      /\ \A i \in 1 .. Len(t) : t[i] = w[i + 1]
  BY <1>1, <1>3, HeadTailProperties
<1>h. Head(w) = w[1]
  BY <1>1, <1>3
<1> HIDE DEF t
<1>5. ASSUME NEW i \in 1 .. n - 1 PROVE t[i] = v[i]
  <2>1. t[i] = buf[Place(r, i)]
    <3>1. i + 1 \in 1 .. n /\ (i + 1) - 1 = i
      BY <1>m
    <3> QED BY <1>1, <1>4, <1>m, <3>1
  <2>2. Place(Inc(r), i - 1) = Place(r, i)
    BY <1>m, <1>i DEF Place
  <2> QED BY <1>2, <2>1, <2>2
<1>6. t = v
  BY <1>2, <1>4, <1>5, SeqEqual
<1>7. Place(r, 0) = r /\ w[1] = buf[Place(r, 0)]
  BY <1>1, <1>m DEF Place
<1> QED BY <1>3, <1>6, <1>7, <1>h DEF w, v, t

(* Writing behind the last element: the window grows to the right.         *)
LEMMA WindowAppend ==
    ASSUME NEW buf \in [Slots -> Data], NEW r \in Slots, NEW n \in 0 .. MaxCount - 1,
           NEW d \in Data
    PROVE  Append(Window(buf, r, n), d) = Window([buf EXCEPT ![Place(r, n)] = d], r, n + 1)
<1>m. MaxCount \in Nat \ {0} /\ n \in 0 .. MaxCount /\ n + 1 \in 0 .. MaxCount
      /\ r \in 0 .. MaxCount - 1 /\ n \in Nat
  BY CapacityAssumption DEF Slots
<1>p. Place(r, n) \in Slots
  BY <1>m DEF Place, Slots
<1> DEFINE b == [buf EXCEPT ![Place(r, n)] = d]
           w == Window(buf, r, n)
           v == Window(b, r, n + 1)
           a == Append(w, d)
<1>b. b \in [Slots -> Data] /\ b[Place(r, n)] = d
      /\ \A s \in Slots : s # Place(r, n) => b[s] = buf[s]
  BY <1>p
<1> HIDE DEF b
<1>1. /\ w \in Seq(Data) /\ Len(w) = n
      /\ \A i \in 1 .. n : Place(r, i - 1) \in Slots /\ w[i] = buf[Place(r, i - 1)]
  BY <1>m, WindowSeq
<1>2. /\ v \in Seq(Data) /\ Len(v) = n + 1
      /\ \A i \in 1 .. n + 1 : v[i] = b[Place(r, i - 1)]
  <2>1. PICK m \in 0 .. MaxCount : m = n + 1
    BY <1>m
  <2>2. b \in [Slots -> Data]
    BY <1>b
  <2>3. /\ Window(b, r, m) \in Seq(Data) /\ Len(Window(b, r, m)) = m
        /\ \A i \in 1 .. m : Window(b, r, m)[i] = b[Place(r, i - 1)]
    BY <2>2, WindowSeq
  <2> QED BY <2>1, <2>3
<1> HIDE DEF w, v
<1>3. /\ a \in Seq(Data) /\ Len(a) = n + 1
      /\ \A i \in 1 .. n : a[i] = w[i]
      /\ a[n + 1] = d
  BY <1>1, AppendProperties
<1> HIDE DEF a
<1>4. ASSUME NEW i \in 1 .. n + 1 PROVE a[i] = v[i]
  <2>1. CASE i = n + 1
    BY <1>m, <1>b, <1>2, <1>3, <2>1
  <2>2. CASE i \in 1 .. n
    <3>1. Place(r, i - 1) # Place(r, n)
      BY <1>m, <2>2 DEF Place
    <3> QED BY <1>b, <1>1, <1>2, <1>3, <2>2, <3>1
  <2> QED BY <1>m, <2>1, <2>2
<1>5. a = v
  BY <1>2, <1>3, <1>4, SeqEqual
<1> QED BY <1>5 DEF a, v, w, b

(* Writing before the first element: the window grows to the left.         *)
LEMMA WindowPrepend ==
    ASSUME NEW buf \in [Slots -> Data], NEW r \in Slots, NEW n \in 0 .. MaxCount - 1,
           NEW d \in Data
    PROVE  <<d>> \o Window(buf, r, n) = Window([buf EXCEPT ![Dec(r)] = d], Dec(r), n + 1)
<1>m. MaxCount \in Nat \ {0} /\ n \in 0 .. MaxCount /\ n + 1 \in 0 .. MaxCount
      /\ r \in 0 .. MaxCount - 1 /\ n \in Nat
  BY CapacityAssumption DEF Slots
<1>p. Dec(r) = (IF r = 0 THEN MaxCount - 1 ELSE r - 1) /\ Dec(r) \in Slots
  BY <1>m, DecSlot DEF Slots
<1> DEFINE b == [buf EXCEPT ![Dec(r)] = d]
           w == Window(buf, r, n)
           v == Window(b, Dec(r), n + 1)
           u == <<d>>
           a == u \o w
<1>b. b \in [Slots -> Data] /\ b[Dec(r)] = d
      /\ \A s \in Slots : s # Dec(r) => b[s] = buf[s]
  BY <1>p
<1> HIDE DEF b
<1>1. /\ w \in Seq(Data) /\ Len(w) = n
      /\ \A i \in 1 .. n : Place(r, i - 1) \in Slots /\ w[i] = buf[Place(r, i - 1)]
  BY <1>m, WindowSeq
<1>2. /\ v \in Seq(Data) /\ Len(v) = n + 1
      /\ \A i \in 1 .. n + 1 : v[i] = b[Place(Dec(r), i - 1)]
  <2>1. PICK m \in 0 .. MaxCount : m = n + 1
    BY <1>m
  <2>2. PICK k \in Slots : k = Dec(r)
    BY <1>p
  <2>3. b \in [Slots -> Data]
    BY <1>b
  <2>4. /\ Window(b, k, m) \in Seq(Data) /\ Len(Window(b, k, m)) = m
        /\ \A i \in 1 .. m : Window(b, k, m)[i] = b[Place(k, i - 1)]
    BY <2>3, WindowSeq
  <2> QED BY <2>1, <2>2, <2>4
<1>u. u \in Seq(Data) /\ Len(u) = 1 /\ u[1] = d
  OBVIOUS
<1> HIDE DEF w, v, u
<1>3. /\ a \in Seq(Data) /\ Len(a) = n + 1
      /\ a[1] = d /\ \A i \in 2 .. n + 1 : a[i] = w[i - 1]
  <2>1. /\ a \in Seq(Data) /\ Len(a) = Len(u) + Len(w)
        /\ \A i \in 1 .. Len(u) + Len(w) : a[i] = IF i <= Len(u) THEN u[i] ELSE w[i - Len(u)]
    BY <1>1, <1>u, ConcatProperties
  <2> HIDE DEF a
  <2>2. \A i \in 1 .. n + 1 : a[i] = IF i <= 1 THEN u[i] ELSE w[i - 1]
    BY <1>m, <1>1, <1>u, <2>1
  <2>3. Len(a) = n + 1
    BY <1>m, <1>1, <1>u, <2>1
  <2>4. 1 \in 1 .. n + 1 /\ \A i \in 2 .. n + 1 : i \in 1 .. n + 1 /\ ~(i <= 1)
    BY <1>m
  <2> QED BY <1>u, <2>1, <2>2, <2>3, <2>4
<1> HIDE DEF a
<1>4. ASSUME NEW i \in 1 .. n + 1 PROVE a[i] = v[i]
  <2>1. CASE i = 1
    <3>1. Place(Dec(r), 0) = Dec(r)
      BY <1>m, <1>p DEF Place
    <3> QED BY <1>m, <1>b, <1>2, <1>3, <2>1, <3>1
  <2>2. CASE i \in 2 .. n + 1
    <3>1. i - 1 \in 1 .. n /\ (i - 1) - 1 = i - 2
      BY <1>m, <2>2
    <3>2. Place(Dec(r), i - 1) = Place(r, i - 2) /\ Place(r, i - 2) # Dec(r)
      BY <1>m, <1>p, <2>2 DEF Place
    <3>3. a[i] = buf[Place(r, i - 2)] /\ Place(r, i - 2) \in Slots
      BY <1>1, <1>3, <2>2, <3>1
    <3>4. v[i] = b[Place(r, i - 2)]
      BY <1>2, <3>2
    <3> QED BY <1>b, <3>2, <3>3, <3>4
  <2> QED BY <1>m, <2>1, <2>2
<1>5. a = v
  BY <1>2, <1>3, <1>4, SeqEqual
<1> QED BY <1>5 DEF a, v, w, u, b

(* What overwriting one element leaves: in a sequence, in the ring's slots. *)
SetAt(a, w, n, j, d) ==
    a \in Seq(Data) /\ Len(a) = n /\ a[j] = d /\ \A i \in 1 .. n : i # j => a[i] = w[i]

StoredAt(b, buf, t, d) ==
    b \in [Slots -> Data] /\ b[t] = d /\ \A s \in Slots : s # t => b[s] = buf[s]

(* Overwriting one element of a window.                                    *)
LEMMA WindowStore ==
    ASSUME NEW buf \in [Slots -> Data], NEW r \in Slots, NEW n \in 1 .. MaxCount,
           NEW d \in Data, NEW j \in 1 .. n, NEW a, SetAt(a, Window(buf, r, n), n, j, d),
           NEW b, StoredAt(b, buf, Place(r, j - 1), d)
    PROVE  Window(b, r, n) = a
<1>m. MaxCount \in Nat \ {0} /\ n \in 0 .. MaxCount /\ r \in 0 .. MaxCount - 1
  BY CapacityAssumption DEF Slots
<1> DEFINE w == Window(buf, r, n)
           v == Window(b, r, n)
<1>n. n \in 0 .. MaxCount
  BY <1>m
<1>b. b \in [Slots -> Data]
  BY DEF StoredAt
<1>1. \A i \in 1 .. n : Place(r, i - 1) \in Slots /\ w[i] = buf[Place(r, i - 1)]
  BY <1>n, WindowSeq
<1>2. /\ v \in Seq(Data) /\ Len(v) = n
      /\ \A i \in 1 .. n : v[i] = b[Place(r, i - 1)]
  BY <1>n, <1>b, WindowSeq
<1>3. a \in Seq(Data) /\ Len(a) = n /\ a[j] = d /\ \A i \in 1 .. n : i # j => a[i] = w[i]
  BY DEF SetAt
<1>s. b[Place(r, j - 1)] = d /\ \A s \in Slots : s # Place(r, j - 1) => b[s] = buf[s]
  BY DEF StoredAt
<1> HIDE DEF w, v
<1>4. ASSUME NEW i \in 1 .. n PROVE v[i] = a[i]
  <2>1. CASE i = j
    BY <1>2, <1>3, <1>s, <2>1
  <2>2. CASE i # j
    <3>1. Place(r, i - 1) # Place(r, j - 1)
      BY <1>m, <2>2 DEF Place
    <3> QED BY <1>1, <1>2, <1>3, <1>s, <2>2, <3>1
  <2> QED BY <2>1, <2>2
<1>5. v = a
  BY <1>2, <1>3, <1>4, SeqEqual
<1> QED BY <1>5 DEF v

(* The opening of an insertion: what is left is what MakeRoom leaves.      *)
LEMMA RoomWindow ==
    ASSUME RingInv
    PROVE  /\ Contents \in Seq(Data) /\ Len(Contents) = count
           /\ Contents = Window(ring_buffer, next_read, count)
           /\ ReadAfterRoom \in Slots /\ CountAfterRoom \in 0 .. MaxCount - 1
           /\ next_write = Place(ReadAfterRoom, CountAfterRoom)
           /\ Deque!MakeRoom(Contents, MaxCount)
                 = Window(ring_buffer, ReadAfterRoom, CountAfterRoom)
<1>m. MaxCount \in Nat \ {0}
  BY CapacityAssumption
<1>t. /\ ring_buffer \in [Slots -> Data] /\ next_read \in Slots /\ count \in 0 .. MaxCount
      /\ next_read \in 0 .. MaxCount - 1
  BY DEF RingInv, TypeOK, Slots
<1>w. next_write = Place(next_read, count)
  BY <1>t, RingSlot DEF RingInv, CursorsAgree, Place
<1>1. Contents = Window(ring_buffer, next_read, count)
  BY DEF Contents, Window, Slot
<1>2. Contents \in Seq(Data) /\ Len(Contents) = count
  BY <1>1, <1>t, WindowSeq
<1>3. CASE count = MaxCount
  <2>1. ReadAfterRoom = Inc(next_read) /\ CountAfterRoom = count - 1
    BY <1>3 DEF ReadAfterRoom, CountAfterRoom, isFill
  <2>2. Inc(next_read) = (IF next_read = MaxCount - 1 THEN 0 ELSE next_read + 1)
        /\ Inc(next_read) \in Slots
    BY <1>m, <1>t, IncSlot DEF Slots
  <2>3. next_write = Place(ReadAfterRoom, CountAfterRoom)
    BY <1>3, <1>m, <1>t, <1>w, <2>1, <2>2 DEF Place
  <2>4. Tail(Contents) = Window(ring_buffer, Inc(next_read), count - 1)
    BY <1>1, <1>3, <1>m, <1>t, WindowTail
  <2>5. Deque!MakeRoom(Contents, MaxCount) = Tail(Contents)
    BY <1>2, <1>3 DEF Deque!MakeRoom
  <2> QED BY <1>1, <1>2, <1>3, <1>m, <2>1, <2>2, <2>3, <2>4, <2>5
<1>4. CASE count # MaxCount
  <2>1. ReadAfterRoom = next_read /\ CountAfterRoom = count
    BY <1>4 DEF ReadAfterRoom, CountAfterRoom, isFill
  <2>2. Deque!MakeRoom(Contents, MaxCount) = Contents
    BY <1>2, <1>4 DEF Deque!MakeRoom
  <2>3. count \in 0 .. MaxCount - 1
    BY <1>4, <1>m, <1>t
  <2> QED BY <1>1, <1>2, <1>t, <1>w, <2>1, <2>2, <2>3
<1> QED BY <1>3, <1>4

(* After a step the deque is the window of the new fields.                 *)
LEMMA ContentsNext == Contents' = Window(ring_buffer', next_read', count')
BY DEF Contents, Window, Slot

(* Inserting at the back: add, and addRaw with whatever the slot held.     *)
LEMMA InsertsBack ==
    ASSUME RingInv, NEW d \in Data, reply' = None,
           next_read' = ReadAfterRoom, count' = CountAfterRoom + 1,
           ring_buffer' = [ring_buffer EXCEPT ![next_write] = d]
    PROVE  Deque!InsertBack
<1>1. ring_buffer \in [Slots -> Data]
  BY DEF RingInv, TypeOK
<1>2. Contents' = Append(Window(ring_buffer, ReadAfterRoom, CountAfterRoom), d)
  BY <1>1, RoomWindow, ContentsNext, WindowAppend
<1>3. Contents' = Deque!PushBack(Contents, d, MaxCount)
  BY <1>2, RoomWindow DEF Deque!PushBack
<1> QED BY <1>3 DEF Deque!InsertBack

(* Inserting at the front: addFront, and addFrontRaw likewise.             *)
LEMMA InsertsFront ==
    ASSUME RingInv, NEW d \in Data, reply' = None,
           next_read' = Dec(ReadAfterRoom), count' = CountAfterRoom + 1,
           ring_buffer' = [ring_buffer EXCEPT ![Dec(ReadAfterRoom)] = d]
    PROVE  Deque!InsertFront
<1>1. ring_buffer \in [Slots -> Data]
  BY DEF RingInv, TypeOK
<1>2. Contents' = <<d>> \o Window(ring_buffer, ReadAfterRoom, CountAfterRoom)
  BY <1>1, RoomWindow, ContentsNext, WindowPrepend
<1>3. Contents' = Deque!PushFront(Contents, d, MaxCount)
  BY <1>2, RoomWindow DEF Deque!PushFront
<1> QED BY <1>3 DEF Deque!InsertFront

(* Taking an element: get and getRaw.                                      *)
LEMMA TakesFront ==
    ASSUME RingInv, get \/ getRaw
    PROVE  Deque!Remove \/ Deque!Refuse
<1>t. /\ ring_buffer \in [Slots -> Data] /\ next_read \in Slots /\ count \in 0 .. MaxCount
      /\ ring_buffer' = ring_buffer
  BY DEF RingInv, TypeOK, get, getRaw
<1>1. CASE count = 0
  <2>1. reply' = None /\ next_read' = next_read /\ count' = count
    BY <1>1 DEF get, getRaw
  <2>2. Contents' = Contents
    BY <1>t, <2>1, RoomWindow, ContentsNext
  <2> QED BY <2>1, <2>2 DEF Deque!Refuse
<1>2. CASE count # 0
  <2>1. reply' = ring_buffer[next_read] /\ next_read' = Inc(next_read) /\ count' = count - 1
    BY <1>2 DEF get, getRaw
  <2>2. count \in 1 .. MaxCount
    BY <1>2, <1>t, CapacityAssumption
  <2>3. /\ Contents # <<>> /\ Head(Contents) = ring_buffer[next_read]
        /\ Tail(Contents) = Window(ring_buffer, Inc(next_read), count - 1)
    BY <1>t, <2>2, RoomWindow, WindowTail
  <2>4. Contents' = Tail(Contents)
    BY <1>t, <2>1, <2>3, ContentsNext
  <2> QED BY <2>1, <2>3, <2>4 DEF Deque!Remove
<1> QED BY <1>1, <1>2

(* Copying the front element out: readonly.                                *)
LEMMA PeeksFront ==
    ASSUME RingInv, NEW index \in Slots, readonly(index)
    PROVE  Deque!Peek \/ Deque!Refuse
<1>t. /\ ring_buffer \in [Slots -> Data] /\ next_read \in Slots /\ count \in 0 .. MaxCount
      /\ UNCHANGED <<ring_buffer, next_read, count>> /\ index \in Nat
  BY CapacityAssumption DEF RingInv, TypeOK, readonly, Slots
<1>0. Contents' = Contents
  BY <1>t, RoomWindow, ContentsNext
<1>1. CASE count <= index
  BY <1>0, <1>1 DEF readonly, Deque!Refuse
<1>2. CASE ~(count <= index)
  <2>1. count \in 1 .. MaxCount
    BY <1>2, <1>t, CapacityAssumption
  <2>2. Contents # <<>> /\ Head(Contents) = ring_buffer[next_read]
    BY <1>t, <2>1, RoomWindow, WindowTail
  <2> QED BY <1>0, <1>2, <2>2 DEF readonly, Deque!Peek
<1> QED BY <1>1, <1>2

(* The caller stores into the slot it reserved: an end of the deque.       *)
LEMMA FillsEnd ==
    ASSUME RingInv, NEW d \in Data, fill(d)
    PROVE  Deque!FillEnd
<1>m. MaxCount \in Nat \ {0} /\ None \notin Data
  BY CapacityAssumption, DataAssumption
<1>t. /\ ring_buffer \in [Slots -> Data] /\ next_read \in Slots /\ count \in 0 .. MaxCount
      /\ UNCHANGED <<next_read, count>> /\ raw # None /\ next_read \in 0 .. MaxCount - 1
  BY DEF RingInv, TypeOK, fill, Slots
<1>1. count \in 1 .. MaxCount /\ raw \in {next_read, Slot(count - 1)}
  BY <1>m, <1>t DEF RingInv, ReservedIsAnEnd
<1>2. Slot(count - 1) = Place(next_read, count - 1) /\ next_read = Place(next_read, 1 - 1)
  <2>1. count - 1 \in 0 .. MaxCount
    BY <1>m, <1>1
  <2>2. Slot(count - 1) = Place(next_read, count - 1)
    BY <1>t, <2>1, RingSlot DEF Slot, Place
  <2>3. next_read = Place(next_read, 1 - 1)
    BY <1>m, <1>t DEF Place
  <2> QED BY <2>2, <2>3
<1>3. PICK j \in {1, count} : raw = Place(next_read, j - 1)
  BY <1>1, <1>2
<1>4. j \in 1 .. count /\ count \in 1 .. MaxCount
  BY <1>m, <1>1
<1>5. ring_buffer' = [ring_buffer EXCEPT ![Place(next_read, j - 1)] = d]
  BY <1>3 DEF fill
<1>6. Contents' = [Contents EXCEPT ![j] = d]
  <2> DEFINE w == Window(ring_buffer, next_read, count)
             a == [w EXCEPT ![j] = d]
  <2>1. w \in Seq(Data) /\ Len(w) = count /\ w = Contents
    BY RoomWindow
  <2> HIDE DEF w
  <2>2. /\ a \in Seq(Data) /\ Len(a) = count /\ a[j] = d
        /\ \A i \in 1 .. count : i # j => a[i] = w[i]
    BY <2>1, <1>4, ExceptSeq
  <2> HIDE DEF a
  <2>3. Window(ring_buffer', next_read, count) = a
    <3>1. Place(next_read, j - 1) \in Slots
      BY <1>m, <1>t, <1>4 DEF Place, Slots
    <3>2. /\ ring_buffer' \in [Slots -> Data] /\ ring_buffer'[Place(next_read, j - 1)] = d
          /\ \A s \in Slots : s # Place(next_read, j - 1) => ring_buffer'[s] = ring_buffer[s]
      BY <1>t, <1>5, <3>1
    <3>3. StoredAt(ring_buffer', ring_buffer, Place(next_read, j - 1), d)
      BY <3>2 DEF StoredAt
    <3>4. SetAt(a, Window(ring_buffer, next_read, count), count, j, d)
      BY <2>2 DEF SetAt, w
    <3>5. ring_buffer \in [Slots -> Data] /\ next_read \in Slots /\ count \in 1 .. MaxCount
      BY <1>t, <1>4
    <3>6. j \in 1 .. count
      BY <1>4
    <3>7. d \in Data
      OBVIOUS
    <3> HIDE DEF w
    <3> QED BY <3>3, <3>4, <3>5, <3>6, <3>7, WindowStore
  <2>4. Contents' = a
    BY <1>t, <2>3, ContentsNext
  <2> QED BY <2>1, <2>4 DEF a
<1>7. Len(Contents) = count /\ Contents # <<>>
  <2>1. Len(Contents) = count
    BY RoomWindow
  <2> QED BY <2>1, <1>4
<1>8. \E e \in Data, i \in {1, Len(Contents)} : Contents' = [Contents EXCEPT ![i] = e]
  BY <1>6, <1>7
<1> QED BY <1>7, <1>8 DEF Deque!FillEnd, fill

(* Each call of the ring is a call of the deque.                           *)
LEMMA StepRefines == RingInv /\ [Next]_vars => [Deque!DNext]_(Deque!dvars)
<1> SUFFICES ASSUME RingInv, [Next]_vars PROVE [Deque!DNext]_(Deque!dvars)
  OBVIOUS
<1>t. /\ ring_buffer \in [Slots -> Data] /\ next_write \in Slots
  BY DEF RingInv, TypeOK
<1>1. ASSUME NEW d \in Data, add(d) PROVE Deque!InsertBack
  BY <1>1, InsertsBack DEF add
<1>2. ASSUME NEW d \in Data, addFront(d) PROVE Deque!InsertFront
  BY <1>2, InsertsFront DEF addFront
<1>3. ASSUME addRaw PROVE Deque!InsertBack
  <2>1. ring_buffer[next_write] \in Data
    BY <1>t
  <2>2. ring_buffer' = [ring_buffer EXCEPT ![next_write] = ring_buffer[next_write]]
    BY <1>t, <1>3 DEF addRaw
  <2> QED BY <1>3, <2>1, <2>2, InsertsBack DEF addRaw
<1>4. ASSUME addFrontRaw PROVE Deque!InsertFront
  <2> DEFINE s == Dec(ReadAfterRoom)
  <2>0. s \in Slots
    BY <1>t, RoomWindow, DecSlot, CapacityAssumption DEF Slots
  <2>1. ring_buffer[s] \in Data
    BY <1>t, <2>0
  <2>2. ring_buffer' = [ring_buffer EXCEPT ![s] = ring_buffer[s]]
    BY <1>t, <1>4, <2>0 DEF addFrontRaw
  <2> QED BY <1>4, <2>1, <2>2, InsertsFront DEF addFrontRaw
<1>5. ASSUME clear PROVE Deque!Empty
  <2>1. Contents' = <<>>
    <3>1. count' = 0
      BY <1>5 DEF clear
    <3> QED BY <3>1, ContentsNext DEF Window
  <2> QED BY <1>5, <2>1 DEF clear, Deque!Empty
<1>6. CASE UNCHANGED vars
  <2>1. Contents' = Contents /\ reply' = reply
    BY <1>6, RoomWindow, ContentsNext DEF vars
  <2> QED BY <2>1 DEF Deque!dvars
<1> QED
  BY <1>1, <1>2, <1>3, <1>4, <1>5, <1>6, TakesFront, PeeksFront, FillsEnd
  DEF Next, Deque!DNext

(* The ring buffer implements the bounded deque, for every capacity that   *)
(* divides the word: whatever the sequence of calls, cursors and wrapped   *)
(* indices are invisible to a caller, and only an insertion into a full    *)
(* queue loses an element, the front one.                                  *)
THEOREM RingImplementsDeque == Spec => ImplementsDeque
<1>1. Init => Deque!DInit
  <2> SUFFICES ASSUME Init PROVE Contents = <<>> /\ reply = None
    BY DEF Deque!DInit
  <2>1. count = 0 /\ reply = None
    BY DEF Init
  <2> QED BY <2>1 DEF Contents
<1>2. Spec => []RingInv
  BY RingCorrect
<1>3. RingInv /\ [Next]_vars => [Deque!DNext]_(Deque!dvars)
  BY StepRefines
<1> QED BY <1>1, <1>2, <1>3, PTL DEF Spec, ImplementsDeque, Deque!DSpec
=============================================================================
