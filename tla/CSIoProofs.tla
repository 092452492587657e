------------------------------ MODULE CSIoProofs ------------------------------
(***************************************************************************)
(* CSIo for every size of the table, every width of the sequence byte and  *)
(* of the index, and every horizon of late datagrams: what the table holds *)
(* (TableInv), that no datagram is accepted twice while late copies stay   *)
(* within reach of the table (NoDuplicate), and why one is refused unseen  *)
(* (MissedOnlyByAlias).                                                    *)
(***************************************************************************)
EXTENDS CSIo, FiniteSetTheorems, SequenceTheorems, TLAPS

\* A datagram accepted later is at most Horizon - 1 older.
LateBounded ==
    /\ \A i \in 1 .. Len(accepted) : accepted[i] < made
    /\ \A i, j \in 1 .. Len(accepted) : i < j => accepted[j] >= accepted[i] + 1 - Horizon

\* A slot holds the byte of an accepted datagram, or still the initial one.
SlotsExplained ==
    \A s \in Slots : \/ s >= Len(accepted) /\ recv_sequence_map[s] = SeqMod - 1
                     \/ \E i \in 1 .. Len(accepted) :
                           recv_sequence_map[s] = SeqOf(accepted[i])

\* The inductive invariant.
IoInv == TableInv /\ LateBounded /\ SlotsExplained /\ NoDuplicate /\ MissedOnlyByAlias

-----------------------------------------------------------------------------
\* Division with remainder.
LEMMA DivMod ==
    ASSUME NEW m \in Nat \ {0}, NEW n \in Int
    PROVE  /\ n \div m \in Int /\ n % m \in 0 .. m - 1
           /\ n = m * (n \div m) + (n % m)
OBVIOUS

\* The only multiple of m between -m and m is 0.
LEMMA NoMultipleBetween ==
    ASSUME NEW m \in Nat \ {0}, NEW x \in Int, 0 - m < m * x, m * x < m
    PROVE  x = 0
OBVIOUS

\* The remainder is unique.
LEMMA ModUnique ==
    ASSUME NEW m \in Nat \ {0}, NEW q \in Int, NEW s \in 0 .. m - 1
    PROVE  (m * q + s) % m = s
<1> DEFINE n == m * q + s
<1>1. n \in Int /\ n = m * q + s
  OBVIOUS
<1> HIDE DEF n
<1> DEFINE d == n \div m
           t == n % m
<1>2. d \in Int /\ t \in 0 .. m - 1 /\ n = m * d + t
  BY <1>1, DivMod
<1> HIDE DEF d, t
<1>3. m * (q - d) = t - s
  BY <1>1, <1>2
<1>4. q - d = 0
  BY <1>2, <1>3, NoMultipleBetween
<1>5. t = s
  BY <1>2, <1>3, <1>4
<1> QED BY <1>5 DEF t, n

\* The uint8_t index selects the same slot as the count it stands for, because
\* the number of slots divides the number of its values.
LEMMA ModMod ==
    ASSUME NEW m \in Nat \ {0}, NEW k \in Nat \ {0}, k % m = 0, NEW n \in Nat
    PROVE  (n % k) % m = n % m
<1> DEFINE c == k \div m
           q == n \div k
           r == n % k
<1>1. c \in Int /\ k = m * c
  BY DivMod
<1>2. q \in Int /\ r \in 0 .. k - 1 /\ n = k * q + r
  BY DivMod
<1> HIDE DEF c, q, r
<1> DEFINE a == r \div m
           s == r % m
<1>3. a \in Int /\ s \in 0 .. m - 1 /\ r = m * a + s
  BY <1>2, DivMod
<1> HIDE DEF a, s
<1>4. n = m * (c * q + a) + s
  BY <1>1, <1>2, <1>3
<1>5. c * q + a \in Int
  BY <1>1, <1>2, <1>3
<1>6. n % m = s
  BY <1>3, <1>4, <1>5, ModUnique
<1> QED BY <1>6 DEF r, s

\* Counting on.
LEMMA ModSucc ==
    ASSUME NEW m \in Nat \ {0}, NEW n \in Nat
    PROVE  ((n % m) + 1) % m = (n + 1) % m
<1> DEFINE q == n \div m
           r == n % m
<1>1. q \in Int /\ r \in 0 .. m - 1 /\ n = m * q + r
  BY DivMod
<1> HIDE DEF q, r
<1>2. CASE r = m - 1
  <2>1. n + 1 = m * (q + 1) + 0 /\ r + 1 = m * 1 + 0 /\ q + 1 \in Int /\ 0 \in 0 .. m - 1
    BY <1>1, <1>2
  <2>2. (n + 1) % m = 0 /\ (r + 1) % m = 0
    BY <2>1, ModUnique
  <2> QED BY <2>2 DEF r
<1>3. CASE r # m - 1
  <2>1. n + 1 = m * q + (r + 1) /\ r + 1 = m * 0 + (r + 1) /\ r + 1 \in 0 .. m - 1
    BY <1>1, <1>3
  <2>2. (n + 1) % m = r + 1 /\ (r + 1) % m = r + 1
    BY <1>1, <2>1, ModUnique
  <2> QED BY <2>2 DEF r
<1> QED BY <1>2, <1>3

\* Two counts less than a turn apart select different slots.
LEMMA ModApart ==
    ASSUME NEW m \in Nat \ {0}, NEW x \in Int, NEW y \in Int, x < y, y < x + m
    PROVE  x % m # y % m
<1> SUFFICES ASSUME x % m = y % m PROVE FALSE
  OBVIOUS
<1> DEFINE p == x \div m
           q == y \div m
           r == x % m
<1>1. p \in Int /\ q \in Int /\ r \in 0 .. m - 1 /\ x = m * p + r /\ y = m * q + r
  BY DivMod
<1> HIDE DEF p, q, r
<1>2. y - x = m * (q - p)
  BY <1>1
<1>3. q - p = 0
  BY <1>1, <1>2, NoMultipleBetween
<1> QED BY <1>2, <1>3

\* Equal sequence bytes are whole turns apart.
LEMMA ModEqual ==
    ASSUME NEW m \in Nat \ {0}, NEW x \in Int, NEW y \in Int, x % m = y % m
    PROVE  (x - y) % m = 0
<1> DEFINE p == x \div m
           q == y \div m
           r == x % m
<1>1. p \in Int /\ q \in Int /\ r \in 0 .. m - 1 /\ x = m * p + r /\ y = m * q + r
  BY DivMod
<1> HIDE DEF p, q, r
<1>2. x - y = m * (p - q) + 0 /\ p - q \in Int /\ 0 \in 0 .. m - 1
  BY <1>1
<1> QED BY <1>2, ModUnique

-----------------------------------------------------------------------------
\* Before the first datagram.
LEMMA IoInvInit == Init => IoInv
<1> SUFFICES ASSUME Init PROVE IoInv
  OBVIOUS
<1>c. /\ MapCount \in Nat \ {0} /\ SeqMod \in Nat \ {0} /\ IndexMod \in Nat \ {0}
      /\ MaxMade \in Nat
  BY IoAssumption
<1>1. accepted = <<>> /\ Len(accepted) = 0 /\ <<>> \in Seq(0 .. MaxMade - 1)
  BY EmptySeq DEF Init
<1>2. TypeOK
  BY <1>c, <1>1 DEF Init, TypeOK
<1>3. MapHoldsLastAccepted
  <2>1. 0 % IndexMod = 0
    BY <1>c
  <2> QED BY <1>1, <2>1 DEF Init, MapHoldsLastAccepted
<1>4. LateBounded /\ NoDuplicate
  BY <1>1 DEF LateBounded, NoDuplicate
<1>5. SlotsExplained
  BY <1>c, <1>1 DEF Init, SlotsExplained, Slots
<1>6. MissedOnlyByAlias
  BY DEF Init, MissedOnlyByAlias
<1> QED BY <1>2, <1>3, <1>4, <1>5, <1>6 DEF IoInv, TableInv

\* A step that accepts nothing and refuses at most what is explained.
LEMMA QuietStep ==
    ASSUME IoInv, TypeOK', made' >= made, MissedOnlyByAlias',
           UNCHANGED <<recv_next_map_index, recv_sequence_map, first, accepted>>
    PROVE  IoInv'
<1>t. accepted \in Seq(0 .. MaxMade - 1) /\ made \in Int /\ made' \in Int
      /\ \A i \in 1 .. Len(accepted) : accepted[i] \in Int
  BY IoAssumption DEF IoInv, TableInv, TypeOK
<1>1. MapHoldsLastAccepted'
  BY DEF IoInv, TableInv, MapHoldsLastAccepted, SeqOf
<1>2. LateBounded'
  BY <1>t DEF IoInv, LateBounded
<1>3. NoDuplicate' /\ SlotsExplained'
  BY DEF IoInv, NoDuplicate, SlotsExplained, SeqOf
<1> QED BY <1>1, <1>2, <1>3 DEF IoInv, TableInv

\* The slot of the next datagram is the one of the count of accepted ones.
LEMMA NextSlotIsCount ==
    ASSUME TableInv PROVE NextSlot = Len(accepted) % MapCount /\ NextSlot \in Slots
<1>c. /\ MapCount \in Nat \ {0} /\ IndexMod \in Nat \ {0} /\ IndexMod % MapCount = 0
  BY IoAssumption
<1>1. Len(accepted) \in Nat
  BY DEF TableInv, TypeOK
<1>2. recv_next_map_index = Len(accepted) % IndexMod
  BY DEF TableInv, MapHoldsLastAccepted
<1>3. (Len(accepted) % IndexMod) % MapCount = Len(accepted) % MapCount
  BY <1>c, <1>1, ModMod
<1>4. Len(accepted) % MapCount \in 0 .. MapCount - 1
  BY <1>c, <1>1, DivMod
<1> QED BY <1>2, <1>3, <1>4 DEF NextSlot, Slots

\* No copy of an accepted datagram is effective while the horizon is within
\* reach of the table: more than MapCount datagrams accepted since would have
\* to be different and all within the horizon of it.
LEMMA CopyIsRefused ==
    ASSUME IoInv, 2 * (Horizon - 1) < MapCount, NEW n \in Int, n < made, made - Horizon <= n,
           isEffective(SeqOf(n)), NEW i \in 1 .. Len(accepted), accepted[i] = n
    PROVE  FALSE
<1>c. MapCount \in Nat \ {0} /\ Horizon \in Nat \ {0} /\ MaxMade \in Nat
  BY IoAssumption
<1>t. /\ accepted \in Seq(0 .. MaxMade - 1) /\ made \in Int /\ Len(accepted) \in Nat
      /\ \A k \in 1 .. Len(accepted) : accepted[k] \in Int
  BY <1>c DEF IoInv, TableInv, TypeOK
<1> DEFINE L == Len(accepted)
<1>1. L >= i + MapCount
  <2> SUFFICES ASSUME L < i + MapCount PROVE FALSE
    BY <1>c, <1>t
  <2>1. recv_sequence_map[(i - 1) % MapCount] = SeqOf(n)
    BY DEF IoInv, TableInv, MapHoldsLastAccepted
  <2>2. i - 1 \in Int
    BY <1>t
  <2>3. (i - 1) % MapCount \in Slots
    BY <1>c, <2>2, DivMod DEF Slots
  <2> QED BY <2>1, <2>3 DEF isEffective
<1> DEFINE S == i .. L
           T == n + 1 - Horizon .. n + Horizon - 1
           f == [k \in S |-> accepted[k]]
<1>2. ASSUME NEW k \in S PROVE accepted[k] \in T
  <2>1. k \in 1 .. Len(accepted) /\ (k = i \/ i < k)
    BY <1>t, <1>c
  <2>2. accepted[k] < made /\ accepted[k] \in Int
    BY <1>t, <2>1 DEF IoInv, LateBounded
  <2>3. accepted[k] >= n + 1 - Horizon
    BY <1>c, <1>t, <2>1, <2>2 DEF IoInv, LateBounded
  <2>4. n \in Int /\ made \in Int /\ Horizon \in Int /\ made - Horizon <= n
    BY <1>c, <1>t
  <2> QED BY <2>2, <2>3, <2>4
<1>3. f \in [S -> T]
  BY <1>2
<1>4. IsFiniteSet(S) /\ Cardinality(S) = L - i + 1
  BY <1>1, <1>c, <1>t, FS_Interval
<1>5. IsFiniteSet(T) /\ Cardinality(T) = 2 * Horizon - 1
  <2>1. n + 1 - Horizon \in Int /\ n + Horizon - 1 \in Int
    BY <1>c
  <2>2. IsFiniteSet(T) /\ Cardinality(T) = IF n + 1 - Horizon > n + Horizon - 1 THEN 0
                               ELSE (n + Horizon - 1) - (n + 1 - Horizon) + 1
    BY <2>1, FS_Interval
  <2> QED BY <1>c, <2>2
<1>6. Cardinality(T) < Cardinality(S)
  BY <1>1, <1>4, <1>5, <1>c, <1>t
<1>7. PICK x, y \in S : x # y /\ f[x] = f[y]
  <2> HIDE DEF S, T, f
  <2> QED BY <1>3, <1>4, <1>5, <1>6, FS_PigeonHole
<1>8. x \in 1 .. L /\ y \in 1 .. L /\ accepted[x] = accepted[y]
  BY <1>7, <1>t
<1> QED BY <1>7, <1>8 DEF IoInv, NoDuplicate

\* CSIo_read accepts a datagram.
LEMMA AcceptStep ==
    ASSUME IoInv, NEW n \in 0 .. MaxMade - 1, read(n), isEffective(SeqOf(n))
    PROVE  IoInv'
<1>c. /\ MapCount \in Nat \ {0} /\ SeqMod \in Nat \ {0} /\ IndexMod \in Nat \ {0}
      /\ MaxMade \in Nat /\ Horizon \in Nat \ {0}
  BY IoAssumption
<1> DEFINE L == Len(accepted)
<1>t. /\ TypeOK /\ accepted \in Seq(0 .. MaxMade - 1) /\ made \in Int /\ L \in Nat /\ n \in Int
      /\ \A k \in 1 .. L : accepted[k] \in Int
      /\ first \in Int /\ recv_sequence_map \in [Slots -> 0 .. SeqMod - 1]
  BY <1>c DEF IoInv, TableInv, TypeOK
<1>r. /\ n < made /\ made - Horizon <= n
      /\ recv_sequence_map' = [recv_sequence_map EXCEPT ![NextSlot] = SeqOf(n)]
      /\ recv_next_map_index' = (recv_next_map_index + 1) % IndexMod
      /\ accepted' = Append(accepted, n)
      /\ UNCHANGED <<missed, send_sequence, first, made>>
  BY DEF read
<1>s. NextSlot = L % MapCount /\ NextSlot \in Slots
  BY NextSlotIsCount DEF IoInv
<1>q. SeqOf(n) \in 0 .. SeqMod - 1
  BY <1>c, <1>t, DivMod DEF SeqOf
<1>a. /\ accepted' \in Seq(0 .. MaxMade - 1) /\ Len(accepted') = L + 1
      /\ accepted'[L + 1] = n /\ \A k \in 1 .. L : accepted'[k] = accepted[k]
  BY <1>t, <1>r, AppendProperties
<1>m. /\ recv_sequence_map' \in [Slots -> 0 .. SeqMod - 1]
      /\ recv_sequence_map'[NextSlot] = SeqOf(n)
      /\ \A s \in Slots : s # NextSlot => recv_sequence_map'[s] = recv_sequence_map[s]
  BY <1>t, <1>r, <1>s, <1>q
<1>g. first' = first /\ made' = made /\ missed' = missed
  BY <1>r
<1>k. \A k \in 1 .. L + 1 : k = L + 1 \/ k \in 1 .. L
  BY <1>t
<1> HIDE DEF L
<1>1. TypeOK'
  <2>1. recv_next_map_index \in Int
    BY <1>c DEF IoInv, TableInv, TypeOK
  <2>2. recv_next_map_index' \in 0 .. IndexMod - 1
    BY <1>c, <1>r, <2>1, DivMod
  <2> QED BY <1>t, <1>r, <1>a, <1>m, <2>2 DEF TypeOK
<1>2. MapHoldsLastAccepted'
  <2>1. recv_next_map_index' = (L + 1) % IndexMod
    <3>1. recv_next_map_index = L % IndexMod
      BY DEF IoInv, TableInv, MapHoldsLastAccepted, L
    <3>2. ((L % IndexMod) + 1) % IndexMod = (L + 1) % IndexMod
      BY <1>c, <1>t, ModSucc
    <3> QED BY <1>r, <3>1, <3>2
  <2>2. ASSUME NEW i \in 1 .. L + 1, L + 1 < i + MapCount
        PROVE  recv_sequence_map'[(i - 1) % MapCount] = (first + accepted'[i]) % SeqMod
    <3>1. CASE i = L + 1
      <4>1. (i - 1) % MapCount = NextSlot
        BY <1>s, <1>t, <3>1
      <4> QED BY <1>m, <1>a, <3>1, <4>1 DEF SeqOf
    <3>2. CASE i \in 1 .. L
      <4>1. (i - 1) % MapCount # L % MapCount
        <5>1. i - 1 \in Int /\ L \in Int /\ i - 1 < L /\ L < (i - 1) + MapCount
          BY <1>c, <1>t, <2>2, <3>2
        <5> QED BY <1>c, <5>1, ModApart
      <4>2. (i - 1) % MapCount \in Slots
        <5>1. i - 1 \in Int
          BY <1>t, <3>2
        <5> QED BY <1>c, <5>1, DivMod DEF Slots
      <4>3. recv_sequence_map[(i - 1) % MapCount] = SeqOf(accepted[i])
        BY <1>c, <1>t, <2>2, <3>2 DEF IoInv, TableInv, MapHoldsLastAccepted, L
      <4> QED BY <1>m, <1>s, <1>a, <3>2, <4>1, <4>2, <4>3 DEF SeqOf
    <3> QED BY <1>k, <3>1, <3>2
  <2> QED BY <1>a, <1>g, <2>1, <2>2 DEF MapHoldsLastAccepted, SeqOf
<1>3. LateBounded'
  <2>1. \A i \in 1 .. L + 1 : accepted'[i] < made
    BY <1>a, <1>k, <1>r DEF IoInv, LateBounded, L
  <2>2. ASSUME NEW i \in 1 .. L + 1, NEW j \in 1 .. L + 1, i < j
        PROVE  accepted'[j] >= accepted'[i] + 1 - Horizon
    <3>1. i \in 1 .. L
      BY <1>t, <2>2
    <3>2. CASE j = L + 1
      <4>1. accepted[i] < made /\ accepted[i] \in Int
        BY <1>t, <3>1 DEF IoInv, LateBounded, L
      <4>2. accepted'[i] = accepted[i] /\ accepted'[j] = n
        BY <1>a, <3>1, <3>2
      <4>3. n \in Int /\ made \in Int /\ Horizon \in Int /\ made - Horizon <= n
        BY <1>c, <1>r, <1>t
      <4> QED BY <4>1, <4>2, <4>3
    <3>3. CASE j \in 1 .. L
      BY <1>a, <2>2, <3>1, <3>3 DEF IoInv, LateBounded, L
    <3> QED BY <1>k, <3>2, <3>3
  <2> QED BY <1>a, <1>g, <2>1, <2>2 DEF LateBounded
<1>4. SlotsExplained'
  <2> SUFFICES ASSUME NEW s \in Slots
               PROVE  \/ s >= L + 1 /\ recv_sequence_map'[s] = SeqMod - 1
                      \/ \E i \in 1 .. L + 1 :
                            recv_sequence_map'[s] = (first + accepted'[i]) % SeqMod
    BY <1>a, <1>g DEF SlotsExplained, SeqOf
  <2>1. CASE s = NextSlot
    <3>1. L + 1 \in 1 .. L + 1
      BY <1>t
    <3> QED BY <1>m, <1>a, <2>1, <3>1 DEF SeqOf
  <2>2. CASE s # NextSlot /\ s >= L /\ recv_sequence_map[s] = SeqMod - 1
    <3>1. s # L
      <4> SUFFICES ASSUME s = L PROVE FALSE
        OBVIOUS
      <4>1. L \in 0 .. MapCount - 1 /\ L = MapCount * 0 + L
        BY <1>c DEF Slots
      <4>2. L % MapCount = L
        BY <1>c, <4>1, ModUnique
      <4> QED BY <1>s, <2>2, <4>2
    <3>2. s \in Int
      BY <1>c DEF Slots
    <3> QED BY <1>m, <1>t, <2>2, <3>1, <3>2
  <2>3. CASE s # NextSlot /\ \E i \in 1 .. L : recv_sequence_map[s] = SeqOf(accepted[i])
    <3>1. PICK i \in 1 .. L : recv_sequence_map[s] = SeqOf(accepted[i])
      BY <2>3
    <3>2. i \in 1 .. L + 1 /\ accepted'[i] = accepted[i]
      BY <1>a, <1>t
    <3> QED BY <1>m, <2>3, <3>1, <3>2 DEF SeqOf
  <2> QED BY <2>1, <2>2, <2>3 DEF IoInv, SlotsExplained, L
<1>5. NoDuplicate'
  <2> SUFFICES ASSUME 2 * (Horizon - 1) < MapCount,
                      NEW i \in 1 .. L + 1, NEW j \in 1 .. L + 1, accepted'[i] = accepted'[j]
               PROVE  i = j
    BY <1>a DEF NoDuplicate
  <2>1. \A k \in 1 .. L : accepted[k] # n
    BY <1>r, <1>t, CopyIsRefused DEF L
  <2>2. CASE i \in 1 .. L /\ j \in 1 .. L
    BY <1>a, <2>2 DEF IoInv, NoDuplicate, L
  <2> QED BY <1>a, <1>k, <2>1, <2>2
<1>6. MissedOnlyByAlias'
  <2> DEFINE A == Accepted
  <2>1. A \subseteq Accepted'
    <3>1. \A k \in 1 .. L : k \in 1 .. L + 1
      BY <1>t
    <3> QED BY <1>a, <3>1 DEF Accepted, L
  <2>2. \A m \in missed : \/ (first + m[1]) % SeqMod = SeqMod - 1 /\ m[2] < MapCount
                          \/ \E x \in A : x # m[1] /\ (m[1] - x) % SeqMod = 0
    BY DEF IoInv, MissedOnlyByAlias, SeqOf
  <2> HIDE DEF A
  <2>3. \A m \in missed : \/ (first + m[1]) % SeqMod = SeqMod - 1 /\ m[2] < MapCount
                          \/ \E x \in Accepted' : x # m[1] /\ (m[1] - x) % SeqMod = 0
    BY <2>1, <2>2, Zenon
  <2> QED BY <1>g, <2>3, Zenon DEF MissedOnlyByAlias, SeqOf
<1> QED BY <1>1, <1>2, <1>3, <1>4, <1>5, <1>6 DEF IoInv, TableInv

\* CSIo_read refuses a datagram: its byte is in a slot, and the slot is
\* explained.
LEMMA RefuseStep ==
    ASSUME IoInv, NEW n \in 0 .. MaxMade - 1, read(n), ~isEffective(SeqOf(n))
    PROVE  IoInv'
<1>c. MapCount \in Nat \ {0} /\ SeqMod \in Nat \ {0} /\ MaxMade \in Nat
  BY IoAssumption
<1>t. /\ TypeOK /\ accepted \in Seq(0 .. MaxMade - 1) /\ Len(accepted) \in Nat /\ n \in Int
      /\ \A k \in 1 .. Len(accepted) : accepted[k] \in Int
      /\ first \in Int /\ made \in Int
  BY <1>c DEF IoInv, TableInv, TypeOK
<1>r. /\ missed' = IF n \in Accepted THEN missed ELSE missed \cup {<<n, Len(accepted)>>}
      /\ UNCHANGED <<recv_sequence_map, recv_next_map_index, accepted>>
      /\ UNCHANGED <<send_sequence, first, made>>
  BY DEF read
<1>1. TypeOK'
  <2>1. missed' \subseteq (0 .. MaxMade - 1) \X Nat
    BY <1>t, <1>r DEF TypeOK
  <2> QED BY <1>t, <1>r, <2>1 DEF TypeOK
<1>2. MissedOnlyByAlias'
  <2>1. ASSUME n \notin Accepted
        PROVE  \/ SeqOf(n) = SeqMod - 1 /\ Len(accepted) < MapCount
               \/ \E a \in Accepted : a # n /\ (n - a) % SeqMod = 0
    <3>1. PICK s \in Slots : recv_sequence_map[s] = SeqOf(n)
      BY DEF isEffective
    <3>2. CASE s >= Len(accepted) /\ recv_sequence_map[s] = SeqMod - 1
      BY <1>c, <1>t, <3>1, <3>2 DEF Slots
    <3>3. CASE \E i \in 1 .. Len(accepted) : recv_sequence_map[s] = SeqOf(accepted[i])
      <4>1. PICK i \in 1 .. Len(accepted) : recv_sequence_map[s] = SeqOf(accepted[i])
        BY <3>3
      <4>2. accepted[i] \in Accepted /\ accepted[i] \in Int
        BY <1>t DEF Accepted
      <4>3. (first + n) % SeqMod = (first + accepted[i]) % SeqMod
        BY <3>1, <4>1 DEF SeqOf
      <4>4. ((first + n) - (first + accepted[i])) % SeqMod = 0
        <5>1. first + n \in Int /\ first + accepted[i] \in Int
          BY <1>t, <4>2
        <5> QED BY <1>c, <4>3, <5>1, ModEqual
      <4>5. (first + n) - (first + accepted[i]) = n - accepted[i]
        BY <1>t, <4>2
      <4>6. (n - accepted[i]) % SeqMod = 0
        BY <4>4, <4>5
      <4> QED BY <2>1, <4>2, <4>6
    <3> QED BY <3>2, <3>3 DEF IoInv, SlotsExplained
  <2>2. \A m : m = <<n, Len(accepted)>> => m[1] = n /\ m[2] = Len(accepted)
    OBVIOUS
  <2>3. \A m \in missed : \/ SeqOf(m[1]) = SeqMod - 1 /\ m[2] < MapCount
                          \/ \E a \in Accepted : a # m[1] /\ (m[1] - a) % SeqMod = 0
    BY DEF IoInv, MissedOnlyByAlias
  <2>4. \A m \in missed' : \/ SeqOf(m[1]) = SeqMod - 1 /\ m[2] < MapCount
                           \/ \E a \in Accepted : a # m[1] /\ (m[1] - a) % SeqMod = 0
    <3> SUFFICES ASSUME NEW m \in missed'
                 PROVE  \/ SeqOf(m[1]) = SeqMod - 1 /\ m[2] < MapCount
                        \/ \E a \in Accepted : a # m[1] /\ (m[1] - a) % SeqMod = 0
      OBVIOUS
    <3>1. CASE m \in missed
      BY <2>3, <3>1, Zenon
    <3>2. CASE n \notin Accepted /\ m = <<n, Len(accepted)>>
      BY <2>1, <2>2, <3>2, Zenon
    <3> QED BY <1>r, <3>1, <3>2
  <2>5. Accepted' = Accepted
    BY <1>r DEF Accepted
  <2> QED BY <1>r, <2>4, <2>5 DEF MissedOnlyByAlias, SeqOf
<1> QED BY <1>1, <1>2, <1>r, <1>t, QuietStep

\* The inductive step.
LEMMA IoInvInductive == IoInv /\ [Next]_vars => IoInv'
<1> SUFFICES ASSUME IoInv, [Next]_vars PROVE IoInv'
  OBVIOUS
<1>c. SeqMod \in Nat \ {0} /\ MaxMade \in Nat
  BY IoAssumption
<1>t. TypeOK /\ made \in Int /\ MissedOnlyByAlias
  BY <1>c DEF IoInv, TableInv, TypeOK
<1>1. ASSUME gatewaySends PROVE IoInv'
  <2>1. TypeOK' /\ made' >= made
    BY <1>1, <1>c, <1>t DEF gatewaySends, TypeOK
  <2>2. MissedOnlyByAlias'
    BY <1>1, <1>t DEF gatewaySends, MissedOnlyByAlias, SeqOf, Accepted
  <2> QED BY <1>1, <2>1, <2>2, QuietStep DEF gatewaySends
<1>2. ASSUME send PROVE IoInv'
  <2>1. send_sequence' \in 0 .. SeqMod - 1
    BY <1>2, <1>c, <1>t, DivMod DEF send, TypeOK
  <2>2. TypeOK' /\ made' >= made
    BY <1>2, <1>t, <2>1 DEF send, TypeOK
  <2>3. MissedOnlyByAlias'
    BY <1>2, <1>t DEF send, MissedOnlyByAlias, SeqOf, Accepted
  <2> QED BY <1>2, <2>2, <2>3, QuietStep DEF send
<1>3. ASSUME NEW n \in 0 .. MaxMade - 1, read(n) PROVE IoInv'
  BY <1>3, AcceptStep, RefuseStep
<1>4. CASE UNCHANGED vars
  <2>1. TypeOK' /\ made' >= made
    BY <1>4, <1>t DEF vars, TypeOK
  <2>2. MissedOnlyByAlias'
    BY <1>4, <1>t DEF vars, MissedOnlyByAlias, SeqOf, Accepted
  <2> QED BY <1>4, <2>1, <2>2, QuietStep DEF vars
<1> QED BY <1>1, <1>2, <1>3, <1>4 DEF Next

\* The invariant holds always.
LEMMA IoInvAlways == Spec => []IoInv
<1>1. Init => IoInv
  BY IoInvInit
<1>2. IoInv /\ [Next]_vars => IoInv'
  BY IoInvInductive
<1> QED BY <1>1, <1>2, PTL DEF Spec

\* The table holds the bytes of exactly the last MapCount accepted datagrams,
\* slot by slot, however often the uint8_t index has wrapped, whenever the
\* number of slots divides the number of its values.
THEOREM TableCorrect == Spec => []TableInv
<1>1. IoInv => TableInv
  BY DEF IoInv
<1> QED BY <1>1, IoInvAlways, PTL

\* No datagram is handed to the callbacks twice if the table has more slots
\* than twice the delay of a copy: for every order in which the network
\* delivers, repeats and loses datagrams.
THEOREM NeverTwice == Spec => []NoDuplicate
<1>1. IoInv => NoDuplicate
  BY DEF IoInv
<1> QED BY <1>1, IoInvAlways, PTL

\* The two ways in which a datagram is refused although it is new.
THEOREM RefusedOnlyByAlias == Spec => []MissedOnlyByAlias
<1>1. IoInv => MissedOnlyByAlias
  BY DEF IoInv
<1> QED BY <1>1, IoInvAlways, PTL
=============================================================================
