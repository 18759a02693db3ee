--------------------------- MODULE ShlRing_proof ---------------------------
(***************************************************************************)
(* Proofs about ShlRing: for every width of size_t, every MinSize and      *)
(* every history of calls, the ring keeps its data inside its buffer,      *)
(* never hands out an uninitialised cell and implements FifoQueue.         *)
(***************************************************************************)
EXTENDS ShlRing, TLAPS, WellFoundedInduction, SequenceTheorems

\* The remainder RING_MASK takes is at most one subtraction away.
LEMMA ModOnce ==
    \A n \in Nat \ {0}, v \in Nat :
        v < 2 * n => v % n = IF v < n THEN v ELSE v - n
<1> SUFFICES ASSUME NEW n \in Nat \ {0}, NEW v \in Nat, v < 2 * n
             PROVE  v % n = IF v < n THEN v ELSE v - n
  OBVIOUS
<1>1. CASE v < n
  BY <1>1, SMT
<1>2. CASE v >= n
  <2>1. /\ v % n \in 0..(n - 1)
        /\ v = n * (v \div n) + (v % n)
        /\ v \div n \in Int
    BY SMT
  <2>2. v \div n = 1
    BY <1>2, <2>1, SMT
  <2> QED BY <1>2, <2>1, <2>2, SMT
<1> QED BY <1>1, <1>2

\* SHL_ALIGN_POWER2 returns a power of two with room for u bytes, or 0.
LEMMA AlignPower2Rounds ==
    ASSUME NEW u \in Nat
    PROVE  \/ AlignPower2(u) = 0
           \/ AlignPower2(u) \in Powers /\ u <= AlignPower2(u)
<1>1. CASE \E p \in Powers : u <= p
  <2> DEFINE T == {p \in Powers : u <= p}
             R == OpToRel(<, Nat)
  <2>1. T # {} /\ T \subseteq Nat
    BY <1>1, RingAssumption
  <2>2. \E p \in T : \A q \in T : <<q, p>> \notin R
    <3> HIDE DEF T
    <3> QED BY <2>1, NatLessThanWellFounded, WFMin, Zenon
  <2>3. PICK p \in T : \A q \in T : <<q, p>> \notin R
    BY <2>2
  <2>4. R = {ss \in Nat \X Nat : ss[1] < ss[2]}
    BY Zenon DEF OpToRel
  <2>5. \A q \in T : ~(q < p)
    <3> SUFFICES ASSUME NEW q \in T, q < p
                 PROVE  FALSE
      OBVIOUS
    <3>1. q \in Nat /\ p \in Nat
      BY <2>1
    <3>2. <<q, p>> \in {ss \in Nat \X Nat : ss[1] < ss[2]}
      BY <3>1, SMT
    <3> HIDE DEF R, T
    <3> QED BY <2>3, <2>4, <3>2, Zenon
  <2>6. p \in Powers /\ u <= p /\ \A q \in Powers : u <= q => p <= q
    BY <2>5, RingAssumption
  <2> QED BY <1>1, <2>6 DEF AlignPower2
<1>2. CASE ~ \E p \in Powers : u <= p
  BY <1>2 DEF AlignPower2
<1> QED BY <1>1, <1>2

-----------------------------------------------------------------------------
\* The inductive invariant: types, bounds, and no uninitialised cell in use.
\* Each needs the other two: a cell is known to be in the buffer only because
\* of the bounds, and the mask is a remainder only because of the type.
IInv == TypeOK /\ DataInBuffer /\ NothingInvented

LEMMA SizeIsNat ==
    ASSUME TypeOK, DataInBuffer
    PROVE  /\ size \in Nat /\ start \in Nat /\ used \in Nat
           /\ TopPower \in Nat \ {0}
           /\ used <= size /\ size <= TopPower
           /\ size # 0 => start < size
           /\ size = 0 => start = 0 /\ used = 0
BY RingAssumption, SMT DEF TypeOK, DataInBuffer, SizeT

\* What ring_grow asks for: a power of two that holds the data and the piece.
LEMMA GrownHolds ==
    ASSUME TypeOK, DataInBuffer, NEW add \in 1..MaxChunk,
           GrownSize(add) # 0
    PROVE  GrownSize(add) \in Powers /\ used + add <= GrownSize(add)
<1> DEFINE need == (used + add) % SizeT
           ask == IF need < MinSize THEN MinSize ELSE need
<1>1. /\ used \in Nat /\ used < SizeT /\ add \in Nat /\ add < SizeT /\ add > 0
      /\ SizeT \in Nat \ {0} /\ MinSize \in Nat
  BY SizeIsNat, RingAssumption, SMT DEF SizeT
<1>2. need = IF used + add < SizeT THEN used + add ELSE (used + add) - SizeT
  <2>1. used + add \in Nat /\ used + add < 2 * SizeT
    BY <1>1, SMT
  <2> QED BY <1>1, <2>1, ModOnce, Zenon
<1>3. need \in Nat /\ ask \in Nat
  <2> HIDE DEF need
  <2> QED BY <1>1, <1>2, SMT
<1>4. need > used /\ GrownSize(add) = AlignPower2(ask)
  <2>1. GrownSize(add) = IF need <= used THEN 0 ELSE AlignPower2(ask)
    BY DEF GrownSize
  <2> HIDE DEF need, ask
  <2> QED BY <2>1, <1>1, <1>3, SMT
<1>5. need = used + add /\ ask >= used + add
  <2> HIDE DEF need
  <2> QED BY <1>1, <1>2, <1>4, SMT
<1>6. AlignPower2(ask) \in Powers /\ ask <= AlignPower2(ask)
  <2> HIDE DEF ask
  <2> QED BY <1>3, <1>4, AlignPower2Rounds
<1>7. AlignPower2(ask) \in Nat
  BY <1>6, RingAssumption
<1> QED
  <2> HIDE DEF ask, need
  <2> QED BY <1>1, <1>3, <1>4, <1>5, <1>6, <1>7, SMT

-----------------------------------------------------------------------------
\* One lemma per operation: the invariant survives it, and what it does to
\* the bytes the ring holds, cell by cell.

LEMMA InitInv == Init => IInv
BY RingAssumption, SMT
   DEF Init, IInv, TypeOK, DataInBuffer, NothingInvented, SizeT

LEMMA FlushInv == IInv /\ (Flush \/ Clear) => IInv' /\ used' = 0
<1> SUFFICES ASSUME IInv, Flush \/ Clear PROVE IInv' /\ used' = 0
  OBVIOUS
<1>1. CASE Flush
  BY <1>1, SizeIsNat, RingAssumption, SMT
     DEF Flush, IInv, TypeOK, DataInBuffer, NothingInvented, SizeT
<1>2. CASE Clear
  BY <1>2, SizeIsNat, RingAssumption, SMT
     DEF Clear, IInv, TypeOK, DataInBuffer, NothingInvented, SizeT
<1> QED BY <1>1, <1>2

LEMMA CopyInv ==
    ASSUME IInv, NEW n \in 0..MaxChunk, Copy(n)
    PROVE  IInv'
<1>1. out' \in Seq(Byte \cup {Junk})
  <2> DEFINE k == IF n > used THEN used ELSE n
  <2>1. k \in Nat /\ k <= used
    BY SizeIsNat, SMT DEF IInv
  <2>2. \A i \in 1..k : Cell(i - 1) \in Byte
    <3> HIDE DEF k
    <3> QED BY <2>1, SizeIsNat, SMT DEF IInv, NothingInvented
  <2>3. out' = [i \in 1..k |-> Cell(i - 1)]
    BY DEF Copy
  <2> HIDE DEF k
  <2> QED BY <2>1, <2>2, <2>3, SMT
<1> QED BY <1>1 DEF Copy, IInv, TypeOK, DataInBuffer, NothingInvented, Cell

LEMMA PullInv ==
    ASSUME IInv, NEW n \in 0..MaxChunk, Pull(n)
    PROVE  LET k == IF n > used THEN used ELSE n
           IN  /\ IInv'
               /\ used' = used - k
               /\ \A i \in 0..(used - k - 1) : Cell(i)' = Cell(k + i)
<1> DEFINE k == IF n > used THEN used ELSE n
<1>1. /\ k \in Nat /\ k <= used
      /\ size \in Nat /\ start \in Nat /\ used \in Nat /\ used <= size
      /\ size <= TopPower /\ TopPower \in Nat
      /\ size # 0 => start < size
      /\ size = 0 => start = 0 /\ used = 0
  BY SizeIsNat, SMT DEF IInv
<1>2. start' = Mask(start + k) /\ used' = used - k /\ UNCHANGED <<buf, size, out>>
  BY DEF Pull
<1> HIDE DEF k
<1>3. start' = IF start + k < size \/ size = 0 THEN start + k ELSE (start + k) - size
  <2>1. CASE size = 0
    BY <1>2, <2>1 DEF Mask
  <2>2. CASE size # 0
    <3>1. size \in Nat \ {0} /\ start + k \in Nat /\ start + k < 2 * size
      BY <1>1, <2>2, SMT
    <3>2. (start + k) % size
             = IF start + k < size THEN start + k ELSE (start + k) - size
      BY <3>1, ModOnce, Zenon
    <3> QED BY <1>2, <2>2, <3>2 DEF Mask
  <2> QED BY <2>1, <2>2
<1>4. \A i \in 0..(used - k - 1) : Cell(i)' = Cell(k + i)
  BY <1>1, <1>2, <1>3, SMT DEF Cell
<1>5. TypeOK' /\ DataInBuffer'
  BY <1>1, <1>2, <1>3, SMT DEF IInv, TypeOK, DataInBuffer, SizeT
<1>6. NothingInvented'
  BY <1>1, <1>2, <1>4, SMT DEF IInv, NothingInvented
<1> QED BY <1>2, <1>4, <1>5, <1>6 DEF k, IInv

LEMMA PushFitsInv ==
    ASSUME IInv, NEW s \in Chunk, PushFits(s)
    PROVE  /\ IInv'
           /\ used' = used + Len(s)
           /\ \A i \in 0..(used - 1) : Cell(i)' = Cell(i)
           /\ \A i \in used..(used + Len(s) - 1) : Cell(i)' = s[i - used + 1]
<1> DEFINE pos == Mask(start + used)
           len == Len(s)
<1>1. /\ size \in Nat /\ start \in Nat /\ used \in Nat /\ used <= size
      /\ size <= TopPower /\ TopPower \in Nat
      /\ size # 0 => start < size
      /\ size = 0 => start = 0 /\ used = 0
  BY SizeIsNat, SMT DEF IInv
<1>2. /\ len \in Nat /\ len > 0 /\ used + len <= size
      /\ \A i \in 1..len : s[i] \in Byte
  <2>1. s \in Seq(Byte) /\ len > 0 /\ size - used >= len
    BY SMT DEF Chunk, PushFits, Room
  <2> QED BY <1>1, <2>1, SMT
<1>3. pos = IF start + used < size THEN start + used ELSE (start + used) - size
  <2>1. size \in Nat \ {0} /\ start + used \in Nat /\ start + used < 2 * size
    <3> HIDE DEF len
    <3> QED BY <1>1, <1>2, SMT
  <2> QED BY <2>1, ModOnce, Zenon DEF Mask
<1>4. /\ buf' = [i \in 0..(size - 1) |->
                    IF pos <= i /\ i < pos + len THEN s[i - pos + 1]
                    ELSE IF i < len - (size - pos) THEN s[size - pos + i + 1]
                    ELSE buf[i]]
      /\ used' = used + len /\ UNCHANGED <<size, start, out>>
  BY DEF PushFits, Written
<1> HIDE DEF pos, len
<1>5. \A i \in 0..(used - 1) : Cell(i)' = Cell(i)
  <2> SUFFICES ASSUME NEW i \in 0..(used - 1)
               PROVE  Cell(i)' = Cell(i)
    OBVIOUS
  <2> DEFINE j == IF i < size - start THEN start + i ELSE i - (size - start)
  <2>1. /\ j \in 0..(size - 1)
        /\ ~(pos <= j /\ j < pos + len)
        /\ ~(j < len - (size - pos))
    BY <1>1, <1>2, <1>3, SMT
  <2>2. Cell(i) = buf[j] /\ Cell(i)' = buf'[j]
    BY <1>4 DEF Cell
  <2> HIDE DEF j
  <2> QED BY <1>4, <2>1, <2>2
<1>6. \A i \in used..(used + len - 1) : Cell(i)' = s[i - used + 1]
  <2> SUFFICES ASSUME NEW i \in used..(used + len - 1)
               PROVE  Cell(i)' = s[i - used + 1]
    OBVIOUS
  <2> DEFINE j == IF i < size - start THEN start + i ELSE i - (size - start)
  <2>1. /\ j \in 0..(size - 1)
        /\ pos <= j /\ j < pos + len => j - pos + 1 = i - used + 1
        /\ ~(pos <= j /\ j < pos + len)
             => j < len - (size - pos) /\ size - pos + j + 1 = i - used + 1
    BY <1>1, <1>2, <1>3, SMT
  <2>2. Cell(i)' = buf'[j]
    BY <1>4 DEF Cell
  <2> HIDE DEF j
  <2> QED BY <1>4, <2>1, <2>2
<1>7. NothingInvented'
  <2> SUFFICES ASSUME NEW i \in 0..(used' - 1)
               PROVE  Cell(i)' \in Byte
    BY DEF NothingInvented
  <2>1. CASE i < used
    BY <1>1, <1>5, <2>1, SMT DEF IInv, NothingInvented
  <2>2. CASE i >= used
    <3>1. i \in used..(used + len - 1) /\ i - used + 1 \in 1..len
      BY <1>1, <1>2, <1>4, <2>2, SMT
    <3> QED BY <1>2, <1>6, <3>1
  <2> QED BY <1>1, <2>1, <2>2, SMT
<1>8. buf' \in [0..(size - 1) -> Byte \cup {Junk}]
  <2> SUFFICES ASSUME NEW i \in 0..(size - 1)
               PROVE  buf'[i] \in Byte \cup {Junk}
    BY <1>4
  <2>1. buf[i] \in Byte \cup {Junk}
    BY DEF IInv, TypeOK
  <2>2. CASE pos <= i /\ i < pos + len
    <3>1. i - pos + 1 \in 1..len
      BY <1>1, <1>2, <1>3, <2>2, SMT
    <3> QED BY <1>2, <1>4, <2>2, <3>1
  <2>3. CASE ~(pos <= i /\ i < pos + len) /\ i < len - (size - pos)
    <3>1. size - pos + i + 1 \in 1..len
      BY <1>1, <1>2, <1>3, <2>3, SMT
    <3> QED BY <1>2, <1>4, <2>3, <3>1
  <2> QED BY <1>4, <2>1, <2>2, <2>3
<1>9. TypeOK' /\ DataInBuffer'
  BY <1>1, <1>2, <1>4, <1>8, SMT DEF IInv, TypeOK, DataInBuffer, SizeT
<1> QED BY <1>4, <1>5, <1>6, <1>7, <1>9 DEF IInv, len

LEMMA PushGrowsInv ==
    ASSUME IInv, NEW s \in Chunk, PushGrows(s)
    PROVE  /\ IInv'
           /\ used' = used + Len(s)
           /\ \A i \in 0..(used - 1) : Cell(i)' = Cell(i)
           /\ \A i \in used..(used + Len(s) - 1) : Cell(i)' = s[i - used + 1]
<1> DEFINE n == GrownSize(Len(s))
           len == Len(s)
<1>1. /\ size \in Nat /\ start \in Nat /\ used \in Nat /\ used <= size
      /\ TopPower \in Nat \ {0}
      /\ size # 0 => start < size
      /\ size = 0 => start = 0 /\ used = 0
  BY SizeIsNat, SMT DEF IInv
<1>2. /\ len \in 1..MaxChunk
      /\ \A i \in 1..len : s[i] \in Byte
      /\ n # 0
  BY RingAssumption, SMT DEF Chunk, PushGrows
<1>3. n \in Powers /\ used + len <= n
  BY <1>2, GrownHolds DEF IInv
<1>4. n \in Nat /\ n <= TopPower /\ used < n
  <2> HIDE DEF n, len
  <2> QED BY <1>1, <1>2, <1>3, RingAssumption, SMT
<1>5. used % n = used
  <2> HIDE DEF n, len
  <2> QED BY <1>1, <1>4, SMT
<1>6. /\ buf' = [i \in 0..(n - 1) |->
                    IF used <= i /\ i < used + len THEN s[i - used + 1]
                    ELSE IF i < len - (n - used) THEN s[n - used + i + 1]
                    ELSE Resized(n)[i]]
      /\ size' = n /\ start' = 0 /\ used' = used + len /\ UNCHANGED out
  BY <1>5 DEF PushGrows, Written
<1> HIDE DEF n, len
<1>7. \A i \in 0..(n - 1) :
         buf'[i] = IF i < used THEN Cell(i)
                   ELSE IF i < used + len THEN s[i - used + 1] ELSE Junk
  <2> SUFFICES ASSUME NEW i \in 0..(n - 1)
               PROVE  buf'[i] = IF i < used THEN Cell(i)
                                ELSE IF i < used + len THEN s[i - used + 1]
                                ELSE Junk
    OBVIOUS
  <2>1. ~(i < len - (n - used))
    BY <1>1, <1>2, <1>3, <1>4, SMT
  <2>2. Resized(n)[i] = IF i < used THEN Cell(i) ELSE Junk
    BY DEF Resized
  <2> QED BY <1>1, <1>2, <1>6, <2>1, <2>2, SMT
<1>8. \A i \in 0..(n - 1) : Cell(i)' = buf'[i]
  BY <1>4, <1>6, SMT DEF Cell
<1>9. \A i \in 0..(used - 1) : Cell(i)' = Cell(i)
  BY <1>1, <1>4, <1>7, <1>8, SMT
<1>10. \A i \in used..(used + len - 1) : Cell(i)' = s[i - used + 1]
  BY <1>1, <1>2, <1>3, <1>4, <1>7, <1>8, SMT
<1>11. NothingInvented'
  <2> SUFFICES ASSUME NEW i \in 0..(used' - 1)
               PROVE  Cell(i)' \in Byte
    BY DEF NothingInvented
  <2>1. CASE i < used
    BY <1>1, <1>9, <2>1, SMT DEF IInv, NothingInvented
  <2>2. CASE i >= used
    <3>1. i \in used..(used + len - 1) /\ i - used + 1 \in 1..len
      BY <1>1, <1>2, <1>6, <2>2, SMT
    <3> QED BY <1>2, <1>10, <3>1
  <2> QED BY <1>1, <2>1, <2>2, SMT
<1>12. buf' \in [0..(n - 1) -> Byte \cup {Junk}]
  <2> SUFFICES ASSUME NEW i \in 0..(n - 1)
               PROVE  buf'[i] \in Byte \cup {Junk}
    BY <1>6
  <2>1. CASE i < used
    BY <1>1, <1>7, <2>1, SMT DEF IInv, NothingInvented
  <2>2. CASE ~(i < used) /\ i < used + len
    <3>1. i - used + 1 \in 1..len
      BY <1>1, <1>2, <2>2, SMT
    <3> QED BY <1>2, <1>7, <2>2, <3>1
  <2> QED BY <1>7, <2>1, <2>2
<1>13. TypeOK' /\ DataInBuffer'
  BY <1>1, <1>2, <1>3, <1>4, <1>6, <1>12, SMT
     DEF IInv, TypeOK, DataInBuffer, SizeT
<1> QED BY <1>6, <1>9, <1>10, <1>11, <1>13 DEF IInv, len

-----------------------------------------------------------------------------
\* Every operation, or a stutter, keeps the inductive invariant.
LEMMA NextInv == IInv /\ [Next]_vars => IInv'
<1> SUFFICES ASSUME IInv, [Next]_vars PROVE IInv'
  OBVIOUS
<1>1. CASE Flush \/ Clear
  BY <1>1, FlushInv
<1>2. ASSUME NEW s \in Chunk, PushFits(s) PROVE IInv'
  BY <1>2, PushFitsInv
<1>3. ASSUME NEW s \in Chunk, PushGrows(s) PROVE IInv'
  BY <1>3, PushGrowsInv
<1>4. CASE UNCHANGED vars
  BY <1>4 DEF vars, IInv, TypeOK, DataInBuffer, NothingInvented, Cell
<1>5. ASSUME NEW s \in Chunk, PushRejected(s) PROVE IInv'
  BY <1>4, <1>5 DEF PushRejected
<1>6. ASSUME NEW n \in 0..MaxChunk, Copy(n) PROVE IInv'
  BY <1>6, CopyInv
<1>7. ASSUME NEW n \in 0..MaxChunk, Pull(n) PROVE IInv'
  BY <1>7, PullInv
<1> QED BY <1>1, <1>2, <1>3, <1>4, <1>5, <1>6, <1>7 DEF Next

\* The ring's fields keep their types, shl-ring.c's data stays inside r->buf,
\* and no cell malloc left uninitialised is ever part of the data.
THEOREM RingInvariant == Spec => [](TypeOK /\ DataInBuffer /\ NothingInvented)
<1>1. Init => IInv
  BY InitInv
<1>2. IInv /\ [Next]_vars => IInv'
  BY NextInv
<1> QED BY <1>1, <1>2, PTL DEF Spec, IInv

\* The offsets stay within the buffer, and its size a power of two.
THEOREM RingTypes == Spec => []TypeOK
<1> QED BY RingInvariant, PTL

\* Every byte that is used is one that was pushed, across wraps and reallocations.
THEOREM RingInventsNothing == Spec => []NothingInvented
<1> QED BY RingInvariant, PTL

-----------------------------------------------------------------------------
\* The bytes of the ring, as the queue they stand for.
LEMMA ContentIsSeq ==
    ASSUME IInv
    PROVE  /\ Content \in Seq(Byte)
           /\ Len(Content) = used
           /\ \A i \in 1..used : Content[i] = Cell(i - 1)
<1>1. used \in Nat
  BY SizeIsNat DEF IInv
<1>2. \A i \in 1..used : Cell(i - 1) \in Byte
  BY <1>1, SMT DEF IInv, NothingInvented
<1> QED BY <1>1, <1>2, SMT DEF Content

\* Concatenation, cell by cell.
LEMMA ConcatCells ==
    ASSUME NEW S, NEW c \in Seq(S), NEW d \in Seq(S)
    PROVE  c \o d = [i \in 1..(Len(c) + Len(d)) |->
                        IF i <= Len(c) THEN c[i] ELSE d[i - Len(c)]]
<1> DEFINE e == c \o d
           f == [i \in 1..(Len(c) + Len(d)) |->
                    IF i <= Len(c) THEN c[i] ELSE d[i - Len(c)]]
<1>1. e \in Seq(S) /\ Len(e) = Len(c) + Len(d)
  BY ConcatProperties
<1>2. ASSUME NEW i \in 1..(Len(c) + Len(d)) PROVE e[i] = f[i]
  BY ConcatProperties
<1>3. e = [i \in 1..(Len(c) + Len(d)) |-> e[i]]
  <2> HIDE DEF e
  <2>1. e = [i \in 1..Len(e) |-> e[i]]
    BY <1>1
  <2> QED BY <1>1, <2>1
<1>4. f = [i \in 1..(Len(c) + Len(d)) |-> f[i]]
  OBVIOUS
<1> HIDE DEF e, f
<1>5. e = f
  BY <1>2, <1>3, <1>4, Zenon
<1> QED BY <1>5 DEF e, f

LEMMA PushAppends ==
    ASSUME IInv, NEW s \in Chunk, PushFits(s) \/ PushGrows(s)
    PROVE  Content' = Content \o s
<1>1. /\ IInv'
      /\ used' = used + Len(s)
      /\ \A i \in 0..(used - 1) : Cell(i)' = Cell(i)
      /\ \A i \in used..(used + Len(s) - 1) : Cell(i)' = s[i - used + 1]
  BY PushFitsInv, PushGrowsInv
<1>2. used \in Nat /\ s \in Seq(Byte) /\ Len(s) \in Nat
  BY SizeIsNat, RingAssumption, SMT DEF IInv, Chunk
<1>3. Content' = [i \in 1..(used + Len(s)) |-> Cell(i - 1)']
  BY <1>1 DEF Content
<1>4. Content \o s = [i \in 1..(used + Len(s)) |->
                         IF i <= used THEN Content[i] ELSE s[i - used]]
  <2>1. Content \in Seq(Byte) /\ Len(Content) = used
    BY ContentIsSeq
  <2> DEFINE c == Content
  <2> HIDE DEF c
  <2>2. c \in Seq(Byte) /\ Len(c) = used
    BY <2>1 DEF c
  <2>3. c \o s = [i \in 1..(Len(c) + Len(s)) |->
                    IF i <= Len(c) THEN c[i] ELSE s[i - Len(c)]]
    BY <1>2, <2>2, ConcatCells
  <2> QED BY <2>2, <2>3, Zenon DEF c
<1>5. ASSUME NEW i \in 1..(used + Len(s))
      PROVE  Cell(i - 1)' = IF i <= used THEN Content[i] ELSE s[i - used]
  <2>1. CASE i <= used
    <3>1. i - 1 \in 0..(used - 1) /\ i \in 1..used
      BY <1>2, <2>1, SMT
    <3> QED BY <1>1, <2>1, <3>1, ContentIsSeq
  <2>2. CASE ~(i <= used)
    <3>1. i - 1 \in used..(used + Len(s) - 1) /\ (i - 1) - used + 1 = i - used
      BY <1>2, <2>2, SMT
    <3> QED BY <1>1, <2>2, <3>1
  <2> QED BY <2>1, <2>2
<1> QED BY <1>3, <1>4, <1>5, Zenon

LEMMA PullDrops ==
    ASSUME IInv, NEW n \in 0..MaxChunk, Pull(n)
    PROVE  Content' = Fifo!Drop(Content, n)
<1> DEFINE k == IF n > used THEN used ELSE n
<1>1. /\ IInv' /\ used' = used - k
      /\ \A i \in 0..(used - k - 1) : Cell(i)' = Cell(k + i)
  BY PullInv
<1>2. used \in Nat /\ k \in 0..used
  BY SizeIsNat, RingAssumption, SMT DEF IInv
<1>3. Fifo!Drop(Content, n) = SubSeq(Content, k + 1, used)
  BY ContentIsSeq DEF Fifo!Drop
<1> HIDE DEF k
<1>4. SubSeq(Content, k + 1, used) = [i \in 1..(used - k) |-> Content[k + i]]
  BY <1>2, ContentIsSeq, SMT
<1>5. Content' = [i \in 1..(used - k) |-> Cell(i - 1)']
  BY <1>1 DEF Content
<1>6. ASSUME NEW i \in 1..(used - k)
      PROVE  Cell(i - 1)' = Content[k + i]
  <2>1. /\ i - 1 \in 0..(used - k - 1)
        /\ k + i \in 1..used
        /\ k + (i - 1) = (k + i) - 1
    BY <1>2, SMT
  <2> QED BY <1>1, <2>1, ContentIsSeq
<1> QED BY <1>3, <1>4, <1>5, <1>6, Zenon

LEMMA CopyReads ==
    ASSUME IInv, NEW n \in 0..MaxChunk, Copy(n)
    PROVE  out' = Fifo!Prefix(Content, n) /\ Content' = Content
<1> DEFINE k == IF n > used THEN used ELSE n
<1>1. used \in Nat /\ k \in 0..used
  BY SizeIsNat, RingAssumption, SMT DEF IInv
<1>2. Fifo!Prefix(Content, n) = SubSeq(Content, 1, k)
  BY ContentIsSeq DEF Fifo!Prefix
<1>3. out' = [i \in 1..k |-> Cell(i - 1)] /\ Content' = Content
  BY DEF Copy, Content, Cell
<1> HIDE DEF k
<1>4. SubSeq(Content, 1, k) = [i \in 1..k |-> Content[i]]
  BY <1>1, ContentIsSeq, SMT
<1>5. \A i \in 1..k : Content[i] = Cell(i - 1)
  BY <1>1, ContentIsSeq, SMT
<1> QED BY <1>2, <1>3, <1>4, <1>5, Zenon

LEMMA EmptyContent == used = 0 => Content = << >>
BY SMT DEF Content

\* shl-ring.c is a FIFO queue: whatever the sequence of pushes, copies, pulls,
\* flushes and reallocations, bytes leave in the order they came, and a push
\* that was accepted loses none.
THEOREM RingIsFifo == Spec => IsFifo
<1>1. Init => Fifo!Init
  BY EmptyContent DEF Init, Fifo!Init
<1>2. IInv /\ [Next]_vars => [Fifo!Next]_(Fifo!vars)
  <2> SUFFICES ASSUME IInv, [Next]_vars
               PROVE  [Fifo!Next]_(Fifo!vars)
    OBVIOUS
  <2>1. CASE Flush \/ Clear
    BY <2>1, FlushInv, EmptyContent
       DEF Flush, Clear, Fifo!Next, Fifo!Empty, Content
  <2>2. ASSUME NEW s \in Chunk, PushFits(s) \/ PushGrows(s)
        PROVE  Fifo!Next
    <3>1. Content' = Content \o s /\ UNCHANGED out
      BY <2>2, PushAppends DEF PushFits, PushGrows
    <3> QED BY <3>1 DEF Fifo!Next, Fifo!Push, Fifo!Chunk, Chunk
  <2>3. CASE UNCHANGED vars
    BY <2>3 DEF vars, Fifo!vars, Content, Cell
  <2>4. ASSUME NEW s \in Chunk, PushRejected(s) PROVE [Fifo!Next]_(Fifo!vars)
    BY <2>3, <2>4 DEF PushRejected
  <2>5. ASSUME NEW n \in 0..MaxChunk, Copy(n) PROVE Fifo!Next
    BY <2>5, CopyReads DEF Fifo!Next, Fifo!Copy
  <2>6. ASSUME NEW n \in 0..MaxChunk, Pull(n) PROVE Fifo!Next
    BY <2>6, PullDrops DEF Fifo!Next, Fifo!Pull, Pull
  <2> QED BY <2>1, <2>2, <2>3, <2>4, <2>5, <2>6 DEF Next
<1>3. Spec => []IInv
  BY InitInv, NextInv, PTL DEF Spec
<1> QED BY <1>1, <1>2, <1>3, PTL DEF Spec, Fifo!Spec, IsFifo
=============================================================================
