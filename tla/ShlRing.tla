------------------------------ MODULE ShlRing ------------------------------
(***************************************************************************)
(* libtsm/shared/shl-ring.c: the growing ring buffer termwin.c keeps the   *)
(* keyboard's bytes in until the event loop can send them.  A size_t wraps *)
(* at 2 * TopPower; malloc may fail at every growth.                       *)
(***************************************************************************)
EXTENDS Integers, Sequences

CONSTANTS Byte,      \* the values a byte can have
          Junk,      \* what malloc leaves in a cell: no byte that was pushed
          Powers,    \* the powers of two a size_t can hold
          TopPower,  \* the largest of them: a size_t wraps at twice TopPower
          MinSize,   \* smallest buffer ring_grow asks for (4096)
          MaxChunk   \* bound: longest piece of one call

ASSUME RingAssumption ==
    /\ Powers \subseteq Nat \ {0}
    /\ 1 \in Powers
    /\ \A p \in Powers : p # 1 => \E q \in Powers : p = 2 * q
    /\ TopPower \in Powers
    /\ \A p \in Powers : p <= TopPower
    /\ MinSize \in Powers
    /\ MaxChunk \in Nat
    /\ MaxChunk < 2 * TopPower
    /\ Junk \notin Byte

VARIABLES buf,       \* r->buf, cells 0 .. size - 1
          size,      \* r->size
          start,     \* r->start
          used,      \* r->used
          out        \* what the last shl_ring_copy stored in its buffer

vars == <<buf, size, start, used, out>>

SizeT == 2 * TopPower

Chunk == UNION {[1..n -> Byte] : n \in 0..MaxChunk}

\* RING_MASK: v & (size - 1), which for a power of two is the remainder.  An
\* empty ring has size 0 and the mask keeps every bit.
Mask(v) == IF size = 0 THEN v ELSE v % size

\* Mutant of AlignPower2: the buffer grows to exactly what is needed.
AlignNothing(u) == IF u < SizeT THEN u ELSE 0

\* SHL_ALIGN_POWER2: the next power of two, 0 when it does not fit a size_t.
AlignPower2(u) ==
    IF \E p \in Powers : u <= p
    THEN CHOOSE p \in Powers : u <= p /\ \A q \in Powers : u <= q => p <= q
    ELSE 0

\* ring_grow leaves the buffer alone when there is room for `add` more bytes.
Room(add) == size - used >= add

\* The size it asks for otherwise, 0 for -ENOMEM.  The sum used + add is a
\* size_t and may wrap.
GrownSize(add) ==
    LET need == (used + add) % SizeT
    IN  IF need <= used THEN 0
        ELSE AlignPower2(IF need < MinSize THEN MinSize ELSE need)

\* Cell i of the data, read across the end of the buffer by a second memcpy.
Cell(i) == IF i < size - start THEN buf[start + i] ELSE buf[i - (size - start)]

\* ring_resize: the data moves to the front of a new buffer.
Resized(n) == [i \in 0..(n - 1) |-> IF i < used THEN Cell(i) ELSE Junk]

\* Mutant of Written: the part that wraps lands one cell too far.
WrittenPastFirst(b, n, pos, s) ==
    [i \in 0..(n - 1) |->
        IF pos <= i /\ i < pos + Len(s) THEN s[i - pos + 1]
        ELSE IF 0 < i /\ i <= Len(s) - (n - pos) THEN s[n - pos + i]
        ELSE b[i]]

\* The two memcpys of shl_ring_push: s from cell pos on, wrapping once.
Written(b, n, pos, s) ==
    [i \in 0..(n - 1) |->
        IF pos <= i /\ i < pos + Len(s) THEN s[i - pos + 1]
        ELSE IF i < Len(s) - (n - pos) THEN s[n - pos + i + 1]
        ELSE b[i]]

Init == /\ buf = << >>
        /\ size = 0
        /\ start = 0
        /\ used = 0
        /\ out = << >>

\* shl_ring_flush
Flush == /\ start' = 0
         /\ used' = 0
         /\ UNCHANGED <<buf, size, out>>

\* shl_ring_clear
Clear == /\ buf' = << >>
         /\ size' = 0
         /\ start' = 0
         /\ used' = 0
         /\ UNCHANGED out

\* shl_ring_copy
Copy(n) ==
    /\ out' = [i \in 1..(IF n > used THEN used ELSE n) |-> Cell(i - 1)]
    /\ UNCHANGED <<buf, size, start, used>>

\* shl_ring_push into a buffer with room for s.
PushFits(s) ==
    /\ Len(s) > 0
    /\ Room(Len(s))
    /\ buf' = Written(buf, size, Mask(start + used), s)
    /\ used' = used + Len(s)
    /\ UNCHANGED <<size, start, out>>

\* shl_ring_push that reallocates first: start is 0 in the new buffer.
PushGrows(s) ==
    LET n == GrownSize(Len(s))
    IN  /\ Len(s) > 0
        /\ ~Room(Len(s))
        /\ n # 0
        /\ buf' = Written(Resized(n), n, used % n, s)
        /\ size' = n
        /\ start' = 0
        /\ used' = used + Len(s)
        /\ UNCHANGED out

\* shl_ring_push of nothing, or -ENOMEM: the size wraps, or malloc fails while
\* the buffer has to grow.  The caller (termwin.c) drops the bytes.
PushRejected(s) ==
    /\ Len(s) > 0 => ~Room(Len(s))
    /\ UNCHANGED vars

\* Mutant of Pull: used is clamped, start moves by the size asked for.
PullUnclamped(n) ==
    /\ start' = start + n
    /\ used' = used - (IF n > used THEN used ELSE n)
    /\ UNCHANGED <<buf, size, out>>

\* shl_ring_pull
Pull(n) ==
    LET k == IF n > used THEN used ELSE n
    IN  /\ start' = Mask(start + k)
        /\ used' = used - k
        /\ UNCHANGED <<buf, size, out>>

Next == \/ Flush
        \/ Clear
        \/ \E s \in Chunk : PushFits(s) \/ PushGrows(s) \/ PushRejected(s)
        \/ \E n \in 0..MaxChunk : Copy(n) \/ Pull(n)

Spec == Init /\ [][Next]_vars

-----------------------------------------------------------------------------
TypeOK ==
    /\ size \in Powers \cup {0}
    /\ buf \in [0..(size - 1) -> Byte \cup {Junk}]
    /\ start \in 0..(SizeT - 1)
    /\ used \in 0..(SizeT - 1)
    /\ out \in Seq(Byte \cup {Junk})

\* The data lies inside the buffer, and the buffer is a power of two: the only
\* sizes for which RING_MASK is a remainder and start + used cannot wrap.
DataInBuffer ==
    /\ used <= size
    /\ start < size \/ start = 0
    /\ start + used < SizeT

\* No cell the ring hands out is one that malloc left uninitialised, whatever
\* mix of pushes, pulls, flushes and reallocations went before.
NothingInvented == \A i \in 0..(used - 1) : Cell(i) \in Byte

\* The queue the ring stands for, and the promise it makes: growth and
\* wrap-around neither lose, repeat nor reorder a byte.
Content == [i \in 1..used |-> Cell(i - 1)]

Fifo == INSTANCE FifoQueue WITH queue <- Content

IsFifo == Fifo!Spec
=============================================================================
