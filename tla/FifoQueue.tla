----------------------------- MODULE FifoQueue -----------------------------
(***************************************************************************)
(* What a byte queue promises: bytes leave in the order they came, none is *)
(* invented, none is lost once a push has been accepted.  Nothing is said  *)
(* about how the bytes are stored.  `ShlRing` implements it.               *)
(***************************************************************************)
EXTENDS Integers, Sequences

CONSTANTS Byte,     \* the values a byte of the queue can have
          MaxChunk  \* longest piece handed to one push, copy or pull

VARIABLES queue,    \* the bytes not yet pulled, oldest first
          out       \* what the last copy returned

vars == <<queue, out>>

\* The pieces a caller hands over.
Chunk == UNION {[1..n -> Byte] : n \in 0..MaxChunk}

\* The first n bytes of q, all of them when there are fewer.
Prefix(q, n) == SubSeq(q, 1, IF n > Len(q) THEN Len(q) ELSE n)

\* q without its first n bytes.
Drop(q, n) == SubSeq(q, (IF n > Len(q) THEN Len(q) ELSE n) + 1, Len(q))

Init == queue = << >> /\ out = << >>

Push(s) == queue' = queue \o s /\ UNCHANGED out

Copy(n) == out' = Prefix(queue, n) /\ UNCHANGED queue

Pull(n) == queue' = Drop(queue, n) /\ UNCHANGED out

Empty == queue' = << >> /\ UNCHANGED out

Next == \/ \E s \in Chunk : Push(s)
        \/ \E n \in 0..MaxChunk : Copy(n) \/ Pull(n)
        \/ Empty

Spec == Init /\ [][Next]_vars
=============================================================================
