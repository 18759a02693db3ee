-------------------------- MODULE MainLoop_proof --------------------------
(***************************************************************************)
(* Proofs about MainLoop, for any sizes of the buffer, of the windows and  *)
(* of the input.                                                           *)
(***************************************************************************)
EXTENDS MainLoop, SequenceTheorems, FiniteSetTheorems, WellFoundedInduction, TLAPS

Upto(n) == [i \in 1..n |-> i]
Following(n, k) == [i \in 1..k |-> n + i]

-----------------------------------------------------------------------------
(* Sequences. *)

\* The library's facts about concatenation, for sequences of numbers.
LEMMA Concat ==
    \A s, t \in Seq(Nat) :
        /\ s \o t \in Seq(Nat)
        /\ Len(s \o t) = Len(s) + Len(t)
        /\ \A i \in 1..(Len(s) + Len(t)) :
              (s \o t)[i] = IF i <= Len(s) THEN s[i] ELSE t[i - Len(s)]
<1> TAKE s, t \in Seq(Nat)
<1> QED
  BY ConcatProperties

LEMMA Associative ==
    \A s, t, u \in Seq(Nat) : (s \o t) \o u = s \o (t \o u)
<1> TAKE s, t, u \in Seq(Nat)
<1> QED
  BY ConcatAssociative, SMTT(20)

\* First and Rest cut a sequence in two.
LEMMA Cut ==
    ASSUME NEW S, NEW s \in Seq(S), NEW n \in Nat
    PROVE  /\ First(s, n) \in Seq(S)
           /\ Rest(s, n) \in Seq(S)
           /\ First(s, n) \o Rest(s, n) = s
<1> DEFINE k == IF n > Len(s) THEN Len(s) ELSE n
<1>1. Len(s) \in Nat
  BY LenProperties
<1>2. k \in 0..Len(s)
  BY <1>1
<1>3. \A i \in 1..Len(s) : s[i] \in S
  BY ElementOfSeq
<1> HIDE DEF k
<1>4. SubSeq(s, 1, k) \in Seq(S) /\ SubSeq(s, k + 1, Len(s)) \in Seq(S)
  <2>1. \A i \in 1..k : s[i] \in S
    BY <1>1, <1>2, <1>3
  <2>2. \A i \in (k + 1)..Len(s) : s[i] \in S
    BY <1>1, <1>2, <1>3
  <2> QED
    BY <1>1, <1>2, <2>1, <2>2, SubSeqProperties
<1>5. SubSeq(s, 1, k) \o SubSeq(s, k + 1, Len(s)) = SubSeq(s, 1, Len(s))
  <2>1. /\ 1 \in 1..(Len(s) + 1) /\ k \in (1 - 1)..Len(s)
        /\ Len(s) \in k..Len(s)
    BY <1>1, <1>2
  <2> QED
    BY <2>1, ConcatAdjacentSubSeq
<1>6. First(s, n) = SubSeq(s, 1, k) /\ Rest(s, n) = SubSeq(s, k + 1, Len(s))
  BY DEF First, Rest, k
<1> QED
  BY <1>4, <1>5, <1>6, SubSeqFull

\* The numbers up to n and the k numbers that follow.
LEMMA Counting ==
    ASSUME NEW n \in Nat, NEW k \in Nat
    PROVE  /\ Following(n, k) \in Seq(Nat)
           /\ Upto(n) \o Following(n, k) = Upto(n + k)
<1>1. Upto(n) \in Seq(Nat) /\ Len(Upto(n)) = n
  BY DEF Upto
<1>2. Following(n, k) \in Seq(Nat) /\ Len(Following(n, k)) = k
  BY DEF Following
<1>3. Upto(n + k) \in Seq(Nat) /\ Len(Upto(n + k)) = n + k
  BY DEF Upto
<1>4. /\ Upto(n) \o Following(n, k) \in Seq(Nat)
      /\ Len(Upto(n) \o Following(n, k)) = n + k
      /\ \A i \in 1..(n + k) : (Upto(n) \o Following(n, k))[i] =
             IF i <= n THEN Upto(n)[i] ELSE Following(n, k)[i - n]
  <2>1. /\ Upto(n) \o Following(n, k) \in Seq(Nat)
        /\ Len(Upto(n) \o Following(n, k)) = Len(Upto(n)) + Len(Following(n, k))
        /\ \A i \in 1..(Len(Upto(n)) + Len(Following(n, k))) :
               (Upto(n) \o Following(n, k))[i] =
                   IF i <= Len(Upto(n)) THEN Upto(n)[i]
                   ELSE Following(n, k)[i - Len(Upto(n))]
    BY <1>1, <1>2, Concat
  <2> QED
    BY <1>1, <1>2, <2>1
<1>5. \A i \in 1..(n + k) : (Upto(n) \o Following(n, k))[i] = Upto(n + k)[i]
  BY <1>4 DEF Upto, Following
<1> QED
  BY <1>2, <1>3, <1>4, <1>5, SeqEqual

\* A count of elements of a sequence is a number.
LEMMA CountType ==
    ASSUME NEW S, NEW s \in Seq(S), NEW p
    PROVE  Count(s, p) \in Nat
<1>1. DOMAIN s = 1..Len(s) /\ Len(s) \in Nat
  BY LenProperties
<1>2. IsFiniteSet(DOMAIN s)
  BY <1>1, FS_Interval
<1>3. {i \in DOMAIN s : s[i] = p} \in SUBSET DOMAIN s
  OBVIOUS
<1> QED
  BY <1>2, <1>3, FS_Subset, FS_CardinalityType DEF Count

-----------------------------------------------------------------------------
(* Input in order. *)

OrderTypes ==
    /\ {ring, remain, sent} \subseteq Seq(Nat)
    /\ pushed \in Nat
    /\ window \in Int
    /\ out.len \in Nat
    /\ sock \in Seq(Packet)

\* Between two writes iobuf holds no input: reads may use it.
BufferFree == pc \notin {"send", "over"} => remain = << >>

OrderInv == OrderTypes /\ BufferFree /\ InputInOrder

LEMMA OrderInit == Init => OrderInv
<1> SUFFICES ASSUME Init PROVE OrderInv
  OBVIOUS
<1>1. OrderTypes /\ BufferFree
  BY LoopAssumption DEF Init, OrderTypes, BufferFree, None
<1>2. << >> \o << >> \o << >> = [i \in 1..0 |-> i]
  OBVIOUS
<1> QED
  BY <1>1, <1>2 DEF Init, OrderInv, InputInOrder, Bytes

\* What a step adds to the input, and what it leaves of it.
LEMMA Pushes ==
    ASSUME OrderInv, NEW k \in Nat,
           ring' = ring \o Following(pushed, k), pushed' = pushed + k,
           UNCHANGED <<remain, sent>>
    PROVE  InputInOrder' /\ ring' \in Seq(Nat)
<1>1. Following(pushed, k) \in Seq(Nat)
  BY Counting DEF OrderInv, OrderTypes
<1>2. ring' \in Seq(Nat)
  BY <1>1, Concat DEF OrderInv, OrderTypes
<1>3. sent \o remain \in Seq(Nat)
  BY Concat DEF OrderInv, OrderTypes
<1>4. (sent \o remain) \o (ring \o Following(pushed, k))
        = ((sent \o remain) \o ring) \o Following(pushed, k)
  BY <1>1, <1>3, Associative DEF OrderInv, OrderTypes
<1>5. (sent \o remain) \o ring = Upto(pushed)
  BY DEF OrderInv, InputInOrder, Bytes, Upto
<1>6. Upto(pushed) \o Following(pushed, k) = Upto(pushed + k)
  BY Counting DEF OrderInv, OrderTypes
<1> QED
  BY <1>2, <1>4, <1>5, <1>6 DEF InputInOrder, Bytes, Upto

LEMMA Writes ==
    ASSUME OrderInv, NEW n \in Nat, Written(n), UNCHANGED <<ring, pushed>>
    PROVE  InputInOrder' /\ {remain', sent'} \subseteq Seq(Nat)
<1>1. /\ First(remain, n) \in Seq(Nat) /\ Rest(remain, n) \in Seq(Nat)
      /\ First(remain, n) \o Rest(remain, n) = remain
  BY Cut DEF OrderInv, OrderTypes
<1>2. sent' \in Seq(Nat) /\ remain' \in Seq(Nat)
  BY <1>1, Concat DEF OrderInv, OrderTypes, Written
<1>3. sent' \o remain' = sent \o remain
  <2>1. sent \in Seq(Nat)
    BY DEF OrderInv, OrderTypes
  <2>2. (sent \o First(remain, n)) \o Rest(remain, n)
          = sent \o (First(remain, n) \o Rest(remain, n))
    BY <1>1, <2>1, Associative
  <2> QED
    BY <1>1, <2>2 DEF Written
<1> QED
  BY <1>2, <1>3 DEF OrderInv, InputInOrder, Bytes

LEMMA WindowType == ASSUME OrderInv PROVE WindowNow \in Int
BY CountType DEF OrderInv, OrderTypes, WindowNow

LEMMA OrderNext == OrderInv /\ [Next]_vars => OrderInv'
<1> SUFFICES ASSUME OrderInv, [Next]_vars PROVE OrderInv'
  OBVIOUS
<1> USE DEF OrderInv
<1>1. ASSUME UNCHANGED input, UNCHANGED <<window, out>>,
             sock' \in Seq(Packet), UNCHANGED pc
      PROVE  OrderInv'
  BY <1>1 DEF input, OrderTypes, BufferFree, InputInOrder, Bytes
<1>2. ASSUME NEW p \in Packet, Send(p) PROVE OrderInv'
  BY <1>2, <1>1, AppendProperties DEF Send, net, OrderTypes
<1>3. CASE Environment
  <2>1. CASE Type \/ CloseWindow \/ Layout
    BY <2>1, <1>1 DEF Type, CloseWindow, Layout, net, server, OrderTypes
  <2>2. CASE Output
    BY <2>2, <1>2 DEF Output, Packet
  <2>3. CASE OpenWindow \/ CloseChannel
    BY <2>3, <1>2 DEF OpenWindow, CloseChannel, Packet
  <2>4. CASE Drain
    BY <2>4, <1>1 DEF Drain, server, OrderTypes
  <2> QED
    BY <1>3, <2>1, <2>2, <2>3, <2>4 DEF Environment
<1>4. ASSUME UNCHANGED <<input, sock>>, window' \in Int, out'.len \in Nat,
             pc' = "over" \/ (pc \notin {"send", "over"})
      PROVE  OrderInv'
  BY <1>4 DEF input, OrderTypes, BufferFree, InputInOrder, Bytes
<1>5. CASE Start \/ Select \/ Interrupted \/ InputHandled \/ GetSize \/ SameSize
           \/ EndOfTurn \/ Lost
  <2>1. UNCHANGED <<input, sock, window, out>>
    BY <1>5 DEF Start, Select, Interrupted, InputHandled, GetSize, SameSize,
                EndOfTurn, Lost, server, net
  <2>2. pc' = "over" \/ pc \notin {"send", "over"}
    BY <1>5 DEF Start, Select, Interrupted, InputHandled, GetSize, SameSize,
                EndOfTurn, Lost, End
  <2> QED
    BY <2>1, <2>2, <1>4 DEF OrderTypes
<1>6. CASE ReadBlocked \/ RequestPtySize
  <2>1. out'.len \in Nat
    BY <1>6 DEF ReadBlocked, RequestPtySize, PacketSent, PacketBlocked, None,
                Adjust, WindowChange, OrderTypes
  <2> QED
    BY <1>6, <2>1, <1>4 DEF ReadBlocked, RequestPtySize, server, OrderTypes
<1>7. CASE HandleInput
  <2>1. pc' = pc /\ UNCHANGED <<remain, sent, window, out, sock>>
    BY <1>7 DEF HandleInput, server, net
  <2>2. CASE UNCHANGED <<ring, pushed>>
    BY <2>1, <2>2, <1>1 DEF input, OrderTypes
  <2>3. CASE ring' = Append(ring, pushed + 1) /\ pushed' = pushed + 1
    <3>1. Append(ring, pushed + 1) = ring \o <<pushed + 1>>
      BY AppendIsConcat DEF OrderTypes
    <3>2. Following(pushed, 1) = <<pushed + 1>>
      BY DEF Following, OrderTypes
    <3>3. /\ ring' = ring \o Following(pushed, 1) /\ pushed' = pushed + 1
          /\ UNCHANGED <<remain, sent>> /\ 1 \in Nat
      BY <2>1, <2>3, <3>1, <3>2
    <3>4. InputInOrder' /\ ring' \in Seq(Nat)
      BY <3>3, Pushes
    <3> QED
      BY <2>1, <2>3, <3>4 DEF OrderTypes, BufferFree
  <2> QED
    BY <1>7, <2>2, <2>3 DEF HandleInput
<1>8. CASE Read
  <2> DEFINE query == {i \in 1..BufSize : i <= Len(Incoming) /\ Incoming[i] = "query"}
  <2>1. Cardinality(query) \in Nat
    <3>1. IsFiniteSet(1..BufSize)
      BY LoopAssumption, FS_Interval
    <3> QED
      BY <3>1, FS_Subset, FS_CardinalityType
  <2>2. /\ ring' = ring \o Following(pushed, Cardinality(query))
        /\ pushed' = pushed + Cardinality(query)
        /\ UNCHANGED <<remain, sent>>
    BY <1>8 DEF Read, Following
  <2>3. InputInOrder' /\ ring' \in Seq(Nat) /\ pushed' \in Nat
    <3> DEFINE k == Cardinality(query)
    <3>1. /\ k \in Nat
          /\ ring' = ring \o Following(pushed, k) /\ pushed' = pushed + k
          /\ UNCHANGED <<remain, sent>>
      BY <2>1, <2>2
    <3> HIDE DEF k
    <3>2. InputInOrder' /\ ring' \in Seq(Nat)
      BY <3>1, Pushes
    <3> QED
      BY <3>1, <3>2 DEF OrderTypes
  <2>4. window' \in Int /\ sock' \in Seq(Packet)
    BY <1>8, WindowType DEF Read
  <2>5. out'.len \in Nat
    BY <1>8 DEF Read, PacketSent, None, OrderTypes
  <2>6. remain' = << >>
    BY <1>8, <2>2 DEF Read, BufferFree
  <2> QED
    BY <2>2, <2>3, <2>4, <2>5, <2>6 DEF OrderTypes, BufferFree
<1>9. CASE ReadRing
  <2>1. remain = << >> /\ BufSize \in Nat
    BY <1>9, LoopAssumption DEF ReadRing, BufferFree
  <2>2. /\ remain' \in Seq(Nat) /\ ring' \in Seq(Nat)
        /\ remain' \o ring' = ring
    BY <1>9, <2>1, Cut DEF ReadRing, OrderTypes
  <2>3. (sent \o remain) \o ring = (sent \o remain') \o ring'
    <3>1. sent \in Seq(Nat) /\ sent \o remain = sent
      BY <2>1, ConcatEmptySeq DEF OrderTypes
    <3>2. (sent \o remain') \o ring' = sent \o (remain' \o ring')
      BY <2>2, <3>1, Associative
    <3> QED
      BY <2>2, <3>1, <3>2
  <2>4. UNCHANGED <<pushed, sent, sock, window, out>>
    BY <1>9 DEF ReadRing, server, net
  <2>5. BufferFree'
    <3>1. ring = << >> => First(ring, BufSize) = << >>
      BY <2>1 DEF First
    <3> QED
      BY <1>9, <3>1 DEF ReadRing, BufferFree
  <2>6. OrderTypes'
    BY <2>2, <2>4 DEF OrderTypes
  <2>7. InputInOrder'
    BY <2>3, <2>4 DEF InputInOrder, Bytes
  <2> QED
    BY <2>5, <2>6, <2>7
<1>10. ASSUME NEW n \in Nat, Written(n), UNCHANGED <<ring, pushed>>,
              out' = None, window' \in Int, sock' \in Seq(Packet),
              pc' = IF remain' = << >> THEN "write" ELSE "send"
       PROVE  OrderInv'
  <2>1. InputInOrder' /\ {remain', sent'} \subseteq Seq(Nat)
    BY <1>10, Writes
  <2>2. BufferFree'
    BY <1>10 DEF BufferFree
  <2> QED
    BY <1>10, <2>1, <2>2 DEF OrderTypes, None
<1>11. ASSUME UNCHANGED input, window' \in Int, sock' \in Seq(Packet),
              out'.len \in Nat, pc' \in {"send", "over"}
       PROVE  OrderInv'
  BY <1>11 DEF input, OrderTypes, BufferFree, InputInOrder, Bytes
<1>12. CASE Write
  <2>1. sock' \in Seq(Packet) /\ WindowNow \in Int /\ UNCHANGED <<ring, pushed>>
    BY <1>12, WindowType DEF Write
  <2>2. CASE WindowNow > 0 /\ WriteData(WriteSize(WindowNow))
    <3> DEFINE n == WriteSize(WindowNow)
    <3>1. n \in Nat
      BY <2>1, <2>2, LenProperties DEF WriteSize, OrderTypes
    <3> HIDE DEF n
    <3>2. CASE PacketSent /\ Written(n) /\ window' = WindowNow - n
               /\ pc' = IF remain' = << >> THEN "write" ELSE "send"
      <4>1. window' \in Int /\ out' = None
        BY <2>1, <3>1, <3>2 DEF PacketSent
      <4> QED
        BY <2>1, <3>1, <3>2, <4>1, <1>10
    <3>3. CASE /\ PacketBlocked(Data(n)) /\ window' = WindowNow /\ pc' = Again
               /\ UNCHANGED <<sent, remain>>
      <4>1. out'.len \in Nat
        BY <3>1, <3>3 DEF PacketBlocked, Data
      <4> QED
        BY <2>1, <3>3, <4>1, <1>11 DEF Again, input
    <3>4. CASE /\ End("misuse") /\ window' = WindowNow
               /\ UNCHANGED <<sent, remain, out, full>>
      BY <2>1, <3>4, <1>11 DEF End, input, OrderTypes
    <3>5. WriteData(n)
      BY <2>2 DEF n
    <3> QED
      BY <3>2, <3>3, <3>4, <3>5 DEF WriteData
  <2>3. CASE WindowNow = 0 /\ window' = WindowNow /\ pc' = Again
             /\ UNCHANGED <<why, sent, remain, out, full>>
    BY <2>1, <2>3, <1>11 DEF Again, input, OrderTypes
  <2> QED
    BY <1>12, <2>2, <2>3 DEF Write
<1>13. CASE WriteAgain
  <2>1. sock' \in Seq(Packet) /\ UNCHANGED <<ring, pushed>>
    BY <1>13 DEF WriteAgain, server, OrderTypes
  <2>2. CASE PacketSent /\ Written(out.len) /\ window' = window - out.len
             /\ pc' = IF remain' = << >> THEN "write" ELSE "send"
    <3>1. out.len \in Nat /\ window' \in Int /\ out' = None
      BY <2>2 DEF OrderTypes, PacketSent
    <3> QED
      BY <2>1, <2>2, <3>1, <1>10
  <2>3. CASE PacketBlocked(out) /\ pc' = Again /\ UNCHANGED <<window, sent, remain>>
    BY <2>1, <2>3, <1>11 DEF PacketBlocked, Again, input, OrderTypes
  <2> QED
    BY <1>13, <2>2, <2>3 DEF WriteAgain
<1>14. CASE UNCHANGED vars
  BY <1>14, <1>1 DEF vars, net, server, OrderTypes
<1> QED
  BY <1>3, <1>5, <1>6, <1>7, <1>8, <1>9, <1>12, <1>13, <1>14 DEF Next, Turn

\* Whatever the sizes of iobuf, of the server's window and of the socket, what
\* the ring accepts reaches the server in order, once, and without a gap.
THEOREM InputReachesServerInOrder == Spec => []InputInOrder
<1>1. OrderInv => InputInOrder
  BY DEF OrderInv
<1> QED
  BY <1>1, OrderInit, OrderNext, PTL DEF Spec

-----------------------------------------------------------------------------
(* The size of the window. *)

\* The size about to be reported is still that of the window, or the window has
\* changed again and said so.
SizeInv == /\ ServerSizeCurrent
           /\ pc = "request" => newsize \/ cols = size

LEMMA SizeNext == SizeInv /\ [Next]_vars => SizeInv'
<1> SUFFICES ASSUME SizeInv, [Next]_vars PROVE SizeInv'
  OBVIOUS
<1> USE DEF SizeInv, ServerSizeCurrent
<1>1. CASE Environment
  <2>1. UNCHANGED <<pc, cols, pty>>
    BY <1>1 DEF Environment, Type, CloseWindow, Layout, Output, Send, OpenWindow,
                CloseChannel, Drain
  <2>2. newsize' \/ UNCHANGED <<size, newsize>>
    BY <1>1 DEF Environment, Type, CloseWindow, Layout, Output, Send, OpenWindow,
                CloseChannel, Drain, user
  <2> QED
    BY <2>1, <2>2
<1>2. CASE Start
  BY <1>2 DEF Start
<1>3. CASE Select \/ Interrupted \/ HandleInput \/ InputHandled \/ ReadBlocked
           \/ Read
  BY <1>3 DEF Select, Interrupted, HandleInput, InputHandled, ReadBlocked, Read,
              user
<1>4. CASE GetSize
  BY <1>4 DEF GetSize
<1>5. CASE SameSize \/ ReadRing \/ EndOfTurn \/ Lost
  BY <1>5 DEF SameSize, ReadRing, EndOfTurn, Lost, End, user
<1>6. CASE RequestPtySize
  BY <1>6 DEF RequestPtySize, Reported, End
<1>7. CASE Write \/ WriteAgain
  <2>1. UNCHANGED <<newsize, size, cols, pty>> /\ pc = "send"
    BY <1>7 DEF Write, WriteAgain, user
  <2>2. pc' # "request"
    BY <1>7, <2>1 DEF Write, WriteAgain, WriteData, Again, End
  <2> QED
    BY <2>1, <2>2
<1>8. CASE UNCHANGED vars
  BY <1>8 DEF vars, user
<1> QED
  BY <1>1, <1>2, <1>3, <1>4, <1>5, <1>6, <1>7, <1>8 DEF Next, Turn

\* Layout may run between any two steps of the loop, and still no size is lost:
\* the server knows it, or NewSize will make the loop report it.
THEOREM ServerKnowsSize == Spec => []ServerSizeCurrent
<1>1. Init => SizeInv
  BY DEF Init, SizeInv, ServerSizeCurrent
<1>2. SizeInv => ServerSizeCurrent
  BY DEF SizeInv
<1> QED
  BY <1>1, <1>2, SizeNext, PTL DEF Spec

-----------------------------------------------------------------------------
(* The packet that is half sent. *)

LEMMA PartialNext ==
    ASSUME OrderInv, PartialIsResumed, [Next]_vars
    PROVE  PartialIsResumed'
<1> USE DEF PartialIsResumed
<1>1. ASSUME UNCHANGED <<out, remain>>,
             pc' = pc \/ pc' = "over" \/ pc \notin {"send", "over"}
      PROVE  PartialIsResumed'
  BY <1>1
<1>2. CASE Environment
  BY <1>1, <1>2 DEF Environment, Type, CloseWindow, Layout, Output, Send, OpenWindow,
                    CloseChannel, Drain, input, net
<1>3. CASE Start \/ Select \/ Interrupted \/ HandleInput \/ InputHandled \/ GetSize
           \/ SameSize \/ EndOfTurn \/ Lost
  BY <1>1, <1>3 DEF Start, Select, Interrupted, HandleInput, InputHandled, GetSize,
                    SameSize, EndOfTurn, Lost, End, input, net
<1>4. CASE ReadBlocked
  BY <1>4 DEF ReadBlocked, PacketBlocked
<1>5. CASE Read
  <2>1. out' = None
    BY <1>5 DEF Read, PacketSent
  <2> QED
    BY <2>1
<1>6. CASE RequestPtySize
  BY <1>6 DEF RequestPtySize, PacketSent, End
<1>7. CASE ReadRing
  BY <1>7 DEF ReadRing, net
<1>8. CASE Write
  <2> DEFINE n == WriteSize(WindowNow)
  <2>1. n <= Len(remain)
    <3>1. WindowNow \in Int /\ Len(remain) \in Int
      BY WindowType, LenProperties DEF OrderInv, OrderTypes
    <3> QED
      BY <3>1 DEF WriteSize
  <2> HIDE DEF n
  <2>2. (pc' = Again /\ UNCHANGED <<remain, out>>) \/ WriteData(n)
    BY <1>8 DEF Write, n
  <2>3. CASE pc' = Again /\ UNCHANGED <<remain, out>>
    BY <1>8, <2>3 DEF Write, Again
  <2>4. CASE WriteData(n)
    <3>1. CASE out' = None
      BY <3>1
    <3>2. CASE out' = Data(n) /\ pc' = Again /\ UNCHANGED remain
      BY <2>1, <3>2 DEF Data, Again
    <3>3. CASE End("misuse")
      BY <3>3 DEF End
    <3> QED
      BY <2>4, <3>1, <3>2, <3>3 DEF WriteData, PacketSent, PacketBlocked
  <2> QED
    BY <2>2, <2>3, <2>4
<1>9. CASE WriteAgain
  BY <1>9 DEF WriteAgain, PacketSent, PacketBlocked, Again
<1>10. CASE UNCHANGED vars
  BY <1>10 DEF vars, input, net
<1> QED
  BY <1>2, <1>3, <1>4, <1>5, <1>6, <1>7, <1>8, <1>9, <1>10 DEF Next, Turn

\* A packet of data that is half sent is what is left in iobuf, and the loop does
\* nothing but send it; only an adjustment of the window may wait for a later read.
THEOREM PartialStaysFirst == Spec => []PartialIsResumed
<1>1. Init => PartialIsResumed
  BY DEF Init, PartialIsResumed
<1>2. OrderInv /\ PartialIsResumed /\ [Next]_vars => PartialIsResumed'
  BY PartialNext
<1> QED
  BY <1>1, <1>2, OrderInit, OrderNext, PTL DEF Spec

-----------------------------------------------------------------------------
(* The server's window. *)

LEMMA CountEmpty == ASSUME NEW p PROVE Count(<< >>, p) = 0
<1>1. {i \in DOMAIN << >> : << >>[i] = p} = {}
  OBVIOUS
<1> QED
  BY <1>1, FS_EmptySet DEF Count

LEMMA CountAppend ==
    ASSUME NEW s \in Seq(Packet), NEW q \in Packet, NEW p
    PROVE  Count(Append(s, q), p) = Count(s, p) + IF q = p THEN 1 ELSE 0
<1> DEFINE t == Append(s, q)
           n == Len(s) + 1
           old == {i \in DOMAIN s : s[i] = p}
           new == {i \in DOMAIN t : t[i] = p}
<1>1. /\ Len(s) \in Nat /\ DOMAIN s = 1..Len(s) /\ DOMAIN t = 1..n
      /\ t[n] = q /\ \A i \in 1..Len(s) : t[i] = s[i]
  BY AppendProperties, LenProperties
<1>2. IsFiniteSet(old)
  <2>1. IsFiniteSet(DOMAIN s)
    BY <1>1, FS_Interval
  <2>2. old \in SUBSET DOMAIN s
    OBVIOUS
  <2> QED
    BY <2>1, <2>2, FS_Subset
<1>3. n \notin old
  BY <1>1
<1>4. new = IF q = p THEN old \cup {n} ELSE old
  <2> HIDE DEF t
  <2> QED
    BY <1>1
<1>5. Cardinality(old) \in Nat
  BY <1>2, FS_CardinalityType
<1> HIDE DEF old, new
<1>6. Cardinality(new) = Cardinality(old) + IF q = p THEN 1 ELSE 0
  <2>1. Cardinality(old \cup {n}) = Cardinality(old) + 1
    BY <1>2, <1>3, FS_AddElement
  <2> QED
    BY <1>4, <1>5, <2>1
<1> QED
  BY <1>6 DEF Count, old, new, t

\* What the server has given back and what it still takes is its window at most, and
\* the rest of a packet that is half sent has been taken into account.
WindowInv ==
    /\ window >= 0 /\ WindowNow <= Window
    /\ out.kind = "data" => out.len <= window

LEMMA WindowNext ==
    ASSUME OrderInv, WindowInv, [Next]_vars
    PROVE  WindowInv'
<1> DEFINE given == Count(sock, "adjust")
<1>1. /\ given \in Nat /\ window \in Int /\ out.len \in Nat /\ Window \in Nat
      /\ WindowNow = window + given /\ sock \in Seq(Packet)
  BY CountType, LoopAssumption DEF OrderInv, OrderTypes, WindowNow
<1>2. ASSUME UNCHANGED <<window, sock>>,
             out' = out \/ out'.kind # "data"
      PROVE  WindowInv'
  BY <1>2 DEF WindowInv, WindowNow
<1>3. ASSUME NEW p \in Packet, Send(p),
             p = "adjust" => window + given < Window
      PROVE  WindowInv'
  <2>1. sock' = Append(sock, p) /\ UNCHANGED <<window, out>>
    BY <1>3 DEF Send, net
  <2>2. Count(sock', "adjust") = given + IF p = "adjust" THEN 1 ELSE 0
    BY <2>1, <1>1, CountAppend
  <2>3. WindowNow' = window + Count(sock', "adjust")
    BY <2>1 DEF WindowNow
  <2> HIDE DEF given
  <2>4. WindowNow' <= Window
    <3>1. CASE p = "adjust"
      BY <3>1, <1>1, <1>3, <2>2, <2>3
    <3>2. CASE p # "adjust"
      BY <3>2, <1>1, <2>2, <2>3 DEF WindowInv
    <3> QED
      BY <3>1, <3>2
  <2> QED
    BY <2>1, <2>4 DEF WindowInv
<1>4. CASE Environment
  <2>1. CASE Type \/ CloseWindow \/ Layout \/ Drain
    BY <2>1, <1>2 DEF Type, CloseWindow, Layout, Drain, net, server
  <2>2. CASE Output
    BY <2>2, <1>3 DEF Output, Packet
  <2>3. CASE OpenWindow
    BY <2>3, <1>3 DEF OpenWindow, Packet
  <2>4. CASE CloseChannel
    BY <2>4, <1>3 DEF CloseChannel, Packet
  <2> QED
    BY <1>4, <2>1, <2>2, <2>3, <2>4 DEF Environment
<1>5. CASE Start \/ Select \/ Interrupted \/ HandleInput \/ InputHandled \/ GetSize
           \/ SameSize \/ ReadRing \/ EndOfTurn \/ Lost
  BY <1>5, <1>2 DEF Start, Select, Interrupted, HandleInput, InputHandled, GetSize,
                    SameSize, ReadRing, EndOfTurn, Lost, net, server
<1>6. CASE ReadBlocked \/ RequestPtySize
  <2>1. UNCHANGED <<window, sock>>
    BY <1>6 DEF ReadBlocked, RequestPtySize, server
  <2>2. out' = out \/ out'.kind # "data"
    BY <1>6 DEF ReadBlocked, RequestPtySize, PacketSent, PacketBlocked, None, Adjust,
                WindowChange
  <2> QED
    BY <2>1, <2>2, <1>2
\* The incoming flow is drained, and at most what the server takes is sent.
<1>7. ASSUME sock' = << >>, NEW n \in Nat, n <= WindowNow, window' = WindowNow - n,
             out'.kind = "data" => out'.len <= window'
      PROVE  WindowInv'
  <2>1. WindowNow' = window'
    BY <1>7, <1>1, CountEmpty DEF WindowNow
  <2> QED
    BY <1>7, <2>1, <1>1 DEF WindowInv
<1>8. CASE Read
  <2>1. sock' = << >> /\ window' = WindowNow
    BY <1>8 DEF Read
  <2>2. out' = out \/ out' = None
    BY <1>8 DEF Read, PacketSent
  <2>3. out'.kind = "data" => out'.len <= window'
    BY <2>1, <2>2, <1>1 DEF None, WindowInv
  <2>4. 0 <= WindowNow /\ window' = WindowNow - 0
    BY <2>1, <1>1 DEF WindowInv
  <2> QED
    BY <2>1, <2>3, <2>4, <1>7
<1>9. CASE Write
  <2> DEFINE n == WriteSize(WindowNow)
  <2>1. sock' = << >> /\ out.kind # "data"
    BY <1>9 DEF Write
  <2>2. 0 <= WindowNow /\ WindowNow \in Nat
    BY <1>1 DEF WindowInv
  <2>3. n \in Nat /\ n <= WindowNow
    <3>1. Len(remain) \in Nat
      BY LenProperties DEF OrderInv, OrderTypes
    <3> QED
      BY <2>2, <3>1 DEF WriteSize
  <2> HIDE DEF n
  <2>4. CASE window' = WindowNow - n /\ out' = None
    BY <2>1, <2>3, <2>4, <1>7 DEF None
  <2>5. CASE window' = WindowNow /\ (out' = Data(n) \/ out' = out)
    <3>1. window' = WindowNow - 0
      BY <2>2, <2>5
    <3>2. out'.kind = "data" => out'.len <= window'
      BY <2>1, <2>3, <2>5 DEF Data
    <3> QED
      BY <2>1, <2>2, <3>1, <3>2, <1>7
  <2>6. WriteData(n) \/ (window' = WindowNow /\ out' = out)
    BY <1>9 DEF Write, n
  <2> QED
    BY <2>4, <2>5, <2>6 DEF WriteData, PacketSent, PacketBlocked
<1>10. CASE WriteAgain
  <2>1. out.kind = "data" /\ sock' = sock
    BY <1>10 DEF WriteAgain, server
  <2>2. CASE window' = window - out.len /\ out' = None
    <3>1. window' >= 0 /\ window' <= window
      BY <2>1, <2>2, <1>1 DEF WindowInv
    <3>2. WindowNow' = window' + given
      BY <2>1 DEF WindowNow
    <3> HIDE DEF given
    <3> QED
      BY <2>2, <3>1, <3>2, <1>1 DEF WindowInv, None
  <2>3. CASE window' = window /\ out' = out
    BY <2>1, <2>3, <1>2
  <2> QED
    BY <1>10, <2>2, <2>3 DEF WriteAgain, PacketSent, PacketBlocked
<1>11. CASE UNCHANGED vars
  BY <1>11, <1>2 DEF vars, net, server
<1> QED
  BY <1>4, <1>5, <1>6, <1>8, <1>9, <1>10, <1>11 DEF Next, Turn

LEMMA WindowInit == Init => WindowInv
<1> SUFFICES ASSUME Init PROVE WindowInv
  OBVIOUS
<1>1. window \in 0..Window /\ sock = << >> /\ out = None /\ Window \in Nat
  BY LoopAssumption DEF Init
<1>2. WindowNow = window
  BY <1>1, CountEmpty DEF WindowNow
<1> QED
  BY <1>1, <1>2 DEF WindowInv, None

LEMMA WindowBound == ASSUME OrderInv, WindowInv PROVE window \in 0..Window
<1>1. /\ Count(sock, "adjust") \in Nat /\ window \in Int /\ Window \in Nat
      /\ WindowNow = window + Count(sock, "adjust")
  BY CountType, LoopAssumption DEF OrderInv, OrderTypes, WindowNow
<1> QED
  BY <1>1 DEF WindowInv

\* "Don't exceed the remote end's limits" (libssh2, channel.c): whatever is typed and
\* wherever a full socket cuts a packet, the loop never sends more than the server has
\* said it takes, and the window never counts more than the server has given.
THEOREM WindowIsKept == Spec => [](window \in 0..Window)
<1>1. OrderInv /\ WindowInv /\ [Next]_vars => WindowInv'
  BY WindowNext
<1>2. OrderInv /\ WindowInv => window \in 0..Window
  BY WindowBound
<1> QED
  BY <1>1, <1>2, WindowInit, OrderInit, OrderNext, PTL DEF Spec

-----------------------------------------------------------------------------
(* Types. *)

Labels == {"start", "select", "input", "read", "size", "request", "write", "send", "eof",
           "over"}
Reasons == {"running", "closed", "eof", "lost", "blocked", "misuse"}
Kinds == {"none", "adjust", "size", "data"}
Texts == {"text", "query"}

\* The output among the first i packets of s, for i up to n.
Upward(s, n, f) ==
    f = [i \in 0..n |-> IF i = 0 THEN << >>
                        ELSE IF IsOutput(s[i]) THEN Append(f[i - 1], s[i]) ELSE f[i - 1]]

LEMMA NatSet ==
    ASSUME NEW S, 0 \in S, \A n \in Nat : n \in S => n + 1 \in S
    PROVE  Nat \subseteq S
<1> DEFINE T == {n \in Nat : n \notin S}
           R == {ss \in Nat \X Nat : ss[1] < ss[2]}
<1>1. SUFFICES ASSUME T # {} PROVE FALSE
  OBVIOUS
<1>2. IsWellFoundedOn(R, Nat)
  BY NatLessThanWellFounded DEF OpToRel
<1>3. PICK n \in T : \A m \in T : ~(<<m, n>> \in R)
  BY <1>1, <1>2, WFMin, Zenon
<1>4. n \in Nat /\ n \notin S
  BY <1>3
<1>5. n # 0
  BY <1>4
<1>6. n - 1 \in Nat /\ <<n - 1, n>> \in R
  BY <1>4, <1>5
<1>7. n - 1 \in S
  BY <1>3, <1>6
<1> QED
  BY <1>4, <1>6, <1>7

LEMMA OutputOfType ==
    ASSUME NEW s \in Seq(Packet)
    PROVE  OutputOf(s) \in Seq(Texts)
<1> DEFINE T == {n \in Nat : \E f : Upward(s, n, f)}
<1>1. 0 \in T
  <2>1. Upward(s, 0, [i \in 0..0 |-> << >>])
    BY DEF Upward
  <2> QED
    BY <2>1
<1>2. ASSUME NEW n \in Nat, n \in T PROVE n + 1 \in T
  <2>1. PICK f : Upward(s, n, f)
    BY <1>2
  <2> DEFINE last == IF IsOutput(s[n + 1]) THEN Append(f[n], s[n + 1]) ELSE f[n]
             g == [i \in 0..(n + 1) |-> IF i <= n THEN f[i] ELSE last]
  <2>2. ASSUME NEW i \in 0..(n + 1)
        PROVE  g[i] = IF i = 0 THEN << >>
                      ELSE IF IsOutput(s[i]) THEN Append(g[i - 1], s[i]) ELSE g[i - 1]
    <3>1. CASE i = 0
      BY <2>1, <3>1 DEF Upward
    <3>2. CASE i # 0 /\ i <= n
      <4>1. i \in 0..n /\ i - 1 \in 0..(n + 1) /\ i - 1 <= n
        BY <3>2
      <4>2. f[i] = IF IsOutput(s[i]) THEN Append(f[i - 1], s[i]) ELSE f[i - 1]
        BY <2>1, <3>2, <4>1 DEF Upward
      <4> QED
        BY <3>2, <4>1, <4>2
    <3>3. CASE i = n + 1
      <4>1. ~(n + 1 <= n) /\ n \in 0..(n + 1) /\ n <= n /\ (n + 1) - 1 = n /\ n + 1 # 0
        OBVIOUS
      <4>2. g[i] = last /\ g[i - 1] = f[n]
        BY <3>3, <4>1
      <4> HIDE DEF g
      <4> QED
        BY <3>3, <4>1, <4>2
    <3> QED
      BY <3>1, <3>2, <3>3
  <2>3. g = [i \in 0..(n + 1) |-> g[i]]
    OBVIOUS
  <2> HIDE DEF g
  <2>4. Upward(s, n + 1, g)
    BY <2>2, <2>3 DEF Upward
  <2> QED
    BY <2>4
<1>3. Nat \subseteq T
  <2> HIDE DEF T
  <2> QED
    BY <1>1, <1>2, NatSet
<1>4. Len(s) \in Nat
  BY LenProperties
<1> DEFINE f == CHOOSE x : Upward(s, Len(s), x)
<1>5. OutputOf(s) = f[Len(s)]
  BY DEF OutputOf, Upward
<1>6. Upward(s, Len(s), f)
  <2>1. \E x : Upward(s, Len(s), x)
    BY <1>3, <1>4
  <2> QED
    BY <2>1
<1> HIDE DEF f
<1> DEFINE S == {i \in Nat : i <= Len(s) => f[i] \in Seq(Texts)}
<1>7. 0 \in S
  BY <1>4, <1>6 DEF Upward
<1>8. ASSUME NEW i \in Nat, i \in S PROVE i + 1 \in S
  <2>1. SUFFICES ASSUME i + 1 <= Len(s) PROVE f[i + 1] \in Seq(Texts)
    OBVIOUS
  <2>2. f[i] \in Seq(Texts)
    BY <1>4, <1>8, <2>1
  <2>3. f[i + 1] = IF IsOutput(s[i + 1]) THEN Append(f[i], s[i + 1]) ELSE f[i]
    <3>1. i + 1 \in 0..Len(s) /\ i + 1 # 0 /\ (i + 1) - 1 = i
      BY <1>4, <2>1
    <3> QED
      BY <1>6, <3>1 DEF Upward
  <2> QED
    BY <2>2, <2>3, AppendProperties DEF IsOutput, Texts
<1> HIDE DEF S
<1>9. Nat \subseteq S
  BY <1>7, <1>8, NatSet
<1> QED
  BY <1>4, <1>5, <1>9 DEF S

\* Cutting makes no sequence longer.
LEMMA CutLengths ==
    ASSUME NEW S, NEW s \in Seq(S), NEW n \in Nat
    PROVE  /\ Len(First(s, n)) \in Nat /\ Len(First(s, n)) <= n
           /\ Len(Rest(s, n)) \in Nat /\ Len(Rest(s, n)) <= Len(s)
<1> DEFINE k == IF n > Len(s) THEN Len(s) ELSE n
<1>1. Len(s) \in Nat
  BY LenProperties
<1>2. k \in 0..Len(s) /\ k <= n
  BY <1>1
<1> HIDE DEF k
<1>3. Len(SubSeq(s, 1, k)) = k
  BY <1>1, <1>2
<1>4. Len(SubSeq(s, k + 1, Len(s))) = Len(s) - k
  BY <1>1, <1>2
<1>5. First(s, n) = SubSeq(s, 1, k) /\ Rest(s, n) = SubSeq(s, k + 1, Len(s))
  BY DEF First, Rest, k
<1> QED
  BY <1>1, <1>2, <1>3, <1>4, <1>5

\* The bytes are those that have been pushed.
LEMMA BytesType ==
    ASSUME OrderInv
    PROVE  {ring, remain, sent} \subseteq Seq(Bytes)
<1> DEFINE a == Len(sent)
           b == Len(remain)
           c == Len(ring)
           written == sent \o remain
           all == written \o ring
<1>1. /\ sent \in Seq(Nat) /\ remain \in Seq(Nat) /\ ring \in Seq(Nat)
      /\ pushed \in Nat /\ all = [i \in 1..pushed |-> i]
  BY DEF OrderInv, OrderTypes, InputInOrder, Bytes
<1>2. a \in Nat /\ b \in Nat /\ c \in Nat
  BY <1>1, LenProperties
<1>3. /\ written \in Seq(Nat) /\ Len(written) = a + b
      /\ \A i \in 1..(a + b) : written[i] = IF i <= a THEN sent[i] ELSE remain[i - a]
  BY <1>1, Concat
<1> HIDE DEF written
<1>4. /\ Len(all) = (a + b) + c
      /\ \A i \in 1..((a + b) + c) :
             all[i] = IF i <= a + b THEN written[i] ELSE ring[i - (a + b)]
  <2>1. /\ Len(written \o ring) = Len(written) + c
        /\ \A i \in 1..(Len(written) + c) :
               (written \o ring)[i] = IF i <= Len(written) THEN written[i]
                                      ELSE ring[i - Len(written)]
    BY <1>1, <1>3, Concat
  <2> QED
    BY <1>3, <2>1
<1>5. Len(all) = pushed
  BY <1>1
<1>6. pushed = (a + b) + c
  BY <1>4, <1>5
<1>7. \A i \in 1..pushed : all[i] = i
  BY <1>1
<1> HIDE DEF a, b, c, all
<1>8. ASSUME NEW i \in 1..a PROVE sent[i] \in Bytes
  <2>1. i \in 1..(a + b) /\ i \in 1..((a + b) + c) /\ i <= a /\ i <= a + b
    BY <1>2
  <2> QED
    BY <1>3, <1>4, <1>6, <1>7, <2>1 DEF Bytes
<1>9. ASSUME NEW i \in 1..b PROVE remain[i] \in Bytes
  <2>1. /\ a + i \in 1..(a + b) /\ a + i \in 1..((a + b) + c) /\ ~(a + i <= a)
        /\ a + i <= a + b /\ (a + i) - a = i
    BY <1>2
  <2>2. written[a + i] = remain[i]
    BY <1>3, <2>1
  <2>3. all[a + i] = written[a + i] /\ all[a + i] = a + i
    BY <1>4, <1>6, <1>7, <2>1
  <2> QED
    BY <1>6, <2>1, <2>2, <2>3 DEF Bytes
<1>10. ASSUME NEW i \in 1..c PROVE ring[i] \in Bytes
  <2>1. /\ (a + b) + i \in 1..((a + b) + c) /\ ~((a + b) + i <= a + b)
        /\ ((a + b) + i) - (a + b) = i
    BY <1>2
  <2> QED
    BY <1>4, <1>6, <1>7, <2>1 DEF Bytes
<1>11. ASSUME NEW s \in Seq(Nat), \A i \in 1..Len(s) : s[i] \in Bytes PROVE s \in Seq(Bytes)
  <2>1. s \in [1..Len(s) -> Bytes] /\ Len(s) \in Nat
    BY <1>11, LenProperties
  <2> QED
    BY <2>1, SeqDef
<1>12. sent \in Seq(Bytes)
  BY <1>1, <1>8, <1>11 DEF a
<1>13. remain \in Seq(Bytes)
  BY <1>1, <1>9, <1>11 DEF b
<1>14. ring \in Seq(Bytes)
  BY <1>1, <1>10, <1>11 DEF c
<1> QED
  BY <1>12, <1>13, <1>14

TypeInv ==
    /\ pc \in Labels /\ why \in Reasons
    /\ done \in BOOLEAN /\ newsize \in BOOLEAN /\ eof \in BOOLEAN /\ full \in BOOLEAN
    /\ events \in Seq({"key", "close"})
    /\ size \in Sizes /\ cols \in Sizes /\ pty \in Sizes
    /\ lib \in Seq(Texts)
    /\ out.kind \in Kinds /\ out.len <= BufSize
    /\ Len(remain) <= BufSize

LEMMA TypeInit == ASSUME Init PROVE TypeInv
<1>1. BufSize \in Nat /\ BufSize >= 0
  BY LoopAssumption
<1>2. Len(remain) = 0 /\ out.kind = "none" /\ out.len = 0
  BY DEF Init, None
<1>3. events \in Seq({"key", "close"}) /\ lib \in Seq(Texts)
  BY DEF Init
<1>4. Len(remain) <= BufSize /\ out.len <= BufSize
  BY <1>1, <1>2
<1> QED
  BY <1>2, <1>3, <1>4 DEF Init, TypeInv, Labels, Reasons, Kinds

LEMMA EnvironmentTypes == ASSUME TypeInv, Environment PROVE TypeInv'
<1> USE DEF TypeInv
<1>1. CASE Type \/ CloseWindow
  BY <1>1, AppendProperties DEF Type, CloseWindow, input, net
<1>2. CASE Layout
  BY <1>2 DEF Layout, input, net
<1>3. CASE Output \/ OpenWindow \/ CloseChannel
  BY <1>3 DEF Output, OpenWindow, CloseChannel, Send, user, input, net
<1>4. CASE Drain
  BY <1>4 DEF Drain, user, input
<1> QED
  BY <1>1, <1>2, <1>3, <1>4 DEF Environment

\* The steps that leave what is queued and written alone.
LEMMA PlainTypes ==
    ASSUME TypeInv,
           \/ Start \/ Select \/ Interrupted \/ HandleInput \/ InputHandled \/ ReadBlocked
           \/ GetSize \/ SameSize \/ EndOfTurn \/ Lost \/ UNCHANGED vars
    PROVE  TypeInv'
<1> USE DEF TypeInv, Labels, Reasons, Kinds
<1>1. CASE Start \/ Select \/ Interrupted \/ InputHandled \/ GetSize \/ SameSize \/ Lost
  BY <1>1 DEF Start, Select, Interrupted, InputHandled, GetSize, SameSize, Lost, End, user,
              input, net
<1>2. CASE HandleInput
  <2>1. events' \in Seq({"key", "close"})
    BY <1>2, HeadTailProperties DEF HandleInput
  <2> QED
    BY <1>2, <2>1 DEF HandleInput, net
<1>3. CASE ReadBlocked
  BY <1>3, LoopAssumption DEF ReadBlocked, PacketBlocked, Adjust, user, input
<1>4. CASE EndOfTurn
  BY <1>4 DEF EndOfTurn, Ends, AtEof, End, user, input, net
<1>5. CASE UNCHANGED vars
  BY <1>5 DEF vars, user, input, net
<1> QED
  BY <1>1, <1>2, <1>3, <1>4, <1>5

LEMMA IncomingType ==
    ASSUME OrderInv, TypeInv
    PROVE  Incoming \in Seq(Texts) /\ EofNow \in BOOLEAN
<1>1. OutputOf(sock) \in Seq(Texts)
  BY OutputOfType DEF OrderInv, OrderTypes
<1>2. Incoming \in Seq(Texts)
  BY <1>1, ConcatProperties DEF TypeInv, Incoming
<1> QED
  BY <1>2 DEF TypeInv, EofNow, Contains

LEMMA SentTypes ==
    ASSUME TypeInv, PacketSent
    PROVE  full' \in BOOLEAN /\ out'.kind \in Kinds /\ out'.len <= BufSize
BY LoopAssumption DEF PacketSent, None, Kinds

LEMMA ReadTypes == ASSUME OrderInv, TypeInv, Read PROVE TypeInv'
<1>1. BufSize \in Nat
  BY LoopAssumption
<1>2. Incoming \in Seq(Texts) /\ EofNow \in BOOLEAN
  BY IncomingType
<1>3. lib' \in Seq(Texts)
  BY <1>1, <1>2, Cut DEF Read
<1>4. full' \in BOOLEAN /\ out'.kind \in Kinds /\ out'.len <= BufSize
  BY SentTypes DEF Read, TypeInv
<1>5. pc' \in Labels
  BY DEF Read, Labels
<1>6. UNCHANGED <<done, why, events, size, newsize, remain, cols, pty>> /\ eof' = EofNow
  BY DEF Read, user
<1> QED
  BY <1>2, <1>3, <1>4, <1>5, <1>6 DEF TypeInv

LEMMA RequestTypes == ASSUME TypeInv, RequestPtySize PROVE TypeInv'
<1>1. UNCHANGED <<done, events, size, remain, cols, lib, eof>>
  BY DEF RequestPtySize, input
<1>2. full' \in BOOLEAN /\ out'.kind \in Kinds /\ out'.len <= BufSize
  <2>1. CASE PacketSent
    BY <2>1, SentTypes
  <2>2. CASE PacketBlocked(WindowChange)
    <3>1. BufSize \in Nat /\ 0 <= BufSize
      BY LoopAssumption
    <3> QED
      BY <2>2, <3>1 DEF PacketBlocked, WindowChange, Kinds
  <2>3. CASE UNCHANGED <<out, full>>
    BY <2>3 DEF TypeInv
  <2> QED
    BY <2>1, <2>2, <2>3 DEF RequestPtySize
<1>3. pc' \in Labels /\ why' \in Reasons
  BY DEF RequestPtySize, End, Labels, Reasons, TypeInv
<1>4. newsize' = newsize /\ pty' \in {pty, cols}
  BY DEF RequestPtySize, Reported
<1> QED
  BY <1>1, <1>2, <1>3, <1>4 DEF TypeInv

LEMMA ReadRingTypes == ASSUME OrderInv, TypeInv, ReadRing PROVE TypeInv'
<1>1. Len(remain') <= BufSize
  BY CutLengths, LoopAssumption DEF ReadRing, OrderInv, OrderTypes
<1>2. pc' \in Labels
  BY DEF ReadRing, Labels
<1> QED
  BY <1>1, <1>2 DEF ReadRing, TypeInv, user, net

LEMMA WrittenTypes ==
    ASSUME OrderInv, TypeInv, NEW n \in Nat, Written(n)
    PROVE  Len(remain') <= BufSize
<1>1. remain \in Seq(Nat) /\ Len(remain) \in Nat /\ BufSize \in Nat /\ Len(remain) <= BufSize
  BY LenProperties, LoopAssumption DEF OrderInv, OrderTypes, TypeInv
<1>2. Len(Rest(remain, n)) \in Nat /\ Len(Rest(remain, n)) <= Len(remain)
  BY <1>1, CutLengths
<1> QED
  BY <1>1, <1>2 DEF Written

LEMMA WriteTypes ==
    ASSUME OrderInv, WindowInv, TypeInv, Write \/ WriteAgain
    PROVE  TypeInv'
<1>1. UNCHANGED <<done, events, size, newsize, cols, pty>>
  BY DEF Write, WriteAgain, user
<1>2. lib' \in Seq(Texts) /\ eof' \in BOOLEAN
  BY IncomingType DEF Write, WriteAgain, TypeInv
<1>3. pc' \in Labels /\ why' \in Reasons
  BY DEF Write, WriteAgain, WriteData, End, Again, Labels, Reasons, TypeInv
<1>4. Len(remain) \in Nat /\ BufSize \in Nat /\ Len(remain) <= BufSize /\ out.len \in Nat
  BY LenProperties, LoopAssumption DEF OrderInv, OrderTypes, TypeInv
<1>5. /\ full' \in BOOLEAN /\ out'.kind \in Kinds /\ out'.len <= BufSize
      /\ Len(remain') <= BufSize
  <2>1. CASE WriteAgain
    <3>1. CASE PacketSent /\ Written(out.len)
      BY <1>4, <3>1, SentTypes, WrittenTypes
    <3>2. CASE PacketBlocked(out) /\ UNCHANGED remain
      BY <3>2 DEF PacketBlocked, TypeInv
    <3> QED
      BY <2>1, <3>1, <3>2 DEF WriteAgain
  <2>2. CASE Write
    <3> DEFINE n == WriteSize(WindowNow)
    <3>1. CASE UNCHANGED <<remain, out, full>>
      BY <3>1 DEF TypeInv
    <3>2. CASE WindowNow > 0 /\ WriteData(n)
      <4>1. WindowNow \in Int
        BY WindowType
      <4>2. n \in Nat /\ n <= BufSize
        BY <1>4, <3>2, <4>1 DEF WriteSize
      <4> HIDE DEF n
      <4>3. CASE PacketSent /\ Written(n)
        BY <4>2, <4>3, SentTypes, WrittenTypes
      <4>4. CASE PacketBlocked(Data(n)) /\ UNCHANGED remain
        BY <4>2, <4>4 DEF PacketBlocked, Data, Kinds, TypeInv
      <4>5. CASE UNCHANGED <<remain, out, full>>
        BY <4>5 DEF TypeInv
      <4> QED
        BY <3>2, <4>3, <4>4, <4>5 DEF WriteData
    <3> QED
      BY <2>2, <3>1, <3>2 DEF Write
  <2> QED
    BY <2>1, <2>2
<1> QED
  BY <1>1, <1>2, <1>3, <1>5 DEF TypeInv

LEMMA TypesFollow ==
    ASSUME OrderInv, TypeInv, window \in 0..Window
    PROVE  TypeOK
<1>1. {ring, remain, sent} \subseteq Seq(Bytes)
  BY BytesType
<1>2. out.len \in 0..BufSize
  BY LoopAssumption DEF OrderInv, OrderTypes, TypeInv
<1> QED
  BY <1>1, <1>2 DEF OrderInv, OrderTypes, TypeInv, TypeOK, Labels, Reasons, Kinds, Texts

\* The loop is where it can be and holds what it can hold: iobuf never more than fits
\* and no byte that nobody typed, the packet that is half sent no more than iobuf, and
\* the server's window no more than it gave (main.c:445-620, channel.c, transport.c).
THEOREM LoopTypes == Spec => []TypeOK
<1>1. OrderInv /\ WindowInv /\ TypeInv /\ [Next]_vars => TypeInv'
  <2> SUFFICES ASSUME OrderInv, WindowInv, TypeInv, [Next]_vars PROVE TypeInv'
    OBVIOUS
  <2> QED
    BY EnvironmentTypes, PlainTypes, ReadTypes, RequestTypes, ReadRingTypes, WriteTypes
       DEF Next, Turn
<1>2. Init => WindowInv
  BY WindowInit
<1>3. OrderInv /\ WindowInv /\ [Next]_vars => WindowInv'
  BY WindowNext
<1>4. OrderInv /\ WindowInv /\ TypeInv => TypeOK
  BY TypesFollow, WindowBound
<1> QED
  BY <1>1, <1>2, <1>3, <1>4, TypeInit, OrderInit, OrderNext, PTL DEF Spec

=============================================================================
