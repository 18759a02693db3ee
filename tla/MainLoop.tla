----------------------------- MODULE MainLoop -----------------------------
(***************************************************************************)
(* src/main.c, the loop of sshterm() that joins the window (src/termwin.c) *)
(* to the SSH channel, and what it relies on of libssh2: a channel that    *)
(* works without blocking, its window, and the one packet that may be half *)
(* sent.                                                                   *)
(*                                                                         *)
(* The user types, resizes and closes the window, and the server sends, at *)
(* any point between two steps of the loop.  Bytes typed are the numbers   *)
(* from 1; the ring buffer is the queue it implements (ShlRing, FifoQueue).*)
(***************************************************************************)
EXTENDS Integers, Sequences, FiniteSets

CONSTANTS Sizes,      \* sizes of the terminal in columns and rows
          MaxKeys,    \* bound: keys typed
          MaxOutput,  \* bound: packets of output, unless Flood
          Flood,      \* whether the server never stops sending
          MayQuery,   \* whether output may ask the terminal for a reply
          BufSize,    \* bytes, or packets, that fit in iobuf
          Window,     \* bytes the server takes before it must open its window
          SockSize    \* bound: packets of the server on their way

ASSUME LoopAssumption ==
    /\ Sizes # {} /\ {MaxKeys, MaxOutput} \subseteq Nat
    /\ {Flood, MayQuery} \subseteq BOOLEAN
    /\ {BufSize, Window, SockSize} \subseteq Nat \ {0}

VARIABLES pc,       \* where the loop is
          done,     \* it ends after this turn
          why,      \* and why it has ended
          events,   \* messages at the window's port
          ring,     \* TermWindow.RingBuffer
          remain,   \* what is left in iobuf of the bytes to be written
          pushed,   \* bytes the ring has accepted so far
          sent,     \* bytes the server has got
          size,     \* TermWindow.Columns and Rows
          newsize,  \* TermWindow.NewSize
          cols,     \* the size the loop is about to report
          pty,      \* the size the server knows
          sock,     \* the server's packets not yet read from the socket
          lib,      \* output libssh2 has queued for the channel
          eof,      \* the server has closed its end
          window,   \* bytes the server still takes
          out,      \* the packet that is half sent
          full,     \* the socket takes nothing
          fds,      \* what waitselect said
          left      \* keys and output to come

user == <<events, size, newsize>>
server == <<sock, left>>
input == <<ring, remain, pushed, sent>>
net == <<lib, eof, window, out, full>>
vars == <<pc, done, why, user, input, cols, pty, server, net, fds>>

None == [kind |-> "none", len |-> 0]
Packet == {"text", "query", "adjust", "eof"}

Contains(s, p) == \E i \in DOMAIN s : s[i] = p
Count(s, p) == Cardinality({i \in DOMAIN s : s[i] = p})

First(s, n) == SubSeq(s, 1, IF n > Len(s) THEN Len(s) ELSE n)
Rest(s, n) == SubSeq(s, (IF n > Len(s) THEN Len(s) ELSE n) + 1, Len(s))

Init ==
    /\ pc = "start" /\ done = FALSE /\ why = "running"
    /\ events = << >> /\ ring = << >> /\ remain = << >>
    /\ pushed = 0 /\ sent = << >>
    /\ size \in Sizes /\ cols = size /\ pty = size /\ newsize \in BOOLEAN
    /\ sock = << >> /\ lib = << >> /\ eof = FALSE
    /\ window \in 0..Window /\ out = None /\ full = FALSE
    /\ fds = [r |-> FALSE, w |-> FALSE]
    /\ left = [keys |-> MaxKeys, output |-> MaxOutput]

-----------------------------------------------------------------------------
(* The user.  Layout runs on the task of the system that resizes windows: it *)
(* calls the hook whenever it likes.                                         *)

Type == /\ left.keys > 0
        /\ events' = Append(events, "key")
        /\ left' = [left EXCEPT !.keys = @ - 1]
        /\ UNCHANGED <<pc, done, why, size, newsize, input, cols, pty, sock, net, fds>>

CloseWindow == /\ ~done /\ ~Contains(events, "close")
               /\ events' = Append(events, "close")
               /\ UNCHANGED <<pc, done, why, size, newsize, input, cols, pty,
                              server, net, fds>>

\* THM_RESIZE of term_hook_cb
Layout == /\ size' \in Sizes \ {size}
          /\ newsize' = TRUE
          /\ UNCHANGED <<pc, done, why, events, input, cols, pty, server, net, fds>>

(* The server and the network. *)

Closing == eof \/ Contains(sock, "eof")

Send(p) == /\ Len(sock) < SockSize
           /\ sock' = Append(sock, p)
           /\ UNCHANGED <<pc, done, why, user, input, cols, pty, net, fds>>

Output == /\ ~Closing
          /\ Flood \/ left.output > 0
          /\ left' = IF Flood THEN left ELSE [left EXCEPT !.output = @ - 1]
          /\ \E p \in {"text"} \cup (IF MayQuery THEN {"query"} ELSE {}) : Send(p)

\* The server gives back the room of bytes it has dealt with.
OpenWindow == /\ window + Count(sock, "adjust") < Window
              /\ Send("adjust") /\ UNCHANGED left

CloseChannel == /\ ~Closing
                /\ Send("eof") /\ UNCHANGED left

\* The socket takes data again.
Drain == /\ full
         /\ full' = FALSE
         /\ UNCHANGED <<pc, done, why, user, input, cols, pty, server,
                        lib, eof, window, out, fds>>

-----------------------------------------------------------------------------
(* libssh2: _libssh2_transport_read until it would block, and the outcomes of *)
(* _libssh2_transport_send.                                                   *)

IsOutput(p) == p \in {"text", "query"}

\* The output among the packets of s.
OutputOf(s) ==
    LET upto[n \in 0..Len(s)] == IF n = 0 THEN << >>
                                 ELSE IF IsOutput(s[n]) THEN Append(upto[n - 1], s[n])
                                 ELSE upto[n - 1]
    IN  upto[Len(s)]

Incoming == lib \o OutputOf(sock)
WindowNow == window + Count(sock, "adjust")
EofNow == eof \/ Contains(sock, "eof")

\* The packet goes out, and may leave the socket full; or it does not, or when
\* it is a new one only in part, and libssh2 keeps it.  A socket that has drained
\* has room for what is left of a packet.
PacketSent == ~full /\ full' \in BOOLEAN /\ out' = None
PacketBlocked(packet) == /\ full \/ out = None
                         /\ full' = TRUE /\ out' = packet

\* "it is vital that the caller doesn't try to send a new/different packet":
\* LIBSSH2_ERROR_BAD_USE.
BadUse(packet) == out # None /\ out # packet

End(reason) == pc' = "over" /\ why' = reason

-----------------------------------------------------------------------------
(* The loop. *)

\* The size the window had when the pty was requested.
Start == /\ pc = "start"
         /\ newsize' = FALSE
         /\ cols' = size /\ pty' = size
         /\ pc' = "select"
         /\ UNCHANGED <<done, why, events, size, input, server, net, fds>>

\* Mutant: only a new size makes the loop wait for the socket to take data.
WantsSize == newsize

\* Mutant: only input makes the loop wait for the socket to take data.
WantsInput == ring # << >>

WantsToWrite == newsize \/ ring # << >>

\* waitselect returns, at the latest when the blink timer signals.
Select == /\ pc = "select"
          /\ fds' = [r |-> sock # << >>, w |-> WantsToWrite /\ ~full]
          /\ pc' = "input"
          /\ UNCHANGED <<done, why, user, input, cols, pty, server, net>>

\* EINTR: Ctrl-C.  The sets are as the loop made them.
Interrupted == /\ pc = "select"
               /\ fds' = [r |-> TRUE, w |-> WantsToWrite]
               /\ done' = TRUE
               /\ pc' = "input"
               /\ UNCHANGED <<why, user, input, cols, pty, server, net>>

\* termwin_handle_input: a key becomes a byte that term_hook_cb pushes into the
\* ring, and drops when the ring cannot grow.
HandleInput ==
    /\ pc = "input" /\ events # << >>
    /\ events' = Tail(events)
    /\ \/ /\ Head(events) = "close"
          /\ done' = TRUE
          /\ UNCHANGED <<ring, pushed>>
       \/ /\ Head(events) = "key"
          /\ \/ ring' = Append(ring, pushed + 1) /\ pushed' = pushed + 1
             \/ UNCHANGED <<ring, pushed>>
          /\ UNCHANGED done
    /\ UNCHANGED <<pc, why, size, newsize, remain, sent, cols, pty, server, net, fds>>

InputHandled ==
    /\ pc = "input" /\ events = << >>
    /\ pc' = IF fds.r THEN "read" ELSE "size"
    /\ UNCHANGED <<done, why, user, input, cols, pty, server, net, fds>>

\* libssh2_channel_read that has to open the receive window first and cannot.
Adjust == [kind |-> "adjust", len |-> 0]

ReadBlocked ==
    /\ pc = "read"
    /\ PacketBlocked(Adjust)
    /\ pc' = "size"
    /\ UNCHANGED <<done, why, user, input, cols, pty, server, lib, eof, window, fds>>

\* Mutant: one read, however much is queued.
NoMore(queue) == TRUE

\* The do loop ends when nothing is queued for the channel.
AllRead(queue) == queue = << >>

\* libssh2_channel_read and termwin_write: the terminal may answer what it is
\* asked, through the ring.
Read ==
    LET query == {i \in 1..BufSize : i <= Len(Incoming) /\ Incoming[i] = "query"}
        replies == [i \in 1..Cardinality(query) |-> pushed + i]
    IN  /\ pc = "read"
        /\ \/ out = None /\ UNCHANGED <<out, full>>
           \/ PacketSent
        /\ sock' = << >>
        /\ window' = WindowNow
        /\ eof' = EofNow
        /\ lib' = Rest(Incoming, BufSize)
        /\ ring' = ring \o replies
        /\ pushed' = pushed + Cardinality(query)
        /\ pc' = IF AllRead(lib') THEN "size" ELSE "read"
        /\ UNCHANGED <<done, why, user, remain, sent, cols, pty, left, fds>>

\* termwin_get_size, under Forbid.
GetSize ==
    /\ pc = "size" /\ fds.w /\ newsize
    /\ newsize' = FALSE
    /\ cols' = size
    /\ pc' = "request"
    /\ UNCHANGED <<done, why, events, size, input, pty, server, net, fds>>

SameSize ==
    /\ pc = "size" /\ ~(fds.w /\ newsize)
    /\ pc' = IF fds.w THEN "write" ELSE "eof"
    /\ UNCHANGED <<done, why, user, input, cols, pty, server, net, fds>>

\* Mutant: the flag is reset when the size has been reported.
ReportedLate == pty' = cols /\ newsize' = FALSE

Reported == pty' = cols /\ UNCHANGED newsize

\* libssh2_channel_request_pty_size: what would block is an error here.
WindowChange == [kind |-> "size", len |-> 0]

RequestPtySize ==
    /\ pc = "request"
    /\ \/ /\ ~BadUse(WindowChange)
          /\ PacketSent
          /\ Reported
          /\ pc' = "write"
          /\ UNCHANGED why
       \/ /\ ~BadUse(WindowChange)
          /\ PacketBlocked(WindowChange)
          /\ End("blocked") /\ UNCHANGED <<pty, newsize>>
       \/ /\ BadUse(WindowChange)
          /\ End("misuse") /\ UNCHANGED <<pty, newsize, out, full>>
    /\ UNCHANGED <<done, events, size, input, cols, server, lib, eof, window, fds>>

\* termwin_read fills iobuf; the write loop ends when the ring is empty.
ReadRing ==
    /\ pc = "write"
    /\ remain' = First(ring, BufSize)
    /\ ring' = Rest(ring, BufSize)
    /\ pc' = IF ring = << >> THEN "eof" ELSE "send"
    /\ UNCHANGED <<done, why, user, pushed, sent, cols, pty, server, net, fds>>

Data(n) == [kind |-> "data", len |-> n]

\* Mutant: bytes the server had no room for are taken to be written.
AllWritten(n) == /\ sent' = sent \o First(remain, n)
                 /\ remain' = << >>

\* buffer += ws; remain -= ws
Written(n) == /\ sent' = sent \o First(remain, n)
              /\ remain' = Rest(remain, n)

\* Mutant: a write that would block waits for the next turn of the loop.
NextTurn == "eof"

\* A write that would block is repeated at once.
Again == "send"

\* The part of libssh2_channel_write that sends n bytes.
WriteData(n) ==
    \/ /\ ~BadUse(Data(n))
       /\ PacketSent
       /\ Written(n)
       /\ window' = WindowNow - n
       /\ pc' = IF remain' = << >> THEN "write" ELSE "send"
       /\ UNCHANGED why
    \/ /\ ~BadUse(Data(n))
       /\ PacketBlocked(Data(n))
       /\ window' = WindowNow
       /\ pc' = Again
       /\ UNCHANGED <<why, sent, remain>>
    \/ /\ BadUse(Data(n))
       /\ End("misuse")
       /\ window' = WindowNow
       /\ UNCHANGED <<sent, remain, out, full>>

\* Mutant: the server's window does not matter.
SizeToSend(room) == Len(remain)

\* "Don't exceed the remote end's limits"
WriteSize(room) == IF Len(remain) < room THEN Len(remain) ELSE room

\* libssh2_channel_write of a new packet: the incoming flow is drained, and the
\* loop spins as long as the server has no room.
Write ==
    /\ pc = "send" /\ out.kind # "data"
    /\ sock' = << >> /\ lib' = Incoming /\ eof' = EofNow
    /\ \/ WindowNow > 0 /\ WriteData(WriteSize(WindowNow))
       \/ /\ WindowNow = 0
          /\ window' = WindowNow
          /\ pc' = Again
          /\ UNCHANGED <<why, sent, remain, out, full>>
    /\ UNCHANGED <<done, user, ring, pushed, cols, pty, left, fds>>

\* libssh2_channel_write again, of the rest of a packet.
WriteAgain ==
    /\ pc = "send" /\ out.kind = "data"
    /\ \/ /\ PacketSent
          /\ Written(out.len)
          /\ window' = window - out.len
          /\ pc' = IF remain' = << >> THEN "write" ELSE "send"
       \/ /\ PacketBlocked(out)
          /\ pc' = Again
          /\ UNCHANGED <<window, sent, remain>>
    /\ UNCHANGED <<done, why, user, ring, pushed, cols, pty, server, lib, eof, fds>>

\* libssh2_channel_eof: data that is waiting masks it.
AtEof == eof /\ lib = << >>

\* Mutant: only the server ends the loop.
EndsAtEof == AtEof

\* Mutant: only the close gadget ends the loop.
EndsAtClose == done

Ends == done \/ AtEof

EndOfTurn ==
    /\ pc = "eof"
    /\ done' = Ends
    /\ IF Ends THEN End(IF AtEof THEN "eof" ELSE "closed")
       ELSE pc' = "select" /\ UNCHANGED why
    /\ UNCHANGED <<user, input, cols, pty, server, net, fds>>

\* The connection breaks.
Lost == /\ pc \in {"select", "read", "request", "send"}
        /\ End("lost")
        /\ UNCHANGED <<done, user, input, cols, pty, server, net, fds>>

Turn == \/ Start \/ Select \/ HandleInput \/ InputHandled \/ ReadBlocked \/ Read
        \/ GetSize \/ SameSize \/ RequestPtySize \/ ReadRing \/ Write
        \/ WriteAgain \/ EndOfTurn

Environment == \/ Type \/ CloseWindow \/ Layout
               \/ Output \/ OpenWindow \/ CloseChannel \/ Drain

Next == \/ Turn \/ Interrupted \/ Lost
        \/ pc # "over" /\ Environment

Spec == Init /\ [][Next]_vars

\* The loop runs, the server opens its window when it has filled up, and the
\* network takes what it is sent.
FairSpec == /\ Spec
            /\ WF_vars(Turn)
            /\ WF_vars(pc # "over" /\ window = 0 /\ OpenWindow)
            /\ WF_vars(pc # "over" /\ Drain)

-----------------------------------------------------------------------------
(* Properties. *)

Bytes == 1..pushed

TypeOK ==
    /\ pc \in {"start", "select", "input", "read", "size", "request", "write",
              "send", "eof", "over"}
    /\ why \in {"running", "closed", "eof", "lost", "blocked", "misuse"}
    /\ {done, newsize, eof, full} \subseteq BOOLEAN
    /\ events \in Seq({"key", "close"})
    /\ {ring, remain, sent} \subseteq Seq(Bytes)
    /\ {size, cols, pty} \subseteq Sizes
    /\ sock \in Seq(Packet) /\ lib \in Seq({"text", "query"})
    /\ window \in 0..Window
    /\ out.kind \in {"none", "adjust", "size", "data"} /\ out.len \in 0..BufSize

\* What the user types and the terminal answers reaches the server in order:
\* whatever was cut up by iobuf, by the server's window or by a full socket,
\* nothing is lost, repeated or overtaken between the ring and the server.
InputInOrder == sent \o remain \o ring = [i \in Bytes |-> i]

\* The loop never forgets a size: unless it is about to report one, either the
\* server knows the size of the window or NewSize is still set.
ServerSizeCurrent == pc \in {"start", "request", "over"} \/ newsize \/ pty = size

\* The rest of a packet that is half sent is what the loop hands to the channel
\* next: the packet is an adjustment that a later read goes on with, or data
\* that no other call comes before.
PartialIsResumed ==
    \/ pc = "over"
    \/ out = None
    \/ out = Adjust
    \/ pc = "send" /\ out.kind = "data" /\ out.len <= Len(remain)

\* libssh2, transport.c: "it is vital that the caller doesn't try to send a
\* new/different packet since we don't add this one up until the previous one
\* has been sent".
NeverMisused == why # "misuse"

\* What the ring has accepted is written to the server, unless the session ends.
InputIsSent == \A n \in 1..(MaxKeys + MaxOutput) :
    pushed >= n ~> Len(sent) >= n \/ pc = "over"

\* A new size is reported, unless the session ends.
SizeIsSent == newsize ~> ~newsize \/ pc = "over"

\* Closing the window ends the session, whatever else the loop is busy with.
\* (releasenotes, 1.5: "it no longer keeps reading infinitely if there is a
\* constant feed of data from the other end".)
CloseEndsSession == Contains(events, "close") ~> pc = "over"

\* Output that has come as far as the socket or libssh2 reaches the terminal, as
\* long as nothing is written: no key pushed, no socket that fills up.  (A full
\* one can stop a read half way, and a write takes in what the server has sent;
\* the loop then waits for a socket that has nothing more to say.)
Undisturbed == ~full /\ pushed = 0

OutputIsShown ==
    []Undisturbed => (Incoming # << >> ~> Incoming = << >> \/ pc = "over")

\* Under the same condition, the session ends when the server closes the channel.
EofEndsSession == []Undisturbed => (EofNow ~> pc = "over")
=============================================================================
