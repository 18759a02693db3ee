------------------------------- MODULE Session --------------------------------
(***************************************************************************)
(* sshterm() of src/main.c around its main loop: what is opened, how the   *)
(* user logs in, and what is given back in which order, with the timer of  *)
(* src/timer.c, the process of the about window (src/about.c,              *)
(* src/signal-pid.c), the agent and the closing of the channel and the     *)
(* session in libssh2-1.10.0.  The loop itself is MainLoop; here it blinks,*)
(* opens the about window and ends.                                        *)
(***************************************************************************)
EXTENDS Integers, FiniteSets

VARIABLES args,     \* which arguments are given
          pc,       \* where sshterm() is
          held,     \* what it holds and will give back
          lost,     \* what libssh2 still has after the pointers to it are gone
          leaked,   \* what nothing will give back: a copied prompt, the opened device
          open,     \* open descriptors
          fd,       \* ss->socket and ss->agent->fd
          auth,     \* offered: methods of the server; sent: what it has seen
          chan,     \* channel, session and socket in libssh2
          timer,    \* where the blink request is
          about,    \* AboutWindowPID, SIGF_CHILD, and the child itself
          retval

vars == <<args, pc, held, lost, leaked, open, fd, auth, chan, timer, about, retval>>

None == -1   \* LIBSSH2_INVALID_SOCKET

\* The next label after a step that succeeds, and after each step of the teardown.
Following ==
    [rdargs |-> "screen", screen |-> "title", title |-> "termwin", termwin |-> "ss",
     ss |-> "password", password |-> "socket", socket |-> "connection",
     connection |-> "session", session |-> "handshake", handshake |-> "list",
     channel |-> "pty", pty |-> "shell", shell |-> "timer",
     out |-> "out_channel", out_channel |-> "out_free", out_free |-> "out_agent",
     out_agent |-> "out_session", out_session |-> "out_password",
     out_password |-> "out_socket", out_socket |-> "out_ss", out_ss |-> "out_termwin",
     out_termwin |-> "out_title", out_title |-> "out_about", out_about |-> "out_screen",
     out_screen |-> "out_rdargs", out_rdargs |-> "exit"]

Goto(label) == pc' = label
Proceed == Goto(Following[pc])

-----------------------------------------------------------------------------
(* Opening. *)

\* Each of these may fail.  A connection and what the server grants are not given back.
Open(step) ==
    /\ pc = step
    /\ \/ Proceed /\ held' = held \cup {step}
       \/ Goto("out") /\ UNCHANGED held
    /\ UNCHANGED <<args, lost, leaked, open, fd, auth, chan, timer, about, retval>>

Grant(step) ==
    /\ pc = step
    /\ \/ Proceed
       \/ Goto("out")
    /\ UNCHANGED <<args, held, lost, leaked, open, fd, auth, chan, timer, about, retval>>

\* A password that cannot be copied is as good as none.
CopyPassword ==
    /\ pc = "password" /\ Proceed
    /\ \/ args.password /\ held' = held \cup {"password"}
       \/ UNCHANGED held
    /\ UNCHANGED <<args, lost, leaked, open, fd, auth, chan, timer, about, retval>>

\* The lowest descriptor that is free.
Lowest == CHOOSE n \in 0..Cardinality(open) :
              n \notin open /\ \A k \in 0..(n - 1) : k \in open

OpenSocket ==
    /\ pc = "socket"
    /\ \/ Proceed /\ held' = held \cup {"socket"} /\ open' = open \cup {Lowest}
          /\ fd' = [fd EXCEPT !.socket = Lowest]
       \/ Goto("out") /\ UNCHANGED <<held, open, fd>>
    /\ UNCHANGED <<args, lost, leaked, auth, chan, timer, about, retval>>

-----------------------------------------------------------------------------
(* Logging in. *)

Methods == {"password", "keyboard-interactive", "publickey"}

\* The mutant: KEYFILE adds a method.
Added(offered) == offered \cup IF args.keyfile THEN {"publickey"} ELSE {}

\* auth_pw
Wanted(offered) ==
    IF args.keyfile /\ "publickey" \in offered THEN {"publickey"} ELSE offered

\* libssh2_userauth_list; a NULL that it returns is read.
ListMethods ==
    /\ pc = "list"
    /\ \E offered \in SUBSET Methods :
          /\ auth' = [auth EXCEPT !.offered = offered]
          /\ \/ offered = {} /\ Goto("crashed")
             \/ Goto(CASE Wanted(offered) = {} -> "out"
                       [] "password" \in Wanted(offered) -> "ask"
                       [] Wanted(offered) \cap {"password", "keyboard-interactive"}
                              = {"keyboard-interactive"} -> "prompt"
                       [] OTHER -> IF args.noagent THEN "keyfile" ELSE "agent")
    /\ UNCHANGED <<args, held, lost, leaked, open, fd, chan, timer, about, retval>>

\* request_password: the user may cancel.
AskPassword ==
    /\ pc = "ask"
    /\ \/ "password" \in held /\ Goto("send") /\ UNCHANGED held
       \/ "password" \notin held /\ Goto("send") /\ held' = held \cup {"password"}
       \/ "password" \notin held /\ Goto("out") /\ UNCHANGED held
    /\ UNCHANGED <<args, lost, leaked, open, fd, auth, chan, timer, about, retval>>

\* A credential goes to the server, which accepts it or not.
Offer(credential, refused) ==
    /\ auth' = [auth EXCEPT !.sent = @ \cup {credential}]
    /\ Goto("channel") \/ Goto(refused)

SendPassword ==
    /\ pc = "send" /\ Offer("password", "out")
    /\ UNCHANGED <<args, held, lost, leaked, open, fd, chan, timer, about, retval>>

\* kbd_callback copies each prompt, if there is one, and keeps no pointer to the copy;
\* the length of a NULL is taken when the user cancels.
Prompt ==
    /\ pc = "prompt"
    /\ \/ Offer("answers", "out")
       \/ Goto("crashed") /\ UNCHANGED auth
    /\ leaked' \in {leaked, leaked \cup {"prompt"}}
    /\ UNCHANGED <<args, held, lost, open, fd, chan, timer, about, retval>>

\* libssh2_agent_init
InitAgent ==
    /\ pc = "agent"
    /\ \/ Goto("agent_connect") /\ held' = held \cup {"agent"}
       \/ Goto("keyfile") /\ UNCHANGED held
    /\ UNCHANGED <<args, lost, leaked, open, fd, auth, chan, timer, about, retval>>

\* agent_connect_amiga: the number of a socket that did not connect is kept.
ConnectAgent ==
    /\ pc = "agent_connect"
    /\ \/ Goto("keyfile") /\ UNCHANGED <<open, fd>>
       \/ Goto("keyfile") /\ fd' = [fd EXCEPT !.agent = Lowest] /\ UNCHANGED open
       \/ Goto("agent_list") /\ fd' = [fd EXCEPT !.agent = Lowest]
          /\ open' = open \cup {Lowest}
    /\ UNCHANGED <<args, held, lost, leaked, auth, chan, timer, about, retval>>

\* libssh2_agent_list_identities; RECV_SEND_ALL does not come back from an agent that
\* has closed the connection.
ListKeys ==
    /\ pc = "agent_list"
    /\ Goto("out") \/ Goto("hung") \/ Goto("agent_key")
    /\ UNCHANGED <<args, held, lost, leaked, open, fd, auth, chan, timer, about, retval>>

\* libssh2_agent_get_identity, which has another key or not, and libssh2_agent_userauth
TryKey ==
    /\ pc = "agent_key"
    /\ \/ Goto("keyfile") /\ UNCHANGED auth
       \/ Goto("hung") /\ UNCHANGED auth
       \/ Offer("signature", "agent_key")
    /\ UNCHANGED <<args, held, lost, leaked, open, fd, chan, timer, about, retval>>

\* libssh2_agent_disconnect and libssh2_agent_free: close() of a closed descriptor fails
\* and is called again.
AgentFreed ==
    /\ held' = held \ {"agent"}
    /\ open' = open \ {fd.agent}
    /\ fd' = [fd EXCEPT !.agent = None]

FreeAgentFirst ==
    /\ pc = "keyfile" /\ Goto("keyfile_auth")
    /\ IF "agent" \in held THEN AgentFreed ELSE UNCHANGED <<held, open, fd>>
    /\ UNCHANGED <<args, lost, leaked, auth, chan, timer, about, retval>>

\* passphrase_callback, while libssh2 reads the key: what the user types is kept.
Passphrase ==
    /\ pc = "keyfile_auth" /\ "password" \notin held
    /\ held' = held \cup {"password"}
    /\ UNCHANGED <<args, pc, lost, leaked, open, fd, auth, chan, timer, about, retval>>

\* libssh2_userauth_publickey_fromfile
SendKeyFile ==
    /\ pc = "keyfile_auth"
    /\ \/ Offer("signature", "out")
       \/ Goto("out") /\ UNCHANGED auth
    /\ UNCHANGED <<args, held, lost, leaked, open, fd, chan, timer, about, retval>>

\* From here on libssh2 does not block.
OpenTimer ==
    /\ pc = "timer"
    /\ chan' = [chan EXCEPT !.blocking = FALSE]
    /\ \/ Goto("loop") /\ held' = held \cup {"timer"} /\ timer' = "pending"
       \/ Goto("out") /\ UNCHANGED <<held, timer>>
    /\ UNCHANGED <<args, lost, leaked, open, fd, auth, about, retval>>

-----------------------------------------------------------------------------
(* The about window and the loop. *)

Alive == about.child \in {"starting", "waiting", "closing"}

\* signal_pid: a process has this PID, be it another one by now.
Found == about.pid /\ (Alive \/ about.reused)
Signalled(signal) ==
    [about EXCEPT !.signals = IF Alive THEN @ \cup {signal} ELSE @]

\* aboutwin_open
OpenAbout ==
    /\ pc = "loop"
    /\ about' \in
        IF Found THEN {Signalled("CTRL_F")}
        ELSE {[about EXCEPT !.pid = FALSE],
              [about EXCEPT !.pid = TRUE, !.reused = FALSE, !.child = "starting",
                            !.signals = {}]}
    /\ UNCHANGED <<args, pc, held, lost, leaked, open, fd, auth, chan, timer, retval>>

\* aboutwin_close
AboutClosed ==
    IF Found THEN Signalled("CTRL_C") ELSE [about EXCEPT !.pid = FALSE]

\* timer_end and timer_start
Blink ==
    /\ pc = "loop" /\ timer = "replied" /\ timer' = "pending"
    /\ UNCHANGED <<args, pc, held, lost, leaked, open, fd, auth, chan, about, retval>>

\* The loop ends; without an error it closes the about window.
Leave ==
    /\ pc = "loop" /\ Goto("out")
    /\ \/ about' = AboutClosed /\ retval' = "OK"
       \/ UNCHANGED <<about, retval>>
    /\ UNCHANGED <<args, held, lost, leaked, open, fd, auth, chan, timer>>

\* aboutwin_procentry: it may fail before its window is open, ...
ChildStarts ==
    /\ about.child = "starting"
    /\ \E state \in {"waiting", "closing"} : about' = [about EXCEPT !.child = state]
    /\ UNCHANGED <<args, pc, held, lost, leaked, open, fd, auth, chan, timer, retval>>

\* The mutant: one signal for each Wait.
OneSignal(state) ==
    IF "CTRL_F" \in about.signals THEN state
    ELSE IF "CTRL_C" \in about.signals THEN "closing" ELSE state

\* ... waits for signals and looks at each, ...
Handled(state) == IF "CTRL_C" \in about.signals THEN "closing" ELSE state

ChildWakes ==
    /\ about.child = "waiting" /\ about.signals # {}
    /\ about' = [about EXCEPT !.child = Handled(@), !.signals = {}]
    /\ UNCHANGED <<args, pc, held, lost, leaked, open, fd, auth, chan, timer, retval>>

\* ... is closed by the user, ...
UserClosesAbout ==
    /\ about.child = "waiting"
    /\ about' = [about EXCEPT !.child = "closing"]
    /\ UNCHANGED <<args, pc, held, lost, leaked, open, fd, auth, chan, timer, retval>>

\* ... and is gone when its parent gets SIGF_CHILD.
ChildDies ==
    /\ about.child = "closing"
    /\ about' = [about EXCEPT !.child = "dead", !.sigf_child = TRUE]
    /\ UNCHANGED <<args, pc, held, lost, leaked, open, fd, auth, chan, timer, retval>>

-----------------------------------------------------------------------------
(* The teardown, in libssh2. *)

\* _libssh2_transport_send of a small packet; `again` is LIBSSH2_ERROR_EAGAIN.
Sending(c, packet) ==
    LET results == IF ~c.alive THEN {"error"}
                   ELSE {"sent", "error"} \cup (IF c.blocking THEN {} ELSE {"again"})
    IN  {[c EXCEPT ![packet] = (r = "sent"), !.alive = @ /\ r # "error",
                   !.again = (r = "again")] : r \in results}

\* _libssh2_channel_close: eof, close, and the server's close.
Closing(c) ==
    LET start == [c EXCEPT !.again = FALSE]
        eofs == IF c.eof THEN {start} ELSE Sending(start, "eof")
        closes == UNION {IF e.again \/ e.close THEN {e} ELSE Sending(e, "close") : e \in eofs}
        End(k) == IF k.again THEN k
                  ELSE IF k.close /\ k.alive /\ ~k.remote_close
                  THEN [k EXCEPT !.again = TRUE] ELSE [k EXCEPT !.local_close = TRUE]
    IN  IF c.local_close THEN {start} ELSE {End(k) : k \in closes}

\* _libssh2_channel_free
Freeing(c) ==
    IF c.local_close \/ ~c.alive THEN {[c EXCEPT !.again = FALSE]} ELSE Closing(c)

\* libssh2_channel_close and libssh2_channel_wait_closed; a call that blocks repeats.
CloseChannel ==
    /\ pc = "out_channel"
    /\ IF "channel" \notin held THEN Proceed /\ UNCHANGED chan
       ELSE /\ chan' \in Closing(chan)
            /\ IF chan'.again /\ chan.blocking THEN UNCHANGED pc ELSE Proceed
    /\ UNCHANGED <<args, held, lost, leaked, open, fd, auth, timer, about, retval>>

\* libssh2_channel_free; ss->channel is NULL whatever it returns.
FreeChannel ==
    /\ pc = "out_free" /\ Proceed
    /\ held' = held \ {"channel"}
    /\ IF "channel" \notin held THEN UNCHANGED <<chan, lost>>
       ELSE /\ chan' \in Freeing(chan)
            /\ lost' = IF chan'.again THEN {"channel"} ELSE {}
    /\ UNCHANGED <<args, leaked, open, fd, auth, timer, about, retval>>

\* libssh2_session_free; it frees the channels that are left.
FreeSession ==
    /\ pc = "out_session" /\ Proceed
    /\ held' = held \ {"session"}
    /\ IF "channel" \notin lost THEN UNCHANGED <<chan, lost>>
       ELSE /\ chan' \in Freeing(chan)
            /\ lost' = IF chan'.again THEN {"channel", "session"} ELSE {}
    /\ UNCHANGED <<args, leaked, open, fd, auth, timer, about, retval>>

-----------------------------------------------------------------------------
(* The teardown, around it. *)

\* timer_abort waits for the request.  timer_close frees it and its port; the device
\* that timer_open has opened stays open, without a request to close it with.
CloseTimer ==
    /\ pc = "out" /\ Proceed
    /\ timer' = "none" /\ held' = held \ {"timer"}
    /\ leaked' = leaked \cup (IF "timer" \in held THEN {"device"} ELSE {})
    /\ UNCHANGED <<args, lost, open, fd, auth, chan, about, retval>>

\* The mutant: the agent has been freed before.
AgentKept == UNCHANGED <<held, open, fd>>

AgentGone == IF "agent" \in held THEN AgentFreed ELSE UNCHANGED <<held, open, fd>>

FreeAgent ==
    /\ pc = "out_agent" /\ Proceed /\ AgentGone
    /\ UNCHANGED <<args, lost, leaked, auth, chan, timer, about, retval>>

CloseSocket ==
    /\ pc = "out_socket" /\ Proceed
    /\ held' = held \ {"socket"} /\ open' = open \ {fd.socket}
    /\ fd' = [fd EXCEPT !.socket = None]
    /\ UNCHANGED <<args, lost, leaked, auth, chan, timer, about, retval>>

Release(step, resource) ==
    /\ pc = step /\ Proceed
    /\ held' = held \ {resource}
    /\ UNCHANGED <<args, lost, leaked, open, fd, auth, chan, timer, about, retval>>

\* The mutant: only the window that has been asked to close is waited for.
FindAsked == Found /\ retval = "OK"
FindChild == Found

\* find_pid, and then Wait.
LookForChild ==
    /\ pc = "out_about"
    /\ IF FindChild THEN Goto("out_wait") /\ UNCHANGED about
       ELSE Proceed /\ about' = [about EXCEPT !.pid = FALSE]
    /\ UNCHANGED <<args, held, lost, leaked, open, fd, auth, chan, timer, retval>>

WaitForChild ==
    /\ pc = "out_wait" /\ about.sigf_child
    /\ Goto("out_about") /\ about' = [about EXCEPT !.sigf_child = FALSE]
    /\ UNCHANGED <<args, held, lost, leaked, open, fd, auth, chan, timer, retval>>

-----------------------------------------------------------------------------
(* The rest of the world. *)

\* The timer's request comes back.
Tick ==
    /\ timer = "pending" /\ timer' = "replied"
    /\ UNCHANGED <<args, pc, held, lost, leaked, open, fd, auth, chan, about, retval>>

\* The server closes the channel, by itself or as an answer; the connection breaks.
ServerCloses ==
    /\ "channel" \in held \cup lost /\ chan.alive /\ ~chan.remote_close
    /\ chan' = [chan EXCEPT !.remote_close = TRUE]
    /\ UNCHANGED <<args, pc, held, lost, leaked, open, fd, auth, timer, about, retval>>

ConnectionBreaks ==
    /\ "channel" \in held \cup lost /\ chan.alive
    /\ chan' = [chan EXCEPT !.alive = FALSE]
    /\ UNCHANGED <<args, pc, held, lost, leaked, open, fd, auth, timer, about, retval>>

\* Another process gets the PID of the about window's.
ReusePID ==
    /\ about.pid /\ about.child = "dead" /\ ~about.reused
    /\ about' = [about EXCEPT !.reused = TRUE]
    /\ UNCHANGED <<args, pc, held, lost, leaked, open, fd, auth, chan, timer, retval>>

-----------------------------------------------------------------------------
Init ==
    /\ args \in [{"password", "keyfile", "noagent"} -> BOOLEAN]
    /\ pc = "rdargs" /\ held = {} /\ lost = {} /\ leaked = {} /\ open = {}
    /\ retval = "ERROR"
    /\ fd = [socket |-> None, agent |-> None]
    /\ auth = [offered |-> {}, sent |-> {}]
    /\ chan = [eof |-> FALSE, close |-> FALSE, local_close |-> FALSE,
               remote_close |-> FALSE, alive |-> TRUE, blocking |-> TRUE, again |-> FALSE]
    /\ timer = "none"
    /\ about = [pid |-> FALSE, reused |-> FALSE, child |-> "none", signals |-> {},
                sigf_child |-> FALSE]

Opening ==
    \/ \E step \in {"rdargs", "screen", "title", "termwin", "ss", "session", "channel"} :
            Open(step)
    \/ \E step \in {"connection", "handshake", "pty", "shell"} : Grant(step)
    \/ CopyPassword \/ OpenSocket \/ OpenTimer

LoggingIn ==
    \/ ListMethods \/ AskPassword \/ SendPassword \/ Prompt
    \/ InitAgent \/ ConnectAgent \/ ListKeys \/ TryKey
    \/ FreeAgentFirst \/ Passphrase \/ SendKeyFile

Teardown ==
    \/ CloseTimer \/ CloseChannel \/ FreeChannel \/ FreeAgent \/ FreeSession
    \/ Release("out_password", "password") \/ CloseSocket
    \/ Release("out_ss", "ss") \/ Release("out_termwin", "termwin")
    \/ Release("out_title", "title") \/ LookForChild \/ WaitForChild
    \/ Release("out_screen", "screen") \/ Release("out_rdargs", "rdargs")

Child == ChildStarts \/ ChildWakes \/ ChildDies

\* The program has ended, or never will: it reads a NULL, an agent that is gone, or
\* waits for the end of a process that is not its child.
Stopped ==
    /\ \/ pc \in {"exit", "crashed", "hung"}
       \/ pc = "out_wait" /\ ~Alive /\ about.reused
    /\ UNCHANGED vars

Next ==
    \/ Opening \/ LoggingIn \/ OpenAbout \/ Blink \/ Leave \/ Teardown
    \/ Child \/ UserClosesAbout
    \/ Tick \/ ServerCloses \/ ConnectionBreaks \/ ReusePID \/ Stopped

\* The program, once it is leaving, and the about window's process run; the user, the
\* server and the timer owe nothing.
Fairness == WF_vars(Teardown) /\ WF_vars(Child)

Spec == Init /\ [][Next]_vars /\ Fairness

-----------------------------------------------------------------------------
(* The properties. *)

\* Every open descriptor is one that the program still has the number of.
TypeOK ==
    /\ held \subseteq {"rdargs", "screen", "title", "termwin", "ss", "password", "socket",
                       "session", "channel", "agent", "timer"}
    /\ lost \in {{}, {"channel"}, {"channel", "session"}}
    /\ leaked \subseteq {"prompt", "device"}
    /\ {fd.socket, fd.agent} \subseteq -1..1 /\ open \subseteq {fd.socket, fd.agent}
    /\ auth.offered \subseteq Methods
    /\ timer \in {"none", "pending", "replied"}

\* Nothing is given back while something else still uses it: the session by its channel
\* and the agent, its descriptor (which a second close of the agent's must not hit),
\* the screen by the terminal's window and by the about window's process, the request
\* by the timer's device.
OwnersOutlive ==
    /\ TypeOK
    /\ "channel" \in held \cup lost => "session" \in held \cup lost
    /\ held \cap {"session", "agent"} # {} => fd.socket \in open
    /\ "agent" \in held => "session" \in held
    /\ held \cap {"channel", "session", "agent", "password", "socket"} # {} => "ss" \in held
    /\ "termwin" \in held => {"title", "screen"} \subseteq held
    /\ Alive => "screen" \in held
    /\ timer # "none" => "timer" \in held

\* Whatever failed, the end finds nothing held, every descriptor closed and the about
\* window's process gone.  What is left nevertheless is known: timer.device, which
\* timer_close does not close, when the session got as far as its timer; the copies
\* kbd_callback makes, when questions were answered; the channel and its session, when
\* closing the channel would have blocked.
OnlyKnownLeaks ==
    pc = "exit" =>
        /\ held = {} /\ open = {} /\ ~Alive
        /\ "device" \in leaked => ~chan.blocking
        /\ "prompt" \in leaked => "answers" \in auth.sent
        /\ lost # {} => ~chan.blocking /\ chan.again

\* "Specifying the KEYFILE argument now implies that public key authentication should
\* be used instead of any other method" (releasenotes): no password leaves the machine
\* if the server takes keys.
PasswordStaysHome ==
    args.keyfile /\ "publickey" \in auth.offered => auth.sent \subseteq {"signature"}

\* A loop that ends without an error, or has no about window open, is followed by the
\* end of the program; nobody has to close the about window, and no signal is missed.
Ends ==
    (pc = "out" /\ ~chan.blocking /\ (retval = "OK" \/ ~Alive))
        ~> (pc = "exit" \/ about.reused)

=============================================================================
