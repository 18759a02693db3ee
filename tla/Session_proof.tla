---------------------------- MODULE Session_proof ----------------------------
(***************************************************************************)
(* What Session gives back is no longer in use, and KEYFILE keeps passwords*)
(* at home: proofs for every behaviour.                                    *)
(***************************************************************************)
EXTENDS Session, FiniteSetTheorems, TLAPS

\* Labels up to the list of methods.
Early == {"rdargs", "screen", "title", "termwin", "ss", "password", "socket",
          "connection", "session", "handshake", "list"}

Credentials == {"password", "answers", "signature"}

AuthType == auth \in [offered : SUBSET Methods, sent : SUBSET Credentials]

\* Nothing is sent before the methods are known, and each label belongs to a method
\* that is wanted.
HomeInv ==
    /\ AuthType
    /\ pc \in Early => auth.sent = {}
    /\ pc \in {"ask", "send"} => "password" \in Wanted(auth.offered)
    /\ pc = "prompt" => "keyboard-interactive" \in Wanted(auth.offered)
    /\ PasswordStaysHome

\* Where the steps of Open and Grant go on.
LEMMA Successors ==
    /\ Following["rdargs"] = "screen" /\ Following["screen"] = "title"
    /\ Following["title"] = "termwin" /\ Following["termwin"] = "ss"
    /\ Following["ss"] = "password" /\ Following["password"] = "socket"
    /\ Following["socket"] = "connection" /\ Following["connection"] = "session"
    /\ Following["session"] = "handshake" /\ Following["handshake"] = "list"
    /\ Following["channel"] = "pty" /\ Following["pty"] = "shell"
    /\ Following["shell"] = "timer"
BY DEF Following

LEMMA TeardownSuccessors ==
    /\ Following["out"] = "out_channel" /\ Following["out_channel"] = "out_free"
    /\ Following["out_free"] = "out_agent" /\ Following["out_agent"] = "out_session"
    /\ Following["out_session"] = "out_password" /\ Following["out_password"] = "out_socket"
    /\ Following["out_socket"] = "out_ss" /\ Following["out_ss"] = "out_termwin"
    /\ Following["out_termwin"] = "out_title" /\ Following["out_title"] = "out_about"
    /\ Following["out_about"] = "out_screen" /\ Following["out_screen"] = "out_rdargs"
    /\ Following["out_rdargs"] = "exit"
BY DEF Following

\* Labels after which no password and no answer is sent any more.
Silent == {"crashed", "hung", "agent", "agent_connect", "agent_list", "agent_key", "keyfile",
           "keyfile_auth", "channel", "pty", "shell", "timer", "loop", "out", "out_channel", "out_free", "out_agent",
           "out_session", "out_password", "out_socket", "out_ss", "out_termwin",
           "out_title", "out_about", "out_wait", "out_screen", "out_rdargs", "exit"}

LEMMA HomeQuiet ==
    ASSUME HomeInv, UNCHANGED <<args, auth>>,
           pc' \in Silent \/ pc' = pc \/ (pc \in Early /\ pc' \in Early)
    PROVE  HomeInv'
BY DEF HomeInv, AuthType, PasswordStaysHome, Wanted, Early, Silent

LEMMA HomeOpening == ASSUME HomeInv, Opening PROVE HomeInv'
<1>1. ASSUME NEW step \in {"rdargs", "screen", "title", "termwin", "ss", "session",
                           "channel"}, Open(step)
      PROVE  HomeInv'
      BY <1>1, HomeQuiet, Successors DEF Open, Proceed, Goto, Early, Silent
<1>2. ASSUME NEW step \in {"connection", "handshake", "pty", "shell"}, Grant(step)
      PROVE  HomeInv'
      BY <1>2, HomeQuiet, Successors DEF Grant, Proceed, Goto, Early, Silent
<1>3. ASSUME CopyPassword PROVE HomeInv'
      BY <1>3, HomeQuiet, Successors DEF CopyPassword, Proceed, Goto, Early
<1>4. ASSUME OpenSocket PROVE HomeInv'
      BY <1>4, HomeQuiet, Successors DEF OpenSocket, Proceed, Goto, Early, Silent
<1>5. ASSUME OpenTimer PROVE HomeInv'
      BY <1>5, HomeQuiet DEF OpenTimer, Goto, Silent
<1> QED BY <1>1, <1>2, <1>3, <1>4, <1>5 DEF Opening

\* A credential that KEYFILE allows may go out.
LEMMA HomeOffer ==
    ASSUME HomeInv, NEW credential \in Credentials, NEW refused, Offer(credential, refused),
           UNCHANGED args,
           refused \in {"out", "agent_key"},
           args.keyfile /\ "publickey" \in auth.offered => credential = "signature"
    PROVE  HomeInv'
<1> DEFINE sent == auth.sent \cup {credential}
<1>1. auth' = [auth EXCEPT !.sent = sent] BY DEF Offer
<1>2. auth.offered \in SUBSET Methods /\ auth.sent \in SUBSET Credentials
      BY DEF HomeInv, AuthType
<1>3. /\ auth'.offered = auth.offered /\ auth'.sent = sent
      /\ auth' \in [offered : SUBSET Methods, sent : SUBSET Credentials]
      BY <1>1, <1>2 DEF HomeInv, AuthType
<1>4. pc' \in {"channel", "out", "agent_key"} BY DEF Offer, Goto
<1>5. PasswordStaysHome' BY <1>3 DEF HomeInv, PasswordStaysHome
<1> QED BY <1>3, <1>4, <1>5 DEF HomeInv, AuthType, Early

LEMMA HomeLoggingIn == ASSUME HomeInv, LoggingIn PROVE HomeInv'
<1>1. CASE ListMethods
      BY <1>1 DEF ListMethods, HomeInv, AuthType, PasswordStaysHome, Wanted, Early, Goto, Methods
<1>2. CASE AskPassword
      BY <1>2 DEF AskPassword, HomeInv, AuthType, PasswordStaysHome, Wanted, Early, Goto
<1>3. CASE SendPassword
  <2>1. args.keyfile /\ "publickey" \in auth.offered => FALSE
        BY <1>3 DEF SendPassword, HomeInv, Wanted
  <2> QED BY <1>3, <2>1, HomeOffer DEF SendPassword, Credentials
<1>4. CASE Prompt
  <2>1. args.keyfile /\ "publickey" \in auth.offered => FALSE
        BY <1>4 DEF Prompt, HomeInv, Wanted
  <2>2. CASE Offer("answers", "out") BY <1>4, <2>1, <2>2, HomeOffer DEF Prompt, Credentials
  <2>3. CASE Goto("crashed") /\ UNCHANGED auth
        BY <1>4, <2>3, HomeQuiet DEF Prompt, Goto, Silent
  <2> QED BY <1>4, <2>2, <2>3 DEF Prompt
<1>5. CASE InitAgent BY <1>5, HomeQuiet DEF InitAgent, Goto, Silent
<1>6. CASE ConnectAgent BY <1>6, HomeQuiet DEF ConnectAgent, Goto, Silent
<1>7. CASE ListKeys BY <1>7, HomeQuiet DEF ListKeys, Goto, Silent
<1>8. CASE TryKey
  <2>1. CASE Offer("signature", "agent_key") BY <1>8, <2>1, HomeOffer DEF TryKey, Credentials
  <2>2. CASE UNCHANGED auth /\ pc' \in {"keyfile", "hung"}
        BY <1>8, <2>2, HomeQuiet DEF TryKey, Silent
  <2> QED BY <1>8, <2>1, <2>2 DEF TryKey, Goto
<1>9. CASE FreeAgentFirst BY <1>9, HomeQuiet DEF FreeAgentFirst, Goto, Silent
<1>10. CASE Passphrase BY <1>10, HomeQuiet DEF Passphrase
<1>11. CASE SendKeyFile
  <2>1. CASE Offer("signature", "out") BY <1>11, <2>1, HomeOffer DEF SendKeyFile, Credentials
  <2>2. CASE Goto("out") /\ UNCHANGED auth
        BY <1>11, <2>2, HomeQuiet DEF SendKeyFile, Goto, Silent
  <2> QED BY <1>11, <2>1, <2>2 DEF SendKeyFile
<1> QED BY LoggingIn, <1>1, <1>2, <1>3, <1>4, <1>5, <1>6, <1>7, <1>8, <1>9, <1>10, <1>11
        DEF LoggingIn

LEMMA HomeTeardown == ASSUME HomeInv, Teardown PROVE HomeInv'
<1> USE HomeQuiet, TeardownSuccessors DEF Silent, Proceed, Goto
<1>1. CASE CloseTimer BY <1>1 DEF CloseTimer
<1>2. CASE CloseChannel BY <1>2 DEF CloseChannel
<1>3. CASE FreeChannel BY <1>3 DEF FreeChannel
<1>4. CASE FreeAgent BY <1>4 DEF FreeAgent
<1>5. CASE FreeSession BY <1>5 DEF FreeSession
<1>6. CASE CloseSocket BY <1>6 DEF CloseSocket
<1>7. CASE LookForChild BY <1>7 DEF LookForChild
<1>8. CASE WaitForChild BY <1>8 DEF WaitForChild
<1>9. CASE \/ Release("out_password", "password") \/ Release("out_ss", "ss")
           \/ Release("out_termwin", "termwin") \/ Release("out_title", "title")
           \/ Release("out_screen", "screen") \/ Release("out_rdargs", "rdargs")
      BY <1>9 DEF Release
<1> QED BY Teardown, <1>1, <1>2, <1>3, <1>4, <1>5, <1>6, <1>7, <1>8, <1>9 DEF Teardown

LEMMA HomeRest ==
    ASSUME HomeInv,
           \/ OpenAbout \/ Blink \/ Leave \/ Child \/ UserClosesAbout
           \/ Tick \/ ServerCloses \/ ConnectionBreaks \/ ReusePID \/ Stopped
    PROVE  HomeInv'
BY HomeQuiet DEF OpenAbout, Blink, Leave, Child, ChildStarts, ChildWakes, ChildDies,
   UserClosesAbout, Tick, ServerCloses, ConnectionBreaks, ReusePID, Stopped, vars, Goto,
   Silent

\* No password leaves the machine when KEYFILE is given and the server takes keys,
\* whatever else the server offers and whatever fails on the way (main.c:424-438).
THEOREM KeyFileMeansKeys == Spec => []PasswordStaysHome
<1>1. Init => HomeInv
      BY DEF Init, HomeInv, AuthType, PasswordStaysHome, Early, Methods
<1>2. HomeInv /\ [Next]_vars => HomeInv'
  <2> SUFFICES ASSUME HomeInv, [Next]_vars PROVE HomeInv' OBVIOUS
  <2>1. CASE Next
        BY <2>1, HomeOpening, HomeLoggingIn, HomeTeardown, HomeRest DEF Next
  <2>2. CASE UNCHANGED vars BY <2>2, HomeQuiet DEF vars
  <2> QED BY <2>1, <2>2
<1>3. HomeInv => PasswordStaysHome BY DEF HomeInv
<1> QED BY <1>1, <1>2, <1>3, PTL DEF Spec

-----------------------------------------------------------------------------
(* What is given back is no longer in use. *)

Desk == {"rdargs", "screen", "title", "termwin"}
Connected == Desk \cup {"ss", "socket", "session"}
Resources == Connected \cup {"password", "channel", "agent", "timer"}

Login == {"list", "ask", "send", "prompt", "agent", "agent_connect", "agent_list",
          "agent_key", "keyfile", "keyfile_auth"}
WithAgent == {"agent_connect", "agent_list", "agent_key", "keyfile", "channel", "pty",
              "shell", "timer", "loop", "out", "out_channel", "out_free", "out_agent", "hung"}
Gone == {"out_screen", "out_rdargs", "exit"}
Late == {"out_agent", "out_session", "out_password", "out_socket", "out_ss",
         "out_termwin", "out_title", "out_about", "out_wait"} \cup Gone

Channel == [eof : BOOLEAN, close : BOOLEAN, local_close : BOOLEAN, remote_close : BOOLEAN,
            alive : BOOLEAN, blocking : BOOLEAN, again : BOOLEAN]

About == [pid : BOOLEAN, reused : BOOLEAN,
          child : {"none", "starting", "waiting", "closing", "dead"},
          signals : SUBSET {"CTRL_F", "CTRL_C"}, sigf_child : BOOLEAN]

\* On the way up: what has been opened when a label is reached.
Climbing ==
    /\ pc = "rdargs" => held = {}
    /\ pc = "screen" => held = {"rdargs"}
    /\ pc = "title" => held = {"rdargs", "screen"}
    /\ pc = "termwin" => held = {"rdargs", "screen", "title"}
    /\ pc = "ss" => held = Desk
    /\ pc = "password" => held = Desk \cup {"ss"}
    /\ pc = "socket" => held \ {"password"} = Desk \cup {"ss"}
    /\ pc \in {"connection", "session"} =>
           held \ {"password"} = Desk \cup {"ss", "socket"}
    /\ pc \in {"handshake", "channel"} \cup Login =>
           held \ {"password", "agent"} = Connected
    /\ pc \in {"pty", "shell", "timer"} =>
           held \ {"password", "agent"} = Connected \cup {"channel"}
    /\ pc = "loop" => held \ {"password", "agent"} = Connected \cup {"channel", "timer"}

\* On the way down: what can be left, whichever step of the way up has failed.
Descending ==
    /\ pc \in {"out_channel", "out_free"} => "timer" \notin held
    /\ pc = "out_agent" => held \subseteq Connected \cup {"password", "agent"}
    /\ pc = "out_session" => held \subseteq Connected \cup {"password"}
    /\ pc = "out_password" => held \subseteq Desk \cup {"ss", "socket", "password"}
    /\ pc = "out_socket" => held \subseteq Desk \cup {"ss", "socket"}
    /\ pc = "out_ss" => held \subseteq Desk \cup {"ss"}
    /\ pc = "out_termwin" => held \subseteq Desk
    /\ pc = "out_title" => held \subseteq {"rdargs", "screen", "title"}
    /\ pc \in {"out_about", "out_wait", "out_screen"} => held \subseteq {"rdargs", "screen"}
    /\ pc = "out_rdargs" => held \subseteq {"rdargs"}
    /\ pc = "exit" => held = {}

\* The socket has the first descriptor and the agent the second.
Descriptors ==
    /\ fd \in [socket : {None, 0}, agent : {None, 1}]
    /\ open \subseteq {0, 1}
    /\ 0 \in open <=> fd.socket = 0
    /\ 1 \in open => fd.agent = 1
    /\ "socket" \in held <=> fd.socket = 0
    /\ fd.agent = 1 => "agent" \in held
    /\ pc \in {"agent", "agent_connect"} => fd.agent = None
    /\ pc = "agent_connect" => "agent" \in held
    /\ "agent" \in held => pc \in WithAgent

\* Each resource is held at least as long as its users.
Owned ==
    /\ held \subseteq Resources
    /\ "channel" \in held => "session" \in held
    /\ "agent" \in held => "session" \in held
    /\ "session" \in held => "socket" \in held
    /\ "password" \in held \/ "socket" \in held => "ss" \in held
    /\ "termwin" \in held => "title" \in held /\ "screen" \in held
    /\ timer \in {"none", "pending", "replied"}
    /\ timer # "none" => "timer" \in held

\* A process that lives has its PID in AboutWindowPID, so that it is found.
Attended ==
    /\ about \in About
    /\ Alive => about.pid /\ "screen" \in held
    /\ pc \in Gone => ~Alive

\* A channel that a blocking call has closed is not lost.
Kept ==
    /\ chan \in Channel
    /\ pc = "out_free" /\ "channel" \in held /\ chan.blocking => chan.local_close
    /\ lost \in {{}, {"channel"}, {"channel", "session"}}
    /\ lost # {} => pc \in Late /\ ~chan.blocking /\ chan.again
    /\ lost = {"channel"} => "session" \in held

OwnInv ==
    /\ Climbing
    /\ Descending
    /\ Descriptors
    /\ Owned
    /\ Attended
    /\ Kept

\* What is left for good comes from a session that has stopped blocking, for its timer,
\* and from one that has answered questions or crashed over one.
LeakInv ==
    /\ leaked \subseteq {"prompt", "device"}
    /\ "timer" \in held \/ "device" \in leaked => ~chan.blocking
    /\ "prompt" \in leaked => "answers" \in auth.sent \/ pc = "crashed"

LEMMA OwnersFollow == ASSUME AuthType, OwnInv, LeakInv PROVE OwnersOutlive /\ OnlyKnownLeaks
<1>1. TypeOK
      BY DEF AuthType, OwnInv, Owned, Descriptors, Kept, LeakInv, TypeOK, Resources, Connected,
         Desk, None
<1>2. "channel" \in held \cup lost => "session" \in held \cup lost
      BY DEF OwnInv, Owned, Kept
<1>3. /\ held \cap {"session", "agent"} # {} => fd.socket \in open
      /\ "agent" \in held => "session" \in held
      /\ held \cap {"channel", "session", "agent", "password", "socket"} # {} => "ss" \in held
      BY DEF OwnInv, Owned, Descriptors
<1>4. /\ "termwin" \in held => {"title", "screen"} \subseteq held
      /\ Alive => "screen" \in held
      /\ timer # "none" => "timer" \in held
      BY DEF OwnInv, Owned, Attended
<1>5. OwnersOutlive BY <1>1, <1>2, <1>3, <1>4 DEF OwnersOutlive
<1>6. ASSUME pc = "exit" PROVE held = {} /\ open = {} /\ ~Alive
      BY <1>6 DEF OwnInv, Descending, Descriptors, Attended, Gone
<1>7. lost # {} => ~chan.blocking /\ chan.again BY DEF OwnInv, Kept
<1>8. ASSUME pc = "exit"
      PROVE  /\ "device" \in leaked => ~chan.blocking
             /\ "prompt" \in leaked => "answers" \in auth.sent
      BY <1>8 DEF LeakInv
<1> QED BY <1>5, <1>6, <1>7, <1>8 DEF OnlyKnownLeaks

\* Parts of the invariant a step does not touch.
LEMMA AboutStays ==
    ASSUME Attended, UNCHANGED about, "screen" \in held => "screen" \in held', pc' \notin Gone
    PROVE  Attended'
BY DEF Attended, Alive

LEMMA ChannelStays ==
    ASSUME Kept, UNCHANGED <<chan, lost>>, "session" \in held => "session" \in held',
           lost # {} => pc' \in Late, pc' # "out_free"
    PROVE  Kept'
BY DEF Kept

LEMMA DescriptorsStay ==
    ASSUME Descriptors, UNCHANGED <<open, fd>>, "socket" \in held' <=> "socket" \in held,
           "agent" \in held' <=> "agent" \in held, pc' \notin {"agent", "agent_connect"},
           "agent" \in held => pc' \in WithAgent
    PROVE  Descriptors'
BY DEF Descriptors

LEMMA OwnOpen ==
    ASSUME OwnInv,
           NEW step \in {"rdargs", "screen", "title", "termwin", "ss", "session", "channel"},
           Open(step)
    PROVE  OwnInv'
<1> USE Successors DEF Open, Proceed, Goto
<1>1. lost = {} BY DEF OwnInv, Kept, Late, Gone
<1>2. Climbing' BY DEF OwnInv, Climbing, Desk, Connected, Login
<1>3. Descending' BY DEF Descending
<1>4. Descriptors' BY DescriptorsStay DEF OwnInv, Descriptors, WithAgent
<1>5. Owned' BY ZenonT(40) DEF OwnInv, Owned, Climbing, Desk, Connected, Resources
<1>6. Attended' BY AboutStays DEF OwnInv, Gone
<1>7. Kept' BY <1>1, ChannelStays DEF OwnInv
<1> QED BY <1>2, <1>3, <1>4, <1>5, <1>6, <1>7 DEF OwnInv

LEMMA OwnGrant ==
    ASSUME OwnInv, NEW step \in {"connection", "handshake", "pty", "shell"}, Grant(step)
    PROVE  OwnInv'
<1> USE Successors DEF Grant, Proceed, Goto
<1>1. lost = {} BY DEF OwnInv, Kept, Late, Gone
<1>2. Climbing' BY DEF OwnInv, Climbing, Desk, Connected, Login
<1>3. Descending' BY DEF Descending
<1>4. Descriptors' BY DescriptorsStay DEF OwnInv, Descriptors, WithAgent
<1>5. Owned' BY DEF OwnInv, Owned
<1>6. Attended' BY AboutStays DEF OwnInv, Gone
<1>7. Kept' BY <1>1, ChannelStays DEF OwnInv
<1> QED BY <1>2, <1>3, <1>4, <1>5, <1>6, <1>7 DEF OwnInv

LEMMA OwnCopyPassword == ASSUME OwnInv, CopyPassword PROVE OwnInv'
<1> USE Successors DEF CopyPassword, Proceed, Goto
<1>1. lost = {} BY DEF OwnInv, Kept, Late, Gone
<1>2. Climbing' BY DEF OwnInv, Climbing, Desk, Connected, Login
<1>3. Descending' BY DEF Descending
<1>4. Descriptors' BY DescriptorsStay DEF OwnInv, Descriptors, WithAgent
<1>5. Owned' BY DEF OwnInv, Owned, Climbing, Desk, Connected, Resources
<1>6. Attended' BY AboutStays DEF OwnInv, Gone
<1>7. Kept' BY <1>1, ChannelStays DEF OwnInv
<1> QED BY <1>2, <1>3, <1>4, <1>5, <1>6, <1>7 DEF OwnInv

\* The first descriptor that is free.
LEMMA LowestIs ==
    /\ open = {} => Lowest = 0
    /\ open = {0} => Lowest = 1
<1>1. ASSUME open = {} PROVE Lowest = 0
  <2>1. Cardinality(open) = 0 BY <1>1, FS_EmptySet
  <2> QED BY <1>1, <2>1 DEF Lowest
<1>2. ASSUME open = {0} PROVE Lowest = 1
  <2>1. Cardinality(open) = 1 BY <1>2, FS_Singleton
  <2>2. 1 \in 0..Cardinality(open) /\ 1 \notin open /\ \A k \in 0..(1 - 1) : k \in open
        BY <1>2, <2>1
  <2>3. ASSUME NEW n \in 0..Cardinality(open), n \notin open PROVE n = 1
        BY <1>2, <2>1, <2>3
  <2> QED BY <2>2, <2>3 DEF Lowest
<1> QED BY <1>1, <1>2

LEMMA OwnOpenSocket == ASSUME OwnInv, OpenSocket PROVE OwnInv'
<1> USE Successors DEF OpenSocket, Proceed, Goto
<1>1. lost = {} BY DEF OwnInv, Kept, Late, Gone
<1>2. Climbing' BY DEF OwnInv, Climbing, Desk, Connected, Login
<1>3. Descending' BY DEF Descending
<1>4. "socket" \notin held /\ "agent" \notin held BY DEF OwnInv, Climbing, Desk
<1>5. open = {} /\ fd = [socket |-> None, agent |-> None]
      BY <1>4 DEF OwnInv, Descriptors, None
<1>6. Lowest = 0 BY <1>5, LowestIs
<1>7. Descriptors'
  <2>1. CASE held' = held \cup {"socket"} /\ open' = {0} /\ fd' = [socket |-> 0, agent |-> None]
        BY <1>4, <2>1 DEF Descriptors, None
  <2>2. CASE UNCHANGED <<held, open, fd>>
        BY <1>4, <1>5, <2>2 DEF Descriptors, None
  <2> QED BY <1>5, <1>6, <2>1, <2>2
<1>8. Owned' BY DEF OwnInv, Owned, Climbing, Desk, Connected, Resources
<1>9. Attended' BY AboutStays DEF OwnInv, Gone
<1>10. Kept' BY <1>1, ChannelStays DEF OwnInv
<1> QED BY <1>2, <1>3, <1>7, <1>8, <1>9, <1>10 DEF OwnInv

LEMMA OwnOpenTimer == ASSUME OwnInv, OpenTimer PROVE OwnInv'
<1> USE DEF OpenTimer, Goto
<1>1. lost = {} BY DEF OwnInv, Kept, Late, Gone
<1>2. Climbing' BY DEF OwnInv, Climbing, Desk, Connected, Login
<1>3. Descending' BY DEF Descending
<1>4. Descriptors' BY DescriptorsStay DEF OwnInv, Descriptors, WithAgent
<1>5. Owned' BY DEF OwnInv, Owned, Climbing, Desk, Connected, Resources
<1>6. Attended' BY AboutStays DEF OwnInv, Gone
<1>7. Kept' BY <1>1 DEF OwnInv, Kept, Channel
<1> QED BY <1>2, <1>3, <1>4, <1>5, <1>6, <1>7 DEF OwnInv

\* While the user logs in nothing but the agent and a password comes and goes.
LEMMA OwnTalks ==
    ASSUME OwnInv, UNCHANGED <<held, lost, open, fd, chan, timer, about>>,
           pc \in Login, pc' \in Login \cup {"channel", "out", "crashed", "hung"},
           pc' \in WithAgent \/ pc \notin WithAgent, pc' # "agent_connect"
    PROVE  OwnInv'
<1>1. lost = {} BY DEF OwnInv, Kept, Late, Gone, Login
<1>2. Climbing' BY DEF OwnInv, Climbing, Login
<1>3. Descending' BY DEF Descending, Login
<1>4. pc' = "agent" => fd.agent = None
      BY DEF OwnInv, Descriptors, WithAgent, Login
<1>5. Descriptors' BY <1>4 DEF OwnInv, Descriptors
<1>6. Owned' BY DEF OwnInv, Owned
<1>7. Attended' BY AboutStays DEF OwnInv, Gone, Login
<1>8. Kept' BY <1>1, ChannelStays DEF OwnInv, Login
<1> QED BY <1>2, <1>3, <1>5, <1>6, <1>7, <1>8 DEF OwnInv

\* A password that has been asked for is kept.
LEMMA OwnPassword ==
    ASSUME OwnInv, UNCHANGED <<lost, open, fd, chan, timer, about>>,
           held' = held \cup {"password"}, pc \in {"ask", "keyfile_auth"},
           pc' \in {"send", "keyfile_auth"}
    PROVE  OwnInv'
<1>1. lost = {} BY DEF OwnInv, Kept, Late, Gone
<1>2. "ss" \in held BY DEF OwnInv, Climbing, Login, Connected
<1>3. Climbing' BY DEF OwnInv, Climbing, Login
<1>4. Descending' BY DEF Descending
<1>5. Descriptors' BY DescriptorsStay DEF OwnInv, Descriptors, WithAgent
<1>6. Owned' BY <1>2 DEF OwnInv, Owned, Resources
<1>7. Attended' BY AboutStays DEF OwnInv, Gone
<1>8. Kept' BY <1>1, ChannelStays DEF OwnInv
<1> QED BY <1>3, <1>4, <1>5, <1>6, <1>7, <1>8 DEF OwnInv

LEMMA OwnInitAgent == ASSUME OwnInv, InitAgent PROVE OwnInv'
<1>1. CASE Goto("keyfile") /\ UNCHANGED held
      BY <1>1, OwnTalks DEF InitAgent, Goto, Login, WithAgent
<1>2. CASE Goto("agent_connect") /\ held' = held \cup {"agent"}
  <2> USE <1>2 DEF InitAgent, Goto
  <2>1. lost = {} BY DEF OwnInv, Kept, Late, Gone
  <2>2. Connected \subseteq held BY DEF OwnInv, Climbing, Login
  <2>3. Climbing' BY DEF OwnInv, Climbing, Login
  <2>4. Descending' BY DEF Descending
  <2>5. Descriptors' BY DEF OwnInv, Descriptors, WithAgent
  <2>6. Owned' BY <2>2 DEF OwnInv, Owned, Resources, Connected
  <2>7. Attended' BY AboutStays DEF OwnInv, Gone
  <2>8. Kept' BY <2>1, ChannelStays DEF OwnInv
  <2> QED BY <2>3, <2>4, <2>5, <2>6, <2>7, <2>8 DEF OwnInv
<1> QED BY <1>1, <1>2 DEF InitAgent

\* The socket to the agent gets the second descriptor, and keeps it.
LEMMA OwnConnectAgent == ASSUME OwnInv, ConnectAgent PROVE OwnInv'
<1> USE DEF ConnectAgent, Goto
<1>1. lost = {} BY DEF OwnInv, Kept, Late, Gone
<1>2. "socket" \in held BY DEF OwnInv, Climbing, Login, Connected
<1>3. open = {0} /\ fd = [socket |-> 0, agent |-> None]
      BY <1>2 DEF OwnInv, Descriptors, None
<1>4. Lowest = 1 BY <1>3, LowestIs
<1>5. CASE Goto("keyfile") /\ UNCHANGED <<open, fd>>
      BY <1>5, OwnTalks DEF Login, WithAgent
<1>6. CASE /\ pc' \in {"keyfile", "agent_list"} /\ fd' = [fd EXCEPT !.agent = 1]
           /\ open' \in {open, open \cup {1}}
  <2>1. fd' = [socket |-> 0, agent |-> 1] BY <1>3, <1>6
  <2>2. Climbing' BY <1>6 DEF OwnInv, Climbing, Login
  <2>3. Descending' BY <1>6 DEF Descending
  <2>4. CASE "agent" \in held
    <3>1. Descriptors' BY <1>2, <1>3, <1>6, <2>1, <2>4 DEF Descriptors, WithAgent
    <3>2. Owned' BY DEF OwnInv, Owned
    <3>3. Attended' BY <1>6, AboutStays DEF OwnInv, Gone
    <3>4. Kept' BY <1>1, <1>6, ChannelStays DEF OwnInv
    <3> QED BY <2>2, <2>3, <3>1, <3>2, <3>3, <3>4 DEF OwnInv
  <2> QED BY <2>4 DEF OwnInv, Descriptors
<1> QED BY <1>4, <1>5, <1>6

\* libssh2_agent_free closes the agent's descriptor, if it has one, and no other.
LEMMA AgentCloses ==
    ASSUME OwnInv, AgentFreed, pc' \notin {"agent", "agent_connect"}
    PROVE  Descriptors'
<1> USE DEF AgentFreed
<1>1. fd' = [socket |-> fd.socket, agent |-> None] BY DEF OwnInv, Descriptors
<1>2. 0 \in open' <=> 0 \in open BY DEF OwnInv, Descriptors, None
<1>3. 1 \notin open' BY DEF OwnInv, Descriptors
<1> QED BY <1>1, <1>2, <1>3 DEF OwnInv, Descriptors, None

LEMMA OwnFreeAgentFirst == ASSUME OwnInv, FreeAgentFirst PROVE OwnInv'
<1> USE DEF FreeAgentFirst, Goto
<1>1. CASE "agent" \notin held
  <2>1. UNCHANGED <<held, open, fd>> BY <1>1
  <2>2. lost = {} BY DEF OwnInv, Kept, Late, Gone
  <2>3. Climbing' BY <2>1 DEF OwnInv, Climbing, Login
  <2>4. Descending' BY DEF Descending
  <2>5. Descriptors' BY <1>1, <2>1, DescriptorsStay DEF OwnInv
  <2>6. Owned' BY <2>1 DEF OwnInv, Owned
  <2>7. Attended' BY <2>1, AboutStays DEF OwnInv, Gone
  <2>8. Kept' BY <2>1, <2>2, ChannelStays DEF OwnInv
  <2> QED BY <2>3, <2>4, <2>5, <2>6, <2>7, <2>8 DEF OwnInv
<1>2. CASE "agent" \in held
  <2>1. AgentFreed BY <1>2
  <2>2. held' = held \ {"agent"} BY <2>1 DEF AgentFreed
  <2>3. lost = {} BY DEF OwnInv, Kept, Late, Gone
  <2>4. Climbing' BY <2>2 DEF OwnInv, Climbing, Login
  <2>5. Descending' BY DEF Descending
  <2>6. Descriptors' BY <2>1, AgentCloses
  <2>7. Owned' BY <2>2 DEF OwnInv, Owned
  <2>8. Attended' BY <2>2, AboutStays DEF OwnInv, Gone
  <2>9. Kept' BY <2>2, <2>3, ChannelStays DEF OwnInv
  <2> QED BY <2>4, <2>5, <2>6, <2>7, <2>8, <2>9 DEF OwnInv
<1> QED BY <1>1, <1>2

LEMMA OwnLoggingIn == ASSUME OwnInv, LoggingIn PROVE OwnInv'
<1> USE DEF Goto, Offer, Login, WithAgent
<1>1. CASE ListMethods
  <2>1. pc' \in {"crashed", "out", "ask", "prompt", "keyfile", "agent"}
        BY <1>1 DEF ListMethods
  <2> QED BY <1>1, <2>1, OwnTalks DEF ListMethods
<1>2. CASE AskPassword
  <2>1. CASE pc' \in {"send", "out"} /\ UNCHANGED held
        BY <1>2, <2>1, OwnTalks DEF AskPassword
  <2>2. CASE pc' = "send" /\ held' = held \cup {"password"}
        BY <1>2, <2>2, OwnPassword DEF AskPassword
  <2> QED BY <1>2, <2>1, <2>2 DEF AskPassword
<1>3. CASE SendPassword BY <1>3, OwnTalks DEF SendPassword
<1>4. CASE Prompt BY <1>4, OwnTalks DEF Prompt
<1>5. CASE InitAgent BY <1>5, OwnInitAgent
<1>6. CASE ConnectAgent BY <1>6, OwnConnectAgent
<1>7. CASE ListKeys BY <1>7, OwnTalks DEF ListKeys
<1>8. CASE TryKey BY <1>8, OwnTalks DEF TryKey
<1>9. CASE FreeAgentFirst BY <1>9, OwnFreeAgentFirst
<1>10. CASE Passphrase BY <1>10, OwnPassword DEF Passphrase
<1>11. CASE SendKeyFile BY <1>11, OwnTalks DEF SendKeyFile
<1> QED BY LoggingIn, <1>1, <1>2, <1>3, <1>4, <1>5, <1>6, <1>7, <1>8, <1>9, <1>10, <1>11
        DEF LoggingIn

LEMMA OwnRelease ==
    ASSUME OwnInv,
           \/ Release("out_password", "password") \/ Release("out_ss", "ss")
           \/ Release("out_termwin", "termwin") \/ Release("out_title", "title")
           \/ Release("out_screen", "screen") \/ Release("out_rdargs", "rdargs")
    PROVE  OwnInv'
<1> USE TeardownSuccessors DEF Release, Proceed, Goto
<1>1. Climbing' BY DEF Climbing, Login
<1>2. Descending' BY DEF OwnInv, Descending, Connected, Desk
<1>3. Descriptors' BY DescriptorsStay DEF OwnInv, Descending, Descriptors, WithAgent, Desk
<1>4. Owned' BY DEF OwnInv, Descending, Owned, Desk
<1>6. pc \in Gone \/ pc' \notin Gone BY DEF Gone
<1>7. Attended' BY <1>6 DEF OwnInv, Attended, Alive, Gone
<1>8. Kept'
  <2>1. "session" \in held => "session" \in held' OBVIOUS
  <2> QED BY <2>1, ChannelStays DEF OwnInv, Late, Gone
<1> QED BY <1>1, <1>2, <1>3, <1>4, <1>7, <1>8 DEF OwnInv

LEMMA OwnCloseTimer == ASSUME OwnInv, CloseTimer PROVE OwnInv'
<1> USE TeardownSuccessors DEF CloseTimer, Proceed, Goto
<1>1. lost = {} BY DEF OwnInv, Kept, Late, Gone
<1>2. Climbing' BY DEF Climbing, Login
<1>3. Descending' BY DEF Descending
<1>4. Descriptors' BY DescriptorsStay DEF OwnInv, Descriptors, WithAgent
<1>5. Owned' BY DEF OwnInv, Owned
<1>6. Attended' BY AboutStays DEF OwnInv, Gone
<1>7. Kept' BY <1>1, ChannelStays DEF OwnInv
<1> QED BY <1>2, <1>3, <1>4, <1>5, <1>6, <1>7 DEF OwnInv

LEMMA OwnFreeAgent == ASSUME OwnInv, FreeAgent PROVE OwnInv'
<1> USE TeardownSuccessors DEF FreeAgent, Proceed, Goto
<1>1. Climbing' BY DEF Climbing, Login
<1>2. Owned' /\ "agent" \notin held' /\ held' \subseteq held
      /\ held' \cap {"screen", "session"} = held \cap {"screen", "session"}
      BY DEF OwnInv, Owned, AgentGone, AgentFreed
<1>3. Descending' BY <1>2 DEF OwnInv, Descending
<1>4. Descriptors'
  <2>1. CASE "agent" \in held BY <2>1, AgentCloses DEF AgentGone
  <2>2. CASE "agent" \notin held BY <2>2, DescriptorsStay DEF OwnInv, AgentGone
  <2> QED BY <2>1, <2>2
<1>5. Attended' BY <1>2, AboutStays DEF OwnInv, Gone
<1>6. Kept' BY <1>2, ChannelStays DEF OwnInv, Late
<1> QED BY <1>1, <1>2, <1>3, <1>4, <1>5, <1>6 DEF OwnInv

LEMMA OwnCloseSocket == ASSUME OwnInv, CloseSocket PROVE OwnInv'
<1> USE TeardownSuccessors DEF CloseSocket, Proceed, Goto
<1>1. Climbing' BY DEF Climbing, Login
<1>2. held \subseteq Desk \cup {"ss", "socket"} BY DEF OwnInv, Descending
<1>3. Descending' BY <1>2 DEF Descending
<1>4. fd = [socket |-> fd.socket, agent |-> None] /\ 1 \notin open
      BY <1>2 DEF OwnInv, Descriptors, Desk, None
<1>5. fd' = [socket |-> None, agent |-> None] BY <1>4
<1>6. open' = {} BY <1>4 DEF OwnInv, Descriptors, None
<1>7. Descriptors'
  <2>1. fd' \in [socket : {None, 0}, agent : {None, 1}]
    <3> HIDE DEF CloseSocket
    <3> QED BY <1>5
  <2>2. fd'.socket # 0 /\ fd'.agent # 1 BY <1>5 DEF None
  <2>3. "socket" \notin held' /\ "agent" \notin held' BY <1>2 DEF Desk
  <2> QED BY <1>5, <1>6, <2>1, <2>2, <2>3 DEF Descriptors
<1>8. Owned' BY <1>2 DEF OwnInv, Owned, Desk
<1>9. Attended' BY AboutStays DEF OwnInv, Gone
<1>10. Kept' BY ChannelStays DEF OwnInv, Late
<1> QED BY <1>1, <1>3, <1>7, <1>8, <1>9, <1>10 DEF OwnInv

\* The about window's process has ended before the screen is given back.
LEMMA OwnChildEnds == ASSUME OwnInv, LookForChild \/ WaitForChild PROVE OwnInv'
<1> USE TeardownSuccessors DEF LookForChild, WaitForChild, Proceed, Goto
<1>1. Climbing' BY DEF Climbing, Login
<1>2. Descending' BY DEF OwnInv, Descending
<1>3. Descriptors' BY DescriptorsStay DEF OwnInv, Descriptors, WithAgent
<1>4. Owned' BY DEF OwnInv, Owned
<1>5. Kept' BY ChannelStays DEF OwnInv, Late, Gone
<1>6. Attended'
  <2>1. CASE LookForChild /\ Found
        BY <2>1, AboutStays DEF OwnInv, FindChild, Gone
  <2>2. CASE LookForChild /\ ~Found
    <3>1. ~Alive BY <2>2 DEF OwnInv, Attended, Found
    <3>2. about' = [about EXCEPT !.pid = FALSE] BY <2>2 DEF FindChild
    <3>3. about' \in About /\ about'.child = about.child
          BY <3>2 DEF OwnInv, Attended, About
    <3> QED BY <3>1, <3>3 DEF Attended, Alive
  <2>3. CASE WaitForChild
    <3>1. about' = [about EXCEPT !.sigf_child = FALSE] BY <2>3
    <3>2. about' \in About /\ about'.child = about.child /\ about'.pid = about.pid
          BY <3>1 DEF OwnInv, Attended, About
    <3> QED BY <2>3, <3>2 DEF OwnInv, Attended, Alive, Gone
  <2> QED BY <2>1, <2>2, <2>3
<1> QED BY <1>1, <1>2, <1>3, <1>4, <1>5, <1>6 DEF OwnInv

-----------------------------------------------------------------------------
(* The channel in libssh2. *)

LEMMA SendingKeeps ==
    ASSUME NEW c \in Channel, NEW packet \in {"eof", "close"}, NEW d \in Sending(c, packet)
    PROVE  /\ d \in Channel /\ d.blocking = c.blocking /\ d.local_close = c.local_close
           /\ d.again => ~c.blocking
BY DEF Sending, Channel

\* A close that does not have to be repeated has closed the channel.
LEMMA ClosingKeeps ==
    ASSUME NEW c \in Channel, NEW d \in Closing(c)
    PROVE  /\ d \in Channel /\ d.blocking = c.blocking
           /\ d.again \/ d.local_close
<1> DEFINE start == [c EXCEPT !.again = FALSE]
           eofs == IF c.eof THEN {start} ELSE Sending(start, "eof")
           closes == UNION {IF e.again \/ e.close THEN {e} ELSE Sending(e, "close") : e \in eofs}
           End(k) == IF k.again THEN k
                     ELSE IF k.close /\ k.alive /\ ~k.remote_close
                     THEN [k EXCEPT !.again = TRUE] ELSE [k EXCEPT !.local_close = TRUE]
<1>1. start \in Channel /\ start.blocking = c.blocking /\ start.local_close = c.local_close
      BY DEF Channel
<1>2. CASE c.local_close BY <1>1, <1>2 DEF Closing
<1>3. CASE ~c.local_close
  <2>1. ASSUME NEW e \in eofs PROVE e \in Channel /\ e.blocking = c.blocking
        BY <1>1, <2>1, SendingKeeps
  <2>2. ASSUME NEW k \in closes PROVE k \in Channel /\ k.blocking = c.blocking
    <3>1. PICK e \in eofs : k \in (IF e.again \/ e.close THEN {e} ELSE Sending(e, "close"))
          BY <2>2
    <3>2. e \in Channel /\ e.blocking = c.blocking BY <2>1, <3>1
    <3>3. CASE e.again \/ e.close BY <3>1, <3>2, <3>3
    <3>4. CASE k \in Sending(e, "close") BY <3>2, <3>4, SendingKeeps
    <3> QED BY <3>1, <3>3, <3>4
  <2>3. d \in {End(k) : k \in closes} BY <1>3 DEF Closing
  <2>4. PICK k \in closes : d = End(k) BY <2>3
  <2>5. k \in Channel /\ k.blocking = c.blocking BY <2>2, <2>4
  <2> HIDE DEF closes
  <2> QED BY <2>4, <2>5 DEF Channel
<1> QED BY <1>2, <1>3

LEMMA FreeingKeeps ==
    ASSUME NEW c \in Channel, NEW d \in Freeing(c)
    PROVE  /\ d \in Channel /\ d.blocking = c.blocking
           /\ c.local_close => ~d.again
<1>1. CASE c.local_close \/ ~c.alive BY <1>1 DEF Freeing, Channel
<1>2. CASE ~(c.local_close \/ ~c.alive) BY <1>2, ClosingKeeps DEF Freeing
<1> QED BY <1>1, <1>2

LEMMA OwnCloseChannel == ASSUME OwnInv, CloseChannel PROVE OwnInv'
<1> USE TeardownSuccessors DEF CloseChannel, Proceed, Goto
<1>1. lost = {} BY DEF OwnInv, Kept, Late, Gone
<1>2. Climbing' BY DEF Climbing, Login
<1>3. Descending' BY DEF OwnInv, Descending
<1>4. Descriptors' BY DescriptorsStay DEF OwnInv, Descriptors, WithAgent
<1>5. Owned' BY DEF OwnInv, Owned
<1>6. Attended' BY AboutStays DEF OwnInv, Gone
<1>7. Kept'
  <2>1. CASE "channel" \notin held BY <1>1, <2>1 DEF OwnInv, Kept
  <2>2. CASE "channel" \in held
    <3>1. chan' \in Closing(chan) BY <2>2
    <3>2. chan' \in Channel /\ chan'.blocking = chan.blocking
          /\ (chan'.again \/ chan'.local_close)
          BY <3>1, ClosingKeeps DEF OwnInv, Kept
    <3> QED BY <1>1, <2>2, <3>2 DEF Kept
  <2> QED BY <2>1, <2>2
<1> QED BY <1>2, <1>3, <1>4, <1>5, <1>6, <1>7 DEF OwnInv

LEMMA OwnFreeChannel == ASSUME OwnInv, FreeChannel PROVE OwnInv'
<1> USE TeardownSuccessors DEF FreeChannel, Proceed, Goto
<1>1. lost = {} BY DEF OwnInv, Kept, Late, Gone
<1>2. Climbing' BY DEF Climbing, Login
<1>3. Descending' BY DEF OwnInv, Descending, Owned, Resources
<1>4. Descriptors' BY DescriptorsStay DEF OwnInv, Descriptors, WithAgent
<1>5. Owned' BY DEF OwnInv, Owned
<1>6. Attended' BY AboutStays DEF OwnInv, Gone
<1>7. Kept'
  <2>1. CASE "channel" \notin held BY <1>1, <2>1 DEF OwnInv, Kept
  <2>2. CASE "channel" \in held
    <3>1. chan' \in Freeing(chan) BY <2>2
    <3>2. chan' \in Channel /\ chan'.blocking = chan.blocking
          /\ (chan.local_close => ~chan'.again)
          BY <3>1, FreeingKeeps DEF OwnInv, Kept
    <3>3. chan'.again => ~chan'.blocking BY <2>2, <3>2 DEF OwnInv, Kept
    <3>4. "session" \in held' BY <2>2 DEF OwnInv, Owned
    <3> QED BY <2>2, <3>2, <3>3, <3>4 DEF Kept, Late
  <2> QED BY <2>1, <2>2
<1> QED BY <1>2, <1>3, <1>4, <1>5, <1>6, <1>7 DEF OwnInv

LEMMA OwnFreeSession == ASSUME OwnInv, FreeSession PROVE OwnInv'
<1> USE TeardownSuccessors DEF FreeSession, Proceed, Goto
<1>1. "channel" \notin held /\ "agent" \notin held
      BY DEF OwnInv, Descending, Connected, Desk
<1>2. Climbing' BY DEF Climbing, Login
<1>3. Descending' BY DEF OwnInv, Descending, Connected, Desk
<1>4. Descriptors' BY <1>1, DescriptorsStay DEF OwnInv
<1>5. Owned' BY <1>1 DEF OwnInv, Owned
<1>6. Attended' BY AboutStays DEF OwnInv, Gone
<1>7. Kept'
  <2>1. CASE "channel" \notin lost
    <3>1. lost = {} BY <2>1 DEF OwnInv, Kept
    <3> QED BY <2>1, <3>1 DEF OwnInv, Kept
  <2>2. CASE "channel" \in lost
    <3>1. chan' \in Freeing(chan) /\ ~chan.blocking BY <2>2 DEF OwnInv, Kept
    <3>2. chan' \in Channel /\ chan'.blocking = chan.blocking
          BY <3>1, FreeingKeeps DEF OwnInv, Kept
    <3> QED BY <2>2, <3>1, <3>2 DEF Kept, Late
  <2> QED BY <2>1, <2>2
<1> QED BY <1>2, <1>3, <1>4, <1>5, <1>6, <1>7 DEF OwnInv

LEMMA OwnTeardown == ASSUME OwnInv, Teardown PROVE OwnInv'
BY OwnCloseTimer, OwnCloseChannel, OwnFreeChannel, OwnFreeAgent, OwnFreeSession, OwnRelease,
   OwnCloseSocket, OwnChildEnds DEF Teardown

-----------------------------------------------------------------------------
(* The loop, the about window's process and the rest of the world. *)

LEMMA OwnOpening == ASSUME OwnInv, Opening PROVE OwnInv'
BY OwnOpen, OwnGrant, OwnCopyPassword, OwnOpenSocket, OwnOpenTimer DEF Opening

\* Steps after which sshterm() is where it was.
LEMMA OwnStays ==
    ASSUME OwnInv, UNCHANGED <<pc, held, lost, open, fd>>, Attended', Kept',
           timer' = timer \/ (timer # "none" /\ timer' \in {"pending", "replied"})
    PROVE  OwnInv'
<1>1. Climbing' BY DEF OwnInv, Climbing
<1>2. Descending' BY DEF OwnInv, Descending
<1>3. Descriptors' BY DEF OwnInv, Descriptors
<1>4. Owned' BY DEF OwnInv, Owned
<1> QED BY <1>1, <1>2, <1>3, <1>4 DEF OwnInv

\* A signal reaches the process that lives.
LEMMA SignalledKeeps ==
    ASSUME about \in About, NEW signal \in {"CTRL_F", "CTRL_C"}
    PROVE  /\ Signalled(signal) \in About
           /\ Signalled(signal).pid = about.pid /\ Signalled(signal).child = about.child
BY DEF Signalled, About

LEMMA OwnOpenAbout == ASSUME OwnInv, OpenAbout PROVE OwnInv'
<1>1. Kept' BY DEF OwnInv, Kept, OpenAbout
<1>2. "screen" \in held BY DEF OwnInv, Climbing, OpenAbout, Connected, Desk
<1>3. about \in About /\ (Alive => about.pid) BY DEF OwnInv, Attended
<1>4. Attended'
  <2>1. CASE Found /\ about' = Signalled("CTRL_F")
    <3>1. about' \in About /\ about'.pid = about.pid /\ about'.child = about.child
          BY <1>3, <2>1, SignalledKeeps
    <3> QED BY <3>1 DEF OwnInv, Attended, Alive, OpenAbout
  <2>2. CASE ~Found /\ about' = [about EXCEPT !.pid = FALSE]
    <3>1. ~Alive BY <1>3, <2>2 DEF Found
    <3>2. about' \in About /\ about'.child = about.child BY <1>3, <2>2 DEF About
    <3> QED BY <3>1, <3>2 DEF Attended, Alive
  <2>3. CASE about' = [about EXCEPT !.pid = TRUE, !.reused = FALSE, !.child = "starting",
                                    !.signals = {}]
    <3>1. about' \in About /\ about'.pid BY <1>3, <2>3 DEF About
    <3> QED BY <1>2, <3>1 DEF Attended, OpenAbout, Gone
  <2> QED BY <2>1, <2>2, <2>3 DEF OpenAbout
<1> QED BY <1>1, <1>4, OwnStays DEF OpenAbout

LEMMA OwnLeave == ASSUME OwnInv, Leave PROVE OwnInv'
<1> USE DEF Leave, Goto
<1>1. lost = {} BY DEF OwnInv, Kept, Late, Gone
<1>2. Climbing' BY DEF Climbing, Login
<1>3. Descending' BY DEF Descending
<1>4. Descriptors' BY DescriptorsStay DEF OwnInv, Descriptors, WithAgent
<1>5. Owned' BY DEF OwnInv, Owned
<1>6. Kept' BY <1>1, ChannelStays DEF OwnInv
<1>7. about \in About /\ (Alive => about.pid) BY DEF OwnInv, Attended
<1>8. Attended'
  <2>1. CASE UNCHANGED about BY <2>1, AboutStays DEF OwnInv, Gone
  <2>2. CASE Found /\ about' = Signalled("CTRL_C")
    <3>1. about' \in About /\ about'.pid = about.pid /\ about'.child = about.child
          BY <1>7, <2>2, SignalledKeeps
    <3> QED BY <3>1 DEF OwnInv, Attended, Alive, Gone
  <2>3. CASE ~Found /\ about' = [about EXCEPT !.pid = FALSE]
    <3>1. ~Alive BY <1>7, <2>3 DEF Found
    <3>2. about' \in About /\ about'.child = about.child BY <1>7, <2>3 DEF About
    <3> QED BY <3>1, <3>2 DEF Attended, Alive
  <2> QED BY <2>1, <2>2, <2>3 DEF AboutClosed
<1> QED BY <1>2, <1>3, <1>4, <1>5, <1>6, <1>8 DEF OwnInv

\* The process does not come back to life by itself.
LEMMA OwnChild ==
    ASSUME OwnInv, Child \/ UserClosesAbout \/ ReusePID
    PROVE  OwnInv'
<1> USE DEF Child, ChildStarts, ChildWakes, ChildDies, UserClosesAbout, ReusePID
<1>1. Kept' BY DEF OwnInv, Kept
<1>2. about \in About BY DEF OwnInv, Attended
<1>3. about' \in About /\ about'.pid = about.pid BY <1>2 DEF About, Handled
<1>4. Alive' => Alive BY <1>2 DEF About, Handled, Alive
<1>5. Attended' BY <1>3, <1>4 DEF OwnInv, Attended
<1> QED BY <1>1, <1>5, OwnStays

LEMMA OwnWorld ==
    ASSUME OwnInv, Blink \/ Tick \/ ServerCloses \/ ConnectionBreaks \/ Stopped
    PROVE  OwnInv'
<1> USE DEF Blink, Tick, ServerCloses, ConnectionBreaks, Stopped, vars
<1>1. Kept' BY DEF OwnInv, Kept, Channel
<1>2. Attended' BY DEF OwnInv, Attended, Alive
<1> QED BY <1>1, <1>2, OwnStays

LEMMA OwnInit == ASSUME Init PROVE OwnInv
<1> USE DEF Init
<1>1. Climbing /\ Descending BY DEF Climbing, Descending, Login
<1>2. Descriptors BY DEF Descriptors, None
<1>3. Owned /\ Attended BY DEF Owned, Attended, About, Alive, Gone
<1>4. Kept BY DEF Kept, Channel
<1> QED BY <1>1, <1>2, <1>3, <1>4 DEF OwnInv

-----------------------------------------------------------------------------
(* What is left for good. *)

\* Most steps forget nothing, open no timer and leave the channel's mode alone.
LEMMA LeakStays ==
    ASSUME LeakInv, UNCHANGED leaked, "timer" \in held' => "timer" \in held,
           chan'.blocking = chan.blocking, auth.sent \subseteq auth'.sent,
           pc = "crashed" => pc' = "crashed"
    PROVE  LeakInv'
BY DEF LeakInv

LEMMA LeakOpening == ASSUME LeakInv, OwnInv, Opening PROVE LeakInv'
<1>1. ASSUME NEW step \in {"rdargs", "screen", "title", "termwin", "ss", "session",
                           "channel"}, Open(step)
      PROVE  LeakInv'
      BY <1>1, LeakStays DEF Open
<1>2. ASSUME NEW step \in {"connection", "handshake", "pty", "shell"}, Grant(step)
      PROVE  LeakInv'
      BY <1>2, LeakStays DEF Grant
<1>3. CASE CopyPassword BY <1>3, LeakStays DEF CopyPassword
<1>4. CASE OpenSocket BY <1>4, LeakStays DEF OpenSocket
<1>5. CASE OpenTimer
  <2>1. ~chan'.blocking BY <1>5 DEF OpenTimer, OwnInv, Kept, Channel
  <2> QED BY <1>5, <2>1 DEF OpenTimer, LeakInv
<1> QED BY <1>1, <1>2, <1>3, <1>4, <1>5 DEF Opening

\* A credential is added to those that were sent.
LEMMA OfferAdds ==
    ASSUME AuthType, NEW credential, NEW refused, Offer(credential, refused)
    PROVE  auth'.sent = auth.sent \cup {credential}
BY DEF AuthType, Offer

LEMMA LeakLoggingIn == ASSUME LeakInv, AuthType, LoggingIn PROVE LeakInv'
<1>1. CASE ListMethods
  <2>1. auth'.sent = auth.sent BY <1>1 DEF ListMethods, AuthType
  <2> QED BY <1>1, <2>1, LeakStays DEF ListMethods
<1>2. CASE AskPassword BY <1>2, LeakStays DEF AskPassword
<1>3. CASE SendPassword BY <1>3, OfferAdds, LeakStays DEF SendPassword
<1>4. CASE Prompt
  <2>1. \/ auth'.sent = auth.sent \cup {"answers"}
        \/ pc' = "crashed" /\ auth' = auth
        BY <1>4, OfferAdds DEF Prompt, Goto
  <2>2. leaked' \subseteq leaked \cup {"prompt"} /\ held' = held /\ chan' = chan
        BY <1>4 DEF Prompt
  <2> QED BY <2>1, <2>2 DEF LeakInv
<1>5. CASE InitAgent BY <1>5, LeakStays DEF InitAgent
<1>6. CASE ConnectAgent BY <1>6, LeakStays DEF ConnectAgent
<1>7. CASE ListKeys BY <1>7, LeakStays DEF ListKeys
<1>8. CASE TryKey
  <2>1. auth.sent \subseteq auth'.sent BY <1>8, OfferAdds DEF TryKey
  <2> QED BY <1>8, <2>1, LeakStays DEF TryKey
<1>9. CASE FreeAgentFirst BY <1>9, LeakStays DEF FreeAgentFirst, AgentFreed
<1>10. CASE Passphrase BY <1>10, LeakStays DEF Passphrase
<1>11. CASE SendKeyFile
  <2>1. auth.sent \subseteq auth'.sent BY <1>11, OfferAdds DEF SendKeyFile
  <2> QED BY <1>11, <2>1, LeakStays DEF SendKeyFile
<1> QED BY <1>1, <1>2, <1>3, <1>4, <1>5, <1>6, <1>7, <1>8, <1>9, <1>10, <1>11
        DEF LoggingIn

LEMMA LeakTeardown == ASSUME LeakInv, OwnInv, Teardown PROVE LeakInv'
<1> chan \in Channel BY DEF OwnInv, Kept
<1>1. CASE CloseTimer
  <2>1. /\ leaked' = leaked \cup (IF "timer" \in held THEN {"device"} ELSE {})
        /\ held' \subseteq held /\ chan' = chan /\ auth' = auth /\ pc # "crashed"
        BY <1>1 DEF CloseTimer
  <2> QED BY <2>1 DEF LeakInv
<1>2. CASE CloseChannel
  <2>1. chan' = chan \/ chan' \in Closing(chan) BY <1>2 DEF CloseChannel
  <2>2. chan'.blocking = chan.blocking BY <2>1, ClosingKeeps
  <2> QED BY <1>2, <2>2, LeakStays DEF CloseChannel
<1>3. CASE FreeChannel \/ FreeSession
  <2>1. chan' = chan \/ chan' \in Freeing(chan) BY <1>3 DEF FreeChannel, FreeSession
  <2>2. chan'.blocking = chan.blocking BY <2>1, FreeingKeeps
  <2> QED BY <1>3, <2>2, LeakStays DEF FreeChannel, FreeSession
<1>4. CASE FreeAgent BY <1>4, LeakStays DEF FreeAgent, AgentGone, AgentFreed
<1>5. CASE CloseSocket BY <1>5, LeakStays DEF CloseSocket
<1>6. CASE LookForChild \/ WaitForChild
      BY <1>6, LeakStays DEF LookForChild, WaitForChild
<1>7. CASE \/ Release("out_password", "password") \/ Release("out_ss", "ss")
           \/ Release("out_termwin", "termwin") \/ Release("out_title", "title")
           \/ Release("out_screen", "screen") \/ Release("out_rdargs", "rdargs")
      BY <1>7, LeakStays DEF Release
<1> QED BY <1>1, <1>2, <1>3, <1>4, <1>5, <1>6, <1>7 DEF Teardown

LEMMA LeakRest ==
    ASSUME LeakInv, OwnInv,
           \/ OpenAbout \/ Blink \/ Leave \/ Child \/ UserClosesAbout
           \/ Tick \/ ServerCloses \/ ConnectionBreaks \/ ReusePID \/ Stopped
    PROVE  LeakInv'
<1> chan \in Channel BY DEF OwnInv, Kept
<1>1. chan'.blocking = chan.blocking
      BY DEF OpenAbout, Blink, Leave, Child, ChildStarts, ChildWakes, ChildDies,
         UserClosesAbout, Tick, ServerCloses, ConnectionBreaks, ReusePID, Stopped, vars, Channel
<1>2. UNCHANGED <<leaked, held, auth>> /\ (pc = "crashed" => pc' = "crashed")
      BY DEF OpenAbout, Blink, Leave, Child, ChildStarts, ChildWakes, ChildDies,
         UserClosesAbout, Tick, ServerCloses, ConnectionBreaks, ReusePID, Stopped, vars
<1> QED BY <1>1, <1>2, LeakStays

LEMMA LeakStep == ASSUME LeakInv, AuthType, OwnInv, [Next]_vars PROVE LeakInv'
<1>1. CASE Next BY <1>1, LeakOpening, LeakLoggingIn, LeakTeardown, LeakRest DEF Next
<1>2. CASE UNCHANGED vars BY <1>2, LeakStays DEF vars
<1> QED BY <1>1, <1>2

\* What OwnersFollow needs holds in every state.
LEMMA OwnAlways == Spec => [](HomeInv /\ OwnInv /\ LeakInv)
<1>1. Init => HomeInv /\ OwnInv /\ LeakInv
  <2>1. Init => HomeInv
        BY DEF Init, HomeInv, AuthType, PasswordStaysHome, Early, Methods
  <2>2. Init => LeakInv BY DEF Init, LeakInv
  <2> QED BY <2>1, <2>2, OwnInit
<1>2. HomeInv /\ OwnInv /\ LeakInv /\ [Next]_vars => HomeInv' /\ OwnInv' /\ LeakInv'
  <2> SUFFICES ASSUME HomeInv, OwnInv, LeakInv, [Next]_vars
               PROVE  HomeInv' /\ OwnInv' /\ LeakInv'
      OBVIOUS
  <2> LeakInv' BY LeakStep DEF HomeInv
  <2>1. CASE Next
    <3>1. HomeInv' BY <2>1, HomeOpening, HomeLoggingIn, HomeTeardown, HomeRest DEF Next
    <3>2. OwnInv'
          BY <2>1, OwnOpening, OwnLoggingIn, OwnOpenAbout, OwnLeave, OwnTeardown, OwnChild,
             OwnWorld DEF Next
    <3> QED BY <3>1, <3>2
  <2>2. CASE UNCHANGED vars
    <3>1. HomeInv' BY <2>2, HomeQuiet DEF vars
    <3>2. Attended' BY <2>2 DEF OwnInv, Attended, Alive, vars
    <3>3. Kept' BY <2>2 DEF OwnInv, Kept, vars
    <3> QED BY <2>2, <3>1, <3>2, <3>3, OwnStays DEF vars
  <2> QED BY <2>1, <2>2
<1> QED BY <1>1, <1>2, PTL DEF Spec

\* Nothing is given back while something else still uses it, whichever step of the way
\* up failed and whatever the server, the agent and the user did: the session not before
\* its channel and the agent, no descriptor twice, the screen not before the windows
\* (main.c:716-798, channel.c, agent.c).
THEOREM OwnersOutliveUse == Spec => []OwnersOutlive
<1>1. HomeInv /\ OwnInv /\ LeakInv => OwnersOutlive BY OwnersFollow DEF HomeInv
<1> QED BY <1>1, OwnAlways, PTL

\* When sshterm() has ended it holds nothing, no descriptor is open and the about window's
\* process is gone.  Left for good are at most timer.device, of a session that had stopped
\* blocking for its timer (timer.c:56-65), copies of prompts, after answers were sent
\* (main.c:241), and a channel with its session whose close would have blocked.
THEOREM LeaksAreKnown == Spec => []OnlyKnownLeaks
<1>1. HomeInv /\ OwnInv /\ LeakInv => OnlyKnownLeaks BY OwnersFollow DEF HomeInv
<1> QED BY <1>1, OwnAlways, PTL

=============================================================================
