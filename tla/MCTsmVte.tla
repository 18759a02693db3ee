------------------------------ MODULE MCTsmVte ------------------------------
(* TLC's clients of TsmVte.  Bytes and characters are code points. *)
EXTENDS TsmVte

Digits(word) == [i \in DOMAIN word |-> \h30 + word[i]]
Dec(word) == <<\h3F>> \o Digits(word)
Semi(a, b) == Digits(a) \o <<SEMICOLON>> \o Digits(b)

Client(bytes, sequences, keys) ==
    [bytes |-> bytes \cup {ESC, \h5B}, keys |-> keys,
     heard |-> {<<>>} \cup UNION {Prefixes(s) : s \in sequences}]

\* Every state of the parser: 7-bit and 8-bit introducers (C2 9B is U+009B in UTF-8),
\* controls and cancels in between, strings of 1 to 3 byte characters, and too many
\* arguments.
Parser ==
    Client({ENQ, BEL, CAN, SUB, \h20, \h21, \h30, \h31, SEMICOLON, \h3A, \h3F, \h41,
            \h50, \h58, \h5D, \h5C, DEL, \hC2, \h98, \h9B, \h9D, \h90, \hA9,
            \hE2, \hF0},
           {Semi(<<1>>, <<0>>) \o <<\h20>>, <<SEMICOLON, SEMICOLON, SEMICOLON, \h31>>,
            <<\h20, \h21>>, Dec(<<1>>), <<\hA9, \hA9, \hA9, \h31>>}, {})

\* Arguments beyond ArgLimit.
Counter == Client({\h30, \h37, \h42, \h65, \h4D}, {Digits(<<7, 0, 0, 0, 0, 0, 0>>)}, {})

\* Origin mode and margins, while the cursor is saved and restored.
Moder ==
    Client({\h0A, \h32, \h33, \h36, \h37, \h38, SEMICOLON, \h3F, \h47, \h48, \h65,
            \h68, \h6C, \h72},
           {Dec(<<6>>), Semi(<<2>>, <<3>>)}, {})

\* Colours and wrapping, saved, restored and reset.
Painter ==
    Client({\h21, \h31, \h33, \h35, \h37, \h38, \h41, SEMICOLON, \h3F, \h68, \h6C, \h6D,
            \h70},
           {Dec(<<7>>), <<\h21>>, Digits(<<1>>), Digits(<<3, 1>>),
            Semi(<<3, 8>>, <<5>>) \o <<SEMICOLON, \h31>>}, {})

\* The other modes, one after the other in one sequence.
Setter ==
    Client({\h32, \h34, \h35, SEMICOLON, \h3F, \h68, \h6C, \h63},
           {<<\h3F>> \o Semi(<<2, 5>>, <<5>>), Digits(<<4>>), Semi(<<4>>, <<2, 5>>)}, {})

\* The alternate screen.
Pager ==
    Client({\h0A, \h30, \h31, \h34, \h37, \h38, \h39, \h3F, \h48, \h4D, \h68, \h6C},
           {Dec(<<1, 0, 4, 9>>), Dec(<<1, 0, 4, 8>>), Dec(<<1, 0, 4, 7>>), Dec(<<4, 7>>)},
           {})

\* Character sets and single shifts.
Shifter ==
    Client({\h0E, \h0F, \h28, \h2B, \h30, \h37, \h38, \h41, \h4E, \h63, \h7D},
           {<<\h28>>, <<\h2B>>}, {})

\* The 7-bit and 8-bit modes, which take characters from bytes otherwise.
Bits ==
    Client({\h31, \h32, \h36, SEMICOLON, \h46, \h47, \h20, \h41, \h70, \h9B, \hC2, \hE9},
           {<<\h20>>, Digits(<<6, 1>>), Semi(<<6, 2>>, <<1>>)}, {})

\* Keys, with local echo on and off.
Typist ==
    Client({ENQ, \h31, \h32, \h36, \h68, \h6C, \h70},
           {Digits(<<1, 2>>), Digits(<<6, 1>>), Digits(<<6, 2>>)},
           {[kind |-> "ctrl_e", ch |-> 0], [kind |-> "none", ch |-> 0]}
           \cup {[kind |-> "char", ch |-> ch] : ch \in {\h63, \hE9, \h20AC}})

\* Modes that change what keys mean.
Reader ==
    Client({\h30, \h31, \h32, \h3D, \h3E, \h3F, \h68, \h6C},
           {Dec(<<1>>), Digits(<<2, 0>>)},
           {[kind |-> kind, ch |-> 0] : kind \in {"up", "enter", "return"}})

AllClients == {Parser, Counter, Moder, Painter, Setter, Pager, Shifter, Bits, Typist,
               Reader}

=============================================================================
