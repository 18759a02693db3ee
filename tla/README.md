# A specification of SSHTerm

SSHTerm is an SSH terminal for AmigaOS 4. This directory holds TLA+ models of its
core, the TLC runs that check them and theorems about them that TLAPS proves.
`PROJECT.json` lists components, runs, hazards, findings and, definition by
definition, the lines of source each module stands for.

## The system

```
 user ──> termwin.c ──> term-gc.c ──> tsm-vte.c ──> tsm-screen.c, tsm-selection.c
            │  ^           │ (keys)       │               │
            │  │           v              v               v
            │  └─── THM_OUTPUT, THM_RESIZE (hook)    tsm-render.c
            v
        shl-ring.c ──> main.c loop ──> libssh2 channel ──> transport ──> socket
                           ^                 │
                           └── output ───────┘  (to termwin_write)
```

| Component | State it keeps | Operations | What is hard about it | What makes it correct |
|---|---|---|---|---|
| ring buffer, `shl-ring.c` | `buf`, `size`, `start`, `used` | push, pull, copy, flush, clear | wrap-around, growth, `size_t` overflow, failed growth | it is a FIFO queue |
| screen, `tsm-screen.c` | two line buffers, scrollback, `sb_pos`, cursor, margins, flags, ages | write, scrolls, line and character edits, erases, moves, modes, resize, scrollback limit and view | resize moves lines between screen and scrollback; allocation may fail; pointers to lines outlive what they point to | indices in bounds, no text lost, pointers live |
| selection, `tsm-selection.c` | `sel_active`, two ends (line or row, column) | start, target, word, line, reset, copy | ends change from rows to pointers as lines scroll off | an end stays on its text |
| renderer, `tsm-render.c` | the age the caller drew last | draw | ages wrap; signed and unsigned rows are compared | a changed cell is drawn again |
| parser, `tsm-vte.c` | parser state, parameters, charsets, saved cursor | input, keyboard, reset | sequences cut at any byte, limits of the parameter list | every byte sequence leaves it in a defined state |
| UTF-8, `tsm-unicode.c` | decoder state, symbol table | feed, get | malformed and cut sequences | resynchronises |
| hash table, `shl-htable.c` | buckets, deleted marks, perfect bits | add, delete, rehash | deletion with open addressing | finds what was added |
| gadget, `term-gc.c` | font, colours, cached scroller position, mouse mode | layout, render, input, mouse, clipboard | the cached position goes stale | the scroller shows the view |
| window, `termwin.c` | `RingBuffer`, `Columns`, `Rows`, `NewSize` | handle input, read, write, size | resized from another task | no size lost, no key reordered |
| main loop, `main.c` | `iobuf`, sets of sockets, `done` | wait, read, resize, write | everything may block half way | input in order, everything eventually sent, the user can leave |
| libssh2 channel and transport | queue of packets, windows, one partly sent packet | read, write, adjust, window change, eof | a packet half sent must be resumed by the same call | the caller keeps that rule |
| authentication and teardown, `main.c` | what is held, what the server has seen | methods in order, agent, key file; release in reverse | error paths, calls that no longer block | all is released once, nothing under its user; no password where a key will do |
| about window, `about.c`, `signal-pid.c` | `AboutWindowPID` | open, close, wait | the process may be gone | only the child is signalled |
| timer, memory, start-up, menus, stubs | little | thin layers over AmigaOS | sizes, pairing of calls | |

The screen and the parser run on one task and are sequential: their difficulty is long
sequences of calls. The gadget is called from the task of the program and from those of
the system. The loop interleaves with the user, with the
system's layout of the window, with the server and with the network.

## Modules

| Module | What it is |
|---|---|
| `FifoQueue` | abstract: a queue of bytes |
| `ShlRing` | `shl-ring.c`; refines `FifoQueue` |
| `Scrollback` | abstract: a list of lines, at most so many, and a view of it |
| `TsmScrollback` | the linked list of `tsm-screen.c`; refines `Scrollback` |
| `TsmScreen` | `tsm-screen.c` and the rows of `tsm-selection.c` |
| `TsmSelection` | `tsm-selection.c` with its columns, the passes of `tsm-render.c`, and the mouse of `term-gc.c` |
| `TsmVte` | `tsm-vte.c` with the decoder of `tsm-unicode.c` and the keyboard |
| `TermGadget` | `term-gc.c`: drawing and the scroller; uses `Scrollback` for the screen's |
| `MainLoop` | the loop of `sshterm()`, with `termwin.c` and libssh2 around it; its queue of input is the one `ShlRing` implements |
| `Session` | `sshterm()` before and after that loop, the about window, the timer, the agent |
| `ShlRing_proof`, `TsmScreen_proof`, `TsmScrollback_proof`, `TsmSelection_proof`, `TsmVte_proof`, `TermGadget_proof`, `MainLoop_proof`, `Session_proof` | proofs about these |
| `MC…` | the instances TLC checks; one `.cfg` per run (`Session` has no constants and needs none) |

A definition whose comment says it is a mutant is a plausible mistake in the
definition that follows it; `PROJECT.json` pairs it with a property that TLC finds
violated when the mistake is made.

How they meet: `MainLoop` starts where `Session` reaches the shell and ends where
`Session` leaves its label `loop`. The bytes it shows are the input of `TsmVte`, whose
calls on the screen are the environment of `TsmScreen`; the mode bits and the cursor's
row of the screen are in both. `TsmScrollback` shows that the list in `TsmScreen` is
the sequence `TsmScreen`, `TermGadget` and `TsmSelection` take it to be, and
`NumberedInOrder` that comparing `sb_id` is comparing positions in it.

### ShlRing

The variables are the fields of `struct shl_ring`. `size_t` is as wide as
`TopPower` says, so that overflow is within reach; `Junk` is what `malloc` leaves in a
cell. Each call is one action, `shl_ring_push` three: with room, growing, and refused
(overflow or no memory).

### TsmScreen

`struct tsm_screen` is the record `con`, and each public call of `tsm-screen.c` that
changes state is an action; the static functions are operators from one record to the
next, in the order the code calls them. Three abstractions carry the model:

- A cell has ink or not. Characters, attributes and ages do not matter to which line
  is empty, which is kept and where it goes.
- A pointer to a line (`sb_pos`, `sel_start.line`, `sel_end.line`) is a mark the line
  carries. It moves when the line moves, and when the line is freed it goes into
  `dangling`. So two lines differ only in their cells and in who points at them, and
  the state space stays finite without names for lines.
- Two further marks, the anchors, stay on the text the user put the ends of the
  selection on. The code has none: they are what `SelectionFollowsScrolls` compares
  the ends with.

Lines may be shorter than the screen (see the run `wide`). The code reads and writes
beyond their end then; the model takes those cells to be blank and drops what is
written to them, so after such a state the other properties say what holds if nothing
else is damaged. The gadget never asks for less than 80 by 24; the model checks the
library at the smallest sizes at which each case of it occurs.

Which sizes, limits, counts, modes and groups of calls are used is a record, the
`client`, chosen in `Init` from the constant `Clients` and never changed. One run then
checks several small worlds, each with the bounds its part of the screen needs.

### Scrollback, TsmScrollback

`Scrollback` says what the user sees: `lines`, and `top`, where the view starts. In
`TsmScrollback` a line is an address with `next`, `prev` and `sb_id`, the screen is a
sequence of addresses, and `free` is what `malloc` may give out. `link_to_scrollback`
with its evictions, the loop of `tsm_screen_resize` that takes lines back, the calls
that move `sb_pos` and the two that drop lines are its actions. The refinement maps
the list to the sequence that `next` runs through and `sb_pos` to its index.

### TermGadget

`td` is `struct TermData`, `con` the rows, ages and scrollback of its screen, `shown` what
each row of the window looks like. `tsm_screen_draw` skips a row whose ages are not
greater than the age of the last draw; `TERM_handlescroll` moves the picture, draws the
rows that come in and takes the new age. Without a window (`open` false, or between
`termwin_write` and `termwin_refresh`) the gadget has no `GadgetInfo` and draws nothing.
A call is one atomic step: `termwin_write` does not hold the gadget's lock, so on the
real machine a system task could also run in the middle of one, which is left out.

### TsmSelection

The text does not matter, only which cells are between the two ends. `selection_age`,
`tsm_screen_draw` and `tsm_screen_selection_copy` each find that out in their own way;
they are three operators over the same record, and the two that are for the eye and for
the clipboard are compared. The mouse is `TERM_handlemouse`: press, drag, release, two
and three clicks, and the cursor that is moved with Alt.

### TsmVte

One byte is one step: `tsm_utf8_mach_feed`, then `parse_data` with the transition table of
`do_trans`, then exit, transition and entry actions. The table is written as one rule per
state. `heard`, which the code does not have, is what came since the sequence began; the
properties compare arguments and strings with it. Clients again bound the
input: the bytes the server uses, and the beginnings of sequences it may send, so that each
explores one part (arguments, origin mode, colours, modes, alternate screen, character
sets, 7 and 8 bits, typing, keypad).

### Session

`pc` is a label of `sshterm()`; from each, a failure goes to `out`, as the code's `goto out`
does. `held` is the set of things to be given back, `open` and `fd` the descriptors, with the
lowest free number given to the next one, so that closing a number twice can hit another
owner. `Closing` and `Freeing` are `_libssh2_channel_close` and `_libssh2_channel_free`
with their places where the send may block; `lost` is what these leave behind in libssh2.
`leaked` is what no code gives back: timer.device, which `timer_close` leaves open when it frees
the request, and the copies of prompts `kbd_callback` makes with `strndup`.
The about window's process is `about.child`, with the signals it has pending; its PID may
pass to another process when it is dead (`ReusePID`). It is assumed that a dead child is
off the list that `find_pid` searches when its parent gets `SIGF_CHILD`.

Reading a NULL is the outcome `crashed`, and an agent that hangs up in the middle of an
answer, which libssh2 then reads for ever, the outcome `hung`.

### MainLoop

`pc` is the place in the loop, and each of its actions is what happens up to the next
place where the user, the server or the network may come between:

| `pc` | `src/main.c` | actions |
|---|---|---|
| `start` | 575–600 | `Start` |
| `select` | 602–626 | `Select`, `Interrupted` (Ctrl-C) |
| `input` | 635 | `HandleInput` per message, `InputHandled` |
| `read` | 638–659 | `Read`, `ReadBlocked` |
| `size`, `request` | 661–673 | `GetSize`, `SameSize`, `RequestPtySize` |
| `write`, `send` | 675–702 | `ReadRing`; `Write`, `WriteAgain` |
| `eof` | 705–709 | `EndOfTurn` |

`libssh2` is modelled by what the loop can see of it: `lib` is what it has read and
queued for the channel, `window` what the server still takes, and `out` the one packet
that a full socket left half sent (`out = None` when there is none). `PacketSent` and
`PacketBlocked` are the outcomes of `_libssh2_transport_send`, `BadUse` its refusal of
any other packet while one is half sent. Sending on the socket may leave it full, and
only `Drain` makes it take data again. `Lost` is every other error.

## Runs

Bounds are in the `.cfg` files and in the clients of `MCTsmScreen` and `MCTsmVte`.
`CHECK_DEADLOCK FALSE` stands where the system may stop: the loop ends (`input`,
`live`, `flood`, `misuse`), the bound on calls or on lines ever linked is reached
(`gadget`, `scrollback`), or a client has nothing more to send (`vte`).

| Run | Asks | Bounds, and why they are enough |
|---|---|---|
| `ring` | Is the ring a FIFO queue? | 3-bit `size_t`, sizes 2 and 4, pieces up to 4 of two bytes, which are symmetric: pieces wrap around the end, the size rounds to 0, `used + add` wraps to 0 |
| `screen` | Do resizes keep the text and the prompt, edits the margins, the view the scrollback, a selection its text while it scrolls? Does the alternate screen leave the main one alone? | four clients. `Resizer`: up to 2 by 2, scrollback of 0 and 2 lines, memory that fails: every step grows, shrinks or keeps each dimension. `Editor`: 2 columns, 2 or 3 rows, counts of 1 and 2: a region can leave a row above, below or both; characters 1 or 2 cells wide pend at the last column. `Reader`: up to 3 rows, scrollback of 0, 1 and 3 lines, fixed and moving position. `Selector`: 2 rows, ends drift up to row `max_sel_y` = 3 |
| `scrollback` | Is the linked list a list with a view of it? | 6 addresses for 2 rows and limits of 0, 1 and 3: a line in the middle, views on each, two lines taken back at once, one address more for `line_new`; `MaxId` = 5 numbers, so that lines come back and are numbered again |
| `selected` | Is what is highlighted what is copied, and does the window show it? | 3 columns with a word in the first two, 2 rows, 2 lines of scrollback: both ends above, in and below the view, in either order |
| `gadget` | Does the scroller follow the view and stay in range; is each row right or due? | windows of 1 and 4 rows, of which the first never scrolls in part; limits of 0 and 2; ages wrap at 5; `MaxCalls` = 6 calls in any order |
| `vte` | Are arguments, strings and modes what was heard; does a reset recover; do keys arrive whole? | 3 rows, 3 arguments and 5 bytes of string instead of 16 and 127, so that both limits are met; ten clients |
| `input` | Does input reach the server in order; is no size lost? | 2 keys, a query the terminal answers, buffer of 2 bytes and a window of at most 2: writes are cut by the window and blocked by the socket, replies come between keys |
| `live` | Are input and sizes sent; can the user leave; is output shown; does EOF end the session? | 1 key, 2 packets of output that may queue behind each other, buffer of 1; the server's window is of 0 or 1 byte at first, so that a write also meets a closed one |
| `session` | Is everything given back, once, in time, but for the leaks that are named; does the program end; does a password stay at home? | none: the state is finite |

Three runs look for a violation and find it; each quotes the text that promises
otherwise in `PROJECT.json`:

- `wide`: a line that went to the scrollback on a narrow screen comes back to a wide
  one with too few cells. `tsm_screen_resize` widens lines before it takes them back.
- `flood`: with a constant feed of output the read loop never ends and the close
  gadget is not looked at, which the release notes of 1.5 say was fixed.
- `misuse`: a channel read blocks while it sends a window adjustment; the loop
  goes on to write, libssh2 refuses another packet, and the session ends.

The last one matters for what is not checked: `NeverMisused` is false, so
`InputIsSent` and `SizeIsSent` promise their ends "unless the session ends".

Other properties leave out what the code does not do, by name:

- A resize may free a line an end of the selection is on (`tsm-screen.c:715`), and insert
  and delete line (1424, 1464) move rows under a selection that stays, although the comment of
  `tsm-selection.c` (line 42) promises that its start moves with inserts and deletes.
  `SelectionIsLive` is checked for clients that do not resize, `SelectionFollowsScrolls` for
  those that are `Followed`: scrolls and evictions are all it speaks of.
- An end at the top of everything makes the drawing loop take every row of the scrollback
  for the row of that end (`tsm-render.c:103`): `TopInView`.
- A double click leaves cells of the old selection highlighted (`tsm-selection.c:239`), and
  scrolling the window before output has been refreshed leaves rows undrawn
  (`term-gc.c:1042`): the exceptions in `OnlyWordsLeaveTraces` and `OnlyScrollingTears`.
- After an error the program waits for an about window that nobody asked to close, and when
  its PID has a new owner, for that one (`main.c:778`): the exceptions in `Ends`.
- A channel that cannot be closed without blocking stays in libssh2, with its session
  (`main.c:728`). timer.device is never closed (`timer.c:56`), and a prompt that was copied for
  its requester is never freed (`main.c:241`). `OnlyKnownLeaks` names these and nothing else.
- With local echo the answer of the emulation to the echoed key comes between the
  escape of Alt and the key: `KeysArriveWhole` is about echo off.

### Fairness

`FairSpec` of `MainLoop` assumes this, which only the liveness properties need:

- `WF(Turn)`: the task of the program runs. `waitselect` always returns, because the
  blink timer signals every second (`BLINK_DELAY`), so `Select` is never disabled.
- `WF(window = 0 /\ OpenWindow)`: a server whose window is exhausted opens it sooner or
  later. The write loop spins until then.
- `WF(Drain)`: a full socket takes data again while the connection lasts. When it does
  not last, `Lost` ends the session.

Nothing is assumed of the user, of the server's output or of layout.
`OutputIsShown` and `EofEndsSession` are stated for behaviours that stay `Undisturbed`:
no socket that fills up, no byte pushed. A read that blocks in a window adjustment
leaves output in libssh2, and the loop then waits for a socket that may have
nothing more to say; `libssh2_channel_write` drains the socket too. With either, the two
properties do not hold, and no text of the repository promises that they do.

`Session` assumes `WF(Teardown)`, the task of the program once it is leaving, and
`WF(Child)`, the process of the about window, which the system schedules. Neither the
user, the server, the agent nor the timer owes anything. `Ends` does not ask for more: from
`out` on libssh2 answers at once (when it blocks, a server that never closes the channel
holds the program, and the property does not speak of it), the timer's request is aborted,
and the child has been asked to close.

## Proofs

The theorems hold for every value of the constants that satisfies the module's
assumption: `RingAssumption`, `ScreenAssumption`, `ListAssumption`, `SelectionAssumption`, `VteAssumption`,
`GadgetAssumption`, `LoopAssumption`. They say that sizes are numbers, buffers are not empty
and `size_t` holds powers of two; `VteAssumption` also that the bytes of the clients are
bytes, that a screen has a row and that the parser keeps two parameters or more. `Session`
has no constants; its theorems free its properties from TLC's enumeration.

Loops are recursive functions in the models (`Iterated` in `TsmScrollback`, `OutputOf` in
`MainLoop`, `upto` in a `LET` of `TsmVte` and of `TsmScreen`; so are the definitions that
`ArgumentsAreHeard` and `OscIsHeard` compare with). What they preserve is proved by
induction without an operator parameter: the set of the numbers for which it holds contains
0 and is closed under successor, so that (`NatSet`) it contains all of them.

Ring buffer (`ShlRing_proof`):

- `RingInvariant`, `RingTypes`, `RingInventsNothing` and `RingIsFifo`.
  `DataInBuffer` and `NothingInvented` (no cell in use is one that `malloc` left
  uninitialised; to TLC, a part of `IsFifo`) are not inductive: that a push writes into free
  cells needs the type of `buf`, that the size is one of the powers of two, and that `start`
  lies in the buffer also when it wraps. `IInv` joins them. The refinement then needs, for
  each action, what `Content` becomes: lemmas say what reading a cell gives after a
  write that wraps, after the data has moved to the front of a new buffer, and after a
  pull; each concludes with equality of two sequences, element by element.

Screen (`TsmScreen_proof`):

- `ScreenInBounds`, `ViewStaysInScrollback`, `RegionSafe` and `AlternateApart`, for every size,
  limit and count and with memory running out anywhere. The invariant `IInv` is `Sound`
  (both buffers equally long and at least as long as the screen, margins on the screen),
  `Placed` (the cursor on a row), `Viewed`, and that the flags and the rows of the ends keep
  within what the client allows. Both buffers are in `Sound` because a row is
  checked against one of them and used with either. `Viewed` adds to `ViewInScrollback`
  that at most one line carries the view (`Sole`): `tsm_screen_set_max_sb` moves it
  only once.
- There is one lemma per operator, in the order of the model, which says what lengths,
  texts and pointers become; above them one per kind of call: those that write text
  (`TextCall`), scroll (`ScrollCall`), change settings, move the view or the selection's ends, or resize.
  What both action properties need is part of these: each call says of
  which rows it keeps the text (`Regional`, `Separate`), so that the two are proved without
  unfolding the model again. `AnyStep` puts the actions together.
- `TextSurvivesResize` and `PromptSurvivesResize`, for every size before and after. The lines
  of a screen are numbered from the first of the scrollback to the last row (`LineText`), and each
  step of `tsm_screen_resize` says what it does to that numbering: padding cuts lines to the
  columns that remain (`Fitting`), taking lines back does not renumber any (`RefilledText`), and
  scrolling drops some from the front, which it does only when the scrollback is full
  (`ScrollUpText`). The arithmetic between them is `RowNumbers`: what is dropped and taken back never
  exceeds the empty rows, so that the last row with text still fits; and when the cursor is on
  that row and the screen must still scroll, nothing was taken back. `PromptSurvivesResize` allows
  memory to fail in the scroll, as what happens to the rows below does not depend on it.
  `ResizeKeepsText` does not: when `line_new` fails, a row is wiped and used again.
- `SelectionStaysLive` is the property for clients that do not resize, and not for
  others: taking lines back from the scrollback puts an end's line on the screen, and
  a later resize that shrinks the array of lines (line 715) frees it with the end still
  there. The run `screen` leaves this combination out for the same reason.
- `SelectionStaysOnText` is `SelectionFollowsScrolls`, which is about clients that are `Followed`. What these
  do not do loses the text in the code: a resize brings lines back from
  the scrollback; no end follows `insert_lines` and `delete_lines`; the rows of a region
  scroll while the ends count rows of the screen; scrolls of the alternate screen move the
  ends as well; and when `line_new` fails fewer lines than rows go to the scrollback. `Selector`, the
  client with a selection of the run `screen`, is one of them. The property is not inductive:
  an end that is a row says nothing of a pointer that a line may still hold. The invariant
  `Moored` adds `Whole` (the region is the whole screen, which has no lines below it) and, for each
  end, `Berth`: a line of the scrollback that has the end's text has the end's pointer, and no other
  has; text on the screen means that the end is no pointer and is the row of the text. A scroll first
  moves the rows, then one end, then the other; in between, an end is `Afloat`: text that has left
  the screen is where the end will be once it has moved, and `Spares` says that moving one
  end leaves the other's pointers alone. Evicting a line takes its text and its pointer at
  once. Calls that move no line are `Idle`.

Scrollback (`TsmScrollback_proof`):

- `LinesAreKept`, `NumbersAreOrdered` and `ListImplementsScrollback`. The invariant is that
  the heap holds a list of some sequence `s` of `n` lines: `Stands(n, s, top)`. `ListOf` says
  that each line's `prev` and `next` are its neighbours in `s`, that no line is in it
  twice and that `sb_id` grows along it; `ViewOf`, that `sb_pos` is line `top + 1` of it or
  NULL; `Places`, that a line is in `s`, on the screen or free. A lemma for each operation
  says which sequence the heap holds afterwards (without its oldest lines, with one more,
  without its newest), which is the step of `Scrollback` that refines it. While
  lines are linked the list is open at its new end: `Chained`.

Selection (`TsmSelection_proof`):

- `SelectionTypes`, `HighlightMeansCopied` and `WindowShowsSelection`. Each end gets a number,
  its place among the lines of the scrollback and of the screen; the invariant `IInv` says
  that the ends are on lines that exist. Then both the marks of `tsm_screen_draw`, which
  toggles as it passes an end, and the loop of `tsm_screen_selection_copy` are shown to be the
  cells between the two numbers: for the first, that a cell is highlighted when an odd
  number of ends come before it. `WindowShowsSelection` compares the cells whose age is
  renewed with those whose highlighting changes.

Emulation (`TsmVte_proof`):

- `EmulationTypes`, `ScreenFollows`, `KeysGoOutWhole` and `ResetRecovers`. The invariant
  `VInv` is `Good(Terminal)` with no escape pending: fields of their types and within their
  limits (parameters, string and decoder included), margins in order, and the modes and the default colours of the
  emulation those of the screen. `Keeps` says of each operator that makes a terminal of a
  terminal that it stays `Good`, and `Calm`: no answer takes the escape of an Alt
  key. `ResetRecovers` says that a reset sequence gives the terminal that `tsm_vte_new` gives
  whatever state the parser is in: that the first ESC leads to `ESC`, that what
  came before has no say in what the last byte does, and that a new terminal is the
  result.

- `ArgumentsArrive` and `StringsArrive`. `heard` holds what was received since the sequence or
  the string began; `HeardInv` adds to `VInv` that at its head the parser holds what `heard`
  amounts to (`Hears`). Each character adds one element to `heard` and makes one step
  of the parser, so most of the argument is what one more element does to the folding
  functions of the properties (`Course` describes their values round by round), also at the
  limits: a number that is not counted further, a parameter for which there is no place. For strings the argument needs that
  UTF-8 can be read back (`RoundTrip`): the decoder of the emulation, given the bytes of a
  character, gives that character and is at `START` again, so that a string that is full
  holds whole characters. It is proved for each length by arithmetic on the bytes.

Gadget (`TermGadget_proof`):

- `ScrollerStaysInRange`. `td_SBTotal - td_SBVisible` does not wrap
  and the top stays in it, however stale the three are. `GInv` joins what is remembered
  (`Within`) with what is there (`Sound`: the view is in the scrollback, the scrollback within
  its limit), because each refresh copies from the second to the first; lemmas
  follow every function of the gadget through it, scrolls of many lines included.
- `GadgetTypes` adds to it what the drawing needs (`TInv`): the window has as many rows as the
  screen, and each shows a line.
- `ScrollerKeepsUp` says after which calls the scroller is what the screen says it is.
- `WindowStaysRight` is `OnlyScrollingTears`: a row is what it should be or due to be drawn. It needs
  that the gadget's age is never ahead of the counter of the screen (`AInv`), also where the counter wraps
  and everything is drawn again.

Main loop (`MainLoop_proof`):

- `LoopTypes`, with the types of the two other invariants.
- `InputReachesServerInOrder`. The property says that `sent`,
  `iobuf` and the ring together are the numbers up to `pushed`. A step that moves
  bytes from the ring into `iobuf` overwrites what is there, so the invariant adds
  `BufferFree`: outside of the write loop `iobuf` holds no input. The rest is
  concatenation: `Cut` (two parts of a sequence make it up again), `Counting` (the numbers
  up to n and the k that follow) and associativity.
- `ServerKnowsSize`. `ServerSizeCurrent` says nothing while a size is
  being reported, so the invariant adds that what is about to be reported is
  still the size of the window, or that `NewSize` has been set again. Resetting the flag
  after the report instead of before reading the size would break it.
- `PartialStaysFirst`. A packet of data that is half sent is what
  `iobuf` starts with, and the loop is at its write. The property is inductive next to the
  invariant of the order of input.
- `WindowIsKept`. The server's window, as libssh2 counts it, stays
  within what the server has given. `WindowInv` counts the adjustments that are still on their
  way as well, and says that a packet that is half sent is covered by the window,
  which is reduced only when the rest of it goes.

Session (`Session_proof`):

- `KeyFileMeansKeys`. `PasswordStaysHome` looks back at what was sent; `HomeInv`
  adds what each label of the login says about the methods wanted, and that nothing
  is sent before they are known. `HomeOffer` is the one step that sends.
- `OwnersOutliveUse` and `LeaksAreKnown`. `OwnInv` says at each label of the way up what
  is held already (`Climbing`) and at each of the way down what is held no longer
  (`Descending`), which descriptor number belongs to whom, also after the agent's was
  closed (`Descriptors`), and that a child that lives is known by its PID (`Attended`).
  `LeakInv` ties what is in `leaked` to how far the program came: a device to a session that no
  longer blocks, a prompt to answers that were sent.

Only model-checked: liveness, which is out of the prover's reach as is everything about
`ENABLED`. Every invariant and every property of steps that a passing run checks is also a theorem.
The bounds of the model-checked part are those of the table above.

## Not modelled, and what remains

`PROJECT.json` says why for each component. Worth adding, in this order:

1. `TsmSelection` with resizes: columns that a narrower window no longer has.
2. A finer `MainLoop`: the channel's receive window, and a server that stops opening its
   window until its output is read.
3. The calls of `TermGadget` cut up where a system task may come in between.
4. Erasing, protected cells and the tab ruler of the screen; the clipboard; key repeat.

Not planned: cryptography and key exchange of libssh2, SFTP, `libssh2-1.9.0` and `shl-pty.c`
(not built), the xkb keyboard (not built), the hash table and the symbols it holds (the
program never combines characters), character and key tables, palettes and fonts, the
memory pool, menus, and start-up code that is a straight line of system calls. These make up
most of the repository's lines.
