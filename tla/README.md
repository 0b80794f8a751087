# A specification of comm2

comm2 transfers files between a client and a forking TCP server, with a small
command protocol of three-digit codes.  This directory holds TLA+ models of it,
the TLC runs that check them and TLAPS proofs about them.  Line numbers are those
of the sources in `src/`.

## The system

| part | source | state | operations |
|---|---|---|---|
| Wire: commands and replies | protocol.c 27-58, 82-144; protocol.h | the bytes on their way each way, what a read loop has gathered, who has shut down, whether the connection is reset | `proto_send_command`, `proto_expect_command`, `proto_get_protocol_code`, `proto_goodbye_failure` |
| PLAIN_PUT | protocol.c 146-281, 403-476, 590-602 | client: name, local file, how much is sent; server child: name, file, declared size, bytes counted | `client_plain_put`, `proto_plain_put`, `read_filename`, `clean_filename` |
| PLAIN_GET | protocol.c 285-394, 478-587 | the same with the roles swapped | `client_plain_get`, `proto_plain_get` |
| Fork server | ipc/tcpserver.c | the backlog, the parent's descriptors, children, the pending SIGCHLD | `makeserver`, `sigchld_handler` |
| Listener | listener.c | none of its own | reads the protocol name, calls the module |
| Client driver | client.c, ipc/tcpclient.c, test_client.c | none after the connection is made | `client_command`, `makeclient` |
| Protocol library | protocol.c 11-25, 60-80 | the table of protocols | `proto_init_library`, `proto_lookup`, `client_lookup` |
| Select server | ipc/server.c | its descriptors, the set it watches, what is left of the answer of `select()` | one loop around `select()` |
| Massey-Omura | proto_maom.c, proto_maom.h, protocol.txt | the keys | `send_number`, `expect_number`; unfinished |
| Big integers, utilities | bigint.c, utils.c | none | pure functions, `halt` |
| Navigation panel | doc/html/navtree.js | the tree as the page has it, the scripts it waits for, the link in localStorage, scrolls | `navTo`, `gotoNode`, `showNode`, `expandNode`, the handlers of hash changes, clicks and the sync button |
| Search page | doc/html/search/search.js | the field, the filter, two timers, the frame of results, the focus, the key that is down | `SearchBox`, `SearchResults` |

The parent accepts a connection and forks; the child runs the listener, which reads
the five bytes that name a protocol and calls its module.  From there the client and
the child talk over one TCP connection with nothing shared: every step of one is
driven by what it reads from the other.  Nobody uses a timeout and nothing is
retried.  What makes the code hard to get right is

- that TCP is a stream and the protocol has no framing: a reply is "the first three
  bytes of what is there", a name is "what one short read returns", a size is "what
  one read returns";
- that `read()` returning 0 is progress of nothing, so the loops spin at end of file;
- that each end may die, refuse or be refused at any point of a conversation whose
  other end does not look at most of the replies;
- that the parent keeps a descriptor of every connection, and that its signal handler
  interrupts it anywhere;
- that nothing keeps two children from writing the same file;
- in the select server, that one answer of `select()` is used for a whole pass, while
  descriptors are closed and used again, and that a blocking call would stop everyone.

The repository also carries its generated documentation, whose pages are programs of
their own: event handlers, timers and scripts loaded on demand that interleave with
what the reader does and share variables (`o.breadcrumbs`, `keyTimeout`, `lastKey`).

## Modules

| module | models | state and steps |
|---|---|---|
| `Wire` | one connection and the calls both ends make on it | `pc`, `chan`, `got`, `dropped`, `down`, `rst`; `Send`, `Write`, `Gather`, `Expect`, `Goodbye`, `Shutdown`, and the faults |
| `PlainPut` (extends `Wire`) | one PUT session | one action per call of `client_plain_put` and `proto_plain_put`, in the order of the code; a label of `pc` names the call a process makes next |
| `Transfer` | what a transfer promises: the stored file is a growing prefix of the source, and success is reported of a complete copy | abstract specification; `PlainPut!ImplementsTransfer` |
| `PlainGet` (extends `Wire`) | one GET session, as far as it goes | as above |
| `ForkServer` | `makeserver`, `sigchld_handler`, the kernel's backlog and SIGCHLD | `Connect`, `Accept`, `Fork`, `ChildEnds`, `Deliver`, `Wait` |
| `ConcurrentPut` | the children of the fork server on one disk, from `open()` on | `pc`, `written` (the offset), `buffered`, `disk`; `Open`, `Read`, `Write`, `Report` and what may go wrong |
| `SelectServer` | `main()` of ipc/server.c, its clients, the kernel's descriptors | `table`, `active`, `ready`, `queue`; `Select`, `Accept`, `ReadData`, `ReadEnd`, `ReadFails`, `PassEnds` |
| `NavTree` | navtree.js | a step is an event handler, an onload callback, a timer, or the end of a scroll or of a slide |
| `SearchPage` | search.js | a step is an event of the browser with every handler it calls |
| `WireProofs`, `PlainPutProofs`, `PlainGetProofs`, `ForkServerProofs`, `ConcurrentPutProofs`, `SelectServerProofs`, `NavTreeProofs`, `SearchPageProofs` | theorems | |
| `MCPlainPut`, `MCPlainGet`, `MCConcurrentPut`, `MCNavTree`, `MCSearchPage` | small instances: names, contents, `printf("%d")` and `atoi`, a tree, an index | |

A definition introduced by "Slip" is a plausible mistake in the code next to it (a
dropped guard, an unchecked reply); a run finds a property violated when it takes the
place of the definition after it.

### How the wire is modelled

A step is one system call.  `chan[x]` is what has been sent to `x` and not read, so
two writes that arrive together are read together.  `read()` returns all there is, or
with the `"fragment"` fault any non-empty part of it.  `Gather` is the loop shared by
`proto_expect_command` and `proto_get_protocol_code`; what it reads past the command
is counted in `dropped`, since the code throws it away (103-105).

- *End of file.*  When the peer's FIN has arrived `read()` returns 0 for ever.  The
  loops call it again: the process is `"spinning"`, which it never leaves.
- *Writing to a peer that has shut down* succeeds, is answered by a RST, and the next
  write raises SIGPIPE, which nobody handles.
- *The first write after a RST from the network* fails with ECONNRESET.
  `proto_send_command` then closes the descriptor, so that the process fails at its next
  call on it.  The client's own `write()` and `fprintf()` calls (414, 425, 453, 462)
  and the server's report (264, 268) do not act on it: the process goes on (`Unsent`), and the error is
  used up, so that a read loop reads what came before the RST and then spins at end of
  file.
- *A read error* means that the connection was reset.  The code then writes an error
  command and exits: the write raises SIGPIPE, or fails on the descriptor that
  `proto_expect_command` has closed.  Both are `Die`.
- *The end of a server child does not close its connection*, since the parent has the
  descriptor still (`ForkServer`): a killed child leaves its client waiting.  A child
  that ends by itself has called `shutdown()`.
- *The end of the client* closes its end, with a FIN, or with a RST if there are bytes
  it has not read.

A byte is a number.  A decimal digit stands for itself, so that `"100"` is
`<<1, 0, 0>>` and an error code can be read as a size; other characters have their
ASCII code, and `iscntrl` is true of 10..31 and 127 (the codes 0..9 are taken by the
digits).  `Decimal` and `Atoi` stand for `printf("%d")` and `atoi`; the theorems
assume only that `atoi` reads back what `printf` wrote (`DecimalAssumption`).

Sizes are ints (32 bits in the program, `INT_MAX` here) compared as `size_t`; they
wrap around, as gcc without optimisation (the Makefile) compiles them.  `ToSize` is
the conversion, modulo `WORD`.

### How two sessions share a disk

`ConcurrentPut` begins where the conversation of `PlainPut` has come to `open()` (220).
A byte is the pair of its session and its place in the client's file: what is in it
never matters, where it ends up does.  `Overwritten` is `write()` at the offset of a
descriptor: what lies between the end of a file that another child has truncated and
that offset is a hole.  A `read()` returns what is there, up to a buffer (249), so that a client whose file has
grown since its `stat()` (451) makes the child write more than was declared; it then
reports FILE_CUT_TO_DECLARED_SIZE (the label `"cut"`).  `disturbed` is a history variable:
the sessions that were
writing a file, or had written it, when another one opened it, and those that opened a
file that was being written.

### How the select server is modelled

A descriptor refers to the listening socket, to a connection or to nothing; `accept()`
takes the lowest that is free, so that one that was closed is used again in the same
pass.  `Readable` says that a call returns at once.  At end of file the code prints
what it has read, nothing, and leaves the descriptor open (67-70): `ReadEnd` changes
nothing, and `select()` returns at once for ever.  What is printed is left out: it may
hold bytes of an earlier read, since `buffer` is an array of pointers and
`buffer[nread] = 0` clears bytes at eight times that place.

### How the pages are modelled

The browser runs one handler at a time.  What a handler reads later (the data of a
script, `o.breadcrumbs`, the key that is down) is read in the step of the callback that
reads it, and what a callback has captured goes with it in `pending`.  Scripts may come
in any order.  A TypeError ends the handler where it happens.  Which fields of `panel`
and `tree` stand for which variables is said where they are declared.  Layout and icons are left out.

`slideUp` and `slideDown` take a while, and jQuery puts those of one list in a queue:
`slides[n]`, the first of which runs.  A list that slides is displayed; at the end of a
`slideUp` it is hidden (`SlideEnds`), whatever `showNode` (361-367) has done to it
meanwhile.  A slide that finds its list in the state it leads to is over at once (`Goes`),
and a list inside a hidden one counts as hidden.  The scrolls of `gotoAnchor` are
`animation`.  `disturbed` and `lag` are history variables: what `Synced` leaves out, and
the link the panel was on when the sync button, which calls no `navTo` (482-486), changed
the rule that navigations follow.

`selectAndHighlight` (325-331) and the hash handler (532-536) look for the items of a
hash with `a[class$="page:hash"]`: an item of any page whose name *ends* with that of
the displayed one is found too.  `Namesakes[p]` are these pages, and `Anchors` what is
found.  A hash may belong to several pages, and a link may be carried by two nodes (its
*doubles*), of which the index lists one: `ItemOf`.  `AnchorsAssumption` says how the
generated data hang together: a node whose link has a hash is where the index says its
URL is or is a double of that one, no URL is listed at a node with the link of another
one, no link of the tree names a source line, and the root's link has no hash.  The
`navtreedata.js`, `navtreeindex*.js` and branch scripts of `src/doc/html` are so.

## Runs

All runs of the transfers use `BUFSIZE = 6` for 512 and `MAX_FILENAME_LENGTH = 12`
for 4096 (still a multiple of the buffer).  The names are one shorter than a buffer
and one longer; the contents have 0, 1, 4 to 7 and 11 to 13 bytes, around one and two
buffers.  Nothing in the code depends on more: every loop compares a count with a
buffer or with a declared size, and two full buffers and a part take every branch
twice.  `INT_MAX` is 999, more than any size, except in `put_ok`, where it is 12 and
files of 13 and 25 bytes wrap around it.

No name has as many bytes as the buffer (or a multiple of it): a read that fills the
buffer does not end a name (169), so that the server waits for more of it and the client
for the OK, for ever.  With a name of six bytes `Delivery` and `ServerExits` are violated:
what they say is about other names.

| run | question | states |
|---|---|---|
| `put_ok` | with no faults: delivery, nothing dropped, only the named file written, `Transfer` implemented; sizes that wrap included | 715 |
| `put_faults` | resets, kills, `open()` and `write()` failing: success still means delivered, and neither end is left in an endless read loop while the other does its part; the proof's invariant holds | 8620 |
| `put_fragment` | bytes cut and merged at will, the source rewritten meanwhile, resets, a killed client, failing calls: no forged success, the verdict counts the file | 585120 |
| `get_ok` | a GET is refused, under all faults of the wire: it never costs the client its own file, and both ends exit; the proof's invariant holds | 1242 |
| `fork_ok` | four clients: every connection gets a child, the handler always finds a dead one | 4621 |
| `two_puts` | two sessions, two files, one of them there before: bytes are in their places, an undisturbed session delivers, the verdict is that of the declared size, everyone ends; the proof's invariant holds | 60826 |
| `select_ok` | three clients for two descriptors: nothing blocks, nothing is forgotten, everyone connected is heard; the proof's invariant holds | 253081 |
| `nav_ok` | the panel follows the reader, items are made once, flags tell what is displayed but under a `slideUp`, the timer ends | 807981 |
| `search_ok` | the results are those of the field, the focus is in sight, a press moves once | 2257842 |

Bounds of the others:

- `two_puts`: `MaxSize = 3` (when the size is taken) and `BUFSIZE = 2`, so that a file takes
  one or two reads, the last of which may bring more than was declared, and an offset may
  be past the end of a truncated file.  Every property is
  about one session and another that has opened its file; the theorems of
  `ConcurrentPutProofs` are about any number of them.
- `select_ok`: `sd = 3` and `MAX_FDS = 6`, two descriptors for three clients, so that they
  run out and are used again; `BACKLOG = 2`; `MaxSent = 2` bytes of a client and
  `BUFSIZE = 2`, one byte a read, so that data are left for the next pass.
- `nav_ok`: seven nodes, a directory and a file in it whose items come in a script each,
  next to an anchor of another page that has a double in the directory; two index files;
  a hash that both pages have (`main()` in the real data), a name that ends with the
  other's, and a hash that no item has.
  `MAX_EVENTS = 1` and `MAX_PENDING = 2` bound only what is on its way when the reader
  acts: the hash may change during a scroll, which the handler then looks at
  (`animationInProgress`, 539), and two callbacks may wait for scripts at once.
  `MAX_SLIDES = 1`: the reader clicks on a toggle while no slide runs or waits, so that
  scripts and hash changes come in between but two slides of one list do not queue; the
  theorems are for any number.  `Toggled` is the directory alone: its own script and that
  of the file in it are what navigations wait for while it is closed or opened (with the
  file's toggle as well there are 2294397 states, and all properties hold).
- `search_ok`: two filters, rows with and without children, `MAX_LEN = 2` characters, one
  of them a space.  `MAX_FORGOTTEN = 0`: the reader presses no key while a timer that
  `keyTimeout` has forgotten runs, which is 500 ms at most.

Deadlock is checked in `put_ok`, where the end of both processes is the stuttering step
`Over`.  The other runs turn it off: a client may wait for ever for a killed server
child, servers wait for connections for ever, and a page waits for its reader.

The runs that end in a violation show where the code does not do what it says.

| run | violated | why |
|---|---|---|
| `put_empty` | `Delivery` | an empty file: OK and END_FILE_TRANSMISSION are read together, the second is dropped, the client spins |
| `get_served` | `Served` | the comma expression at 316 refuses every GET |
| `fork_zombies` | `AllReaped` | one `waitpid()` per signal, and signals merge |

Other instances of the same runs show more of this kind.  With `Faults = {"shortWrite"}`
`put_ok` violates `SuccessMeansDelivered` (what `write()` returns is compared with 0
only, 254).  With `Faults = {"openFails"}` it violates `Delivery` for good: the client
does not look at SERVER_ERROR (427) and spins at end of file.  With
`Faults = {"noSource"}` the server child never exits: the client's CLIENT_ERROR (350) is
read as a size of 350 bytes.  With `Faults = {"fragment"}`
`SuccessMeansDelivered` is violated, since half a size is taken for the size (238); with
`Faults = {"edit"}` a file that grows is reported as cut, but stored whole (262-265).
`fork_ok` with `MAX_FDS = 3` or `MAX_CHILDREN = 3` violates `EveryoneServed`:
the parent never closes `sd`, and takes `fork()` = -1 for a child (40).

What the hypotheses of the page properties leave out is what the code does not promise.

`Synced` and `SelectedInSight` are about a page until one of these has happened in it
(`disturbed`), and again from the next page on:

- a load or hashchange handler, a click on an item, on a toggle or on the sync button
  while a navigation waited for a script or something scrolled, or such a click on an
  item or the button while a hashchange event waited: a press of the button during a
  scroll leaves two items selected;
- a hashchange event before the load event: it is navigated to twice;
- a hash change that finds its own item still selected, with synchronisation off, after
  the button had left the panel on another link: the handler keeps that item (533-536),
  and `navTo` selects the one of the stored link too.

The button itself is not among them.  It selects nothing, so the panel stays where it
was, with the message that it is synchronised (33-34), until the next navigation:
`Goal` is then what the panel was on (`lag`), and `Synced` says that it still shows that
and that the next navigation leads to the new goal.

`FlagsMatchPage` allows what a `slideUp` does: the reader closes a branch that `showNode`
waits for, the script comes, `showNode` displays the list and sets the flag, and the end of
the slide hides it with the flag set.  (And a `slideUp` that comes while a list above is
hidden finds nothing to do, so that its list stays as it is with the flag cleared.)  It says that nothing else separates the two, and
that they stay together otherwise, in every interleaving, disturbed pages included.

`Synced` calls items shown that bear the goal's hash, and `SelectedInSight` is about goals
that are not `Confused`.  With synchronisation off and the stored link on another
page, `selectAndHighlight` looks for the stored hash in the displayed page and selects
what it finds there: 42 hashes of the generated tree belong to two pages or more
(`bigint_8c.html` and `bigint_8h.html` share most of theirs).  And since it matches the
end of the name, `main()` of `server_8c.html` also selects that of `comm__server_8c.html` and
`test__server_8c.html`, if their branches have come.  `SelectedInSight` also allows for
doubles: 15 links with a hash stand at two nodes, all of them are selected, and
the path is opened to one.  `ResultsMatchField` is about searches that are not
`astray`: Shift+Enter clears the timer of a search that was due (184-200), and the X closes
the results with a timer still running, which opens them again.  Down in the filter window
takes `searchIndex` one past the last filter (300), where a search is a TypeError.  The
theorem about it also supposes that nobody types the field's label: with `Chars` that can
spell it, `search_ok` violates it: leaving the field with results on display clears a
text that equals the label (403-418), and the results stay.

### Fairness

`FairSpec` is weak fairness of each process as a whole: the kernel runs a process that
can run and TCP delivers what was sent.  Each process is sequential, so that its next
step, once enabled, is only disabled by being taken or by the process being killed.
No fairness is assumed of faults, of edits, of clients that connect, or of a child
that ends.  Weak fairness of `Parent` is enough in `ForkServer`: signals are finitely
many and cannot keep it from `accept()` for ever.

`read()` at end of file is no end of a process here: `"spinning"` is not in `Exited`.
`ServerExits` says that the child exits unless the client has failed, and whatever
happens once the client has sent its whole file; `ClientExits` that the client exits once
the child has come to its end (an empty file excepted, see `put_empty`); `BothExit` that
the child of a GET exits unless the client has failed, and in any case once it has been
asked for the file, and that the client exits once the child has shut down.  What they leave out, the code does not do: a child whose client fails in
the middle spins for ever (92, 249), so does a client that takes a SERVER_ERROR for an OK
(427), and a client whose child is killed waits for ever.

In `ConcurrentPut` each child is scheduled and the data that its client has sent arrive
(weak fairness of `Child(s)`); a client that goes away, a call that fails and a signal are
under no fairness.  In `SelectServer` only the server is fair, as one process.
`EveryoneHeard` then needs that a pass gets to every descriptor that is ready, though
others at end of file are ready always.  The pages have no liveness property: `RetryEnds`
says that the timer has an end to find.

## Proofs

`PutTypeOK`: `Spec => []TypeOK` for all faults and constants.  `WireProofs` has one
lemma for each call of the wire, and the proof one step for each action.

`PutSuccessMeansDelivered`: `Reliable => (Spec => []SuccessMeansDelivered)`.
`Reliable` says that a read returns all there is, that the client's file does not
change, that the disk takes all it is given, that no name has a control character and
that sizes fit an int; the other instances above show what happens without the
first two.  Resets, kills and calls that fail are allowed.  `SuccessMeansDelivered` says
nothing of the middle of a session, so the proof rests on `IInv` (theorem `PutIInv`): the talk
is in one of the phases `Greeting`, `Naming`, `Sizing`, `Sending`, each of them a list
of the places where the two processes and the bytes between them may be; or the server
has given up and nothing it has sent reads as success (`ServerLost`); or the client
cannot report success any more; or the server has the whole file (`Done`).
`DownMeansExited` is needed to know that a client that still talks has not shut down,
so that the server cannot be at end of file.  Every action keeps one of these: a lemma
per action of the server and of the client, cases on the phase inside.

`ForkIInv` and `HandlerNeverFails`: for any number of clients and any limits there is a
dead child for the signal being handled and another one for the pending signal, so the
handler's `waitpid()` never fails.  It needs `Fresh`: `fork()` never serves a connection
that has had a child, else a dead child could be forgotten.

`GetTypeOK`, `GetIInv`, `GetLocalFileKept`: a refused GET never truncates the client's
file, with no assumption on the environment: reads may return any part of what was sent.
The argument is about `In(x)`, what an end has gathered and what is on its way to it
together.  A read moves bytes from one to the other and leaves `In(x)` alone
(`GatherEffect`), so cuts do not show in it.  `Greeting` says that until the client has
its OK there is one command at most in each direction; `Refusal` that afterwards only
failures reach it.  Since there is never more than one command, a loop drops nothing
and takes no part of one for another.

`ConcurrentIInv`, and from it `ConcurrentDelivered`, `ConcurrentBytesInPlace`,
`ConcurrentHoles`: for any number of sessions and names.  `Alone` says that nobody else
writes the file of a session that is not disturbed, `Stored` that this file is what the
session has written, `Counted` how far an offset may be past what was declared (up to one
buffer, as the client's file may have grown) and that END_FILE_TRANSMISSION is reported
of the declared size only.  The other
two theorems have invariants of their own in the module.

`SelectIInv`, and from it `SelectWatchesTheOpen` and `SelectNeverBlocks`: for any number of
clients and any limits with `MAX_FDS <= FD_SETSIZE`.  `NeverBlocks` needs `Fresh`: a
connection has one place, in the backlog or at one descriptor, else reading one of two
would make the other block.

Further theorems about `PlainPut`:

- `PutVerdictCountsFile`: when the server child has sent its verdict, what it compared is
  the number of bytes in the file, for all faults but a short write.  `FileOpen` says
  that from `open()` on the name is that of a file, `Counted` that `total` is its length
  modulo `WORD`.
- `PutNoForgedSuccess`: cut or merge the replies as you like, and fail what you like but
  kill no server child: a client that reports success was told so by the server.
  `Unforged` needs only `OneThenZero`, which survives every cut: until
  END_FILE_TRANSMISSION (130) is sent, the only 1 in the replies is that of OK (100), so
  no three bytes of them read as 130.  After the kill of a child that had sent its verdict
  the conclusion is false of the model's labels, though the file is right; `EndSent`
  says what is true there.
- `PutOnlyNamedFileTouched` and `PutImplementsTransfer`, in a `Reliable` environment:
  `Orderly` says what can be left in the socket when the client goes away in the middle
  of a name or a size (`Leftover`), so that the child opens the client's file or none.
  The refinement maps the server's file to the prefix that is stored; each action is a
  step of `Transfer` or a stutter.  `UntouchedAssumption` only says that the mark of a
  file nobody has written is no contents.
- `PutNothingDropped`, with no empty file besides: one reply at most is on its way
  (`OneAtATime`, `OneReply`), so a read past a command finds nothing.  The run
  `put_empty` shows what an empty file does.

`SearchTypeOK`, `SearchHoverKeepsFilter`, `SearchFocusInSight`, `SearchOnePressOneMove` rest
on `SearchPage!IInv`, `SearchResultsMatchField` also on `MatchIInv`, for every index whose
pages are sorted, every length of the field and any number of forgotten timers.  `IInv` says of every handler's
effect on the record `panel` what the next one relies on: which timer `keyTimeout`
names, that the focus is on a row that matches and whose children are open if it is on a
child.  `RowsAssumption` came out of the attempt without it: `NavUp` (626-644) steps over
the rows that do not match and looks at the children of the row before, which is right
only if rows that begin alike stand together.  The files `search/*_*.js` are sorted so.
`MatchIInv` follows a search from the field over the timer to the frame: what is loaded
is what was searched for last, and that is the field's text but for blanks, or a timer
runs or the reader is typing.

`NavTypeOK`, `NavEachItemOnce`, `NavFlagsMatchPage`, `NavRetryEnds` rest on
`NavTree!IInv`.  `ItemsOnce` ties the number of list items to `childrenVisited`, `FlagsOK`
says that a list is displayed while it slides, which with a look at every handler's tree
gives `FlagsMatchPage` as a property of steps; `CallbackOK` says that what a callback has captured is
still of use when its script comes, and the last conjunct that some callback on its
way `Leads` to a selected item, whichever navigation `o.breadcrumbs` belongs to by then.
`NavSynced` and `NavSelectedInSight` need `SyncIInv` besides.  `Aims` are the places a
navigation may be going to (the goal, or any hash of the page while an event waits);
`Follows` says that it is at one of them, or that exactly one callback waits, with the path
above it open and nothing selected but items of the hash; `Scrolls` that a click
has selected its item and its scroll is about to set the location.  `Reaches` (in
`NavTreeProofs`) is what a call of `showNode` does for that: it arrives, or leaves one
such callback.  `Torn` are the lists that a slide has hidden while their flag says open,
which `InSight` allows for.  Handlers that overtake a navigation set `disturbed`, after which nothing
is promised; all others keep `SyncIInv` (`SyncNavigates`, `SyncStays`).  `IInv` and
`SyncIInv` hold as invariants of the instance of `nav_ok`, which was tried before the
proofs.

Loops are written as the least index with a property (`CHOOSE` in `ShowNode`, the rows
in `SearchPage`), and the proofs get it from the well-founded order of the naturals
(`LeastOf`, from `WFMin`).

Only model-checked: `Delivery`, `ServerExits`, `ClientExits`, `BothExit`, `EveryoneServed`,
`SessionEnds` and `EveryoneHeard`, since liveness under fairness is beyond the prover.
Every safety property that a passing run checks is also proved.

## Not modelled

- `protocol.c` 320-392, unreachable, and 526-584, which waits for a reply that never
  comes from this server.
- `proto_init_library`: it copies unterminated names with `strcpy` over its own table.
  What that overwrites is up to the linker; the models assume the table as it is meant.
- What is written to stdout and stderr, and the elapsed time (`timespec_subtract`).
- `proto_maom.c`, which is not built, does not compile and is bound to no protocol name.
- `bigint.c` and `utils.c` but for `halt`: pure functions that only test programs call.
- A client that names an unknown protocol, which `client_lookup` prevents.
- Two tabs of the documentation that share localStorage, and the branches of navtree.js for
  Internet Explorer (99-105, 283).
- The rest of the generated documentation: data, jQuery, `dynsections.js` and
  `resize.js`, which keep no state that a step could find stale.

## Plan

1. `Wire`, `PlainPut`, `Transfer`, `PlainGet`, `ForkServer` and their proofs: done.
2. `ConcurrentPut`, `SelectServer` and their proofs, the proofs of `PlainGet`: done.
3. `NavTree`, `SearchPage` and their proofs: done.
4. The refinement of `Transfer` and the other safety properties of `PlainPut`: done.
5. `Bigint`, `Text`: `mpz_2_bytes` and `bytes_2_mpz` as inverses, `get_seed` against
   its header, `zero_pad`, `tokenize`, `timespec_subtract` against reference definitions.
