# A TLA+ development for 42KL-Fifth-Circle

The repository holds three programs. This directory models two of them: the web
server, from its start-up to the last byte of an answer, and the containers.

* **webserv** (`webserv/`, C++): an HTTP server. One thread, one `poll()` loop,
  non-blocking only in its listening sockets; CGI scripts in child processes.
* **ft_containers** (`ft_containers/`, C++98 templates): `vector`, `stack`,
  `map` over a red-black tree, with iterators.
* **Inception** (`Inception/`): a Docker composition of NGINX, WordPress,
  MariaDB and a few others.

## Inventory

| component | state it keeps | operations | what makes it correct |
|---|---|---|---|
| `Server` (`server/Server.cpp`) | `_poll_fds` and five maps keyed by descriptor: `_client_sockets`, `_requests`, `_responses`, `_client_server_pair`, `_timeout` | `launch`, `acceptor`, `receiver`, `responder`, `remove_client` | the tables agree with each other and the kernel at every point of a scan; a client is answered once its request is complete, from its own bytes, and always leaves |
| `Request` (`server/request/`) | lines, headers, body, chunk length, flags done / header done / bad / chunked | `read_header`, `add_body`, `process_chunk` | the same request however TCP cuts the message |
| `Response` (`server/response/`) | text left to send, error code | constructor (routing, files, upload, CGI), `respond` | sends its text once; the status fits what was done |
| `process_cgi` and the script | two pipes, a child | fork, write body, read page, wait | no byte lost, no end left open, always returns |
| sockets (`socket/`) | one listening descriptor each | `socket`, `bind`, `listen`, `accept` | |
| configuration (`config/`) | multimaps of owned directive objects | parse, validate, look up, copy | accepts the grammar; every object freed once |
| `Log`, `utils`, `main` | none | | logging may throw (no `error_log`) |
| red-black tree, `map`, iterators | linked nodes, size | insert, erase, find, `++`, `--` | ordered, balanced, equal to a set |
| `vector`, `stack` | storage, size, capacity | push, insert, erase, resize | equal to a sequence; each element destroyed once |
| Inception services | volumes, set-up scripts | start, restart | set-up survives a restart and a late database |

How the parts of webserv meet: `main` parses the configuration and constructs
`Server`, which opens one `ListeningSocket` per `listen`. `launch` polls
`_poll_fds`, in which the listeners come first, and scans it in order. A ready
listener makes `acceptor` push a client at the end; a readable client goes
through `receiver` to its `Request`; when that is complete the entry asks for
POLLOUT, and `responder` builds a `Response`, calling `process_cgi` inside the
loop where the location has a `cgi_pass`, and sends what the socket takes.
`remove_client` erases a client from every table in the middle of the scan. An
exception anywhere below `launch` ends the process (`main.cpp:52`).

ft_containers is used by nothing else: its callers are the testers. `map` owns a
`RedBlackTree` and counts its elements apart from it; its iterators are bare
node pointers. `vector` owns one block; `stack` is a `vector` with two calls.

What is hard in the server: the scan runs on a stale report while peers go on
acting, and erases and appends entries of the vector it walks; descriptors are
reused at once; time is counted in scans; TCP cuts messages anywhere; parent and
script wait for each other through bounded pipes; where an upload is stored,
where its redirection leads and what a DELETE removes are found by different
rules over the same text. In the containers it is the long sequence of legal
calls: rotations under a kept iterator, a sentinel all leaves share, a cell that
holds no object any more. `PROJECT.json` lists each hazard at its line with the
properties that watch it.

## Modules

| module | models | state and actions |
|---|---|---|
| `Server` | `Server.cpp`, `accept_connections`, `respond` | the members of `Server` under their own names without the underscore; the kernel's and peers' side as `link`, `peer`, `pending`, `dest`, `backlog`, `sock`; `pos` is the loop index `i` (0 while in `poll`), `halt` says why the process no longer serves. One step is one `poll()` or one turn of the scan loop with everything it calls; peers act between any two turns |
| `RequestFlags` | what the loop reads of a `Request` | the method and three flags, and the set of outcomes of `read_header` and `add_body` for one buffer |
| `Request` | `Request.cpp`, byte for byte as far as a statement can tell bytes apart | one step is one buffer given to `receiver` |
| `ConnectionService` | the promise in the comment above `launch` (`Server.cpp:169-183`) | one phase per connection |
| `TimedServer`, `Deadline` | `Server` with a history clock | scans since accept; waits of `poll` since accept |
| `Cgi` | `process_cgi` and the child: the two scripts of the repository, one that reads all of its input first, one that ends at once | the two pipes in units of data, who holds which end, program counters of both processes; `text` is what of the page the C strings kept |
| `Config` | `main.cpp`, `ServerConfigParser.cpp`, the constructor of `Server` | start-up: one step is one turn of one of the parser's three loops over the tokens of `webserv.conf`, then `validate_config`, then the sockets; `rest`, `block` and `inner` are what each loop has not parsed yet |
| `Site` | the `Response` constructor over what `Config` parsed, with the file system | one step is one request answered: `files` and `dirs` are the disk, by paths from its top; `answer` is the last answer, or the request in whose middle an exception was thrown |
| `TreeSteps` | the steps of `redblacktree.hpp`: rotation, one turn of `insertFix` and of `deleteFix`, attachment, relinking | no state: operators on a tree with children, parents, colours and the sentinel's parent; the two mirrored branches of each fix are one definition with the side as parameter |
| `RedBlackTree` | the functions of `redblacktree.hpp` that repeat those steps, `++` and `--` of `mapIterator.hpp` | no state: recursive operators |
| `TreeCalls` | `insert()`, `insertFix()`, `deleteNode()`, `deleteNodeHelper()`, `minimum()` and `deleteFix()` step by step | a tree and the locals of the call under way, `phase` says in which loop it is; one step is the call, one turn of a loop, the code between two loops, or the return |
| `Map` | `map.hpp`, `rbegin` and `rend` | two maps and one iterator the caller keeps; one action per member function; `_size` is counted by each insertion and deletion as it is made; `call` is the last call |
| `OrderedMap` | the promise of `map.hpp`, call by call | sets of elements in the order of their keys |
| `Vector` | `vector.hpp`, `stack.hpp`, `equal` and `lexicographical_compare` of `functions.hpp` | the cells of each vector and its size; one action per member function; `call` is the last call, `did` what it did to the storage |
| `Elements` | the promise of `std::vector`, call by call | a sequence per vector |
| `SequenceLemmas` | | lemmas about numbers, sequences and functions defined along the numbers, which the other proofs share |
| `ServerProofs` | | theorems about `Server` and `TimedServer`, and that `Server` implements `ConnectionService` |
| `CgiProofs` | | theorems about `Cgi` |
| `ConfigProofs`, `SiteProofs` | | the invariants of the parser, and the theorems about `Site` and the `Config` it extends |
| `RequestProofs` | | theorems about `Request`; in the second part about messages cut only where a line, a body byte or a chunk ends |
| `TreeProofs` | | theorems about `TreeCalls` |
| `VectorProofs` | | theorems about `Vector`, and that it implements `Elements` |
| `MCServer`, `MCTimed`, `MCDeadline`, `MCRequest`, `MCSite`, `MCMap`, `MCTreeCalls`, `MCVector` | | instances for TLC |

`Server` does not carry bytes: it asks `RequestFlags` what a buffer may make of a
request, and `FlagsFollow` of `Request`, which is proved, says that real buffers,
cut anywhere, do nothing else. `Server` implements `ConnectionService` under the
mapping at its end. Whether a CGI call returns is `Cgi`'s question; in `Server` it
is the step `RespondStops`, which may always happen. `Site` extends `Config`: the
requests it answers find the configuration the parser made of the file. It answers
one request at a time, which is what the one thread does; which client gets the
answer is `Server`'s business. `Map` implements `OrderedMap` and `Vector` implements
`Elements`: the abstract step is that of the very call made (`call`), up to the
calls that lose the container, which the abstract specifications name (`Lose`).
`Map` makes each call of the tree in one piece, which is how a caller sees it;
`TreeCalls` takes the same steps one at a time, and `IsCall` says that together they
make the same tree.

What is abstracted: a map is a total function with `None` for an absent key; the
configuration is the listener a response was built with (`via`); a response is
the number of `send()` calls it may still take; `halt` freezes the model,
because nothing else is observable then. `src` in a request and `sent` are
history. The unset `revents` of a fresh entry is a choice from `Garbage`.
`DELETE` requests are read exactly as `GET` is and share its name. In `Request` a
chunk size is one token, never cut, and a body byte is never taken for a digit by
`std::stod`; either would only add outcomes `RequestFlags` already allows. A
message may hold fewer or more bytes than it announces, or announce 0.

A unit of `Cgi` is what Python keeps in one buffer before it writes: the scripts'
own `print`s are smaller, and reach the pipe in such portions. A `GET` gives a script
no input of its own, so none is taken to read then. A script may be *drain*
(reads all, then prints), *poll* (`cgi.py`: looks once, then reads all or nothing),
*stream* (`public/cgi/cgi.py`: looks once, then prints what it reads as it reads),
*broken* (gone at once, as after a failed `execve`) or *missing* (never run). Which of
the printed units hold a null byte is free.

In `Config` a file is a sequence of tokens: brackets, semicolons and words. The
words of one directive are taken for separated by blanks, not by line ends (which
`count_values_in_line` deletes). In `Site` paths are sequences of characters,
because the code compares and replaces text; `Walk` is the system's reading of one:
it follows the names from the directory the server runs in (`Cwd`), past several
slashes, `.` and `..`, through directories that exist. There are no symbolic links,
and a file that `stat` finds can be opened. A body is a sequence of chunks, an
upload a sequence of parts of which the last may end where a boundary does (`cut`),
a listing one chunk; `%20`, query strings and the wording of headers are left out.
An exception ends the process wherever the code lets one out of `launch`: a first
line without a slash and a `Content-Length` that is empty or too large
(`Malformed`), the look-ups of the constructor, and `stoi`, `stoul` and `substr` on
what they cannot take. `stoul` reads the digits a word begins with (`Leading`). What
an `int` and an `unsigned long` hold are constants, compared with and nothing else.
What `is_file` finds in a `stat` buffer that `stat` did not fill is a free choice,
made anew at each call. `RedBlackTree` takes equal keys apart by a number, so that
the order of equal elements can be stated. `NULL` as the sentinel's parent stands
for a field no call has set and for a node that was freed: reading it is the end of
the process in both. In `Vector` elements are of a class type, for which destroying
a cell that holds no object is a mistake.

Operators commented *Mutant* are faulty variants of the definition behind them.
Nothing uses them: they are there to see that a property notices the fault.

## Runs

| run | question | bounds | states |
|---|---|---|---|
| `server_safety` | `TypeOK`, `Tables`, `WriteReady`, `OwnTraffic`, `ReadableIsRead`, and `Implements` (the abstract life cycle) | 2 listeners, one that may be in error and has no `error_log`; 2 descriptors, 2 connections, 2 scans of patience, 1 send; unset `revents` may read POLLOUT | 1.2 million |
| `server_live` | `ClientsLeave`, `QueueDrains`, `AgeBound` | 2 listeners, one that may be in error and has no `error_log`; 2 connections contend for 1 descriptor, 2 scans, 2 sends; any unset `revents` | 539 thousand |
| `server_blind` | fails: `FinishedBeforeWrite` | any `revents` in a fresh entry | |
| `timed_deadline` | fails: `NoEarlyTimeout` | 5 scans against 3 waits | |
| `request_messages` | `WholeIsAnswered`, `ReceivedIsSent`, `FlagsFollow` | GET without and with a body; POST without one, with 0 to 4 bytes behind a length of 0 to 3, with 2 to 4 bytes in two chunks; every cut | 90 thousand |
| `request_cut` | fails: `AnsweredWhenFinished` | one GET | |
| `cgi_scripts` | `WholeExchange`, `NeverBothWait`, `Returns` | the five kinds of script; body up to 7, page 4, pipes of 2, blocks of 3; null bytes in no unit, one, or two | 4.9 thousand |
| `cgi_poll` | fails: `BodyGetsWritten` | `cgi.py`, body up to 3 | |
| `map_calls` | `Linked` (with `TypeOK`), `SizeIsCount`, `GoesDownOnlyIf`, and `Implements` (`OrderedMap`) | 2 maps, 5 keys, 2 of each; 5 elements in one map while the other is empty, one each otherwise; maps of up to 3 copied; 3 ranges | 673 thousand |
| `tree_calls` | `Ordered` (`TypeOK`, `Linked`, `Whole`, `Sorted`), `RedBlack` (`OneRedPair`, `Balanced`), `ClimbsOrEnds`, `OneElement`, `IsCall` | 4 keys, 2 of each: any insertions into a tree of up to 8 nodes, and deletions from it; then any calls on a tree of up to 6 | 245 thousand |
| `vector_calls` | `OrderIsTotal`, `StaysInside`, `MovesOnlyForRoom`, and `Implements` (`Elements`) | 2 vectors, 2 values, 6 cells together, 2 ranges | 47 thousand |
| `site` | `EveryDirectiveIsRead`, `StartsOrEnds`, `UploadIsServed`, `DeletedIsGone`, `AnswersAreWhole`, `ChangesAreAllowed`, `ChangesStayBelow`, `RobustStaysUp` | 39 files, of which 13 are accepted; 13 URLs, one of them leading up, 4 uploads, one of them cut, 2 outputs of a script; 12 directives to a block | 19 thousand |

Why the bounds are enough. Two descriptors and two connections let a descriptor be
reused by another connection while a second one is being served, and an erasure
shift a live entry under the scan; two listeners let a connection be answered with
the wrong configuration. A third client adds entries, not a new relation between
two. Patience of 2 scans lets a client expire while it is silent, half read, and
half answered. The pipe is smaller than a block, a body and a page, so that every
call is cut short. A body of four bytes is cut at every place, and two chunks and
the last one of size 0 show the carry of `_chunk_length`. Five keys are the fewest
with which line 141 of `redblacktree.hpp` can leave two red nodes in a row and a
later deletion can fall through them, and both branches of each fix, with and
without a rotation, occur in smaller trees; two of a key are enough to tell which of
them goes. Eight insertions are the fewest after which the loop of `insertFix`
climbs and rotates behind that, inwards and outwards; on the way every branch of
`deleteFix` is taken, its loop climbs, and a deletion falls through what line 141
left behind. Six cells let a block of two grow to four and be full again beside
another vector. The runs `map_calls` and `vector_calls` give TLC a VIEW without what
was recorded of the last call alone: no step reads it, so states that differ only
there have the same successors, and the refinements speak of the call of each step,
which TLC computes before it looks for the state it leads to. The files of `site`
have every directive and every refusal of the parser, and its URLs meet a location
exactly, with a slash behind, below, sharing only its first letters, and not at all,
and one climbs out of a location and back. A file beside the root of a location has
its name and a letter more. `CHECK_DEADLOCK FALSE` is set everywhere: in `Server`
the process may stop for good, a `Request` ends with its message, and so does a CGI
call; a start-up may end, and the bounds of the containers end a sequence of calls.

What the runs of the containers and of the site say about the code, in the
places where a property has a condition:

* `RedBlack` speaks of colours and balance only until a deletion has recoloured a
  sibling with a red far child: the right-hand branch of `deleteFix` reads
  `s->right` twice (`redblacktree.hpp:141`). From then on there may be two red nodes
  in a row and unequal black heights, and `erase`, `clear` or the destructor may
  read a null sibling; five keys and about seven calls reach it. The order of the
  elements is never lost.
* `SizeIsCount` holds until a map is assigned to itself: `operator=` empties the
  tree before it copies it and keeps `_size`, by which the next `clear`,
  assignment or destructor deletes.
* `GoesDownOnlyIf` names the calls that read a null pointer: those two, `erase` of
  a range in a map with equal keys (which only the range constructor makes),
  `rbegin()` of an empty map, `rend()` of most maps (line 86 of
  `mapIterator.hpp` walks right where it means left), and `--end()` on a sentinel
  no call has refreshed. It speaks of the maps as they were before the call: with
  five elements no `erase` of a range both unbalances a tree and falls through it.
* `Implements` of `Vector` excepts four calls: assignment of a vector to itself,
  `assign(n, v[i])`, `push_back(v[i])` when full, and `erase(end(), end())`, a loop
  that starts behind its end.
* `StaysInside` shows where cells behind the block are used: `pop_back` destroys the
  cell behind the last element, and `erase` of a range reads up to its length
  further. That cells inside the block are destroyed or assigned to that hold no
  object is in the actions, but no property speaks of it: it happens in most
  calls.
* `WholeIsAnswered` says of a message which holds what it announces that its last
  buffer completes it, and of one that announces 0 bytes, or holds too few, that
  it is waited for. A longer one may be passed over: the comparison of lengths
  is for equality. `ReceivedIsSent` then says that nothing is answered with more.
* `NeverBothWait` and `Returns` are for a request that cannot clog the pipes
  (`CannotClog`): a `GET`, a body the pipe holds, or a script that reads all before it
  prints. Of the repository's scripts one may not read at all and the other prints
  while it reads; with a larger body both processes may wait, for ever.
* `WholeExchange` has the page only up to the first null byte: each block is
  appended as a C string, and where the blocks end depends on the scheduling.
* `EveryDirectiveIsRead` and `StartsOrEnds` except a directive ended by a bracket:
  with no semicolon behind it the parser never ends, with one it drops what is in
  between. A last directive without a semicolon is dropped silently; it is
  closed by nothing, so the property does not speak of it.
* `UploadIsServed` is for uploads to a location itself (`LeadsBack`): below it,
  under a name that contains its text, or hidden by a file under the server's
  root, the redirection leads elsewhere.
* `RobustStaysUp` says what a configuration needs beyond what `validate_config`
  asks so that few requests end the process: an `error_log`, a location `/`, limits
  with a number `stoul` takes, and error pages for codes an `int` holds. Four kinds of
  request remain that do: a first line of three words without a slash, a
  `Content-Length` that is empty or too large, an upload that ends less than two
  bytes behind a boundary, and a POST without a path, which no location matches.
* `ChangesStayBelow` holds of names that do not lead up. With `..` in the URL, the
  name of an upload or an index the paths are what the system makes of them, and
  the code does not look. A DELETE stays below only if the URL continues its
  location with a slash, or not at all, and does not repeat it (`Names`): where the
  location is `/up` and its root `store`, `/upx` is `storex`, and below a location
  `/` every slash of the URL becomes the root's name.

The failing runs are disagreements between the code and what its documents say;
`PROJECT.json` quotes them under *findings*. They are the scan of an entry
before `poll` has filled it, the time limit counted in scans, a header line cut
by the end of a buffer, and the parent that writes a body nobody reads.

**Fairness.** `FairSpec` assumes `WF_vars(Loop)` and nothing of the peers: the
loop is the only thread, `while (1)`, and `poll` is given 100 ms, so its next
step is always taken; a peer may be silent for ever. The one call that may not
return, `process_cgi`, is a halt. `Cgi` assumes both processes are scheduled.
`TreeCalls` assumes none: `ClimbsOrEnds` says why a call returns.
`Site` assumes `WF_vars` of the steps of start-up, which are one sequential
function, and nothing of the requests.
Both liveness properties allow the service to have stopped (`halt # "no"`) and
exclude a listener that stays in error: the loop abandons its scan there, every
time, so the entries behind it are neither served nor counted.

## Proofs

Every theorem holds for every value of the constants, finite or not, that meets
the module's named assumptions. The table says what they are.

| component | theorems | assumed of the constants |
|---|---|---|
| `Server` | `TypeOK`, `Tables`, `OwnTraffic`, no connection held through two descriptors; `WriteReady`, `ReadableIsRead`, `Implements` | distinct listeners in a non-empty sequence, disjoint from the client descriptors; positive limits; an environment of the right type; `None` is nothing else |
| `TimedServer` | `AgeBound` | those of `Server` |
| `Cgi` | `TypeOK`, `WholeExchange`, `NeverBothWait`, `EveryStepCounts` | pipes, blocks and pages are not empty |
| `Request` | `FlagsFollow`; `WholeIsAnswered`, `ReceivedIsSent` | a message without a body has no bytes of one, what it announces is an `int`, two chunks need two bytes |
| `Vector` | `TypeOK`, `StaysInside`, `MovesOnlyForRoom`, `Implements`, `OrderIsTotal` | room for one cell |
| `TreeCalls` | `Ordered`, `RedBlack`, `ClimbsOrEnds`, `OneElement` | keys are naturals, copies are numbered from 1, `TNULL` and `NULL` are no nodes |
| `Config` | `EveryDirectiveIsRead` | a file is a sequence of tokens, none of which has a blank in it; the spelling of a word is a sequence of characters |
| `Site` | `TypeOK`, `ChangesAreAllowed`, `DeletedIsGone`, `RobustStaysUp`, `AnswersAreWhole` | those of `Config`; no path is a file and a directory at the start; a URL is empty or begins with a slash; bodies and uploads have their types |

How the arguments go, and why each needs more than the property it ends in:

* **`Server`.** `TypeOK` alone is not inductive. That `pos` stays in the vector
  after an erasure, that the erased entry is a client's and not a listener's, and
  that a client's `sock` is a connection all need the tables to agree; so the
  first invariant is `Ind == TypeOK /\ Tables`. Its proof has a lemma for the
  three things that can happen to `_poll_fds` (erase at `pos`, push, change in
  place) and then one step per action. `OwnTraffic` needs that a connection
  waits in at most one queue and only of its `dest`, that it has one descriptor,
  that a response is owned by the listener and the connection of its descriptor,
  and that nothing was sent to a connection not yet accepted; these make `Own`,
  proved inductive relative to `Ind`.
* **The report of `poll` grows stale** while the scan walks it. `WriteReady` is not
  inductive without what the scan will still find. `Scan` says it of each client's
  entry (`Sound`): it asks for POLLOUT exactly when the request is complete; while
  the scan has yet to reach it, its `revents` are among its `events`, or nothing was
  ever read from the client; and what was readable still is. It is stated of one
  entry at a time because an erasure moves the entries and leaves each as it was.
  `WriteReady` and `ReadableIsRead` follow from it. The mapping to
  `ConnectionService` is a function of one descriptor's tables, so the refinement
  is proved one connection at a time: the step moves the connection of the entry
  at `pos`, or one peer's, and every other stutters.
* **`AgeBound`** needs `Aged`: a closed descriptor has no age, whatever its
  `_timeout` was, so that the next client of the descriptor starts from nothing.
* **`Cgi`.** The invariant says who holds which pipe end at each point of the two
  programs, that what was written, is in a pipe and was read add up to the body, and
  the same for what is printed, which is what was read and the page; and that `text`
  has fallen behind only where a null byte was printed. An end of file is read only
  when the last writer has gone, so a page read to its end is whole. `NeverBothWait`
  states the absence of a deadlock as an invariant of requests that cannot clog the
  pipes: a body the pipe holds is written whatever the script does.
  `EveryStepCounts` gives a natural number that every step lowers; under fairness
  the two imply `Returns`, a step the prover cannot make and TLC checks.
* **`Request`.** What `read_header` makes of a buffer is a recursive function of
  its tokens. The invariant (`IsRequest`) says which combinations of flags, lines
  and headers a request can have between buffers; that one buffer keeps it is
  shown for every prefix of the buffer. The library's induction theorems take an
  operator, which the provers cannot instantiate; the lemmas `Smallest` and
  `Stepwise` replace them by the least index at which the claim fails, from the
  well-foundedness of the naturals.
* **`Request`, aligned.** `WholeIsAnswered` speaks of the last buffer only; its
  invariant (`AInv`) says what the request is after every one: `Arrived(msg, p)`, a
  function of the message and of the place `p` reached, one of the message's
  `Stops`. It follows that earlier cuts leave no trace. The proof lays the parts of
  a message on the wire (`PartsLie`: where each part begins and ends, and which
  token lies where), follows `read_header` token by token from one stop to the next
  (`NextToken`, `TokensRun`), and treats the three bodies apart: bytes are appended,
  a chunk is read behind its first CRLF and leaves `_chunk_length` at 0
  (`ChunkRead`). Cut elsewhere, a line begun is forgotten and the claim is false
  (hence `aligned`); `FlagsFollow` is what remains true.
* **`Vector`.** The invariant is the shape of a vector (`Vec`): the size fits the
  block and every cell below the size holds an object. Cells behind it may or may
  not. One lemma per helper (what it returns, which cells it touches), one per
  member function, then the same lemmas again for the refinement. `OrderIsTotal`
  compares two sequences at the first place they differ.
* **`TreeCalls`.** That everything left of a node comes before it, at any depth, and
  that the black nodes on every way down are as many, are facts about recursive
  definitions, which cannot be used here. The invariant (`IInv`) says instead that
  the tree can be labelled: every node with the set of nodes in its subtree
  (`Labels`), and with its black height (`Heights`), each label fitting those of
  the two children. Every step is then local: the proof gives the labels of the
  new tree, of which a rotation changes two and an attachment those above the new
  leaf. A rotation is a relation between two trees (`Turned`), so that what it does
  to links, labels and heights is proved once for both directions. `Whole` and
  `Balanced`, as the run checks them, define subtrees and ancestors as least closed
  sets; they follow from the labels.
* **`insert()`.** The new node falls into place because the
  walk keeps to the side of every node it passed (`Fits`), and the loop of
  `insertFix` has one red node at most to mend (`OnlyAt`): a turn that recolours
  hands it to the grandparent, a turn that rotates mends it, the two red nodes of an
  inner child being turned first.
* **`deleteNode()`.** The search keeps the last node with the key it has met, and all
  others with the key that come later are below (`Sought`); `minimum` keeps to the
  nodes that come before all others below the right child (`Leftmost`). A node
  with one child is cut out (`Spliced`). One with two gives its place to the first
  node after it, which the proof takes as two steps the code makes in another
  order: that node is cut out, and then renames the other (`Renamed`); `RelinkIs`
  shows that the pointers come out the same. A black place that is gone leaves a
  gap: heights that would fit if one side of one node had one black node more
  (`Short`), and colours wrong only at the node above it or the one in it
  (`Lacking`). A turn of `deleteFix` fills the gap, or moves it to the parent, and
  the last assignment of black closes it. Where line 141 recolours a sibling with
  a red child, `Lacking` is lost for good and `skew` says so; that links, order and
  wholeness survive (`Took`) is proved without it. As long as `skew` is false the
  sibling is never the sentinel, which is why no null pointer is met (`GapSibling`).
* **`Config`.** Between two turns the parser holds text it has not parsed (`rest`,
  `block`, `inner`) and blocks it has not put away (`server`, `location`,
  `servers`). The invariant (`CInv`) says where in the file each of the three texts
  lies, that they lie one inside the other, and that the semicolons and opening
  brackets before them are, one for one, the directives and blocks read so far; of
  a file in which a bracket ends a directive it says nothing. The steps of the
  proof are about places in the file (`Lies`): what `find_first_of` finds, what
  `extract_bracket_content` cuts out, and which tokens lie between an old place
  and the new one. Directives are counted as a set of pairs of block and index,
  because the provers know cardinalities and not sums along a sequence.
* **`RobustStaysUp`, `AnswersAreWhole`** go through `Outcomes`: whatever the request,
  the process dies at one of the look-ups and conversions outside every `try`, or
  tells, removes or stores something.
  The first needs that the location found for a URL is the longest of those that
  match (`Longest`), so that a location `/` makes it none less than `/`; the
  second that what is concatenated into a body is a sequence (`TInv`, `ErrorBodyIs`),
  so that an empty whole has empty parts.
* **`Site`.** A DELETE asks `get_full_path` twice, before and after the disk
  changed. Only the first rule of `get_full_path` looks at the disk, so after the
  removal the URL leads to the removed path or to the one the other rules give;
  `DeletedIsGone` rests on that (`TwoPaths`, `TwoPathsAfter`) and on the invariant
  `SInv`, by which no path is both a file and a directory.

Model-checked only, and why:

* everything under fairness, and whatever is stated by ENABLED: `ClientsLeave`,
  `QueueDrains`, `Returns`, `StartsOrEnds`;
* the properties of `Map`: `RedBlackTree` and `Map` are recursive. For the same
  reason `IsCall`, that the proved steps make what `Map` uses, is TLC's;
* `UploadIsServed` and `ChangesStayBelow`: they speak of the result of folds over
  the text of a path (`ReplaceAllOf`, `Walk`), which is induction over data.

## Not modelled

* `Log`'s output, the bytes of multipart bodies, headers and directory listings,
  the environment of a script (`create_new_envp`): data no property is about.
* A file that `stat` finds and `open` does not, which `read_file` answers with an empty
  body and no error.
* A port held by another process, and failures of `pipe`, `dup2` and `read` in
  `process_cgi`. An error of `poll` is a halt.
* Copies of the parser and of the configuration objects are taken for copies.
  The copied parser never parses, its assignment is never called, and a
  `ServerConfig` is only assigned to while it is empty.
* In the containers: another order than `std::less` (`redblacktree.hpp:524` links by
  `<` whatever the order), allocators, comparisons of maps, and calls the
  standard forbids (`pop_back` of an empty vector, `erase(end())`).
* The testers, which print, and the site under `public/`, which is data.
* Inception: images and settings of third-party programs, and shell scripts whose
  second run after a restart is decided by those programs (`wp`, `mysqld`, Docker's
  restart policy), of which the repository has no code.

## Plan

1. `Map`: its recursive operators as recursive functions of the height, so that
   `SizeIsCount` and the order of the elements can be proved.
2. `ReplaceAllOf` and `Walk` as recursive functions along the path, for a proof
   of `UploadIsServed`.
