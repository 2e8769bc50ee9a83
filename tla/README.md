# A TLA+ verification project for voy

voy is a small HTTP server in C: one process that accepts connections, one
forked worker per connection, a request parser, a file server, a configuration
parser and the data structures they share. This directory holds the
specifications of these parts, the TLC configurations that check them, and the
proofs TLAPS checks. File names below are relative to `src/` of the repository
(`voy_server.c` is `src/src/voy_server.c` in `PROJECT.json`).

## 1. The system

| component | state it keeps | operations | interacts with |
|---|---|---|---|
| process structure (`voy.c`, `voy_server.c`: `serve_on_port`, `voy_bind_and_listen`) | the listening socket, `conn_fd`, the descriptors each process has, pending signals, children not waited for | start, bind, accept, fork, the `close()` calls around it, SIGCHLD / SIGTERM / SIGHUP handlers, end of a child | the kernel; clients; the worker it forks |
| connection handler and request parser (`voy_handle_conn`, `voy_request.c`) | `voy_request_t`: what is read, method, headers, body; the receive buffers | recv loop, start line, headers, body, the three `send()` | the client; header table; file serving |
| file serving and response (`voy_file.c`, `voy_response.c`) | `voy_response_t`, the length and contents of the file, counters of the header traversals | find, measure and read the file, 404 page, headers, send | the file system, which others write to; hash table |
| port selection (`get_listen_ports`, `voy_server_start`, `voy_parse_port_options`) | arrays of ports | parse, collect, choose, `htons` | configuration; array |
| configuration parser (`voy_conf.c`) | `voy_conf_t`, `inside_vhost`, `cur_vhost` | strip comments, recognise blocks, options, close blocks | strings; array |
| pointer array (`voy_array.c`) | `contents`, `len`, `capacity` | push, pop, shift, unshift, set, get, remove, swap, clear, expand | every other part |
| hash table (`voy_htable.c`) | an array of 100 buckets, each an array of nodes | set, get, remove, traverse, free | array; request and response headers |
| strings (`voy_str.c`) | a text, its length, the block it lies in | new, trim, split, concatenate, free | configuration parser |
| doubly linked list (`voy_dl_list.c`) | nodes with two links, the first one | both ends, remove, exists, length, clear | only its test |
| command line, log (`voy.c`, `voy_log.c`) | none | options, usage; `voy_log_init` is empty | - |

The parts interact through calls, except at two places: parent, workers and
clients share kernel objects and signals, and a worker shares the file it
serves with whoever writes to it. The workers share no memory: each is a fork
of the parent and handles one connection.

What is hard in this code, and what makes each part correct:

* **Process structure.** Parent and child each give up one of two descriptors
  after `fork()`; a `fork()` that fails leaves a descriptor behind for ever;
  SIGCHLD coalesces; SIGTERM ends the parent at any point, with orphans that
  may still hold the listening socket. Correct is: a served connection is
  released by every process; no child is forgotten; a worker holds nobody
  else's conversation; the backlog is served; the address comes back.
* **Connection.** TCP cuts a request anywhere, every segment loses its last
  byte, the headers are taken to be in the first one, the blank line is looked
  for in every one, `recv()` returning 0 is not noticed, and after a failure in
  the loop the code that answers still runs. Method, header lines and body are
  copied to buffers of fixed or declared sizes. Correct is: only a request is
  answered, a body is a piece of the stream from behind its blank line, only what
  does not fit a buffer crashes a worker, and every worker ends. The code keeps
  less than that in the cases section 2 and the properties name: a GET is
  answered from its first segment, and an LF CR inside a body that comes in a
  later segment is taken for the blank line.
* **Reply.** A file is measured in one pass and read in another, and its length
  is a `size_t` in one place and an `int` in the next. Headers are counted in one
  traversal and written in another. Correct is: `Content-Length` tells what is
  sent, status and body agree, and what is written fits its buffer.
* **Configuration and ports.** A flag and the order of three tests decide which
  server an option belongs to; lines are read through a buffer that may be
  shorter than they are; one loop relies on another to have removed duplicates.
  Correct is: each option reaches its server and no other; what is parsed is
  what stands in front of the comments; no port is lost, doubled or made up; the
  first eligible one is bound.
* **Data structures.** The array stores before it makes room, and removals
  leave copies beyond `len`. The table moves a node to the place of the one
  removed while a search runs, keeps pointers to keys that their owner frees, and
  keeps a key twice. The list frees nodes that others link to. A trimmed string
  points into its block. Correct is: no access leaves what is allocated, and each
  structure is the list, collection or text its caller thinks it is, until one of
  the calls that are named as misuse.

`PROJECT.json` lists the hazards one by one with their lines and the properties
that would catch them.

## 2. The modules

| module | models | state and actions |
|---|---|---|
| `ConnService` | what a client is promised; abstract, no code | phase of each connection; Arrive, Take, Attend, Release |
| `VoyServer` | accept loop, workers as processes, signal handlers, restart | `ppc` is the statement the parent is at in `serve_on_port`; `cur` is `conn_fd`; `pfds`, `fds[c]`, `lfd` are descriptor tables; one action per system call or handler step |
| `VoyServerProofs` | theorems about `VoyServer` | - |
| `CInt` | the `int` of C | no state; `ToInt` is the conversion of a larger number |
| `VoyConn` | one worker's conversation | `sent` is the client's stream, `cuts` where TCP cut it, `req` the `voy_request_t`; `Receive(j)` is one whole iteration of the loop, with all parsers called on the segment that ends at j; `Overrun(j)` is one that uses memory beyond a buffer; every failing branch is an action |
| `VoyConnProofs` | theorems about `VoyConn` | - |
| `VoyReply` | `voy_file_serve` to the last `send()`, with a writer to the file | `len`, `res`, `rawLen`, `rawI` are the variables of the C code, `line` the buffer of the start line; the steps are those between which a writer can run, and the iterations of the two traversals |
| `VoyReplyProofs` | theorems about `VoyReply` | - |
| `VoyPorts` | port options to the port bound | `phase`, `s`, `i` are the three loops and their indices |
| `VoyPortsProofs` | theorems about `VoyPorts` | - |
| `VoyConf` | the file to `voy_conf_t` | `ReadLine` is one `fgets()` of the first loop; one action per kind of line of the second |
| `VoyConfProofs` | theorems about `VoyConf` | - |
| `ListSpec` | what a caller of the array or the linked list expects; abstract, no code | a sequence and the last result |
| `VoyArray` | `voy_array.c` | memory as a function of the allocated slots; one action per function |
| `MultimapSpec` | what a caller of the table can rely on; abstract, no code | a collection of entries, the loop over them, the last call with its key, its result |
| `VoyHtable` | `voy_htable.c` | `buckets` and `node` are memory; one action per function, and one per node of the two loops |
| `VoyHtableProofs` | theorems about `VoyHtable` | - |
| `VoyDlList` | `voy_dl_list.c` | `heap` is memory; one action per function |
| `VoyListProofs` | theorems about `VoyArray` and `VoyDlList`, as `MCVoyData` instantiates them | - |
| `VoyStrText` | what trimming and splitting give, as functions of the text | no state; used by `VoyConf` and `VoyStr` |
| `VoyStr` | `voy_str.c`, with its loops and its block of memory | `str` is the `voy_str_t`; one action per function that changes a string |
| `VoyStrProofs` | theorems about `VoyStr` | - |
| `MC*` | instances for TLC | constants, symmetry; `MCVoyData` puts array, list and string side by side |

Refinements connect them. `VoyServer` implements `ConnService`: a connection is
*held* while some process has a descriptor of it, *released* once none has.
`VoyArray` implements `ListSpec`: the list is what is below `len`. `VoyHtable`
implements `MultimapSpec`: an entry is a node, wherever it is. `VoyDlList` makes
the steps of `ListSpec` as long as it is sound, and `BrokenAtEndOnly` says which
calls end that. `VoyStr` computes with its loops what `VoyStrText` defines without
them, and `VoyConf` builds on `VoyStrText`. The map in `PROJECT.json` gives for each
definition the lines it translates. An operator commented as *Mutant of* some
definition is that definition with a plausible mistake, used to test that the
properties see it; no specification uses one.

Abstractions that matter to a reader of the results:

* In `VoyServer` what a child does between its two `close()` calls is one step
  of unknown length, and it may end at any point (crash, SIGPIPE, SIGTERM,
  `exit`). INT and QUIT are handled as TERM. An `accept()` at the descriptor
  limit changes nothing and is a stutter. Each connection is used once.
* In `VoyConn` a stream is any sequence of symbols: what the parsers look at (CR,
  LF, NUL, space, the methods, digits and signs, the name Content-Length) are
  symbols of their own and may stand anywhere, also in a body; other strings are
  other bytes. TCP cuts between symbols, so also between the digits of a length.
  Lengths of buffers (`MethodLen`, `LineLen`, `RecvLen`) count symbols. `Atoi`
  computes the number, `ToInt` makes an `int` of it.
* A use of memory beyond a block is undefined. It ends the process (`Overrun`), or
  the process goes on with what it read and may be ended by a later `malloc()` or
  `free()` (`Abort`). Behind a segment the receive buffer is zero, behind the
  buffer is `Junk`. The write before the buffer when `recv()` returns 0 has no
  effect. The keys of the header table are freed at once: a lookup of
  Content-Length finds it or not. HEAD is handled as GET. A `send()` is whole or
  fails.
* In `VoyReply` of a file only its size matters, and of the headers and the
  descriptions of status codes only their lengths (`Width`, `Wording`). The
  table of codes is the set of its ranges. Overrunning the buffer of a text file
  that grew is undefined; the model records it and goes on or crashes. One `send()` takes up to `SendMax`
  bytes (`MAX_RW_COUNT` in Linux, 2 GiB less a page), and its count is not looked
  at: of a longer file only the beginning is sent.
* In `VoyConf` a line is a sequence of tokens, and `LineBuf` counts tokens: the
  model cuts a long line between words. A NULL string and an empty one are
  alike. Memory does not run out.
* In `VoyHtable` a bucket is a list; that an array used this way is one is what
  `VoyListProofs` shows, since callers push, pop and set only indices in use.
  The hash of a key is a constant function. A key that was freed may read as any
  text of `Reused` from then on. Callbacks do not call back into the table.
* In `VoyArray` a store outside the slots is recorded in `overrun` and has no
  other effect. In `VoyDlList` an access to what is not allocated, and in `VoyStr`
  a misuse of the block, is recorded and ends the run.

## 3. The runs

| run | what it shows | distinct states |
|---|---|---|
| `server` | descriptors are released once served (`ReleasedWhenServed`), workers hold no other worker's conversation (`WorkersAreIsolated`), an ended child is pending or being waited for (`NoLostChild`), all of it implements `ConnService`; zombies are reaped, the backlog is served while descriptors last, the address comes back after a stop | 50 692 |
| `server_restart` | *violated*: a restarted server can find the port taken by a child that was forked and has not run | - |
| `conn` | an answer needs a GET at the start of the only segment, or a blank line in the last one and a length in the first (`AnswerNeedsRequest`); a body is a gapless piece of the stream from behind an LF CR (`BodyFromStream`); a GET is answered from its first segment; a crash needs a request that came without its line or does not fit (`CrashNeedsMisfit`); every GET and every closed connection ends | 150 551 |
| `conn_headers` | *violated*: header parsing does not stop at the body of a CRLF request | - |
| `reply` | `Content-Length` is sent once and equals what is sent whatever a writer does, for files one `send()` takes; of larger ones less is sent and nothing from outside the buffer (`Framing`); status matches body, start line and headers fit their buffers exactly, the contents buffer is overrun only after growth | 17 043 |
| `ports` | no port lost, doubled or invented; the first one above 1024 is bound | 40 264 |
| `ports_bound` | *violated*: 65616 is chosen as unprivileged and bound as 80 | - |
| `conf` | each option reaches the server of its block and no other; one virtual host per closing bracket; of lines that fit the buffer what is parsed is what stands in front of the comments | 129 918 |
| `conf_names` | *violated*: `name = here, here` stores the name twice | - |
| `data` | array: no access outside the slots, refinement of `ListSpec`; list: steps of `ListSpec` until its last node is removed by value; string: it goes with its block (`StrOK`), trimming leaves exactly `Trim` of the text and a split at d exactly `Split` at d (`TextsAsTold`), and memory is misused in three named ways (`MisuseKnown`) | 17 104 |
| `htable` | each node is in one place of its bucket; refinement of `MultimapSpec`, in which a lookup is a step with its key: it misses no entry stored under that key and returns none whose key reads otherwise | 436 265 |
| `array_grow` | *violated*: `voy_array_set` at the last slot, then a push, overruns | - |

The five violated runs check what a comment in the code says. Three findings are
about passing runs, where a property holds because it names the misuse as its
exception: `BrokenAtEndOnly` (removing the last node of a linked list),
`MisuseKnown` (concatenating to a string) and `ReadAsWritten` (a comment longer
than the line buffer). `findings` quotes the comment and says what the code does.

**Bounds, and why they are enough.**

* `server` has three connections, so that one can be leaked by a failed fork
  while two more are served, and two descriptors, so that the limit is met with
  one leaked or with one in use; two starts give one restart with orphans of the
  first. There is no symmetry, because the run checks liveness.
* `conn` has nine streams, cut in every way and ended by the client anywhere: a
  GET; POSTs with a body that fits its length, that is longer and holds an LF CR
  and a NUL, and that is missing; no Content-Length, one of two digits behind a
  space, one whose `int` is 0 when the NUL is added, one of -1; a header line, a method and a URI that
  do not fit. Three buffers let a body be found in a second or third segment and
  the memory end behind it. An `INT_MAX` of 127 is passed by three digits.
  `RecvLen` (20) takes any of the streams whole, and the body of ten that one of
  them declares would end behind it.
* `reply` has two writes (grow and shrink) and sizes around each limit: 13 is the
  last that one `send()` takes and 15 the last `int`; 16, 32 and 45 become -16, 0
  and 13. It has
  URIs for the root, no dot, two dots, no leading slash, a text type, a binary
  one and an extension listed twice. The lengths of headers differ from key to
  key, so that a header counted but not written is seen.
* `ports` takes every configuration of up to three servers with up to two of the
  values 1024, 8080 and 65616.
* `conf` takes every sequence of up to four of eight lines, alone and inside a
  virtual host: four lines open and close a block with an option on either side,
  and wrapped in a block they also nest, close twice or are left open. Six more
  lines, in sequences of up to three, are longer than the buffer of eight tokens
  or exercise the lists, ports and repeated signs; each of these files also ends
  in three ways with a line that has no line end.
* `data` has an array that starts at capacity 2 and expands by 2, so that it is
  expanded twice before its bound of five elements; four list nodes, so that one
  between two others is removed with another beside them; strings of up to five
  characters, so that white space stands on both sides of three others and a
  delimiter stands first, last, twice and between. A run uses one of the three
  structures, as they share nothing.
* `htable` has three nodes, four keys of which two have one hash and a third
  shares their bucket, and two buckets: a removal from the middle, the end and
  the only place of a bucket, with and without a colliding key behind it.

`CHECK_DEADLOCK FALSE` stands where the system stops: in the server runs when
the starts are used up and all is served, in the others when a request is
answered, a file parsed or memory misused. `htable` and `array_grow` check
deadlock.

**Fairness.** `VoyServer` assumes what the kernel's scheduler gives: the parent
runs when it can, signals that are pending are delivered, the handler runs to
its end, and a forked child reaches its first system call. It does not assume
that a child ever finishes (its client decides), that a client connects, that
anybody signals, or that `fork()` succeeds. `BacklogServed` therefore has the
exception that leaked descriptors have reached the limit; without it the
property is false, which is the hazard at `voy_server.c:277`. `VoyConn` assumes that
the worker runs and that what the client has sent arrives; not that the client
sends everything or closes its side. The other specifications have no fairness:
their programs run to their end without waiting for anybody.

## 4. The proofs

`VoyServerProofs` holds for any set of connections, any descriptor limit and
any number of starts:

* `TypeCorrect`; its invariant adds that `cur` is a connection at the fork and
  the close.
* `Released`, `Isolated` and `NoChildLost` follow from one invariant `Inv`. The
  properties are not inductive: they say nothing of the moments between
  `accept()`, `fork()` and the two `close()` calls. `CurInv` says that `conn_fd`
  is live exactly between accept and close and that nobody else has it before
  the fork; `ParentFds`, that what the parent holds was accepted and, but for
  `cur`, has no child; `ChildFds`, that a child's inherited descriptors are its
  own or those of failed forks; `ChildHasConn` and `ListenerInv` tie a child's
  state to its descriptors; `NoLostChild` is itself a part.
* `ImplementsService`: every step is one of `ConnService` or a stutter. The only
  hard steps are those by which processes end: several connections may be
  released at once, together with the backlog (`Releasing`).

`VoyListProofs` holds for any elements, initial capacity and expansion rate of
the array that `MCVoyData` calls `Arr`, under `Dense`: callers set only indices in use, and `realloc()` does not fail
(the two ways in which the invariant is lost; `array_grow` shows the first).
`Inv` adds that every slot below `len` holds an element, because `remove`, `pop`
and `unshift` treat NULL specially.

* `DenseInBounds`: no access leaves the slots and there is always one free.
* `DenseTypeOK`: it has as many slots as `capacity` says, after every expansion.
* `DenseIsList`: the refinement of `ListSpec`, operation by operation.

Of the linked list it says, for any finite number of nodes and any values:

* `ListBrokenAtEndOnly`: the list stays sound until the value of its last node is
  removed or a second node finds no memory, and each of these calls breaks it.
* `ListWhileSound`: as long as it is sound its calls do what `ListSpec` says to
  the values of its nodes, in their order.
* `ListTypeOK`: all of its pointers are nodes or NULL, also once it is broken.

The invariant (`DlInv`) is that the allocated nodes have an order with which all
links agree (`Linked`), unless the list is broken. It states the order instead of
walking the chain; `ChainIs` shows that the loops of the code, which follow `next`,
pass the nodes in that order, since no node is in it twice and so the order is not
longer than there are nodes. Every call then makes one of three orders from it: a
node more at the end (`Appended`) or at the front (`Prepended`), or the k-th node
less (`Dropped`), and `Closed` says what a function has to do to the links of its
neighbours for that. `ListIs` carries the order of nodes over to their values.

`VoyConnProofs` holds for any streams of any symbols, any cut into segments, any
sizes of the buffers and any number of them. Its theorems follow from one
invariant (`Inv`), whose parts are:

* `IsRequest`, `Flags`: the type of the `voy_request_t`, and that its flags are
  set in their order.
* `StreamInv`: the segments end inside of what the client sends, and there are no
  more of them than buffers.
* `FirstInv`: method and headers are those of the first segment, whatever came
  later.
* `BodyInv`: a request that is done and no GET has its blank line in the last
  segment and a body of a length that a header line of the first one declares;
  `BodyFromStream` is part of it.
* `WireInv`: once the loop is left an open descriptor means that the request is
  done. The properties alone do not say why the code after the loop, which does
  not look at `status`, stays silent: this part does.
* `CrashNeedsMisfit` is itself a part.

`AnsweredWhenAsked` needs `BodyInv` and `WireInv`, `GetInOneSegment` `Flags`,
`CrashIsMisfit` that a later segment finds the first one's headers unchanged. For
`BodyUnshifted` what `Copy` took from the receive buffer is carried over to the
stream: a position of the segment is one of the stream (`Filled`), what lies
behind the segment's last byte is zero, and what lies behind the buffer is only in
a body that long. `TypeCorrect` is the type invariant.

`VoyPortsProofs` holds for any configuration: `TypeCorrect`, `PortsDistinct`,
`PortsCollected` and `FirstPortBound`. The invariant says of each array which part
of the file it holds (`Seen`, `Collected`) and that it holds each value where it
was first seen (`InOrder`, `FileOrder`); from the arrays of the servers this
carries over to the array of all ports, and from there to the choice.
`CollectIsAddNew` shows that the loop without a search does what one with a
search would do.

`VoyHtableProofs` holds for any keys, values, hash function and number of
buckets, without a bound on the length of a bucket. Its invariant is `TypeOK`,
`NodesInBuckets` and `FreedBuckets`:

* `NoNodeLost`: every allocated node is in one place, that place is in the bucket
  of its hash, and no place holds a node that was freed. It is inductive once
  `FreedBuckets` says what `voy_htable_free` has passed: only there do places of
  freed nodes remain, in front of the loop's index. The hard step is the removal,
  which puts the last node in the place of the one removed, or pops it when they
  are the same.
* `RefinesMultimap` adds that the hash kept in a node is the one of the key it was
  stored under (`HashOfKey`). Without it a lookup could miss an entry; and as the
  text is compared too, a freed key can hide an entry or show it under another
  key, but not one of another bucket. `MultimapSpec` has the last call and its key as a
  variable, so that a get cannot pass for a set that failed, nor for a get of
  another key. The loops visit each entry once because the
  places before the index are those of the entries seen.

`VoyReplyProofs` holds for any URIs, table of types, sizes of files, lengths of
headers and descriptions, width of an `int`, and any number of writes. The invariant has a part for each thing
the C code keeps in its head: what was set before the statement it is at
(`PcInv`), how the length measured and the file are related (`FileInv`), which
headers the response has by then (`ResInv`), the start line (`LineInv`), the sums
of the two traversals (`CountInv`), and what is on the wire (`WireInv`).

* `LengthAsSent`, `StatusTellsBody`: the 404 page replaces status, body and
  length together, whichever step failed before it. `SentIs` says what becomes of
  a length that is put into an `int` and given to `send()`: itself up to
  `SendMax`, and less than itself beyond.
* `HeadFits`: the second traversal writes what the first one counted. The sum is
  written out for the headers a response can have, as each has one entry.
* `OverrunOnlyByGrowth`: also that nothing else crashes the worker, the search
  for the status code included, since 200 and 404 are in the table.

`VoyConfProofs` holds for any file, any buffer and any sets of names, and needs
no bound on the number of lines:

* `DefaultScoped` and `VhostsScoped`: the options of a server are those of the
  lines that are its own, the last one where an option is set twice, all of them
  where it collects. The invariant (`ParseInv`) says the same of the lines up to
  the one the loop is at: of the lines outside of any block for the default
  server, of those between a closed pair of brackets for each virtual host, and
  of those since the last opening for the current one. The step that needs work
  is one option more (`OptionAdded`), where for each of the options the last
  line, the collected names or the collected pages grow by that line.
* `WrittenIsRead`: the second invariant relates the lines read to those of the
  file that are more than a comment (`WrittenTo`), as long as the file's lines
  fit the buffer (`Fits`); `Stripped` says what taking a comment away leaves.
* `TypeCorrect`: every configuration has all of its fields at any time.

`NthAdded` (a number above all others of a set is its last) lets both invariants
speak of the k-th line of a kind. What an option collects is a fold over the
parts of its value; `Iterated` shows that the function a fold stands for exists,
and with it `FoldedNames` and `FoldedPorts` unfold a fold part by part.

`VoyStrProofs` holds for any characters and any number of them in a text:

* `AsTold`: the loops of `voy_str_trim` and `voy_str_split_by_char` compute
  exactly the `Trim` and `Split` that `VoyConfProofs` takes for what the code does. For the
  split, `AfterTurn` says what buffer and parts hold after k turns: the parts up
  to the last delimiter seen, and what stands behind it. For the trim, `LeftIs`
  and `RightIs` say where the two loops stop.
* `StringSound`: a string ends inside of its block and goes with its length. Its
  invariant adds what `voy_str_trim` leaves of a text of one character, whose
  length is 1 while white space still follows (`Fitting`).
* `MisuseIs`: memory is misused by the calls listed and by no others; the split
  overruns its buffer exactly when `Split` gives one part (`SplitParts`).

**Induction.** The provers do not instantiate a theorem about an operator, and
so not the induction theorems of the library. They do take one about a set:
`Least` is an instance of `WFMin`, and `Induct` says that a set of numbers with 0
and with the successor of each of its numbers is `Nat`. What is to be shown of
every k is the set of the k for which it holds. As a module with theorems stands
alone, these lemmas are repeated where they are used.

**Assumptions.** Those on constants are the named ASSUMEs of the modules; TLC
evaluates them in every run. `VoyArray` and `VoyDlList`, which `MCVoyData`
instantiates, define theirs (`Sizes`, `Addresses`), and `MCVoyData` assumes them.
What `Addresses` says is that nodes are finitely many and NULL is neither a node
nor a record. `VoyReply` assumes that one `send()` takes no more than an `int`
holds (`SendAssumption`), as Linux does; otherwise `Framing` would fail for a
length that wraps to a negative one. Two of `VoyConf` say what is true of any strings but
unknown to the provers: `SpaceAssumption`, that the literal of white space is a
string, and `NullAssumption`, that NULL is none of the values. In `VoyConf` and
`VoyStrText` the k-th number of a set is `Nth`, and `Closings` a set of lines, as
a proof can speak of those where it could not of a sorted sequence.

**Only model-checked:** liveness and everything about `ENABLED`, which the prover
does not do: in `VoyServer` that zombies are reaped, the backlog is served and the
address comes back, in `VoyConn` that a worker ends. The properties of the violated
runs are refuted by TLC, which no proof could replace.

## 5. What is not modelled, and why

* Short counts of `send()` but for the kernel's limit; locks inside libc when a handler calls `exit()` or
  `puts()`; descriptor numbers that are reused after a `close()` (no thread of a
  worker could open a socket meanwhile).
* Lengths of words: `voy_file.c` copies the path and the extension to buffers of
  fixed or too small a size, which only a model of characters would show.
* Failing allocations in the configuration parser, the strings and the small
  ones of the response. `VoyArray` has a failing `realloc()` (`ExpandMayFail`),
  which no run turns on: a full array is then overrun by the next push.
* The hash function itself: nothing depends on its values but their equality.
* Functions that only look at a string (prefix, suffix, equality), and the steps
  of the configuration parser that are empty functions (includes, syntax errors,
  reload).
* Command line, logging, wording of output, and the unit tests, which were read
  for what they expect.

## 6. What is left

Composition of `VoyConf` and `VoyPorts`, so that the ports come from lines. Both
use the same form of a port option, and `VoyPorts` takes every value of its
arrays, so the composition would add the constraint and no new step.
