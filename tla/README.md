# libcosmic in TLA+

libcosmic is a C library: generic containers behind virtual tables (a linked
list, a vector, a map), byte streams behind another one (memory, file, socket),
and JSON values, a JSON reader and a JSON writer built on both. This directory
holds TLA+ modules that model it, TLC configurations that check them on small
instances, and proofs of the most important results for instances of any size,
checked by TLAPS. Paths below are relative to the repository; `:n` is a line.

The library has no threads of its own and is not safe to share between threads.
What is hard in it are *histories*: pointers that several calls repair in turn,
iterators that keep an address while other calls change what lies there, values
that change owner, failures deep in a recursion, and limits that are met exactly.
So most components are state machines whose steps are the calls a client may
make, in any order. Concurrency comes in with the sockets, where another process,
the network and the timers act between the system calls of one read or write.

## Inventory

| Component | State | Operations | Interacts with |
| --- | --- | --- | --- |
| list interface, `src/cosmic_list.c` | the virtual table | size, get, add, insert, remove, pop, iterator | dispatches to the linked list or the vector |
| linked list, `src/cosmic_llist.c` | `len`, `head`, `tail`; nodes `i`, `o`, `next` on the heap; iterators: a node | the list operations, new, free; next, next_pair, has_next, close | JSON lists |
| vector, `src/cosmic_vector.c` | `alloc_size`, `len`, a block from `realloc`; iterators: two pointers into the block | the same | |
| map interface, `src/cosmic_map.c` | the virtual table | size, get_value, add, remove, iterator | dispatches to the map |
| map, `src/cosmic_dmap.c` | `len`, `head`, `tail`; nodes `p`, `next`, `prev`; iterators: a node | the map operations, new, free | JSON objects |
| iterator interface, `src/cosmic_iterator.c` | the virtual table | next, next_pair, has_next, close | equality, copy and the writer walk containers with it |
| any values, `src/cosmic_any.c` | none | constructors of a union | everything |
| JSON values, `src/cosmic_json.c` | trees of nodes on the heap: type and scalar, map or list; key strings from `strdup` | new, set, add, insert, remove, replace, copy, equals, free, getters | own their containers; take over and give back values |
| JSON reader, `src/cosmic_json_read.c` | the C stack of the recursion, `depth`, the pending error, one overflow character | read_stream, read_buffer | pulls characters from a stream, builds JSON values |
| JSON writer, `src/cosmic_json_write.c` | the C stack, `idepth` | write_stream, write_buffer | walks JSON values, pushes to a stream |
| io interface, `src/cosmic_io.c` | the virtual table | read, write, close | dispatches to the streams |
| memory stream, `src/cosmic_io_mem.c` | buffer, `len`, cursors `r` and `w` | read, write, set positions | reader and writer |
| file stream, `src/cosmic_io_fs.c` | a descriptor | read, write, close | the kernel |
| socket stream, `src/cosmic_socket.c` | a descriptor, `rpwait`, `wpwait` | connect, bind, listen, accept, poll, read, write, shutdown, close | the kernel and a peer |
| build, packaging, tests | none | | state what is expected |

What is hard, and what makes each component correct:

- **Linked list.** Insert and remove repair indices, links, both ends and the
  length in separate assignments, with cases for the front, the middle and the
  end. Correct: the chain from the head is every node, in the order of its
  indices; an iterator that still stands on a node goes on from there; seen from
  outside it is a sequence.
- **Vector.** Add, insert and remove each decide with a *different* length
  whether to call `realloc`. Correct: there is a slot for every value, and none
  below the length is unwritten. (Insert does not keep this, see Findings.)
- **Map.** As the linked list, with links in both directions and a callback that
  compares keys. Correct: both directions agree, no key is there twice, pairs
  keep the order in which they were added.
- **JSON values.** Ownership moves with every call and must come back when a
  call fails; replace is a remove and an add. Correct: one owner for every value
  and key string, equality means the same document, a copy is equal and separate.
- **Reader.** A failure at any depth has to free what every call on the stack
  has built; the error index is summed up by the calls that return; a number
  leaves a character behind. Correct: nothing is lost, the index is the place of
  the error, nesting is bounded, every text is read to an end.
- **Writer.** Partial writes, failures inside containers, the indentation
  counter. Correct: what is written is read back as an equal value, and a
  positive answer means that all of it was written.
- **Memory stream.** Two cursors that do not know of each other, bounded by an
  unsigned subtraction. Correct: both stay within the buffer, what was written
  stays, and as long as reads keep behind writes they return what was written.
- **Socket stream.** Timeouts, partial sends, hang-up with data pending, resets
  between a poll and a send; descriptors that are closed and given out again;
  a connect that tries one address after the other on one descriptor. Correct:
  bytes arrive in order and once; the end is reported behind the last byte; calls
  with a wait return; every descriptor has one handle and is closed once; the
  waits that the caller has set are the ones used.
- **File stream.** A descriptor, like a socket, but closing does not forget it.

## The modules

| Module | What it is | Code |
| --- | --- | --- |
| `ListSpec` | abstract: a list is a sequence with iterators that are positions in it | the promise of `cosmic_list.c` and `cosmic_iterator.c` |
| `Llist` | the linked list on a heap; `L!Spec` of `ListSpec` as refinement | `cosmic_llist.c` |
| `Vector` | the vector with its block and capacity; refines `ListSpec` until it overruns | `cosmic_vector.c` |
| `MapSpec` | abstract: a map is a sequence of pairs with distinct keys | the promise of `cosmic_map.c` and `cosmic_iterator.c` |
| `Dmap` | the doubly linked map; refines `MapSpec` | `cosmic_dmap.c` |
| `JsonRead` | the reader, one read of the stream at a time | `cosmic_json_read.c` |
| `JsonTree` | the JSON values and who owns them | `cosmic_json.c` |
| `StreamSpec` | abstract: a byte stream with a writing and a reading end | the promise of `cosmic_io.c` |
| `IoMem` | the memory stream; refines `StreamSpec` while reads keep behind writes | `cosmic_io_mem.c` |
| `SocketIo` | reads and writes over one connection between two processes; refines `StreamSpec` in each direction | `cosmic_socket.c:26-135` |
| `Socket` | handles and descriptors of one process: sockets and file streams, bind, listen, accept, connect, waits, modes | `cosmic_socket.c`, `cosmic_io_fs.c` |
| `JsonWrite` | the writer, one write to the stream at a time, over memory, socket and file | `cosmic_json_write.c` |
| `JsonPipe` | the writer and the reader composed through a memory stream | both, with the texts of strings |
| `LlistProofs`, `DmapProofs`, `VectorProofs`, `JsonReadProofs`, `JsonTreeProofs`, `JsonWriteProofs`, `StreamProofs` (of `SocketIo` and `IoMem`), `SocketProofs` | theorems | |
| `MCLlist`, `MCVector`, `MCDmap`, `MCJsonRead`, `MCJsonTree`, `MCIoMem`, `MCSocketIo`, `MCSocket`, `MCJsonWrite`, `MCJsonPipe` | instances for TLC | |

`JsonTree` and `JsonRead` use objects as the sequences of `MapSpec` and lists as
those of `ListSpec`: that `Dmap` and `Llist` behave like those is shown apart, by
refinement. In the same way `JsonWrite` and `JsonPipe` use a stream by its answers
and its bytes, which `IoMem` and `SocketIo` derive from the code of the streams.

### Conventions

- One action per call, named as in the code. `ret` is the last call and its
  answer, so that the refinements compare answers too.
- The heap is a function whose domain is the set of allocated addresses. `malloc`
  gives any free address, so addresses are *reused* while a stale iterator still
  holds them. A failing `malloc` is not modelled: the code dereferences its answer
  unchecked, and there is nothing to promise after it. Where the set of
  addresses is used up, adding is not enabled; the set is a bound.
- An iterator is `CLOSED`, at its end (`NULL`), or holds an address. `stale`
  (`changed` in the vector) remembers those whose node was freed or whose block
  may have moved. Stepping such an iterator is undefined in C:
  `IterNextStale` and the abstract `Advance` then leave it open what is found.
- Indices are counted from 0 as in the code; an index past the end is among the
  inputs of every call that takes one.
- Every module has a type invariant `TypeOK`. It is part of the inductive invariant
  and proved, or follows from it, for the list, the map, the vector, the memory
  stream, the reader, the JSON values and both socket modules; for the writer and the
  pipe it is a conjunct of one of the invariants that are checked.
- Names that say *Mutant* in their comment are not part of the model. Each is a
  definition with a plausible mistake in it, and for each property there is one
  that makes TLC report that property violated.

### `Llist`

`heap` holds the nodes `[i, o, next]`. `GetNode(k)` is the search from the head,
as the set of nodes reached through `next` from which the one with index `k` is
taken. `AddNode` is the path of an add and of an insert at the end, `LinkAfter`
the one of an insert elsewhere, `Unlink` that of a remove with the repair of the
indices behind it. Properties: `Shape`, the conjunction of `Indexed`
(indices are exactly `0 .. len-1`), `Chained` (`next` leads to the next index),
`Ends` and `Cursors`; `NothingLost` (the chain from the head is the whole heap,
and every index below the length is found); `ImplementsList`.

### `Vector`

`block` maps slots to values, `Junk` where `realloc` has given room that nobody
has written; `cap` is the size of the block, which the code itself does not keep.
`Grow(n)` is the code's test `n % alloc_size == 0`, and the three callers pass
their three different lengths. A write behind the block sets `overrun` and ends
the model: what C does then is undefined. Properties: `Capacity`;
`OverrunOnlyByInsert`, which says exactly when it goes wrong; `Cursors`; and
`ListUntilOverrun`, the refinement of `ListSpec` up to that point.

### `Dmap`

`heap` holds nodes `[k, v, next, prev]`, `order` is a history variable with the
nodes in the order of adding, through which the refinement is stated. Properties
as for the list; `Shape` says that `next` and `prev` join the neighbours in
`order` and that keys are distinct.

### `JsonRead`

The recursion of read_object and read_list is the sequence `frames`; `mode` and
`scan` are the scanning function on top of it and its locals. A step is one
`cosmic_io_read` of a single character with everything the code does up to the
next one, including all the returns in between. The text is not a variable: each
step takes any character of the classes that the code tells apart, or the end.
So one run covers every text up to the bound. `parent` is the heap of values with
their owners; `entries` the keys of the objects, needed for the refusal of a key
that is there already. Letters within strings are counted, not kept. A stream that
answers 0 or -1, at its end, after a timeout or a hang-up, is the input `end`:
`EndIsAnError` says that the reader then gives up, so a text that breaks off is
never taken for a shorter one. `SilentOnlyByKey` says which failures set no error.
`ErrorIndex` adds up what the calls on the stack have counted (`Sum`); when the
outermost call returns, the stack is empty.

### `JsonTree`

`json` maps node addresses to type, scalar and items; `held` is what the caller
owns; `strings` counts the key strings. `Gives` is the caller's side of the
contract: it gives away only what it owns, and not into itself. Everything else
may be called on any value that can be reached, inside a container too. A copy
takes a fresh address for every node. Getters, sizes and iterators change
nothing and are not steps; equality is the operator `Equal`, compared with the
set-theoretic `Document` in every state. Not modelled: the texts of strings, and
`NULL` in place of a text.

### `IoMem`

`buf`, `r`, `w` are those of the code, `Room` is its subtraction modulo the size
of a `size_t` (`Word`), so that a cursor behind the end would make the room huge.
`MemRead`, `MemWrite`, `Rsetpos` and `Wsetpos` take every length and position; the buffer
begins with any contents, as the caller owns it. `put` and `got` remember what was
written and read since a cursor was set. `InsideBuffer`: nothing behind the buffer
is touched. `Lasts`: what was written lies before the cursor. `ActsAsPipe`: each
step is one of `StreamSpec`, as long as `piped`.

### `SocketIo`

Two processes with a handle each. `call[p]` is where `p` is in a read (`rpoll`,
`recv`) or in a write (`wpoll`, `send`, and back while bytes are left); `tcp[p]` is
its end of the connection as the kernel keeps it: bytes in flight, bytes arrived,
directions shut down, a reset and whether it has been reported. `Taken`, `First`
and `Second` number the two processes, so that the refinement of `StreamSpec` is
two instances, `Forth` and `Back`, one for each direction. Between any two
steps of a call the other process may read, write, shut down, close or end, bytes
may arrive one by one, a signal may end a poll, a wait may be over. A close with
unread bytes, and a byte that meets a closed end, cause a reset, which drops what
is in flight. `send` to a broken connection raises SIGPIPE, since no flag forbids
it, and ends the process. Properties: `Streams`, the refinement of `StreamSpec` in
both directions; `AllOrRefused`, what the answer to a write means;
`EndAfterAllBytes`; `KilledByRaceOnly`; `CallsReturn`.

### `Socket`

`io` are the handles, `sock` the descriptor table of the process. A connect to a
host is a loop over the addresses of the name, in their order, where an address may
come twice: `busy` holds those that are left,
`ConnectNext` is one system call, which may fail, succeed, be under way already, or
wait in the kernel until `ConnectDone`. Everything else is one step. A descriptor
that is closed may be given out again at once. A connection that is accepted gets
the waits that the chained assignment in accept gives it. File streams are part of
the same table; closing one twice would close the descriptor of another handle, as
the number stays in the handle, and is the duty of the caller (`spent`).
Properties: `Owned` and `NoLeak` on handles and descriptors, `WaitsKept`,
`AllTried` and `ConnectReturns`.

### `JsonWrite`

The writer branches on nothing but the answers of `cosmic_io_write`, and after the
first failure it writes nothing more. So the first part of the module turns a value
into the sequence of writes that the recursion makes, each with the test its caller
makes of the answer: `must` (0 is a failure), `may` (0 is taken for "nothing to
write"), `whole` (as `must`, but the full length is counted). The second part
performs them over a stream: memory of `room` bytes, which cuts off and answers
with what fits; a socket, which takes all or answers 0 or -1; a file, which may
take a part. `Text` is the text of the value, defined apart from the writes by
recursion over the value. `Whole` holds where no byte is lost unseen;
`MemoryWhole` and `SocketLosesSeparators` say what a positive answer is worth on
those streams; `Counts`, what number it is; `FailsWithReason`, that only streams,
unwritable values and an empty indent make it fail.

### `JsonPipe`

Instances of `JsonWrite` and `JsonRead`: what the writer leaves in a large enough
memory stream is fed to the steps of the reader, followed by any `rest`. `made`
rebuilds the value that the reader returns, with the texts that `JsonRead` leaves
open, from the characters its scanning functions keep. `RoundTrip`: the same value
comes back, whatever the indent, and where it does not, that is an error;
`TakesItsText`: the reader leaves what follows in the stream.

## What is checked

| Run | Module | Properties | Instance | States |
| --- | --- | --- | --- | --- |
| `llist` | `MCLlist` | `Shape`, `NothingLost`, `ImplementsList` | 4 nodes, 2 values, 1 iterator | all |
| `dmap` | `MCDmap` | `Shape`, `NothingLost`, `ImplementsMap` | 4 nodes, 4 keys, 2 values, 1 iterator | all |
| `vector` | `MCVector` | `Capacity`, `OverrunOnlyByInsert`, `Cursors`, `ListUntilOverrun` | steps of 1 to 3, 4 values | all up to an overrun |
| `json_read` | `MCJsonRead` | `NoLeak`, `ErrorIndex`, `NestingBounded`, `EndIsAnError`, `SilentOnlyByKey`, `Finishes` | all texts up to 11 characters | 38 000 |
| `json_tree` | `MCJsonTree` | `OneOwner`, `EqualsDocuments`, `CopyIsEqual`, `ReplaceAllOrNothing` | 4 nodes, 2 keys, 2 scalars and null, 1 refused key | 22 000 |
| `io_mem` | `MCIoMem` | `InsideBuffer`, `Lasts`, `ActsAsPipe` | 3 bytes of 2 values, lengths and positions to 4, `size_t` of 5 values | 7 000 |
| `socket_io` | `MCSocketIo` | `EndAfterAllBytes`, `KilledByRaceOnly`, `Streams`, `AllOrRefused`, `CallsReturn` | two bytes one way, one the other, buffers of one byte | 303 000 |
| `socket` | `MCSocket` | `Owned`, `NoLeak`, `WaitsKept`, `AllTried`, `ConnectReturns` | 2 handles, 2 descriptors, 2 addresses | 657 000 |
| `json_write` | `MCJsonWrite` | `Whole`, `MemoryWhole`, `SocketLosesSeparators`, `Counts`, `FailsWithReason` | 16 values, 3 indents, memory of 0 to 60 bytes | 891 000 |
| `json_pipe` | `MCJsonPipe` | `RoundTrip`, `TakesItsText` | values of every type and limit, 2 indents, 7 rests | 4 000 |

and two runs that show a disagreement between the code and what is said of it:
`vector_overrun` and `json_read_quote` (see Findings).

Why the bounds are enough. Addresses, keys and values are only compared, so they
are symmetric, and two values are enough to tell an element from another. Four
nodes give a first, a last and two inner ones, so every branch of insert and
remove is taken at each place, twice in a row, with an iterator on, before or
behind it. Iterators write nothing that another call reads, so one stands for
many. Steps of 1, 2 and 3 slots with four values fill a block, overfill it and
shrink it again. Four JSON nodes make an object inside a list inside an object,
or a pair and its copy. Eleven characters are the least with which an object gets
a key twice behind a number. A buffer of three bytes is met short of, at and past
its end. One byte of room makes a write of two block, time out or break off half
done, with a byte in flight and a byte unread at once; one process has waits that
end and sends that do not block, or the opposite, the other waits for ever to
read. Two descriptors and two handles are enough for a descriptor to be closed,
given to another handle and closed again; two addresses for a connect to go on. The
values written have every type, empty and full containers, first and last items,
three levels; every size of memory cuts the text at every byte. For the list, the map,
the vector, the memory stream, the reader, the writer, the JSON values and the sockets the proofs
remove the bounds; those that the models need remain as
parameters of any value: `MaxIndex`, the largest index passed to a list, `MaxLen`,
the longest vector, `MaxInput`, the longest text, `MaxRefused`, the keys refused,
`MaxAsk` and `MaxBytes`, the longest write and all that a process sends, `MaxRoom`,
the largest memory that is written to.
`MCVector` switches the deadlock check off because the model stops at an overrun,
`MCSocketIo` because both processes may have ended.

Fairness. `JsonRead` has `WF_vars(Next)`: the reader goes on reading. It stands for
the C program running, and for streams whose reads return, as those of a file and of
a memory buffer do and those of a socket with a wait do. `SocketIo` has weak
fairness of `Own(p)`, the next step of a process inside a call (the kernel returns
from a poll that has something to report or whose wait is over, and from a send that
has room), and of `Deliver(p)` (TCP delivers what was sent while the receiver has
room, by sending it again as often as needed). Nobody is forced to call anything,
to close or to read: with waits of -1 two writers may wait for each other for
ever, and `CallsReturn` promises nothing of them. `Socket` has weak fairness of the
steps of a connect and of the network (an attempt is answered, by a timeout of the
kernel if by nothing else). The containers are driven by their client, who owes them
nothing.

## What is proved

Each proof module extends the model it is about; `StreamProofs` extends two, `SocketIo`
and `IoMem`, which share no variable (hence the names `MemSpec`, `MemNext` and so on in
`IoMem`). The constants are
constrained only by the `ASSUME` of the model (distinct markers, positive step sizes,
two processes at a connection, number buffers of two bytes or more to read, of one or
more to write, no JSON value inside itself); the sets of addresses (but those of JSON
values), values, documents, handles and descriptors may be infinite, and buffers,
texts and nesting may be of any size.

- **`LlistProofs`**: `AlwaysInShape` (`Spec => []Shape`), `NeverLost`
  (`Spec => []NothingLost`), `LlistImplementsList` (`Spec => L!Spec`). The invariant
  is `TypeOK /\ Shape`, inductive because `Shape` ties `next` to the *indices*:
  reachability is not inductive, since one changed pointer changes it everywhere,
  while the indices change in a way that each call states. `FollowIs` is the
  bridge: the nodes reached from `n` are those with an index not below its own.
  With it `NothingLost` and every search follow from `Shape`.
- **`DmapProofs`**: `AlwaysInShape`, `NeverLost`, `DmapImplementsMap`, along the
  same line with `order` in the place of the indices.
- **`VectorProofs`**: `AlwaysRoom`, `OnlyInsertOverruns`, `CursorsInBounds`. The
  invariant adds to the checked properties that a living vector has a block of
  at least one slot and a dead one no values. The arithmetic is in three lemmas on
  multiples of the step (`Multiple`, `AnotherStep`, `OneStep`); the rest shows that
  each of the three lengths passed to `Grow` keeps the block large enough, but one. On the same
  invariant rests `VectorIsList` (`Spec => ListUntilOverrun`): each call is that of
  `ListSpec` on the values below the length, up to the first write behind the block.
- **`SocketProofs`**: `OwnedAlways`, `NoLeakAlways`, `WaitsKeptAlways`,
  `AllTriedAlways`. `Owned` speaks of sockets and is not inductive: `Alone` says of
  every handle that may still close its descriptor, a file stream included, that
  the descriptor is open, of the handle's kind, and of no other such handle.
  `AllTried`, about the answer of a connect, follows from `Pursued`, about the
  connect under way: each address of the name has refused or is among those that are
  left, unless the system has spoilt the descriptor or the socket does not block.
- **`StreamProofs`**, the connection: `EndIsTheEnd`, `OnlyRacesKill`, `WritesAnswerInFull`,
  `ConnectionStreams` (`Spec => Streams`, the refinement in both directions). The
  invariant has four parts for each process. `Flow`: the bytes that were sent are
  those received, those in the queue and those in flight, in this order, unless a
  reset or a close has lost some. `Steps`: how far a write is, in bytes. `Resets`: a
  reset comes from an end that is closed for good, and one met by a send has come
  since the poll. `Ends`: what poll has told a reader stays true until it reads,
  whatever the other process and the network do in between.
- **`StreamProofs`**, the memory stream: `AlwaysTyped`, `StaysInsideBuffer`, `WrittenLasts`,
  `MemoryActsAsPipe`, for a buffer of any length that a `size_t` can hold. The
  invariant adds to the types `Stored` (what was written lies before the write
  cursor, byte by byte) and `InStep` (as long as `piped`, the cursors count the
  bytes written and read, and what was read lies before the read cursor). The
  properties are not inductive alone: that the subtraction does not wrap rests on
  both cursors being inside, and that a read returns what was written rests on
  `InStep`. `RoomIs` and `FittingIs` take the modular arithmetic away.
- **`JsonReadProofs`**: `NoLeakAlways`, `ErrorIndexAlways`, `NestingBoundedAlways`,
  `EndIsAlwaysAnError`, `OnlyAKeyIsSilent`. The values form trees in which a value is
  younger than its owner; while the reader runs, the roots are the containers of the
  calls on the stack, in increasing order, so what the failing calls free is all
  there is. That every value is below a root is `RootsOwnAll`, by the youngest that
  is not. For the index, `Counted` says for each scanning function how the counts of
  the calls and its own add up to the characters read; `TotalsExist` and `SumIs` make the running
  totals of a stack of any height something that can be reasoned about. `Invariant` is
  `IInv`, which was first checked by TLC on all texts of the run.
- **`JsonTreeProofs`**: `OwnedOnce`, `ReplacedWhole`, `EqualIsByDocument`,
  `CopiesAreEqual`, for trees of any depth and width; the set of addresses is finite.
  The invariant `Forest` says it node by node: a value is in one place, a root is in
  none. That there is no circle cannot be said so; it is said of sets, in both
  directions. `Down`: among any nodes there is one with none of them as its child.
  `Up`: there is one with none of them as its parent. Each call has to keep both,
  which is where `Gives`, the duty of the caller, is needed. `Down` takes the place of
  an induction over values: of the values that fail a claim, take one with no such
  value inside. In this way a recursion over a tree is shown to have one solution
  (`DocumentExists`, `OneDocument`), `Below` to be what can be reached (`BelowIs`), and
  `Equal` to be the only answer to its own equation, whichever order the keys of the
  two objects are in. A copy is a renaming of the tree; both stand for the same
  document. `Up` says that every value is below a root.
- **`JsonWriteProofs`**: `WritesItsText`, `MemoryTakesItWhole`, `SocketKeepsTheRest`,
  `AnswersItsCount`, `GivesUpForCause`, for values of any depth and width, every indent,
  memory of every size and every answer of a stream. Two arguments. The first is about
  values alone: `ValueGood` says that the writes of a value, one behind the other, are
  its text, that one of them is refused exactly if the value cannot be written, and that
  the last one is a single byte, unless it is the only one. `WriteValue`, `Text` and
  `Unwritable` are recursive functions over `Doc`; that each has a value is itself
  proved (`SolutionExists`, `OneSolution`), from the assumption that no value is inside
  itself, in the form in which `JsonTreeProofs` derives it: among any values there is one
  with none of them in it. `FlattenSeq`, of which both sides are made, is reasoned about
  by its partial results (`Sums`). The code puts the comma and the line break behind an
  item, the text puts them before the next: `LinesJoined`. The second argument is about
  the machine: `IInv` says that what is out and what is still to be written make the
  text (`WholeInv`) as long as no byte was lost unseen, and without the separators in
  any case on a socket (`SocketInv`); that on memory a byte is lost only when there is
  no room left (`MemoryInv`), so that the last byte, which must be written, fails; and
  what the sum of the answers counts (`CountsInv`). None of the five properties is
  inductive: while the writer is busy they say nothing.

Several modules prove `LeastNatural` first: a set of naturals that has an element has
a least one. It comes from the library's well-founded order on finite sets, and takes
the place of induction over numbers.

Four things came out of the proofs. The addresses of a host were a set at first, and
the invariant of a connect could not be stated for it: a resolver may list an address
twice, and the code then tries it twice, so they are a sequence now. `Sum` was a
recursive operator and the refinement of the connection was an instance under a
quantifier, neither of which the provers can use; both are written otherwise and mean
the same. The writer's values were any set at first; that a
value has a text at all needs the assumption that it is not inside itself, which is
now stated, and which `OwnedOnce` shows of the values that the library makes. And
`UNION S \cup T` is read by the parser and by the prover in two ways: it
has parentheses now.

Only model-checked:

- `Finishes`, `CallsReturn` and `ConnectReturns`: liveness is out of the provers'
  reach.
- `RoundTrip` and `TakesItsText` of `JsonPipe`: they run the reader over the text of the
  writer, and need the place of the reader in it as an invariant, item by item.

## Findings

1. `vector_overrun`: `cosmic_vector_insert` (`src/src/cosmic_vector.c:49`) counts the
   length up before it tests it, so an insert into a vector whose block is exactly
   full writes one slot behind it. It is the only call that does, and only with
   `alloc_size > 1`: that is `OnlyInsertOverruns`.
2. `json_read_quote`: a string as long as the buffer is taken to be complete, its
   quote is never read, and what follows is misread
   (`src/src/cosmic_json_read.c:63`).

Other places where the code does not do what one would expect of it are stated as
the exceptions of a property that is checked:

- The depth is counted up for every container and never down
  (`src/src/cosmic_json_read.c:14`), so a flat text with many containers is refused
  as too deep: `NestingBounded`, and `Containers <= MaxDepth` in `RoundTrip`.
- The index of an error is not always the offset of the character that caused it:
  `ErrorIndex` lists the cases.
- A key that comes twice ends the reading with an error value whose code says that
  there was no error (`src/src/cosmic_json_read.c:346`): `SilentOnlyByKey`.
- A number at the top takes one character more than its own from the stream, and
  is an error at the end of it: `TakesItsText`, `Ends` in `RoundTrip`.
- The copy of a refused key is never freed (`src/src/cosmic_json.c:374`):
  `KeysCounted` in `OneOwner`.
- An accept puts the write wait of the *listening* socket back to -1, and leaves
  that of the new one at 0 (`src/src/cosmic_socket.c:257`): `WaitsKept`.
- A nonblocking connect to a host of several addresses ends with `EALREADY`
  although its first attempt is under way (`src/src/cosmic_socket.c:184`):
  `AllTried`.
- An empty text as indent makes every container fail to be written
  (`src/src/cosmic_json_write.c:40`): `FailsWithReason`.
- A memory stream too small for a scalar, and a socket that times out at a comma or
  a line break, lose bytes under a positive answer: `MemoryWhole`,
  `SocketLosesSeparators`.
- `cosmic_io_copy` is declared (`src/include/cosmic/cosmic_io.h:15`) and defined
  nowhere.

## Not modelled, and the plan

In this order:

1. Proofs: `RoundTrip` for values of any size, from what is proved of the writer and
   of the reader; it needs the place of the reader in the text as an invariant.
2. The reader over `SocketIo`: `EndIsAnError` covers every answer that a read may
   give, but not the waits in between.

Left out for good: any values (a union without state), the branches for Windows,
the build, name resolution and options beyond those named, and signals during a
connect. The kernel is external: what poll, recv, send, connect and close do is
written down from how the code uses them, for Linux. A missing entry in a virtual
table makes the interfaces answer -1, 0 or `NULL`; the tables in the library miss
only `next_pair` of list and vector iterators, which is the action `IterNextPair` of
their modules, and `close` of memory streams.
