# AC-DAT: specifications, model checks and proofs

AC-DAT is a C implementation of Aho-Corasick search over a double array trie,
with a socket server around it. This directory holds TLA+ modules of its
components, the TLC configurations that check them on small instances, and
TLAPS proofs of the theorems that hold for every value of the constants.
Line numbers are those of `src/` in the repository.

    tlc -workers 4 -config WorkerPool.cfg WorkerPool
    tlc -workers 4 -config Trie.cfg MCTrie
    tlapm WorkerPoolProofs.tla

## Inventory

| component | state | operations | who uses it | what makes it correct |
|---|---|---|---|---|
| Worker pool (`thread.c`) | linked list of jobs, `jobMutex`, `jobCondition`, a `terminate` flag per worker | `createWorkerPool`, `workerPool_start/addJob/stop/join/free`, `worker_function` | the server thread | jobs are taken in order, each by one worker; no wake-up is lost; a stop reaches everybody |
| Socket server (`socket.c`, `cmd/main.c`) | listener, event base and bufferevent per connection, contexts, read timers | accept, event callback, signal, `server_run`, `server_stop` | libevent calls it; it calls the pool | contexts live from accept to the end of the connection; nothing runs after `server_run`; the timeouts hold |
| Search protocol (`socket_ac.c`, `client/go`) | bytes of one request, of one answer | `ahoCorasickHandler`, the response of one occurrence, `Search` and `Occurrence` of the client | the connection's event base | client and server agree on where a message ends, however it is cut |
| Trie, cell pool (`dat.c` 65-217) | `cells[].base/check`, `size` | allocate, free, find the next free cell, grow | the rest of `dat.c` | the chain holds exactly the free cells; cells in use are left alone |
| Trie, dictionary (`dat.c` 219-585) | the cells in use, children lists, user data | `trie_addNeedle`, `trie_addNeedleWithData`, the collisions | programs that build a dictionary | every word stays, with its data; nothing else appears |
| Tail builder (`tail.c`) | cells with a chained free list | `insertChars`, `freeCell`, `minimize`, `createTailFromBuilder` | `dat.c`, `ac.c` | a suffix stays where it is until it is freed |
| List (`list.c`) | cells with a free list, `front`, `rear` | stack, queue, sorted array, searches, merge sort | `dat.c` (children), `ac.c` (the states to visit) | it is a stack, queue or sorted array; the array has no gaps |
| Automaton (`ac.c`) | base, check, fail and output per state | BFS/DFS construction, search in four modes | server, programs | fails and outputs are the nearest; searches report what is there |
| Needles (`needle.c`) | - | decode and encode UTF-8 | all | decoding is the inverse of encoding; a needle ends where its string does |
| Files (`file.c`) | - | save and load automaton, tail and data | programs | what is loaded is what was saved last, or nothing |
| User data (`user_data.c`), memory (`memory.c`), printing (`print.c`) | a list of values by cell; - ; - | set and get; allocate and grow; print | all | the datum follows its cell; growth never shrinks |

A program adds needles to a trie, builds an automaton from it, may write it to
a file, and searches it. The server shares one automaton, read only, between
all workers; each connection is a job that runs an event loop of its own.

What makes it hard:

* **threads**: the workers and the server thread share the queue, and the stop
  flag lies outside the mutex;
* **free lists threaded through live data**: base and check of a trie cell are
  links while it is free and contents while it is used, with signs to tell them
  apart, boundary cells that are never used, and growth that relies on where
  the chain ends;
* **indices that go stale**: every collision in the trie moves a family of
  cells while callers hold indices of some of them;
* **order of construction**: the fail of a state is computed from fails that
  have to be there already;
* **limits**: pools that grow exactly when they are full;
* **messages cut anywhere**: the server reads a request in one callback, the
  client a field in one read;
* **strings that end inside a character**: the loops over UTF-8 jump by the
  length that the first byte announces;
* **files written in place**: a store empties the file before it writes.

`PROJECT.json` lists the hazards line by line, with the properties that would
notice each.

## Modules

| module | models | abstract specification | proofs |
|---|---|---|---|
| `WorkerPool` | `thread.c`, `server_run` | `JobDispatch` | `WorkerPoolProofs` |
| `Server` | `socket.c` above the pool | uses `JobDispatch` | `ServerProofs` |
| `Protocol`, `MCProtocol` | `socket_ac.c`, `client.go` | `Dialogue` | `StreamProofs` |
| `TriePool` | free cells of `dat.c` | - | `TriePoolProofs` |
| `Trie`, `MCTrie` | construction in `dat.c` | `Dictionary` | `TrieProofs` |
| `TailBuilder` | `tail.c` | - | `TailBuilderProofs` |
| `List` | `list.c` | `Collection` | `ListProofs` |
| `Automaton`, `MCAutomaton` | `ac.c` | definitions over words | `AutomatonProofs` |
| `Utf8` | conversions of a character in `needle.c`; shared by the next two | UTF-8 of RFC 3629 | `StreamProofs` |
| `Needle` | `createTrieNeedle`, the reading of texts in `ac.c` | UTF-8 of RFC 3629 | `StreamProofs` |
| `FoundNeedle` | `automaton_returnNeedle` in `ac.c` | UTF-8 of RFC 3629 | `StreamProofs` |
| `MCNeedle` | `Needle` and then `FoundNeedle`, on the same string | | |
| `File`, `MCFile` | `file.c` | - | `StreamProofs` |
| `TrieShape` | which cells a set of words has; shared by `Trie`, `Automaton` and `FoundNeedle` | | |
| `Memory` | `calculateAllocation` | | |

`StreamProofs` is one module because `Needle`, `FoundNeedle`, `File` and `Protocol`
put data into one sequence of numbers and have to find it there again, and share
the lemmas about joined sequences. Since it extends them all, the definitions of
the last three that would clash carry the module's name (`FoundInit`, `FileSpec`,
`ProtocolInit`) or the C function's (`SafeRead`).

The layers rest on each other as the code does, each taking from the one below
only what a property of that one states:

* `Trie` takes free cells as a set, because `TriePool` shows that the search
  finds the first free cell above a node and that the pool grows in time;
* `Trie` puts a suffix into the lowest free tail cell: `FirstFit` of
  `TailBuilder`;
* `Trie` keeps children as sets and `Automaton` keeps the list as a sequence:
  `ImplementsCollection` and `SortedArray` of `List`;
* `Server` takes the pool as `JobDispatch`, which `WorkerPool` implements: its
  actions are those of the abstract pool with what the server adds to them;
* `Protocol` takes one connection out of `Server` and a search as a function
  from texts to occurrences, which is the matter of `Automaton`;
* `Automaton` names a state by the characters that lead to it: `DoubleArray` and
  `ShapeOfWords` of `Trie`;
* `FoundNeedle` takes the cell that a search of `Automaton` names, in the same way.

### `WorkerPool`, `JobDispatch`, `WorkerPoolProofs`

A step is what no other thread can see the middle of. The variables are the
fields of `WorkerPool`, `Job` and `Worker`, the control points of
`worker_function` (`pc`, `job`) and of `server_run` (`serverPc`, `cursor`), and
the history variables `handled` and `freed`. `JobDispatch` is what the pool
promises, with no locks or pointers in it.

`WorkerPool.cfg`: two workers, four connections, two spurious wake-ups. Two
workers are the fewest that can compete for a job and of which one can sleep
while the other works; four jobs leave two in the queue when both workers have
left with one each, so that `workerPool_free` walks a list. Checked are
`OneOwner` (no job has two owners or is used after it was freed),
`NoIdleWhileBacklog` (while somebody sleeps, enough workers are on their way to
the queue), the refinement, and two liveness properties: `EveryJobServed` and
`StopCompletes`. Two more invariants are stated and proved, not checked again:
`QueueChain` (the queue is a FIFO list of the jobs nobody took) and
`NobodySleepsThroughStop`.

Fairness is weak, of every worker and of the server thread: the operating system
schedules runnable threads, and a handler returns because its connection ends
when the client closes it, fails or times out. None is assumed for clients that
connect, for the signal that stops the server and for spurious wake-ups.

Proved for any number of workers, jobs and spurious wake-ups: the invariant
`IInv` (who owns `jobMutex` and what he read under it, how far each loop of the
server thread is, which jobs left the queue), from it the safety properties, and
that the pool implements `JobDispatch`. The queue alone is not inductive: that
nobody sleeps through a stop needs what a worker read before it went to sleep.

### `Server`, `ServerProofs`

The server as libevent drives it. A callback is one step, because the event loop
of a connection runs in one thread and nothing else reaches its base, its
bufferevent and its contexts. The variables are those of `JobDispatch`, the
place where `server_run` is, the workers' `terminate` flags, and per connection
how far it is, what waits in its socket, whether its read timer has fired and
whether its contexts and its event base are allocated. A client may connect while
the server stops (the listener is freed last), send, and close at any time; the read
timer runs from accept, also while the connection waits for a worker.

A connection ends in three steps, as in the code: `ConnectionEvent` is the callback
(contexts, bufferevent and event base are freed, `socket.c:134-142`), `LoopBreaks`
the return from it into `event_base_dispatch`, which looks at the base to see that
the loop was broken, and `HandlerReturns` what the worker does after that. The
process may die in two places (`alive`), because C leaves it open: where a loop
works with a base that was freed, and where an answer to a client that has closed
raises `SIGPIPE`, which nothing ignores (`socket_ac.c:83`).

`Server.cfg`: two workers, three connections, one request, `clientTimeout` set.
Three connections leave one waiting while both workers serve; a request is
enough for an answer to race with close and timeout. Checked:
`QuietAfterReturn` (after `server_run`, when the caller frees automaton and
configuration, no callback runs or will run), `ContextsFollowConnections` (contexts
and base live from accept to the end of the connection; those of abandoned
connections are all that is left), and with fairness `EveryConnectionServed` and
`StopReturns`, both of which need `clientTimeout` and are stated for a process that
does not die.

`ServerClose.cfg` is the violation run `close_kills`: two connections, and
`ConnectionsEndAlone` (the end of a connection is survived by the process). The
trace is one connection that is accepted, served and closed: its callback frees the
base, and its loop goes on with it. Were the base freed by the handler after the
dispatch, the property would hold; it is the order that breaks it.

Fairness is weak, of the threads and timers together: they are scheduled, and no
step comes back after it was taken, so none is left out. Clients and the signal
come when they like. Each client sends finitely often (`MaxRequests`): one that
talks for ever keeps its worker for ever, timeout or not, for each read restarts
the timer.

Proved for any number of workers, connections and requests: the two safety
properties, from `IInv`, which says who serves which connection and how far the
shutdown is.

### `Protocol`, `Dialogue`, `StreamProofs`

One connection between the Go client and the handler, as two streams that keep
the order of the bytes and deliver any part of what was written, in any number
of reads. `Receive` is one read callback (`ahoCorasickHandler` answers one
request per call and dies of a short read), `ReadBytes` one `Read` call of the
client's `Occurrence`. `mishaps` records what the network has done to the
messages: cut a request, joined two, cut an answer.

`Protocol.cfg`: three calls of `Search`, up to two ahead of their answers, over
three kinds of request (nothing found; the first of two occurrences with user
data; both with user data and needles), with user data of two bytes and of none.
Checked: `ErrorsOnlyOfMishaps` (the server dies only of a cut request, the
client fails only of a cut answer or a dead server: the sizes announced are those
of what follows), `ImplementsDialogue` (each search gets its own answer, in
order, or the connection fails), and `EveryRequestAnswered` as long as nothing
is cut or joined. Joined requests are an exception because the handler answers
one per read: the answers lag behind from then on. Fairness is weak, of network,
server and the caller that fetches its answers.

Proved for all requests, all results of a search (any number of occurrences, with
any needles and data), any number of requests ahead and any pieces:
`ProtocolTypeOK`, `ErrorsOnlyOfMishaps` and `ImplementsDialogue`. The properties
say nothing of the bytes in between, so the invariant (`ProtocolInv`) does. The
requests without an answer fall into those the server has answered and those on
their way to it (`Flowing`). What is in the handler's buffer and in the stream
behind it is those on their way, as bytes (`Carried`); so the handler always looks
at the beginning of a request. What is ahead of the client is the rest of the
answer it is in and then the answers to the others (`Fetching`); `Within` says for
each field of an answer what of it is left, and that the list built so far is what
the automaton found up to there. As long as no answer was cut, what has arrived
ends where an answer ends (`Fetched`), so a field that has begun is there whole:
that is why only a cut answer or a dead server makes the client fail. A step of
the client then reads what the server wrote for that field (`UseKeeps`), whatever
the mode, and the last one of an answer returns that of the automaton.
Assumed of the constants: modes, texts, needles and data are sequences of natural
numbers, and `MaxAhead` is positive.

### `TriePool`, `TriePoolProofs`

The chain of free cells of the trie: insertion with growth is one step, the two
walks (`trie_freeCell`, `trie_findEmptyCell`) take a step per visited cell, so
that their end is a property and not an assumption. The cells asked for are
arbitrary; module `Trie` says which ones the trie asks for.

`TriePool.cfg`: a pool of four cells, cells up to 8 are asked for, so it grows
twice (to 7 or more, and to 11 or more) with every subset of cells in use.
Fairness: a walk that has begun goes on, for one thread builds the trie.

Proved for every initial size of at least 4 and every number of cells below the
cap of `calculateAllocation`: the chain is a sorted ring of exactly the free
cells, the last cell is free, a search returns the first free cell above the
node, no chain operation writes into a used cell. The ring alone is not
inductive: growth hangs new cells onto `cells[0].base`, which is a free cell
only because the last cell always is.

### `TailBuilder`, `TailBuilderProofs`

The cells of the tail builder and their free list. `Strings` are opaque: the
builder never looks into a suffix. The walk of `findPrevFree` takes a step per
cell. `lost` names the cells that `minimize` takes off the chain and that stay
unused from then on.

`TailBuilder.cfg`: a builder of two cells that grows up to four and more, two
suffixes, `minimize` at any time.

Proved for every initial size of at least 2 and every growth below the cap: the
chain visits every available cell and no other, in ascending order; a suffix
stays where it is until it is freed; a new one goes into the lowest available
cell. The induction needs what the walk knows of the cells behind it (`WalkInv`).

### `List`, `Collection`, `ListProofs`

`list.c`, an operator per function from lists to lists, a step per call. A list
is used either as a stack or queue or as a sorted array: `list_insert` and the
binary search take the items to lie in the cells 1 to `rear`, and a single
`list_shift` would break that.

`List.cfg`: lists of one to three cells, up to five items, so that every list
grows at least once and every repair of the free chain happens (no free cell, one,
more). `DeleteWhenFull` is FALSE: `list_delete` on a full list loses a cell
(see the hazard at `list.c:350`); nothing in the repository calls it then.
`TypeOK` holds the links too: `prev` is the inverse of `next` on the items.
240 random sequences of calls were compared cell by cell between this module
and the compiled `list.c`.

Proved for every size of the pool, all positive values and every order of calls:
the types, `NoCellLost`, `SortedArray` and `ImplementsCollection`. `NoCellLost`
says too little to be inductive: between the two halves of a call a cell is in
neither chain. `Shape` therefore splits the cells into the sequence of items, the
ascending sequence of free cells and the loose cells of the call, with all links
that lead from one to the next, and the lemmas say what each part of a call does
to it: a free cell is taken (`TakeFirstKeeps`, `SecondLeaves`), linked behind the
items (`BehindKeeps`) or moved into (`ShoveKeeps`), an item is unlinked
(`UnlinkKeeps`), a loose cell is freed (`FreeCellKeeps`), the pool grows
(`ReallocateKeeps`). `Holds` adds the items, `Arrays` that they fill the first
cells in ascending order; then the first free cell is `rear + 1`, which is why
`list_insert` may repair the chain by that number, in all three cases (`RoomIs`),
and why the binary search ends at the place of the value (`SearchIs`). `IInv` is
`Holds` or `Arrays` of what the list contains; TLC checked it on `List.cfg` before.
The theorems have one hypothesis, `~DeleteWhenFull`: `list_delete` is not called
on a list without a free cell. Of the constants they assume that the initial
size and the values are positive and that the bound on the items leaves
`calculateAllocation` room to grow.

Not modelled: `list_mergeSort`, which nothing calls and which clears the values
it has sorted (`list.c:441`).

### `Trie`, `Dictionary`, `TrieShape`, `MCTrie`, `TrieProofs`

Construction of the trie. A cell in use is a record of base, check, the set of
its children's characters and its user datum. A step is one call of
`trie_storeNeedle` or one part of `trie_collisionInTail`, so the properties are
checked between any two moves of cells: `DoubleArray` (base, check and the
children lists tell the same tree), `TailLinks` (leaves and suffixes belong
together one to one, and the suffix that is being split to nobody),
`ShapeOfWords` (between calls there are no cells but those of the words).
`ImplementsDictionary`: after each call the trie holds what it held and the new
needle, with data. `words`, what the trie holds, is computed from the cells by
the definition of a double array, not by the construction.

`Trie.cfg`: three calls with any of 17 needles over three characters (all of up
to two, and those of three that begin alike), two data, with a tail and without.
With neighbouring characters every kind of collision happens: of a new node with
another family, of either family that moves, of the parent that moves itself,
and in the tail with and without common characters, with nothing left of the
needle, of the suffix, or of neither. The characters are above `END_OF_TEXT`
(3), as `TrieAssumption` says: with 1 and 2 a needle gets lost (`dat.c:474`), with 3 its
prefix becomes a word (`definitions.h:10`). 240 random dictionaries over other
characters were compared cell by cell with the compiled code.

Proved for all needles of characters above `END_OF_TEXT`, all data, options and
numbers of calls: the types, `DoubleArray` and `TailLinks`. The lemmas say
what each operator keeps: `Tree` (`DoubleArray`, no cell its own parent, leaves
without children, no end of text that is a leaf), `Linked` (leaves and suffixes
one to one) and `Grown`, which compares the cells before and after an insertion
by the function that tells where each has gone. `trie_moveBase` keeps the tree
because no two cells go to one place and none to a place in use, and because a
free base always exists. `DoubleArray` is not inductive: a call holds an index
across insertions that move cells. `IInv` adds why that is safe (`CallOK`): the
code reads the index again after a character was stored, and does not after the
end of text that may follow; that one goes below a node with the base 1, hence
to cell 4, and whatever has to leave cell 4 is itself an end of text, which no
call holds. With characters 1 and 2 this argument fails, as the hazard at
`dat.c:474` says the code does.

Proved too, for tries with user data: `ImplementsDictionary`. The invariant `DInv`
says of every needle added so far that the trie holds it, with its data, except
the one whose leaf is being split: that one is missing between
`trie_collisionInTail_common` and `trie_collisionInTail_tail`, and `WayOK` says
which cells still lead to it and which suffix is waiting to be hung below them.
The new needle is there as soon as its own branch is. The other steps move cells:
`GrownPath` says that the cells of a word lie, in a grown trie, where `Grown` says
each has gone, so no end of a word is lost and none appears but the one just
stored. `path` is a recursive function over the characters of a word, and the
inductions over it are made by hand. User data are assumed because `words` reads
them from the cells; without them every needle would have the datum `Empty`.

### `Automaton`, `MCAutomaton`, `AutomatonProofs`

Construction and search. A state is named by the characters that lead to it.
The initial states have any cells that `TrieShape` allows, a superset of what
the trie builds: with a tail, where a word ends in a leaf depends on the
collisions it met. `Visit` is a round of `buildAutomaton`, `ReadCharacter` one
of `automaton_search_ac` with its inner loop, `SearchExact` the whole exact
search. An occurrence is the end cell it names; needle and user data follow
from it.

`Automaton.cfg`: all dictionaries of one or two needles over two letters with
together up to six letters, those of three needles that end alike, both options,
both orders, all texts of up to four letters, three modes. Needles of four
letters are needed for the depth-first fails to differ from the right ones; texts of
four letters let two occurrences overlap and one follow the other. Checked:

* `FailsAndOutputsNearest`: breadth-first and without a tail, fails and outputs
  are the nearest ones, in every state of the construction;
* `FailsShorten`: every chain of fails or outputs ends, with every option;
* `OnlyOccurrencesInArray`: without a tail a search reports only what is in the
  text, in the exact search only the text itself, in either order;
* `NeedleFindsItself`: with every option, what `example/main.c` tests;
* `ReportsLongest`: what a search returns, defined over words: the first and the
  last of the places where the longest suffix that begins a needle is a needle.

The last one is what the code does, not what it should do. `AutomatonEvery.cfg` is the
violation run `search_misses`: the needles `a` and `baa`, the text `aaaba`, and
`ReturnsEveryNeedle` (each needle is returned as often as it occurs). Of the four
occurrences of `a` the trace returns two, with a character too many, for three reasons
named under the findings. One text has all of them on purpose: with any two repaired
in the model the property still fails, with all three it holds. What a search returns
of an occurrence (`ReturnedNeedle`) is `ReturnsCharactersOfCell` of `FoundNeedle`.

Fails, outputs, results and returned needles were compared
with the compiled `ac.c` for 48 random dictionaries with every option and all
texts of up to four letters.

A character is taken to be greater than the number of any tail cell
(`ac.c:90` adds the two), and texts to be valid UTF-8 without control characters.

Proved for every finite set of needles, every trie that `TrieShape` allows them,
every text and all options: all five, and the types. The arguments:

* Fails are shorter than their states, whatever the order of the visits (`Safe`).
  Hence the recursive function behind `Step` exists, by induction on the length of
  the state, and ends in a state; without a tail, in a suffix of what was read.
  This gives the types, `FailsShorten` and `OnlyOccurrencesInArray`.
* With a queue the list holds the states in the order of their lengths, the last
  at most one longer than the first, and no state is left out: one whose parent is
  known and waits no more is known itself. So when the fail of a child is
  computed, all fails that `automaton_step` follows are final, and are the longest
  (`NearestOK`). None of this is implied by the fails alone: it is what the queue
  adds to `Safe`, and what `list_pop` breaks.
* In such an automaton a search is always in the longest state that ends what it
  has read (`ReadingOK`), which is `ReportsLongest` at the end of the text.
* A needle is a path of states that no leaf cuts short, so a search of it follows
  no fail (`OnItsWay`): this needs no order and holds with a tail too.

Assumed of the constants: a dictionary is a finite, nonempty set of nonempty
sequences of code points above `END_OF_TEXT`, and texts are sequences of such code
points, as `createTrieNeedle` yields them; a needle is an array of numbers.

### `Utf8`, `Needle`, `FoundNeedle`, `MCNeedle`, `StreamProofs`

`Utf8` has the conversions of single characters as operators on numbers and bytes;
`Needle` the two loops of `createTrieNeedle` and the reading loop of a search, a
step per character. The C string lies in memory that goes on behind its NUL with
anything (`behind`): a loop that jumps over the NUL reads it.

`FoundNeedle` is the string that mode *NEEDLE* returns. `automaton_returnNeedle` climbs
from a cell to the root and adds up the lengths of the characters on the way
(`MeasureTrie`), adds those of the tail (`MeasureTail`), allocates, fills in the tail
forwards from where the trie's part ends (`FillTail`), and climbs once more to fill in
the trie's part backwards (`FillTrie`); a step is a round of a loop. The cell is the
one the searches pass: the leaf of a needle that ends in the tail, the cell of
`END_OF_TEXT` of any other (`endState`, `ac.c:372` and `410`). `Put` writes where it is
told to, inside the allocation or not.

`MCNeedle` puts the two in a row: a string becomes a needle, is searched in itself and
is returned from any cell that `TrieShape` allows its needle.

`Needle.cfg`: all strings of up to two characters at the borders of each length, those
of three of the last characters of each length, all byte strings of up to three
bytes around every border of the masks, and three memories behind them. Four bytes
would only add characters cut after the third byte; three characters leave two for
either half of the string returned. Checked:

* `DecodesUtf8`: a string in UTF-8 becomes the needle of its characters, and neither
  loop nor a search reads behind its NUL;
* `MadeOfWholeCharacters`: a needle that is made ends where its string does; the first
  loop may run past the NUL, then the second refuses the string;
* `SearchReadsNeedle`: a search of a string that became a needle ends and reads the
  needle's characters; of other strings it may not end (`ac.c:393`);
* `StaysInAllocation`: no byte of the string returned is written outside of what was
  measured;
* `ReturnsCharactersOfCell`: that string is the UTF-8 of the characters on the way to the
  cell and of its tail, in order: the needle, and behind one that ends in the array
  `END_OF_TEXT`. This is what the code does; `search_misses` has what it should do.

Proved: encoding and decoding agree with RFC 3629 for every character up to
U+10FFFF (the run checks ten), and for every string and whatever lies behind it
`MadeOfWholeCharacters` and `DecodesUtf8`. For the first the two loops have to be
related: `LoopsAgree` names the places where the first loop found characters, and
the second goes the same way. For the other the invariant (`Decoding`) says that a
loop that has read k characters is where the first k of them end (`At`); what it
finds there are the bytes of the next one (`Begins`), because the UTF-8 of a
string is that of its parts. `FlattenSeq`, which joins them, is a recursive
function inside a LET: `JoinsExists` and the lemmas behind it (`FlattenAppend`,
`FlattenConcat`, `FlattenSplit`) make the induction by hand.

Of `FoundNeedle` are proved, for all needles, cells and characters up to U+10FFFF,
the types and both invariants. All four loops are about one sequence, the characters
of the way and then those of the suffix, and every variable is a place in it: the
climb has measured what lies between `At(depth)` and the end of the way, the loop
over the tail what lies between that end and its index, and the bytes filled in are
those from `start` up to where the first fill has got, then all behind `start`
(`FoundInv`). `PutFills` says that a character written in its place extends that
range by its bytes, on either side.

### `File`, `MCFile`, `StreamProofs`

`file_store` and `file_load` number by number: one process writes through a
buffered stream that may be flushed at any place and may die at any moment;
another loads meanwhile. `Contents` is the layout that `file_store*` write, the
`Take` steps are the loops that read it. `File.cfg`: two stores of any of five
dictionaries (with tail and user data, with one, with neither, with empty
entries). `LoadsLatestOrRefuses`: what is loaded is what was stored last, whole,
and a load is refused only if the file is torn. A store that begins during a
load is excepted (`overtaken`): nothing locks the file, and such a load can mix
two dictionaries.

Proved for all dictionaries and any number of stores: `FileTypeOK` and
`LoadsLatestOrRefuses`. The file is a beginning of `Contents(latest)` and what is
unwritten the rest of it, unless the writer has died (`Written`). A load that no
store has overtaken has read some beginning of `Contents(latest)`, and `Position`
says for each of the nine places in `file_load` what it has built of it and what
is left to read: the cells from here on, or the rest of this entry and the entries
behind it. Each `Take` step moves from one place to the next (`AtNextTail`,
`AtNextData` and the others), also over empty entries and parts that the header
does not announce; at the end nothing is left and everything is built. A number
that is not there although the file is whole would contradict that something is
left, so only a torn file is refused. Assumed of the constants: a dictionary is as
`buildAutomaton` yields it, with numbers for cells, characters and bytes, at
least one cell, and user data for every cell or none.

## Findings

What the documents of the repository promise and the code does not do; each in a run
of one property that TLC finds violated.

| run | what the code does |
|---|---|
| `search_misses` | of three occurrences two are returned, for `lastOccurrence` never moves (`ac.c:416`) |
| `search_misses` | an occurrence reached through an output is not reported, for the loop over the outputs tests `state` in place of `nextState` (`ac.c:404`) |
| `search_misses` | a needle that ends in the array is returned with U+0003 behind it, for the cell of `END_OF_TEXT` is measured and filled in too (`ac.c:231`) |
| `close_kills` | `connection_event` frees the event base whose loop is calling it (`socket.c:141`) and which that loop uses after it: the end of one connection may end the process |

## Known differences

Met while modelling, each with the place in the code. The models keep to what the
code does, or to inputs without the case where this is said.

* `isTail` compares only lengths: needle `aa`, exact search of `ab` with a tail,
  is found (`ac.c:311`; kept, so `OnlyOccurrencesInArray` is about automata
  without a tail).
* Depth-first construction follows fails that are not set yet (`ac.c:191`; kept,
  so `FailsAndOutputsNearest` is about breadth-first).
* With a tail and without user data a null pointer is written through
  (`dat.c:427`; kept as `"crashed"`, `MCTrie` builds with user data).
* Characters 1 to 3 in needles: with 1 and 2 a needle gets lost (`dat.c:474`; after
  `"\1\1"` and `"\1\1\1"` the compiled code holds the second only), with 3 its prefix
  becomes a word (`definitions.h:10`; excluded).
* A needle added twice keeps its old data or gets the new ones, depending on where it
  ends (`dat.c:546`; `Dictionary` permits both).
* `list_delete` on a full list loses a cell (`list.c:350`; excluded by
  `DeleteWhenFull`); `list_mergeSort` clears what it sorts, and nothing calls it
  (`list.c:441`).
* `userDataList` has no size of its own and relies on the trie's (`dat.c:146`);
  `calculateAllocation` caps at `INT32_MAX`, where the pool stops having a free
  last cell (`memory.c:61`; the theorems are about allocations below the cap).
* The search does not notice invalid UTF-8 and stays at one byte (`ac.c:393`;
  kept in `Needle`). `createTrieNeedle` accepts overlong forms, surrogates and
  characters above U+10FFFF.
* The mode of a request is read into one byte of an uninitialised enum
  (`socket_ac.c:56`; the model takes the mode that was sent).
* `createTimeVal` returns the address of a compound literal that ends with the
  function (`cmd/main.c:45`; the model takes the timeouts that were meant).
* `createTailFromBuilder` hands the characters of the builder's cells to the
  tail (`tail.c:39`): only one of the two may free them.

## What is proved and what is only checked

Proved by TLAPS, from the named assumptions on the constants alone: type
correctness and the safety properties of `WorkerPool`, `TriePool`,
`TailBuilder` and `Server`, type correctness, `DoubleArray` and `TailLinks` of
`Trie` and, for tries with user data, its refinement of `Dictionary`, the
refinement of `JobDispatch`, the conversions of `Utf8`, all invariants of `Needle`
and `FoundNeedle`, all safety properties of `File`, all of `Protocol` with the
refinement of `Dialogue`, all invariants of `Automaton`, and all invariants of
`List` with the refinement of `Collection`, unless `list_delete` is called on a full
list. The type invariants of `Automaton`, `Protocol` and `FoundNeedle` are proved and
checked by no run of their own. Each proof goes the same way: an inductive invariant,
a lemma per action that it is kept, and the properties as consequences.
`PROJECT.json` lists the theorems with the properties they establish.

Only model-checked: all liveness (`EveryJobServed`, `StopCompletes`,
`WalksEnd`, `EveryConnectionServed`, `StopReturns`, `EveryRequestAnswered`,
`SearchReadsNeedle`), which the prover does not reach, and `ShapeOfWords` of
`Trie`. Where a recursive function had to be
reasoned about (`Step` of `Automaton`, `Chain` and `Search` of `List`, `path` of
`Trie`, `FlattenSeq` in `Needle`, `FoundNeedle`, `File` and `Protocol`), the induction
is made by hand: the function is shown to exist up to every length or number of
steps.

## Not modelled

* Printing, benchmark, example and command line: no state of their own.
* Failure of `malloc`, `fopen` and `pthread` calls, which exits the process, and
  the `*_free` of finished structures.
* libevent itself: its part is in the guards of the callbacks.
* The immutable `Tail` that `createTailFromBuilder` copies out; `list_mergeSort`
  and `list_free`; write errors and deadlines of the Go client.

## Plan

`ShapeOfWords` of `Trie` is the one safety property without a theorem. It needs
the reverse of `GrownPath`: that every cell in use lies on the way to some word.
