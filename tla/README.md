# Biblio in TLA+

Biblio is a small distributed library: any number of servers (`bibserver.c`),
each holding the books of one record file, and a client (`bibclient.c`) that
sends the same request, a query or a loan, to every server listed in
`conf/addr.conf`. This directory models the two programs and the libraries they
are built on (`lib/`), checks the models with TLC and proves the main invariants
with TLAPS. `PROJECT.json` is the index: components, runs, mutants, the source
lines behind each definition, findings, hazards and theorems.

## 1. Inventory

| Part | State | Operations | Interacts with |
|---|---|---|---|
| main thread of the server (`bibserver.c:173-313`) | `allFDs`, `maxFD`, `readFDs`, `lastFd`, `running` | accept, register, push, stop, join, save | workers (set, maximum and queue), signal thread (flag), kernel |
| worker threads (`bibserver.c:323-523`) | local variables of one request | pop, read, search, lend, reply, log, clear a closed connection | each other (books, mutexes, `localtime`), main, client |
| signal thread (`bibserver.c:530-549`) | none | clears `running` | main, workers |
| queue (`lib/queue.c`) | nodes, head, tail, mutex, condition | `push`, `pop`, `non_blocking_pop`, `destroy` | main pushes, workers pop |
| list (`lib/linkedList.c`) | nodes, head, size, lock | `add_node`, `remove_node`, `get_nth_element`, `free_list` | server: the books; client: its arguments |
| books (`lib/book.c`) | fields of a book | `tokenize`, `rec_to_string`, `is_present`, `data_tokenizer`, `book_contains_all`, `date_check`, `loan_check` | server |
| client (`bibclient.c`) | request, addresses, position in the reply | parse arguments, read addresses, connect, write, read replies | servers |
| record file (argument of the server, `bibData_to_test/`) | one line per book | load at start, save after the join | main, the next run |
| address file (`conf/addr.conf`) | one line per server started | append (server), count and read (client) | servers, clients |
| log and `bibaccess.sh` | record lines, `QUERY n` and `LOAN n` lines | append (workers), sum (script) | workers |

How they interact. Main, the workers and the signal thread are threads of one
process. Main watches the descriptors in `allFDs` with `select`, accepts new
connections into it, and pushes ready ones to the queue; a worker pops one,
reads the request from it, searches the list of books, writes records or
negative answers and `MSG_END`, and logs what it sent. A connection that reached
its end is removed from the set by the worker that saw it. Client and server
share nothing but the connection and the address file.

What is hard, and what correctness means for each part:

* **Connection core.** Set, maximum, queue and flag are shared and are decided
  on with values read a step earlier. Correct: `select` never misses a watched
  client, no connection is in two hands, a worker never blocks in `read`, and
  shutdown ends every thread.
* **Loan desk.** The workers share the books, one `struct tm` of the C library
  and the log. Correct: nobody is lent a book somebody has, a loan has its term,
  a reply has the shape its reader expects, the log adds up.
* **Queue and list.** Nodes are written and freed outside the lock, sizes are
  read outside it. Correct: they behave as a sequence, no thread reaches memory
  that is not its own, no wake-up is lost.
* **Client session.** A reply is a stream without a header. Correct: both sides
  agree on where a field and a reply end, the client ends, and it does no harm
  to a server by leaving early.
* **Books, requests, arguments.** A book is read, searched, lent, written and read
  again as text, and the tokenizer of the C library keeps one position for all the
  threads of the process. Correct: a request means to the server what was typed at
  the client, and what one run saves the next one reads.
* **Address file.** Servers append to it while clients count its lines and read
  them. Correct: a client asks every server that listens.

## 2. Modules

| Module | Models | Kind |
|---|---|---|
| `CallOrder` | whose turn it is: what the hand-over promises the clients | abstract specification |
| `BibServer` | main loop, queue hand-over, worker loop, signal thread, shutdown | component, implements `CallOrder` |
| `BibServerProofs` | inductive invariant of `BibServer`, what follows from it, refinement | proofs |
| `LoanLedger` | what the library promises about loans | abstract specification |
| `LoanDesk` | workers serving requests over the shared books | component, implements `LoanLedger` |
| `LoanDeskProofs` | invariants of `LoanDesk`, refinement, loan term, what is passed over, log | proofs |
| `InductionProofs` | numbers up to a bound, folds, and the sum of a function | proofs |
| `NodeChain` | a chain of nodes in memory, read as a sequence | operators |
| `NodeChainProofs` | what a chain is, and what linking and unlinking make of it | proofs |
| `FifoQueue` | a queue whose operations are single steps | abstract specification |
| `SharedQueue` | `queue.c`, statement by statement over heap nodes | component, implements `FifoQueue` |
| `SharedQueueProofs` | invariants of `SharedQueue`, wake-ups, refinement | proofs |
| `IndexedList` | a list whose operations are single steps | abstract specification |
| `LinkedList` | `linkedList.c`, statement by statement over heap nodes | component, implements `IndexedList` |
| `LinkedListProofs` | invariants of `LinkedList`, the unlocked index, refinement | proofs |
| `BookText` | the text of books, command lines and messages | operators |
| `RequestText` | workers in `data_tokenizer` with the one position of `strtok` | component |
| `RecordFile` | a server from its record file, through its requests, back to a file | composition over `RequestText` |
| `RecordFileProofs` | `strtok` and the conversions for all texts, invariants of `RecordFile`, what a save keeps | proofs |
| `BibSession` | one client against the servers of the address file | component |
| `BibSessionProofs` | inductive invariant of `BibSession` and what follows from it | proofs |
| `MCBibServer`, `MCLinkedList` | symmetry sets for TLC, used where no liveness is checked | model checking |
| `MCRequestText`, `MCRecordFile` | the words, command lines and record files of the instances | model checking |

`SharedQueue` and `LinkedList` extend `NodeChain`; `RecordFile` extends
`RequestText`, which extends `BookText`: the steps of the parse are steps of the
server that loads and saves. Elsewhere the modules meet at stated seams instead of
being multiplied into one state space:

* `BibServer` uses the queue as the sequence that `SharedQueue` is proved to
  implement; its steps "serve" and "reject" are what `LoanDesk` models.
* `LoanDesk` and `BibServer` read the list by index as `IndexedList` allows.
* `LoanDesk` takes the books that match a request as a set; `RecordFile` says from
  which text that set comes, and serves a request in one step because `LoanDesk`
  has the interleaving of the loans.
* `BibSession` gives each server the reply shape that `LoanDeskProofs` establishes
  (`ReplyNeverSilent`: something comes before `MSG_END`; `NoRecordAfterNegative`: no
  record after a negative answer), and assumes that its connection is served,
  which is a question about `BibServer`.

## 3. How state and actions correspond to the code

**BibServer.** One action is the code a thread runs between two accesses to
something another thread also uses. `MainSnapshot` .. `MainSave` follow `main`
from the head of the `while (running)` loop to the save; `readFDs` is the copy
handed to `select` and, after it, the descriptors the `for` loop has still to
visit, so `ScanAt` is that loop's order. `MainRegister` and `MainRaiseMax` are the
two assignments under `m`. `WorkerPop` and `WorkerPopNothing` are the two results
of `non_blocking_pop`, and `WorkerCheck` the later look at `running`: that order
is the code's. `WorkerRead` is the three reads of one request, which the client
sends in one write. The length of that write is that of the fields and one more, so a
request with only `-p` is its type alone (`bare`), and the worker blocks in the read
of the size until the client is gone (`WorkerReadSize`). `WorkerClear`, `AggiornaMax`
and `AggiornaDone` are the removal of a closed connection. `peer`, `backlog`, `link`
and `request` are the kernel's side (`accept` returns the lowest free descriptor;
descriptors are never closed).
`WorkerSigpipe` is the write to a client that left; nothing in the server blocks or
ignores SIGPIPE. A client may connect, send and close at any step.

**LoanDesk.** `Take` is a popped and read request: type, validity of its year, and
the set of books that contain all of its fields. That set is fixed at the start
because a request cannot name the loan field, the only one that changes. A date
is a day. `Stamp` is `time` and `localtime` *before* the mutex; `tm` is the static
struct that `localtime` returns in every thread. `CheckGranted`, `Extend` and
`WriteLoan` are the critical section, `Deny` the other branch with its overwriting
of `type`. The final negative answer (`ScanDone`) looks at `isPresent` as the last
comparison left it. `NumBooks` is positive because `loan_check` reads the first
element of the list at start, so that a server without books does not get here.

**SharedQueue, LinkedList.** `malloc` takes a node whose fields hold `Garbage`, and
`free` makes garbage of them again, so a dangling pointer shows as a wrong value
or a type error. Statements under the lock are steps of their own wherever a
thread without it could look. `Chain` is what a walk from the head finds
(`ChainOf`, a recursive function cut off at the number of nodes, so that a cycle is
no endless walk but a chain that is too long). When the walk of `get_nth_element`
runs off the chain the process is dead (`GetPastEnd`): the size was tested before
the lock was taken (`linkedList.c:97`), and a node was removed in between.
`CrashNeedsRemoval` says that nothing else leads there, so the two programs, which
never remove, are safe.

**BookText.** A text is a sequence of symbols: a label, a word, or a character the
programs look for (`:`, `;`, `=`, `--`, space, newline). Words stand for the
characters in between; that one word may begin inside another is not modelled.
`Year` says which words `atoi` reads as which number, `Upper` which begin in lower
case. `Strtok` skips delimiters and cuts the text with a NUL as the library does;
`Tokenize`, `RecToString`, `IsPresent`, `ReadRecords` and `LoanCheck` are the server's
side of the record file, `Accepted`, `Option` and `Message` the client's command
line, `Store` and `BookContainsAll` the server's side of a message.

**RequestText.** The position `strtok` keeps is one variable. `FirstLabel` is the call
with a text, which only writes it; a call with NULL is two steps, `Call`, where the
position is read, and `ReturnValue` or `ReturnLabel`, where the token is cut in
whatever buffer that position is in and the position is written. A buffer is freed
after its request (`Finish`), and what `strtok` finds in a freed one is unknown: the
end of a text or a token before it. `disturbed` is a history variable: another
worker called `strtok` between this worker's read and its last token. Tokens are
taken by value, as they are when `strtok` returns. A worker has one request; the next
request of the same thread is another member of `Workers`.

**RecordFile.** `Load` is the loop over the lines with `is_present`, then `loan_check`;
a line that `tokenize` does not accept or a file without a record ends the process
(`dead`). `ServeRequest` is the search and the loans of one request in one step.
`date_check` does not set its `timestamp` when the loan field is no date
(`lib/book.c:461`): a text that is neither `AVAILABLE` nor the word for a date still to
come is lent over or not, either way (`LendableBooks`).
`Join` forgets the workers' local variables, `Save` writes `rec_to_string` of every
book under the name that follows the second `/` of the path the server was given
(`Depths` is how many parts that path has: with fewer the name is a null pointer,
with more a directory is missing), and `Restart` is a run on the file just written.

**BibSession.** `lines` is the address file. A server's line is in it after `Publish`,
its port accepts after `Listen`; `Count` and `ReadLines` are the two passes of the
client, which takes no lock, so that lines may be appended between and during them.
A line more than was counted is written past the client's array, with the two
outcomes that has (`ReadLines`). The append is one step because it is one write: the
file is unlocked before `fclose` flushes the line (`bibserver.c:169`), so the lock
protects nothing, and the line is whole for another reason. `stream` is what a
server wrote and the client has not read: the type, the length and the data of each
message, or `MSG_END` alone. The three reads of the client's loop are three actions.
A server may stop at any step, before it accepted (the connection is reset), with
the request unread (reset), or after (end of file). `read` returning -1 is taken as a
message with whatever `type_received` holds, which is any type: the variable is not
initialised. The client may be killed by SIGPIPE and so may a server.
A loan without a field is `bare`, as in `BibServer`: the write is one byte
(`bibclient.c:82`), the worker has a type and no length (`bibserver.c:362`), and client
and worker wait for each other (`WaitsForLength`) unless the server stops. If it does,
the client reads the end of file or a reset, as the byte had been read or not.

## 4. Runs

| Run | Instance | Shows |
|---|---|---|
| `BibServer_safety` | 3 clients, 2 workers, room for 2 connections | type, `SelectCoversAll`, `ExclusiveDescriptors`, `ReadsNeverBlock`, `NewConnectionsAreFresh`, implements `CallOrder` |
| `BibServer_liveness` | 2 clients, 2 workers, room for 2 connections | a queued descriptor is popped while the server runs; after the signal the process ends |
| `BibServer_starved` | 2 clients, 1 worker | **violated**: every request is served |
| `BibServer_abandoned` | 1 client, 1 worker | **violated**: a worker leaves only with an empty queue |
| `LoanDesk_desk` | 2 workers, 2 books, 2 requests, days 0..3 | replies are never silent and ordered, the log balances, `LoanLedger` is implemented, a lendable match is left only after a denial, a request that was taken is finished |
| `LoanDesk_term_race` | 2 workers | **violated**: the loan term |
| `SharedQueue_queue` | 2 pushers, 2 poppers, 3 nodes | private nodes, tail, wake-ups; implements `FifoQueue`; values reach waiters |
| `LinkedList_list` | 2 threads, one removes too | size is length, only a removal makes the walk run off the end, implements `IndexedList` |
| `RecordFile_texts` | 6 record files, 2 requests of 6 command lines, 2 runs of the server | an undisturbed parse is the book that was typed but for its year, equal books differ in the file, what a saved record keeps, only matching books are lent, every parse ends |
| `RequestText_shared` | 2 requests of 8 command lines | **violated**: a worker stores its own client's request |
| `BibSession_session` | 2 servers that may start meanwhile, replies of up to 2 records | who listened is asked, framing, no record missed, who can be killed, a client with a valid request ends unless the request has no field |
| `BibSession_rejected` | 1 server | **violated**: a client whose request arrives whole ends |

A violated run checks one claim of the repository's documents against what the
code does (section 7). Every property of a passing run has a mutant in
`PROJECT.json`: a plausible slip in one mapped definition that breaks it.

### Bounds, and why they are enough

* `FDLimit` (`BibServer`): descriptors of the process are below it. The safety run has
  one client more than descriptors, so that `accept` fails as well; two connections
  are one at and one below `lastFd`, and two workers can hold one each. The
  invariants of this run are proved for every limit and number of clients. The
  liveness run gives each client a connection, as the failing `accept` would end the
  process anyway. Each client makes one connection: a program that connects again is
  another client.
* `MaxNow`, `MaxRequests` (`LoanDesk`): days and requests. `MaxNow` exceeds
  `LoanDays`, so that a loan runs out and is made again; two requests are one per
  worker at once, or one worker that goes round its loop. Two books separate "the
  last book" from "another book". The invariants and the refinement are proved for
  every number of each.
* `Nodes`, `MaxPushes`, `MaxAdds`: three nodes are an empty, a one-element and a
  longer chain. In `LinkedList` an addition may take a node that a removal freed; in
  `SharedQueue` a node popped is given again to a later push. What the queue run
  and the list run check of safety is proved without these bounds.
* `Workers`, `Commands`, `Files`, `Depths`, `MaxRuns` (`RequestText`, `RecordFile`): two
  requests are enough for one to get into the other's parse; the command lines have
  one and two fields, a colon or a semicolon inside a value, a year in and out of
  range, a loan and a query, an option without a value and one that comes twice. The
  files have a field in two parts, spaces around a value, a blank line, empty fields
  in the middle, equal records and records that become equal, a loan field that is no
  date, and the ways a file is not accepted. Paths have two, three or four parts. Two runs are a run that saves
  and one that loads what was saved; the last one only loads. What the run
  `RecordFile_texts` checks of safety is proved for all of them.
* `NumServers`, `MaxRecords` (`BibSession`): two servers are a last one and one
  before it, any of them in the file before the client counts, appended between its
  two passes, or later; two records a first and a following message. Proved for
  every number of each.

Deadlock is checked in every run. A system at its end has an explicit idle step
(`Gone`, `Idle`, `Rest`) whose guard names that end, so any other halt is an error.

## 5. Fairness

Safety runs assume none. Liveness runs assume weak fairness of each thread of
the process (`MainNext`, each `WorkerNext`, each `Serve`, each queue call, each
worker's `Tokenizer`, the client and each server's worker): the operating system
runs a runnable thread again and again. Weak fairness is enough in spite of the
mutexes: a thread waits for one only while another, fair, thread is inside a
critical section, and the number of times it can be overtaken is bounded by the
requests, which are finite (each descriptor is pushed once). No fairness is given to
clients of `BibServer`, to the signal, to the clock, to callers of the queue, to the
start, the stop or the restart of a server: none of them has to act. In
`BibSession` a reply is finite by `MaxRecords`, as the list of books is.

The liveness properties of `BibServer` hold under a condition, `NoWorkerIsKept`: it
is not so that from some point on there is always a worker in the read of a size
that never comes. A client that sent only `-p` and stays is the one way to break it,
and then neither the queue nor the shutdown moves on (section 7, remarks).
`ValidSessionEnds` has the same case in its conclusion: a valid session ends, or from
some point on its client waits for the worker that waits for the length.

## 6. What is proved

For every value of the constants that meets the named assumptions
(`ServerAssumption`, `DeskAssumption`, `QueueAssumption`, `ListAssumption`,
`SessionAssumption`; for the texts `WordsAssumption`: a capitalised letter is a letter
again, `RequestAssumption`: no argument has a NUL in it, and `FileAssumption`: the word
for a due date is none of the separators), TLAPS checks the following.

**BibServerProofs.** `IInv` is inductive: `MutexInv` ties the owner of `m` to the
program counters; `WatchInv` allows `maxFD` to be below the descriptor being
registered and, while a worker lowers it, above the set; `ConnectionInv` says that
the used descriptors are contiguous; `QueueInv` that whatever was pushed is at most
`lastFd`; `ReadyInv` that readiness, once seen by `select`, lasts until the one
worker that gets the descriptor reads; `FreshInv` that free descriptors are above
`lastFd`. The argument for `ExclusiveDescriptors` is the `lastFd` filter, which
pushes a descriptor at most once; the argument that the filter never hurts a *new*
connection (`NewConnectionsAreFresh`) is that no descriptor is closed. Neither
holds without the other parts, which is why `IInv` is larger than what is claimed.
Theorems: `Inductive`, `TypeCorrect`, `SelectCoversAllHolds`,
`ExclusiveDescriptorsHolds`, `ReadsNeverBlockHolds`, `NewConnectionsAreFreshHolds`, and
`TurnsInOrderHolds`, the refinement of `CallOrder`: `MainAccept` is the arrival,
`MainPush` the call, `WorkerPop` the taking, and `WorkerServe`, `WorkerReject` and
`AggiornaDone` its end; every other step is a stutter. The line of those who may
still be called is read off the descriptors above `lastFd`, whose number is known
because the used descriptors are an interval (`TopInv`, an invariant that only
`MainAccept` touches). So the filter gives each client at most one turn, and no
client a second chance that was passed over.

**LoanDeskProofs.** `IInv` adds to the type the branch a worker is in (`LoopInv`),
the critical section (`CriticalInv`: between check and write the book stays
lendable, because only the owner of the mutex writes and days only pass) and the
reply so far (`ReplyInv`). Theorems: `Inductive`, `TypeCorrect`,
`ReplyNeverSilentHolds`, `NoRecordAfterNegativeHolds`, `LedgerImplemented` (initial
states map to initial states, each step to a step of `LoanLedger` or a stutter),
`LentUnlessDeniedHolds` (by `DenialInv`: the type of a request is overwritten by a
denial only), `LogBalancesHolds` (by `TallyInv`: a request counts loans or records,
never both, so that the one line it is summed up in has all it logged; and by the
step a sum makes when one of its values changes) and `SingleWorkerTerm` (with at most
one worker the shared `struct tm` is harmless).

**InductionProofs.** The library's induction theorems take the induction hypothesis as an
operator, which no prover here can instantiate, so the hypothesis is made a set of
numbers and the step is that a non-empty set of numbers has a least element
(`LeastNat`, `UpTo`). With it: the recursive function behind the community modules'
folds exists for every finite set and every way to pick the next element
(`FoldExists`), and a sum changes by what one value changes by (`SumChange`).

**NodeChainProofs.** What the head pointer and the `next` fields mean. `ChainIs`: if a
sequence without repetition runs along the links, `ChainOf` is that sequence. Its
proof is an induction on the length of what is left of the chain (`UpTo`). The other
lemmas say what one assignment makes of a chain: a node linked behind the last
(`ChainAppend`) or before the first (`ChainPrepend`), the first unlinked
(`ChainTail`) or one in the middle (`ChainRemove`, with `Without` for the sequence
that is left), a write elsewhere (`ChainFrame`).

**SharedQueueProofs.** `IInv` ties the mutex (`MutexInv`) and the calls (`CallInv`) to
the program counters, gives and frees nodes as a whole (`HeapInv`), makes the queue a
chain of nodes that were given (`ChainInv`), says that a thread before its link or
after its unlink holds a node that is on no chain and with no other thread
(`HoldInv`), and where the tail is between the two assignments of a push or a pop
(`TailInv`). None of the claims is inductive alone: that the free after the mutex is
released touches nobody's node needs the chain, the chain needs the tail, the tail
needs the mutex. Theorems: `Inductive`, `TypeCorrect`, `PrivateNodesHolds`,
`TailIsLastHolds`; `NoLostWakeupHolds` from `WakeInv`, which counts the value whose
signal or taking is under way in the mutex; and `FifoKeptHolds`, the refinement of
`FifoQueue`: `PushLink` is the push, `TakeHead` the pop, `PopNothing` and `Destroy`
their namesakes, every other step a stutter.

**LinkedListProofs.** `IInv` ties the lock to the program counters (`LockInv`; a process
that died keeps it), gives and frees nodes as a whole (`HeapInv`), makes the list a
chain of nodes that were given (`ChainInv`), says that a node not linked yet belongs
to one thread (`HoldInv`), and that the size is one off, and in which direction,
only between the two assignments of an addition or a removal (`SizeInv`). The unlocked test of
`get_nth_element` needs two more: `PendingInv` counts the additions the size does not
have yet, and `IndexInv` says that an index once tested stays inside as long as as many
nodes are given as were added, which is until the first removal. Theorems:
`Inductive`, `TypeCorrect`, `SizeIsLengthHolds`, `CrashNeedsRemovalHolds`; and
`ListKeptHolds`, the refinement of `IndexedList`: `AddSize` is the addition,
`RemoveFound` the removal, `GetCall` out of range and `GetWalk` the look-up, `FreeList`
its namesake, every other step a stutter.

**BibSessionProofs.** `IInv` says what a stream may hold for the place its server is
at and for what the client has read (`StreamInv`, `ServerInv`, `FrameInv`) and that the
client's index stays within its count (`CountInv`). The bytes have no marks, so
framing holds only by the history of both ends, and that a client leaves nothing but
answers it does not need rests on a negative answer being followed by no record.
Theorems: `Inductive`, `TypeCorrect`, `InFrameHolds`, `NoRecordMissedHolds`,
`KilledByNegativeHolds`, `ServersUpAreAskedHolds`.

**RecordFileProofs.** For every set of words, command lines, record files and
requests. The texts come first, then the invariants that rest on them.

*Texts.* `StrtokCases` and `StrtokType` say what a call of `strtok` returns and where
it leaves its position; `NextWord` and `LastWord` what it finds when a known word and a
delimiter stand at that position. `Pairs` is a recursive function of the position: that
it exists, and equals its equation at every position, is an induction on what is left
of the text (`PairsExist`, `PairsIs`). `Tokenize`, `ReadRecords`, `RecToString` and
`Message` are folds; `LeftFold` and `RightFold` turn a fold into the sequence of its
intermediate results, and each operator has a lemma that says so (`TokenizedExist`,
`ReadsExist`, `PrintsExist`, `MessageIs`), from which its type and its meaning follow by
`UpTo`. `RemoveSpacesIs` says that a trimmed text stays what it is.

*Types.* `TextInv` says of the workers that every position stays inside the text it is
about and that a text keeps its length while it is cut; `FileInv` of the server that a
list that is up is not empty, that it is what `LoanCheck` and `ReadRecords` make of the
file, and that from the second run on the file is what the last run printed. Both are
inductive. `TypeCorrect` and `EqualBooksAfterCheck` follow; the latter because
`ReadRecords` returns a list without a copy (`Shelves`).

*Requests.* `ParseInv` is what makes a parse right: as long as nobody disturbed it, a
worker is `OnCourse`. At each program counter, that is: the position is at the label or
the value of some option, what is left of the buffer is the message of the options not
yet read, and `book` is what the others stored (`Stored`). A step of another worker
either leaves the position, this worker's buffer and its locals alone or marks it as
disturbed (`OthersStep`); an own step moves it from one option to the next
(`LabelRead`, `ValueRead`, `OwnStep`). When the options are used up, `book` is what the
loop makes of the book that was typed (`Parsed`: the code's loss of a valid year is in
this operator of the proof, not in `Wanted`, which says what was typed). `Parsed` and
`Wanted` agree in every field but the year (`ParsedKeeps`), hence `ParseIsRight`, and so
a book is lent only to somebody who asked for it (`LoansWereAsked`). The hypothesis is `Clean`, as in the property: the options are
written `--field=value`, and the values hold none of `--`, `=` and `;`.

*Saved files.* What stands in a printed line from its k-th field on (`LineFrom`) is
followed through the loop of `tokenize`: if that field is not empty it is read and the
next is met, if it is empty the next one is taken for its value and the one after it is
met (`FieldRead`, `NextField`). So the fields an even number of empty ones stands before
are read, once each, and only known labels are met (`FieldsLeft`). Theorems:
`SavedFileIsRead` (no run makes a file that the next one cannot load),
`SavedFieldsAreRead`, and `FullBooksAreRead` (a book without an empty field is there
again exactly as it was). These hold for any contents of the fields that a record file
or `loan_check` and a loan can give: `Books`, whose fields are trimmed and hold neither
the end of a string nor a semicolon, is part of `FileInv`, not an assumption.

**Only model-checked.** What holds under fairness, which the prover does not reach:
`QueuedIsPopped`, `ShutdownCompletes`, `RequestsFinish`, `ValuesReachWaiters`, `ParseEnds`
and `ValidSessionEnds`. Every invariant and every action property of a passing run is
stated by a theorem.

## 7. Findings

Each is shown by a run marked **violated** above, with the quoted text in
`PROJECT.json`.

1. *Starvation* (`bibserver.c:254`). A ready descriptor is pushed only if it is
   greater than the last one pushed. A client that connected earlier but sends
   after a later one is never served.
2. *Request abandoned at shutdown* (`bibserver.c:346`). The empty queue and the
   flag are read in two steps.
3. *Loan term* (`bibserver.c:402`). `localtime`'s struct is filled outside the
   mutex and shared: two loans at once give a term of twice the days.
4. *Another client's request* (`lib/book.c:246`). `strtok` continues wherever another
   worker left its position: a request gets fields of another one, or of a buffer
   that was freed, and is searched and lent by them.
5. *Error reply* (`bibserver.c:377`). It carries the type of the request and is not
   followed by `MSG_END`: the client waits for ever.

More facts that the models show and no run is spent on:

* A denial overwrites the type of the request (`bibserver.c:436`), and later matches
  are not lent. `LentUnlessDenied` states that this is the only way a lendable match
  is passed over.
* `ScanDone` sends a negative answer after the records of a query whose last
  comparison failed (`bibserver.c:474`), which is why `BibSession` lets a negative
  answer follow records.
* `is_present` looks before `loan_check` fills the empty loan fields, so two equal
  books may be in the list, where `relazione.pdf` p. 2 says none are:
  `EqualBooksAreAvailable` says which.
* A record is saved with all of its fields, and `strtok` takes `:;` and the label
  behind it as it finds them: the value of an empty field is the next field. An odd
  number of empty fields before the last one loses the loan of a saved book.
  `SavedFieldsComeBack` says which fields survive.
* A valid year is not stored (`lib/book.c:262`), so a search by year matches every
  year and a loan by year alone lends every book. The comment at `lib/book.c:231` says
  that `data_tokenizer` is to "store it in a single_book struct" and that "the date must
  be between 1500 and the actual year", which the code has as 2023. `Wanted` is what
  was typed, the year included. The code does not give the year back, and `UndisturbedParse`,
  `OwnRequest` and `OnlyAskedBooksAreLent` are therefore stated for `KeptLabels`, the
  other fields. What is left of the year is that only a typed one gets a request
  refused.
* A request with only `-p` keeps its worker, and with it the end of the process,
  until its client leaves, which it does not do by itself (`bibclient.c:186`): the
  condition of `ShutdownCompletes` and the second case of `ValidSessionEnds`. So the
  sentence of `relazione.pdf` in finding 5 does not hold of such a client either;
  `SessionEnds` is stated for a request that arrives whole, so that its run shows
  the error reply and nothing else.
* A client that reads the address file while a server appends to it writes past its
  array (`bibclient.c:125`).
* `remove_node` makes the unlocked test of `get_nth_element` unsafe, as above.

## 8. Not modelled, and what the plan has left

Every part of the two programs that keeps state is modelled. Left out for good: the
build, the clean-up script and the data files (nothing runs there that has state),
`util.c` (checks that end the process; the exits are steps of the modules whose code
calls them), the printing routines no program calls, and `bibaccess.sh`, a sequential
sum over lines whose writing `LoanDesk` models (`LogBalances`). The characters of a
message, a record or a log line are abstracted to what the properties tell apart, so
three hazards have no property because nothing in the model could show them: the torn read of a due date that `strftime` is
writing (`bibserver.c:404`), fields longer than their buffers (`lib/book.c:103`), and
two address lines torn into one another (`bibserver.c:169`).

Four more have none because the code does not meet the property one would state, or
promises nothing: the lost year (`lib/book.c:262`), the process that ends when no
descriptor is left (`bibserver.c:237`), by SIGPIPE (`bibserver.c:504`) or with its books
unsaved (`bibserver.c:276`). The steps are in the models; no property is about them.

What the plan has left: the properties under fairness are out of the prover's reach
(section 6, "Only model-checked"), and larger instances of their runs would be next,
`BibSession_session` with a third server and `RecordFile_texts` with a third request. On
the side of the proofs: what the parse of a *disturbed* worker can still be relied on
for, and the lost fields of a record in a closed form.
