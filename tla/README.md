# A verification project for Operating-Systems-CS-111

The repository holds small systems programs, one directory per lab. This
directory holds TLA+ models of them, the TLC configurations that check the
models on small instances, and proofs checked by TLAPS. Paths below are relative to `src/`.

Run a check with `tlc -config Add.cfg AddCounter.tla` (the table of runs names
the module of each cfg), a proof with `tlapm AddCounterProofs.tla`.

## 1. Inventory

| part | state | operations | what is hard |
|---|---|---|---|
| `lab2a/lab2_add.c` | one shared counter, a mutex, a spin lock | threads add +1 and -1 through one of four variants of `add`; main creates and joins them | lost updates, stale loads, waiting for a lock |
| `lab2a/SortedList.c` (the copy in `lab2b/` is identical) | doubly linked circular lists in shared memory | insert, delete, lookup, length, none of which takes a lock | an operation is several loads and stores; anything may happen between two |
| `lab2b/lab2_list.c` | several lists, a lock for each, a hash from keys to lists | threads insert, sum lengths, look up and delete; main checks that all is empty | exclusion per list, equal keys of different threads, sums taken at different moments |
| `lab2a/lab2_list.c` | one list, one lock | the same with the lock around the whole body of a thread | one acquisition and one release on every path |
| `lab1a/lab1a.c` | terminal modes, two pipes, a shell child, one read buffer per source | poll loop between terminal and shell, `^C`, `^D`, SIGPIPE, exit handler | order of events, closed descriptors, waiting for the child |
| `lab1b/lab1b-client.c`, `lab1b-server.c` | terminal, TCP connection, two pipes, shell child | two poll loops; the same control characters; `cleanMe` | the same, with either side disappearing |
| `lab0/lab0.c` | descriptors 0 and 1, an option loop | redirection, byte copy, SIGSEGV handler | descriptors that are closed at the start, calls that fail, order of the options |
| `lab3a/lab3a.c` | a disk image, read only | prints superblock, bitmaps, i-nodes, directories, indirect blocks | arithmetic of offsets, recursion over pointer blocks |
| `lab3b/lab3b.py` | lists filled from lab3a's output | three audits | boundaries, order of the input, rows of unexpected form |
| `lab4b`, `lab4c` (TCP, TLS) | sampling loop, a line buffer, flags set by callbacks | periodic reports; SCALE, PERIOD, START, STOP, OFF; button, `^C` | input cut into reads and records, callbacks during a sleep, end of input, full line buffer |

The parts hardly know each other: the two list programs call the library, the
server forks the same shell as lab1a, and `lab3b` reads what `lab3a` prints.
These are composed in the models; everything else is separate.

What makes each part correct:

* **counter**: with `--sync` every call of `add` behaves as one indivisible
  addition, so the total is 0; without it, the error is bounded; every run ends.
* **lists**: no call follows a NULL pointer or is trapped in a circle, even
  when there is no lock; with locks, calls are atomic operations on a set.
* **list programs**: exclusion, none of the built-in consistency checks fails,
  every run ends.
* **lab1**: characters arrive in order and once; what the shell prints is shown
  or still in the pipe; every exit restores the terminal and waits for the
  shell; `^D` and the death of the shell end the program, unless two of the
  programs wait for each other to read.
* **sensor**: however the input is cut on its way, its lines are obeyed one by
  one, in order and as a whole; after a request to end at most the report that was due
  is made, and the program ends.
* **file system**: the summary follows every path of pointers of the image
  once, and the complaints are the defects these paths show.
* **copy**: success means that all of the input is in the output; however it stops, no
  file holds anything else than before, a message, or a beginning of the input.

## 2. Modules

    AddDefs ----- AtomicCounter (abstract)
        \------------- AddCounter ------------ AddCounterProofs
    SortedList ------------------------------- SortedListProofs
        |--- PartitionedList ----------------- PartitionedListProofs
        |        |--- MCPartitionedList
        |        \--- ListSet (abstract)
        \--- WholeList ----------------------- WholeListProofs (refers to ListSet too)
                 \--- MCWholeList
    ShellChild ------------------------------- ShellChildProofs
        |--- TerminalRelay ------------------- TerminalRelayProofs
        |        \--- MCTerminalRelay
        \--- RemoteShell --------------------- RemoteShellProofs
                 \--- MCRemoteShell
    SensorCommands --- Thermometer (abstract)
        \------------- Sensor --- MCSensor
                          \------------------- SensorProofs
    Ext2 --- Summary --- Audit --- FileSystem --- MCFileSystem
    Copy --- MCCopy

**AddCounter** (`lab2a/lab2_add.c`). A step is one access to shared memory or
one synchronisation call. `Load` and `Store` are the two halves of `add`
(and `Load` the first read of `compNswapAdd`), `CompareAndSwap` the atomic builtin with
the branch of its loop, `MutexLock`, `SpinLock` and `Unlock` the calls around
`add`. `Create`, `CreateFails`, `Join` and `PrintOut` are main. `done[t]` is the
position of thread t in the two loops of `tFunc`. `sched_yield` changes nothing:
without it too the scheduler may switch between any two steps.

**AtomicCounter** is what the protected variants promise.

**SortedList** (`SortedList.c`). A node of the heap is an element or a header;
`next` and `prev` are functions on nodes. `call[c]` is the call caller c has in
progress: its arguments, its local variables and its next access. Each action
is one access: `First`, `Advance` (`temp = temp->next`), the four assignments of
insert `SetNext`, `SetPrev`, `Link`, `LinkBack`, the loads `LoadPred` and
`LoadSucc`, the tests of delete and length, the two assignments of delete
`Unlink` and `UnlinkBack`. Its own `Spec` lets callers use the library in every
way the header file allows: an element is inserted once, and deleted when a
lookup returned it. Two callers may delete the same element.

**PartitionedList** (`lab2b/lab2_list.c`) and **WholeList** (`lab2a/lab2_list.c`)
instantiate SortedList with their threads and main as callers. `Enter` and `Goto` are
the loop control of `tFunc`; `LockItUp`/`UnlockItUp` (`Lock`/`Unlock`) take and
give back the lock of the sublist (of the list); `Fails` are the `exit(2)`s;
`CheckBegins`, `CheckRuns`, `CheckEnds` are main's final length check.

**ListSet** is what the list programs promise: a set of elements, each insertion
and each deletion one step. A deletion for element e removes some element with
the key of e, perhaps another thread's. Both list programs are proved to implement it.

**ShellChild** is bash between two pipes, modelled from how the programs use it:
it reads characters, a line makes it print, it ends at the end of its input, and
it may exit between commands or after SIGINT. It also has the pipe operations
(write, close, read, wait) the programs perform on it.

**TerminalRelay** (`lab1a/lab1a.c`). A step is one system call, and `pc` is the
place in the poll loop. A buffer is processed character by character, in
`writeThat`'s three uses: echo to the screen, forward to the shell, display of
the shell's output. `Reset` and `Wait` are `resetSettings`. `PipesFull` and
`NobodyReads` describe the states in which program and shell wait for each other.

**RemoteShell** (`lab1b`) has a client (`cpc`, `crev`, `cbuf`), a server (`spc`,
`srev`, `sbuf`, `si`), a connection (`up`, `down`, and a reset flag per
direction) and the shell. The client's write to the connection takes what there is room
for and waits with the rest (`ClientSend`, `ClientSendRest`); the server writes
character by character. `ConnectionFull` is the state in which each of the two waits
for the other to read, `PipesFull` the same of server and shell.
`ClientIsKilled` may happen at any moment. The shell has
inherited the server's end of the connection: one that outlives the server keeps
it open until it dies, at the latest of SIGPIPE when it prints.

**SensorCommands** is what a line of input does to the settings (`Obeyed`). Input is a
sequence of fragments of lines and line ends, so that a read may end within a
command. **Thermometer** is what the sensors promise: lines are obeyed
in order, reports are made while on and in the scale last asked for.

**Sensor** is the loop of the three programs, which differ in `source`: a
terminal or a pipe with a button (`lab4b/lab4b.c`), a connection
(`lab4c/lab4c_tcp.c`), or TLS records over one (`lab4c/lab4c_tls.c`). `Test`, `Wake`, `Report`,
`Log` and `Poll` are one round; `Receive`, `ReceiveRecord`, `EndOfInput` and `ReceiveFails`
the outcomes of `read`; `ObeyLine`, `Collect` and `ScanEnds` the scan of the buffer;
`Shutdown` and `Close` the end. `Press` is the button's callback, which runs in a
thread of the library, `Interrupt` and `PollInterrupted` are `^C`. `buf` is
the part of the read buffer from `i` on, `myInput` has length `index`. A program ends
as "done", "failed" (exit with a message), "killed" (SIGPIPE) or "crashed" (use of a closed
context).

**Ext2** describes an image and, as the reference, its paths of pointers and its
defects. **Summary** is what lab3a prints for a part of an image, written as the code
computes it (`DirOff` is the running sum of indices), **Audit** what lab3b
makes of the rows. **FileSystem** runs the one after the other: lab3a goes from i-node to
i-node, lab3b loads the rows and makes its audits, each of which may end with
an exception.

**Copy** (`lab0/lab0.c`). `fd` is the table of descriptors, `Moved` the sequence open,
close, dup, close of `--input` and `--output`; options act in their order, the
byte loop reads and writes one byte a step.

Definitions whose comment calls them *faulty* are variants of the definition
that follows them, as a plausible mistake would have it. No specification uses
them; they show that the properties notice the mistake.

## 3. Runs

| run | distinct states | what it shows |
|---|---|---|
| `Add` | 229,014 | 3 threads, 2 iterations, the 4 modes |
| `SortedList` | 321,850 | 2 callers, 2 elements, 1 header, no lock |
| `Partitioned` | 621,112 | 2 threads; 2 iterations and 2 sublists with mutex and spin lock; without a lock 2 iterations too, with crossed keys, each key on a list of its own |
| `Whole` | 650,341 | 2 threads, 2 iterations, with and without a lock |
| `WholeFinal` | violation | see section 6 |
| `Relay` | 519,796 | buffers and pipes of 2; all inputs of up to 3 characters and one of 5; 3 printed |
| `RelayOutput`, `RelayInput` | violation | see section 6 |
| `Remote` | 637,576 | buffers of 2, pipes of 1, connection of 2 to the server and 1 back; all inputs of up to 2 characters and one of 4; 2 printed; client killed or not |
| `Sensor` | 303,729 | terminal, pipe, TCP and TLS; 6 inputs of two lines; a line buffer of 3 fragments |
| `FileSystem` | 39,341 | two sound images and all images up to two edits away from one of them |
| `Copy` | 21,543 | every command line of up to 3 options out of 11; descriptors 0 and 1 open or closed; two bytes |

Why the bounds are enough for what is asked:

* `Add`: a lost update needs two threads, an ABA on the counter two iterations and a
  third thread that adds and undoes between a load and a compare-and-swap. The
  theorems of section 5 remove the bounds.
* `SortedList`: with two elements and two callers each of the unlocked
  operations meets each other one at each of its steps, calls repeat without
  bound, and an element can be deleted twice at once. Type correctness and
  absence of NULL and `NeverCut` are proved for any number.
* `Partitioned`: the choices of keys with a lock (`SyncChoices`) cover equal keys of
  different threads, two keys on one list inserted in opposite orders, lists visited
  in opposite orders, and three elements on one list beside another list.
  Without a lock it checks that the program uses the lists in the way
  `SortedList` assumes (`UsesListLegally`), so that what is known about the
  library holds in the program; `Termination` holds although the threads may
  corrupt the lists.
* `Whole`: every choice of two keys with a lock; without a lock, where there are
  far more interleavings, both threads have both keys in opposite orders
  (`CrossedKeys`).
* `Relay`: buffers of two and three typed characters make a character share a
  buffer with a `^D` before and after it and come in a later buffer; pipes of
  two fill up. What the shell prints does not fit in its pipe, and the input
  `CR x x x ^D` makes it print and the program write to it at the same time: both standoffs
  occur, and `EOTEnds` fails when either is not excepted.
* `Remote`: two typed characters give each order of a character and `^C` or `^D`
  and a write after the other side has gone, with the client killed too. The pipes and the
  connection back hold one character, so that a line of output of two and the input
  `CR x x ^D` fill everything on the way: both standoffs occur, before and within a write of the
  client, and `HangupEnds` and `EOTEnds` fail without their exceptions.
* `Sensor`: two lines are enough for a line in two reads, two lines in one, a
  line that is left of a full buffer, and a command after the `OFF` that should end
  the program. A buffer of three fragments holds a command and its line end, and the
  line `x x x` fills it. Records and reads may end anywhere. `ObeysLines` is
  proved for every input and size.
* `FileSystem`: `Flat` has pointer blocks of every level, two names for a file, a
  directory with a pointer block and a symbolic link kept in a block; `Nested` has a
  directory below one with a higher number. About fifty edits put each kind of defect
  where each audit should see it; two edits make the defects meet (a block that
  is free and used twice, a directory without a parent and a free i-node). That
  gives some 3,000 images. A block holds few pointers: what depends on more than
  one pointer of a block depends on an earlier one at index 0 or not.
* `Copy`: three options put a second `--input` or `--output` and any
  failing option before and after another; a second byte enters the loop again.

The type invariants of `WholeList`, `PartitionedList`, `TerminalRelay` and
`RemoteShell` are not among the properties of their runs; those of the last two are proved.

`CHECK_DEADLOCK FALSE` is in one cfg: callers of the library may all be idle for
lack of elements (`SortedList`). Everywhere else a stuck state would be reported, but for
the ones named in the models: the ended program, a program waiting for a user
who need not type, and in `TerminalRelay` and `RemoteShell` the standoffs of section 6.

## 4. Fairness

* Thread programs: `WF` of each thread and of main. The kernel schedules every
  runnable thread eventually. Weak fairness is enough for the mutexes and spin
  locks because nothing in these programs takes a lock for ever: each
  thread does a fixed number of iterations, so others cannot starve it for ever.
  Nothing is assumed about who gets a lock.
* lab1: `WF` of the programs; of bash reading input when it is not busy, printing what a
  command has to print while the pipe has room, and exiting at the end of its
  input. bash is not assumed to exit otherwise, and the user is not assumed to
  type. The exceptions of `HangupEnds` and `EOTEnds` are standoffs that last (`[]PipesFull`,
  `[]NobodyReads`, `[]ConnectionFull`), since a pipe that is full for a moment excuses nothing.
* Sensor: `WF` of the program: it is scheduled, and a sleep ends, but for one
  that a negative period makes endless. Nothing is assumed of the surroundings: input need
  not come, and nobody need press the button. `CommandsHeard` and `EndsWhenAsked`
  except a program that stays (`[]Stuck`) in a sleep without end or in an `SSL_read` that waits for the
  rest of a record.
* FileSystem and Copy are sequential programs over data; they have no liveness
  property beyond the deadlock check.

## 5. What is proved

All by TLAPS, for every value of the constants that satisfies the assumptions
(`ArgsAssumption`: the counts are natural numbers; `IntAssumption`: the number
of operations fits in an `int`; `SyncsAssumption`; `NodesAssumption`;
`PipeAssumption`, `BufAssumption`, `RemoteAssumption`, `SensorAssumption`: sizes are
positive, and what is typed is a character of the models;
`SymbolsAssumption`: what the shell prints can be told from what is typed, so that the
properties may speak of both). `NodesAssumption` says that elements and headers are finitely many and
different; that there are finitely many is needed for `NeverCut` and for counting.

**AddCounterProofs.** The inductive invariant is `IInv == Control /\
CountIsOutstanding`. The type invariant alone is not inductive, nor is mutual
exclusion: that the spin lock is 1 says nothing about who holds it. `Control`
adds that `done` and `pc` agree with the loops and with main's counters
(`Lifecycle`), that a thread is only at labels of its mode (`LabelsOfMode`),
that a thread inside `add` holds the lock and no two do (`LockHeld`), and that
what the holder loaded still is the value of the counter (`LoadIsFresh`). From it
follow `TypeCorrect`, `Exclusion`, `NoLostUpdate` (the counter is the number of
increments in effect and not undone, a cardinality), `ZeroAtEnd`, and the
step-by-step refinement `Atomicity`: with `--sync`, every step is
`AtomicCounter`'s `Add` of one thread or changes nothing it sees. `Refinement`
states it as implication between specifications when no unprotected start is
allowed. That `CompareAndSwap` is safe against ABA is part of it: it compares
values, and adding to an equal value is the same addition.

Without protection `DriftBounded` (`ErrorBounded`) bounds what is lost: the total is off by less than the
number of increments. The invariant `Bounds` compares the counter and every loaded
value with the increments and decrements performed (cardinalities again): they are at most the
former and at least minus the latter. That the bound is strict takes two more facts: a counter that
was stored was incremented from 0 first, and a thread that decrements loads after its own first
store; and at the end the last store was a decrement.

**SortedListProofs.** About the library in any use that `SortedList`'s specification
allows, unlocked calls in any interleaving included: `NeverNull`, no NULL pointer is
dereferenced, and `AlwaysClosed`, the property `NeverCut`: following `next` from a header always
leads back to it. The invariant has two halves. `IInv` says what each call's local
variables hold at each of its accesses, and which nodes are `Ready`: a node that some call
can get hold of has both links set. The subtle step is `Link`: the element becomes
reachable, and must have its own links by then; this is why insert assigns them first.
For the second half, what unlocked calls make of the lists is beyond description, but
an order of the elements always exists (`Arranged`, quantified in the invariant) in which
every `next` leads forward or to the header and every `prev` backward (`LinksOrdered`), an element
keeps its list for life, and so do the pointers that the calls hold (`CallOrdered`). An insertion places its
element, when it reads its predecessor, right before the node its search stopped at
(`PlacedBefore`). A walk along `next` therefore ends, since there are finitely many elements.

The module then has the lemmas on one call at a time (`OneAtATime`, `Kept`), which the
programs with locks need: each list is a ring of nodes in the order of
their keys; while a call works on it, only the links that the call has yet to store are
wrong; the store of `Link` inserts its element, that of `Unlink` takes it off, and
no other step changes what a list holds; lookup finds an element of the key exactly when
there is one, and length returns the number of elements. Last it has the lemmas on counting
that both list programs need (`AddBalanced`, `RemoveBalanced`, `BalancedFinds`, `BalancedBack`):
`Balanced` says that a set holds, of each key, as many elements as there are owners that have
still to delete one; an insertion and a deletion by key keep it, and while an owner of a key is
left the set has an element of that key.

**PartitionedListProofs.** Every safety property of lab2b's list program that a run checks is
proved. The invariants build on each other:

* `IInv`: the label of a thread is tied to the lock of the sublist of its phase and index. List
  steps keep keys, so a thread's sublist does not move under it. It gives `Exclusion`.
* `LegalInv`, with and without locks: a thread inserts only its own elements, each once, and
  deletes only what a lookup returned. Hence `LegalUse` (`UsesListLegally`), the program is
  a legal client of `SortedList`, and by an instance of SortedListProofs the lists of the
  program never have a NULL pointer followed (`NeverNull`) and always close (`AlwaysClosed`).
* `SafeInv`, with `--sync`: there are rings such that each list is one, or is one but for what
  its only caller has still to do (`Guarded`); `MainLast` says that main's calls come when all threads
  are gone. It gives `QuietSound` (`QuietListsSound`) and `Atomic` (`CallsAreAtomic`): a step that
  stores in `Link` is `ListSet`'s `Insert` of that element, one that stores in
  `Unlink` is its `Delete`, and no other step changes what `ListSet` sees.
* `Set!Spec`, the abstract specification by itself: `SetAlwaysBalanced` (`Balanced` is
  inductive with the type invariant) and from it `SetNeverMisses`.
* `DataInv`: every element is on the list its key hashes to, and `Balanced` of the lists of the
  program. So a lookup never misses, although others may have deleted the thread's own
  elements (`LookupNeverMisses`), and no check of the program fails (`EndsOnlyWell`). `NoFailure` (`NoErrorExit`) assumes `NumElms # 0`: without operations
  main divides by zero when it prints the averages, with and without locks.
* `LengthInv`: what a thread has summed up over sublists 0 to i - 1, each taken at another
  moment, is at least the number of its own elements that hash to them and at most the number of all
  such elements. It gives `SumsBounded` (`LengthBounded`). Others may delete meanwhile, and this thread's
  elements too; but by `DataInv` a list always has as many elements as there are owners
  that have still to delete one from it, and the thread itself is one of them.

The attempts at these proofs brought out two mistakes of the models: two cases of `Enter` overlapped for a
loop without iterations, and main's length call, which looks up no element, was not a call that
`SortedList` knew; `BeginLength` is there for it.

**WholeListProofs.** The same for lab2a's list program, in which one lock is held from the first
insertion of a thread to its last deletion. Every safety property its run checks is proved:

* `IInv`: a thread inside holds the lock, its loop variable is one of its own indices, and main
  creates and joins in order.
* `LegalInv`, with and without `--sync`: `LegalUse` says that the specification of the program
  implies that of `SortedList`, with the threads and main as callers. By an instance of
  SortedListProofs follow `NeverNull` and `AlwaysClosed` for its list, races included.
* `SafeInv`, with `--sync`: the list is a ring but for what the one call has still to do, and
  the element a deletion was given by its lookup has the key that was looked up. `QuietSound`: the list
  is sound whenever nobody inserts or deletes. `FinalSound`: so it is when the program reports
  success. That is the statement the run `WholeFinal` refutes of the program without `--sync`.
* `DataInv`: the list holds elements of the thread inside only, and of each key as many as that
  thread has still to delete. That is more than `OnlyOwn` (`OnlyOwnElements`) says, and needed for it: that
  nothing is left when a thread gives back the lock follows from there being as many elements as
  deletions due, and these are none. It also makes each lookup find an element and each length the
  right one, so `EndsOnlyWell`, and `NoFailure` (`NoErrorExit`), which assumes `NumElms # 0`:
  without operations main divides by zero.
* `Atomic`: with `--sync` the program implements `ListSet`; every insertion takes effect in the
  store of `Link`, every lookup with its deletion in that of `Unlink`.

**TerminalRelayProofs.** The invariant is `IInv == TypeOK /\ LeavesNothingBehind /\ BufferFrom /\
ClosedByEOT`. A failed write (`ErrorMeansEOT`) comes after a `^D`; to show it one has to
know that what is in the buffer was typed (`echo`, `forward`) or printed by the shell
(`display`), and that a closed pipe means that a `^D` was met in it: `BufferFrom` and
`ClosedByEOT`. `Restored`: every way out has restored the terminal and
waited for the shell. `InOrder` (`InputInOrder`) says what the shell reads is, but for `^C`, a prefix
of what was typed, and `NothingLost` (`OutputAccounted`) that what it prints arrives in order, with
what is in pipe and buffer accounted for. Both leave characters out with `Kept`, a
recursive function; ShellChildProofs shows by induction what it returns and that it
distributes over concatenation, and the rest is concatenation.

**RemoteShellProofs.** `InOrder`: whatever the sizes of buffers, pipes and connection, and
whoever dies when, what the shell gets is a prefix of what was typed
before the first `^D`. The invariant follows every typed character on its way:
`InTransit` says that the last characters the client has read are those on the
connection and in the client's buffer, in this order; `InServer` that the rest of the
server's buffer is the last of what it has read; `Delivered` that the shell
has got exactly what the server has dealt with as long as the pipe is open. The
delicate points are that a write of the client may leave characters in its buffer (`SendingKeeps`),
that a character is lost only when the server is gone
(`upReset` implies that), and that `^C` is two things, a signal and then a
character, which `SignalFirst` orders. `InputInOrder` follows pointwise, with the first `^D` as
the minimum of a set. `NothingLost` (`OutputAccounted`) is its counterpart for what the shell prints.
**ShellChildProofs** has what both proofs need: of reading from and writing to a pipe, and of
`Kept`.

**SensorProofs.** The invariant is `IInv == TypeOK /\ BufferOK /\ LineOK /\ ReportOK`. `BufferOK`: the buffer
holds what was read and not yet looked at. `LineOK`: unless it is full, `myInput` is
the beginning of the line after the last one obeyed; a full one never becomes a command again,
which is why the exception is harmless. `ReportOK` gives `NoSecondReport`. `Refinement` shows
that every step is a step of `Thermometer` or none it sees; the lemmas on line ends
(`NextLine`) are about the position of the n-th line end, a cardinality.

**Induction.** The induction theorems of the library take an operator as a parameter, which the
provers cannot instantiate. What is needed is stated with a set in its place: a set of naturals
that has 0 and with each number the next has them all (`SetInduction`, from the well-foundedness of
`<`). A recursive function is shown by this induction to exist, and is then what its equations
say. So what `Kept` keeps, how a walk along `next` ends and how many numbers there are in a class of
remainders is proved, not assumed.

**Only model-checked:** all liveness (`Termination`, `HangupEnds`, `EOTEnds`, `CommandsHeard`,
`EndsWhenAsked`): fairness and `ENABLED` are out of the prover's reach.
`SummaryFaithful` and `ReportExact`: rows are made by folds over folds over the data of the
image, so a proof would be an induction over data. `CopyComplete` and `NothingElse`: lab0 is
one sequential program whose run goes through all short command lines. `FinalListSound`
without `--sync` is false (section 6).

## 6. Where the code and its documents disagree

Three runs end in a violation on purpose; `PROJECT.json` quotes the lines.

* `WholeFinal`: `SortedList_length` reports 0 for an empty list whose header points back to a
  deleted element; the header file says it checks all pointers. A program
  without `--sync` can report success on it.
* `RelayOutput`: on POLLHUP lab1a drops all but one buffer of what the shell
  printed last. The server of lab1b has the same loop.
* `RelayInput`: lab1a processes a buffer twice, first for the screen; a `^D` met
  there closes the pipe before characters typed earlier are passed on.

What the code does that no document speaks about. It is in the models, and the
properties that hold name it as their exception:

* lab1a: after a failed write it waits for the shell without reading from it, so a
  shell with more output than a pipe holds keeps it for ever (`NobodyReads`); and it writes to a shell
  that may itself be writing, each to a full pipe (`PipesFull`).
* lab1b: the server does the same with its shell (`PipesFull`), and client and server with each
  other when the connection is full in both directions (`ConnectionFull`); the death of the shell does
  not end that. When the client's connection ends with the shell alive, the server
  polls the same event for ever; when it cleans up with the shell alive, both wait: neither is
  excluded by any property (`HangupEnds` speaks of a dead shell only). A `^C` overtakes what was typed
  before it. A server whose write to the shell fails exits without collecting the shell. A client whose server is
  gone dies of SIGPIPE without restoring the terminal.
* Sensor: a line of `BUF_SIZE` characters makes it deaf for the rest of its
  life; `PERIOD=-1` makes it sleep for ever; `^C` while it polls ends it with an
  error and no SHUTDOWN line; after the end of its input it goes on with
  a closed sensor, and the button is dead.
* lab3a: the offset of an indirect entry is right only while the earlier pointers
  of the block are at most one, at index 0. The bitmap scans print entries for bits that
  stand for nothing.
* lab3b: `exit_code` is assigned in functions without `global`, so the status is 0
  whatever is found. A directory whose parent has a higher number is complained of
  though its '..' is right. A symbolic link of exactly 60 bytes and a special file end it
  with an exception, the latter after part of its complaints. The last
  i-node and the blocks of symbolic links are not judged.
* lab0: with descriptor 0 closed at the start, or a directory as input, it copies nothing
  and exits with 0. lab0's `Makefile:testInvalidArg` (lines 43-48) expects status 2 for
  `--segfault --gibberish`, where the program exits with 1 (`InvalidOption`, lab0.c:94-97). No
  property is about the statuses beyond "0 means a copy".

## 7. Not modelled, and why

* Timing, CSV output, option parsing and the profiler: no control depends on
  them. The wait-for-lock statistics of `lab2b/lab2_list.c` (`lockTimes`, never
  initialised: what is printed there may be anything) are left for later.
* `--compress` and `--log` of lab1b, its connection set-up, failing
  `fork`, `pipe`, `poll`, `tcsetattr`: left for later or without state of their own.
* SIGINT at the terminal does not exist in raw mode; the handlers of lab1a for
  SIGINT are not reached.
* An end of file at the terminal of lab1a and lab1b: in raw mode `^D` is a character, and only a
  terminal that hangs up makes `read` return 0.
* lab4b with a regular file as its input, the arithmetic of the temperature, the
  log file and the buffering of standard output; the set-up of lab4c's connections.
* lab3a: block sizes other than 1K and more than one group, reads that fail,
  pointer blocks outside the image (the buffer then keeps what it held), a boot block
  with code in it, and directories of more than 268 blocks, whose recursion is
  reversed: what pointer blocks look like as entries depends on the numbers in them.
  Columns that are only copied.
* lab3b: the wording of complaints, and the level and the offset that those about blocks name.
* lab0: short options, a missing argument, the wording of messages.
* `lab4a` has no program.
* The x86-64 build: loads and stores of aligned words are single steps, and the
  tests run unoptimised code; a compiler that keeps the counter in a register
  would make a thread's window longer, not different.

## 8. Plan

Done: every program has a module; every safety property of the counter, the two list
programs, lab1 and the sensors is proved (section 5). Left, in this order:

1. `--compress` of lab1b: the loop over the compression buffer, and what a
   message that is cut between two reads becomes.
2. `lockTimes` of lab2b as a nondeterministic start.
3. Directories with double indirect blocks, pointer blocks outside the image.
4. Proofs: `NothingElse` and `CopyComplete` for every command line and text.
   `SummaryFaithful` and `ReportExact` stay with TLC.
