# nloader: a verification development

nloader runs native Windows executables (`autochk.exe`) on a POSIX system. It
maps the image, sets up the process structures the program expects and resolves
its imports against a re-implementation of `ntdll.dll`. The modules in this
directory model the parts of that re-implementation whose correctness depends on
the order of steps or on long sequences of calls.

Paths below are relative to `src/`; `io.c`, `sync.c` and so on are in
`libs/ntdll/`.

## Inventory

| Component | State | Operations | What makes it correct | Hard part |
|---|---|---|---|---|
| Events and waits (`sync.c`) | `event.signaled`, `event.state_mutex`, `event.cond` per handle | `NtSetEvent`, `NtResetEvent`, `NtClearEvent`, `NtWaitForSingleObject`, `NtWaitForMultipleObjects` | a signal releases the right waiters, none is lost, timeouts are due and take no signal | interleaving of POSIX calls, timeouts racing signals |
| Keyboard (`io.c` 366-551, 710-750) | `g_stdin_kbd`: one parked read; status blocks, buffers and events of the guest | `NtReadFile`, `nl_kbd_pump`, `NtCancelIoFile` | a parked read is completed once, by a byte or a cancellation, while its caller still owns the buffer | callbacks from the wait loop, copies used after unlock |
| Files (`io.c`) | descriptor, mode and size in the handle, file position in the kernel | `NtCreateFile`, `NtOpenFile`, `NtReadFile`, `NtWriteFile`, `NtClose` | transfers go where they were asked to, no descriptor is lost or closed twice | `lseek` and `read` are two calls; sizes kept from the open |
| Object directory and mounts (`io.c`) | a static flag, `/etc/mtab` | opening a device, `NtQueryDirectoryObject` | a mounted volume is refused, a scan finds the volume once | check before use, one flag for all scans |
| Threads, critical sections (`thread.c`) | `thread.tid`, `ExitStatus`, a TLS pointer; a recursive mutex | create, terminate; enter, try, leave, delete | exit status belongs to the thread of the handle, sections are left by their owner | handle lifetime against thread lifetime |
| Handles, heap (`ntdll.h`, `heap.c`) | tagged blocks with a magic word | create, close; allocate, reallocate, size, free | a block is freed once and cleared where it grows | protocol between callers |
| Virtual memory (`mm.c`) | `mmap` regions | allocate, free | the guest has the pages it was granted | rounding, the error value of `mmap` |
| AVL tables (`avltable.c`, `c/avlsupp.c`) | a balanced tree with parent links | insert, delete, look up, enumerate | an ordered map | rebalancing |
| Splay trees (`splaytree.c`, `splay.c`) | a self-adjusting tree with parent links, a list of the elements | splay, insert, delete, neighbours, enumerate | an ordered map | pointer surgery, parent links |
| Bitmaps (`bitmap.c`) | words of bits, a size in bits | set, clear, find runs, count | agree with a set of bit numbers | partial words, hints, wrap-around |
| Security descriptors (`sd.c`) | ACLs as byte arrays | create ACL, add ACE, query, validate | ACEs stay within the ACL | sizes and free space |
| LZNT1 (`lznt1.c`) | input and output positions | decompress | the output is what the tokens mean, inside the buffer | variable width of back references |
| Device control (`ioctl.c`) | the image size | questions about files, volumes and disks | answers fit the buffer and agree with each other | answers composed of answers |
| Registry (`registry.c`) | a table of values | open, query, query many | lengths announced suffice | headers of different sizes |
| Time (`time.c`, `timefields.c`, `sync.c` 36-77) | the clock of the system | system time, performance counter, deadlines, dates | deadlines and dates are right | overflow, calendar |
| Strings and messages (`rtl.c`) | buffers and lengths of the guest | convert, initialise, free; find and expand a message | conversions stay inside, lengths are those of the text, inserts get their arguments | bytes against characters, lists of arguments |
| Loader (`loader.c`, `nloader.c`, `autochk.c`) | the process image | map, relocate, import, protect, start; the command line | each import has its stub, each page its protection | overlapping headers, sections and thunks |
| Boot configuration, formatted output, checksums, process information | none | placeholders and pure functions | | |

Threads of the guest are POSIX threads. They share the handles, and therefore
the events, the descriptors and `g_stdin_kbd`. The components call each other in
one place that matters: `NtWaitForMultipleObjects` (WaitAnyObject) calls
`nl_kbd_pump` on every pass, the pump and `NtReadFile` call `NtSetEvent`, and
the wait finds the event signaled. The other services share no state but
through the guest. There are no tests in the repository; the README describes a
smoke run whose interactive part is the 10-second "press any key" countdown,
which exercises exactly that path from a single thread.

PROJECT.json lists the hazards with the lines at which they bite.

## Modules

* `NtEvent` is the abstract event: a set of signaled events and, for each
  thread, the set of events that would end its wait. Set, Reset, Take, GiveUp
  are indivisible. It promises that a SynchronizationEvent releases one waiter
  per signal, that a wait that gives up takes no signal, and (with fairness)
  that a signal which stays is not ignored.
* `Sync` is `sync.c` at the granularity of POSIX calls. `pc` is the place of a
  thread in the code: `store`, `notify` in NtSetEvent, `clear` in NtResetEvent,
  `obj`, `test`, `block`, `relock`, `leave` in NtWaitForSingleObject, `scan`,
  `peek` in the WaitAnyObject loop. `owner` is the `state_mutex` of each event;
  a thread at `block` sleeps in its condition variable. NtWaitForSingleObject is
  the WaitAllObject call on one element, which is how NtWaitForMultipleObjects
  uses it. The clock is one bit per call: `late` says its deadline is over, and
  may become true at any time.
* `SyncProofs` proves the theorems about `Sync`.
* `Kbd` is the keyboard: `g_stdin_kbd` is `slot`; the request of a keyboard unit
  is its buffer, its status block and its event. The events are those of
  `NtEvent`, which `Sync` implements, so the two modules compose by refinement.
  The parts of the pump, of NtReadFile and of NtCancelIoFile that run unlocked
  are steps of their own: poll, read, claim, fill the buffer, set the event.
* `OrderedTable` is the abstract generic table: a set of keys in order, an
  enumeration that stands after one of them, and one indivisible step per call.
* `AvlTable` is `avltable.c` with the balancing of `c/avlsupp.c`. `links` holds
  the four fields of each node; the header `BalancedRoot` is node 0. A call runs
  from `idle` through `grow` (the loop of RtlpInsertAvlTreeNode) or `shrink`
  (that of RtlpDeleteAvlTreeNode), one step per iteration, to `return`. A node is
  named by its key: nodes are relinked, user data is never copied between them.
  The allocate routine may fail at any time.
* `KbdProofs` proves the theorems about `Kbd`. `AvlTrees` has the trees of `AvlTable`
  as the proofs see them and the lemmas about the operators that relink them;
  `AvlProofs` proves the theorems.

The services that share no state with those, one module each:

* `Bitmap`: the buffer and the word behind it are the set `bits`. Ranges and
  searches are computed word by word as in the code and compared with sets of
  bit numbers; `runs` is what the guest has taken and not given back.
* `SplayTable` (`splay.c`): `branch` holds the child links, `order` the list that
  the enumeration follows; `fault` records a write through NULL. The loop of `splay` is
  a recursive function of its turns.
* `SplayLinks` (`splaytree.c`, `rtl.h`): `kin` holds child and parent links. The
  four cases of RtlSplay and the exchange of SwapSplayLinks are operators.
* `Security` (`sd.c`): a list is its revision, its size and the sizes and types of
  its ACEs; a descriptor says which of its parts it has. `torn` records that RtlAddAce
  may have spoiled ACEs, which it moves with memcpy where they overlap.
* `FileIo` (`io.c`): `fds` are the descriptors of the kernel with their position,
  `handles` those of nloader; a transfer is a seek and a move, and other calls of
  the same handle come between them. `lost` are descriptors that nothing owns.
* `Namespace` (`io.c`): the look at the mounts and the open that follows it; the
  scan of the directory with its static `count`.
* `Lznt1` (`lznt1.c`): one token a step over any input; `text` is what the format
  says the tokens mean.
* `Loader` (`loader.c`): one loop or block of `setup_nloader` a step, from the
  headers to the entry. A cell is a thunk, an import descriptor, code, or a stub.
* `CommandLine` (`nloader.c`, `autochk.c`): the arguments become the line the
  guest reads.
* `Devices` (`ioctl.c`): a question, its length and the reply, which may ask
  again. `reply.written` is what the code writes, `reply.length` what there is.
* `Registry` (`registry.c`): single queries, whose last announced length is
  `told`, and tables of queries.
* `Clock` (`sync.c`, `time.c`): numbers with the width `Limit`, ticks,
  microseconds and seconds at a small scale. `Calendar` (`timefields.c`): the date
  of every day.
* `Threads` (`thread.c`): threads, handles as addresses that are reused, what a
  thread was told of its own handle, and a critical section. `lent` and `hot` mark
  the handles a mistake of the guest has reached.
* `Heap` (`heap.c`) and `VirtualMemory` (`mm.c`): blocks with the kind of each
  byte; pages with their protection and who knows of them.
* `Strings` (`rtl.c`): sizes and lengths of counted strings, in numbers of the
  width of a USHORT. `Messages` (`rtl.c`): the walk through the resource
  directories, and the loop that expands a message, one turn a step.

* `Answers` puts together the services that answer from what they are told:
  `Devices`, `Registry`, `Clock`, `Calendar`, `Strings`, `CommandLine`.

`FileProofs` proves the theorems about `FileIo` and `Namespace`, `ProcessProofs` those
about `Threads`, `Heap`, `VirtualMemory` and `Loader`, `AnswersProofs` those about the
services of `Answers`, and `RtlProofs` those about `Bitmap`, `Lznt1`, `Security` and
`SplayTable`.

`RtlMC` puts all of them into one specification. Its variable `part` names the
service the behaviour is about: services that share no state have nothing to say
about each other, so `OthersRest` leaves the variables of the others as they are.
It extends `Bitmap`, `SplayTable`, `Security`, `Lznt1`, `FileIo`, `Namespace`, `Threads`,
`Heap`, `VirtualMemory`, `Loader` and `Answers`, whose constants are in
`RtlServices.cfg`, and whose variables stay in their initial state when the behaviour is
about another service; it instantiates `SplayLinks` and `Messages`, whose variables are `Off`
then. `RtlInputs` has the values the guest passes. `SyncMC`,
`KbdMC` and `AvlTableMC` hold the constants of the other runs.

```
 KbdProofs --(about)--> Kbd --(events are)--> NtEvent <--(implements)-- Sync <--(about)-- SyncProofs
 AvlProofs --(about)--> AvlTable --(implements)--> OrderedTable
 AvlProofs --(extends)--> AvlTrees
 RtlMC --(extends)--> Bitmap, SplayTable, Security, Lznt1, FileIo, Namespace, Threads,
                      Heap, VirtualMemory, Loader, Answers --(extends)--> Devices,
                                              Registry, Clock, Calendar, Strings,
                                              CommandLine
 RtlMC --(instances of)--> SplayLinks, Messages
 FileProofs --(about)--> FileIo, Namespace
 ProcessProofs --(about)--> Threads, Heap, VirtualMemory, Loader
 AnswersProofs --(about)--> Answers      RtlProofs --(about)--> Bitmap, Lznt1,
                                                                Security, SplayTable
```

Operators called *faulty variant* in the modules are plausible slips in the code
next to them; no specification uses them. Substituting one for the operator it
precedes must break the property PROJECT.json pairs it with.

## Runs

| Run | Instance | Shows |
|---|---|---|
| `sync_safety` | 3 threads, a notification and a synchronization event, arrays of one and two events, with and without deadline | mutexes are held exactly inside the critical sections; nobody sleeps on a signal nobody is about to look at |
| `sync_handles` | 2 threads, one of them waited for, one event, arrays with thread, file and NULL handles, every kind of Timeout, `TimeoutTakesSignal` | what STATUS_SUCCESS of a WaitAllObject call and STATUS_TIMEOUT assert is true; the events implement `NtEvent` step by step |
| `sync_fair` | 2 threads, both event types, `FairSpec` | a signal that stays ends a wait, a call with a deadline returns, the events implement `NtEvent` with its fairness |
| `sync_join_poll` | an array with a running thread before the event | **violated**: the call does not return |
| `kbd_single` | 1 thread, 2 keyboards on a pipe, 3 keys, reads, waits, cancellations, `FairSpec` | a signaled event means a stored completion, a buffer is filled while its caller owns it, no key is dropped, a pressed key ends the wait |
| `kbd_threads` | 2 threads, 2 keyboards on a terminal, 2 keys, both kinds of wait | requests are completed once although the pumps of both threads race |
| `kbd_overwrite` | a read on each keyboard | **violated**: the first read is pending and nothing refers to it |
| `kbd_cancel_race` | 2 threads and a cancellation | **violated**: a buffer is filled after the cancellation returned |
| `kbd_pending_race` | 2 threads | **violated**: the event is signaled, the status block says pending |
| `avl_calls` | 6 keys, every service, futile calls too | the answers are those of an ordered set; the enumeration survives insertions and deletions; every call returns |
| `avl_balance` | 12 keys, insertions and deletions | links, order, balance factors and `DepthOfTree` are right at every iteration |
| `rtl_services` | one of 18 services at a time, each with all orders of its calls | see below |

The four violated runs are disagreements between the code and its own comments;
PROJECT.json quotes the lines under "findings".

The properties of `rtl_services` join those of one kind; each conjunct has its own
name and comment in the module it is from.

| Property | Says |
|---|---|
| `BitmapIsExact` | no bit is handed out twice, and masks reach the bits of the range only |
| `SearchesAreRight` | a run that is found is one; only one that ends with the last bit is missed (`bitmap.c:468`); counts are right |
| `TablesHoldTheirItems` | tree and list of a splay table hold the same elements, an enumeration meets all, only the deletion of the greatest element writes through NULL (`splay.c:286`, `:294`) |
| `ListsStayInside` | ACEs end inside their list, what is accepted as a descriptor lies inside of it |
| `TransfersAreInPlace` | descriptors are owned once or lost in one known way, a transfer that meets no other is in place, the image gets no holes |
| `VolumeIsFoundOnce` | a volume that stays mounted is not opened, a scan that meets no other finds the volume once |
| `TextIsDecoded` | LZNT1 output is what the tokens mean and stays inside; a token can reach all of its chunk |
| `TextsAreMeant` | messages are found and become what their items mean |
| `ImageIsComplete` | stubs, sections and protections of a loaded program; nothing strays without one of the known causes |
| `DiskAnswersAgree` | replies fit, and those about partition, geometry and size agree |
| `ValuesFit` | registry values and strings fit into what was made for them; the guest finds its name and its arguments on the command line if they fit |
| `TimesAreRight` | deadlines, dates and the performance counter |
| `StatusIsItsThreads` | the status in a handle is that of its thread |
| `BlocksAreRight` | cleared blocks stay cleared where they grow, headers say what a block is |
| `RegionsAreRight` | pages that are held are mapped, a grant is mapped with its protection, but for a failed `mmap` and a base inside of a page |
| `SectionsAreOwned` | a critical section is left by its owner only, and by nobody when that has ended |
| `StepsKeepPromises` | a valid list stays valid but for two ways, a length once announced suffices; a splay halves the path (`splay.c`, `splaytree.c`), RtlDeleteNoSplay moves no node down, and links of parents and children agree after every splay and deletion (`splaytree.c`) |

Some of these name the case in which the code does otherwise, and would fail if
the code did better there: they are exact about its limits. What they found:

* `RtlFindClearBits` misses a run that ends with the last bit (`bitmap.c:468`).
* The deletion of the greatest element of a splay table writes through NULL
  (`splay.c:286`, `:294`).
* A failed `mmap` is reported as success, since MAP_FAILED is not NULL
  (`mm.c:69`); a base inside of a page is rounded down without a larger size.
* `get_arg` takes the number of an insert as the number of arguments to skip,
  also when earlier inserts have taken some (`rtl.c:404`): of a list, only
  messages with `%1` and at most one other insert are right.
* A string of RtlUpcaseUnicodeString has no room for the terminator that the next
  conversion writes.
* A drive layout is measured with two entries and cleared with four
  (`ioctl.c:472`).
* The limit of the command line counts bytes, the position characters
  (`nloader.c:142`).
* GETB (`loader.c:151`) does not fail behind the end of the file: the rest of a
  section that is cut short stays empty.
* The performance counter goes through one second again and again (`time.c:79`).
* A write that begins inside of the image can enlarge it, though `io.c:611` wants
  to "avoid enlarging".

### Bounds, and why they are enough

* Three threads are what the wake-up rules need: a setter and two waiters that
  compete for one signal. Two events suffice for an array to mix both types. A
  WaitAllObject call of two elements already takes one object and waits for the
  next, in either order. The theorems remove these bounds.
* The clock is a bit per call, so every length of a timeout is covered.
* Two keyboards are all there are (`KeyboardClass0`, `KeyboardClass1`). Keys are
  numbered; three of them let one be pressed before a read, one during it and one
  after a cancellation. Two threads give each race one competitor; a third would
  have to wait for the same two steps.
* Twelve nodes make the smallest tree in which one deletion rotates at two
  levels. The run with twelve keys deletes only from tables with the keys 1 .. n:
  the tree sees nothing of a key but its place in the order, and every AVL tree of
  n nodes can be built on those keys. Six keys let an enumeration stand in every
  position relative to a deletion and a later insertion.
* `rtl_services`: a word has four bits and bitmaps one to six, so that runs begin
  and end in every position of a word and cross one. Splay tables have four keys
  and linked trees six nodes, which makes every case of the splays and of the
  exchange in a deletion. ACL sizes lie on both sides of the modulus, of the
  alignment and of what one more ACE takes. Two threads use two handles and one
  descriptor. LZNT1 has tokens of four bits, chunks of eight bytes and masks of
  four tokens, which leaves the shift of the length field three values; inputs end
  in every position. The executables combine each way in which headers, tables and
  sections can overlap or be cut short. Intervals lie around a tick, a
  microsecond, a second and the width of the numbers. Days are those around the
  first one, three changes of century with and without a leap year, and 1970, 500
  days each. Three threads reuse two
  handle addresses. Messages have three items of every kind, and their inserts
  come as an array or a list. A command line has ten elements and up to three arguments
  of none to thirteen characters, one of them a device, so that lines end before, at and
  behind the last element.

### Fairness

`Sync!FairSpec`: threads that can run do (weak fairness of each step), and time
goes on. A thread that competes for a `state_mutex` gets it in the end (strong
fairness): the mutex is held for a few instructions without system calls that
wait, and a WaitAnyObject scan sleeps 10 ms between rounds. Calls, signals and
exits are never forced. `Kbd!FairSpec` is weak fairness of a thread's steps
inside a call. No key has to be pressed. `AvlTable!FairSpec`: a call that has
begun runs on.

## Proofs

`SyncProofs` proves, for any sets of threads and events, any assignment of event
types and any arrays that satisfy `SyncAssumption`:

* `TypeCorrect`: types, and the conjunct `Fits`, which says what the program
  counter of a thread implies about its call (a thread at an event has an event
  as its current object, an index never leaves the array). `Fits` is what makes
  the type invariant inductive: the type of the object at `idx` is known only
  through it. One lemma per service, one step per action.
* `MutualExclusion`: `MutexHeld`, inductive relative to `TypeOK`. Each action is
  an instance of one of three lemmas: it locks, unlocks, or leaves the mutexes
  alone.
* `NoWakeupIsLost`: `NoLostWakeup`, under the assumption
  `~TimeoutTakesSignal`. The strengthening is `Undecided`: a thread that still
  waits has not been told that it timed out, so a notified thread does look at
  the predicate. The assumption is needed: POSIX lets `pthread_cond_timedwait`
  return ETIMEDOUT having consumed a signal, and `sync.c:107` believes the
  timeout without looking at the predicate again. With `TimeoutTakesSignal` TRUE
  TLC finds another waiter left asleep on a signaled event.
* `Refinement`: every step of `Sync` is a step of `NtEvent` or a stutter under the
  mapping `Wants`, with or without that race.

`KbdProofs` proves, for any sets of threads and keyboards, any number of keys and
any arrays that satisfy `KbdAssumption`:

* `TypeCorrect`: types, and the conjunct `Fits`, which says that a thread has a
  request in hand exactly where it is about to complete one and a key exactly
  between reading and delivering it. One lemma per service, one step per action.
* `RequestsAreKept`, for a guest that cancels nothing: the invariant `Requests`,
  inductive relative to `TypeOK`. Three properties are parts of it and follow:
  `CompletedOnce` (`OneCompletion`), `WritesWhileOwned` (`NoWriteAfterRelease`) and
  `ParkedIsOpen` (`SlotIsOpen`). None of the three is inductive. What they lack is
  who knows of a request: a unit is read by one call at a time (`ReadsAlone`),
  until that call parks its request or finds a byte nobody else has it
  (`FreshIsUnclaimed`), NtReadFile delivers to its own request (`OwnRequest`), and
  once the event is set nobody has it any more (`SignalIsLast`), which is what
  makes it safe to give the request back when a wait takes the event. Steps that
  neither claim, park, signal nor release a request are `Quiet`, and one lemma
  covers them all.

The assumption `"cancel" \notin Calls` is needed for that invariant: with
NtCancelIoFile a pump that has already claimed a request fills its buffer after
the guest took it back, which the run kbd_cancel_race shows.

For a guest of one thread, whatever it calls, cancellations included, `KbdProofs`
proves what the run kbd_single checks: `DoneWhenSignaled` (`EventMeansDone`),
`KeysAreKept` (`NoKeyLost`), `CancelledInTime` (`NoWriteAfterRelease`) and
`ParkedWhileCancelled` (`SlotIsOpen`). The strengthening is `ServedOneAtATime`: a
request is either parked or in the hands of the thread, never both (`OneAtATime`);
what is parked is pending, unsignaled and owned by its caller (`Parked`), and so is what
the thread is about to complete, up to the step that stores the completion
(`InService`).

`SyncProofs` also proves what a wait tells its caller, for any arrays and any
number of threads: `AllAreWaitedFor` (`WaitAllComplete`) and `TimeoutsAreDue`
(`TimeoutIsDue`). Their strengthening `InProgress` follows the result on its way
through the code: at each place, what the objects before `idx` have answered
(`WaitsProgress`), so that the return only repeats it (`WaitReturns`).

`FileProofs`, for finite sets of threads and handles, any descriptors and a file of
any size (`FileAssumption`): `FilesAreInOrder` (`TransfersAreInPlace`). Its
strengthening `FilesFit` says which call or handle has each descriptor (`Owners`),
that transfers that have not met others are alone at their handle (`AloneFits`), and
that the size recorded at an open is not more than the image has (`SizeIsOld`).

It also proves `VolumeFound` (`VolumeIsFoundOnce`), for any number of calls in
flight, by `NamesFit`: a call that has looked at the mounts remembers what was
mounted then, and a scan that is alone finds the static `count` as its own last step
left it.

`ProcessProofs`, for any sets of threads and addresses that satisfy
`ThreadsAssumption`: `StatusesMatch` (`StatusIsItsThreads`), by `HandlesMatch`
(`HandlesAreMatched`): a thread that has not ended knows the address of its handle,
and that handle is allocated and names the thread, except at addresses which a
mistake of the guest has reached (`hot`); a handle that is not stored yet has one
maker and nobody else knows it; the status of a handle is that of its thread unless
either was reached by a mistake (`hot`, `lent`). And `SectionsHaveOwners`
(`SectionsAreOwned`), by `SectionFits`. For heaps and address spaces of any size that
satisfy `HeapAssumption` and `MemoryAssumption`: `HeapIsRight` (`BlocksAreRight`) and
`MemoryIsRight` (`RegionsAreRight`). The lemmas `AlignsDown`, `RoundsUp` and
`SamePages` say what the rounding of `mm.c` does to a range of bytes.

`ProcessProofs` also proves `ImagesAreComplete` (`ImageIsComplete`), for files of any
number and size and any exports that satisfy `LoaderAssumption`: numbers are numbers,
a cell with a descriptor has two addresses, and a file that is loaded has a section and
a base at a page. `Regular` is a condition of the property: it says what a
linker makes of a file, and the parts about the entered image are about such files only;
`StrayHasCause` is about every file. The invariant is `LoaderInv`, which follows
`setup_nloader`: memory has what the file has for each cell (`FilledIs`, on `LaterIsOver`:
each section is written over those before it); the libraries before the one that is
looked at have a stub in each of their slots (`Done`), its own as far as the list was
read (`InLibrary`), and each import is one the file asks for, with the export that
nl_resolve finds for it (`Bindings`); at the end of the directory all slots are known
(`AllAreBound`); what follows leaves the cells behind the headers as the patches
made them. Two sections of a usual file share no cell and no page (`CellsDiffer`,
`PagesDiffer`), nothing is behind them (`NothingOutside`), which is what ends each list,
and the parameters are beside them (`ParamsBeside`), because both begin at a page.

`AnswersProofs`, on lemmas about quotients and rests (`Division`, `DivisionIsOne`):

* `RepliesAgreeAlways` (`DiskAnswersAgree`), for disks, buffer lengths and geometries
  that satisfy `DevicesAssumption`: `ReplyFits` says that a reply is silence or all
  the code writes for the question, so that answers agree however a question is
  composed of others.
* `AnnouncedLengthsSuffice` (`AnnouncedLengthSuffices`, a part of `StepsKeepPromises`)
  and `ValuesFitAlways` (`ValuesFit`), for any table of values, any texts and any
  arguments (`RegistryAssumption`, `StringsAssumption`, `CommandAssumption`, by which a
  WCHAR has at least two bytes). `RegistryFits` says that what was told
  of a value is what the same question needs now, and why the last query failed;
  `StringsFit`, that lengths are even and those of the text as long as it is short,
  which is what leaves room for the terminator; `CommandFits`, that the loop has written
  the name and the arguments it has met, or (`Reaches`) that both what it has written and
  what it should have are too long for `commandline`: the limit of `nloader.c:142` lies
  behind the end of the array, so that no argument is cut off that would have fitted
  (`KeptIs`, `ReachesOn`).
* `TimesAreRightAlways` (`TimesAreRight`), for clocks of any width and resolution
  (`ClockAssumption`) and all days. `ClockFits` keeps the counter in its second. The
  dates are proved in the coordinates in which the quotients of `timefields.c` are
  exact: `IsDay` gives a day by its 400 years, century, cycle of four years, year
  that begins in March and day of that year; `QuotientsAre`, `MonthIs` and `FieldsAre`
  say that the code finds them, `LeapYearsAre` and `MonthsEnd` where the years and
  months end, and `NextDay` that the following day has the following coordinates.

`RtlProofs`. A loop whose measure falls has a result (`LoopEnds`, and `RoundsEnd` for
loops that count), so that the recursive functions of the modules have the values
that their definitions give; `Upwards` and `Downwards` are induction over the
positions of such a loop.

* `BitmapIsExactAlways` (`BitmapIsExact`) and `SearchesAreRightAlways`
  (`SearchesAreRight`), for bitmaps and words of any size (`BitmapAssumption`). The
  invariant is `MapFits`: runs that are out are disjoint and set. `RangesAreExact`
  says that the masks reach the interval and nothing else, `RunLengthIs` what a run
  is, `SearchFinds` that a search skips no start that would do, `LargerRunsFit` and
  `ListedRuns` that the list of the longest runs keeps the longest.
* `TextIsDecodedAlways` (`TextIsDecoded`), for tokens, chunks and buffers of any size
  (`LzAssumption`). The invariant is `LzInv`: output and room add up to the buffer, and
  the output is the text as long as each token had a meaning. `ShiftIsMeant` says that
  the loop over the position finds the width that the format has, `CopyIs` that a
  copy byte by byte repeats its beginning where it overlaps with it, and
  `CopyIsLong` that any other copy, of bytes before the buffer too, is as long.
* `ListsStayInsideAlways` (`ListsStayInside`) and `ListsStayValid`
  (`ValidListStaysValid`, a part of `StepsKeepPromises`), for lists, ACEs and SIDs of
  all sizes (`SecurityAssumption`). The invariant is `SecurityInv`: the ACEs of a list
  end in it, and a list whose size was rounded up to nothing has none. `SameBytes`
  says that ACEs have their bytes wherever they stand, from which follows what an
  insertion adds; `StoredSizeIs`, what becomes of a size; `WalkSucceeds`, that the walk
  over a list fails by its revision only.
* `TablesHoldTheirItemsAlways` (`TablesHoldTheirItems`), for any number of keys
  (`SplayAssumption`). The invariant is `TableInv`: the links make one tree of the
  elements of the list (`TreeOf`), the list has no doubles, and the enumeration has met
  the elements up to its key. Trees are taken apart and put together by their elements:
  `Split` gives the trees on both sides of a top, `Crown` puts a top above two trees,
  `Graft` hangs a tree to the outermost element of another one, and `Frame` says that a
  tree stays one when only links of other elements are written. While a splay goes down
  there are three trees that share no element (`Going`): the one below the root, and on
  each side the elements beyond it, which the local `next` holds and whose last one the
  next turn writes to. `TurningKeeps` and `HangingKeeps` are the two halves of a turn; a
  turn that does not end the loop leaves fewer elements below the root, so
  `SplayKeys` turns are all turns (`DescendKeeps`). `AssembleKeeps` hangs the rest of
  the tree to the two ends, also where an end is still `next`. What a splay leaves is
  `Splayed`: an item of the tree is at the top, and if it is none, the top parts the
  elements as the item does, which is what an insertion relies on (`InsertedTree`) and
  why the left tree of a deleted element has no right child where the right tree is
  hung (`JoinedTree`). `InOrderIsSorted` says that the walk through a tree meets its
  elements in order. The halving of the path is not part of the theorem.

`AvlProofs`, on the lemmas of `AvlTrees`, for any number of keys and any services the
guest calls (`AvlAssumption`):

* `AvlInvariant`: the inductive invariant `AvlInv`. A tree is given by a function `D`
  from nodes to sets of nodes (`IsTree`): the subtree of a node is the node, the
  subtree on its left, whose keys are less, and the one on its right. Its heights are
  a function `h` that the balance factors agree with (`Levels`), except on one side of
  one node: while a loop goes up, side `LateSide` of node `at` is one level higher or
  lower than the factors from there upwards say, and `depth` is the height they
  say. `Shaped` says that there are such `D` and `h`. The other parts say what the
  loop variables are in each loop (`GrowInv`, `ShrinkInv`) and between calls
  (`IdleInv`), that nodes not in use are cleared (`Clear`), and that the count is
  right (`Counted`). Neither SearchTree nor AvlShape is inductive: the first says
  nothing of balance, which a rotation relies on, and the second nothing of where
  DeleteNode was taken from, which the node that replaces it must fit (`ShrinkInv`).
* `PromoteTree`, `AttachLeaf`, `TakeOut` and `ReplaceTree` say that the operators which
  relink nodes keep a search tree, and of which nodes; `RebalanceSettles`, that
  RtlpRebalanceAvlTreeNode leaves right factors in each of its cases, and a subtree
  that is a level lower unless its result says otherwise.
* `TreeIsOrdered` (`SearchTree`), `RestartKeyIsAlive` (`RestartKeyAlive`), `TypeCorrect`
  (`TypeOK`) and `BalanceIsHeight` (`AvlShape`) follow. AvlShape states heights as a
  function defined by recursion on the links, which has a value only if there is
  one such function: `TellsExists` and `TellsOne` show that there is exactly one.
  TypeOK bounds the depth; `HeightBound` shows that a tree is not higher than the
  number of its nodes.
* `Refinement` (`ImplementsTable`): a call has its effect when it enters its loop, the
  loops stutter (`LoopIsHidden`) and the restart key is what the enumeration has
  passed. The key that the next call of the enumeration answers is found by links
  (`NeighbourIs`, `FirstMatchIs`) and is the next one in the order.

Induction over trees needs no induction theorem. Among the nodes for which a claim
fails one has the least (going up, the greatest) subtree, which `LeastPlace` finds in
any finite set, and the step from there contradicts the choice. In the same way
`WalkExists` and `Walk` show that the searches and the ways up, functions defined by
recursion, have a value at every node and end where they should.

Only model-checked: the liveness properties (`CallsReturn` of `AvlTable` among them)
and the fairness part of the refinement of `Sync`, which are beyond the provers; splay
links, whose module uses RECURSIVE operators, which the provers cannot reason about;
and messages, whose property compares a parse with the items a message was made of. Of
`StepsKeepPromises`, the parts about splay tables (the depths that a splay leaves need a
count along the path) and splay links.

## Limits

* Events and keyboards exist throughout a run: their creation and closing is not
  modelled, nor is NtDelayExecution. Handles of files and threads are created,
  closed and reused (`FileIo`, `Threads`). Joins of one thread by two others are
  undefined in POSIX and excluded (`MayJoin`).
* NtWaitForSingleObject does not pump the keyboard (`sync.c:99`, against
  `io.c:375-376`), so `KeyEndsWait` speaks of threads whose wait does. Two pumps
  that read a byte each can drop one without any cancellation (`io.c:473-475`);
  `NoKeyLost` is a property of one thread.
* End of input and failing reads of the terminal are not modelled.
* A generic table has no lock and the guest is trusted to make one call at a
  time, to keep a full lookup and the full insertion that uses it together, and
  not to delete the element its own restart key names. The same holds of bitmaps,
  security descriptors, registry queries, strings and messages: `RtlMC` has
  interleavings in `FileIo`, `Namespace` and `Threads` only, where the code is
  called by several threads.
* Widths and units are small constants of the modules. Where the code depends on
  how a width relates to another (words and bytes, ticks and seconds, tokens and
  chunks), so does the module.
* Parent links of the generic splay tables are written and never read; they are
  left out of `SplayTable`.

## Not modelled

* Boot configuration (`libs/bcd/bcd.c`): a handle is allocated and freed, every
  element is "not found".
* Formatted output, comparisons and the C library functions (`format.c`, `str.c`,
  `crt.c`): pure functions on characters, most of them calls of the C library of
  the host.
* Random numbers, checksums, divisions (`random.c`, `crc32.c`, `crc64.c`,
  `large_int.c`): single expressions, or a table and a loop over bytes.
* Process and system information, versions, tracing and export tables
  (`ntdll.c`, `version.c`, `etw.c`, `swr.c`, `exports.c`): constants and
  placeholders.
* The case tables of Wine (`wine_casemap.h`) and the type definitions of the
  headers, but for the structures and macros the modules use.
* `volumeinfo.c`, a guest program that prints the answers of `Devices`.
* Signals that end the program, and the part of `mmgr.c` that is not built.
* Symbolic links and the services that answer NOT_IMPLEMENTED.

## Plan

What a later version should add, in order of value.

1. A rotation of `SplayLinks` keeps the order of a tree, with the searches written as
   recursive functions; the trees of `RtlProofs` would serve it as they serve
   `SplayTable`. Then the depths that a splay leaves.
2. Events with a lifetime: creation and closing in `Sync` and `Kbd`, with the
   closed handle in the slot (`io.c:666`).
