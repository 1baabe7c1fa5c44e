# A TLA+ model of netflow_converter

netflow_converter reads files of captured NetFlow packets (NetFlow 9 and IPFIX,
plain or compressed with bzip2), decodes the data records with the templates
that the same files carry, filters them and writes them as rows of text. The
files are shared out among several converter threads.

This directory holds TLA+ modules translated from the sources under `src/src`,
TLC configurations that check them on small instances, and TLAPS proofs that the
safety properties hold for any threads, files and messages. `PROJECT.json` maps each definition to the lines it models.

## The system

| component | sources | state it keeps | operations |
|---|---|---|---|
| file list | `data/file_list.cpp`, `filter/filter_time.cpp` | multimap of files by time, one shared iterator, a "started" flag, a mutex | build (recursive scan of directories), hand out the next file |
| main and converter threads | `main.cpp`, `converter/netflow_converter.cpp` | thread ids; per thread the file at hand and the result `iFnRes` | initialise, create, join, report, tear down; draw, open, convert, close |
| data loader | `data/data_loader.cpp`, `data/data_loader_bz.cpp` | counter of opened files; per file a mapping, an offset, a decompressor and the block of its last answer | open, get bytes, close |
| IPFIX template cache | `converter/ipfix/cache` | map from (domain, template id) to a field list on the heap; a read-write lock | add, look up, count fields |
| IPFIX parser | `converter/ipfix/ipfix_converter.cpp`, `converter/ipfix/data_types` | offsets into the message, the set and the record | messages, sets, template records, data records |
| IPFIX data records | `ipfix_data_types.cpp:216-266`, `ipfix_dictionary.cpp`, `nfc_dict.cpp`, mapper, `nf_filter_data.cpp`, output template | locals that live as long as the data set; the output row | convert a field, map its name, filter, place, print, erase |
| IPFIX dictionary | `converter/ipfix/dict` | a map of information elements, keyed by number or range, filled by `main` | add, look up, convert a value |
| NetFlow 9 converter and cache | `converter/nfv9` | set of templates under a lock; count of records of a packet | packets, flowsets, templates |
| NetFlow 9 dictionary | `converter/nfv9/dict` | table of elements | look up, convert a value |
| options and configuration | `util/options.cpp`, `config/conf.y`, `config/conf.l` | one structure of settings; set of directories; stack of included files | read argument, read statement, start |
| logger | `util/logger.cpp` | none | write a line |

How they interact. `main` reads the options, builds the file list, creates the
converter threads, joins them, prints the counter of opened files and destroys
the list and the lock of the IPFIX cache. A converter thread calls
`file_list_get_next_file_info` until it answers NULL; it opens the file with the
data loader and, for each packet, reads a version number and hands the packet to
the IPFIX or the NetFlow 9 converter. Those call their caches (shared by all
threads) and, for each data record, the dictionary, the mapper, the filter and
the output template (private to the call).

What is hard.

* *Threads.* The list's iterator, the counter of opened files and the two caches
  are shared. The iterator is under a mutex; the counter is under nothing; the
  caches are under a read-write lock that is released where it should be taken
  (`ipfix_converter_cache.cpp:218`, `nfv9_converter_cache.cpp:202`).
* *Partial failure.* Any directory, file, mapping, archive, packet or record may
  fail, and only that one should be lost.
* *Locals that live too long.* `iFnRes` outlives its file, the divider, the
  filter's number and the output row outlive their field or record.
* *Bytes.* The size of a file is that of the scan; a compressed file may be
  damaged, hold more than one stream or be larger than an unsigned int can tell;
  an answer lives until the next request.
* *Offsets.* Loops over sets, records and fields advance by lengths that come
  from the message and are not compared with it; a loop that does not advance
  keeps `main` waiting for ever.
* *Order.* Formats read before or after the times they apply to; arguments and
  statements that both set an option; several settings whose "not given" is an
  ordinary value.

What makes each component correct: the list hands out every admitted file once,
in time order, and dismisses a thread only when none is left; the program comes
to its end if its conversions do, operates on every file and tears down after the
last thread; a
cache answers with the latest definition and no reader follows a deleted list;
the data loader hands out the bytes of a file in order and keeps nothing of it;
the parser stays on set boundaries, refuses what it does not know and ends but
where its loops cannot; a
field finds the dictionary's element of its id; a
record is printed if and only if the filter lets it pass, under the right
columns; a setting has the value that the documented precedence gives it.

## Modules

| module | models | state and actions |
|---|---|---|
| `WorkQueue` | abstract: an ordered queue of work shared by workers | `Put`, `Take`, `Finish`, each atomic |
| `FileList` | the file list | `Build` (one step for each directory entry, in any order that readdir may have), `GetNextFileInfo` in four steps: `Lock`, `Advance` (move the iterator, or find it at the end), `Fetch` (read it), `Unlock` |
| `NetflowConverter` | `main` and the threads, EXTENDS `FileList` | `Main`: build, create, join, report, tear down; `Worker(t)`: draw, open, count (a load and a store), read a version, convert (which may fail, and may never return: `Loop`), close |
| `ByteStream` | abstract: what a reader of a file expects | `Get`, `CutShort`, `GetNothing` |
| `DataLoader` | one file in the data loader, and what its callers ask for | open, map and prepare, each of which may fail, `ReadVersion`, `ReadHeader`, `ReadBody` (each a call of `data_loader_get_data`), `ReadFault`, `Close` |
| `RwLock` | the reader counter of `pthread_rwlock_t` | `RdLock`, `RwUnlock`, two C libraries |
| `TemplateStore` | abstract: what a decoder expects of a cache | `Learn`, `Ask` |
| `IpfixCache` | the IPFIX cache with its heap | `ReadTemplate`, `AddTemplate` in seven steps, `ReadDataSet`, `DecodeDataSet` in eight steps |
| `IpfixParser` | the loops over messages, sets, records and fields | one action for each iteration and each way out of a loop, with lookups that the cache refuses and bytes read behind the message |
| `IpfixDictionary` | the IANA table and the map it is put into, with the red-black tree of the C++ library | `AddElement`; lookups are `Entry` |
| `DataRecords` | the body of the loop over fields, with everything it calls; EXTENDS `IpfixDictionary` | `FillDictionary`, `BeginDataSet`, `ConvertAndMap`, `AddField`, `RefuseRecord`, `PrintRecord`, ... |
| `Nfv9Converter` | the threads that convert NetFlow 9 files | packets, flowsets, template records; cache and lock, with a step between taking and releasing the lock |
| `ConfFiles` | the files the lexer of the configuration reads from | `PassStatement`, `IncludeFirst`, `IncludeNext`, `BackToParent`, and the ways to fail |
| `Options` | command line, configuration file, start; EXTENDS `ConfFiles` | `ReadArgument`, `ReadStatement`, `ChangeFile`, `FailToInclude`, `EndOfStatements`, `Start` |
| `Sums` | sums of the lengths of what lies one behind the other, used by `IpfixParser` | no state |
| `NumberTheorems` | induction, iteration, sums, quotients, remainders and a counter that wraps | lemmas only |
| `NetflowConverter_proofs` | theorems about `FileList`, then about `NetflowConverter` | see "Proofs" |
| `DataLoader_proofs`, `IpfixCache_proofs`, `IpfixParser_proofs`, `DataRecords_proofs`, `Nfv9Converter_proofs`, `Options_proofs` | theorems about the module of that name; those about `ConfFiles` are in `Options_proofs`, those about `IpfixDictionary` in `DataRecords_proofs` | see "Proofs" |

`MC...` modules give the constants of each module values; recursion elsewhere is
by recursive functions and the folds of the community modules. `IpfixCache` and `Nfv9Converter` both EXTEND `RwLock`;
`NetflowConverter` EXTENDS `FileList`. What a packet contains is abstracted in
`NetflowConverter` to "converted, not converted, or never done", what a record contains is abstracted
in `IpfixParser` to its length and to "accepted or refused", and where the bytes
of a file come from is left open in both; the modules that open these up are
`IpfixParser`, `Nfv9Converter`, `DataRecords` and `DataLoader`.

Operators marked `Mutant:` are variants of the definition after them with a
plausible mistake. They are not part of the specification; each shows that the
property it is paired with in `PROJECT.json` notices that mistake.

### Correspondence worth knowing

* `iter = End` stands for both "not begun" and "at the end", as in the code,
  which tells them apart by `started` alone (`file_list.cpp:112-117`).
* `failed`, `praised` and `operated` hold positions in the list and not files, for a
  file that is configured twice is in the list twice and is drawn twice.
* `handed`, `mapped`, `failed`, `praised`, `operated`, `learned`, `answer`,
  `visited`, `records`, `beyond`, `rows`, `given`, `stated`, `root`, `served`,
  `lost` and `empty` are history variables. No action depends on them, but for the
  bounds on the lengths of `given` and `root`. `visited` and `records` are not
  carried on in loops that need not end.
* A readdir order is any order: `walk` holds sets of entries still to read.
* `++ g_ui32OpenedFilesCount` is a load and a store (`LoadCount`, `StoreCount`).
* Unlocking a lock that nobody holds is undefined. `RwLock` has what the
  two generations of glibc make of it: before 2.25 the counter of readers wraps
  and a reader fails only where it would become zero again; from 2.25 on every
  reader is refused with EAGAIN while the counter is in the upper half of its
  range. `library` is chosen at the start and never changes.
* A template record of `IpfixCache` that is cut off leaves its list in state
  `"lost"` (`ipfix_data_types.cpp:168` drops the pointer).
* The state `"crashed"` stands for: following the NULL field list in the key of
  the NetFlow 9 cache (`nfv9_converter_cache.cpp:137`); the division by zero
  (`nf_filter_data.cpp:16`); `pthread_join` with the id of a thread that was not
  created (`main.cpp:64`), which may as well return at once; an exception that
  nobody catches, a page behind the end of a file and a write through the NULL of a
  failed `malloc` (`data_loader.cpp:58,91`, `data_loader_bz.cpp:57`); a specifier or a
  value behind the message that is not mapped (`ReadFault` of `IpfixParser`);
  `fclose(NULL)` after an included file could not be opened (`conf.y:83`).
* A message of `IpfixParser` describes, for each of its bytes, the set whose header
  is read if the parser takes this byte for the beginning of one: with lengths that
  the message does not hold to, it may come to any. Sizes that become less than zero
  are the largest of a `size_t`. What is read behind the message is what follows in
  memory: the description of the set at hand holds it too, or the program crashes.
* The data set of an unknown template and that of a known one whose lookup the lock
  refuses take the same path (`SkipDataSet`): the caller cannot tell them apart.
* A file of `DataLoader` is a sequence of tokens. In a plain file each is a byte;
  in a compressed one it is the input that yields one byte, the end of a stream or
  refused input. `RunBz2` is what libbz2 does with them: it finds the end behind
  the last byte in the call that yields this byte. `UIntSize` stands for the 2^32 of
  `avail_in` and `avail_out`: the size of the file and that of a request are taken
  modulo it. `Huge` is the length of a message less than its header, as a `size_t`.
* A thread inside the NetFlow 9 cache is between the lock and its release; an
  operation on the `std::map` itself is one step, although with two threads the
  map's own nodes may be torn, which is undefined.
* The tree of `IpfixDictionary` is libstdc++'s: the order of the keys is no order
  (`ipfix_dictionary.cpp:166-181`), so that the shape of the tree decides what is
  found. `refused` is a key that `std::map::insert` takes for one it has: the
  table ends there and `main` goes on.
* A directive of `ConfFiles` is an item among the statements. The stack's entry is
  written where the code writes it, at the level from which the include starts.

## Runs

| run | bounds | what it shows |
|---|---|---|
| `file_list` | 3 threads, 3 directories (one nested in the other and configured as well, one unreadable), 6 files (two of equal time, one empty, one out of the window, one behind the unreadable directory) | the mutex, the iterator and the flag hand out a complete, sorted list in order, once each, and implement `WorkQueue`; every file is drawn and every thread dismissed |
| `converter` | 2 threads; a directory with a file and a subdirectory with a compressed one, which is configured as well, so that its file is in the list twice; at most 1 packet each | every file is operated on, `main` tears down after the last thread, the count never exceeds the files mapped, no failed file is logged as successful, the program ends, or waits for conversions that never do when nobody else has anything left |
| `opened_count` | the same | *violated*: the count that `main` prints is that of the opened files |
| `cache` | 1 or 2 threads, 2 keys, 2 definitions, 3 field lists, both libraries | with one thread, or two that repeat one definition only, the cache never follows a deleted list; with one thread it leaks none that it was given and implements `TemplateStore`; the properties say so themselves, for beyond that they do not hold |
| `cache_race` | 2 threads, 1 key, 2 definitions, 3 lists | *violated*: the writer's lock excludes others |
| `parser` | 3 messages out of 18, of up to three sets each, with lengths that are right, 0, less than a header or more than the message has | offsets follow the lengths from set to set and leave the message only for one that says so, every record of a data set that gets a template is handled, acceptance is exact, the loops end except where the code cannot: bytes behind the last set, a set of length 0, data sets shorter than a header and records without width |
| `parser_padding` | 1 message with 3 bytes behind its last set | *violated*: every message ends |
| `options` | 3 arguments, 3 items of the configuration file, files nested down to the limit of five and one that includes itself | the precedence that the help text promises, with two exceptions that the property names, and that of directories, read as their time format allows; a directive stands for the text of the files it finds, and the stack stays in its array |
| `conf_stop` | 1 argument, 1 statement | *violated*: a time in the configuration file counts |
| `nfv9` | 1 or 2 threads, 2 files out of 15, of up to six units, flowsets of any size, both libraries | files of plain packets are gone through, every file ends, no template is stored of which a field is missing altogether; with the later library a thread alone compares no NULL list, and every reader is refused once a template is stored and nobody is in the cache |
| `records` | the whole IANA table, lookups of all 2^16 ids; data sets of up to 2 records out of 7 shapes, 7 configurations | every element is found under its id and no enterprise's element is taken for one; a record whose fields the filter can judge is printed if and only if they let it pass, with two exceptions that the property names; rows show under each column what the record's own fields say, with three kinds of values that the property names; only a divider of 0 crashes |
| `loader` | plain files of up to 6 bytes, compressed ones of up to 6 tokens, each recorded with any size up to one more; requests of 0 to 3 bytes, of a version number and of a wrapped size; an unsigned int of 5 values | the loader implements `ByteStream`, in which only a damaged or too large archive is cut short, its answers live until the next request, nothing is held afterwards, every file is left |

Why the bounds are enough. `file_list`: the shared state is one iterator, so
two threads are the fewest that can meet and a third can come between them;
three files handed out make a first, a middle and a last one, and the nested
configured directory makes duplicates. `converter`: two threads can lose an
increment, three places in the list leave one thread with two of them, two of the
places are of the same file, and since the parts of
a file are converted one after the other a second packet adds no new order.
`cache_*`: a template can be new, repeated and changed with two definitions;
a list can be in the cache, in a thread's hand and deleted with three cells, and
a second thread can be anywhere meanwhile. The
number of cells bounds the number of templates read, so the counter of the lock
moves by at most eight and `CounterSize = 32` (for 2^32) keeps its lower and
upper halves apart. `parser`: three messages suffice to define, redefine and use
a template across messages, and each kind of set occurs with each kind of wrong
length that takes the code another way. `loader`: six tokens hold two streams, or
bytes before and behind a refused one, and reach beyond the five values of an
unsigned int, of which one request is a multiple less little; requests of up to three
bytes meet the end of a stream before, at and behind their last byte. `options`: two sources with three entries each let
one setting be given twice after its format was changed. `nfv9`: templates meet
themselves within a file, in the next and in the other thread's, and
`CountRange = 8` stands for the 2^16 of `uint16_t`. `records`: a second record sees
what the first one left. `Word = 65536` stands for the 2^32 of `uint32_t` and
`Garbage` for the values of an uninitialised local.

`MaxPackets`, `Cells`, `CounterSize`, `CountRange`, `MaxMessages`, `HalfRange`,
`MaxArguments`, `MaxStatements`, `MaxFiles`, `HeaderSize`, `UIntSize` and `Word` are
all the bounds there are, with `MaxBytes` and `MaxTokens` of `MCDataLoader`. Deadlock is
checked in every run; a module whose system comes to an end has an action for
being at the end.

### Fairness

The specifications assume no more than that the operating system runs each
thread: weak fairness of the main thread's step and of each converter thread's
step. The mutex of the file list is not granted in turn; a thread that waits for
it may be passed over again and again, but the number of files is finite and
each thread leaves for good once the list is at its end. A thread in a conversion
that never returns is in `Loop`, which is no step of `Work`: it gets no fairness that
would take it out, and `Terminates` says what is left of the program then.
`IpfixParser` and
`DataLoader` have one thread and weak fairness of its step, `Nfv9Converter` of each
thread's step within a file. The cache, the options and the data records are checked
for safety only.

## Proofs

TLC shows a property on the instance of a run; the theorems show it for every
value of the constants that the assumptions allow. Each theorem that states a
property of a run is paired with it in `PROJECT.json`.

| module | theorems | what they say |
|---|---|---|
| `NetflowConverter_proofs`, on `FileList` | `Typing`, `FilesHandedInOrder`, `NoFileLeftBehind`, `ListSorted` | the list is sorted, its files are handed out in order, each once, and nobody is dismissed while one is left |
| | `EveryFileIsListed` | the finished list holds exactly the admitted files of the directories that the scan meets, also in a tree that turns back into itself |
| | `FilesListedAsOften` | each admitted file is in it exactly as often as the configured directories lead to it, in every finite tree |
| | `RunIsBounded` | every step of the scan and of the calls takes something from a natural number, in every finite tree |
| | `FileListImplementsWorkQueue` | every step is one of the abstract queue or a stutter |
| `NetflowConverter_proofs`, on the program | `ConverterUsesFileList`, `ConverterTyping` | the program is a behaviour of the list, so that all of the above holds of it |
| | `EveryFileOperated`, `EveryFileMetIsOperated` | when `main` reports, every place in the list, and so every file that the scan met, was operated |
| | `NoThreadLeft`, `CountBounded`, `NoFalsePraise` | tear-down after the last thread; the count is never too high; a failed file is never praised |
| | `ProgramIsBounded`, `NeverStuck` | every step of the program but the turns of an endless conversion takes something from a natural number, in every finite tree, and until it has ended somebody can take one |
| `DataLoader_proofs` | `LoaderTyping`, `AnswersAreAlive`, `NothingStays` | the three invariants of the `loader` run |
| | `ByteStreamImplemented` | for plain and compressed files, whole, damaged or too large, every answer is a step of `ByteStream` |
| | `ReadingMovesOn` | a reader that goes on was handed a byte, or asked for none and goes on to a header or a version number |
| `IpfixCache_proofs` | `CacheTyping`, `ListsLiveWhileUsed`, `ListsAreFreed` | with one thread or one definition no deleted list is followed, and with one thread none is leaked; for both libraries |
| | `StoreImplemented` | with one thread the cache implements `TemplateStore` |
| `IpfixParser_proofs` | `ParserInvariant`, `StaysInside`, `AcceptedOnlyComplete`, `RecordsAreComplete` | set boundaries, exact acceptance, every record handled, whatever lengths the headers give |
| | `MessagesAreBounded`, `LoopsMoveOn` | each step gets further in what is bounded, but where the parser is `Stuck` |
| `DataRecords_proofs` | `PrintedAsWanted`, `RowsFit`, `CrashIsConfigured`, `RecordsInvariant` | the filter, the columns and their texts, the division by zero, for any dictionary, settings and data sets |
| `DataRecords_proofs`, on `IpfixDictionary` | `ElementsFound` | `main` refuses no key of the IANA table, and every element of it is found under its own id or range |
| `Nfv9Converter_proofs` | `NoFieldIsMissing`, `LoneThreadSafe`, `CacheIsShut`, `PlainFilesFinish` | the invariants and the action property of the `nfv9` run, for any files and threads |
| | `ThreadsMoveOn`, `FlowsetsAreBounded` | each step of a thread in a file gets it further in what is bounded, or out of the file |
| `Options_proofs` | `OptionsTyping`, `OptionsInvariant`, `SettingsAreResolved` | the lexer's stack, the documented precedence of the settings and of the directories |
| | `IncludesStandInPlace` | what the parser was given is the text of the first file with the texts of the included ones in their places, over all levels |

### The inductive invariants

Hardly any of the properties is inductive. What each proof adds to them, and why:

* `IInv` (file list). Between `Advance` and `Fetch` the iterator is one ahead of
  what was handed out, so the relation of the two depends on where the thread is,
  and it survives the other threads' steps only because no other is between them:
  `InsideHolds` (who is between lock and unlock holds the mutex), `InvIter` (the
  iterator equals the number handed out unless somebody has just moved it) and
  `InvThread` (the same seen from each thread). `ListSorted` has an invariant of
  its own.
* `WInv` (the scan). A directory may be met more than once and a scan may turn back
  into the one it comes from. `OnTheWay` says that what is listed or still to be
  read was met; `Accounted` that there is a set of directories whose entries are
  all dealt with or on the stack of what is left. When nothing is left this set is
  closed and hence holds every directory that the scan meets.
* `CountInv` (the scan) is the balance behind `FilesListedAsOften`: for each admitted
  file, the places it has in the list and what the directories that are open or
  waiting still come to (`Unpaid`) add up to what the configured directories came to
  at first (`Total`). A step pays with one what it takes from the other. `StepsLeft`
  counts with the same tolls the steps that the scan has left, and the calls that
  are still to come; `HolderGoesOn` says that the holder of the mutex is inside its
  call, where it waits for nothing, so that no call fails for ever.
  `ProgramLeft` adds what each thread and `main` have left of the work at hand.
* `CInv` (the program) is `IInv` with where `main` and the threads are (`InvCalls`,
  `InvMain`), every place handed out operated or in the hand of the thread it was
  handed to (`InvFiles`), the result that a thread still has in hand (`InvPraise`),
  and each loaded count below the files mapped (`InvCount`).
* `LInv` (data loader). `Handed` says what was handed out: of a plain file up to the
  offset, of a compressed one all that the decompressor consumed, and its whole
  payload once the stream is over, unless the archive may be cut. `Holding` says what is held at each place.
* `HInv` (IPFIX cache) has three parts, since the properties hold under two
  conditions: `Always`, `WhileOneDefinition`, and `WhileAlone`, which follows the
  one list in the thread's hand through the seven steps of adding it. With the
  older library the reader counter is even just where the thread is outside the
  lock, which is why it never refuses this thread.
* `PInv` (parser). `PPlace` says that the offset is what one gets to by going from set
  to set as often as sets were handled, and that whatever was read behind the message
  is owed to a set on this way that does not fit; `PRecord` that the offset within a
  data set is so many times the length of the template's record as records were
  handled and that the next one fits, unless the data set is shorter than its header.
* `RInv` (data records). `PassedSoFar` and `RowSoFar` say what the locals that
  outlive a field amount to: the fields so far passed the filter, the row holds
  their columns. Both are said in terms of the field's value and of the documented
  meaning of the settings, so that the proof also shows that the code's conversions
  yield it outside the named exceptions.
* `DictShape` (dictionary). `operator <` says of two ranges that each is less than
  the other, so that the tree has no order of its own: what is shown is that the nodes
  stand in the order of their insertion (`SearchTree`, kept by every rotation,
  `RotationKeepsTree`). A new key goes down the right edge as long as no node there
  tells it to go left, and only another range would. Where the edge's nodes are does
  not follow from their order. `Spine` has it: the edge has levels with two nodes
  each, and how many nodes a level stands for is read off the binary digits of the
  number of keys (`Halves`). A new node then goes up the edge as a carry goes through
  these digits: through a level of odd number by a change of colours
  (`OddLevel`), to its end in an even one by a rotation (`EvenLevel`), or at the root
  (`Growing`, `Finished`). With 101 and 457 keys, when the second and the third
  range come, the ranges before them are not on the edge (`RangesOffEdge`). A lookup
  compares single ids with ranges only, for which the order is one (`FirstOfUpper`).
* `NInv` (NetFlow 9). `Counted` ties the reader counter to a `Balance` of the threads
  inside the cache, those storing and the number of templates stored, and bounds
  that number by the threads; `LonelyFirst` keeps a lone thread out of a cache that
  is not empty; `Recorded` keeps a template's fields in sight until it is stored.
  `KeepsPlace` is the invariant of `PlainFilesFinish`: in a file of plain packets a
  thread knows which unit is next and how many records it still expects.
* `OInv` and `FInv` (options). `SoFar` and `DirsSoFar` are the precedence of what was
  read until now. `Laid` says, at each level of the stack, which text the parser was
  given before the file at that level was begun; `Below` ties it to the directive
  on the level beneath and to the files that it has already gone through.

`WorkQueue`, `ByteStream` and `TemplateStore` are implemented step by step: in the
list the scan's `AddDataFile` is `Put`, `Fetch` of a file is `Take`, the unlock of
an empty answer is `Finish`; in the cache `ReadTemplate` is `Learn`, a lookup in the
map or one that is refused is `Ask`; in the loader each call is a `Get`, or one of
the two ways in which a damaged or too large archive gives less. All other steps stutter.

### What is assumed

Beside the types of the constants:

* `FileListAssumption`: a directory is no file, and NULL is neither a thread nor a
  file. `ConverterAssumption`: there is a thread at least (`main.cpp:50-52` takes the
  default for 0), and they are numbered from 1.
* `FiniteTree` is a hypothesis of `FilesListedAsOften`, `RunIsBounded` and
  `ProgramIsBounded` alone: a directory has finitely many entries, and a recursive scan
  ends below each. With a directory that leads back into itself the code scans
  for ever. `EveryFileIsListed` and all that is said of the order, of the threads and
  of the program's end do without it.
* `RwLockAssumption`: the counter's range is even and greater than 1.
  `Nfv9Assumption`: it is at least ten times the number of threads, which bounds
  how far the unbalanced releases take it; 2^32 against at most as many threads as
  a process has.
* `CacheAssumption`: NULL is neither a list nor a definition.
* `LoaderAssumption`: tokens are told apart; a request is less than the range of an
  unsigned int, for it is a length of 16 bits, or it wraps around: then it is larger
  than any file and its header, and no multiple of that range. Files may be of any
  size.
* `ParserAssumption`: lengths, and the sum of the widths of a template, are numbers
  less than half the range of a `size_t`: they come from fields of 16 bits. Nothing is
  assumed of how a set's length fits the message or what the set holds.
* `RecordsAssumption`, `OptionsAssumption`, `ConfFilesAssumption`: the settings are of
  their types, an information element has not the name of a time, an include
  directive is not a statement, and no file is the reader's own.

The provers have no induction. `NumberTheorems` draws it, for sets of natural
numbers, from the minimal elements of well-founded sets
(`WellFoundedInduction`); the proofs show with it that the recursive functions of the
models (`SumTo`, `Reached`, `BytesTo`, `TextOver`, the depth of `Meets`, the way down of `Way`,
the rounds of `Grown`) are the recursions that they are defined
by, and what a sum over a finite set (`SumFunctionOnSet`) is when one summand changes. Where a folded operator of the community modules is used (`FlattenSeq` of
`ConfFiles`), `Options_proofs` proves what it yields at each length.

### What only TLC checks

* Liveness: `QueueDrained`, `Terminates`, `EndsUnlessStuck`, `FileEnds`, `FileLeft`.
  The prover has neither ENABLED nor an induction over behaviours. The safety core
  of each is proved: every step gets further in something that is bounded
  (`RunIsBounded`; `ProgramIsBounded`, with `NeverStuck`; `LoopsMoveOn` with
  `MessagesAreBounded`; `ThreadsMoveOn` with `FlowsetsAreBounded`; `ReadingMovesOn`
  with `LoaderTyping`). That a step which can be taken is taken is the fairness.

Every invariant and every safety property of a passing run is a theorem.

## Where the code disagrees with what is said of it

Four disagreements are runs of their own, listed under "findings":

* `opened_count`: the counter of opened files is incremented without a lock
  (`data_loader.cpp:54`), so that an increment may be lost.
* `cache_race`: `ipfix_converter_template_cache_wr_lock` unlocks
  (`ipfix_converter_cache.cpp:218`).
* `parser_padding`: one to four bytes behind the last set make
  `ifpix_parse_packet` loop for ever (`ipfix_data_types.cpp:53,93`). The converter
  thread then never comes back and `main` waits in `pthread_join` (`main.cpp:64`);
  `Terminates` of the `converter` run says what becomes of the other threads.
* `conf_stop`: `filterTimeStop` in the configuration file is never taken
  (`conf.y:218` compares with 0, `options.cpp:125` sets -1).

Others are part of the models, which follow the code, and visible in how the
properties are worded:

* After a file whose packet failed, a file without any packet is not logged as
  successful: `iFnRes` is set once for each thread (`netflow_converter.cpp:29`).
  `PraiseDeserved` states the direction that holds.
* With glibc 2.25 and later the first template makes every later reader fail, so
  that the data of a template that was learned are skipped. `TemplateStore` has
  `refusing` for it, and `EveryRecordHandled` speaks of the data sets for which the
  cache hands out a list.
* The cache is not safe for several threads that learn different definitions
  (`cache_race`). `NoUseAfterFree`, `NoLeak` and `ImplementsTemplateStore` are
  therefore stated of a lone thread, the first also of threads that repeat one
  definition: they show that the code is right where its lock does not matter, and
  nothing about the interleavings that the lock should exclude.
* Set lengths are not checked (`ipfix_data_types.cpp:98-106`). A set of length 0 leads
  to itself, for ever; so does a data set whose records have no width, and one that is
  shorter than its header has all but endlessly many. A set that is longer than the
  message takes the parser behind it. `InsideMessage` and `EndsUnlessStuck` name
  these cases.
* Of the last field of a NetFlow 9 template up to three bytes may lie behind the
  flowset; it is read and stored (`nfv9_data_types.cpp:157-163`). `NoFieldMissing` says
  this much.
* The NetFlow 9 cache has the same lock, and its keys hold a NULL field list, so
  that data records are never decoded (`nfv9_converter_cache.cpp:137,202`).
* `outputFormatDate` in the configuration file is never taken either (`conf.y:263`,
  `options.cpp:132`): `Overlooked` in `SettingsResolved` names both. A value on the
  command line that equals "not given" is replaced by the file's (`conf.y:236`), though
  the command line should override (`options.cpp:241-254`): `Overruled`.
  `converterResultFile` has a rule in the grammar (`conf.y:320`) and no keyword in the
  lexer (`conf.l:247-261`).
* Without `filterTimeStop` the end of the interval is -1, which the filter takes as a
  limit: every record with a `flowStart` is refused (`options.cpp:125`,
  `nf_filter_data.cpp:29`). `PrintedIffWanted` names it, `ShutOut`.
* `flowEnd` is an attribute of the filter by the help text (`options.cpp:214`) and has
  no branch in `nf_filter_data.cpp`: `Overlooked` in `PrintedIffWanted`.
* A `flowStart` or an address that cannot be converted is judged by the number of an
  earlier field (`ipfix_data_types.cpp:257`). Nothing says what should happen, so
  `PrintedIffWanted` leaves such records out, and holds for those behind them.
* The fraction of a time is 0 when the unit of the output is coarser than that of
  the element (`nfc_dict.cpp:124`), a time that the C library cannot break down or
  whose format yields nothing has no text (`nfc_dict.cpp:82-94`), and neither has an
  IPv6 address of 32 characters or more (`nfc_dict.cpp:28`). `RowsFitTemplate` states
  the text of a field without the code's conversions and names these three.
* A compressed file is over with its first stream or the first error in it, and
  what one request yields before an error is dropped (`data_loader_bz.cpp:64-72`);
  a file that grew since the scan is read in its old size. `ByteStream` has
  `mayBeCut` for the former, `Payload` is of the recorded size for the latter.
* The decompressor is given the size of an archive modulo 2^32
  (`data_loader_bz.cpp:40`): a larger one is cut short (`TooLarge`). The room for an
  answer is taken modulo 2^32, too (lines 60, 67), so that a request with a wrapped
  size at the end of an archive is answered by a number that is none of bytes; no
  caller looks at them (`AnswerAlive`).
* A compressed file whose stream yields nothing for a request loses the block that
  was allocated for it (`data_loader.cpp:99`): `NothingKept` allows for it.
* With an enterprise bit the id and the number are read so that no element is ever
  found (`ipfix_data_types.cpp:204`): such fields are skipped.

## Not modelled

* The decoding of NetFlow 9 data records and the NetFlow 9 dictionary: the search
  for their template never succeeds, so the program never gets there; names of
  elements are otherwise looked up for log messages only.
* What bytes behind an IPFIX message mean: whatever set they are taken for is any set
  of the constants. NetFlow 9 flowsets that are shorter than their header or longer
  than the file are files cut off in `Nfv9Converter`.
* A second template record in a set: the code takes it for padding.
* The end of a file within an include directive, and a statement that begins in one
  file and ends in another; the rules of the grammar are one step for a statement.
* The descriptions, names of units and value ranges of the dictionary's elements,
  which only text depends on.
* The logger and the byte-order conversions of the headers: nothing depends on
  them but text.

## Plan

Done: all modules of the table above, and all that their runs check but liveness as
theorems.

What may come next:

1. The five liveness properties, once the provers have an induction over behaviours:
   the measures that they need are there.
2. `IpfixDictionary` for any table: what `Spine` says holds for any number of
   ascending keys, but `Levels` and the places of the ranges are those of the IANA
   table. A table with further ranges needs `RangesOffEdge` to hold for each of them,
   which is the condition to check when `ipfix_dict_iana.cpp` is brought up to date.
3. The decoding of NetFlow 9 data records, once the search for their template can
   succeed.
