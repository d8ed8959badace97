# hostman in TLA+

A TLA+ model of hostman, a C program that uploads files to configurable hosts,
keeps a configuration file and a history of uploads, and lets its user delete
what was uploaded. The modules are translated from the code under `src/`; TLC
checks them on small instances and TLAPS proves the invariants and refinements
for every instance. Paths below are relative to the repository's root, `src/` there being
the C sources.

## 1. The system

hostman has no threads and no daemon: one command, one process, one thread.
What is hard about it is what several such processes share (`config.json`, the
SQLite history, the hosts), what happens between the steps of a command that is
interrupted or half fails, and the order in which its parts call one another.

| Part | State | Operations | Talks to |
|---|---|---|---|
| configuration (`src/core/config.c`) | `config.json`; `current_config`, loaded once per process | load, save, add, remove, set default, set a key | log (errors), editors and commands |
| host management, editors (`src/network/hosts.c`, `src/cli/tui.c`) | the cached configuration, changed in place; `modified` | add, preset, import, edit, remove, list; loops | configuration; uploads use the host later |
| transfer (`src/network/network.c`) | a response, a receive buffer, `retry_count` | `network_upload_file`: checks, attempts, judging the answer | the remote host, through libcurl |
| upload command (`src/cli/cli.c`, `CMD_UPLOAD`) | lists of URLs and failures | loop over files, summary, exit code | transfer, history, clipboard |
| history (`src/storage/database.c`) | table `uploads`; per process, whether it has the column `deletion_url` | open and migrate, insert, list, delete | SQLite, shared by processes |
| history and delete commands (`src/cli/cli.c`) | the record shown with a question | list-uploads, delete-upload, delete-file | history, remote host |
| log and start (`src/core/logging.c`, `src/main.c`) | `log_mutex`, `log_file`, `current_log_level` | init, message, cleanup; order of start and end | configuration, which logs |
| setup wizard (`src/cli/cli.c`) | - | writes a first configuration, then adds a host | configuration |
| arguments (`parse_args` of `src/cli/cli.c`) | `args`, with the files of an upload and a temporary file | parse, collect files, free | clipboard, `main` |
| clipboard (`src/core/utils.c`) | the program found, cached | read text, a path or an image; write text | external programs |
| JSON paths (`extract_json_string` of `src/core/utils.c`) | position, current value | walk a path over a document | cJSON; transfer uses it |
| notification, ui, windows, encryption, cJSON | no state that outlives a call | formatting, encoding, drawing | - |

What makes each part correct, and what threatens it:

- **configuration.** `default_host` names a host that is there; names are
  unique; a change reported as made is stored; commands of one user act as
  atomic changes of one configuration. Threats: two processes and no lock, a
  file truncated before it is written, a full disk, a crash, a failed save
  after the copy was changed in place, a long sequence of edits.
- **transfer.** A call returns; the number of copies a host may end up with is
  bounded by the attempts; the URL reported is that of this attempt's copy.
  Threats: an attempt that times out after the host stored the file, an answer
  to one attempt mixed with another's, off-by-one in the attempts, returns
  before the response is initialized.
- **upload command.** Each file is settled once and in order, the exit code
  and clipboard agree with that, and nothing is sent after a failure unless
  asked. Threats: partial failure of a batch, a locked database, an interrupt.
- **history.** What a user confirms is what was shown; one row for a URL; a
  deletion is reported once; the migration ends with the column there.
  Threats: other processes between the statements of a command.
- **hosts.** What an upload does is what the values last entered say; what
  adding and editing accept, uploads accept. Threats: values that are too long
  or empty are stored and dropped by the next load; a type changed after a key
  was left out; the lists of types in several places.
- **arguments and clipboard.** Global options mean the same in every place; the
  temporary file is there when it is read and gone in the end; a copied file is
  found. Threats: a loop of its own for each command, a write that half fails,
  ways out of parsing, programs that are installed but cannot be used.
- **JSON paths.** A path yields what it means, and the walk never leaves it.
  Threats: off-by-one at the end of a key, a number or the path.
- **log and start.** The one non-recursive mutex is free between calls, no
  line is lost, and everything brought up is taken down when `main` returns
  (not when `parse_args` calls `exit`).
  Threats: `logging_init`, `log_message` and `config_load` call one another.

`PROJECT.json` lists these hazards at their lines with the properties for them.

## 2. The modules

| Module | Models | Kind |
|---|---|---|
| `HostConfig` | the configuration value: printing, parsing, the changes in memory | operators |
| `ConfigStore` | processes over one `config.json` | state machine |
| `ConfigRegister` | one configuration, changed atomically | abstract specification |
| `Transfer` | one call of `network_upload_file` and the remote host | state machine |
| `Upload` | `CMD_UPLOAD`; extends `Transfer` and adds history, clipboard, exit code | composition |
| `BatchReport` | what `CMD_UPLOAD` promises of a list of files | abstract specification |
| `JsonPath` | `extract_json_string`, one character after the other, with its callers | state machine and reference definition |
| `HostLife` | one host from its adding to the uploads that use it | state machine |
| `Clipboard` | which program reads the clipboard, and what is made of it | operators |
| `CommandLine` | from `argv` to the exit code; extends `Clipboard` | state machine |
| `History` | the table, its migration, the commands on it, several processes | state machine |
| `Logging` | the call stack of `logging.c` under `main`'s start and end | state machine |
| `MCConfigStore`, `MCHistory` | views for TLC, and the symmetry of `HistoryPair` | instances |
| `MCJsonPath`, `MCCommandLine` | the documents, paths and command lines for TLC | instances |
| `HostConfigProofs` | lemmas on the operators of `HostConfig` | proofs |
| `ConfigStoreProofs` | invariants of `ConfigStore`, and that it implements `ConfigRegister` | proofs |
| `UploadProofs` | invariants of `Transfer`, that `Upload` implements it and `BatchReport`, invariants of `Upload` | proofs |
| `HistoryProofs`, `HostLifeProofs`, `LoggingProofs`, `CommandLineProofs` | invariants of the module each is named after | proofs |
| `JsonPathProofs` | that the walk stays in its path and finds what `Meaning` says | proofs |

`PROJECT.json` maps each definition to the lines it translates. The operators
marked "Mutant of ..." are not part of the specifications: each is a plausible
wrong version of the definition it names, kept to show that a property notices.

### HostConfig

A host is a name and one property, `endpoint`, which stands for the seven
strings that "config set" may change in the same way. `hosts` is a sequence
whose entries may also be `NullHost` (the code leaves NULL in slots) and
`FreedHost` (the code leaves a pointer to freed memory). `ConfigToJson` skips
empty slots, `ParseConfig` drops hosts without a name and leaves NULL slots
behind; neither is the identity, and what section 3 says of the empty name
depends on that.

### ConfigStore

Per process: `mem` is `current_config`, `buf` the configuration being saved,
`pc` where it is. `Start` is the load that `logging_init` makes, `Stat` main's
test for a first run, `OpenEditor`, `ShowHosts` and `Quit` the loops of the
editors, `Exit`, `Kill` and `Crash` the ends of a process. Each operation of
the configuration loads, changes the copy in place and begins a save
(`ChangeAndSave`) or fails (`Refuse`). `config_save` is two steps, `OpenFile`
(`fopen(.., "w")`, from where on the file is empty) and `WriteFile`, or one of
the failures: `OpenFails`, `WriteFails` (`fputs` fails), `FlushLost` (`fclose`
fails, which the code does not look at). `Faults` chooses what may fail.
`WriteFile` is one step, which is exact as long as the text fits stdio's buffer
(4096 bytes with glibc, some ten hosts): a longer one takes several `write`
calls, and those of two processes could mix, which no run shows.
`spoiled` is a history variable: a save was cut off, by a crash, a failed write or
a lost flush, and no save was complete since. No guard reads it.
`StoredConfig` is the refinement mapping to `ConfigRegister`: a save takes
effect when the file is opened, since from there on no other content can come
back.

### Transfer and Upload

`Transfer` names a copy by the upload and the attempt that sent it. The host
may store what it got now, later, or never (`HostStores`), and may answer with
or without a URL and with any code (`HostAnswers`), or the exchange breaks
(`Break`, also the timeout). `UrlIn` is `extract_response_value`: JSON path,
fallback to a body that looks like a URL, or the path "raw". An early return
before the response is initialized leaves fields `Unset`. `max_retries` counts
attempts, not retries. `CurlFails` lets `curl_easy_init` fail; the run has it
FALSE, since `FailsOnlyInTheEnd` says nothing otherwise, and the theorems cover
both.

`Upload` runs `Transfer` for each file, and implements it: `ImplementsTransfer`
is the specification of `Transfer` as a property of the command. So what is
proved of any sequence of calls holds in the command, and
`Transfer` needs no run of its own: `UploadList` checks its properties where
the command makes the calls. `Record` ignores what `db_add_upload`
returns; the single-file and the batch path use the clipboard at different
times (`Uploaded`, `Summary`). Whether there is a clipboard is chosen once,
since the command copies at most once.

### History

Each SQL statement is one atomic step and may fail with `SQLITE_BUSY`, the
`PRAGMA` that looks for the column too (`CheckColumnFails`). A row's
id comes from AUTOINCREMENT (`lastId`). `IsNewest` is `ORDER BY timestamp DESC
LIMIT n`, with ties in any order. A command that asks its user (`confirm`,
`confirmFile`, `confirmRow`) keeps the record it showed while other processes
go on. The host behind delete-file is external: it deletes or refuses, and its
answer may be lost.

### HostLife

Each command is a process of its own that loads, changes and saves. A text is
abstracted to how long it is (`Text`): what fits everywhere, what is over the
limit `parse_host_config` has for its field ("long"), what a dialog of the text
window cuts at 511 characters ("wide" becomes "cut"), `""` and NULL; those that
fit are told apart by when they were entered. `Parsed` is what a load makes of
them. `Answers` are what a prompt lets through, 510 characters and never
nothing; `AnyText` what an argument or an imported file may hold. `typed` and
`asked` remember what was entered, before any load dropped it: an upload is
compared with them, not with the file. An editor whose process goes on after a
failed save counts as open, since it has its edits still; `LoseEdits` is the end
of a process. `ConfigStore` has the other hosts, the
failures and the processes that run at once, and there a host has one property.

### JsonPath

A path is a sequence of tokens, the smallest alphabet that shows each branch:
dot, brackets, digits, parts of keys. The steps are the loops of the code, one
character at a time; `CharAt` past the end is the NUL, and `ReadsWithinPath`
says that nothing behind it is read. `Meaning` is the reference: it cuts the
path before each dot and bracket, and what a part of the path leads to
(`Reached`) is found from the part before its last piece, with no loop over
characters and no place in one. It is a recursive function, which the proofs can
unfold. A request is one path, or the three that `network_upload_file`
tries for the text of an error. Keys are compared as cJSON does, without case.

### Clipboard and CommandLine

`parse_args` is written as a function, `Parse`, since up to the files of an
upload it only reads `argv`. Its loops over `argv` are recursive functions:
`OutputAfter` the one over the global options, `Scanned` the one over
`getopt_long`, which takes options and words in any order (`Scan` is one word of
it), `Only` the ones that skip global options. `NoWord` stands for a null
pointer. Collecting the files is steps: the clipboard
may be looked at, and an image written to a temporary file, whose content
(`temp`) is followed to its removal in `free_command_args`, which goes by
`args.clipboard_temp_file`, not by the list of files. `ParseArgs` may
also leave the program, as the code does for `--help` and unknown options.
What `execute_command` does with the arguments is in the other modules; here
it reads the temporary file and has an exit code.

### Logging

`calls` is the stack of calls of `logging.c`; a step looks at its top. A call
that needs `log_mutex` while it is held can take no step: there is one thread,
and the mutex is not recursive. `main` goes through start, first run, network,
database, arguments and command. It returns from `--version`, from the wizard,
where the network or the database fails, and when the command is over
(`TakeDown`); the one other way out is `exit` in `parse_args` (`ParseExits`),
with everything up. The world it meets (the file, the cache
directory, the other log) is chosen in `Init`. `LinesAreComplete` says by ranks
which line a message has: the line after as many as there are messages before
it that the level lets through.

## 3. The runs

Passing runs:

| Run | Shows | Bounds |
|---|---|---|
| `ConfigPair` | under failing opens, failing and lost writes and crashes, no configuration anywhere has a missing default or a repeated name; a host freed after a failed save is never searched, changed or saved; the file is cut short only during a save or after one that was cut off, it heals unless one is, and a start hangs only on such a file | 2 processes, 2 host names, none empty, 1 value |
| `ConfigSolo` | one process at a time without faults implements `ConfigRegister`; the cached copy is what a new load would give, and an added host stays | 1 process at a time, 3 names, 2 values, 2 levels |
| `UploadList` | the command implements `BatchReport` and `Transfer`, and ends; history, clipboard and exit code agree with the host; copies are bounded, a success names its copy, no call is given up early, no answer is missed | 1 or 2 files, 2 attempts, locked database, interrupts |
| `JsonPath` | the walk finds what `Meaning` says, and stays in the path | paths of up to 5 tokens out of 7, 4 documents and one that does not parse |
| `HostLife` | an upload does what was last saved, whatever loads drop; the editors accept what uploads accept | 1 host, 2 values entered after it was added |
| `CommandLine` | global options mean the same everywhere; the temporary file's life; a copied file is found | 4 words (5 for config) out of those a command looks for; every set of programs and displays |
| `HistoryPair` | the row behind a confirmed id, unique URLs, one report per deletion, no process counts on a missing column | 2 processes, 2 URLs, 3 rows, window of 1, 1 second |
| `Logging` | the mutex, the lines, what is taken down, and that main gets to where it waits or ends, where a log can be opened | at most 6 messages |

Why the bounds are enough: the hazards involve two processes and one shared
object, so that two processes meet them (a third would repeat the role of one
of them); two names distinguish "the default" from "another host", and three
let a removal move a default among several; two attempts have one that is
retried and the last, and the theorems hold for every number; two files have one before and one after a failure; a window
of one row and three ids let a row be outside the window, and an id be reused
if ids could be; six messages are what the start sends on its longest way and
some of the command's, with each level on both sides of the configured one.
Two values entered let one field's be dropped by a load and another be changed
after it. Five tokens hold a key, an index of one digit and what may follow
them, or a bracket with two digits; an index is an `int`, which ten digits
could overflow, and the model's has no limit. Four words hold a command, two of
its words and a global option in any place.
The safety results that matter most do not rest on the bounds: section 5.

`SYMMETRY` is used only in `HistoryPair`, which has no liveness property. `VIEW`
leaves out variables that no guard reads, nor any property of the run but its
type invariant (`promised` and `result` in `WithoutHistory`, `printed` in
`WithoutOutput`).
`CHECK_DEADLOCK FALSE` stands where the system stops: a call that returned, a
command that ended, a process bound on its rows, a thread that waits for its
own mutex. `ConfigStore` never stops and is checked for deadlock.

Runs that find a violation, each of a property that the manual or a message of
the program states:

| Run | What the code does |
|---|---|
| `ConfigLostUpdate` | a second process writes its older copy back: a host reported as added is gone |
| `HostPreset` | the preset imgbb has the `auth_type` "param", which uploads refuse, and before the fields the caller reads are set |
| `LoggingFirstRun` | without a log that can be opened, the first run waits for its own mutex before the wizard |
| `LoggingEmptyFile` | an empty `log_file`, which is to disable logging, opens the default log |

The models also have the following behaviours, which no run is spent on: each
is a step of the modules.

- `Start`: a start that finds an empty or cut file, during another process's
  save or after a crash in one, reports it (`src/core/config.c:463`) with the
  log's mutex held, and waits for that mutex forever
  (`src/core/logging.c:117`, `200`). `HangsOnlyOnACutSave` says that this is the
  only way to it.
- `ShowHosts` after `NotSaved`: a host that could not be saved is freed, and the
  editor's next list reads its name (`src/network/hosts.c:446-468`, `696-711`).
  `FreedHostStaysAside` says that it goes no further.
- `HostAdd` of `EmptyName`: an imported host named "" becomes the default
  (`src/core/config.c:953-956`); the next load drops it (`config.c:41`), keeps
  the default, and leaves a NULL slot (`config.c:262-279`), which list-hosts
  reads (`src/cli/cli.c:1635-1640`). `ConfigPair` has no such name, and the
  theorem `DefaultStaysAHost` excludes it.
- `Insert`: a URL that is in the history already leaves its old row as it is,
  without the deletion URL just shown (`src/storage/database.c:192-199`).
- `RejectHost`: a host that is refused leaves fields `Unset`
  (`src/network/network.c:340-371`), and `ReadUnset` is the caller that reads
  one (`src/cli/cli.c:1311`). `plain` in `HostLife` says which hosts cannot.
- `KeepText`: a dialog left empty cuts an endpoint of more than 511 characters
  and stores it (`src/cli/tui.c:149-153`).
- `Parsed`: a value that a prompt accepted is dropped by the next load when it
  is over its field's limit (`src/core/config.c:63-126`).
- `CloseEditor`, `LoseEdits`: the text window's editor does not look at what
  `config_save` returns (`src/cli/tui.c:325`, `444`).
- `WriteTemp`: what `fclose` could not flush is lost unnoticed, and the file is
  uploaded cut short (`src/core/utils.c:892-904`).
- `Copied`, `HasFile`: of several URIs only the first is taken, and
  `file://localhost/...` is not understood (`src/core/utils.c:617-653`).
- `HasImage`: xsel and pbpaste give no images (`src/core/utils.c:824-831`).
- `ParseArgs`: an unknown option ends the program with exit code 0, as `--help`
  behind a command does; `--help` without one fails, since the first word
  without a dash is the command. `help --quiet upload` looks for "--quiet".
  `--directory` ignores other words, as most commands ignore those they do not
  look for.
- `FlushLost`: a change is reported that is not on the disk, because the result
  of `fclose` is ignored (`src/core/config.c:533-542`).
- `OpenFails` in an editor: the change reported as failed stays in its copy,
  and the next successful save stores it.
- `RecordFails`: an upload is reported and missing from the history, because
  the result of `db_add_upload` is ignored (`src/cli/cli.c:1359-1364`).
- `AddColumn`: the process that loses the race to add the column takes it to be
  missing, although it is there (`src/storage/database.c:71-76`).
- `Misses`: delete-upload and delete-file look among the newest 1000 rows only
  (`src/cli/cli.c:1775`, `1849`).
- `ListUploads`: an empty history is reported as an error
  (`src/cli/cli.c:1523`).

The manual also names the database `hostman.db` (`man/hostman-config.5:97-104`);
the code calls it `history.db`.

## 4. Fairness

- `ConfigStore`: weak fairness of `Save(p)` and `Stat(p)` only. A process that
  runs is scheduled and `config_save` waits for nothing. Nobody has to start a
  process, answer a prompt, choose a command or interrupt one that hangs.
- `Upload`: weak fairness of the command's steps, those of its call among them,
  and of the exchange as a whole (`HostAnswers \/ Break`). The exchange ends
  because `CURLOPT_TIMEOUT` is set (`src/network/network.c:286-287`). The host
  need not store anything, and `Kill` is never fair.
- `HostLife`, `JsonPath`, `CommandLine`, `History`: none, nothing is claimed
  about what must happen there.
- `Logging`: weak fairness of the steps inside `logging.c` and of those that
  `main` takes on its own (`InLogging \/ OnItsOwn`): one thread that the system
  schedules. A thread that waits for its own mutex has no step to take, and
  `MainGoesOn` would show it. The wizard, the arguments and the command are not
  fair: they may wait for a user, and delete-file's request for a host, forever
  (`Waits`). `MainGoesOn` says that nothing else holds `main` up.

The request of delete-file has no timeout in the code, and nothing is claimed
about its end.

## 5. The proofs

All eight proof modules are checked to the last leaf; what they assume of the
constants are the named ASSUMEs of the specifications (sentinels are distinct
from real values; bounds are naturals; no digit is a dot or a bracket; argument
lists are sequences of strings), which
TLC evaluates in every run. A theorem that holds only for some constants says so
in its ASSUME, listed below.

**HostConfigProofs.** What each operator of `HostConfig` preserves: that the
result is a configuration, which names it has, that names stay unique, that a
default exists and is chosen. The key lemma is `KeptProperties`: compacting the
slots of a sequence by an index set keeps their order, and is a bijection onto
that set, by counting with `Cardinality`.

**ConfigStoreProofs.** The invariants are not inductive as they stand, for two
reasons. The copy in memory, the configuration being saved and the file must
be good together, because each becomes another; and an intermediate state has
to be known exactly, for instance that between `BeginSave` and `NotSaved` the
last slot of the copy is the host being added. `IInv` is `TypeOK`, `FileInv`
(what the file holds is good), `CopyInv(p)` (what the copy is, at each `pc`)
and `SaveInv(p)` (`buf` is good while saving, and is the copy unless it is the
wizard's or a fresh one). From `Spec => []IInv`:

- `TypeCorrect`: `Spec => []TypeOK`.
- `NamesStayUnique`: `Spec => []HostNamesAreUnique`, under every fault.
- `DefaultStaysAHost`: `EmptyName \notin Names` implies
  `Spec => []DefaultIsAHost`. The hypothesis is needed: an imported host
  named "" becomes the default, and the next load drops it.
- `FreedHostStays`: `Spec => []FreedHostStaysAside`, under every fault. It is
  `CopyInv` and `SaveInv`: what is searched, changed or saved is intact.
- `TornOnlyWhileSaving`: `Spec => []TornHasAWriter`, under every fault, where
  `spoiled` says that a save was cut off; and from it `HangsOnlyOnTorn`, since a
  process only hangs at a start that reads a file cut short.

The others are about one process at a time and nothing that fails:
`Procs = {p}`, `Faults = {}`, `EmptyName \notin Names`; `ConfigLostUpdate` shows
what a second process does to them. `SoloInv` says what the file
is at each `pc`: torn exactly at "open"; absent at most up to the first save,
and then nothing has been promised; equal to the copy, where there is one, but
while a save is going on; and at "save" one change (`Changed`) away from what is
to be saved, or absent where that is the wizard's fresh configuration. The
hosts promised are among those of the file, and of what is being saved. Its
heart is `RoundTrip`: printing and loading a configuration without empty slots
changes nothing. From it:

- `CopyStaysCurrent`, `AddedHostsStay`.
- `StoreImplementsRegister`: `Spec => ImplementsRegister`. Opening the file is
  the step of `ConfigRegister`, by the change the command made in memory
  (`ChangedIsAStep`); every other step leaves `StoredConfig` as it is.

**UploadProofs, of one call.** `TInv` is the type invariant with `LoopInv` (how
`retry_count` and `pc` are related, and that whatever was sent came from an
attempt already counted) and `BodyInv` (whatever is in the body came in this
attempt, and each URL in it names this attempt's copy, which is stored). From it: `TransferTypeCorrect`,
`CopiesStayBounded`, `SuccessHasItsCopy`, `FailsLate`, `UrlIsAlwaysTaken`.

**UploadProofs, of the command.** First `CommandMakesCalls`, the refinement: every step of the
command is a step of `Transfer` or leaves its variables alone. The only step
that is not plain is `UploadFile`, which has to be a `NextCall`: it needs that
the host has nothing of the file yet, and this is `SentInv` (what was sent is
of files up to `index`, and before the call of files below it). Through the
refinement `TInv` is an invariant of the command. `CInv` then says what the
command has at each step: the reports in `urls` are of stored copies and in
order (`UrlsInv`, `RecordInv`), it stops at a failure (`FailInv`), and the
clipboard follows (`ClipInv`). From it: `UploadTypeCorrect`, `SuccessIsStored`,
`HistoryHasCopies`, `ClipboardIsComplete`, `StopsAtFailure`. Last
`CommandSettlesEachFile`, the refinement of `BatchReport`: `BatchInv` says that
the files settled, with a URL or as failed, are those below `index`, that the
one at `index` is among them once it is being recorded, and that at the summary
all are settled or a failure has stopped the command. Each `Uploaded` and each
failure is then one step of the report, and every other step, those inside the
calls among them, is none.

**HistoryProofs.** `HInv` adds to the type invariant that ids are at most
`lastId` (`IdsInv`), that id and URL each determine the row, that a record shown
has an id already given and is the row of that id, if there is one
(`RecordInv`), and that an id whose row was deleted is not in the table and was
reported to one process at most (`DeletionsInv`). From it: `HistoryTypeCorrect`,
`ShownStaysTheSame`, `UrlsStayUnique`, `DeletedAtMostOnce`, `ColumnStaysThere`. AUTOINCREMENT is
what the second rests on: ids are never given again.

**HostLifeProofs.** What is in the file or in an editor is not what was
entered, but descends from it (`AgreeInv`): each text is the one entered, or
NULL where that one is empty or too long, or what a dialog has cut. A load
keeps this, which is why an upload can be judged by what was entered.
`PlainInv` adds that a host added with a type uploads know, and since then only
given values that fit in the editors, is one uploads accept. From them:
`LifeTypeCorrect`, `UploadsDoAsAsked`, `HostsStayUsable`, for any number of values
entered. The last says of every host, also one from the answer 4 of add-host, a
preset or config set, that an upload without an answer has its reason in the
values it was given (`CannotBeUsed`), and of a plain one that this never
happens.

**JsonPathProofs.** `PositionInv` is `ReadsWithinPath` with the type of the
position: a step moves on only after it has read a character that is not the
NUL. `WalkReadsWithinPath` holds for paths of any length and every document.
`WalkFindsTheMeaning` rests on `Ahead(r, s, q, v)`: with the value `v` at
position `q`, what follows up to the next cut is the key of a member of `v`. One
lemma for each kind of step shows that it is carried on (a dot, a key, a bracket
that is closed, one that is not), so that in the end `v` is what the whole path
leads to (`WalkInv`). That the recursive functions `Number` and `Reached` are
what their definitions say is `RecursionExists` and `RankInduction`: a function
given by its value at an argument of smaller rank exists, and what holds at rank
zero and is carried on holds everywhere. Both are first-order, by the least
counterexample (`LeastOf`), since the library's theorems on recursion take
operators as parameters.

**LoggingProofs.** `IInv` adds to the type invariant the shapes the stack of
calls may have (`StackInv`), who holds the mutex (`MutexInv`: the one call that
is between its lock and its unlock), where main may be with which of its parts
up (`MainInv`), when a log is open (`LogInv`), and that the lines are those of
the messages sent so far but the one on the stack (`LineInv`). From it:
`TypeCorrect`, `MutexGivenBack`, `WaitsOnlyWithoutLog`, `LogIsComplete`,
`MainTakesAllDown`, for any number of messages. The last is about each place
where `main` returns, and says of `exit` in `parse_args` that nothing has been
taken down there.

**CommandLineProofs.** `TempInv` follows the temporary file: once it is made,
the arguments name it or it is gone. `FoundInv` says that where the clipboard
has a file, the walk through `read_clipboard_file_path` has taken it.
`ReaderReaches` is about the choice of the program: if an installed one reaches
the clipboard, the first installed one in the order of `detect_clipboard_reader`
does. From them: `TempFileIsThereAndGone`, `CopiedFileIsSent`, whatever
`Parse` makes of the arguments. `FilesInv` says that while files are collected
there is a command to refuse, and that an upload that is left has some:
`NoUploadOfNothing`, which no run checks.

`GlobalOptionsMeanTheSame` is about argument lists of any length. A list's words
one after the other are a fold; `FoldExists` says that there is such a function,
`ListInduction` that what holds of the empty list and is kept by one more word
holds of all. Both are first-order, by the least counterexample. From them
`OutputIs`, `OnlyIs` and `ScannedIs` say what the three recursive functions do
with one more word. Then:

1. The output (`OutputSettles`): what a list of words does to each of mode,
   colour and notifications either leaves it alone or sets it to the same,
   whatever it was. So seeing a global option twice, as `parse_args` and then
   `getopt_long` do, is seeing it once (`OutputTwice`), and the words between
   the global options do not matter (`OutputOfGlobals`).
2. The options (`ScanWithoutGlobals`): a scan with the global options and one
   without them agree in all but the output after every word. The induction
   needs to know why an option waits for its argument (it is the last word) and
   why options have ended (there was a `--`): then a global option that is
   neither an argument nor after `--` finds neither.
3. The command (`CommandIsFirst`, `CommandJoins`): putting words with a dash in
   front does not change which word is the command and what is behind it.

Only model-checked: liveness (`TornHeals`, `CommandEnds`, `MainGoesOn`), which
TLAPS does not reach. Every invariant a passing run checks is a theorem, and the
three refinements are proved in full, since the abstract specifications state
no fairness.

## 6. What is left out

- Text: log lines' wording, stderr, prompts, colours, tables, progress. What a
  prompt may be answered is modelled where the answer changes something.
- `config_get_value` and the other readers change nothing. `encryption_init`
  never fails. That a decrypted key is what was encrypted is taken as given.
- Notifications, ncurses windows, AES and base64, vendored cJSON but for its
  two lookups, build files: no state that outlives a call, or library code.
- Of the arguments: the help's texts, short options other than `-q`, options
  that are abbreviated or joined to their argument with "=".
- The choice of the program that writes the clipboard, and its limit of 4096
  characters, of which only the failure is modelled. For a Wayland session the
  reader falls back to other programs and the writer does not.
- Of an imported file: its parsing. `ImportHost` takes whatever values it may
  yield; static form fields, of which those that are no strings are dropped,
  are left out.
- A host's name with a dot: `config set` cannot reach it, and ends in an error
  that changes nothing.
- list-uploads' pages and filters only select rows.

## 7. Plan

Done, in this order: configuration, its proofs, transfer and upload, the
history and its proofs, the log and the program's start; then the walk along
JSON paths, a host's life, arguments and the clipboard, that the upload command
implements the transfer, and the proofs of these; then the proofs of the log, of
the refinements of `ConfigRegister` and `BatchReport`, of the walk's meaning, of
the clipboard's temporary file, and of what the arguments mean.

Every invariant has its theorem; liveness stays with TLC. To model next:

1. `History`: pages and filters of `db_get_uploads`, and `Upload`'s history as
   an instance of it.
2. `Clipboard`: the choice of the program that writes, and `Upload`'s `CopyTo`
   over it.
