# USB logger: a TLA+ development

The repository logs the block devices that users plug into client machines and reports them to a
server. This directory holds TLA+ modules that model it, TLC configurations that check them, and
TLAPS proofs. Source paths below are relative to the repository root.

## 1. The system

| Component | State it keeps | Operations | Interacts with |
|---|---|---|---|
| Client daemon `cul` (`Client/daemon.c`, `ClientUSBLogger.c`, `SocketUDP.c`) | local log `/var/log/.cul.r`, spool `/var/log/.cul.b`, UDP socket on port 1231, udev monitor | one loop: `LogUdevEvents`, `send_msg_to_server`, 250 ms sleep, `get_ack_from_server` (which may `delete_buf_msg`) | udev, the server by UDP |
| Server daemon (`Server_new_daemon/server.c`) | `report.txt`, read-only `serial.txt`, pid file, UDP socket on port 1230 | `recvfrom`, `parse_packet`, `is_serial_allowed`, `save_packet`, `gethostbyname`, `send_buffer_to_client` | clients by UDP, web monitor by files |
| Server init script (`Server_new_daemon/usbl_server`) | pid file | start, stop, restart | the server process |
| Client init script (`Client/networkc`) | none (its pid file is commented out) | start, and restart, which is a start as `do_stop` does nothing | the client processes, by port 1231 |
| Web monitor (`Webmon_new/*.php`) | rewrites `serial.txt` and `report.txt`, remembers the last size in a shared file | POST add/del/save/clean, poll every 2 s | the server by files, browsers |
| Device list (`Client/ListDev.c`) | doubly linked list | add, find, remove; not compiled by the Makefile | none |
| CRC32 (four copies of `crc32.c`) | none | pure function | client and server |
| `Server_old`, `Server_new`, `Webmon`, `core.c` | superseded variants and a hello-world | | |

Client and server share nothing but datagrams. A client sends the first record of its spool once
per loop. The server appends a row to `report.txt` (unless the serial is listed in `serial.txt`),
then resolves the record's `Host` field and sends the CRC32 of the datagram to that host. The client
removes the first record when an acknowledgement equals its CRC32, by reading the whole spool into
memory, truncating the file and writing the rest back.

What is hard: the acknowledgement carries no sequence number; the row is saved before the lookup that
may fail; the spool exists in memory only during a removal; records are buffered by stdio after the local
log was closed; both daemons may be killed anywhere. `serial.txt` and `report.txt` are rewritten in place,
without a lock, by web requests that overlap each other and the server. The client enables its udev
monitor, then lists the disks that are there, then reads events, while disks come and go and udevd is
late. Nothing but a `bind` keeps a second client off the first one's files.

What would make it correct: no event is forgotten before the server dealt with it; events of a host are
dealt with in order; every discharge has a handling of its own; nothing is reported that is missing in the
local log; everything spooled is discharged some day; the log tells the truth about the disks; an edit of
the list does what its user meant; what the server saved stays readable; one daemon and one client run.

## 2. Modules

| Module | Models |
|---|---|
| `Wire` | the two UDP paths as bounded bags; loss, duplication, reordering |
| `Client` | `cul`: `LogUdevEvents`/`write_log`, `send_msg_to_server`, `get_ack_from_server`, `delete_buf_msg`, kills |
| `Server` | the server's loop, `serial.txt` as it reads it while the web monitor rewrites it |
| `Reporting` | the abstract promise: a queue per client, only a handled head leaves; a crash may empty a queue |
| `UsbLogger` | clients, network and server together; invariants, fairness, refinement of `Reporting` |
| `UsbLoggerProofs` | TLAPS proofs about `UsbLogger` |
| `Spool`, `SpoolProofs` | the bytes of `.cul.b`: `write_log`, `get_msg_buf_len`, `send_msg_to_server`, `delete_buf_msg`, a full disk, a failed `malloc`, kills; implements `Reporting` too |
| `ReportLog` | the abstract promise of `report.txt`: reports are appended, or all are cleared |
| `ReportFile` | `report.txt` between `save_packet` (one `write` per field and separator) and the web monitor's `clean_file` |
| `WebPoll`, `WebPollProofs` | composes `ReportFile` with `log.php`, the file `last` and the browsers that poll |
| `Selection`, `SelectionProofs` | the elements of a sequence at some positions, as a loop that filters keeps them; lemmas on the k-th position |
| `SerialList`, `SerialListProofs` | pages, forms and overlapping POST requests on `serial.txt`, one `fwrite` per line |
| `ServerLifecycle`, `ServerLifecycleProofs` | `usbl_server` start/stop/restart, the pid file, and the processes: parent, child, bind, signals |
| `ClientLifecycle` | `networkc` and `main` of the client: name lookup, bind, fork, daemonize, exits |
| `DiskWatch` | `LogUdevEvents` against sysfs, udevd and the monitor's socket |
| `ClientHost`, `ClientHostProofs` | composes the two: the watch belongs to the process that came to the Big Loop |
| `Codec` | a record's bytes: `add_record2buff` against `parse_packet` |
| `ParseConfig` | `parse_config` against the shell that runs the same file |
| `Crc32` | the table and loop of `crc32`, run over two messages side by side |
| `Formats`, `FormatsProofs` | composes the last three: the pure functions on bytes, in one run |
| `MCUsbLogger`, `MCSpool`, `MCWebPoll`, `MCSerialList`, `MCServerLifecycle`, `MCClientHost`, `MCFormats` | instances for TLC |

`UsbLogger` composes `Client` and `Server` over `Wire` with records as wholes. `Spool` looks at the same
client more closely, with a single client and a server reduced to "accepts a packet"; `ClientHost` at
where its records come from and at the processes around its loop. `WebPoll` and `ReportFile` look at the
server's report file more closely, `SerialList` at its list, and `ServerLifecycle` at the process around the
server's loop.

### Client

`cpc[c]` is the place in the loop between two effects that something else can see.

| `cpc` | Code |
|---|---|
| `down` | no process; `StartClient` is `main` up to the loop |
| `boot`, `bootflush` | `write_log(0)` before / after `print_log` (the stdio buffer still holds the record) |
| `enum`, `enumflush` | the `udev_list_entry_foreach` loop of the first call |
| `poll`, `flush` | every later call of `LogUdevEvents`: one event at most |
| `send` | `send_msg_to_server` |
| `ack` | `get_ack_from_server` |
| `rewrite` | inside `delete_buf_msg`, between `erase_buf_file` (253) and `fclose` (276) |

`spool` and `culr` are files and survive a kill; `buf` (stdio) and `rest` (`pBuf`) are memory and do
not. A `udev` event with action "change" leaves no trace in the code and is `NoEvent` here. `discharged`
is a history variable. A process that crashes on `fclose(NULL)` or exits on a failed `select` is a
`KillClient` at the same place.

### Server

`spc` is `recv` (in `select`/`recvfrom`), `check` (`is_serial_allowed`), `save` (`save_packet`),
`resolve` (`gethostbyname` and the answer). `handled[m]` counts how often record `m` got a row in `report.txt` or
passed as allowed, up to `MaxHandled`. An empty `serial.txt` leaves the result of `is_serial_allowed`
unassigned, so `Approve` and `Report` are both possible then. `RewriteList`
is what a web request may leave in the file at any moment of `save_config`: nothing, some of its lines, or all.

### Wire

A path holds up to `MaxNet` copies of one content and drops a further one, as a full socket buffer does. Losses,
duplications, kills and failed lookups draw on one budget `MaxFaults`; `dups` (history) says how often which
acknowledgement was duplicated. A datagram for a port nobody has bound is dropped without drawing on it. The
CRC32 is a function `Crc`, assumed injective on the records of one host (`CrcInjective`): with 32 bits a
collision is possible, and then the client would discharge the wrong record. `Crc32` says how far that
assumption is safe: two records of a length that differ only within four consecutive bytes never collide. One
record has the CRC32 0 that `get_msg_crc` also returns for an empty spool.

### UsbLogger and Reporting

`Reporting` has a queue per client and a set of handled events. `UsbLogger` implements it with the
queue being the spool, or `rest` while `delete_buf_msg` is under way, and the handled set being the
records with a row or an approval. `ReportingSpec` is without crashes: a kill never falls inside
`delete_buf_msg`. `CrashReportingSpec` adds one step, tied to the one place where it may happen: a kill of
client `c` in `rewrite` empties the queue of `c`. The rest of the promise (order, and that only a handled head
leaves) holds with it too, and no other step may lose anything.

### Spool

A record of `m` is `LenOf[m] + 1` cells: cell 0 is its `Wrapper` (marker and length), the others its
payload, the first of them 0xBE and the last 0xED. `pc` is the place in the Big Loop, `file` the bytes
on disk, `pBuf` the copy `delete_buf_msg` holds. A full disk cuts a write at any cell; a cut never
falls inside a `Wrapper`, and a byte of a payload is never taken for a marker (a record whose payload
holds 0xA5 just where a reader looks after a cut is left out). `torn` and `lost` are history. The records in
a file are where its `Wrapper`s are (`WrappersIn`), taken out in their order by `Selected`.

### ReportFile and WebPoll

A cell is a field or a separator, `file` the cells of `report.txt`. `OpenReport` is the `open` with `O_APPEND`
of an existing file or the one that creates it, which lacks `O_APPEND`: `append` and `off` are that descriptor.
`todo` is what `save_packet` has still to write. `clean_file` is three steps per web request (`cpc`): read the
first line, truncate, write the line back at offset 0. `fresh` and `headless` are history. `WebPoll` takes the
size of the file in cells; fields of equal size make sizes coincide more often than in reality, which matters
after a clean only. `read_file` is one step; `Answer` is the rest of `log.php`: the lines turned round, cut into
pages of `PageSize` (20 in the source), and page `asked[b][k]` sent, with links to the others. A browser shows
the answer that came last (`shown`). A `Click` on a link asks for a page whatever the size is, `everyTime` asks
for the first one. The reports in the file, `RowsIn`, are its complete lines, in the order of the positions at
which they begin (`RowStarts`, `Nth`).

`ReportLog` keeps `rows` next to `saved`, every report whose save returned: a save appends to both (`Save`)
unless the last line is torn; then the report becomes the end of that line and no row (`SaveGlued`). What tears
a line (`Tear`) and what lets a clean keep a report (`Keep`) are actions that `ReportLogSpec` admits for a
kill, and for a lost line of field names, only.

### SerialList

`file` is the lines of `serial.txt`, `page[b]` the inputs of the form a browser shows, `post[b]` what it
submitted. `pc[b]` is the place in `index.php`: `posted` before `read_file`, `edited` when the request has its
own copy `list[b]`, `save` inside `save_config`, whose next line is `pos[b] + 1`. `Trim` is PHP's `trim`, `Hole`
the bytes between the end of a file that was truncated meanwhile and a line written behind it. `Approvable` is
what `is_serial_allowed` may find approved in the file as it is: its lines, or anything in a file without a
line. `before` and `alone` are history: what the request read, and whether anybody else wrote since. Two
overlapping saves are taken to write lines of equal length, so that lines overwrite lines. `Asked` is what the
user meant with the page on the screen; it is stated in terms of the page, the code works on the file.

### ServerLifecycle

`spc[s]` is the place in the script: `check` and `launch` are `do_start` before and after its test of the
pid file, `wait` is the shell waiting for `main`'s parent, `pidof`, `kill` and `rm` are `do_stop`. `st[p]` is
`forking` and `saving` for the parent, `init` and `serving` for the child. The script looks at the pid
file's existence only; `pidof` finds processes by name, parents and dying ones included. `save_pid`
opens the file without `O_TRUNC`, so a shorter pid over a longer one may leave a mixture (`Garbled`). A pid
is not used again while somebody waits for it. `mishaps` is history: the faults so far, a bind that
lost the port, commands that overlapped.

### ClientLifecycle, DiskWatch, ClientHost

`parent[i]` and `child[i]` are the two processes of the i-th `networkc start`: `resolve` (`gethostbyname`),
`bind`, `fork`, `exit` of `main`'s parent, then `setup` (from the fork to the loop) and `loop`. Both have
the socket, so the port is free when both are gone. `told` is the status the script gets; `blame` is history.

`here` is sysfs, `pending[d]` the uevents of disk `d` that udevd has not passed on, `queue[d]` those in the
socket of `udev_monitor`, `todo[d]` the partitions of `d` still to come in the `udev_list_entry_foreach` loop,
`log[d]` the actions written for `d`. Events of different disks are read in any order, as udevd handles
them at the same time. A path of the enumeration is one partition of one disk; paths come sorted, so those of
a disk come together, and `devnode` remembers the disk that was logged last. `devnode` is uninitialised:
`Garbage` is what it may hold. A full socket drops an event without a trace in the code (`missed`).

### Codec, ParseConfig, Crc32

A byte is a number or a character of a given string of a given field. Names and values have fewer than 128
characters (`CodecAssumption`): a length goes through a `char` that is signed on the machines this is built for.
What lies after the message is taken for zero, as in the server's buffer.

`parse_config` reads `/etc/init.d/usbl_server`, the very script that starts the server, so its two
parameters are shell assignments. A line is a sequence of symbols, the two names being one symbol each. `fgets`
returns at most `LineLength - 1` of them (127 characters in the source), and what it leaves (`rest`) is parsed as
if it were a line. `path` is what `parse_config` has copied, `shell` (history) what the shell assigns: it skips
blanks before a name, ends a value at a blank, and takes another word behind it for a command. Symbol `$` stands
for every character that the shell does not take as it stands. An assignment is `odd` (history) when it is
indented, does not fit in one call of `fgets`, or has a blank, an `=` or a `$` in its value or behind it. To
the shell every line is taken to be a command of its own, outside any `if` or quotes over several lines.

In `Crc32` a word is the set of its one-bits, which makes exclusive-or and shifts set operations that both TLC
and the provers take. `crc32_tab` is the table of the source, from its eight entries at the powers of two;
`RowsAssumption` checks these against the polynomial. `packet` and `head` are the values of two messages read
in step, `apart` the number of bytes since they first differed.

## 3. Runs

| Run | Question | Bounds |
|---|---|---|
| `Delivery` | types, order on the wire, acknowledgement means handled, a handling or a duplicated acknowledgement per discharge, refinement of `Reporting` with kills in `delete_buf_msg` | 1 client, a start record (up to 2 copies, one per restart) and an event, 2 faults, 2 copies per path, duplicated acknowledgements, kills everywhere, `rewrite` included, any initial list, which the web monitor rewrites |
| `DeliveryLiveness` | refinement of `Reporting`, a log line per spooled record, every spooled record is discharged, whatever is lost or killed twice | 1 client, a start record (logged anew by each restart, up to 3 copies) and an event, 2 faults |
| `KillLosesEvents` | violated: a kill in `rewrite` loses the other spooled events | 1 client, 3 records |
| `EmptyListApproves` | violated: an unlisted serial is approved while the list is empty | 1 client, 2 records |
| `SpoolDisk` | the file stays a sequence of whole records; the server accepts a whole record, or a composition that begins with a torn one and ends with a whole one; the bytes implement `Reporting` until something is lost; every whole record is reported | records of 5, 2 and 3 cells, 2 short writes, failed allocations or kills anywhere |
| `TornRecordBlocks` | violated: one short write stops the client for ever | records of 5, 2 and 3 cells, 1 fault |
| `WebMonitor` | `report.txt` implements `ReportLog`, keeps its first line, keeps what was saved; the browser catches up, whatever links are clicked | 2 reports of one field (two cells each), 2 cleans that overlap no save, 1 kill, 1 browser with 1 request at a time, 1 report on a page |
| `CleanOverReport` | violated: a clean overwrites a report saved meanwhile | 2 reports of two fields, 1 clean, no browser |
| `SerialEdits` | an edit does what its user asked for; the server then approves what the page shows, or anything when that is nothing; from the first line of a save on it approves nothing that was taken away | 2 browsers, 3 requests, 2 serials, one also with a blank behind it, the empty text |
| `ClientHost` | one client has the spool; a start leaves a client; the log says the truth about each disk and is a possible story | 2 starts, 1 fault, disks with 2, 1 and 0 partitions, 3 events, 2 events in the socket, `devnode` empty or a disk's |
| `Formats` | what `parse_packet` takes out is what `write_log` put in; both ways of reading a value agree; `parse_config` finds a value and the shell's paths; the CRC32 tells neighbouring messages apart | 3 lines of up to 4 symbols, or longer ones that `fgets`, which returns 4, reads in two pieces; 3 fields, values of 0 or 2 characters; 6-byte messages over 3 bytes, with the source's table |
| `Lifecycle` | pid file, one daemon, one process on the port, restart, refused start | 2 operators, 3 processes, 3 commands, 1 fault of any kind |

Two copies of a content and two faults are enough for a stale answer to meet each later head; a copy of a record
in the spool gives a first, a middle and a last one, and equal records whose acknowledgements are the same.
`MaxHandled` is where the counter `handled` stops: the properties read it either as "more than zero" or only
below that bound (`Exact`). Several clients are not in a run: that hosts do not disturb each other, even with
equal CRC32 values, is what the refinement theorems say for any set of clients. In `SpoolDisk` the lengths are
those that matter: the `start logger` record has empty fields (`ClientUSBLogger.c` 361-366), so it may end
inside the length of a device record torn before it, and just at its end when that one was cut at the right byte
(section 5). Here both `m2` and `m3` can do so to `m1`. In `WebMonitor` a report is a field and a newline: a
kill can fall between them and a page can see half a report; two reports on pages of one make a first page and a
last one, and links that point nowhere after a clean. The proofs take any number of fields, and
`CleanOverReport` uses two. In `SerialEdits` two requests overlap and a third, on the page of either, meets what
they left. In `ClientHost` three events let a disk leave and come back while the client starts and another one
overflow the socket; the disk without a partition is the one that the enumeration cannot see. In `Lifecycle`
three processes are the old daemon, the new one and its parent; a fourth would only let two overlapping starts
proceed at once, which the port decides in the same way. Four symbols hold a name, an equals sign and two more
characters, so one value may be shorter than an earlier one; three lines give both parameters and a line that
might disturb them; the long ones are comments, assignments and other commands whose tails are an assignment by
themselves, or not. Six bytes are four that differ with one on either side. `CHECK_DEADLOCK FALSE` where all
requests, starts or records may be used up and the system rests.

Fairness (`FairSpec`): the loops of client and server go on (weak fairness), a killed process is restarted by
its operator (weak fairness on the two starts), and what keeps arriving in a socket is read (strong fairness on
the receives: sockets are first-in first-out). Faults are finite. Nothing is assumed of udev or of the web
monitor. `Spool` has the same fairness for its loop, its sends and its acknowledgements. In `WebPoll` an open
page keeps polling (`everyTime`) and a request is answered. `SerialList` and `ClientHost` claim safety only,
without fairness. In `ServerLifecycle` scripts and processes go on and a signal is delivered. `PagesCatchUp` is
claimed as long as nothing was cleaned, `RestartServes` and `RefusedIsRunning` as long as `mishaps` is empty:
section 5 says what happens otherwise. `ReportingUntilLoss` and `EventuallyReported` are claimed until `lost`,
`ConfigIsTheShells` until `odd` and for files in which the shell finds both paths.

## 4. Proofs

All theorems hold for every value of the constants that satisfies the ASSUMEs of the modules, which TLC
evaluates in the runs.

`UsbLoggerProofs`, for every set of clients and records and all bounds:

* `TypeCorrect`: `TypeOK`.
* `InvCorrect`: the inductive invariant `IInv`. `FirstInFlightCorrect` and
  `AckCorrect` follow. Neither is inductive
  alone. A record leaves the head of a spool only on an acknowledgement, which means it was handled
  (`AckMeansHandled`); the server acknowledges what it received, which was a head or was handled
  (`OnlyFirstInFlight`). `SpoolShape` adds that spools hold records of their own host and that the
  spool is empty while it is rewritten. The lemmas `NewAck`, `NewFlight`, `HeadLeaves`,
  `NewDecision` and `HandledGrows` each say what one kind of step can add or remove.
* `CountCorrect`: `OneHandlingPerDischarge`, inductive relative to `IInv`: discharges and acknowledgements of a
  record are no more than its handlings and the duplications of its acknowledgement.
* `CrashRefinementCorrect`: `Spec => CrashReportingSpec`, kills anywhere, a loss in `rewrite` only;
  `RefinementCorrect`: `Spec => ReportingSpec` when `"rewrite" \notin KillPoints`.
* `LocalLogCorrect`: `SpoolWithinLocalLog`, by counting copies of a record in the spool, in memory and in
  stdio's buffer against its lines in the local log.

`SpoolProofs`, for any records, faults and kills:

* `SpoolTypeCorrect` and `SpoolIntactCorrect`, for any lengths, from `BInv`: `TypeOK`, `SpoolIntact` and
  `WholeOnWire`, which says that every packet on its way is one record's payload; the last two until a write is cut
  short.
* `AcceptedCorrect`: `WholeOrComposed`, for any lengths and after any short writes. The invariant `TInv` says that
  in front of every cell stands its record up to there (`Tidy`), in every torn file; so the last byte of a packet
  tells where its `Wrapper` is, and that is either the packet's own or that of a shorter record behind it
  (`HeadIsSound`). `TidyRest` says a removal keeps a file tidy: it takes out the end of a record, so
  nothing it leaves lacks what stood before it.
* `ReportingCorrect`: `ReportingUntilLoss`, for any lengths. `RInv` adds `FirstOnWire` to `BInv`: what was sent
  and not yet accepted is the record at the head, for the client sends nothing else and removes it only after
  its acceptance. Each action has a lemma that says which step of `Reporting` it is (`WriteLogReports`,
  `SendReports`, `AcceptReports`, `DeleteReports`); they rest on `RecordsAppend` and `RecordsRest`: what a write
  at the end, and the removal of the first record, do to the sequence of records in an intact file.

`ServerLifecycleProofs`, for any number of operators, processes, commands and faults:

* `LifecycleTypeCorrect`: `TypeOK`; `OneServingCorrect`: never two processes on the port.
* `StagesCorrect`: `OneAtATime`, that is `Stages` until a command overlaps another or a `save_pid` cannot
  open its file. `Stages` says what the script knows at each place: after the test of the pid file there is
  no daemon, while it waits the only daemon is its parent's child, after `pidof` every daemon is in its list.
  `RunningIsRecorded` alone is not inductive: it says nothing between two steps of a command.
* `RecordedCorrect` follows; `OneDaemonCorrect` follows with `OneServingCorrect`. `RefusedCorrect` adds the
  converse: as long as nothing went wrong a pid file means a daemon (`FileMeansRunning`), and a start that is
  refused found the file that names the only one.

`WebPollProofs`, for any number of fields, reports, requests and browsers:

* `WebTypeCorrect`: `TypeOK`, overlapping or not.
* `SavedCorrect`: `SavedStandsWhole` when no clean overlaps a save. The invariant `SavedInv` says that
  `save_packet` always writes at the end, with `O_APPEND` or at the offset of the file it created, and that file
  and `todo` together end with the whole report (`EndsWith`).
* `FramedCorrect`: `Framed` under the same condition, from `FrameInv`: file and `todo` together, and the
  line a clean will write back, are well-formed files (`Lined`), and outside a clean an existing file is never
  empty. `LinedAppend` says a report appended to such a file gives one, `KeptLined` that the first line
  `read_file` finds in one is one by itself; `FirstLineIs` computes that line.
* `ReportLogCorrect`: `ReportLogSpec` when no clean overlaps a save or another clean, kills and the torn lines
  they leave included: a save adds its report as a row, or glues it to a torn line; only a kill tears a line,
  and only after a kill, or without the line of field names, may a clean keep a report. `TailInv` says that what
  `save_packet` has still to write belongs to a report not saved yet. From `LogInv` (one request cleans at a
  time, it finds empty what it truncated, and the line it keeps holds no newline) and `SavedInv`. A write adds
  one cell, which completes at most one line, behind all others (`RowsAppend`); what a clean writes back is at
  most one line (`RowsOne`).

`ClientHostProofs`, for any number of starts, faults, disks, partitions and events, any socket size:

* `HostTypeCorrect`, `OneClientCorrect`, `AfterStartCorrect`, from `PInv`: all owners of the socket are of one
  invocation (`OneOwner`), and whoever meets a dead client's parent has blame (`BlamedForOrphans`).
* `LogIsTrueCorrect`, from `WInv`: the events of a disk that are still unread fit what sysfs shows
  (`EventsPlausible`), and once only "change" is left to read, what was logged or is still to be listed is
  the truth (`Believed`); `Phases`, `ArrayIsLogged` and `ListedInOrder` say how far the listing has come.
  `StoryCorrect`, from `SInv` on top of it: the next event to read always goes on with the story
  (`StoryGoesOn`).

`SerialListProofs`, for any number of browsers and requests, any texts and any `trim`:

* `TypeCorrect`, `OnlyTheNewListCorrect`, `EditsAsMeantCorrect`, `ServerSeesThePageCorrect`, from `IInv`: a form
  is one of its page's while its request runs (`FormOfThePage`), what is being saved is that form's edit of what
  the request read (`ListIsTheEdit`), and while nobody else writes, the file is as much of it as was written
  (`FileIsWhatWasWritten`). The last two properties compare the file at the end of a save with the page before
  and after it: how often a serial occurs in a list is counted through the edit, the lines dropped by
  `read_file` (`Kept`) and the `trim`s, with `SelectedCount` of `SelectionProofs`. What the server may approve
  (`Approvable`) is a part of the new list from its first line on; of an empty list it is anything, and the
  theorems say so.

`FormatsProofs`:

* `TellsApartCorrect`, for messages of any length over any bytes and every table whose entries have different
  top bytes. `CInv`: `n` bytes after the first difference, the two values differ in one of their `n` upper
  bytes, for each step moves a difference down by a byte or looks up entries with other top bytes; from the
  fourth byte on only equal bytes follow, and these keep any difference.
* `ValueExistsCorrect`, `ConfigIsTheShellsCorrect`, for files of any lines: `KInv` says that until an
  assignment is odd, `red_params` is at least the number of parameters the shell has assigned, and exactly
  that number only if `path` is what the shell assigned: whatever else is counted makes the total exceed 2 as
  soon as both are assigned. `ParseOf` and `OneAssigned` say what a piece of a line does on both sides.
* `RoundTripCorrect`, `ReadingsAgreeCorrect`, for up to 127 fields and any lengths of names and values below
  128, where a signed `char` holds a length (`CodecAssumption`): `MessageInv` says there are offsets at which
  the fields stand in the message one behind the other (`Layout`), the writer and then the reader are at one of
  them (`Reading`), and what was taken out is what stands there (`Taken`). A length that was written is the one
  that is read (`FieldRead`), so the reader finds the next offset.
* `TypeCorrect`: `TypeOK` of all three.

`SelectionProofs` has the lemmas these share: `Nth` enumerates a finite set of positions in their order (`NthOf`,
`NthUnique`, `NthGrows`), what becomes of it when a position is added behind the others or the first one goes
and the rest moves up (`NthAdd`, `NthRest`), and the least and greatest of a set of positions.

Model-checked only: `EventuallyDischarged`, `EventuallyReported`, `RestartServes` and `PagesCatchUp`, which are
liveness properties and out of TLAPS's reach, and the four runs that show a violation. Every invariant and
action property that a passing run checks, and every refinement, is proved. `ReportLogSpec`, `Framed` and
`SavedStandsWhole` are proved under `~Overlap`, and `ReportingSpec` without kills inside `delete_buf_msg`: the
runs that check them choose their constants so, and `CleanOverReport` and `KillLosesEvents` show what happens
otherwise.

## 5. What the checks found

* A kill inside `delete_buf_msg` loses all other spooled events (`KillLosesEvents`).
* An empty `serial.txt`, which every edit in the web monitor produces for a moment, may approve an
  unlisted serial (`EmptyListApproves`). The edit that deletes the last serial leaves it so for good.
* A short write on a full disk leaves a record that reads but is never accepted; the client sends it for
  ever and nothing behind it is reported (`TornRecordBlocks`).
* A report that the server saves and acknowledges between `clean_file`'s truncation and its write is
  overwritten by the header (`CleanOverReport`).

What the exceptions in the passing runs stand for, each of them reachable:

* A torn record is followed in the file by the next records. When one of them ends just where the torn record's
  length points to, `parse_packet`, which looks at the first and the last byte, accepts the whole as one
  packet: in `SpoolDisk` one cell of `m1` behind its `Wrapper`, then all of the shorter `m3`. The report is
  made of pieces of both, and the acknowledgement removes both: `m3` is never sent (`Composition`). A `start
  logger` record is short enough to follow a torn device record so.
* A server killed before the newline of a report leaves a torn line. The report saved next, the same one sent
  again, say, is written behind it in the same line: it is acknowledged and is in no row (`SaveGlued`).

* `do_stop` returns before the process is gone. A `restart`'s new daemon may find the port taken and end,
  and the old one ends too: no server remains, but a pid file (`"race"` in `mishaps`).
* The pid file outlives a daemon that crashed or failed to start. Every `start` is refused from then on, and
  `stop` and `restart` exit at line 92, before `rm`, because no process is found. A removal by hand is
  the only way out.
* A `save_pid` that cannot open its file ends the parent only: the child serves without a pid file, and a
  second daemon is left to bind's error.
* A clean before the first report creates `report.txt` with an empty line. `save_packet` then never writes the
  field names, the page shows the first report as column titles, and the next clean keeps that report
  in their place (`headless`).
* The file `last` is shared: with two browsers the one that polls first consumes the change. With two
  requests of one browser open, an older answer may arrive last and stay. A clean followed by as many
  new bytes is never noticed. (`Browser` with two elements or `Slot` with two show it in `WebPoll`.)
* `parse_config` counts assignments: two `LOG_FILE` lines pass without a `SERIAL_FILE`, and a shorter second path
  keeps the end of the first. An indented assignment, or a value with a blank, a quote or a `=`, is taken
  differently by the shell (`odd`). The tail of a line of more than 127 characters, of a comment as well, is parsed
  as a line: an assignment in it is counted, and with the two real ones the server refuses to start.
  The script in the repository has no such line.
* A failed `malloc` in `delete_buf_msg`, or an unreadable head, erases the good records behind it.
* Two web requests on `serial.txt` that overlap: the first edit is lost, or lines of both remain with a hole
  between them (`alone`). A "del" or "save" on a page that is no longer current changes another serial than
  the one beside the link, as only its index is sent (`page[b] = before[b]`). A padded or blank text from the
  form is saved as it is: the page shows it trimmed, the server compares it untrimmed (`ProperForm`). The next
  request drops a blank line.
* A client killed before `main`'s parent has exited leaves that parent with the port; a start
  just then is refused, and no client remains (`blame`). `networkc` reports a start that failed as well as one
  that succeeded (`0|1) … log_end_msg 0`, line 113), and its `do_stop` returns 0 having stopped nothing, although
  the comments above both functions give a meaning to each status.
* A disk without partitions is not logged at the start. The array `devnode` is read uninitialised, which might
  swallow the first disk listed. A burst of events that overflows the monitor's socket is lost unnoticed, and
  what the log says of those disks may be wrong for good.
* A CRC32 collision between two spooled records is excluded only where they differ within four consecutive
  bytes. Records of different uptimes or devices may collide in principle, and then an acknowledgement
  of one discharges the other.

## 6. Not modelled

* `Client/ListDev.c`: the Makefile does not compile it and nothing calls it.
* `Server_old`, `Server_new` and `Webmon` are superseded, and neither old server works with this client: one
  acknowledges nothing, the other in text and to another port. `core.c` and the root Makefile are a hello-world;
  `libudev.h` is a vendored header.
* The server on packets that no client sends, beyond those a torn spool produces: `parse_packet` reads the
  lengths in them without a bound, and nothing sensible can be promised.
* The texts of fields (uptimes, times, kernel and host names) and values of 128 characters or more.
* The layout of the pages, and what `log.php` makes of a page number that no link has.
* Results of writes that the code ignores: `save_packet` (`server.c` 411-424) acknowledges a record whose row a
  full disk cut short or dropped, and `print_log` (`ClientUSBLogger.c` 300-308) may leave a spooled record
  without its local line. `AckMeansHandled` and `SpoolWithinLocalLog` take these writes to succeed; only the
  spool's own disk may be full (`Spool`).
* A page after a clean and as many new bytes: polling by size cannot see it, and `PagesCatchUp` does not claim it.
