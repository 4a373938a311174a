# Verification of the NCTU network-programming servers

TLA+ models, TLC checks and TLAPS proofs for the programs of this repository:
a shell with numbered pipes (`np_project1`), three remote-shell servers built
on it (`np_project2`), an HTTP server with CGI consoles (`np_project3`) and a
SOCKS 4 proxy (`np_project4`).

## 1. Inventory

| part | state | operations | what is hard |
|---|---|---|---|
| `np_project1` shell | ring `cross_line_pipe_table`, `cnt_line`, descriptors, children | `readline`, `my_shell`, `process_handler`, `SIGCHLD` handler | pipes that outlive a line; children inherit every open pipe end; `waitpid` against processes blocked on pipes |
| `np_project2/single_client` | the same, per connection | the same behind `accept`/`fork` | end of file on the socket, the handler racing `wait` |
| `np_project2/single_process` | `client_info`, `user_pipe`, `afd`/`rfd`, `client_cnt`, one environment, one descriptor table | `select` loop, `init_client`, `reset_client`, `my_shell`, `process_handler`, built-ins | everything is shared by all clients: ids and descriptor numbers are reused, tables are updated in different functions, one blocked call stops all |
| `np_project2/concurrent` | client table, user pipes, login count and message buffer in shared memory; one process per client | as above, plus `SIGUSR1`/`SIGCHLD` handlers | races between processes, coalescing signals, descriptor numbers shared across processes |
| `np_project3/http_server.cpp` | one `echo_session` per connection, the process environment | `async_accept`, `async_read_some`, `async_send`, `fork`/`exec` of a CGI | callbacks, environment shared by requests, `wait` in the event loop |
| `np_project3/console.cpp` | per server: socket, command file, read buffer | resolve, connect, read, send a command at a prompt | chunks that split or join prompts, buffers that die before a write completes |
| `np_project3/main.cpp` | both of the above in one process | the same | tables kept from request to request |
| `np_project4/socks_server.cpp` | one process per connection: request, reply, two sockets, `socks.conf` | request, `fire_wall`, CONNECT, BIND, `do_transfer` | connect before the firewall, blocking writes in both directions, end of file on one side |
| `np_project4/console.cpp` | the console through a SOCKS server | connect, request, reply, then as the console | as the console |

Components interact as follows. The `np_project2` servers run user commands as
child processes joined by pipes; their clients interact only through the
server (messages, user pipes). A console is a CGI program started by the HTTP
server, and a client of an `np_project2` server, directly or through the SOCKS
server.

What makes each part correct:

* shells: a pipe is read once, by the line it is due at; every descriptor is
  closed; the shell never waits for a process that can never end;
* `single_process`: the tables agree with each other and with the kernel's
  descriptor table; a client sees only its own pipes and those sent to it;
  nicknames are unique; commands run in their client's environment;
* `concurrent`: the same promise (`InfoServer`) kept by racing processes;
* HTTP server and consoles: each request is served with its own environment;
  each prompt is answered with one command, in the file's order;
* SOCKS server: nothing is relayed that the firewall refuses; bytes arrive in
  order, once; the relay ends when the connection does.

`PROJECT.json` lists the hazards at their lines.

## 2. Plan

In the order of their weight; sections 3 to 10 describe what is done.

1. `SingleProc` with the abstract `InfoServer`: the server with the most shared
   state. **Done**, with proofs (`SingleProcProofs`).
2. `NumberedPipe`: the shell with its children, their inherited descriptors,
   full pipes, `waitpid`; where the shell can wait for ever. **Done**, with
   proofs (`NumberedPipeProofs`).
3. `Concurrent`: processes over shared memory and signals. **Done**, with
   proofs (`ConcurrentProofs`).
4. `FireWall` and `SocksServer`: firewall (against a reference definition),
   handshake and relay. **Done**, with proofs (`SocksProofs`).
5. `SelectLoop`: reading a line byte by byte, a partial line, end of file, a
   failing `accept`, a send to a closed connection; liveness of the other
   clients of the single-process server. **Done**, with proofs
   (`SelectLoopProofs`).
6. `Console`: the consoles of `np_project3` and `np_project4`, against servers
   that prompt and a proxy. **Done**, with proofs (`ConsoleProofs`).
7. `HttpServer` and `CombinedServer`: requests, environments, CGI programs, the
   two event loops of the combined server. **Done**, with proofs
   (`HttpServerProofs`, `CombinedServerProofs`).

Components are composed by what they promise each other, not by one state
space of everything:

* `SingleProc` takes a line as read whole and a program as ended in the end;
  `SelectLoop` says when `readline` returns and for whom it does not, and
  `NumberedPipe` says when the shell waits for ever for a program of the line;
* `HttpServer` and `CombinedServer` assume nothing of a console but that it may
  or may not end (`CgiEnds`, `ReadEnds` have no fairness), and their `Answered`
  has the alternative that one never does; `Console.Ends` says that a console
  ends, and `StuckExplained` when it does not;
* `Console` takes the server behind a session as one that prompts, reads a
  command, answers and prompts again, which is `my_shell` seen from its socket,
  and the proxy as one that grants, rejects or closes, which is what
  `SocksServer` does to a browser before its relay.

Every invariant that a run checks is also proved, as are the refinement of
`InfoServer` and the action properties; the temporal properties that need
fairness are checked by TLC (section 11 lists them).

Four things hold for every module. Properties are stated at the end of the
module they are about. The MC module of the same name (`MCSingleProc` ...) names
the inputs of each run, and nothing else. Operators whose comment begins with
"Fault:" are mutated forms of the definition that follows them; no action uses
them, and `PROJECT.json` "mutants" pairs each property of a run with one that
violates it. Deadlock is not checked where sessions are bounded and really end;
the runs of `SingleProc` check it. The type invariant of a module is proved
rather than checked by a run wherever the module has proofs of it
(`...TypeCorrect` in the tables below); the runs spend their time on the rest.

## 3. SingleProc: the single-process server

`SingleProc.tla` follows `np_project2/single_process`. The program is
sequential, so its interleavings are those of what `select` reports and of the
lines clients type. `pc` holds the server's control point.

| code | model |
|---|---|
| `main`: `client_cnt`, `afd`, `rfd`, `fdmax` | variables of the same names; `rfd` is what is left of the scan |
| `client_info[i].client_fd, id, name, path, cnt_line, cross_line_pipe_table` | functions over `Slot`, one per field |
| `user_pipe` | `user_pipe`, indexed by `Id` = `0 .. CLIENT_NUMBER` as in the code |
| the environment's PATH | `env_path` |
| locals of `process_handler` | `line`, `at` (the segment), `pipe_table`, `in`, `out`, `cur` |
| the kernel's descriptor table | `fdt`: what each descriptor number stands for now |
| `select`, the scan over `rfd` | `Select`, `Scanning`, `NextFd` (ascending order) |
| `accept`, `init_client`, the login limit | `AcceptClient`, `AcceptRefused` |
| `my_shell` | `EmptyLine`, `TextCommand` (printenv, who, tell, yell), `SetEnv`, `SetName`, `Leave` (exit or a failed read, with `reset_client`), `RejectedLine`, `StartLine` |
| `process_handler`, one iteration per segment | input (`CrossInput`, `UserInput`, `PlainInput`), output (`PipeOutput`, `NumberOutput`, `FileOutput`, `UserOutput`, `ClientOutput`), `Fork`; `BreakLine` is the `break` after a numbered pipe |

Descriptors are the point of this model. Every table of the program stores
descriptor *numbers*, with 0 for "none", and the kernel hands out the lowest
free number; so `fdt` maps a number to the object it stands for (the entry it
was made for), and the invariants compare the two. `pipe()` and `open()` fail
when `OPEN_MAX` is reached.

A command line is its sender and receiver numbers and its list of segments
(`LineShape`). `LineShape` bounds what clients type: one `<n` and one `>n` at
most, nothing but `cmd |n` after a `cmd |n`, no pipe to the line itself
(`n` not a multiple of `FILE_MAX`), fewer segments than `FILE_MAX`.

Left out of this module: the text sent to clients, what child processes do
(`waitpid`, exit), `stderr` (`!n` and `|n` make the same pipe), a `fork` that
fails is retried until it succeeds, a command without its argument
(`SelectLoop` has it). A line is read whole or fails. `client_info` has `CLIENT_NUMBER`
elements and is used from 1 to `CLIENT_NUMBER`: the last row is taken to be
memory of its own. No client connects while no descriptor is free (`Select`).

`InfoServer.tla` is the promise to the users: who is logged in, under which
nickname, and which user pipes wait for their receiver. `SingleProc` implements
it under the mapping `Promise` (`ServesAsPromised`).

### Runs

Names and paths are model values. No symmetry is used: slots are chosen by
their order.

| run | bounds | shows |
|---|---|---|
| `sp_user` | 2 clients, ring 3, 8 descriptors, one nickname, one PATH; lines that send, receive, relay and pipe user pipes | `ClientTable`, `PipesBetweenLive`, `FdsFaithful`, `RunsUnderOwnPath`, and the refinement `ServesAsPromised` |
| `sp_number` | 2 clients, ring 4, 8 descriptors; `cmd \| cmd \|2`, `\|1`, `>1`, `>2`, `<1 > file` | `LostOnlyAtLogout`, `NoWriteEndKept`, `Isolation` |

Why these sizes: two slots give reuse of an id, pipes in both directions and
refusal at the limit; of eight descriptors the standard ones and the listener
leave four: two connections and a pipe, or one connection and a pipe and a
half, so `pipe()` succeeds and fails at the limit. A ring of three or four wraps
within a session, `|2` and `|1` of successive lines share a target, and four is
the least ring for a line of three segments. Sessions are not bounded: all
reachable states are explored, and only `OPEN_MAX`, `LineShape` and the sets of
lines bound them.

`reset_client` forgets the descriptors of a client's pipes without closing
them, so each logout with a pipe pending costs the server a descriptor for
ever: such an end becomes `"lost"`. `LostOnlyAtLogout` says that this is the one
way to lose one: in every other step, each open socket and pipe end that a table
named is named still, and at a logout only ends of the client that leaves are
lost. That a logout does lose them is what the code does, and no property
forbids it.

No fairness is assumed, and there is no liveness property: whether a line's
processes end is the matter of `NumberedPipe`, and whether `readline` returns
that of `SelectLoop`.

### Proofs

`SingleProcProofs.tla` proves, for every number of clients, ring length,
descriptor limit and set of lines that meet `ConstantsAssumption`:

| theorem | states |
|---|---|
| `TypeCorrect` | `Spec => []TypeOK` |
| `TableCoherent` | `Spec => []ClientTable` |
| `NoInheritedPipe` | `Spec => []PipesBetweenLive` |
| `NoStaleDescriptor` | `Spec => []FdsFaithful` |
| `ProcessIsolation` | `Spec => []Isolation` |
| `OwnPath` | `Spec => []RunsUnderOwnPath` |
| `PromiseKept` | `Spec => ServesAsPromised`: the refinement of `InfoServer` |
| `NicknamesUnique` | `Spec => []UniqueNames` |
| `EndOfFileReached` | `Spec => []NoWriteEndKept` |
| `DescriptorsTracked` | `EndOnce => (Spec => []FdsTracked)`: what no logout has lost is in its table |
| `LossOnlyAtLogout` | `EndOnce => (Spec => LostOnlyAtLogout)` |

The first four follow from `Invariance`, `Spec => []IInv`, with

    IInv == TypeOK /\ HandlingInv /\ ClientTable /\ PipesBetweenLive /\ FdsFaithful

`HandlingInv` is the strengthening: while a line is processed, `cur` is a
logged-in client, the line is one of `Lines` with `at` one of its segments, and
the line's sender and receiver are absent, 0 or logged in. Without it
`PipesBetweenLive` and `FdsFaithful` are not inductive: `UserOutput` could store
a pipe to a user who is not there. `FdsFaithful` itself needs no help from
`FdsTracked`, because an object is named by its table entry: an open number
stands for one object, so closing the numbers of one entry cannot disturb
another. Each action has a lemma (`...Step`) with one step per conjunct it can
disturb; `ClosingKeeps` and `OpeningKeeps` carry the two ways in which
descriptors change.

`ProcessIsolation` adds `InputOwn` to `IInv`: the input chosen for a segment is
still an object of the client's own when the process is forked, whatever the
output step opened in between.

`OwnPath` has an invariant of its own: from the start of a line to its last
fork, PATH is the client's.

`PromiseKept` rests on `IInv` alone. `StepSimulation` maps each action to what
the users see: `AcceptClient` to `Login` (the lowest free row is the lowest free
id), `Leave` to `Logout`, `SetName` to `Rename` or nothing (`checkname` compares
descriptors, and `ClientTable` says that rows do not share them), `UserOutput`
to `Send`, `Fork` to `Receive` or nothing; every other action leaves rows and
read ends alone (`Stutter`). `NicknamesUnique` is then a fact about
`InfoServer`'s steps; no run checks it separately.

`EndOfFileReached` and `DescriptorsTracked` share `TInv(E)`, which says of the pipe
ends in `E` that each open one is in the table entry it was made for. An entry is
lost when a table is overwritten while it holds a descriptor, so `TInv` says where
entries are empty: the ring of a row nobody uses (`UnusedRing`), the local table
but for the segment's own pipe and the next one's (`LocalPipes`), the user pipe of
a line before it is made (`SendClear`), and the write end that belongs to the
chosen input (`InputClosed`). `RingWhole` is what makes the ring's check of a write
end enough for the read end.

`LossOnlyAtLogout` adds to `DescriptorsTracked` that an end becomes `"lost"` in `Leave`
only, and there only if it is the client's.

The theorems on all descriptors have a hypothesis the one on write ends does without:
`EndOnce`, that the word `end` stands nowhere in a line but at its close.
`process_handler` uses that word as the mark of the last segment, and makes the
user pipe of `>n` in every segment it marks. TLC shows what happens when a user
types it in the middle of a line with `>n`: `pipe` is called twice for one entry
and the read end of the first pipe is lost, while its write end has been closed.
`LineShape` allows such lines, so the other theorems hold for them too; the lines
of the runs meet `EndOnce`.

## 4. NumberedPipe: the shell and its children

`NumberedPipe.tla` follows `np_project1`. The shell, every child it has forked,
and the signal handler take turns in any order.

| code | model |
|---|---|
| `cross_line_pipe_table`, `cnt_line`, locals `pipe_table`, `in` | variables of the same names |
| the tables' descriptor numbers | pipes: a pipe is named by the process forked right after it was made, `None` is the 0 of the tables |
| the kernel: who has which pipe end open | `open` (the shell), `held` (per process, inherited at `fork`) |
| a child process | `pstate`, what it reads and writes (`pin`, `pout`, `reads`), chunks it still has to write (`left`); its name is its line and its segment |
| `my_shell` | `Builtin` (printenv, setenv: the counter moves, a due pipe is skipped), `StartLine`, `Exit` |
| `process_handler`, one iteration per segment | `CrossInput` or `PlainInput`; `PipeOutput`, `NumberOutput`, `TerminalOutput` (file or terminal), each with `Fork`; `Wait`; `Close` |
| `sigchld_handler` | `ReapAll`; `pending` is one bit, since equal signals coalesce |
| the programs users run | `Write`, `Read`, `ReadEof`, `Finish`, `ReadTerminal`: a source writes some chunks, a filter copies its input to the end, others just end |

A pipe holds `CAP` chunks, a reader sees end of file when nobody, the shell
included, has the write end open, and a writer blocks on a full pipe. A write
never raises SIGPIPE in this program: the writer has itself inherited the read
end of its pipe. `due` and `skipped` are history: the line a numbered pipe was
made for, and the lines that were built-in commands.

Left out: a `pipe()` that fails (`SingleProc` has it), `|0` and `|n` with `n` a
multiple of the ring's length, the values of the environment, the retry of
`fork`. The `process_handler` of `single_client` is this one but for where
output goes.

| run | bounds | shows |
|---|---|---|
| `np_lines` | ring 4, 5 lines of one or two segments, `\|1`, `\|2`, files, built-in commands; pipes carry no data | `WritersEarlier`, `ReadWhenDue`, `KeptUntilDue` |
| `np_wait` | ring 3, 3 lines, pipes of one chunk, programs that write up to two | `SomeoneCanStep`, `WaitEnds`, `ZombiesReaped` |

Five lines wrap a ring of four; two lines share a target, and a due line can be
a built-in command, after which its pipe is read one turn of the ring later
(`ReadWhenDue` says exactly so). Two chunks fill a pipe of one, which is what
makes a writer wait for its reader.

Fairness is that of the kernel: the shell and each program run when they can,
and the signal is delivered. The user need not type: `User` and `ReadTerminal`
have no fairness. Under it the shell can still hang, and `WaitEnds` says when:
only while a process is blocked on a full pipe that no running program reads
(its line comes later, and the waiting shell never gets there), or a program
reads the terminal. So `cat` after a `yes |2` hangs the real shell by design; a
hang among the processes of lines already read would be a violation.

`NumberedPipeProofs.tla` proves, for every ring length, set of lines, pipe
capacity and session length, `ShellTypeCorrect` (`Spec => []TypeOK`) and
`NoCircularWait` (`Spec => []WritersEarlier`): whoever can still write into a
process's input was forked before it. The inductive invariant is `TypeOK /\ Order`; `Order` adds to `WritersEarlier` what
the tables contain (`TablesInv`), that everything held or open is a pipe of the
past (`PastInv`), and that the chosen input has lost its write end in the shell
by the time of the fork (`InputInv`), without which a child could inherit the
write end of its own input.

`OnlyDueLineReads` (`Spec => []ReadWhenDue`) and `NumberedPipesKept`
(`Spec => []KeptUntilDue`) add `RingInv` to it:

* `Counted`: `cnt_line` is the number of the line modulo the ring's length, built-in
  commands included;
* `Dues`, `Kept`: a numbered pipe was made for a line less than a round ahead, and
  until then lies at that line's place;
* `Ring`: a pipe in the ring lies at the place of the line it was made for, and if
  that line has passed, it and the lines whole rounds after it were built-in
  commands; the place of the current line is emptied with its first segment;
* `Paired`: both ends lie there together, except between the closing of the write
  end and the end of the segment;
* `Plain`: the local table holds the pipe into this segment and the one out of it;
* `Opened`: what the shell has open is what the two tables hold, exactly;
* `Chosen`: the input of the next child is due at its line.

`KeptUntilDue` alone is not inductive: closing the pipes of a segment takes both ends
of whatever has the same place, so it needs to be known that two lines at one place
are a whole round apart (`SamePlace`), which `Dues` excludes for a pipe still to
come. `WholeRounds` and `FurtherOn` are the arithmetic of the ring for any length.
TLC has checked the parts of `RingInv` on the instance of `np_lines`.

`NoDeadlock` (`Spec => []SomeoneCanStep`) is the safety half of `WaitEnds`, for every
number of processes. `CanStep` spells out what `Step` waits for (TLC finds it equal
to `ENABLED Step(p)` on the instance of `np_wait`). Suppose processes run and none
can step, none is `Backlogged` and none is at the terminal. A process before a full
pipe then has a reader, which does not read only because it is before a full pipe
too, and which was forked later (`WritersEarlier`, and `OutInv`: a process has the
write end of its output open). The last such process contradicts that (`Last`), so
there is none, and every process waits for the end of its input, that is for an
earlier one; the first of them (`First`) has nobody to wait for. `WaitEnds` and
`ZombiesReaped` themselves are only model-checked.

## 5. FireWall and SocksServer: the SOCKS 4 proxy

Each connection has a process of its own and no shared state, so
`SocksServer.tla` models one, with the browser and the destination as TCP peers
that may close, close their sending side, or reset.

| code | model |
|---|---|
| `fire_wall` | `FireWall.tla`: `Considered` (the mode), `Octet` (`atoi` into a `uint8_t`; a star is 0), `cnt` (stars), `Matches` (the five cases), `fire_wall` |
| `main`: `accept`, `fork` | `Fork`, `ForkFails` (the connection is neither served nor closed) |
| `client_handler`: one `read` of the request | `ReadRequest`, `NoRequestRead`; what arrived behind the request is lost (`early`) |
| CONNECT: `tcp_connect`, then `fire_wall`, then the reply | `Connect`, `Decide`, `Reject` |
| BIND: `fire_wall`, `bind`, reply, `accept`, second reply | `Bind`, `DestConnects`, `Accept` |
| an unknown command, a failed `bind` or `accept` | the relay with `dst` uninitialised or -1 |
| `fire_wall` cannot open `socks.conf` | `NoConf` |
| `do_transfer` | `Enters` (`FD_SET`), `Select`, `SelectFails`, `ReadData`, `ReadFails`, `ReadEof`, `WriteData` (blocking, chunk by chunk) |

The destination of a request does not exist for the model beyond its
connection; a chunk is its number in its sender's order. Left out: rules of more
than four tokens (the fifth is written behind the array), requests that arrive in
pieces. The version is only compared with 4.

`FireWall` takes every other line as the code does, and that is more than the file's
format foresees: a line of another form has no tokens and no mode of its own, 266 is
10, and since stars are counted but not placed, `10.*.0.0` permits all of `10.0.0.x`.
So what the firewall promises comes in two forms. `Permitted` is the meaning of a
rule, octet by octet, and holds of files whose rules are all `WellFormed`: a mode,
and four tokens, octets before stars. `Honoured` holds of any file: the octets of the
address are the rule's, but for places where the rule has a 0, and there are no more
such places than stars.

After an unknown command, or a `bind` or `accept` that failed, `dst` was never set or
is -1 (`Uninitialised`, `NoSocket`). `FD_SET(-1)` either ends the process (a checked
build) or touches a bit `select` does not look at; the relay then reads the browser
and hangs when the browser ends, because its set is empty. The same happens when the
uninitialised number is the browser's own. A number that is not open makes `select`
fail with EBADF at once, which ends the process; any other relay ends that way after
its end of file, since `do_transfer` closes both sockets and takes one out of the set.

| run | bounds | shows |
|---|---|---|
| `socks_relay` | 2 rule files (one well formed that allows CONNECT only; one with a line of another form, an octet above 255 and a star before an octet, which lets BIND pass) or none, 4 requests (CONNECT, BIND, command 3, version 5), 3 chunks each way, connections and reads of 2 | types, `OnlyPermitted`, `ReplyFirst`, `NothingLost`, `RelayEnds`, `Delivered` |

Three chunks against reads and connections of two give short reads and writes
that block in both directions. The rule files need no more variety than to
permit and to refuse, with each form of line: that only what a file honours passes
is proved for all files, that only what its rules mean passes for all files of
`WellFormed` rules. Fairness: the
process is scheduled, and peers read what has arrived (without that a blocking
`write` stops both directions, which is how the code is written, and no promise
of it is broken). Nothing makes a peer send, close or connect.

`RelayEnds` speaks of a relay that has a destination, or a number for one that is not
the browser's: without one the process hangs, as said above. `OnlyPermitted` speaks
of data: the connection to the destination is made before the firewall is asked
(`Connect` before `Decide`), which nothing in the repository forbids. `NothingLost`
speaks of a relay that runs: at the end of file of one side, what the other still
sends is lost.

`SocksProofs.tla` begins with `FireWallCorrect`: for all files of `WellFormed` rules,
the case analysis over counted stars and zeroed octets permits exactly the requests
that agree with some rule octet by octet. The restriction is a hypothesis of the
theorem: of `10.*.0.0` and 266, which the code takes, it says nothing.
`FireWallHonours` is about every file of lines of up to four tokens: what `fire_wall`
permits, some line honours. `RelayPermitted` (`Spec => []OnlyPermitted`, for every
such file) uses both, with the invariant `Shape /\ Consent`: once
`dst` is the destination, or something was written to it, the request was
permitted.

`SocksTypeCorrect`, `RepliesComeFirst` (`Spec => []ReplyFirst`) and
`RelayLosesNothing` (`Spec => []NothingLost`) hold for every rule file, set of
requests, read length, capacity and number of chunks. They follow from
`RInv == TypeOK /\ Stage /\ Before /\ Positive /\ Flow /\ Told`. `NothingLost`
speaks of the relay only, and a stream of chunks is no use to a proof unless it is
followed from its start: `Before` says what waits in the connections until the
relay begins, `Flow` is `NothingLost` from the reading of the request on, with the
replies in the browser's stream, `Positive` tells data from requests and replies,
and `Told` gives the shape of what the browser has been told at each point. The
lemmas on sequences (`Moved`, `TakenUp`, `SentOn`) say that passing a chunk from a
connection to the buffer, and on, leaves the concatenation of the three as it is.
`RelayEnds` and `Delivered` are only model-checked.

## 6. Concurrent: processes over shared memory

`Concurrent.tla` follows `np_project2/concurrent`: one process per client, and
table, message buffer and user pipes in shared memory without a lock. Wherever
another process can come between two accesses, they are two steps.

| code | model |
|---|---|
| `client[i]`: `pid`, `name`, `enable`, `id`, `client_fd` | `pid`, `name`; a row is enabled iff its pid is not 0, its id is its number, its descriptor is that of its owner (`fdno`) |
| the message buffer, `user_pipe` | `message` (which kind of message it holds), `user_pipe` |
| `main`: `accept`, the login limit, `fork` | `Accept`, `ForkFails` |
| `init_client` | `Choose` (`get_available_client`), `Clear`, `Fill` |
| `broadcast`, tell, who | `Blank`, `Write`, then row by row `Scan` and `Kill` |
| `sigusr1_handler` | `Handle`; `pending` is one bit per process |
| `my_shell` | `Shell`, `Command` (with the checks of every command), `Rename`, `EndOfFile`, `Reset` |
| `process_handler` for `<n` and `>n` | `Receive`, `Send`, `RunLost`, and `Finish`, which runs twice: `process_handler` and `my_shell` both close |

What a reader may not expect, all of it the code's:

* `*login_cnt++` moves the pointer, so the limit always passes (for the first
  1023 logins); a client beyond the limit gets row -1, and its process crashes or
  goes on without a row;
* the table's rows keep pids of processes killed by SIGPIPE; a process whose
  client closes may leave, be killed, or read for ever, because `readline` looks
  at an uninitialised character at end of file;
* `kill` may find that the row was reset since it was looked at: pid 0 signals
  every process;
* the handler sends to the descriptor *number* of the first enabled row, which
  is the process's own connection, since all children have the same number,
  unless a `fork` failed and left a connection open in the server;
* `user_pipe` holds descriptor numbers of the process that made the pipe, which
  another process uses as its own (finding `con_others`).

The history variables `unheard`, `rivals` and `overlap` record who has not been
sent the current message, who chose the same row, and who was between a name's
check and its write. Left out: numbered and ordinary pipes (section 4),
printenv and setenv, the text of messages, `>0` and `<0`.

| run | bounds | shows |
|---|---|---|
| `con_rows` | 3 connections, 2 rows, logins and logouts | `RowKept` |
| `con_live` | 2 connections, 2 rows, 1 command each of tell, who, name, `>1`, `<2`, exit; 1 failing fork | `NamesUnique`, `LatestHeard`, `BroadcastHeard`, `CrashExplained` |
| `con_others` | 2 connections, 2 rows, 1 command on user pipes | a violation: `PipeFromOthers` |

Three connections over two rows give the race for a row, the full table and the
reuse of a row; the other races are of two processes, each in the middle of one
command while the other runs its own. `ForkFails` is allowed only between two
logins: only then do the numbers of two processes differ. Fairness: each process
is scheduled while it logs in, announces or handles a signal; nobody has to type.

The properties say what the missing lock costs and what it does not. A row is
lost (`RowKept`) only by processes that chose the same row at the same time, or in
a full table; an unchecked lookup fails (`CrashExplained`) for the same reasons, or
for one more, at one place: the message of `<n` or `>n` about a partner who has
left since `my_shell` checked him. Every other lookup, in these commands too, finds
its row. Names are
taken twice only by two overlapping `name` commands; a message may be
overwritten or its signals coalesce, but the last broadcast reaches everyone
(`LatestHeard`), and no broadcast is lost without something overwriting it
(`BroadcastHeard`).

`ConcurrentProofs.tla` proves `SharedTypeCorrect`, `RowsKept` and
`LookupsExplained` for every number of rows, connections, commands and failing
forks. The invariant is `TypeOK /\ LocalInv /\ Table`: whoever is about to clear
or fill a row that somebody has or is about to fill is that process's rival
(`ClaimsContested`), and a process past its login with no row is one the
properties except (`LostInv`). `LookupsExplained` (`Spec => CrashExplained`) looks at
each step in which a process can die (`CrashingSteps`).

`NicknamesUnique` (`Spec => []NamesUnique`) and `LastBroadcastHeard`
(`Spec => []LatestHeard`) add `HInv`, which TLC has checked on the instances of both
runs:

* `OwnRow`: a row's pid belongs to a process whose row it is;
* `Naming`: whoever is between the check of a name and its write overlaps with
  whoever else is, and with whoever has come to that name since the check;
* `Hearing`: who has not been sent the broadcast in the buffer has its signal
  pending, or a loop of broadcast that has not passed his row is under way.

`Hearing` is what survives the races: a second broadcast may overwrite the first and
its signals coalesce with it, but the handler reads the buffer when it runs, and any
loop still to come signals his row. The handler looks for the first enabled row and
sends to that row's descriptor *number*; it reaches the process's own client because
all numbers are equal until a `fork` fails (`leaked = 0`), and it finds a row at all
because its own is enabled; that there is a least one is a well-founded induction on
row numbers (`FirstRowExists`). `BroadcastHeard` is only model-checked.

## 7. SelectLoop: the event loop of the single-process server

`SelectLoop.tla` follows `main` and `readline` of `np_project2/single_process`
where `SingleProc` takes a line as given: connections that end in every way,
half lines, a failing `accept`, sends that end the process. A line is one of
five kinds, by what the server does for it: run a program, write to everyone
(`yell`, and everything that broadcasts), `exit`, nothing, or read a word that is
not there (`tell`, `printenv` or `setenv` alone).

| code | model |
|---|---|
| `client_info[i].client_fd`, `client_cnt` | `row` (a client, `Nobody` for 0, `Failed` for -1), `client_cnt` |
| the kernel's connections | `conn` (not made, in the backlog, served, refused, over), `peer` (here, closed, reset, broken), `in` (whole lines on the way), `half` |
| `select`, the scan over `rfd` | `Select`, `ScanEnds`, `Accepting`, `Turn`: the listening socket first, its number is the lowest |
| `connect_client`, `init_client`, the login limit | `connect_client`: the row, then the welcome, the broadcast and a prompt |
| `accept` returns -1 | `AcceptFails`: -1 is counted and gets a row, or `FD_SET(-1)` aborts |
| `readline`, `my_shell` | `EmptyLine`, `Exit`, `Yell`, `Short`, `Run` for a line read whole; `StaleNewline`, `EndOfFile`, `SpinEnds` for a `read` of 0; `ReadFails` for a reset |
| `send`, `broadcast`, `broadcast_except` | `Send`: what one send makes of each peer; `Kills` when SIGPIPE is raised, which nobody handles |
| `reset_client` | `reset_client`, after the broadcast of the logout, which goes to the client as well |

The first send after a peer has closed succeeds and is answered with a reset,
which is or is not here by the next send; the first send after a reset returns
the error, the next one raises SIGPIPE. A `read` of 0 leaves `c` as it was: the
byte the stack held, which may be a newline (an empty line) or another byte,
which is then appended until memory ends (`pc = "spin"`, then `"exited"`). A word
that is not there lies behind the vector of words: the process crashes
(`pc = "crashed"`), or the command goes on with whatever bytes are there (`Short`).

| run | bounds | shows |
|---|---|---|
| `select` | 2 clients on 2 rows, one sends two lines and one a single line, `accept` fails at any time | `RowsCounted`, `EndExplained`, `OnlyExitFrees`, `LinesRead` |

Two rows are what a broadcast to someone else, a failed `accept` beside a client,
and a full table need; two lines of one client are needed to send twice to a
client that has left. A refused client occurs when a failed `accept` holds a row.

Fairness: the loop goes on (`main`), and memory ends (`SpinEnds`). Programs need
not end and clients need not type, so `LinesRead` says: whatever a client has
sent whole is read, or the server has ended, or it stays for ever in `waitpid` or
in the middle of someone's half line. One weak fairness condition on the whole of
`main` is enough, because the scan serves everyone who is ready before the next
`select`.

The properties say what the missing check costs: a client that leaves without
`exit` keeps its row as long as the server lives (`OnlyExitFrees`), and only for such
clients do a broadcast or `readline` end the server (`EndExplained`). A failed
`accept` and a command without its argument can end it too, while everyone is
there; these two ends have control points of their own, of which `EndExplained` does
not speak.

`SelectLoopProofs.tla` proves `LoopTypeCorrect`, `RowsAlwaysCounted`,
`EndAlwaysExplained` and `RowsOnlyFreedByExit` for every number of rows, clients
and lines. The invariant is `TypeOK /\ Coherent /\ Current /\ EndExplained`:
`Coherent` (rows, connections and count agree, stated for pairs of rows, where
`RowsCounted` counts) and `Current` (whose descriptor is ready and whose line is
read is served, and not twice). Without `Current` a client could be reset twice in
one scan, which would count it off twice. `LinesRead` is only model-checked.

## 8. Console: sessions that answer prompts

`Console.tla` follows `np_project3/console.cpp` and `np_project4/console.cpp`,
which are one program but for the way to the server: `req.proxy` says which. Each
session's server is in the module too, as a shell that sends a prompt, reads a
command and answers.

| code | model |
|---|---|
| `QUERY_STRING`, `./test_case/` | `req`: which items each slot gives, and each file's lines; chosen once |
| `parse_query`, `server[i].enable` | `items` (sscanf stops at the first empty item), `enabled_direct`, `enabled_socks` |
| `print_html_web`, `server_index` | `print_html_web`, `column`: three loops of `main` that number the sessions |
| `shell_client::do_resolve`, `do_connect`, `do_read`, `do_write` | actions of the same names; a failed step ends the session |
| the SOCKS handshake in the connect handler | `do_connect_socks`, `ReadReply`: calls that block the one thread (`busy`) and throw (`"abort"`) |
| `contain_prompt`, `send_command` | operators of the same names |
| `output_shell` | `page`: which column has shown which session |
| `async_write_some` from a local array | `do_write` (done at once), `WriteLater` (later, from what the memory then holds: the line or `Garbage`) |
| `io_service::run` | `RunReturns` |
| server, proxy (external) | `Answer`, `Hangup`, `ProxyReplies` |

The stream is a sequence of tokens: a line of output, a line with a prompt in it,
and the two characters of a prompt, so that a read may end between them.
`torn` records that one did; `fakes` counts lines that look like prompts.

| run | bounds | shows |
|---|---|---|
| `console` | 3 slots, with and without a proxy; forms with a gap, with all slots, with the last slot only; files with and without `exit`, and a missing one; a connection holds one command; two misleading lines per server | `OwnColumn`, `InOrder`, `StuckExplained`, `Ends` |

The gap makes a slot's column differ from its number, the last slot alone is the
one `np_project4` scans differently, and a file of four lines lets a command wait
for room behind another. Two misleading lines fill a connection of one command
and leave one waiting; a third would repeat that.

Fairness: the thread runs each session's handlers, shells answer what they have
read, and the proxy replies; a server need not hang up. `InOrder` says that a
command may be spoilt only after output was taken for a prompt as often as the
connection holds commands; `StuckExplained` that a session and its server wait for
each other only after a prompt was cut in two, or when every line of the file has
been sent and no `exit` among them arrived whole (there is none, or it waited for
room and was spoilt); `Ends` that nothing else keeps a session or the program,
whatever the other sessions do. A proxy that never replies would keep the one thread
and with it every session: the fairness of `ProxyReplies` excludes it. One that
breaks off ends the program by an exception, which `Ends` counts as an end.

`ConsoleProofs.tla` proves `ConsoleTypeCorrect`, `AlwaysInOrder` and
`AlwaysStuckExplained` for every number of slots, forms, files and capacity. The
invariant speaks of one session at a time: `WiredAt` (a server is connected once,
by its handler), `CountedAt`, `Faithful` and `PromptedAt`. `InOrder` is not
inductive because it does not see prompts that are still on the way: `CountedAt`
counts the marks in `net[i]` (`Marks`, a cardinality) against the lines taken, so
every read that takes a line takes a mark away. `PromptedAt` is what
`StuckExplained` needs: if the server waits for a line there is, its prompt is the
end of what is on the way; that no `exit` arrived is because a server that has read
one prompts no more.

`AlwaysOwnColumn` (`Spec => []OwnColumn`) is about `print_html_web`, `column` and
the sessions' numbers, which the program computes in three loops. The page's heading
is the ascending enumeration of the slots that are enabled, and a session's column
is its rank among them, a cardinality; `ListedByRank` says that an ascending
enumeration has the element of rank `k` at `k`, so the numbers of the three loops
agree. `Ends` is only model-checked.

## 9. HttpServer: requests, environment and CGI programs

`HttpServer.tla` follows `np_project3/http_server.cpp`: a session per connection,
whose handlers one thread runs, and one environment for all of them.

| code | model |
|---|---|
| `echo_session` | `sess`: which of its handlers is due |
| `do_accept`, `start_service` | `do_accept`: `remote_endpoint()` throws if the peer has reset |
| `get_http_data`, `parse_http_header`, `set_env_var` | one handler, `get_http_data`; `line` and `host` say whose request line and Host line the pointers lead to, `env` whose the environment holds |
| `do_service` | `do_service`: `fork` and `exec`, then `wait` |
| `wait(NULL)`, the handler of SIGCHLD | `WaitReturns`, `sigchld_handler`: either may take the child |
| a CGI program (external here) | `child`, `CgiEnds` |

A request arrives whole, for a program or for `/`, or in pieces: without its Host
line, or with its first line only; or it is none: without a second word (`"bare"`), or
with a name of `?` or a Host of blanks (`"null"`), for which `strtok_r` returns null. The parser drops the last line it has, and a
pointer no line sets is uninitialised: it leads to any bytes, or to a string of a
session whose memory this one got (`Unset`); using it may also end the process.

| run | bounds | shows |
|---|---|---|
| `http` | 3 browsers, one of which sends each kind of request; each may close or reset at any point | `EnvExplained`, `OneByOne`, `Answered` |

Three browsers are one that waits for its program, one parsed in between, and one
that comes after both and may inherit from either. `passed` is history: who was
parsed between a request and its `fork`. Fairness: the handlers of each session run when they are due, `wait`
returns when it can, the signal is delivered; a program need not end and a browser
need not ask.

`EnvExplained` states what the shared environment does to requests: a program runs
under its own request unless another one was parsed between the reading and the
`fork`, and then under one of those. `OneByOne` is why nothing worse happens:
`wait` keeps the server until the program has ended, whoever reaps it. What ends the
server is modelled at each place (`Dies`: a reset before `accept`, a null or unset
pointer, a failed `fork`), but no property is about it: the repository says nowhere
what a server should survive, and `Answered` makes the exception.

`HttpServerProofs.tla` proves `HttpTypeCorrect`, `EnvAlwaysExplained` and
`AlwaysOneByOne` for any finite set of browsers and any requests. The invariant adds to the properties `Parsed` (a request is parsed
once, before those in its `passed`), `Environment` (what `EnvExplained` says of a
program that runs holds of the environment while the `fork` is due) and `Children`
(the server is up or dead only when no child is left). `Answered` is only
model-checked.

## 10. CombinedServer: both in one process

`CombinedServer.tla` follows `np_project3/main.cpp`: server, panel and console
without a CGI program. A console request fills the global `server` table and runs
a second `io_service` inside the handler of the first.

| code | model |
|---|---|
| `server[i].enable, host, port, file` | `enable`, `host`, `port` (the port's browser is the file's too): whose form the slot's strings come from |
| `request_method`, `query_string`, `cgi_name` ... | `line`: whose request line they lead to (`parse_http_header`); `cut`: whose query `strtok_s` has cut up (`query`) |
| `parse_query` | `parse_query`: a slot once enabled stays enabled, `sscanf` stores the items it finds |
| `print_html_web`, `server_index` | `page`, `index` |
| `io_service_for_client.run()` | `do_service` enters it, `RunReturns` leaves it and stops it: it is never reset |
| the sessions of the inner loop | `do_resolve`, `do_connect`, `do_read`, `ReadEnds` |
| `do_accept`, `get_http_data`, `send_cgi_web` | actions of the same names |

| run | bounds | shows |
|---|---|---|
| `combined` | 3 browsers, 2 slots; three console requests whose forms overlap, leave a slot half filled or are empty, or a console request, a panel, and an unknown name or a request that is cut short or malformed | `PageExplained`, `Answered` |

Three requests are the one that runs, and two that find the loop stopped, of which
the second finds what the first left in the table; two slots give a page with a
slot of its own and one of another form. Fairness: the handlers of the outer loop,
resolving and connecting; nothing makes a connection end, so `Answered` has the
alternative of a session that never does.

The table of servers outlives its form, so a page has columns of earlier forms among
its own. `PageExplained` says what must be right nevertheless: every slot the form
fills in has a column with the form's own server in the heading, and whatever is
shown in a column, of this form or of an earlier one, comes from the slot in its
heading; `print_html_web` and `do_service` number the columns in two loops, which have
to agree on the mixture. That `io_service_for_client` is never reset, so that later
sessions never run, is modelled (`stopped`) and demanded by no property: nothing in
the repository says what a second request should get beyond its page.

`CombinedServerProofs.tla` proves `CombinedTypeCorrect` and `PagesExplained` for any
finite set of browsers, number of slots and forms. The invariant adds to
`PageExplained`:

* `Named`: a slot that is enabled has a server of some form;
* `Running`: while the inner loop runs, it is for one browser, and every session of
  it has the column of its index on that browser's page;
* `Handled`: a page is written once, in the handling of its request, and a query is
  cut up by its own session before another gets its memory: so a form is whole when
  its own session parses it.

`Answered` is only model-checked.

## 11. Limits

Outside the provers' reach, in every module: liveness under fairness, `ENABLED`,
induction over data, and recursive operators; no module declares a recursive
operator. Only model-checked, for that reason: `RelayEnds` and `Delivered`
(`SocksServer`), `WaitEnds` and `ZombiesReaped` (`NumberedPipe`), `BroadcastHeard`
(`Concurrent`), `Ends` (`Console`), `Answered` (`HttpServer`, `CombinedServer`) and
`LinesRead` (`SelectLoop`). The proofs cover the safety half of most of them:
`NoDeadlock`, `LastBroadcastHeard`, `AlwaysStuckExplained`, `AlwaysOneByOne`,
`EndAlwaysExplained`.

The proofs assume of the constants what `ConstantsAssumption`, `PipeAssumption` and
their counterparts in the other modules state, which every run evaluates, and
nothing else but `EndOnce` in the one theorem that names it. They hold for the
bounds of the models (chunks, commands, lines of a session) as parameters: for every
value of them, but each behaviour stays within one.

### Not modelled

* `single_client` as a program. Its `process_handler` is that of `np_project1`
  (section 4) with the connection as terminal; `main` forks one child per client
  and waits for it, so clients are served one at a time and share nothing; its
  `readline` ignores a `read` of 0 as that of section 7 does.
* Overlong input and the layout of memory: the sizes of `execution_path`,
  `buffer`, `network_entity` and the copies into them, reads behind `message`, the
  row of `client_info` behind its last element, `strncat` into the environment in
  `printenv`. The models have the control flow, with unbounded strings.
* Lines that the shells do not define: an empty command between two pipes, `|0`,
  `|n` with `n` a multiple of the ring's length; a command without its argument, but
  in `SelectLoop`.
* The text shown: tails of longer lines that `output_shell` leaves in `temp`,
  output that is not flushed, escaping.
* `FD_SET(-1)` in a build without checks sets a bit of another word, which no model
  follows: the row and the count of `SelectLoop`, and the set `select` looks at in
  `SocksServer`, are the same.
* Overlapping writes of one session from the stack on Windows (`np_project3/main.cpp`):
  the combined server's sends are not modelled, those of the consoles are.
* Hazards without a property are listed in `PROJECT.json` with the reason: most are
  modelled, but neither code, comment nor test says what should happen.
* Build files.
