# banip in TLA+

banip lets programs ban addresses: clients write addresses to a message queue,
the daemon `banipd` reads them and passes them to a firewall. This directory
holds TLA+ models of its parts, configurations for TLC, and proofs for TLAPS.
Line numbers are those of `src/`.

## The system

| Part | Source | Modules | State |
| --- | --- | --- | --- |
| daemon | `banipd.c` | `Banipd`, `Programs`, `BanService` | modelled |
| POSIX queues | `queues/posix.c`, `queue.h` | `PosixQueue` | modelled |
| System V queues | `queues/systemv.c` | `SysvQueue` | modelled, but for names with an id |
| error slot | `queues/error.c`, `err.h` | `MessageLoop` | modelled |
| address parser | `parse.c` | `MessageLoop`, `NetMask` | modelled, but for `strdup` failures |
| PF engine | `pf.c` | `PfEngine` | modelled |
| engine list, dummy, NPF, ipset, iptables, commands | `engine.c`, `dummy.c`, `npf.c`, `ipset.c`, `iptables.c`, `command.c` | `Engines` | modelled |
| Varnish client | `clients/varnish4/vmod_msgsend.c` | `Banipd` | modelled |
| PHP client | `clients/php/banip-client.php` | `SysvQueue` | modelled |
| Apache client | `clients/apache24/mod_banip.c` | `ModBanip` | modelled, without subrequests |
| pftest | `pftest.c` | `Programs` | modelled |
| command line client | `banip-cli.c` | `Banipd` (its queue calls) | partly |
| Capsicum | `queues/capsicum.c`, `capsicum.h` | | no: compiled out |
| nftables engine | `nftables.c` | | no |
| shell tests, portability | `tests/`, `missing/` | | no |

The daemon creates the queue, the firewall's context and a pid file, gives up
its privileges, and loops: `queue_receive`, `parse_addr`, `engine->handle`. It
ends by a signal, whose handler runs `cleanup`, by a failure, after which
`atexit` runs it, or without cleanup. Clients open the queue by name and send.
What is hard here is not the data: it is several daemons under one name,
signals at any point (inside the cleanup of another signal too), crashes
between two steps, and state that outlives the process that made it.

## Modules

**`PosixQueue`** is `posix.c` over the kernel's queues. `link` is the kernel
queue that the name stands for, `msgs` and `kattr` the contents and attributes
of the kernel queues, `fd` the descriptors. `ptr`, `mq`, `filename`, `attr` are
the fields of each process's `posix_queue_t`. A process is one run of a
program, so the queue that owner `k` creates is called `k`. `queue_open` is cut
after `strdup`, `queue_close` after `mq_close`, after the assignment to `q->mq`,
after `mq_unlink`, and at each `free` and the assignment that follows it: a
signal in between leaves different states. `lostname` and `lost` are the
processes whose name or whose `posix_queue_t` is freed while the pointer still
stands; what a second `queue_close` reads there may be anything. `mq_open` and
the store of its result are one step; `filename` is set before, so cleanup does
the same in between, except that it leaves the descriptor to `exit`.

**`Banipd`** adds the daemons and the clients. `pc[d]` is where daemon `d` is
in `main`, or, from `"close"` on, in `cleanup`. A handler never returns, so no
stack is needed: a signal is a jump to `"close"`, possibly from inside
`cleanup`. `siglimit` stands for `sa_flags`, which the code leaves
uninitialised for INT and TERM: two nested signals at most (one of each), or
more if `SA_NODEFER` happens to be set. `Valid` is what `parse_addr` accepts
(the subject of `MessageLoop`), and `Kill` includes the abort seen there and the
crash of a second `free`. An `mq_receive` that fails is logged and called again,
which changes nothing here; its error path is in `MessageLoop`. `Concurrent`
says whether a daemon may be started while another one lives, `WithPidfile`
whether daemons are given `-p`.

**`MessageLoop`** looks inside one iteration: the branches of `parse_addr` and
`parse_ulong`, and the error slot. `_error_set` on a slot in use calls `free`
on a variable of `main`'s frame; the model lets it abort, or go on with the
slot overwritten. A message is a kind of host and a kind of number.

**`NetMask`** is the end of `parse_addr`, loop by loop, with the byte order as a
constant. A word is the set of its one bits.

**`PfEngine`** is `pf.c`, one step per system call, while clients connect and
disconnect, the administrator edits the table, and the daemon may end.

**`SysvQueue`** is `systemv.c` with its key file, and the PHP client. `file` is
the inode the name stands for, `content` what inodes hold; inodes are used
again. `strlen` is where the string in the receiver's `q->buffer` ends: 0 means
that this is not known, as after `malloc`, and any outcome is then possible.
Removing a kernel queue discards the messages in it. A script that finds no key
file goes on: `ftok` gives it -1, the same key for every such script.

**`Engines`** has the engines behind one interface: what `open` returns, what
`handle` changes in the firewall, and what it reports. A command fails, works,
or is too long to be run. **`Programs`** extends it with the memory of one
process: `buffer`, `ctxt`, `err_file`, the `queue_t` and its name of `banipd`,
and the same calls made by `pftest`. Here `cleanup` and the end of `queue_close`
are cut between each `free` or `fclose` and the assignment after it, `_verr`
between the pieces of a record, and `on_signal` between a `freopen` that fails
and the assignment to `err_file`. Using what was given back, or the stream that
such a `freopen` closed, is undefined: the process crashes or goes on. The log is
rotated from outside; `stream` and `current` number the log files, and `shared`
tells whether anyone may write to the one that has the name. The kernel's queue
and the pid file are left to `Banipd`.

**`ModBanip`** is the Apache client. The parent reads directives, merges, runs
`banip_post_config`, and restarts gracefully; a child keeps what it was forked
with (`forked`) and handles one request after another, as with the prefork MPM.
The module was written for an older queue library. `queue_open` is modelled with
the result `queue.h` declares, true for success, and `banip_post_config` compares
it with `QUEUE_ERR_OK`, as the code does: `queue` is `"unopened"` after a
`queue_open` that failed, and that is the handle Apache serves with.
`get` is the table of the query string that `lookup_get` keeps in the
configuration of the directory: it is `"freed"` once the request that filled it
is over. A request is the set of variables that match. The page that answers a
403 is a second pass through the hooks, with variables of its own and a handler
that may set X-BanIP itself (`set`); `header` is what is left of an earlier one.

**`BanService`** is what the system promises, with nothing of how: a server
begins to serve at most once and then stops; it settles the messages it accepted
one at a time, in their order, each at most once, and only while it serves; an
address is banned when its message is settled, and only if it is valid. Messages
may be accepted at any time, since a queue can outlive its daemon, and are then
never settled. `Banipd` implements it (`ServiceSpec`): a server serves while the
daemon is in its loop, `accepted` is what `mq_send` took, `settled` what the
loop is done with.

`BanipdLifecycle`, `BanipdProofs`, `SysvProofs`, `ModBanipProofs`,
`ProgramsProofs`, `PfProofs`, `NetMaskProofs` and `MessageLoopProofs` hold the
proofs; `MC*` modules give TLC values for lengths of texts and symmetry.
Definitions marked *Variant* are plausible mistakes in the definition that
follows them. They are not part of any specification; they serve to see that
each property fails when the code is wrong.

## Runs

| Run | Checks | Result |
| --- | --- | --- |
| `concurrent` | `ExclusiveReader`, `StaleQueueCause`, `StalePidfileCause` | hold |
| `restart` | `ServingLinked`, `ServingPidfile`, `TypeOK`, `TerminatorInBounds`, `ServiceSpec` | hold |
| `progress` | `InOrder`, `StopCompletes`, `Drained`, `SendReturns`, `ServiceSpec` | hold |
| `message_loop` | `TypeOK`, `HandlesMessage`, `SlotCause`, `AbortCause` | hold |
| `netmask` | `TypeOK`, `HostPartCleared`, `MaskInBounds` | hold |
| `pf` | `TypeOK`, `BanInForce`, `OnlyBannedKilled` | hold |
| `sysv_files` | `ServingIntact`, `StaleFileCause`, `StaleQueueCause`, `SendersFindServer` | hold |
| `sysv_messages` | `TypeOK`, `Delivered` | hold |
| `programs` | `TypeOK`, `CrashCause`, `RecordWritten`, `LogFollows`, `SuccessListed` | hold |
| `apache` | `TypeOK`, `SendHasQueue`, `QueueKept`, `ForbiddenReported`, `ReportedOnce`, `RuleVerdict` | hold |
| `two_daemons` | `OnlyOwnerUnlinks` | violated |
| `options` | `OptionsEffective` | violated |

The runs that are violated check a sentence of the repository; what the code
does instead:

- `two_daemons`: `queue_open` sets `filename` before `mq_open`, and
  `queue_close` takes a set `filename` for ownership. A daemon whose `mq_open`
  failed removes the name of a queue that another daemon created.
- `options`: `queue_set_attribute` is refused before `queue_open`, where the
  header wants it called, so `-b` and `-s` have no effect.

Several properties hold only because they name the exceptions. Read as a list,
these are the places where the code does less than its documents say:

- `StaleQueueCause`, `StalePidfileCause`: a daemon started by root is `nobody`
  when it stops and may not remove its queue or its pid file, although the owner
  is to "take in charge its creation and deletion" (`queue.h:61`).
- `Delivered`: the PHP client sends no terminator, and `queue_receive` copies
  with `strcpy`: the daemon may read an address followed by the end of a longer
  text received earlier.
- `StaleFileCause`: `queue_open` on System V creates the key file before it
  notes its name. And `queue_receive` there returns the size of the kernel
  message, where `queue.h:92` says the length.
- `HandlesMessage`: `parse_addr` ignores the verdict of `parse_ulong`
  (`parse.c:135`). A prefix that is refused, zero or no number, is used as
  `strtoul` read it, and the error stays in the slot (`SlotCause`, `AbortCause`).
- `CrashCause`: a signal between a `free` or `fclose` of `cleanup` or
  `queue_close` and the assignment after it, or between a `freopen` that fails and
  its assignment, makes the handler use what is gone. And `cleanup` frees ipset's
  context, which is `(void *) 1`.
- `SuccessListed`: a command that is too long counts as done; NPF and ipset are
  given the address without its prefix; iptables passes its arguments one place
  late.
- `LogFollows`: after `setuid` a rotated log may be out of reach, and a `freopen`
  that failed once is never tried again.
- `ServingIntact`, `SendersFindServer`: a System V cleanup that a signal
  interrupts after `unlink` removes the key file a second time, maybe that of
  another daemon.
- `SendHasQueue`, `QueueKept`: `mod_banip.c:250` compares `queue_open`'s `bool`
  with `QUEUE_ERR_OK`. An Apache that could open the queue stops; one that could
  not serves, and every message it sends goes to a queue that is not open. What
  remains true is that no null handle is used, and that none is leaked.
- `RuleVerdict`: a `GET:` rule may look at the query string of an earlier
  request of the same child.
- `ReportedOnce`: the page for a 403 can be reported once more, by a rule or
  because its own handler sets X-BanIP.

### Bounds

- `concurrent`: two daemons started by root at any time, three signals each:
  two may nest in any case, the third needs `SA_NODEFER`. The proofs cover more.
- `restart`: three daemons one after another, so that the third meets what two
  left behind, and a client; one message fits each queue.
  Texts are shorter than, as long as and longer than a message may be.
- `progress`: one daemon, two clients, three messages on a queue of two: two
  messages wait together, and whoever sends the third is blocked. Texts that the
  queue refuses are left to `restart`, and no pid file is written.
- `message_loop`: four messages, so that an error left by one is met by the
  next, and again after the slot was emptied; prefixes at and around 0, 32,
  64 and 128, and numbers that are too large or no numbers.
- `netmask`: two words of two bytes of two bits; every address and prefix. It
  has word and byte boundaries, and a prefix of full length. The byte order is
  the little one, where `htonl` matters.
- `pf`: addresses scaled in the same way, hosts of both families that differ in
  the first and in the last bits, every prefix, a table of limited size.
- `sysv_files`: two daemons and a sender, two inodes (one can be used again),
  signals at two places of each. `sysv_messages`: a sender and a script, three
  texts around `buffer_size`, room for two messages of the library. `Share`
  stands for the 8 in `msg_qbytes / 8`.
- `programs`: two INT or TERM and two rotations, so that a handler meets what
  another one left, and a log file is missed once; log files for root and for
  everyone; every engine; an address of each family, one with a prefix.
- `apache`: one child (children share nothing), up to two rules over a variable
  of each kind that is looked up differently (`uri`, `GET:`, `POST:`), two
  restarts. Rules are given before the first restart only, and a virtual host
  has no rules: merging makes them unread.

Deadlock is checked in `pf` only: elsewhere, when all daemons have run or all
messages are sent, the bounded system stops.

### Fairness

`Fairness` asks two things of the operating system. A daemon that can take a
step takes one (weak fairness of `Step`): nothing else in `banipd` schedules
it. A blocked `mq_send` that finds room again and again returns (strong
fairness of `Send`): the kernel wakes waiting senders in order. Nobody has to
start a daemon, to send a message or a signal.

## Proofs

The theorems hold for every value of the constants that the named assumptions
of the modules allow: any number of daemons, clients, messages, signals and
rotations, any sizes, any width of addresses, either byte order.

| Module | Theorem | States |
| --- | --- | --- |
| `BanipdProofs` | `TypeCorrect` | `TypeOK` |
| | `ReadersExclusive` | `ExclusiveReader` |
| | `MessagesInOrder` | `InOrder` |
| | `ReceiveInBounds` | `TerminatorInBounds` |
| | `StaleQueues` | `StaleQueueCause` |
| | `StalePidfiles` | `StalePidfileCause` |
| | `ServedAlone`, `PidfileAlone` | `ServingLinked`, `ServingPidfile`, for `~Concurrent` |
| | `Implements` | `ServiceSpec`: `Banipd` implements `BanService` |
| `SysvProofs` | `TypeCorrect` | `TypeOK` |
| | `ServersIntact` | `ServingIntact` |
| | `FileLeftForCause`, `QueueLeftForCause` | `StaleFileCause`, `StaleQueueCause` |
| | `MessagesDelivered` | `Delivered` |
| | `SendersServed` | `SendersFindServer`, for `Php = {}` |
| `ModBanipProofs` | `TypeCorrect` | `TypeOK` |
| | `SendersHaveQueue`, `QueueFollowsConf` | `SendHasQueue`, `QueueKept` |
| | `AnswersReported`, `ReportsOnce` | `ForbiddenReported`, `ReportedOnce` |
| | `RulesDecide` | `RuleVerdict` |
| `ProgramsProofs` | `TypeCorrect` | `TypeOK` |
| | `CrashesCaused` | `CrashCause` |
| | `RecordsWritten` | `RecordWritten` |
| | `LogsFollow` | `LogFollows` |
| | `SuccessesListed` | `SuccessListed` |
| `PfProofs` | `TypeCorrect` | `TypeOK` |
| | `BansInForce` | `BanInForce` |
| | `KillsExact` | `OnlyBannedKilled` |
| `NetMaskProofs` | `TypeCorrect` | `TypeOK` |
| | `PrefixKept` | `HostPartCleared` |
| | `MaskWritten` | `MaskInBounds` |
| `MessageLoopProofs` | `TypeCorrect` | `TypeOK` |
| | `MessageHandled` | `HandlesMessage` |
| | `SlotEmptied` | `SlotCause` |
| | `AbortsCaused` | `AbortCause` |

### `Banipd`

None of its properties is inductive. The invariant adds what the daemon knows at
each location:

- `InHand`: a message that is parsed or handled is in the buffer, and a client
  that sends has a descriptor. Without it `InOrder` says nothing of a step that
  drops `cur`.
- `Lifecycle`: a daemon has a descriptor of its own queue or none, nobody knows
  a queue that is not created yet, and from its creation to cleanup the daemon
  has all it needs to remove it, none of it freed. `ExclusiveReader` follows.
- `Lengths`: the texts in a queue fit its attributes, and the buffer is one
  byte larger. `TerminatorInBounds` follows.
- `Removable`: as long as the name stands for the queue of a live daemon,
  cleanup will reach `mq_unlink`, unless a signal interrupted it between
  `mq_close` and the assignment to `q->mq`. `StaleQueueCause` follows.
- `PidfileKnown`: the same for the pid file.
- `Alone`, for one daemon at a time: nobody takes the name or the pid file away.

`BanipdLifecycle` proves that each action keeps the types, and the steps of
`Lifecycle`, `Removable` and `PidfileKnown`; `BanipdProofs` the rest and the
theorems.

### `Banipd` implements `BanService`

The mapping reads `pc` and the history variables. The proof shows that a step of
one daemon changes the state of no other (`StatesMove`), that a state only moves
forward (`StatePath`), and that the message in hand is the oldest one not settled
(`Unsettled`, from `InOrder`) and an address if it was parsed (from `InHand`).
Then each action of a daemon (`DaemonServes`) or a client (`ClientAsks`) is one
of the service's, or changes nothing the service has; only the end of an
iteration settles a message (`EndSettles`).

### `SysvQueue`

The key file is the hard part: a cleanup that a signal interrupts may remove the
file of the next daemon, and an inode may come back. The invariant has four parts.

- `Daemon(o)`: what a daemon knows at each point of `queue_open` and
  `queue_close`. A queue that the kernel still has is known to its daemon, or the
  daemon was stopped right after `msgget`, or became another user.
  `StaleQueueCause` follows.
- `Stale`: the daemon that made the file has not begun to forget it, unless it
  was stopped before it noted the name. `StaleFileCause` follows.
- `Held`: as long as no signal made a daemon unlink the file twice, a daemon that
  serves has the inode of the file, and one that is about to unlink it made it.
  This is why the exclusive `fopen` is enough. With `Keys` (no two linked queues have the same
  key) it gives `ServingIntact`.
- `Ordered`: what a daemon got, followed by what is in its queue, is what was
  sent; once the queue is removed, what it got is the first part of that.
  `Delivered` follows.

Each action has a lemma of its own. It shows what the action does to the daemon
that moves; `DaemonStep` and `SenderStep` then give the invariant, since a step of
one process leaves the others alone (`Same`).

`SendersFindServer` needs one more fact: every linked queue has a key made with
the id of the library (`LibraryKeys`). A script that finds no queue creates one
with the id it read, which need not be that one, so the theorem is about programs
that use the library, as is the run.

### `ModBanip`

- `QueueInHand` and `ForkedWithQueue`: when the parent has a handle, that it is
  one `queue_open` failed on, and that a child is forked with it if one of its
  servers may send. `SendHasQueue` and `QueueKept` follow.
- `Reported(k)`: what a request may have been reported for at each point, before
  and after the page for a 403, and that a report for the header takes the header
  away, so that the page is reported for a header only if its own handler set
  one. `ReportedOnce` follows.
- `Answered(k)`: `ForbiddenReported` at each point.
- `Judged(k)`: the rules before the one `banip_fixup` is at do not match, unless
  the child has read the table of an earlier request. `RuleVerdict` follows for
  any number of rules; no induction over them is needed, as the loop's own steps
  carry it.

### The others

- `ProgramsProofs`: what was given back is recorded except right after the
  `free`, `fclose` or failed `freopen`, or if a signal came there (`Recorded`, and
  `Once` for `pftest`); outside `cleanup` the stream is open or about to be
  replaced (`Streaming`); and it is the file of the last USR1, or a log could not
  be opened before (`Following`). `SuccessListed` needs that the engine is chosen before the first
  address, and that `handle` has one (`Given`).
- `PfProofs`: with division and order in a base, the mask of a prefix has the
  bits of that prefix (`MaskV4Bits`, `MaskV6Bits`), so that a state matches the
  masked address exactly if its host is in the network (`MatchedContained`).
  `BanInForce` becomes inductive with `Busy`: there is a request in hand exactly
  from the start of `pf_handle` to its end. A host in the table gets no new
  state, so the second system call has the last word.
- `NetMaskProofs`: `netmask = j * WordBits + b` through the loops, and `htonl`
  is its own inverse on the bits of a word (`HtonlInvolution`), which is why
  full words need no swapping.
- `MessageLoopProofs`: what is known of a message at each step of `parse_addr`
  (`Parsed`), and which errors the slot may hold there (`Slot`).

Only model-checked: liveness (`StopCompletes`, `Drained`, `SendReturns`), which
needs fairness and ENABLED, out of this prover's reach. Every other property of a
passing run is proved.

## Not modelled

- The nftables engine: `README.md` calls it broken.
- The exit status of `banip-cli`, which is success when `queue_send` fails: one
  assignment, with nothing to interleave.
- Capsicum: `capsicum.h:7` begins with `#if 0`, so that its limits are the
  constant `true`.
- System V names of the form `path:c`, and big-endian hosts for the PHP client.
- `malloc` inside a signal handler, and failures of `strdup`.
- Subrequests of Apache, for which `banip_fixup` runs as well, and error statuses
  that other modules set. Threaded MPMs, where children would share `get` between requests
  that run at once; and what the regular expressions of its rules accept.
- The wording of errors, and the `errno` from earlier calls that only changes it.
