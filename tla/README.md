# TLA+ models of the cosix capability and IPC core

This directory holds TLA+ specifications of the kernel's capability and
socket substrate (`src/fd/`), the TLC configurations that check them, and
`PROJECT.json`, which records every component, every run, the mutants that
show each checked property can fail, the source lines each definition
translates, the findings and the hazards.

## 1. The system

| Part | Source | State | Operations |
|---|---|---|---|
| PairSocket | `src/fd/unixsock.cpp` | per half: `status`, `othersock` (weak), `recv_messages` (list of messages: buffer, `stream_data_recv`, `fd_list`), `num_recv_bytes` (size_t), `recv_messages_cv`, `error` | `socketpair`, `sock_send`, `sock_recv` (datagram / stream, PEEK, WAITALL, NONBLOCK), `sock_shutdown`, `read`/`write` wrappers, destructor |
| ControlSocket | `src/fd/ifstoresock.cpp` | `status`, `has_message`, `message_buf`, `message_fds` (FD numbers), `read_cv`, `write_cv` | `sock_send` (command interpreter: LIST, PSEUDOPAIR, COPY, MAC, HWTYPE, RAWSOCK), `sock_recv`, `sock_shutdown` |
| CapTable | `src/fd/process_fd.hpp` (declaration only) | slots: capability + rights | `add_fd`, `get_fd`, `close_fd`, `replace_fd` |
| Signaler / cv | not under `src/` | waiters | `wait`, `notify`, `broadcast`; signaler `attach` (with an already-satisfied hook), `condition_broadcast` |
| memory_fd | `src/fd/memory_fd.hpp` | buffer address, length | `read` |
| Intrusive lists | `src/oslibc/list.hpp` | head pointer, items with `next` and `data` | `append`, `prepend`, `remove_one`/`remove_object`, `remove_all`, `clear`; read-only `size`, `iterate`, `find`, `contains` |
| PCI config access | `src/hw/pci_bus.cpp` | none (port I/O) | `read_pci_config`, ... |
| Userland init | `src/userland/init/init.cpp` | `configfs_spec`, `last_deviceid`, `configfs`, `tmpfs`; locals `wait_times` | read and parse the kernel command line, partition, wait for the configured block device, mount it and a tmpfs, then spawn services |

How they interact. A kernel thread of a process calls an operation on a
capability number; the process's table resolves it to an object. The two
halves of a pair point at each other weakly, so each half lives exactly as
long as table slots, threads inside a call, and copies queued in messages
reference it. `sock_send` copies the sender's capabilities into the message
it appends to the peer's queue. `sock_recv` installs them into the
receiver's table. A receiver that finds nothing sleeps on its half's
`recv_messages_cv`: `sock_send` wakes one sleeper (`notify`), while
`sock_shutdown(SHUT_WR)` wakes them all (`broadcast`). A thread can also
poll a half: it attaches to the half's `recv_signaler` (predicate
`is_readable`) or `send_signaler` (predicate `is_writeable`: room in the
peer's buffer). `attach` returns at once if the predicate holds; otherwise
the poller sleeps until that signaler is broadcast. `sock_send` broadcasts
the peer's `recv_signaler`; a consuming `sock_recv` broadcasts its own
half's `send_signaler`. The destructor
shuts both directions down, drops the queue and the capabilities queued in
it. The control socket's peer is the kernel itself. `sock_send` runs a
command, installs any new capabilities into the *sending* process's table,
and leaves a one-slot reply that the next `sock_recv` collects.

The scheduler is cooperative on one CPU, so everything a call does between
two waits is atomic. The models make each such segment one step.

What is hard here, and what a test hardly reaches:
- interleavings of several readers on one half;
- a close in one process destroying a half while another process is sending;
- the destructor running when a half is already shut down;
- PEEK and truncation making `num_recv_bytes` drift from the queue and wrap;
- the stream walk across partly read messages and FD read boundaries;
- capabilities installed more or fewer times than they were sent;
- lost wake-ups, of cv sleepers and of pollers;
- a half passed inside a message and then closed, which lives on only as a queued copy and dies inside its peer's destructor.

## 2. Modules

| Module | Models | Checked through |
|---|---|---|
| `UnixSock.tla` | PairSocket, with the CapTable (as counts) and the cv it uses | `MC_UnixSock.tla` |
| `CapChannel.tla` | what both kinds of pair promise in common: FIFOs per half, slots, close, dropping a queue | extended by the two below |
| `StreamChannel.tla` | what a stream pair promises: two FIFOs of bytes, capabilities on each send's first byte | instanced by `MC_UnixSock.tla` |
| `DgramChannel.tla` | what a datagram pair promises: two FIFOs of whole messages | instanced by `MC_UnixSock.tla` |
| `IfStoreSock.tla` | ControlSocket, with a CapTable of numbered slots | `MC_IfStoreSock.tla` |
| `ListSpec.tla` | what the list operations promise, on a sequence of values | instanced by `MC_LinkedList.tla` |
| `LinkedList.tla` | `list.hpp` at the pointer level | `MC_LinkedList.tla` |
| `MemoryFd.tla` | `memory_fd::read` with size_t arithmetic | `MC_MemoryFd.tla` |
| `InitProcess.tla` | init's `program_main` up to the mounts, with `parse_cmdline` | `MC_InitProcess.tla` |

`PROJECT.json` maps every definition that models code to the source lines
it translates. Each mapped definition is marked as either taken from the
code or, where the code is not under `src/`, modelled from the spec.

### `UnixSock.tla`: PairSocket

State (`VARIABLES`):
- `sk[s]` = `[alive, status, q, n]` for each half.
  - `alive` is FALSE once the destructor has run.
  - `q` is `recv_messages`, one `[len, off, fds]` record per message, where `off` is `stream_data_recv`.
  - `n` is `num_recv_bytes` modulo `2^WordBits`.
- `thr[t]` is a kernel thread: `idle`, `wait` (asleep in `recv_messages_cv.wait()`), `woken`, `pollread` or `pollwrite` (asleep on that half's `recv_signaler` or `send_signaler`), or `pollwoken`, with the half and the request it is serving. A thread that is not idle holds a reference to its half.
- `table[p][c]` is the number of slots of process `p` naming capability `c`. FD numbers and rights are abstracted away.
- What a call returns is not kept: no property reads it.
- `panicked` is set when a kernel `assert` fails.

Actions:
- `Send` is `sock_send`, checked in this order:
  1. EPIPE;
  2. the `assert(other)` and `is_writeable` assertions, as `Panic`;
  3. EAGAIN on a full peer;
  4. EBADF on an FD not in the table;
  5. the truncation to the room left, the append, the broadcast of the peer's `recv_signaler` (`RecvSignaled`) and `notify`.
- `RecvStart` and `RecvRetry` are the entry to `sock_recv` and the return from a `wait()`. Both run `RecvLoop`, one pass of the wait loop, which ends in one of these:
  - `DgramRecv` (which, unless peeking, broadcasts `send_signaler` of the half it read, `SendSignaled`);
  - `StreamRecv`, whose walk is the recursive `StreamWalk`, with `StreamFdsOffered` and `StreamQueueAfter` for the fd loop and the pops;
  - EOF;
  - EAGAIN;
  - sleeping.
- `Shutdown` is `sock_shutdown`. SHUT_RD is forwarded through `InnerShutWr`. The early return when the half is not connected is kept.
- `Close` is `close_fd`. When the last reference goes, `Release` runs `Destructor` (`~unixsock`), which calls `SockShutdown` with the peer unable to lock this half.
- `Refs` counts the references to a capability: table slots, threads inside a call on it, and the copies queued on live halves (`QueuedCopies`). `Release` takes a set of halves and is recursive. A destructor drops its queue, and with it every fd_list entry (`QueuedSocks`), so the halves queued there are released in turn. A recv releases the halves whose queued copies its fd loop deallocated without installing them.
- `Passable` is the set of capabilities a send may carry. The `dgram` run passes half A; the `stream` run passes the file.
- `PollStart` is `get_read_signaler`/`get_write_signaler` followed by `attach`. The already-satisfied hook is `IsReadable` or `Writeable`, and `is_writeable`'s two asserts are `Panic`. `PollReturn` is a woken poller leaving the call and dropping its reference. `PollWake` is `condition_broadcast`.
- `Read` and `Write` are `unixsock::read` and `unixsock::write`, the byte interface: a `sock_recv` without FD slots or flags (`ReadReq`), and a `sock_send` without FDs.
- `Init` is the state right after `socketpair`.

`StreamChannel` and `DgramChannel` are the abstract specifications of the two kinds of pair, from spec 4.3. What they share is in `CapChannel`.

`StreamChannel`:
- each half has a FIFO of bytes, and the capabilities of a send ride on its first byte;
- `Send` appends 1 to `MaxBuffered` bytes to the peer's FIFO, with capabilities the sender holds;
- `Recv` takes a non-empty prefix in which no byte but the first carries capabilities (the FD read boundary), and installs a leading part of that byte's capabilities;
- `Close` drops a slot, and a half's FIFO is dropped only when no process has a slot for it (`Dropped`).

`DgramChannel`:
- each half has a FIFO of whole messages, each a length and its capabilities;
- `Send` appends one message;
- `Recv` takes exactly the first message and installs a leading part of its capabilities.

`MC_UnixSock` maps the pair to it: `ChanOf` expands each queued message into its remaining bytes, with the message's list on the first one, and a destroyed half has an empty FIFO. `DgramChanOf` keeps each message's length and list. Shutdown, failed calls, EOF and polls are stuttering steps. PEEK is outside both promises, since it delivers without consuming. Neither the `stream` nor the `dgram` run uses PEEK.

Modelled from the spec, since that code is not under `src/`:
- the cv (`Waiters`, `Wake`, `Notified`) and the signaler's wake-up and return (`PollWake`, `PollReturn`);
- reference counting (`Refs`, `Release`);
- `close_fd`.

### `IfStoreSock.tla`: ControlSocket

State:
- `status`, `hasMsg` (`has_message`), `reply` (the kind of `message_buf`: OK, ERROR, NOIFACE or INFO) and `msgFds` (`message_fds`, a sequence of slot numbers).
- `table[p][i]` is the kind of capability in slot `i` of process `p`, or `"empty"`. Slot 0 holds the control socket.
- `thr[t]` is `idle`, `sendwait`/`sendwoken` (on `write_cv`) or `recvwait`/`recvwoken` (on `read_cv`), with its request.
- Ghost variables:
  - `msgProc`: the process whose table `msgFds` was allocated in;
  - `known[p]`: the slot numbers `p` has been told about.

A request is `[cmd, arg, fits]`:
- `cmd` is the command word;
- `arg` is the class of its argument (`null` when there is no space, `empty`, a parsable filetype `num`, `junk`, an existing or missing interface);
- `fits` says whether the text fits in the 200-byte command buffer.

`Interpret` is the command interpreter as a pure operator. It follows the code's order of `strcmp`s and early returns, and gives:
- the reply kind;
- the kinds of capability installed;
- whether their numbers are left in `message_fds`;
- whether the code dereferences a null `arg`.

Actions:
- `SendStart`, `SendRetry` and `SendLoop` are `sock_send`: EPIPE, EAGAIN and the `write_cv` wait.
- `Execute` is `sock_send` from the size check onwards:
  - EMSGSIZE;
  - the interpreter;
  - `AddFds` (lowest-free-slot `add_fd`, recursive);
  - the `assert(message_fds == nullptr)`;
  - the reply;
  - `read_cv.notify`.
- `RecvStart`, `RecvRetry` and `RecvLoop` are `sock_recv`, ending in `Deliver`: the first `ri_fds_len` numbers are handed over, the rest dropped (`Drained`), and `write_cv.notify` is sent (`WakeWriter`).
- `Shutdown` and `Close` are `sock_shutdown` and `close_fd`.

### `ListSpec.tla` and `LinkedList.tla`: the intrusive lists

`ListSpec` is the abstract specification. A list is a sequence of values, and each operation is one atomic step:
- `AppendItem` and `PrependChain` add values;
- `RemoveOne` removes the first match and returns 1 or 0;
- `RemoveAll` filters the matches out and returns how many there were;
- `Clear` empties the list and returns its length;
- `Size` and `ContainsObject` leave the list alone and return its length, or whether a value is in it.

`LinkedList` is `list.hpp` itself:
- `head`, and per node `next`, `data` and allocation (`alloc`);
- a `pc` for the function being run, and its locals `i`, `prev` and `removed`.

Each function is split into two kinds of steps:
- a call step (`CallAppend` ...) for the prologue and the early return on an empty list;
- one step per loop iteration (`AppendStep`, `PrependStep`, `RemoveOneStep`, `RemoveAllStep`, `ClearStep`, `SizeStep`, and `ContainsStep`, which is `find` with `contains_object`'s functor). `Unlinked` is the shared unlink through the head or through `prev`, and `Skip` is the `prev = i; i = i->next` branch.

The caller allocates items (`linked_list(T&)` with `next = nullptr`); a prepended chain is linked in order first. Freeing is the default deallocator. The predicate is data equality, as in `remove_object`.

`MC_LinkedList` maps the implementation to `ListSpec`. The mapping is:
- between calls: the values reachable from `head`;
- during a call: a ghost snapshot taken when the call started.

So each call implements exactly one abstract step, taken at its last iteration.

### `MemoryFd.tla`

`Copied(offset, count)` is the arithmetic of `memory_fd::read`, modulo `2^WordBits`:
- the end-of-file test `offset + count >= length`;
- `bytes_left`;
- the `min` passed to `memcpy`.

Each step is one read, with any offset and count. The value the function returns on the copy path is left out, because the code has no `return` statement there.

### `InitProcess.tla`: init's start-up

State:
- `pc` is where `program_main` is;
- `cmdline`, `config` (`configfs_spec`) and `lastId` (`last_deviceid`);
- `listed`, the block devices the blockdevstore lists;
- `waitTimes`, `configfs` and `tmpfs`;
- `drivers`, the filesystem drivers started, each with its device id and block device.

Strings are sequences of characters. The single character `"K"` stands for the whole key `cosix.config`, so that a key equals it exactly when the code's string comparison says so.

`ParseChar` is one iteration of `parse_cmdline`'s loop, and `ParseCmdline` folds it over the line plus an end marker (the iteration with `i == cmdline.size()`). `ParseKey` and `ParseCmdlinefs` are `parse_cmdline_key` and `parse_cmdlinefs`.

Actions:
- `Start` is `read_cmdline` and `parse_cmdline`;
- `Partition` is the listing and partitioning, with exit on failure;
- `DeviceAppears` is a block device appearing, found by the partition tool or a driver, while init goes on;
- `WaitStep` is one pass of the wait loop, with `wait_times-- == 0` as written;
- `MountConfig` and `MountTmp` are the two `mount_filesystem` calls. `MountOutcomes` gives -1 (binary missing, spawn failed) or the pseudo FD with a driver. A failed `get_blockdev` (`BlockdevArgs`) still starts the driver, with a null device.

`MountsNamedConfig` reads the command line the way the comment in the loop describes it: words separated by spaces, each `foo=bar` or `foo`. The config is the last `cosix.config` word.

The cfg enumerates every line of up to three words joined by single spaces, drawn from `cosix.config=d`, `cosix.config=e`, `cosix.config=f@d`, `=`, `=a` and `a`. It uses two devices and `WaitTimes = 2`.

## 3. Runs

| Run | Module / cfg | Expect | Checks | What it shows |
|---|---|---|---|---|
| `dgram` | `MC_UnixSock_dgram` | pass | TypeOK, LiveHalfReferenced, ReaderNotStranded, ReadPollerGetsData, DgramRefinesChannel | a datagram pair passing half A in messages, with whole-message receives, polls of both signalers, shutdown both ways and close: no half outlives its last reference, no reader is stranded, data wakes a poller of `recv_signaler`, and the pair implements `DgramChannel` (11,348 states) |
| `stream` | `MC_UnixSock_stream` | pass | NoCapabilityMinted, StreamRefinesChannel | a stream pair with FD passing, WAITALL and short reads across FD boundaries, shown to implement `StreamChannel` (16,776 states) |
| `peer_gone` | `MC_UnixSock_peer_gone` | violation | NoKernelPanic | shut down for writing, then closed: the peer stays connected and its send hits `assert(other)` (unixsock.cpp:399) |
| `peek_wrap` | `MC_UnixSock_peek_wrap` | violation | NoKernelPanic | B's reader peeks a two-byte datagram and then receives it; `num_recv_bytes` drops by two both times and wraps, and A's next send fails `is_writeable`'s assert (unixsock.cpp:272, 77) |
| `peek_fds` | `MC_UnixSock_peek_fds` | violation | NoCapabilityMinted | a stream PEEK over k messages installs the head's FDs k times (unixsock.cpp:343) |
| `lost_wakeup` | `MC_UnixSock_lost_wakeup` | violation | ReaderNotStranded | `notify` wakes a PEEK reader that leaves the data; a second reader sleeps forever |
| `poll_write` | `MC_UnixSock_poll_write` | violation | PollerNotStranded | a thread polls A's `send_signaler` while B is full; a recv on B makes room but broadcasts B's own `send_signaler`, so the poller of A sleeps forever (unixsock.cpp:280, 383; spec 4.3 says the peer's) |
| `ctl` | `MC_IfStoreSock_ctl` | pass | TypeOK, NoKernelPanic | two threads issue every well-formed command, receive, shut down and close slots: `message_fds` is always drained before the next FD-returning command, so its assert holds (841,667 states) |
| `ctl_shut_send` | `MC_IfStoreSock_shut_send` | violation | NoCommandAfterShutdown | a sender asleep on `write_cv` while another thread calls `sock_shutdown(SHUT_WR)` is woken by the next recv and runs its command; `status` is tested only before the wait (ifstoresock.cpp:74, 85) |
| `list` | `MC_LinkedList` | pass | HeapConsistent, CallReturns, ListRefinesSpec | every list operation from every reachable heap keeps an acyclic chain through exactly the allocated items, terminates, and implements ListSpec, including what `size` and `contains_object` return (41,842 states) |
| `init_cmdline` | `MC_InitProcess_cmdline` | violation | MountsNamedConfig | with `cosix.config=d = cosix.config=e`, the word `=` leaves `parse_cmdline` in value mode, the last word is swallowed, and init mounts device d (init.cpp:78) |
| `memfd_bounds` | `MC_MemoryFd_bounds` | violation | CopyInBounds | an offset near SIZE_MAX wraps `offset + count` below the length and the `memcpy` reads past the buffer (memory_fd.hpp:14) |

What the properties say:
- `NoKernelPanic` in `peek_wrap`: the datagram path subtracts the bytes copied from the size_t `num_recv_bytes` even under PEEK, which leaves the message queued. A later receive of the same message subtracts its length again, and the count wraps. The trace has four steps across two processes: send, peek, recv, send. The stream path does the same at unixsock.cpp:378. Spec 4.3 says PEEK does not consume, and spec 8 that `recv_bytes <= MAX_BUFFERED` holds in every observable state. No passing run checks `num_recv_bytes` against the queue: without PEEK and datagram truncation that check only restates the send and recv arithmetic, and with them it fails.
- `NoCapabilityMinted` is an action property. The slots a step adds for a capability never exceed the copies that step removes from the queues, or, for a PEEK, the copies still queued.
- `NoCommandAfterShutdown` is an action property: once the socket is shut down for writing, no step fills the reply slot.
- `ReaderNotStranded`: a reader asleep in `sock_recv` whose wait condition holds is eventually woken and gets past its wait.
- `PollerNotStranded`: a poller whose signaler's predicate holds is eventually woken. It fails twice in the code. One failure is the wrong-half broadcast that `poll_write` shows. The other is a poller of `recv_signaler` waiting for a hangup: `sock_shutdown` and the destructor never broadcast `recv_signaler`. Closing the peer reaches it. It is listed as a hazard under the same property. Replacing `{"write"}` by `{"read"}` as `PollDirs` in `poll_write`'s cfg produces it. `ReadPollerGetsData` is the part that holds: a poller of `recv_signaler` whose half has data queued is woken.
- `HeapConsistent`, checked between calls: no freed item is linked, no live item is unlinked, and there is no cycle.
- `StreamRefinesChannel`: every step of the stream pair is a step of `StreamChannel`. Bytes come out in the order they were sent, and a send's capabilities come out with its first byte and never with later bytes. A recv never reads past a message that carries capabilities, and a close or destructor drops a queue only when no slot names the half. A copy loop without the FD read boundary breaks it.
- `DgramRefinesChannel`: every step of the datagram pair is a step of `DgramChannel`. A recv takes exactly the head message, and installs only capabilities sent with that message. A recv that read the list through `recv_messages` after unlinking the head would get the next message's capabilities. That is the mutant.
- `LiveHalfReferenced`: a live half is referenced by a table slot, a thread inside a call on it, or a message queued on a live half. It fails when a half outlives its last reference. The path is: A's holder sends A over A, so it sits in B's queue; A's slot is closed; then B's slot is closed. B's destructor must release A as well. A destructor whose `remove_all` drops the fd_list entries without releasing them is the mutant.
- `ListRefinesSpec`: the values and the returned counts are exactly those of `ListSpec`.

Each property of a passing run has a mutant in `PROJECT.json`: a plausible bug in a mapped definition, which TLC then catches under the run's cfg. Examples:
- an `add_fd` that takes the slot after the highest used one;
- a `message_fds` drain that walks the list without unlinking it;
- a `remove_all` that forgets `++removed`.

**Bounds.**
- `UnixSock`:
  - `MaxBuffered = 3` in `dgram` and `stream` (2 elsewhere), with send lengths 1 and 2, reaches an exactly full buffer, a truncated send and a partly read message.
  - `MaxQueue = 3` in `dgram` and `stream` (2 elsewhere) gives a walk over three messages in `stream`. That covers two consumed messages before an FD boundary, and a WAITALL recv whose walk stops at that boundary with bytes still wanted.
  - `MaxRefs = 2` lets a capability be both in a table and queued.
  - Three bits of size_t make the wrap in `peek_wrap` visible: 2 - 2 - 2 is 6, above `MaxBuffered = 2`.
- `IfStoreSock`:
  - `MaxSlots = 4` with `FdsLens = {2}` lets PSEUDOPAIR's two numbers, a RAWSOCK and a COPY be installed, and lets a table fill up.
  - Two threads cannot reach the lost `write_cv` notify of an EMSGSIZE sender (ifstoresock.cpp:96): two senders must be asleep while a third thread drains the slot, and three threads do not finish in minutes. The hazard is listed with that note.
  - `ctl_shut_send` uses one slot and commands that install nothing, so the first counterexample is the shortest one.
- `LinkedList`: three nodes and two values reach removals at the head, in the middle and at the tail, repeated values for `remove_all`, and prepends of chains of two.
- `MemoryFd`: a 3-bit size_t and a length of 5 enumerate every offset and count.

**Fairness.**
- A thread that a cv or a signaler woke is runnable, and the cooperative scheduler eventually runs every runnable thread. So `RecvRetry` and `PollReturn` (UnixSock) and `SendRetry`/`RecvRetry` (IfStoreSock) are weakly fair.
- A thread inside a list operation runs its loop to the end, because the loops have no wait. So `Step` is weakly fair in `LinkedList`.
- Nothing forces a user thread to send, shut down or close.
- `CHECK_DEADLOCK FALSE` is set for the socket models, because they really do stop: once every capability is closed, or a bound is reached, no call is possible. The list model is checked for deadlock.

## 4. Not modelled (yet), and why

- For the signalers, the condition data handed to a woken poller (bytes readable, hangup flag) is not modelled. Neither is a poll over several signalers at once, nor `detach`: no code under `src/` calls them.
- Rights masks are not modelled.
- Half B is never passed, and the `dgram` run passes half A but not the file: with both passable the state space with the liveness properties does not finish in minutes. Passing A covers the cascade, and A's self-reference through its own queue (a holder of B and A sends A over B). The A-on-B-and-B-on-A cycle is not reached.
- A reference cycle through queues leaks the halves in it. Reference counts cannot tell that apart from a live reference, and showing it needs a reachability check in a violation run of its own. All twelve runs are in use. It is a hazard in `PROJECT.json` with a note, as is `sock_send`'s leak of the fd_list entries of a partly built message.
- The non-blocking control socket (`NonBlock = TRUE`) is modelled, but no run checks it. Several hazards in `PROJECT.json` have no run; their notes say why:
  - reply FDs reaching another process;
  - the EOF test of `memory_fd::read`;
  - zero-length sends;
  - a blocking send on a full peer returning EAGAIN (unixsock.cpp:413), since return values are not kept.
- `iterate` and the range-for iterator of `list.hpp` only read the list and call back into the caller.
- PCI config access is port I/O. Its one computation, the address encoding of `read_pci_config`, keeps only two bits of `function` (`& 0x03`), but every caller passes function 0, so no reachable input shows it. `pci_bus::init` loops over 32 device numbers. Driver probe and init functions, which are not under `src/`, decide the outcome. Its one decision of its own, returning at the first failing device init, is a hazard in `PROJECT.json`.
- Of userland init, everything after the two mounts is not modelled: the switchboard, networkd, `flower_test` and the shells are spawned, and init then blocks for good. The line splitting of the `LIST` reply in `all_block_devices` is not modelled either; the device list is a set of names. Two hazards of the unmodelled part are listed with notes:
  - `start_networked_binary` leaks a control-socket copy and an FD on its early returns;
  - init hands a `configfs` of -1 to the programs it starts when the mount failed.
- The control socket leaks slots that no process is told about: PSEUDOPAIR with an unparsable filetype (ifstoresock.cpp:134), and a recv whose `ri_fds_len` is smaller than the numbers pending (line 52). Each would need a violation run of its own, and all twelve runs are in use. The `ctl` run uses well-formed commands and a large enough FD buffer. Both are hazards with notes.
- The null `arg` dereference of an interface command without a space (ifstoresock.cpp:165) is a one-step crash. Its run gave way to `peek_wrap`. Using `MCReqsNoArg` as `Requests` in `MC_IfStoreSock_shut_send.cfg`, with `INVARIANT NoKernelPanic`, reproduces it.

## 5. Plan

1. Extend the control-socket model:
   - a run with `NonBlock = TRUE`;
   - violation runs for the slots leaked by a truncated reply FD list and by PSEUDOPAIR with a bad filetype, and for the null `arg`;
   - three threads, for the lost `write_cv` notify of an EMSGSIZE sender.
2. A violation run for the leak of reference cycles through queues: a half alive but reachable from no table slot or thread through the queues.
3. A passing `InitProcess` run over well-formed command lines: the wait loop ends, and the config filesystem is mounted only from a listed device.
4. init after the mounts: the `COPY` requests on the ifstore control socket, and the FDs `start_networked_binary` leaks on its early returns.
