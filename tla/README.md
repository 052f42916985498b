# A specification of the daemons in my_c

The repository is a collection: one large program, BusyBox 1.20 under
`src/tools/busybox-1.20`, and many small ones. This directory holds TLA+
models of the parts that run for a long time, keep state and deal with other
processes: the DHCP server `udhcpd` and the DHCP client `udhcpc`, alone and
together, the service supervisor `runsv` and `runsvdir` above it, file transfer by `tftp` and `tftpd`,
the log that `syslogd` and `logread` share, and hosts that choose link-local
addresses with `zcip`. `configs/android_defconfig`
builds `udhcpc`, `runsv` and `runsvdir`; `udhcpd` is on by default in
`networking/udhcp/Config.src`.

Each file `X.tla` is a module, each `MC*.cfg` one run of TLC, and
`PROJECT.json` lists the runs, which definition models which lines, the
faults that show what each property notices, the hazards and
the theorems. To repeat a run or a proof, in this directory:

    tlc -workers 2 -config MCUdhcpd.cfg MCUdhcpd
    tlapm UdhcpdProofs.tla

## 1. Inventory

| Component | State | Operations | What is hard |
| --- | --- | --- | --- |
| `udhcpd`, lease table (`leases.c`, `dhcpd.c`, `static_leases.c`) | `g_leases`, a table of slots with MAC, address and deadline; locals of the search | DISCOVER, REQUEST, DECLINE, RELEASE, INFORM; `find_free_or_expired_nip()` with ARP probes | a search takes seconds, during which leases expire and conflicts enter the table; a full table; static leases beside dynamic ones; clients that may say anything |
| `udhcpd`, lease file (`files.c`) | the file, in which deadlines are times left | `write_leases()` after an ACK, on SIGUSR1 and on a timer; `read_leases()` at the start | death between ACK and save, or in the middle of a save; age of the file; 32-bit times |
| `udhcpc` (`dhcpc.c`) | state, `listen_mode`, `timeout`, `already_waited_sec`, `packet_num`, options | timer, SIGUSR1/2, SIGTERM, OFFER, ACK, NAK, read errors, ARP check, script | a timer kept in two variables across interrupted waits; a socket opened and closed with the state; any packet in any state |
| `arpping()` | none | one probe, two seconds | it stops its caller |
| `runsv` (`runsv.c`) | two `svdir`s (pid, state, want, status), pipes, status files | commands from two FIFOs, SIGCHLD, SIGTERM, deaths of children | signals against `poll()`, deaths against commands, two children under one SIGCHLD, exit while a log service still reads |
| `runsvdir` (`runsvdir.c`) | the array `sv` of services with inode, pid and mark; time and inode of the directory when last read | collect children, look at the directory, scan it, signals, `-s SCRIPT` | everything changes while it looks: entries, the link it follows, its children; modification times count seconds; as init it must go on forever |
| `sv`, `svlogd` | -; log files | command and wait, rotation | a status that is about to change, a crash during rotation |
| `syslogd`, `logread` (`syslogd.c`, `logread.c`) | a ring and its index in shared memory, two semaphores | write, wrap around, clear, remove; dump, follow | a reader looks at the index before it has the lock; a semaphore that outlives its owner; a segment that is there before it is set up |
| `tftp`, `tftpd` (`tftp.c`, `tcpudp.c`) | the last packet, block number, retries, the file | read and write requests, OACK, DATA, ACK, ERROR, timer | loss, repetition, late packets, 16-bit block numbers, a second server started by a repeated request |
| `zcip` (`zcip.c`) | state, address, timeout, counts of probes, claims and conflicts | timeouts and ARP packets in each state, link down, failing reads | no server decides: probes, claims and defences of several hosts cross, and get lost |
| `dhcprelay`, `d6_dhcpc` | transactions; as `udhcpc` | forward; as `udhcpc` | late answers |
| `ntpd`, `telnetd`, `inetd`, `ifplugd`, `init` | one loop each | packets, timers, children | timeouts and retries |
| `ash`, `hush` and some 300 short commands | that of the script or of the file | read, transform, write | little that interleaves |
| `android/ext4_utils` | block groups, extents, backed blocks | build an image | arithmetic of allocation |
| `tools/i2c-tools`, `linux/*`, `my_java/*`, `android/nfcard-read-only`, `driver`, `shell`, archives | - | - | copies, samples, binaries |

How they interact: clients and server exchange packets through the network,
which loses, duplicates and delays them; `udhcpd` is stopped and started
around its file; `udhcpc` configures an interface through a script and asks by
ARP whether an address is free, as the server does. `sv` writes bytes to the
FIFOs of `runsv` and reads its status file; `runsv` starts `./run`, `./finish`
and `log/run` and learns of their ends by SIGCHLD; `runsvdir` starts `runsv`.

What makes them correct:

- `udhcpd`: an address belongs to one client at a time, a client that was
  promised an address gets it, a lease changes for its own client only, an
  address in use by a stranger is left alone, a search ends, and what was
  acknowledged is known after a restart;
- `udhcpc`: an address is used no longer than its lease runs, the client
  listens where the answer will come, what the script was told agrees with the
  state, and the client never falls silent;
- both together: the client never counts on an address the server has given to
  another, whatever is lost, late or repeated;
- `runsv`: one copy of each service, no death unnoticed, restarts if and only
  if they are wanted, `./finish` gets what it is promised, and nobody is left
  behind when it exits;
- `runsvdir`: in the end each directory has one `runsv` and a removed one has
  none; no `runsv` is lost sight of, and none is stopped whose directory stays;
- `tftp`: what is written is a prefix of the file, a receiver that reports
  success has all of it, and both sides come to an end;
- `syslogd` and `logread`: a reader prints whole messages in order, a follower
  misses none unless it sleeps through a whole buffer or the log is cleared, and nobody
  waits for a semaphore forever without need;
- `zcip`: no two hosts use one address, nobody takes an address away from who
  uses it, and where loss of packets brings sharing about it ends.

`PROJECT.json`, "hazards", lists the places where these are at risk.

## 2. Modules

| Module | Contents |
| --- | --- |
| `AddressBook` | abstract: a book of (client, address, deadline) that changes an unexpired entry only for its own client |
| `Udhcpd` | the server's table and handlers; implements `AddressBook` |
| `UdhcpdRestart` | extends `Udhcpd` with the file, stops, crashes and starts |
| `UdhcpdProofs` | proofs about `Udhcpd`, and with them those about `UdhcpdRestart` |
| `Udhcpc` | the client |
| `UdhcpcProofs` | proofs about `Udhcpc` |
| `DhcpSystem` | `Udhcpd`, one `Udhcpc`, other clients and the network, by INSTANCE |
| `DhcpSystemProofs` | proofs about `DhcpSystem`, with instances of `UdhcpdProofs` and `UdhcpcProofs` |
| `Runsv` | the supervisor |
| `RunsvProofs` | proofs about `Runsv` |
| `Runsvdir` | the directory of services, its `runsv` processes, and who changes it |
| `RunsvdirProofs` | proofs about `Runsvdir` |
| `Tftp` | both ends of a transfer, and the network |
| `TftpProofs` | proofs about `Tftp` |
| `Syslog` | the ring, its writer and its readers |
| `SyslogProofs` | proofs about `Syslog` |
| `Zcip` | hosts on one link, their `zcip`, and the ARP packets between them |
| `ZcipProofs` | proofs about `Zcip` |
| `MCUdhcpd`, `MCUdhcpdRestart`, `MCUdhcpc`, `MCDhcpSystem`, `MCRunsvdir` | values for TLC (the others need none that a cfg cannot state) |

An operator whose comment begins with "Fault" is not part of its
specification. It is what the definition after it would be with a plausible
bug, and is used to see that a property notices that bug.

### Udhcpd

The server has one thread. A handler that does not wait is one action, with
every `add_lease()`, `clear_leases()` and eviction in it. Two things take time:
the search, which is one action per address (`Skip`, `RememberOldest`, `Probe`
and its two outcomes, `ProbeOldest`, `Abandon`), and the ACK, which is sent
(`RequestAck`), entered (`EnterLease`) and saved (`LeasesWritten`). `Tick`
lets a second pass at any of these points. Packets, which cannot be served
while `pc # "select"`, wait in the socket: as they may also come from
anybody at any time, a queue would add nothing.

| Variable | Code |
| --- | --- |
| `leases` | `g_leases`; a slot of zeros is `Empty` |
| `now` | `time(NULL)` |
| `pc`, `client`, `addr`, `oldest` | where the thread is, `oldpacket`, `addr`/`nip`, `oldest_lease` |
| `answered`, `promise`, `quarantine` | not in the code: what was probed, what clients were told, what the server was told |

`promise[m]` is what client `m` may count on: the OFFER for `offer_time`, the
ACK for the lease time in it. A client that sends DISCOVER, DECLINE or RELEASE
has given up what it had. Host names, options and NAKs, which change no state,
are left out. With a MAC of all zeros as a client's own the code cannot tell
a client from a free slot; such clients are excluded (`ZeroMac \notin Mac`).

### UdhcpdRestart

`file` is the image of the lease file: when it was written and, slot by slot,
how much time each lease has left. A crash during `write_leases()` leaves a
prefix (`Crash`), or nothing, as the file is truncated first. A save may also
fail while the server goes on (`SaveFails`): if the file cannot be opened it
stays as it was, and if writes fail the records that got through are left, or
nothing, and nobody looks at the result. `Start` and
`LoadRecord` are `read_leases()`; the age limit is `FileMaxAge`, 12 hours in
the code, and a file that is too old, or cannot be opened, is ignored. `Stop` is
SIGTERM, which does not save, or a kill at a harmless moment.

Two variables are not in the code, and name the clients whose acknowledged lease
is lost. `unsaved` are those the file lacks since the last save failed; the next
save that succeeds empties it. `forgotten` are those the file lacked when the
server went off (`unsaved`, the client of an ACK that was not saved yet, and
whose records a crash in a save cut off), and all if the file was not read. A client leaves
either when it is told something else. The promises about restarts are made to
all clients but the forgotten ones, not given up with the first failure.
A write that ends in the middle of a record while later ones succeed, so that the
rest of the file is out of step, is left out; and if the time at the beginning is
missing, what is read in its place is taken to be too strange for the file to count.

### Udhcpc

One turn of the loop is one action. The wait in `select()` is `Selecting`;
`TimerFired` is `timeout - already_waited_sec <= 0`. `slept` is the present
wait: code reads it off the clock when a packet or an error ends it. `Receive`
lets any packet arrive whenever a socket is open, which covers servers and
networks of every kind; which packets the code throws away without looking at
its state is `IgnorePacket`. `arpping()` takes up to `ProbeTime` seconds (`pc =
"probe"`), in which the lease runs on and nothing else is served. The script
is reduced to `iface`, the address it has configured. `left` is the lease
as the server counts it, from the reception of the ACK.

### DhcpSystem

The server of `Udhcpd` and one client of `Udhcpc` with one clock; the client's
variables keep their names but for `cpc`. `xid`, which `Udhcpc` has no need
of, is added: a new one is drawn for the first DISCOVER of a series only.
`toServer` is the server's socket, in which packets wait in order; sending may
lose them. `toClient` holds what the server has sent in the last `MaxDelay`
seconds; each packet in it may arrive at any time, more than once, or never. A
step of the client and the packet it sends are one action, and so are a step
of the server and its answer, which goes out while the rest of `send_ACK()` is
still to come. The other clients are not modelled in detail: they may send
anything at any time. ARP replies are left to chance on both sides. What the
client does to exit (SIGTERM, `-n`, `-q`) is left out.

### Runsv

The loop is cut where something else can happen: the two starts, `poll()`
(`Handle` and `Wake`), each `waitpid`, each FIFO, SIGTERM, and the end of the
loop. Between `poll()` calls signals are blocked (`pending`). Children die at
any step (`EndsByItself`); `IsEnded` is the death that must come, of a process
that was killed, or terminated and is not stopped, of `./finish`, and of a log
service at the end of its input. An exit status is represented by the program
that left it, since `./finish` is to be told about `./run`. A process id is
reused only after its owner was waited for, as in the kernel. Of the status
file the model keeps state, want and pid. The pauses of a second after a short
run, the hourly timeout of `poll()`, `vfork()` failures, and a `./log` that
appears later are left out.

### Runsvdir

A service stands for its inode, so that one linked from two directories is one
service, as for the code. `Collect`, `Check`, `Enter`, `OpenDir`, one `See` per
entry, `Sweep` and `Wake` are a turn of the loop, with every system call that
others can come between an action of its own: `stat()` in `Check`, `chdir()` in
`Enter`, `vfork()` in `See`. `runsv` is reduced to what `runsvdir` can tell: it
takes `supervise/lock` or ends at once if another one has it (`Lock`), may be
killed (`Die`), and exits after SIGTERM (`Exit`). `StatFails` is a `stat()` that
fails for an entry that is there, a link that leads nowhere for a moment say: the
entry is passed over, and its service counts as gone.

| Variable | Code |
| --- | --- |
| `listed`, `pid`, `gone` | the inodes in `sv`, `.pid`, `.isgone` |
| `needRescan`, `due` | `need_rescan`; `now - stampcheck >= 0` |
| `s`, `last` | `s` and `last_ino`, `last_mtime`: which directory, whether it was modified since (`same`), whether that second is still running (`fresh`) |
| `cwd`, `todo` | the directory being read, and what `readdir()` has still to return |
| `sig` | `bb_got_signal`; "TERM" stands for SIGUSR1 and SIGUSR2 as well |
| `svdir`, `entries`, `fresh`, `children` | the file system and the process table |
| `missed`, `unseen`, `strayed`, `moved` | not in the code: starts that failed and deaths that were not noted, entries for which `stat()` failed in the last scan, whether `chdir()` went elsewhere than `stat()`, what moved during the scan |

Entries that are made, removed or renamed while the directory is read may be
returned or not, as POSIX has it. The log pipe (off in `android_defconfig`) and
`-P` are left out, and so are a `realloc()` that fails and a `chdir()` back that fails.

### Tftp

`proc[p]` holds the locals of `tftp_protocol()` in process `p`: `nr` is
`block_nr`, `fin` is `finished`, `op` is `opcode`, `xbuf` the last packet sent,
`expect` whether an OACK may come. Receiving a packet and sending the answer is
one turn of the loop and one action. The timer of `poll()` runs out
(`TimerRunsOut`, `due`) and is handled by `Resend` or `GiveUp`, unless a packet
comes first; each packet, also one that is not accepted (`ReceiveOther`), starts it again with
all of its time. `StartTftpd` is `udpsvd`, which starts a server for a request when
none is connected to the sender. The block with number `k` of the file is
represented by `k`, and packets carry, for the network and the properties only,
the block they are about (`block`). `net` holds all that was sent; a packet
is `Fresh` as long as fewer than `Lifetime` blocks have been sent since.
`got` is not in the code: the most blocks that the receiver's file ever had.
A failing `xsendto()`, which exits and leaves the file as it is, is left out.

### Syslog

`shbuf`, `ipc`, `writing` and `counted` are the segment and its two semaphores;
`SMwdn`, `SMwup`, `SMrdn` and `SMrup` are one action each, as `semop()` is.
`Read` is the `read()` of the log socket with the `log_to_shmem()` that follows,
as far as the semaphore; `StoreMessage` and `StoreFirstPart` are the two ways of
its copy loop, a byte counting for one character; `Open`, `Fetch`, `NothingNew`
and `Wake` are the parts of logread's loop. `Open` is one step for `shmget()`, `shmat()`,
`semget()` and the first look at `tail`. A logread without `-f` may be run again. `Signal` and `SignalWhileWaiting`
end syslogd between `read()` calls or in one; `Killed` ends it anywhere, with
its semaphore raised if it was. `Undefined` is a reader that computes with a
size of zero. `stream` and `base` are not in the code: all that was written, and
how much of it before the buffer was last cleared. Nor are `cleared`, the readers that have
not looked at `tail` since, and `torn`, those whose present turn a clear has
spoilt: who holds the segment when it is cleared, and a follower in its first look
afterwards, with its old place in the new log. The next turn counts again.

### Zcip

`host[h]` holds the locals of `zcip_main()` on host `h`, and `iface`, the
address that the script has given its interface. The actions of `Timeout` are
the branches of "case 0" of the loop, those in `Receive` the branches of "case
1". `inbox[h]` is the queue of the packet socket: a broadcast arrives at once, in
one order for all, and is read later, so that packets of several hosts cross.
The kernel of a host answers requests for the address of its interface
(`Answers`) and asks for others (`Resolve`); it knows nothing of zcip. Seconds
are counted; a random delay of less than one ends now or with the next second,
and packets are read before the clock moves. A timeout that is due but comes
after a packet starts again with a random delay, as in the code (`Ignore`).
`Die` is a failing read or send, after which the address stays ("quit", as
with `-q`). The time scripts take, and what they return, is left out. On a host
where `zcip` has quit and left its address it is not started again.

## 3. Runs

| Run | Instance | Shows |
| --- | --- | --- |
| `udhcpd_small_table` | 3 clients (one static), pool of 3 with one .255, 2 slots | exclusive, backed and kept promises, the implementation of `AddressBook`; a search without answers fails only when there is nothing |
| `udhcpd_full_table` | 2 clients, pool .254-.0, as many slots | declined and conflicting addresses are left alone; searches end |
| `udhcpd_restart` | 2 clients, 2 slots, 2 starts, death at any step | saves that fail or are cut, files that cannot be read: what was acknowledged is known after a restart, but for the clients that the file lacked when the server went off, and files that were not read; in any case the table that is read is consistent and lacks no client of the file, and none of its time |
| `udhcpc_lease` | 2 addresses, all sets of options | what the client promises in every state, and that it keeps asking |
| `udhcpc_patient` | `-A` above the unicast limit, reads that fail | the right socket is open in the states that need one |
| `dhcp_system` | udhcpc with and without `-a`, another client, 2 addresses, 1 slot | server and client agree on the lease; an address that is used is promised to nobody else |
| `runsv_commands` | no log service, commands u d o x t p c, SIGTERM | the supervisor's safety |
| `runsv_log` | log service, no `./finish`, commands d o x k (x k to the log), SIGTERM | no death is unnoticed when two children are reaped under one SIGCHLD; `KeptUp`, `ExitsWhenAsked` |
| `tftp` | 5 blocks numbered modulo 3, 3 tries, 2 servers started | prefix, completeness, across the wrap of block numbers; both sides end, unless packets that are not accepted never stop coming |
| `syslog` | 5 bytes, messages of 2 or 3, a reader and a follower, 2 starts, 1 kill | whole messages, in order; a follower misses nothing in a turn that no clear and no whole buffer spoils; nobody waits forever for a semaphore, but behind a killed syslogd, or, for syslogd, behind readers that never let go |
| `zcip` | 2 hosts, 2 addresses, 2 packets lost, any host may die, quit, lose its link, or boot again at any time | no sharing and no displacement without loss or unprobed claims; sharing ends |
| `runsvdir` | 2 services, 2 directories with and without common entries, 2 process ids, 2 upsets; init with `-s`, or neither | no `runsv` is lost sight of or stopped by mistake; SIGHUP reaches all; what has an entry that `stat()` finds is supervised in the end, what has none is not |

The types of the variables are proved (section 4) for every module with
proofs; they were checked on the instances first, and are not repeated in the
runs, but for `zcip`, where the type relates the interface to the state.

Bounds. Deadlines and clocks are small: two or three lease times, chosen so
that offers, leases, conflicts and declines end at different moments, and a
clock (`MaxTime`) that runs past most of them; `TimeWrap` is 64 there,
beyond every deadline. Pools of three addresses with fewer slots force
eviction, and addresses ending in .255 and .0 force skipping. Two clients
compete for an address; a third is needed so that the slot of a third may be
evicted. `udhcpd_restart` has leases that end before the last start and one
that does not, and a file that is still good after a second and too old after two
(`FileMaxAge` 1); its clock runs for three, what it takes to acknowledge, save, be off,
start and find the lease still running. For the client the constants keep their order, `DiscoverTimeout <
TryagainTimeout <= UnicastTime < LeaseCeiling/2`, as 3, 20, 60 and 0x0fffffff
do, and `udhcpc_patient` the other order. Lease options are none, below the
floor, odd, and above the ceiling. `left` stops counting once it is past any
slack. For `runsv`, two process ids suffice as it has two children; a FIFO
holds up to two commands, so that one is waiting while another is taken.
Sending stops when a FIFO is full, which only delays the sender.

`dhcp_system` has a lease of four seconds, which the client renews after two and
gives up after three, packets up to a second late, and a clock that runs for
six, past the end of the first lease. One slot for two addresses makes the
two clients contend for it, so that the server hands it on as soon as it has
expired. One packet waits in the socket while another one is being served. Two
transactions are what an answer can be mixed up with. Its view drops variables
and parts of them that nothing else depends on, such as old transaction ids.

For `tftp`, five blocks with numbers modulo three (`BlockMod`, 2^16 in the code)
wrap once and a half; `Lifetime` is two, the longest that tells block `k` from
block `k + BlockMod`. Three tries stand for twelve, and two starts of tftpd
(`MaxStarts`) for any number. For `syslog`, `Size` holds one message of three bytes
and one of two, so that each third message wraps around; with
`MaxMessages` the ring is overwritten once and a reader may be lapped, and with two
starts the segment is cleared under a reader. Turns of a follower that are not
excepted occur after a clear, and both exceptions in `FollowerMissesNothing` (`torn`,
and a whole buffer) are needed: without either TLC finds the property violated.

For `zcip`, two addresses are few enough for hosts to meet again and again, and
two losses enough to make them share one: a host that claims twice is not
heard twice. Two probes and two claims (3 and 3 in the code), two conflicts (10)
and a defence of three seconds (10) keep the order of the timers. A host has one
packet in flight to another (`MaxInFlight`); the safety properties also hold with two and
with three.

For `runsvdir`, `MaxUpsets` bounds what happens to it, changes of a directory,
of `svdir`, signals and failures, to two in a behaviour; deaths are not
bounded. Two is what it takes to change a directory twice in one second, to
remove an entry and put it back, to fail after a change. Two process ids for
two services make `vfork()` fail without an upset while an old `runsv` is
ending, and make ids be reused. The safety properties also hold with three upsets
(3.1 million states).

Symmetry is used for the clients of `Udhcpd` that are not static, in runs
without liveness.

`CHECK_DEADLOCK FALSE` is set in all runs but `zcip`: the models of `udhcpd` end at
`MaxTime`, those of `udhcpc`, `runsv`, `runsvdir` and `tftp` when the program exits, that of
`syslogd` when its bounds are used up.

Fairness. `SearchEnds`: the thread that serves a packet keeps running (weak
fairness of `Serve`; each probe ends by its own timeout). `KeepsAsking`: time
passes and the loop acts on its timer; nothing is assumed about packets or
signals. `KeptUp` and `ExitsWhenAsked`: `runsv` and its handlers run, and
what the kernel must end ends; nothing is assumed about commands, and
`./run` need never end unless it was signalled. `TransferEnds`: a timer that nothing starts again
runs out, and is handled if no packet comes first; no packet need ever arrive. That leaves
behaviours in which a packet that is not accepted comes before each end of the
wait, and the property excepts them (section 5). `NobodyWaitsForever`: processes go on
when they can, and `SMwdn` is strongly fair because a sleeping `semop()` is
completed by the kernel with the step that makes it possible: it does not have
to be lucky against readers that come again and again. But such a moment
must come: that the readers are all out of the segment again and again (`LetGo`) is a
premise for syslogd, and without it TLC finds a reader and a follower that relieve each other for ever. `SharingEnds`: `zcip`
reads and acts on its timer, time passes, and hosts that use an address send
ARP requests now and then (`Resolve`), without which nobody would notice that they
share it. Nothing is assumed about boots, links or losses, which are bounded.
`KeptSupervised` and `RemovedAreStopped`: `runsvdir` runs, seconds pass, a `runsv`
gets as far as its lock, and ends after SIGTERM, which is what `ExitsWhenAsked`
says of `Runsv`. Nothing is assumed about changes, signals and other deaths.

## 4. Proofs

All theorems hold for every value of the constants that satisfies the named
assumptions in the modules and the hypotheses below. They are stated with
their proofs in eight modules.

**`UdhcpdProofs`**: `Spec => []Inv` for `TypeOK`, `LeaseTableConsistent`,
`PromiseBacked`, `ExclusivePromises` and `PromiseKept`. Hypotheses:
`StaticsOutside` (the static leases are distinct and outside the pool; the
section 5 tells what happens otherwise) and `NoWrap` (no
deadline reaches 2^32). The inductive invariant `IInv` adds to `TypeOK` and
`PromiseBacked`: every slot of a client holds an address that client may have
(`Placed`); no client or address is in two slots; while an address is being
probed no slot holds it, and the oldest lease is where its address says; while
an ACK is on its way the slot it will renew is there. The step that matters is
`add_lease()`: `AddLeaseShape` and `AddLeaseKeeps` say that it enters one slot
and evicts only what has expired. With that, `ExclusivePromises` follows: two
live promises of one address would be two slots with that address.

Three more follow from it, each with an invariant of its own:

- `QuarantineIsHonoured` (`QuarantineHonoured`): an address in quarantine is in a
  slot without client whose deadline is not before that of the quarantine
  (`Blocked`). Hypotheses, besides `NoWrap`: `NoStatics`, as the address of a
  static lease is handed out whatever is known of it; and `SlotForEach`, that
  the table has a slot per address of the pool. That is needed (section 5), and
  `RoomForEach` shows that it suffices: were no slot to be had, each of them would
  hold one of the other addresses, which are fewer (a pigeonhole argument on
  cardinalities).
- `QuietSearchesFind` (`QuietSearchFinds`): what the search has passed over without
  an answer is in the table, and what it remembers is the oldest of that
  (`PassedOver`). This is an action property: it speaks of the step that gives up.
- `TableIsAddressBook` (`ImplementsAddressBook`): the refinement. `EnterMeans` says
  what the abstract `Enter` is in terms of slots, and `AddLeaseImplements` that
  `add_lease()` is one such entry, or nothing if it finds no room, provided the
  address is nobody else's (`FreeFor`). That this holds at each of the calls is
  what `IInv` is for: the address was checked earlier, in another step, and the
  search slept since.

The same module proves `RestartSpec => []Inv` for `LeaseTableConsistent`,
`ClientsLoaded`, `AckOutlivesRestart` and `ExclusiveAfterRestart`, with stops,
crashes, failing saves and starts at any step, and any number of them. Hypotheses:
`StaticsOutside`; `HalfWrap`, that no deadline reaches 2^31, as the file holds
differences of times that are read as signed numbers; and for the last two
`EarlyWrite`, the option that saves after each ACK (without it nothing is
promised about a crash between two saves). The table's invariant `CoreInv` is
the one above, and the lemmas about the steps are used again. Added are:
a client whose ACK counts has its lease in the file, unless the save is under
way or the last one failed (`OnFile`, `Saving`, `unsaved`), and in the table while the
server serves (`Backed`), unless it is `forgotten` (`AcksBacked`); no
lease has more time left than the longest that is given (`Remaining`); and, while
the file is read, what has been read and is still wanted is in the table until the
deadline it had, and nothing else (`LoadInv`). The last needs that `add_lease()` finds room at each
record: a slot never used is older than any lease, so that it evicts nothing
that was just read.

**`UdhcpcProofs`**: `Spec => []Inv` for `UdhcpcTypeOK`, `LeaseRespected`,
`ListensForAnswers`, `ConfiguredAsStated` and `FailsOnlyWithoutLease`. Hypothesis `Careful`: `-A` is at most 60 seconds (20
by default) and reading does not fail. Both are needed: see section
5 about a longer `-A` and about failing reads. The inductive invariant adds that what is left of the
lease is at least what is left of the wait, plus another whole timeout if the
client is bound or renewing (`LeaseLeft`): halving the timeout keeps that.
Under `Careful` the state RENEW_REQUESTED never lasts (`NeverRequested`).

**`DhcpSystemProofs`**: `Spec => []Inv` for `LeaseAgreed` and `NoTwoUsers`, with any
number of other clients, slots, addresses, transactions and waiting packets, and
any delay. Hypotheses: `NoWrap` and `Careful` as above, and `LongLeases`, that the
server gives no lease shorter than the least the client counts (16 seconds in
the code; `max_lease_sec` is ten days by default). The last is needed: with
leases of two seconds and a floor of four TLC finds `LeaseAgreed` violated within ten
steps. The instance of the run satisfies all three. Every step of the system is one of `Udhcpd` and one of `Udhcpc`, or
leaves their variables alone (`ServerStep`, `ClientStep`, and as a theorem
`PartsAreThePrograms`), so that the invariants of both are part of the one here.
The rest is about what passes between them:

- `PacketsOK`: no packet belongs to a transaction to come, and none on its way is
  older than `MaxDelay`;
- `Queued`, `Unasked`: in the server's socket nothing that ends a lease comes after
  what asks for one in this transaction, and while the client waits for an OFFER it
  has asked for nothing;
- `Served`: from the first ACK of a transaction on, the socket holds nothing that ends the
  lease, no search for this client goes on, and all ACKs, those the client has
  seen and those still under way, are for the one address in its slot;
- `AcksHeld`, `LeaseHeld`: the slot lasts as long as an ACK under way says, counted
  from when it was sent, and as long as the client counts, but for `MaxDelay`; or the
  server is between sending the ACK and entering it.

None of them is inductive without the others: `LeaseHeld` after a late ACK is
`AcksHeld` before, that is kept by `Served`, and `Served` follows at the first ACK from
the order in `Queued`. `Open` excepts the transactions after a DECLINE (section 5). For
the other clients `UdhcpdProofs` says that no step for one of them, eviction and
conflicts included, disturbs a lease that is not its own (`Undisturbed`, lemmas
`AddLeaseUndisturbed` to `EnterLeaseUndisturbed`). Before it was proved, TLC checked
each part on the instance of the run and on one with two slots.
`NoTwoUsers` follows: another live promise of the address would be a second slot
with it.

**`TftpProofs`**: `TftpSpec => []Inv` for `TftpTypeOK`, `PrefixOnly`,
`ReceiverHasAll` and `NeverAhead`, from `Lifetime < BlockMod` alone. The
inductive invariant says what each packet in the network is about (`NetOK`),
and how the number each side expects relates to the blocks it has
(`ReceiverOK`, `SenderOK`). `SameBlock` is the heart: two blocks less than
`BlockMod` apart that have one number modulo `BlockMod` are the same. It needs the
arithmetic of `%`, which the first lemmas provide.

**`SyslogProofs`**: `SyslogTypeOK`, that a writer and readers exclude each other
(`WriterExcludesReaders`), `FollowerMissesNothing` and
`UndefinedOnlyUninitialised`. The inductive invariant adds which steps hold
which semaphore (`LockOK`, `StageOK`), that the last byte stays NUL (`NulOK`), that
the ring holds the last bytes of `stream` where `base` says (`RingOK`), that a
reader which has looked since the last clear knows where in the ring it stands
(`PlaceOK`), and that a follower's turn, if nothing has spoilt it, shows what was
written since the look before (`TurnOK`). The step that matters is `Fetch`: place and
ring together say that the copy is that part of `stream` (`CopiedIsWritten`). `SyslogWholeMessages` proves `ReadsWholeMessages`: a copy
is whole messages, in order, and as many as the ring still had. Its invariant
adds that places not written since the segment was cleared hold NULs (`ClearOK`)
and that who reads once looks at `tail` once (`StartOK`). What `logread` prints of
bytes, `Text`, is a function defined by recursion on their number; facts about it
are proved by taking the least length at which they would fail.

**`RunsvProofs`**: `Spec => []Inv` for `RunsvTypeOK`, `SupervisesItsChildren` and
`NoLostDeath`, and the action property `RestartsOnlyIfUp`, with every command,
with and without a log service and `./finish`, and for any number of process
ids: much more than the two runs can cover. These have no hypothesis. The
inductive invariant adds that a process id without program is free (`Coherent`)
and that from its death until it is waited for a child is announced by SIGCHLD,
by the self-pipe or by the loop being about to reap (`Noticed`). Commands fall
into two kinds (`Obeyed`): those that start a service which has no process, and
those that send signals at most, which bring no child and take none away.
`StatusFilesAreCurrent` (`StatusIsCurrent`) assumes `NoKill`, that nobody sends `k`,
and `FinishFollowsRun` (`FinishGetsRunStatus`) that and `~HasLog`. Section 5 says how
`k` and a log service break them. For the latter the invariant adds that a
service in the state FINISH without process has the status of `./run`, and that
the state tells which of the two runs (`Finish`).

**`RunsvdirProofs`**: `Spec => []Inv` for `RunsvdirTypeOK` and `EachIsKnown`, and the
action properties `HangupStopsAll` and `SparesWhatStays`, for any number of
services, directories, process ids, upsets and options, without a hypothesis. The
inductive invariant adds that a process id in the array is that of a child that
has not been waited for, and of the service it is noted for, unless the wait
for SCRIPT has taken it (`Owned`): so an id that is reused cannot bring SIGTERM
to the wrong one. `Seen` says that during a scan an entry that has not moved, and for which `stat()`
has not failed, is either still to be read or no longer marked as gone. `TerminatedKeeps` is
about SIGTERM to a set of processes, which both `Sweep` and `Hangup` send.

**`ZcipProofs`**: `Spec => []Inv` for `ZcipTypeOK`, which includes that an interface
has zcip's address exactly from "config" to "deconfig" or after an exit that leaves
it, and for `NeverShared`; and the action property `EstablishedStays`; for any
number of hosts and addresses, and of packets on their way. The last two assume
`ProbesTwice`, that a host sends two probes or more (`PROBE_NUM` is 3): with one
only, `LinkInv` fails, as TLC shows, where a host exits (`-q`) in the second in
which it is asked. This `LinkInv`, the argument, is about a link that has lost nothing. Of two hosts that
have the same address in mind, it says what the one that is behind still has to
read: who probes for what another has or claims finds the answer, or the claim,
in its inbox before its timer can run out (`ProbeAnswered`, `ProbesMeet`), and of
two that claim at once one hears of it in that second (`ClaimsMeet`). The packets
say where their senders are (`SenderOK`), and that who has probed hears of its
address only from one that has not (`HeardOK`). The step that matters is `Tick`
(`TickLink`): the clock moves only when all has been read, which turns "will
hear" into "has heard".

Besides the types, theorems state some things that no run checks: that the
sender of a `Tftp` transfer is at most one block ahead (`TftpNeverAhead`), that
writer and readers of `Syslog` exclude each other (`SyslogExclusion`), and that
`logread` meets undefined values only while the segment has no size
(`SyslogUndefined`).

Only model-checked is liveness (`SearchEnds`, `KeepsAsking`, `KeptUp`,
`ExitsWhenAsked`, `TransferEnds`, `NobodyWaitsForever`, `SharingEnds`,
`KeptSupervised`, `RemovedAreStopped`), which is out of the proof system's reach. Each
invariant and each action property of the runs is proved.

## 5. Findings

What follows are differences between the code and what a comment, a usage
text or the users of a program expect, met while modelling. No run expects a
violation; the list says why some runs and properties leave something out.

- A sender that repeated its last block to no avail reports success
  (`tftp.c:664`: "returns 1 on failure"), as `finished` is set when that block is
  sent (`tftp.c:456`). So `ReceiverHasAll` speaks of the receiver only.
- A client that asks for it gets another's static address, if static leases
  lie inside the pool as in the sample file (`dhcpd.c:174`). The runs have them
  outside, and the proofs assume so.
- `zcip` claims addresses it has not probed. On a conflict while announcing it
  picks another address, to "restart the whole protocol", but stays in the
  state ANNOUNCE (`zcip.c:531`); and after `MAX_CONFLICTS` conflicts the 60 seconds of
  `RATE_LIMIT_INTERVAL` are overwritten with 0 (`zcip.c:533`), so that
  RATE_LIMIT_PROBE claims within a second. `NeverShared` and `EstablishedStays` except
  such claims.
- Any ARP packet in RATE_LIMIT_PROBE is handled as "Invalid, should never
  happen" (`zcip.c:565`).
- "All other exit paths should deconfig" (`zcip.c:421`): those for errors do not.
- A lease of 0xffffffff seconds added to the time wraps, and has expired at once
  (`leases.c:78`).
- An OFFER is abandoned although an address is free: of the expired leases the
  search tries the oldest only, and gives up if its probe is answered
  (`leases.c:195`).
- A record without owner, as a declined address has, clears the ones before it
  when the file is read: of several reserved addresses one is left
  (`files.c:200`).
- SIGUSR2 while a renewal on demand is not answered yet (RENEW_REQUESTED, which
  lasts with `-A` above 60 only) neither releases nor deconfigures the address
  (`dhcpc.c:1060`).
- The exit status of the log service overwrites that of `./run`, and `./finish`
  gets it (`runsv.c:633`). So `runsv_commands` has no log service.
- After a DECLINE `udhcpc` waits with the transaction id it had: if the OFFER and
  the ACK arrive again meanwhile, it takes the address it has declined
  (`dhcpc.c:1664`). `dhcp_system` excepts such transactions.
- A DISCOVER that arrives after the REQUEST that followed it, or twice, cuts the
  acknowledged lease down to `offer_time` (`dhcpd.c:489`). The socket of
  `dhcp_system` keeps packets in order and loses them only.
- `udhcpc` counts at least 16 seconds of a lease ("paranoia: must not be too small
  and not prone to overflows", `dhcpc.c:1642`), also if the server gave less, which
  `udhcpd` does if so configured (`dhcpd.c:354` takes the option as it is). It then
  uses the address after the server has given it away. `dhcp_system` has longer
  leases, and the proofs assume them (`LongLeases`).
- A `syslogd` that is killed while it stores a message leaves its semaphore
  raised, as that has no SEM_UNDO (`syslogd.c:191`): the next one and all
  readers wait forever. `NobodyWaitsForever` excepts it.
- syslogd waits in `semop()` until no reader is counted (`syslogd.c:191`): readers
  that overlap without end keep it from writing, and with it everybody who logs. A
  signal makes `semop()` fail, and syslogd dies without having stored the message it was
  about to (`syslogd.c:486`).
- A syslogd that is killed leaves the segment, and the next one clears it
  (`syslogd.c:464`). A follower goes on from its old place: it prints whatever lies between
  that and the new `tail`, and if the new `tail` has come to the same place it takes the log
  for unchanged (`logread.c:142`); the messages that lie elsewhere it never prints.
  `FollowerMissesNothing` excepts that turn (`torn`), and holds for the ones after it.
- A follower cannot tell a whole buffer from nothing: if as many bytes were
  written while it slept, it prints nothing, and if more, the newest part of them
  (`logread.c:142`). `FollowerMissesNothing` excepts such turns.
- `udhcpd` does not notice that a save failed: `write_leases()` returns if the file
  cannot be opened (`files.c:127`), and of its writes the code says "No error check. If the
  file gets truncated, we lose some leases on restart. Oh well." (`files.c:150`). Until a
  save succeeds, a restart loses leases that were acknowledged, and their addresses
  may be acknowledged to others. `AckOutlivesRestart` and `ExclusiveAfterRestart` except the
  clients concerned.
- `tftp` restarts its whole wait at each packet it does not accept (`tftp.c:646`),
  and counts no retry: if such packets keep coming, it neither repeats its own nor gives
  up. `TransferEnds` excepts that.
- A write request that is repeated after the end of an upload starts a second
  `tftpd`, which truncates the complete file (`tftp.c:292`). `PrefixOnly` does not speak
  against that, and `ReceiverHasAll` is about the last `tftpd`.
- A signal that comes between the test of `bb_got_signal` and `read()` is noticed
  with the next message only (`syslogd.c:836`), whereas the handlers are set up
  "so that they interrupt read()".
- `logread` may copy from a segment whose size is still zero (`logread.c:135`), when
  syslogd has created it and not yet set it up.
- With a table that is full, `add_lease()` enters no conflict and nobody
  notices (`leases.c:130`): the address of a stranger is offered later. So
  `QuarantineHonoured` is checked with as many slots as addresses.
- A static client's DECLINE changes a local variable (`dhcpd.c:627`), and its
  address is offered again at once, whereas the comment at line 608 quotes
  "The server MUST mark the network address as not available".
- After a failed read `udhcpc` sleeps for `discover_timeout` even if the lease
  ends before (`dhcpc.c:1553`). So `udhcpc_lease` has no failing reads.
- The command `k` sets the state to "down" with the process still there
  (`runsv.c:406`). During `./finish` this makes `./finish` run again, with its
  own status, and after `x` it lets `runsv` leave before its service. So
  `runsv_commands` has no `k`, and `runsv_log`, which has it, no `./finish`:
  who sends `k` again and again could run `./finish` forever.
- `u` after `x` with a log service wants a service up that cannot start, as
  the pipe to the log has been closed (`runsv.c:664`). So `runsv_log`, which
  checks `KeptUp`, has no `u`.
- `o` while `./finish` runs starts nothing (`runsv.c:423`); `sv.c:61` says "If
  the service is not running, start it."
- A service that `runsvdir` could not start, because `vfork()` failed or a signal was
  pending, has no process until something else makes it scan again
  (`runsvdir.c:191`; only a `realloc()` that fails sets `need_rescan`). As init
  it goes on after the signal ("init continues to monitor services forever"),
  but not with that service. `KeptSupervised` excepts it (`missed`).
- `while (wait(NULL) != pid)` takes children without noting it (`runsvdir.c:384`): if
  SCRIPT returns and `runsvdir` is init, their services stay down, "If it exits,
  restart it" notwithstanding, and SIGTERM may reach another process that has
  got the id. `KeptSupervised` and `SparesWhatStays` except them.
- If `stat()` fails for an entry that is there, `runsvdir` warns and goes on
  (`runsvdir.c:158`). The service counts as gone: "Send SIGTERM to runsv whose directories
  were no longer found (-> must have been removed)" (`runsvdir.c:203`). No rescan is asked
  for, so that it stays down until the directory changes. `SparesWhatStays` and
  `KeptSupervised` except it (`unseen`).
- If `svdir` is switched between `stat()` and `chdir()`, and back, the directory that
  was scanned is not the one whose time was noted, and the right one is not
  scanned until it changes (`runsvdir.c:317`). `Deceived` is that state.
- "Run SCRIPT after signal is processed" (`runsvdir.c:36`), but it runs before SIGHUP is
  passed on to the `runsv` processes (`runsvdir.c:389`), and a signal that comes
  during it replaces the one that is being processed.
- An entry that is renamed while the directory is read may be missed, and its
  `runsv` stopped, although its directory was not removed; the next scan starts it
  again (`runsvdir.c:205`).
- On exit the log service is not sent TERM (`runsv.c:662`, commented out);
  `sv.c:68` says that it is.
- With the default `-A 20`, a renewal on demand (SIGUSR1) is always broadcast:
  the timeout is cut to 20 seconds first, and unicast needs more than 60.

## 6. Plan

In this order:

1. Several detailed clients, and several servers, in `DhcpSystem`: `server_addr`
   and rebinding to another server.
2. `Sv` around an abstract `runsv`: waiting for a status that is about to change;
   and `Runsvdir` with `Runsv` in place of its `Lock`, `Die` and `Exit`.
3. `Dhcprelay`: late answers.
4. `Ext4Allocate`: allocation of blocks in block groups as operators, checked
   against a definition by sets.
5. Proofs: with several detailed clients, that the invariant of `DhcpSystemProofs` holds
   for each of them; for `Runsvdir` with `Runsv` inside, the refinement of `Lock`,
   `Die` and `Exit`.

The project keeps about a dozen runs, which one can repeat in some ten
minutes: the runs of new modules replace those whose question is settled,
and runs whose properties are proved.

## 7. Not modelled

The encoding of packets and options, sockets and frames; the configuration
parsers; scripts and hooks beyond their effect; DHCPv6; the shells and the
short commands; third-party tools, samples, Java applications, binaries and
archives. `PROJECT.json`, "components", gives the reason for each.
