# Sprite kernel: TLA+ specifications

Sprite is a network operating system. Every host runs the same kernel
(`src/CVSROOT/kernel`); the kernels call each other by remote procedure call,
share one file system, cache files on workstations and on file servers, notice
each other's crashes and reboots, and recover open files afterwards. These
specifications model the parts of that kernel whose correctness depends on the
order in which several hosts, processes and interrupt handlers act.

Paths below are relative to `src/CVSROOT/kernel`.

## 1. Inventory

| Component | State it keeps | Operations | What is hard | What makes it correct |
| --- | --- | --- | --- | --- |
| RPC client channels, `rpc/rpcCall.c` | channel table, free count, record of unhappy servers | allocate, free, close at a server's request, ramp down | interrupt handler against processes, sleeping for a channel | one user per channel, count exact, nobody sleeps beside a free channel |
| RPC call protocol, `rpc/rpcClient.c`, `rpcServer.c`, `rpcDaemon.c` | per channel: call, retries, timer; per server process: client bound to it, last request, saved reply | send, retry, time out, acknowledge, execute, reply, bind and reclaim a server process | loss, retransmission, reboot, slots shared between clients | at most one execution, a reply belongs to its call, every call ends |
| RPC fragments, negative acknowledgments, server pool | fragment masks, pending negative acknowledgments, number of processes | reassemble, resend, create | partial loss, interrupt against daemon | a message is delivered whole or not at all |
| Cache consistency, `fsconsist/`, `fsio/fsioFile.c`, `fsrmt/fsrmtFile.c` | per file at its server: version, use counts, client list, last writer, outstanding call-backs; per workstation: handle, version, cacheability, dirty block | open, close, read, write, delayed write-back, call-back, reply, timeout, kill, scavenge | call-backs overtake replies, dead and slow workstations, the monitor given up for each call-back | reads see the last write, nothing written is dropped, no write-sharing through caches, opens return |
| File locks and remote wait, `fsio/fsioLock.c`, `fsutil/fsutilNotify.c`, `sync/syncLock.c` | flags, shared count, owners, waiters; the wait-complete flag of a process | lock, unlock, close, notify, wait, wake up, clean up | wakeup against wait, crash in between | exclusion, no lost wakeup, locks released |
| Host recovery, `recov/` | per host: alive, dead, booting; callbacks running or wanted | packet seen, dead, crash and reboot callbacks, ping | overlapping callbacks, new boot during cleanup | callbacks of one host do not overlap, none is forgotten |
| Handle table, `fsutil/fsutilHandle.c` | hash table, LRU list, lock and reference count of each handle | fetch, install, lock, release, remove, scavenge | removal against a waiting fetch, full table | a referenced handle is not freed, a removed one not found |
| File system recovery, `fsutil/fsutilRecovery.c`, `fsprefix/` | recovery flags per handle, prefix table, opens in progress | want, wait, re-open, abort | re-open against open, second crash during recovery | every waiter is resumed, server state equals client state |
| Block cache, `fscache/` | free, LRU and dirty lists, counters, flags per block and per file, active cleaners | fetch, release, write back, invalidate, truncate, wait | cleaner against close, truncation and consistency commands; failing writes | dirty data reaches the server, counters exact, nobody sleeps for ever |
| Streams and migration, `fsio/fsioStream.c`, `fsioMigrate.c` | shared offset, clients per stream | open, dup, migrate, close | both hosts hold the stream for a while | one holder of the offset, counts equal streams |
| Pipes, `fsio/fsioPipe.c` | bounded buffer, readers, writers, wait lists | read, write, select, close | waiting on either side, remote ends | no lost wakeup, no byte lost |
| Pseudo-devices, `fspdev/` | request buffer, reply state | request, reply, select, close | user-level server dies | requests answered or failed |
| Processes and migration, `proc/` | process table, family, wait state, migration state | fork, exit, wait, migrate, evict | remote parent, host death in a migration step | exits are reported, one copy runs |
| Kernel server processes, `proc/procServer.c` | bounded queue of functions | call, delay, cancel | queue full, cancel against run | each function runs once |
| Timer queue, `timer/timerQueue.c` | sorted queue | schedule, deschedule, interrupt | deschedule against callback | a descheduled callback is not pending |
| Virtual memory, `vm/` | segments, page tables, copy-on-write lists | fault, fork, migrate, page out | copy-on-write chains | a copy keeps its contents |
| File systems on disk, `ofs/`, `lfs/`, `fsdm/` | descriptors, segments, checkpoints | allocate, write, clean, checkpoint | crash between writes | checkpointed data is recoverable |
| Disk arrays, `raid/` | stripe locks, log | read, write, reconstruct | failure during parity update | parity matches |
| Scheduler, signals, network, drivers, memory, start-up, debugger | | | machine dependent | assumed |

How they interact: a file system call on a workstation goes through the stream
table (`fs/`) to a remote stub (`fsrmt/`), which makes an RPC; on the server an
RPC process runs the matching stub, which locks the file's handle (`fsutil/`)
and calls the local operation (`fsio/`, `fslcl/`), which may enter the
consistency monitor (`fsconsist/`) and so make RPCs to other workstations.
Every packet received tells `recov/` that its sender is alive; a call that times
out tells it that a host is dead, and its callbacks then clean up the server's
RPC, consistency and lock state for that host. Work that may block is queued on
kernel server processes (`proc/procServer.c`).

`PROJECT.json` lists every component with its status and every hazard at the line
where it bites.

## 2. Modules and the code

| Module | Models | Composition |
| --- | --- | --- |
| `RpcChannels` | `rpc/rpcCall.c` | its `RpcDoCall` step is what `RpcTransport` details |
| `RpcChannelsProofs` | theorems about it | extends it |
| `RemoteCall` | abstract: what a remote call promises | implemented by `RpcTransport` (`AtMostOnceCalls`) |
| `RpcTransport` | `rpc/rpcClient.c`, `rpc/rpcServer.c`, `rpc/rpcDaemon.c`, `rpc/rpcDispatch.c` | |
| `RpcTransportProofs` | theorems about it, the refinement among them | extends it |
| `FsConsist` | consistency of one file, server and workstations | rests on what `RemoteCall` promises |
| `FsConsistInv` | its inductive invariants, in layers | extends it |
| `FsConsistProofs` | theorems about it | extends `FsConsistInv` |
| `FileLocks` | lock of one file, server and workstations | rests on what `RemoteCall` promises |
| `FileLocksProofs` | theorems about it | extends it |
| `HostRecovery` | `recov/recovery.c`, `recov/recovProc.c`, the calls of it in `rpc/` | what `RpcTransport` and `FileLocks` take as a crash being noticed |
| `FsRecovery` | `fsutil/fsutilRecovery.c` | extends `HostRecovery`, whose reboot call-back it is |
| `FsRecoveryProofs` | theorems about both | extends it |
| `HandleTable` | `fsutil/fsutilHandle.c`, the handles of `fsio/fsioStream.c`, `fsrmt/fsrmtFile.c` | the handles that `FsConsist` and `FsRecovery` take as given |
| `HandleTableProofs` | theorems about it | extends it |
| `BlockCache` | `fscache/fscacheBlocks.c`, its users in `fscache/fscacheOps.c`, `fsrmt/fsrmtFile.c`, `ofs/ofsIo.c` | details the write-back, the command and the close of a workstation that `FsConsist` takes as one step each |
| `BlockCacheInv` | its inductive invariant | extends it |
| `BlockCacheProofs` | theorems about it | extends `BlockCacheInv` |
| `ProcWait` | `proc/procExit.c`, the notified wait of `sync/syncLock.c` | |
| `ProcWaitProofs` | theorems about it | extends it |
| `MC...` | constants of the TLC instances | extend the modules |

Definitions carry the names of the C functions they translate. Operators
preceded by "Mutated form" are not used by the specifications: each is the code
with one plausible mistake, which makes a property fail.

### RpcChannels

State: the bits of each channel (`CHAN_FREE`, `CHAN_BUSY`), the server it was
last used with, `numFreeChannels`, `serverAllocState`, who sleeps on
`freeChannels`. `requestRpcHdr.ID` is kept as its rank among the channels, all
that `RpcChanAlloc`'s search for the oldest channel compares. `RpcChanAlloc`
and `RpcChanFree` run under the master lock and are one step each. `RpcChanClose`
runs at interrupt level without that lock and is three steps (test, borrow, give
back); `Multiprocessor` says whether processes may run between them. Which of the
channels it may take `RpcChanAlloc` chooses follows the code's preferences
(same server, unused, oldest).

### RpcTransport

State: each client's channel (bits, call, tries, pending input), each server
process's slot (bits, client, last transaction, saved reply, position in
`Rpc_Server`), the boots the server knows of, and packets in flight. The
dispatchers are one step per packet, as they are at interrupt level;
`RpcServerDispatch` is split into `NewTransaction` and `CurrentTransaction` as in
the code. The network loses packets and keeps the order of the others. Packets name
their call; the code's comparison of transaction numbers alone is `ID`. `Unstable`
clients reboot, `Broadcasters` send their calls to all hosts; the promises are to
the clients that do neither (`Stable`). `executions` and `confused` are history: how
often each of their calls was executed, and the clients the server has lost track
of. A packet confuses its client (`Confuses`) when a new request found its process
busy, a late close acknowledgment was taken for a request, or a process was taken
over from another client while it still worked for that one or kept a reply under the
same transaction number. Ageing does, when `RpcReclaimServers` gives up the process of a
client that still sends the call (`StillSent`: it waits for it, or a request of it is
under way). Nothing in the code prevents that: the comment at `rpc/rpcServer.c:304`
warns that the routine may run too often to give clients "enough time to do an RPC".
With all servers in use the daemon passes every second (`rpc/rpcDaemon.c:114`), so that a
process ages out in 10 seconds, while over IP a client retransmits for 23.5
(`rpc/rpcInit.c:98`). Section 7 says what happens then. `RemoteCall` promises nothing
more to confused clients.

### FsConsist

One file of one block, its server and several workstations. An open passes
through the steps the code gives up its locks between: version increment under
the handle lock (`NameOpen`), the consistency monitor (`StartConsistency`), one
`VisitClient`, `RpcConsist`, `CommandDone` for each workstation to be told
(`ClientCommand` leaves the monitor for the RPC), the client-list entry of the
opener (`UpdateList`), the wait for all replies (`EndConsistency`), the reply
(`OpenReply`), and its processing on the workstation (`OpenDone`, `IoOpen`). A
command answered by a workstation is executed in the background
(`ProcessConsist`) and reported by an RPC of its own (`ProcessConsistReply`).
The content of a copy is abstracted to whether it is what was written last
(`fresh`). Three history variables hold what the properties exempt: `trouble`
(workstations that crashed, were killed by the server, or could not write back),
`misled` (workstations that received a version number counting an open that was
still outside the monitor, `fsio/fsioFile.c:289`), `discarded` (last writers told
to invalidate without writing back, the finding below).

### FileLocks

The lock of one file (`Fsio_LockState`), its wait list, and processes that lock,
unlock, close, sleep, are signalled, or crash with their workstation. The server
verifies a lock call, gives the handle up (`Fsrmt_RpcIOControl`) and locks it
again to execute it (`Fsio_FileIOControl`): two steps. A close is one
(`Fsrmt_RpcClose` keeps the handle). `Fsutil_FastWaitListNotify` makes one RPC per
waiter with the handle locked: one step per waiter. `Sync_ProcWait` is split at
its context switch; a wakeup that comes first leaves `SYNC_WAIT_COMPLETE`.
`cleaned` holds the workstations whose crash cleanup has run; the cleanup passes
a locked handle by (`Fsutil_GetNextHandle`).

### HostRecovery and FsRecovery

`HostRecovery` is one kernel's record of one other host, the peer, which crashes,
boots again and is sometimes silent (`peer`, `timeouts`). Messages from the peer
reach `Recov_HostAlive`, calls that time out `Recov_HostDead`; the flags of
`hostPtr->state` are `hostState`. Server processes that serve the peer pass through
`srv`: they have a request, wait in `Recov_HostAlive` while crash call-backs run,
and serve. An activation of `CrashCallBacks` is counted in `cleanup` as it is
queued and as it marks the clean-up done; `refs` holds the incarnations of the
peer that have client state here. `FsRecovery` adds the kernel's own handles at the
peer: `registered` is the incarnation that knows each handle, `recov` its recovery
flags, `reopen` the progress of `Fsutil_Reopen` in the reboot call-back and in each
process that was told of a stale handle, `user` the processes that mark a handle and
wait. `used` are the handles with streams or dirty blocks. `ReopenHandles` has four
outcomes for a handle: it is reopened (or the server refuses, which invalidates
it); the call times out or the server is not active yet, which ends the pass; and one
that is not in `used` and nobody waits for is passed over without a call
(`FS_RECOV_SKIP`), or removed (`FS_NO_HANDLE`), as the run-time switch
`recov_SkipCleanFiles` says (`fsrmt/fsrmtFile.c:273`). `overlap` and `swallowed` are history: two outstanding crash call-backs, and a
reboot call-back that found another `Fsutil_Reopen` running.

### HandleTable

The handles of one file table (`table`, `id`, `flags`, `locker`, `ref`, `use`, the
counters and the soft limit) and, in `pc`, where each process is in
`HandleInstallInt`, `Fsutil_HandleFetch`, an open, a close, a consistency call or a
walk. Each action is one pass through the monitor of the table. A process that
finds a handle locked sleeps on its `unlocked` condition without a reference
(`asleep`); one that finds the table full scans the LRU list or sleeps on
`lruDone`. `overrun` marks the one place where the code removes a handle that
another process may have locked since (section 7); the model stops there.

### BlockCache

The record `cache` is what `cacheLock` protects: blocks with their flags and
reference counts, the hash table, the counters, dirty list and flags of each file,
and the cleaners of each backend. `proc` says where each process is in a read, a
write, a change of meta-data, a write-back, a consistency command, a truncation or
a close; `asleep` the condition it waits on. A routine entered under the lock
is one step up to the point where it sleeps; the internal routines are operators
from cache to cache and keep their names. A pass over the blocks of a file stops
at the first block that must be waited for, and goes on from there. Cleaners
(`FsrmtCleanBlocks`, `Ofs_CleanBlocks`) run one step per routine they call;
`sync` is `Fsutil_SyncProc`. Lists are sets, of which any member may be first.
`srv` is what the server believes (file open, last writer), `newest` (history) the
places that hold what was last written to each block.

### ProcWait

The process table of a host: `state` (all states of a process that has not
finished are one), the exit flags, the parent, its list of children, and where each
process is in `Proc_Wait`. `to` is a process that has left the exit monitor and
not switched to its final state yet, possible on a multiprocessor and for a
process that runs on another host (`Away`), whose exit the home node executes.
A process that is away searches by one RPC (`Found`, `Refused`, `NoneFound`), then
calls `Sync_ProcWait`; `notes` are the calls of `Proc_NotifyMigratedWaiters` queued
for it. `reap` counts the calls of `Proc_Reaper`. `missed` is history: a process
whose exit its parent overlooked in the window of `to` (section 7).

## 3. Runs

| Run | Instance | What it shows |
| --- | --- | --- |
| `RpcChannelsCalls` | 3 processes, 2 servers, 2 channels, uniprocessor, with and without ramp-down (`rpcChannelNegAcks` is fixed per behaviour), fair | `CountMatches`, `ChannelExclusive`; without ramp-down `NoPanic`, `WaitsOnlyWhenNoneFree`, `WaiterNotified` |
| `RpcTransportShared` | 2 clients, one of which reboots and broadcasts, compete for 1 server process, which may age out at any time it is idle | `RequestStable` and the refinement of `RemoteCall` by the stable client |
| `RpcTransportRetries` | 1 client, 2 server processes that age, 1 retransmission, negative acknowledgments and close probes; fair | the refinement of `RemoteCall`, `CallReturns` |
| `RpcTransportStuck` | 1 client, 2 server processes, 2 retransmissions, no close probes | violation of `NewIDIsNewCall` |
| `FsConsistTwo` | 2 workstations, 3 opens; one workstation may crash, answer late, and find the disk full; fair | the seven properties of the module |
| `FsConsistDiscard` | no failures | violation of `DirtyDataSurvives` |
| `FileLocksThree` | 3 processes, 2 workstations, 3 lock calls, one workstation may crash; fair | the five properties of the module |
| `FileLocksShared` | no crash | violation of `ExclusiveWaitsForShared` |
| `FsRecoveryReboots` | a peer that boots three times, one timeout without a crash; 1 server process, 1 handle, 1 user; fair | the six properties of `HostRecovery` and `FsRecovery` |
| `HandleTableOpens` | 2 users, 1 server process that answers consistency calls and walks; 1 file, 2 streams, memory for 4 handles, soft limit 2 that may grow to 3 | the four properties of the module |
| `BlockCacheFiles` | 2 processes, a remote file of 2 blocks and a block of meta-data, a cache of 2 blocks, 1 cleaner per backend, 3 operations, 2 failed reads or writes | the four properties of the module |
| `ProcWaitFamily` | 3 entries, one of a migrated process, each may be the other's child, reused when freed | the three properties of the module |

### Properties

* `CountMatches`: the count that decides who sleeps equals the free channels.
* `ChannelExclusive`: a channel has one user, a process or the interrupt handler.
* `WaitsOnlyWhenNoneFree`, `WaiterNotified`: no wakeup is lost, and a sleeper is
  notified eventually.
* `AtMostOnceCalls`: the transport implements `RemoteCall`: a retransmitted request is
  not executed again, and a call returns its own result, as long as the server has not
  lost track of the client.
* `RequestStable`: the request of a call that is being executed is not replaced.
* `CallReturns`: every call returns with a reply or a timeout.
* `NoSharedCaching`, `ReadsLatest`: concurrent write-sharing disables caching, and
  every open reads the last write.
* `DirtyIsRemembered`, `NoLostUpdate`: the server knows whom to ask for dirty data,
  and no invalidation drops it.
* `UseCountsMatch`: the handle's counts are the sum of the client list and the
  opens on their way into it.
* `OpenReturnsOrCycle`: every open returns, unless the kernel stays in `WaitCycle`.
* `NoLostWakeup`, `LockReturns`: a process that sleeps for a lock is listed at the
  server, the list is notified whenever the lock becomes free, and every lock call
  returns.
* `MutualExclusion`, `OwnersMatchFlags`: what processes believe to hold is
  compatible, and flags, count and owners tell the same, unless `breached` (section 7).
* `FlagsAccounted`: the flags of a host tell what is scheduled or runs for it.
* `ServedAfterCleanup`, `ServerResumes`: a request of a new incarnation is served
  only after the state of the old one has been cleaned up, and a server process
  held back for that goes on.
* `HandlesRecovered`, `WaitersReleased`: every handle in use is reopened at, or invalid
  for, the last incarnation of its server; a process waiting for that is woken.
* `TableSound`, `RefsAccounted`: the hash table, the counters, the reference counts
  and the locks are what the processes and streams account for, and nothing freed
  is referenced or locked.
* `SleepersAccounted`: nobody sleeps on a lock nobody holds or a scan nobody makes.
* `CountsExact`: the counters, dirty lists and flags by which fetches, cleaners and
  closes decide equal what they count.
* `NothingLost`: the latest contents of a block are at the server or will be written
  there, a fetched block has them, and the server does not take a closed file for
  clean that is dirty here.
* `SleepersWoken`: who waits for a block, a write-back, room in the cache or a cleaner
  waits for what has not happened yet.
* `FamilySound`: an entry goes to the reaper exactly once or has a parent that runs
  and has it in its list.
* `NoLostExit`: no process sleeps on a child that has exited or detached itself,
  or has been suspended, without a notification under way.

### Bounds and why they are enough

* `RpcChannels`: one process more than channels makes processes sleep; two servers
  make both the preference for an old channel and the record of unhappy servers
  matter. Nothing is cut off: the state space is finite.
* `RpcTransport`: `MaxID` calls of a stable client, one per boot of another; the
  second call of a channel is the implicit acknowledgment of the first. `NetBound`
  packets in flight; more are lost. `MaxTries` 2 allows one retransmission, 3 allows
  two, one to each server process. Two clients on one server process make each
  reclaim the other's. `MaxServerAge` 1, the value the code names for tests
  (`rpc/rpcServer.c:60`), lets a process age out in the second pass that finds it idle, as
  early as it can (1.5 million states); 3, with `ServersMaxed`,
  lets close probes be sent and answered first. The refinement was also checked with
  two clients that do not reboot and both kinds of probes and negative
  acknowledgments (`MaxServerAge` 3, one million states), and on the instance of
  `RpcTransportShared` with negative acknowledgments (3.1 million).
* `FsConsist`: `MaxOpens` 3 is the smallest number that gives a last writer, its
  next open, and a conflicting open elsewhere. Without failures the safety
  properties were also checked with 4 opens (1.15 million states), and with both
  workstations failing (3.6 million states).
* `FileLocks`: `MaxLocks` 3 calls by three processes, two on one workstation: two
  shared locks and an exclusive waiter, or an owner, a waiter, and a process whose
  crash takes either away.
* `FsRecovery`: three incarnations are the fewest for a second crash while the first
  is being recovered from; one timeout of a live host makes the partition that
  looks like a crash. One handle is enough for the order of its reopening, marking and
  notification, in use or not; the passes over several handles are independent per
  handle.
* `HandleTable`: two handles (stream and file) fill the table at once, so that the
  second open scans, scavenges or raises the limit; the fourth piece of memory lets
  a removed handle stay in limbo meanwhile.
* `BlockCache`: three blocks of files compete for two of memory, so that a fetch
  replaces clean blocks, starts cleaners and sleeps. Two blocks of one file are the
  fewest with which a cleaner holds the last dirty block while another becomes
  dirty; write, write and close are the three operations of that race, and any
  three of write-back, command, truncation and close meet each other. Two
  failures let a write fail, be tried again and fail again.
* `ProcWait`: parent, child and grandchild, or two children of one parent; an entry
  of either kind in each role. `MaxNotes` 2: both children exit before the
  first notification is delivered. The two processes of this host are alike to
  everything but `Init`, so states that differ in their names are taken as one.
* The bounds disable new calls only, never a release, a notification, a reply or a
  cleanup. What they do hide is starvation: `LockReturns` and `OpenReturnsOrCycle`
  say that a call returns once other processes stop making new ones. The code
  promises no more: woken waiters race for the lock again (`Fs_IOControl` retries),
  and a stream of newcomers may keep winning.

`CHECK_DEADLOCK FALSE` where calls are bounded: the system stops when they are
used up and everything has been answered.

### Fairness

Weak fairness is given to what the kernel schedules by itself: processes inside
the kernel, interrupt handlers, delivery of packets that are not lost, the timer,
server processes and the functions queued on them. None is given to users' reads,
writes, opens and lock calls, to the cache cleaner, the scavenger, crashes,
reboots or packet loss. Two exceptions: a process that holds a file lock
releases it some time (`FileLocks`; otherwise nobody else need ever get it), and
the server notices a crash some time (its next RPC to the host times out or
the host boots again). `FsRecovery` is fair to the peer's coming back, to the ping of
`Recov_Proc`, to server processes and to the functions queued on them, not to
crashes, timeouts or a user's next call. A process inside the kernel waits on nothing that fairness
hides: each wait is an explicit state.

Weak fairness is enough for `CallReturns` because retries are counted. In
`OpenReturnsOrCycle` the exemption `WaitCycle` is a real cycle, described below.

## 4. Disagreements with comments in the source

* `RpcTransportStuck`: a request with another ID than the saved one is taken for a new
  call (`rpc/rpcServer.c:605`). When a request follows the reply so closely that the
  process has not come back to the top of `Rpc_Server`, the process is marked stuck and
  the retransmission goes to a second process. If its acknowledgment and reply do not
  arrive in time, the next retransmission goes by the client's old hint to the first
  process, which meanwhile is not stuck, and the call is executed twice.
* `FsConsistDiscard`: an open for writing tells a last writer that has the file
  open for reading only to invalidate, not to write back
  (`fsconsist/fsconsistCache.c:509`); its dirty block is dropped.
* `FileLocksShared`: a close that breaks one shared lock clears the flag of all
  (`fsio/fsioLock.c:381`); an exclusive lock is granted beside the rest.

## 5. Proofs

TLAPS checks the proofs for every value of the constants that the named assumptions
of each module allow. Some theorems have a hypothesis more, which is said with them:
`SafeBuild` of `RpcChannels` and `OneEach` of `FsConsist`.

**RpcChannels** (assumption `RpcChannelsAssumption`, and `SafeBuild`: ramp-down is
not combined with a multiprocessor). `CountMatches` is not inductive: that
`RpcChanFree` may add one needs that the freed channel was busy, which needs that
the process holds it; that `RpcChanAlloc` may subtract one needs that its choice
is free. `IInv` therefore adds `StateShape` (the bits follow the progress of
`RpcChanClose`), `Holding` (a process holds a channel exactly between allocation
and freeing, a busy one, alone), `UnusedNotBusy` and `NoTroubleWithoutNegAcks`.
Each step is a cardinality argument over finite sets (`CountCorrect`), from which
`ExclusiveCorrect`, `NoPanicCorrect` (no ramp-down) and `WaitsCorrect` (no
ramp-down, uniprocessor) follow.

**FileLocks** (assumption `LocksAssumption`). `NoLostWakeupCorrect`: any number of
processes, workstations, lock calls and crashes. The invariant `NoLostWakeup`
fails to be inductive at the notification of a dead workstation's process, which
is taken off the list without a wakeup; `WInv` adds `DeadDoNotWait`, that such a
process does not wait, and the types of the variables concerned. Two arguments
carry it: whoever puts a process to wait lists it in the same step, while a
lock is held (`LockStep`); and whoever takes a lock away keeps the handle until
the list is empty (`ReleaseStep`, `CrashSteps`).

**ProcWait** (assumption `ProcWaitAssumption`). `TypeCorrect`, `EntriesAreFreed` and
`WaitersAreTold`, for any table, any set of migrated processes and any number of
notifications. `FamilySound` fails to be inductive when a process on its way to
the exiting state loses its parent, and `NoLostExit` when an exit tells a parent
that has not the process in its list, or when a child is in two lists. `Structure`
adds that an entry that does not run waits for nothing and has no children
(`Quiet`), that children in a list are alive or exiting and not yet waited on
(`ListLive`), that a process between monitor and switch is alive (`Dying`) and is no
orphan unless it has been overlooked (`ExitingHasParent`, `MissedDying`), and that
only a process that is away is told to sleep (`ToldIsAway`). `NothingOwed` carries
the second part: a step that puts nobody to sleep, loses no notification and makes
no child owed to a sleeper keeps `NoLostExit`; exit, detach and suspension make one
owed only to the parent that they tell (`ToldParent`).

**FileLocks**, owners. `LockTypesCorrect`, `LocksExclude` and `LockStateConsistent`
(the last two while no shared lock has been broken, `FileLocksShared`, and no call executed
after the crash cleanup of its client, section 7), from
`LockInvariant`. Exclusion says what processes believe, and a grant, an unlock, a
close or a crash cleanup may be under way between the server and the process.
`CallInv` therefore says who can be in a call (`HoldersIdle`, `WaitersWantLocks`),
that the notifier's process is being served (`NotifierIsServed`) and that the dead
whose locks are released are down (`CleanedAreDown`); `OwnersInv`, that
the owner list agrees with the flags and the count of shared locks, has an
exclusive owner alone and nobody twice (`OwnersSound`),
that a process that believes to hold a lock is listed with it (`HoldersListed`), and
that whoever is listed holds it, is being granted or giving it up, or died
(`ListedHold`). The cleanup filters the list (`WithoutClient`, a recursive function).
Facts about it, such as the number of shared owners it leaves, are proved from the
least length of a prefix that would contradict them (`LeastNat`, a consequence of
the well-foundedness of the naturals), as no induction rule can be instantiated.

**HandleTable** (assumption `HandleTableAssumption`). `HandleTypes`,
`HandleTableSound`, `ReferencesAccounted` and `NoLostSleeper`, for any numbers of
processes, files, streams and handles, any soft limit and any growth. The three
invariants need each other: a count is exact only if a handle that is removed has
no reference but the remover's, which follows from the lock; that the lock has one
holder follows from where the processes are. `IInv` joins `HandlesSound` (each
handle's counts, its place in the hash table, the counters of the table, no
reference to freed memory) and `ProcsSound` (what a process at each place of `pc`
may rely on: which handle it has, that it is locked or still in the table, that
nobody else has opened or shares the stream it closes).
References are counted as cardinalities of finite sets of processes and streams; a
step changes one process or one stream, so that each count changes by the
one element that joins or leaves its set.

**HostRecovery and FsRecovery** (assumptions `HostRecoveryAssumption` and
`FsRecoveryAssumption`: the names that
the model gives to the reboot job and to no handle are no others). `RecoveryTypes`,
`FlagsTellTheTruth`, `ReopenedByOne`, `ServedAfterCrashCallBacks`. `FlagsAccounted`
fails to be inductive because a flag is changed at one place and tested at others;
`HostShape` says which activities every combination of the flags of a host allows,
`PeerShape` that a peer that is down may still come back and that a request
that is being served carries the stamp of one of its incarnations,
`HandleShape` gives the types of the handles' part, `JobRuns` relates the reboot
call-back to its flag, `UsersInside` the users to the
reopenings they make, and `OneReopener` that `SRV_RECOV_IN_PROGRESS` is held by one
process or none. `ServedAfterCrashCallBacks` has the exemption of the
run (`overlap`, section 7).

**RpcTransport** (assumptions `RpcTransportAssumption` and `NoneAssumption`: the model's
"none" is no client, process or call). `TransportTypes`, `RequestsKeepHeaders` and the
refinement `TransportImplementsCalls`, with any number of clients, some of which
reboot and broadcast, of server processes, calls, retries and packets, whatever is
lost. What is said is about the clients not confused:

* `Types`: each queue has packets of its client only, with transaction numbers it has
  given out; each channel and each server process has a state that can be.
* `ServerInv`: one process is bound to a client (`OneProcess`) and is not stuck
  (`NeverStuck`), a process with the header of a call is where the call's executions
  say and keeps the reply to it once there is one (`HeadersOK`), the running procedure
  is that of the header (`RunsForReq`), and a process bound to the client does not
  work for, or keep a reply to, another (`TakenClean`).
* `Order`: the requests of a client are in the network in the order of its calls, and
  none that follows the one a process has saved is older than it. Without it a
  delayed retransmission could be a "new" transaction.
* `CallInv`: a call that was executed and of which a request may still come has its
  reply kept at a process (`ReplyKept`), so that the request is recognised; nothing was
  executed twice (`AtMostOnce`) or before it was issued (`NotYetIssued`); a close
  acknowledgment comes when the call has been executed (`ClosedWhenDone`); a
  reply under way answers the call that it names (`Answers`).

`ReplyKept` is the heart of it, and the reason for the exemptions: a process that is
taken over, or ages out, while a retransmission is under way or may follow forgets
the reply, and the retransmission is a new call. `CallInv` is said of clients that are not
confused; `ReclaimImplements` is the step where one becomes so by age.
Under the mapping (`Abstract`), `StartCall` issues a call,
`ServerReply` and `ServerNoReply` execute it, `DoInput` and `DoTimeout` return from it or
give it up, `RpcServerDispatch` and `RpcReclaimServer` confuse; every other step, retransmission, loss
and resent reply among them, is a stutter (`StepImplements`).

**FsConsist** (assumption `ConsistAssumption`: finitely many workstations and
processes, each process on one workstation). The invariants of `FsConsistInv` are
layers, each proved with the help of those below it:

* `TypedInv`: types and structure (`TInv`), and that commands are outstanding only for
  the action in progress (`MsgsTied`). `ConsistTypeCorrect`.
* `CountInv`: an element of the client list counts the opens of its workstation from
  `UpdateList` to `Fsconsist_Close`, and the summary counts are the sums plus the opens
  on their way (while nobody is in trouble). `UseCountsCorrect`.
* `SharingInv`: a command under way settles what the element of its workstation says
  (`Pipe`), elements of a file used against a writer are told to stop caching
  (`Sharing`), no workstation gets ahead of the settled version (`Versions`), and what a
  workstation believes is what its element says or what a reply or command under way
  will make it (`Believed`). `NoSharedCachingHolds`.
* `OwnedInv`: a workstation that has dirty blocks, or a writer that may make some, is the
  last writer or has been told to write back, and nobody else caches the file for
  writing. `DirtyIsRememberedHolds`.
* `DataInv`: as long as nobody is in trouble, misled or discarded (`Safe`), the copies
  with the settled version hold what was written last, and a writer shuts out other
  current copies. `NoLostUpdateHolds`, `ReadsLatestHolds`.

The first two layers hold for any number of processes per workstation. From
`SharingInv` on the theorems have the hypothesis `OneEach`: one process of each workstation
uses the file. The code does not guarantee that, and without it they are
false: two processes of a workstation race for its handle, and a close beside a write
clears `lastWriter` although a dirty block is left (section 7). Nor do they say
anything of workstations in `trouble` or `misled`, and the last two nothing once
somebody is in one of these or `discarded`.

**BlockCache** (assumptions `BlockCacheAssumption`: finitely many processes, files, keys
and blocks, files of meta-data are only updated and written back, and the cache is larger
than its reserve; `NilAssumption`). `BlockCacheTypeCorrect`,
`BlockCacheCountsExact`, `BlockCacheSleepersWoken`, all from `BlockCacheInductive`. The
invariant `Inv` of `BlockCacheInv` has four parts that need each other:

* `CacheInv`: blocks, hash table, files and cleaners refer to each other, and each counter
  is the cardinality of what it counts. Routines change one block, so that each count
  changes by one or not at all; `Delta` and the `...Done` predicates say which.
* `HoldInv`: the references to a block are its users and the cleaner that writes it, and
  what a process has fetched stays in its block. A block may be reused because its
  count is exact, and the count stays exact because a held block is not reused.
* `Sleepers`: what a sleeper waits for has not happened. Every step that makes it
  happen broadcasts, and the model wakes all who wait for what was broadcast.
* `ProcTied`, `OneCloser`, `Marks`: where a process is determines what it holds, and one
  process at a time closes a file, which is marked.

Only model-checked: all liveness (`WaiterNotified`, `CallReturns`, `LockReturns`,
`OpenReturnsOrCycle`, `ServerResumes`, `HandlesRecovered`, `WaitersReleased`), which
TLAPS cannot prove under fairness; `NothingLost` of `BlockCache`; `RpcChannels` with
ramp-down on a multiprocessor; what `RpcTransport` does with a confused client.

## 6. What is not modelled, and reductions

* `RpcChannels`: byte order, histograms, the content of requests; `TroubleExpires`
  stands for the passing of the retry interval.
* `RpcTransport`: fragments and partial acknowledgments; echo and test packets;
  creation of server processes; reordering and duplication by the network (Ethernet
  does neither); reboot of the server; the passing of time, so that a process may age out
  at any moment, sooner than the code's timers ever would. Nothing is stated about the calls of a client
  that reboots (its old call may still be executed, its new one twice) or broadcasts
  (section 7).
* `FsConsist`: one process per workstation in the run and in the theorems with `OneEach`;
  the consistency timer fires
  only while an answer is slow or lost; re-open after a server crash, stream
  migration, execution and mapped files, removal, attribute call-backs, the server
  as its own client, the recovery box, the reboot of a workstation (a crashed
  one stays down).
* `FileLocks`: one stream per process, which asks only when it holds nothing;
  processes on the server itself; a live host taken for dead; server crashes; a
  request that a crash overtakes before the server has verified it is lost.
* `HostRecovery`: recovery driven by the server, fast boot, statistics, traces; the
  first contact with a host that is not active yet. `FsRecovery`: bulk reopens, the
  second pass over the streams, the prefix table; which handles are in use does not
  change, as files are neither opened nor closed meanwhile.
* `HandleTable`: local files (`Fsutil_HandleAttemptRemove`, the references of the
  name cache), `HandleFetchNoWait`, the write-back of descriptors (which does disk
  input and output under the monitor), the order of the LRU list: the scan may take
  any handle.
* `BlockCache`: the cache has its largest size (virtual memory, `CreateBlock`,
  `DestroyBlock`, reserved blocks, pages of 8 kilobytes); read-ahead; fetches that do not
  block and remote waiting; operations on several blocks or on part of a file;
  write-through; descriptors and indirect blocks; the reallocation of a disk block
  after a device error; removed files. `DOMAIN_DOWN` and the generic error behave like
  `NO_DISK_SPACE`. The lock of a file's cache information is derived from the
  operations that hold it. The only command is write-back with invalidation, after
  which the file is not cached any more and not opened again. The two
  calls `Fscache_PreventWriteBacks`, `Fscache_AllowWriteBacks` that a reopening makes at
  once are folded into it; a reopening succeeds. That operations return under fairness was
  not checked on this instance; `SleepersWoken` is the safety part of it.
* `ProcWait`: families, usage, `vfork`, the debugger, waits that do not block, the
  lock of a table entry (held within one pass of the monitor, see section 7);
  which processes are away does not change, as if they migrated when they were
  forked; a failed notification. No liveness is
  stated: `NoLostExit` and `WaitersAreTold` are the safety part of it.
* The other components: see `PROJECT.json` for each one's reason. Device drivers,
  the debugger, machine-dependent code, the memory allocator, printing and start-up
  are input and output or library code. The operating system's monitors and
  condition variables are taken as they are documented.

## 7. Observations without a run

* A delayed close acknowledgment is taken for a new request by a process whose saved
  transaction is another one since. While it is executed, the next one frees the
  process "regardless of its state" (`rpc/rpcServer.c:724`), which may then be given a new
  request: it replaces the header that the running procedure will reply to, against the
  comment at `rpc/rpcServer.c:195`, and the new call returns the result of the old
  acknowledgment. This takes one client, one process, `ServersMaxed` and
  `MaxServerAge` 3; with a third call the wrong result is returned. `RequestStable` and
  the refinement exempt the client from then on (`confused`).
* A process that is idle ages out after `rpcMaxServerAge` passes whatever its client
  does (`rpc/rpcServer.c:374`). When another client takes it while the first, which has
  lost the reply, still retransmits, the retransmission is a new call and is executed
  again. The comment at `rpc/rpcServer.c:304` leaves it at "This doesn't seem to happen".
  `RpcReclaimServer` confuses the client.
* A broadcast that a procedure does not answer frees its process (`SRV_NO_REPLY`,
  `rpc/rpcServer.c:348`). A retransmission that comes when another client has taken
  that process over goes to another process and is executed again.
* The dispatcher compares transaction IDs, not clients (`rpc/rpcServer.c:605`). A process
  taken over from another client whose last ID is, by chance, that of the request
  answers with that client's saved reply.
* A client that reboots unnoticed: a reply to its earlier boot can be resent to it; the
  reset of `replyRpcHdr.ID` for an old transaction does not reset the `ID` that the
  dispatcher compares (`rpc/rpcServer.c:772`); the crash callback marks a process that
  already serves the new boot as stuck (`rpc/rpcDaemon.c:370`), so that with two
  processes the retransmission is executed by the other one as well.
* `RpcChanClose` gives a borrowed channel back with `numFreeChannels++` and no
  broadcast (`rpc/rpcCall.c:805`). On a multiprocessor a process that found no free
  channel meanwhile may sleep for ever (with `Multiprocessor` TRUE `WaiterNotified`
  fails). `rpcID` is incremented without a lock there (`rpc/rpcCall.c:298`).
* A partial acknowledgment overwrites the flags and the mask of the request header
  that a later retry sends (`rpc/rpcClient.c:393`); the flag for the last fragment is
  overwritten by those of the message (`rpc/rpcOutput.c:276`); buffers of negative
  acknowledgments are claimed in index order (`rpc/rpcServer.c:540`);
  `rpcNoServers` is counted without a lock (`rpc/rpcDaemon.c:101`).
* `Fscache_Trunc` tests the status code `FS_NOT_CACHEABLE` instead of the flag
  (`fscache/fscacheOps.c:1211`). Two opens by one client that are installed in the
  other order move the handle's time stamp backwards (`fsrmt/fsrmtFile.c:138`).
  `Fsconsist_ClientRemoveCallback` clears the flags after `EndConsistency` may have
  let another action begin (`fsconsist/fsconsistCache.c:1459`).
* `Fscache_FileWriteBack` waits until the file is written or has an error
  (`fscache/fscacheBlocks.c:1386`), but `Fscache_ReturnDirtyFile` wakes it only when
  nothing is dirty (`:2607`): after an error it sleeps until a later try
  succeeds.
* A consistency command takes dirty blocks out of the hash table before they are
  written (`fscache/fscacheBlocks.c:1351`). When a write fails it returns, and a
  truncation, a write past the cache or a new open does not find the blocks; a
  cleaner writes the old contents over the new ones later. The model shows this as
  soon as the file may be opened again after the command.
* `Fscache_Write` deletes the block when copying from the user or writing through fails
  (`fscache/fscacheOps.c:943`), also one that was found dirty: its earlier delayed
  write is lost.
* `Fscache_GetDirtyBlock` does not test `FSCACHE_DOMAIN_DOWN`, and a success does not
  clear it. A cleaner started between `FscacheBackendIdle` and the decrement
  of the number of cleaners is refused (`fsrmt/fsrmtFile.c:1491`); the next call of the
  sync process makes up for it. The calls of `Fscache_PreventWriteBacks` that are
  followed at once by `Fscache_AllowWriteBacks` (`fsrmt/fsrmtFile.c:1676`) return a count
  that may be out of date when it is used. The header comment says that
  `Fscache_UnlockBlock` waits while the block is written (`fscache/fscacheBlocks.c:55`);
  it does not, and marks the block dirty again.
* `RpcChanAlloc` tests `firstBusy > 0`, so a lone busy channel 0 leads to the panic
  on the congested path (`rpc/rpcCall.c:620`).
* `WaitCycle`: a workstation with no handle answers a call-back with FAILURE while
  an open of its own is in progress, and the server resends for as long as it does
  (`fsconsist/fsconsistCache.c:1787`), although that open waits for the action.
* `misled`: the version is incremented before the monitor is entered, so an open may
  be told a version that counts a later writer's open.
* Two processes of one workstation that close and write at the same time can clear
  `lastWriter` beside a dirty block (`fsconsist/fsconsistCache.c:1194`).
* The use counts that `ClientCommand` and `ConsistTimeout` take from a killed
  client are not returned to the handle.
* A late `ConsistTimeout` kills the clients of the next consistency action.
* The crash cleanup skips locked handles (`fsutil/fsutilHandle.c:1051`); a dead
  client's lock on such a file is never broken. `CrashReleasesLocks` states what
  would be expected; `LockReturns` assumes it.
* `Fsrmt_RpcIOControl` gives up the handle between the verification of the client and
  the lock call (`fsio/fsioFile.c:1426`). When the crash cleanup of the client runs in between,
  the call locks the file for a client nobody will clean up after again: the others wait
  for ever. Such a call sets `breached`, as the breaking of a shared lock does, which
  exempts it in `MutualExclusion`, `OwnersMatchFlags` and `LockReturns`.
* `Fsio_LockClose` and `Fsio_LockClientKill` do not count `numShared` down, so that
  after one shared lock was broken a later shared unlock leaves the flag set with
  no owner.
* A lock request with `IOC_LOCK_NO_BLOCK` is put on the wait list too; a lock call
  repeated after recovery may find its own first execution holding the lock; the
  Unix `flock` release passes no mode, which `Fsio_Unlock` rejects
  (`fs/fsStubs.c:3403`).
* `Recov_HostDead` schedules `CrashCallBacks` without testing whether they run
  already (`recov/recovery.c:842`): the first to finish lets server processes go
  while the second still cleans up. `ServedAfterCleanup` exempts it (`overlap`). A late
  request of a dead incarnation that was being served leaves references behind
  after its clean-up. `RecovPrintPingList` returns with the monitor locked when the list
  is empty. `HostChanged` in `proc/procRecovery.c` unregisters its reboot call-back with
  another argument than it was registered with.
* A reboot call-back that finds `Fsutil_Reopen` running returns at once
  (`fsutil/fsutilRecovery.c:123`); when that one talks to the earlier incarnation the
  handles it has done are not reopened until the next message of the server says so
  (`swallowed`). A process that marks its handle after the notification pass waits
  until the next reboot or a signal (`fsutil/fsutilRecovery.c:575`).
* `Fsio_StreamDestroy` releases the stream and its lock, then removes it
  (`fsio/fsioStream.c:788`; the same in `Fsio_StreamCreateID`, `:593`): a walk may
  lock it in between and panics when it unlocks it. The comment at
  `fsutil/fsutilHandle.c:114` says the lock serialises removal;
  `Fsio_LocalFileHandleInit` keeps it. `HandleInstallInt` compares with a limit
  read before it slept. The scavenger tests `use.ref`, not the reference count, so
  that a handle in use by a consistency call becomes limbo.
* `CheckPidArray` does not wait for a child that has left the exit monitor, as
  `LookForAnyChild` does (`proc/procExit.c:1546`): on a multiprocessor a wait for
  given processes may miss the exit and sleep for ever. In the same window a parent
  that exits, or that is told the child is detached, leaves an exiting
  entry nobody reaps. `missed` exempts both; on a uniprocessor, without migrated
  processes, it stays empty.
* A process that is suspended locks its table entry and then enters the exit
  monitor (`proc/procDebug.c:340`, `proc/procMigrate.c:1692`); a waiting parent
  holds the monitor and locks the entry of a child (`proc/procTable.c:355`): on a
  multiprocessor each may wait for the other, and with them every exit and
  wait of the host.
* A parent that catches `SIG_CHILD` and has one pending loops in `DoWait` without
  sleeping until a child changes (`proc/procExit.c:1173`). `CheckPidArray` with
  only children already waited on sleeps, where `LookForAnyChild` says there are no
  children. `Proc_InformParent` wakes the local copy of a migrated parent only, which
  then depends on the signal.

## 8. Plan

Order of the modules to come, most important first:

1. `ServerProcs` (`proc/procServer.c`) and `TimerQueue` (`timer/timerQueue.c`): the
   queue that the modules take for granted when they schedule a call.
2. `RpcFragments`, `RpcServerPool`: implement the lossy network of whole messages
   that `RpcTransport` assumes.
3. `Pipes` (on the wait lists of `FileLocks`), `StreamMigration` (on `HandleTable`),
   process migration (on `ProcWait`), `CopyOnWrite`.
4. An abstract specification of `BlockCache`, a register per block, the refinement,
   and that operations return under fairness.

Theorems to come, in order: `NothingLost` of `BlockCache`, by way of 4.; what of
`SharingInv` and `OwnedInv` holds for several processes on a workstation, for which the
handle's lock and the close must be taken apart; `ServedAfterCleanup`'s counterpart for
`FileLocks`, that a crash releases what is not skipped.

The modules follow one form so that they can be checked and proved about:
constants with a named assumption, one action per operation of the code,
invariants as conjunctions of named parts, no recursive operators.
