# Gentoox Loader: TLA+ models, checks and proofs

Gentoox Loader (Cromwell) is the program in an Xbox's flash chip that starts
Linux. It initialises the hardware, shows a menu, finds a kernel on disk, CD or
network, and can rewrite the flash it was started from. This directory models
the parts in which an error is expensive and hard to provoke on the bench: the
heap everything lives in, the flash driver, the network main loop with its DHCP
client, the two upload servers, the download clients, the FATX reader, the IDE
driver with its drive passwords, and the way from the icon menu to Linux.

Paths below are relative to `src/`. `PROJECT.json` lists, for every definition,
the source lines it stands for, and, for every property, a small change of the
code (a `Bug...` operator) that TLC finds with it.

## 1. Inventory

| Part | Source | State | Operations | What is hard | What makes it correct |
|---|---|---|---|---|---|
| Memory manager | `lib/misc/BootLibrary.c` | one byte per 16 KB cluster, interrupt flag | `malloc`, `free` | a block is known only by its bytes; double frees; sizes at the boundaries | blocks are disjoint, the table describes them, nothing is lost |
| Flash driver | `drivers/flash/BootFlash.c`, `BootFlashUi.c` | chip, region, loop address, retry counter | detect, erase, program, verify, reboot | commands that fail or disturb other bytes, retries, aborting callback | reboot only into a verified image; nothing outside the region changes |
| Connections of the upload servers | `networktools/netflash/netflash.c`, `networktools/netboot/netboot.c` | `http_state`, registered callbacks, unacknowledged data | accept, receive, sent, poll, error, close | callbacks in any order, connections that break | no callback meets a freed state; every connection ends |
| Net flash server | `networktools/netflash/netflash.c` | upload buffer per connection | upload, decide, flash | several requests on a connection, two connections | only a complete, legal image is flashed, and the page says so |
| Net boot server | `networktools/netboot/netboot.c` | `postNum`, one shared buffer, places of kernel, initrd, command line | three uploads, place, boot | an upload is counted in one callback and placed in another | what is booted is what the user selected, in its place and undamaged |
| Web boot, web update | `networktools/webboot/webboot.c`, `networktools/webupdate/webupdate.c` | one buffer, header flag, lengths, heap pointers | HEAD and GET of three files, GET of a BIOS | segments cut anywhere, early close, six connections in a row, double free | files arrive whole and unmixed |
| FATX | `fs/fatx/BootFATX.c` | chain table, cluster buffer, file information | open, find, load | disks with broken chains, read errors | the right file, all of it, never beyond the buffer |
| Network main loop, DHCP client | `tcpListener/tcpListener.c`, `lwip/src/core/dhcp.c` | client state, retries, three timers, `divisor`, `first`, `gotIP` | packet, wait that times out, fine and coarse timer, fallback, start of the tool | a late answer against the fallback, answers out of order, lease timers that outlive their lease, counters that wrap | the tool starts, once, with an address that is ours, and nothing changes the fixed one |
| Boot menus | `menu/iconmenu/`, `menu/textmenu/TextMenu.c`, `menu/actions/MenuActions.c` | selected and first visible icon, the shared `temp`, `timedOut`, stack of text menus | a turn of either loop | one time-out for all menus, a flag that is never reset | the selection stays visible; by itself the console leaves the menus; after input it waits |
| Linux loader | `boot/LoadLinux.c`, `lib/misc/BootParser.c` | parsed entries, kernel, initrd, command line | parse, find a disc, load from native, FATX or CD, start | sections, prefixes and defaults; failures that do not stop it | what is started is the section that was chosen |
| IDE driver | `drivers/ide/BootIde.c`, `menu/actions/HDDMenuActions.c` | drive table; the drives' passwords | identify, unlock, lock, read | power cuts and errors between two passwords; three ways of addressing | no drive with a password nobody has; the right sector |
| First stage | `boot_rom/2bBootStartBios.c` | bank, attempt | copy, hash, retry | bad flash banks | a jump only into a checked image |
| Interrupts | `drivers/pci/BootInterrupts.c` | tick counter, tray state | timer and SMC handlers | handlers against the main program | no event lost |
| Vendored | the rest of `lwip/`, `etherboot/`, `drivers/usb/`, `fs/grub/`, `lib/gzip`, `lib/jpeg`, `lib/crypt` | | | | left out |

How they interact: `run_lwip` polls the network card and runs the timers; lwIP
calls the servers' and clients' callbacks from within it, so callbacks never
preempt each other, but come in any order. An accepted image or a complete
download is handed to `BootReflashAndReset` or `ExittoLinuxFromNet`, neither of
which returns on success. Everybody allocates from the memory manager, the
menus and `LoadLinux.c` read files through FATX, and FATX reads through the IDE
driver.

## 2. Modules

| Module | Models | Built on |
|---|---|---|
| `MemoryManager` | the allocator | |
| `FlashUpdate` | what a caller of `BootReflashAndReset` is promised (abstract) | |
| `BootFlash` | the flash driver; implements `FlashUpdate` | `INSTANCE FlashUpdate` |
| `HttpConn` | a connection of either upload server | |
| `NetFlash` | the net flash server; flashing is a `FlashUpdate` | `EXTENDS HttpConn`, `INSTANCE FlashUpdate` |
| `NetBoot` | the net boot server and the user's browser | `EXTENDS HttpConn` |
| `WebDownload` | the download clients with the heap blocks they own | |
| `Fatx` | the FATX reader, and a reference definition of a disk's contents | |
| `Dhcp` | lwIP's DHCP client, as functions on its state | |
| `NetLoop` | the main loop, the network and DHCP servers | `EXTENDS Dhcp` |
| `BootParser` | `linuxboot.cfg`: the parser, and a reference definition of what a file says | |
| `BootMenu` | icons, menus, the search for a disc, the loaders | `EXTENDS BootParser` |
| `Ide` | drive detection, the security commands, sector addressing, the HDD menu | |
| `MC...` | values of the constants for TLC | |
| `...Proofs` | theorems | |

### MemoryManager

The state is the table `memsmall`, byte by byte, because `t_free` decides by
the bytes alone. Ghost variables keep the blocks callers own (`held`), the
blocks that were freed but stayed marked (`leaked`), pointers freed once
(`stale`) and callers of failed requests. One action is one call of `malloc` or
`free`: interrupts are off inside, and the program has one thread. Sizes are in
pages of 256 bytes, the grain `malloc` rounds to, modulo 2^24 pages (2^32
bytes). `FreeStale` is the double free of `webboot.c`; it leaves out the last
entry of the table, where a block that ran past the end can leave bytes that
look like the start of a block.

### BootFlash, FlashUpdate

A byte is the set of its bits that are one, so that programming can only remove
bits and erasing sets them. An action is one round of a loop of
`BootFlashEraseMinimalRegion` or `BootFlashProgram`, with the calls of the
callback it makes. The command of a chip that is `faulty` may do nothing or
report an error, and a program command may clear bits of another byte of its
sector; a callback may answer FALSE at any event (`Callbacks`).
`FlashUpdate` has five actions and no chip: refuse, begin, write, reboot, halt.

### HttpConn, NetFlash, NetBoot

`HttpConn` has what both servers share: the fields of `http_state`, which
callbacks are registered, whether lwIP's argument is the state or NULL, and the
send buffer. lwIP is external: it calls what is registered, acknowledges in any
portions, drops connections, polls. A request is a sequence of lines of the
kinds `handle_line` tells apart, then units of body. `NetFlash` adds the upload
buffer, `handle_post`'s decision and the flash; what uninitialised pointers of
`handle_post` yield is every outcome (`Uninitialised`). Its ghost `told` is the
page of which a connection was sent something since its last request line, and
`reused` says that this line came while an earlier request was still being
answered.

`NetBoot` adds `postNum`, the shared buffer (an upload is `intact` until another
connection writes over it) and the user, who has the last page that came in
answer to the form before him, acknowledged or not, and may submit the form on it
at once, whatever the server is at. In the scene `careful` he submits each form
once, with a browser that sends proper requests on a connection of its own for
each, and any other requests come in between; connections break and are closed at
any time. In the scene `rough` anybody sends anything, on one connection at a
time. The ghost `mishaps` records the two things that may happen between the
count of an upload and its placing: bytes of the next one come in (`overlap`), or
its connection is lost (`break`).

### WebDownload

Each file is fetched with HEAD and GET over connections of their own. The
response is a sequence of characters, and segments cut it anywhere, also inside
the four characters that end the header. The heap is the four pointers of
`webboot.c` over five clusters, since the question is which of them own a block.

### Fatx

The disk is a chain table and directory entries, both arbitrary. An action is
one cluster of a directory, one cluster of the file, or a return. A read that
fails leaves the rest of the cluster buffer as it was, and directory entries
that some cluster left on the stack. `Chain`, `Directory`, `TheFile` and
`Content` say what a disk holds without walking it the way the code does.

### Dhcp, NetLoop

`Dhcp` has one function per function of `dhcp.c`, from a client state to the
next; `NetLoop` applies them where `run_lwip` calls them, one action per turn
of its loop: a packet, or a poll that finds none when 250 ms have passed
(`Quiet`), which alone runs the timers, the fallback and the start of the tool.
A reply is `fresh` while its transaction id
is that of the last request. The network loses, repeats and reorders replies;
servers acknowledge or refuse what they were asked for. Memory for a message
may be missing at every request (`ok`), except for the first. Netmask and
gateway follow the address and are left out. The ghost `crossed` says that a
lease timer acted on a client that was requesting a new address.

### BootParser, BootMenu

An action is one turn of a menu's loop, with whatever was pressed, or one
loader call. `temp` is the one variable in which both kinds of menu keep their
time-out, and is assigned where they assign it. Text menus are a stack: the
Web Boot icon opens a chain of menus with a time-out each. What runs behind the
items of the tool menus is one external step. Titles and command lines are
sequences of letters, because a default title is compared as a prefix and a
command line is copied over an earlier one without its terminator; all other
values are names. `Section`, `Says` and `SectionDefault` say what a file means
without going through it. `Media` are the file systems that drives and discs may
hold; `ConfigFile` says what a `linuxboot.cfg` may look like: any sequence of
lines, in which only a title cannot be empty.

### Ide

The security commands are steps of their own, since the power can go between
them: first the master password, whose transfer nobody looks at, then the
user's. A drive remembers its passwords, and is locked after a power cut if one
is set. A password is the number of who knows it: this console, for each
drive; the published one; another console; nobody. Sector numbers are split
into registers as the code does it and put together again as a drive does it,
with small bytes and nibbles. The loader is the one in the flash chip
(`cromwell_config == CROMWELL`); the build that is started as a program leaves
drives alone.

## 3. Runs

| Run | Question | Result |
|---|---|---|
| `heap` | all sequences of requests, frees, double frees and failures | invariants hold |
| `heap_region` | does a block end inside the heap? | **no**: see findings |
| `flash` | chips of every kind, sound and faulty, callbacks that may abort | safety; a good chip always ends in the new image; and `KeepsPromise`: `BootFlash` implements `FlashUpdate`, its termination included |
| `net_flash` | two connections, two requests on each, every order of callbacks | only whole images are flashed; what is sent in answer to an upload is the decision's page, but for a connection that was still being answered when it came |
| `net_boot` | a careful user who posts the next form as soon as he has it, over connections that break; any requests | his files are booted unless one was overwritten or lost before it was placed, and never mixed up; states are freed once; a silent peer loses its connection |
| `net_boot_loss` | is what a careful user selected booted when one connection breaks? | **no**: a file may be missing |
| `web_download` | segments cut anywhere, early close, lost connections | whole files, except across a split header end |
| `net_loop` | two DHCP servers with short leases over a network that loses, repeats and delays | the tool starts, with a good address unless a lease timer crossed a request; the fixed address is final |
| `boot` | consoles of every kind, a person who presses anything or nothing | the chosen section is started; nobody is left in a menu |
| `boot_timed_out` | is an icon chosen automatically when `timedOut` says so? | **no**: the flag stays set |
| `ide` | locks and unlocks with power cuts and failing commands; every sector | drives stay recoverable; the right sector is read |
| `fatx` | sound, short, crossed and circular disks; every read may fail | right file, within its buffer |

All deadlock checks are off: a loader that has booted, halted or answered its
last request stops.

### Bounds

* Heap: nine entries and requests at the last size of one path of `t_malloc`
  and the first of the next (1, 4, 5 and 6 clusters, and one that is refused).
  Several blocks of each size fit, the table can be filled, and the last block
  may end beyond the last entry, which is where the boundary cases are.
* Flash: six bytes of two bits in three sectors, two sectors to a block of the
  retry counter; regions that are the whole chip, its start, its middle and too
  long; a chip for each branch of detection and erase.
* Servers: two connections, since lwIP is configured for two
  (`lwip/lwipopts.h:57`); pages of two units through a send buffer of one, so
  that an answer takes several acknowledgements; uploads of two units, one
  unit too many allowed; the lines of requests are bounded by `MaxLines`, over
  all connections: six are two whole requests, on one connection or on two, so
  that a second request meets an answer that is still being sent. In `net_boot`
  they are those of the connections that are open at a time, and the three uploads
  in a row may overlap on the two connections; `net_boot_loss` needs one only.
* Web clients: bodies of two to six characters, one with an empty line in it,
  and segments up to the longest response; `Legal` has a size that a BIOS
  passes on its way to its own.
* FATX: four clusters of two units, files of zero to five units (so shorter than, equal to
  and longer than their chains), and 64 tables with all the defects: rings,
  shared clusters, free clusters, numbers beyond the table.

* Main loop: the fine timer's 500 ms stand for 10 s, so that each request's
  time-out is one or two ticks as its growth requires; the coarse timer runs at
  every second round of the timers instead of every 241st; the timers wrap at 3
  instead of 2^16 and the count of tries at 11 instead of 2^8, above the largest
  number the code compares it with (10). The lease is renewed after one coarse
  tick and rebound after two, so that both lease timers can act in every state a
  client can be in, also before a tool was started. Two servers' addresses, at most two replies on their way, one tool
  (the branches of line 208 differ in the tool alone), and the first press of
  button C reboots instead of the fourth.
* Menus: two icons and two items shown instead of three and eight, so that
  windows slide; two Web Boot menus instead of five; one tick of time-out;
  configuration files with one to three sections, lines before the first title,
  a default that is a prefix of two titles, one that fits none, and a repeated
  command line; consoles with a CD drive, FATX, native partitions on either
  drive and a disk without MBR.
* IDE: bytes of three values and a head field of two, so that 28-bit
  addressing ends at 54 and a drive of 60 sectors crosses it; a drive addressed
  by cylinder, head and sector, a CD drive, an empty position; two power cuts
  or reboots and one fault, wherever they fall.

### Fairness

* `BootFlash`, `Fatx`: weak fairness of the next step. Both are sequential
  programs without a scheduler. A chip that stays busy for ever is not modelled.
* `NetBoot`: weak fairness of `Poll` only. `run_lwip` calls `tcp_tmr`, which
  polls every connection, each time `ebd_wait` times out. `ebd_wait` returns 1
  after every packet, but the time it counts goes on (`start_ticks` is static and
  reset only when it returns 0), so one poll that finds no packet, 250 ms after
  the count began or later, is enough. Only a card that has a packet at every
  such poll would hold the timers up. Nothing is assumed of the peer.
* `WebDownload`: TCP connects, delivers and closes, or reports an error
  (`ConnErr` may come at any time and ends the download).
* `NetLoop`: weak fairness of `Quiet`, the same assumption made explicit: such a
  poll comes again and again. Packets and servers have none.
* `BootMenu`: the loops turn and the clock ticks; nobody need press anything,
  and a tray that was opened need not be closed.
* `Terminates` of `Fatx` is about tables that lead from every cluster to an end
  marker: on a ring the code really loops for ever.

## 4. Proofs

The theorems hold for every value of the constants that satisfies the named
assumption of the module. `tlapm` checks every step. Each proofs module has the
same shape: one lemma per action (and per helper that an action applies) for
what it does to the named conjuncts of the inductive invariant, one for `Init`,
one for `[Next]_vars`, and the theorems at the end. `MemoryIdeProofs` holds two
such developments that have nothing to do with each other.

| Module | Inductive invariant | Properties proved |
|---|---|---|
| `MemoryIdeProofs` (the heap) | `IInv` | `BlocksDisjoint`, `MarksIntact`, `NothingElseLost`, `OnlyOwnerUnmarks`, `RequestCovered` |
| `MemoryIdeProofs` (the IDE driver) | `IdeInv` | `LockIsRecoverable`, `OpensAtBoot`, `ReadsRequestedBlock` |
| `BootFlashProofs` | `FlashInv`, `EventsPaired`, `AttemptsInv` | `RebootOnlyWithImage`, `FootprintMinimal`, `EndFollowsStart`, `EraseAttemptsBounded`, the safety part of `KeepsPromise` |
| `NetFlashProofs` | `NetFlashInv` | `FlashesWholeImage`, `AnswerMatchesDecision`, `BuffersAccounted`, `CallbacksHaveState` |
| `NetBootProofs` | `NetBootInv` | `StateFreedOnce`, `NextStepPage`, `FilesNotMixedUp`, `BootsUndisturbedUploads` |
| `WebDownloadProofs` | `DownloadInv` | `BootsWholeFiles`, `FlashesWholeBios`, `OnlyBodyBytes`, `PointersOwnTheirBlocks` |
| `NetLoopProofs` | `NetLoopInv` | `FallbackIsFinal`, `WillAskAgain`, `StartsWithAddress` |
| `FatxProofs` | `FatxInv`, `LoadInv`, `FindInv` | `StaysInBuffer`, `LoadsTheFile`, `FindsTheFile` |
| `BootMenuProofs` | `ParsedTo`, `BootInv` | the parser (`ParseConfigFacts`), `BootsChosenEntry`, `SteeredStaysManual`, `SelectionStaysShown` |

**MemoryIdeProofs**, the heap (from `SizesAssumption`: the table is at least as long
as any block that starts in it). `HeapInvariant`: `IInv` is inductive.
Disjointness alone is not: `t_malloc` looks at bytes, so one needs that every
block is marked (`MarksIntact`), and that `t_free` clears exactly its block,
which needs the patterns and that no other block's end pair comes first
(disjointness again). That a stale pointer frees nothing needs
`NothingElseMarked`: a byte that could start a pattern belongs to a block, and
inside a block no position but the first carries a complete start pattern.

**MemoryIdeProofs**, the IDE driver (from `IdeAssumption`: byte and nibble widths, and drives no
larger than their registers can address). `LockOrder`: when the user password
is on its way for a lock, the master password is set or was lost.
`OpenSoFar`: the drives before the one at hand have been opened. `InfoFits`: the
way of addressing that detection chose is the drive's own, except for a drive
that could not be identified, which cannot be read either. `ReadsAreExact` is
arithmetic: splitting a block number over the registers and putting it together
are inverse for each of the three ways and at the limits between them.

**BootFlashProofs** (from `FlashAssumption`: types, and chips and images of the
chip's length). A reboot follows the verify loop, so `FlashInv` says what that
loop has compared so far, which holds because verifying changes nothing; the
footprint needs that the loop address stays in the region and the region in the
chip. `FlashKeepsPromise`: every step is a step of `FlashUpdate` or a stutter.
`FlashEndFollowsStart` needs which phase is open at every place
(`EventsPaired`). `FlashEraseAttempts` counts: attempts made and retries left of
the current 4 KB block never exceed four per block met (`AttemptsInv`). It needs
that the loop address only grows, so that a block is never met again after the
counter was reset for the next one.

**NetFlashProofs** (from `ConnAssumption` and `NetFlashAssumption`: bounds are
numbers, every connection has a number of lines to send). No bound on the
number of connections. `FlashesWholeImage` is about the moment of the hand-over;
it holds because an upload that `handle_post` recorded was complete then and
nothing takes it back (`RecordedIsWhole`), and because a state that was freed is
clean when it is used again (`FreedIsClean`). That no callback meets a freed
state, and that buffers are accounted for, are part of the same induction
(`UploadInv`): the callbacks that free are the ones that deregister.
`PageTellsTheTruth` adds what has been sent (`NothingToldEarly`): `http_sent` and
`http_poll` are registered with an answer and not before, so a connection that
was not being answered when the request line came can be sent nothing until
`handle_post` has decided, and then only the page of the decision.

**NetBootProofs** (from `ConnAssumption` and `NetBootAssumption`, whose `MaxPost`
bounds the count of uploads, which the code leaves open, to at most five). `Wizard` says
where a careful user and the server are with respect to each other, however his
requests overlap: at most one upload is on its way, it is the one whose turn it
is by `postNum`, and its page is the next form; any number that were counted may
wait for their connections to close. `InTurn` says what is so as long as no body
began while one waited: the last upload counted is the only one that may still
wait, and it is whole, so `close_conn`, which goes by the count of the moment,
puts it where it belongs (`NothingMisplaced`). `Placed` adds, when no connection
of a waiting upload was lost either, that all uploads counted so far are in their
places but for that last one (`BootsTheUploads`). All of it holds for any number
of connections, and the user may load forms and stop at any time. Without the
exceptions both properties are false.

**WebDownloadProofs** (from `DownloadAssumption`: bodies are sequences of
characters, and the sizes the client accepts, lwIP's connections and the longest
segment are numbers). `Received` relates
the buffer to how much of the response has come, however it was cut: a suffix
of the body so far, from its first character unless a segment ended inside the
end of the header. `Arrived` keeps the finished files apart from the one in
progress while both use `tempBuf`. `HeapSame` says in which cluster each
pointer's block lies: every request finds its blocks where the one before had
them, so that the pointer to a freed header never leads to a block in use when it
is freed again.

**NetLoopProofs** (from `DhcpAssumption`, `TimersFit`: the longest time-out of
`dhcp.c` fits its `u16_t`; and `NetLoopAssumption`). `WillAskAgain` needs that
every function that leaves the client waiting sets its time-out to a positive
number of ticks, wrap included. `ToolsHaveAnAddress` needs what an answer on its
way is worth (`AcksAnswer`: an acknowledgement that is still fresh is for the
last request) and what the address in use has to do with requests and offers
(`BoundToOffer`), because the client binds whatever was offered last when an
acknowledgement comes, that of a renewal included. It is about leases of every
length; its exception, `crossed`, is the case in the findings.

**FatxProofs** (from `FatxAssumption`: tables and directories of the right
type, and nothing else of the disks; they may have rings, shared and free
clusters and broken directories). `FatxInv`: what was copied and what is left
add up to the file's size, on rings too, where the loop goes on copying nothing.
`LoadInv`: while a chain is sound, the buffer is the contents of its first
clusters. `FindInv`: the places before the one at hand do not stop the search,
in the directory that the path's names so far lead to; a search that fails has
passed every place. The reference definitions `Chain` and `Directory` are
recursive functions. That a function with such an equation exists is proved by
the least counterexample: at the smallest argument up to which there is none,
the one below extends to it.

**BootMenuProofs** (from `BootAssumption`: every medium has a `linuxboot.cfg`
that `ConfigFile` describes, its lines keyed and typed as the parser reads them;
drives, discs and menus of any number and size). The parser first: `ParsedTo`
says what it has after n lines, namely an entry for every section begun, each
with what the section's lines up to n say; `ParsedAll` is the induction over n,
for a recursive function whose existence is proved as for `Chain`.
`ParseConfigFacts` is the outcome: entries, their number and the default agree
with `SectionCount`, `Says` and `SectionDefault`, which look at the file as a
whole. A command line is claimed only for sections with one (`OneAppend`), since
`strncpy` leaves the end of a longer earlier one.
`BootInv` carries this through the menus to the loaders. `BootsChosenEntry` alone
says nothing before Linux is started; it needs that the entry being loaded is
the section meant, chosen or default, and that a boot menu has exactly the
medium's entries (`EntryFits`), so that whatever is selected exists; and that
selections and windows stay within their lists however menus are stacked
(`TypeOK`, `MenusFit`). `SteeredByHand` needs what the shared time-out is
worth whenever the icon menu may be running again (`SteeredOff`): text menus
start it for themselves, and all ways back switch it off, or never started it.
`SelectionShown` is about windows and lists of every size: the code compares
with the last visible entry or the last of all, whichever comes first
(`MoveFacts`).

TLC agrees: each inductive invariant was checked over the instances of the
runs before it was proved (`IdeInv` 368 489 states, `FatxInv`, `LoadInv` and
`FindInv` 469 026, `FlashInv`, `EventsPaired` and `AttemptsInv` 210 934; `BootInv`
15 180, with the consoles of the run and fewer files); no run keeps them, as the theorems have them for every instance.

Only model-checked:

* liveness: `GoodChipCompletes`, the termination in `KeepsPromise`,
  `AnsweredEnds`, `Finishes`, `Terminates`, `Starts`, `UnattendedLeavesMenu`.
  Fairness and ENABLED are beyond the prover. Every invariant and every action
  property of a passing run is proved.

The properties name their exceptions (a lost or overwritten upload, a connection
that is still being answered, a response cut inside the end of its header, a read
error, a lease timer that crossed a request); the theorems have the same ones and
no others.

## 5. Findings

1. `heap_region`: `t_malloc` bounds where a block starts, not where it ends
   (`lib/misc/BootLibrary.c:289`), so a block near the end of the heap runs into
   the memory that `boot/Memorymap.txt:20-23` gives to the running loader.
2. `net_boot_loss`: an upload is counted when its last byte arrives and placed
   when its connection closes. If the connection breaks in between, the wizard
   goes on and boots without it (`networktools/netboot/netboot.c:320`).

3. `boot_timed_out`: `timedOut` is set when the icon menu's time runs out and
   never cleared (`menu/iconmenu/IconMenu.c:253`), although
   `menu/iconmenu/IconMenu.h:37` says that it means an automatic choice. After a
   CD boot that found no disc, an icon the user picks boots its default entry
   without showing the others.

Seen while modelling, without a run:

* after an abort by the callback, also one that answers false to a verify
  error, the END event never comes, although `drivers/flash/BootFlash.h:16`
  promises it (`EndFollowsStart` is about callbacks that do not abort);
* the transfer of the master password is not looked at
  (`drivers/ide/BootIde.c:571`), so a drive may be locked with the user password
  alone, against the comment of lines 555 to 557 (`LockIsRecoverable` names this
  exception);
* leaving the confirmation with B keeps the answer to the last question
  (`menu/misc/Confirm.c:29`), so that a cancelled lock may be carried out;
* a failed transfer makes `BootIdeReadSector` wait for data no command asks for;
* the capacity from 48-bit addressing is taken only when bit 83 is NOT set: the
  commented-out message leaves the assignment under its `if` (`BootIde.c:386`);
* a DHCP offer without server identifier clears the time-out and sends nothing
  (`dhcp.c:1215`); in the first minute the fallback to a fixed address helps.
  The acknowledgement of a renewal is bound without being read (`dhcp.c:1198`);
* the lease timers run on when a lease is given up. With a lease that is renewed
  after one coarse tick (periods below 90 s) a tool may start with an address
  nobody acknowledged: bound to A, the client asks for A again at the first coarse
  tick, is refused, discovers and is offered B. The next coarse tick comes while
  it requests B, and since the lease timers act in REQUESTING too (`dhcp.c:386`,
  398), it asks for A once more; the acknowledgement of A binds the address
  offered last, B, without being read (`dhcp.c:1198`). `net_loop` has such a lease,
  and TLC finds this in 18 states when the exception `crossed` is dropped from
  `StartsWithAddress`;
* the fallback is decided once, at the end of the first minute. When the client
  has just been bound then and the same coarse tick makes it renew its lease, no
  tool is started in that round; if no answer ever brings it back to BOUND, none
  is started later, and there is no fallback any more (`MinuteWasted`, the
  exception of `Starts`);
* two uploads may overlap without anybody doing anything odd: the browser has the
  whole page before the last acknowledgement closes its connection, and when the
  user's next form begins to arrive in between, its body is written over the
  upload that waits in the one buffer (`netboot.c:250`, 361), and `close_conn`
  stores that one as damaged (the exception `overlap`);
* on a connection that is still being answered, the request line of a POST sets
  page 500 (`netflash.c:191`) and `http_sent` may send part of it before
  `handle_post` decides for `ok.html` and the image is flashed
  (`AnswerMatchesDecision` excepts `reused` connections);
* items of a boot menu are allocated and cleared with the size of a pointer
  (`MenuActions.c:94`), and `DrawChildTextMenu` calls `TextMenu` without its
  second argument: the model lets both hang;
* a CD file that is missing passes the test for a negative size, which is
  unsigned, and Linux is started with what memory held (`LoadLinux.c:438`); so
  does a FATX partition that no longer opens (288);
* a hard disk without MBR at position 0 hides the native partitions of the other
  (`IconMenuInit.c:140`), and the icon selected first may be off the screen;
* `FATXFindDir` returns no value when the directory is not there
  (`fs/fatx/BootFATX.c:102`);
* blocks of five clusters are never given back: their marks lack the second
  `FF` that `t_free` compares with (`NothingElseLost` names this exception);
* the web clients look for the end of a header within one segment; a header
  whose end is split is not recognised (the properties name this exception);
* `connErr` stays registered on closed connections, so a late reset of an old
  one stops a download in progress;
* `ok.html` is sent before the flash driver has seen the chip, which may refuse;
* `NextStepPage` needs a user who submits each form once: two people's uploads
  get pages by the order of their request lines;
* HEAD's length and GET's body are one constant of `WebDownload`, so that a
  response longer than was announced is not modelled;
* `free(NULL)` returns with interrupts disabled (`FreeNull`).

## 6. What is not modelled, and why

The repository has some 124000 lines in 442 files, most of it code from
elsewhere: lwIP (twice, with its PPP stack and other parts the build does not
use), Etherboot with its PCI tables, the USB stack of Linux, the file systems of
GRUB, gzip, JPEG and the hashes, and headers. The modules here are about the
loader's own control logic and the DHCP client it depends on, so they cover a
small share of the whole by lines; modelling the rest would mean modelling other
projects. In detail:

* vendored code: only what the loader's callbacks can meet of it is modelled, as
  external actions. GRUB's file systems appear as files that are there or not;
* register programming (video, PCI, I2C, CPU), drawing, formatting and the LED:
  no state of their own that a property could be about;
* the first stage loader (attempts over flash banks), the SMC interrupt handler
  and the start-up sequence: straight lines of device accesses around a loop;
  the tray state the handler keeps is the nondeterminism of `CdClose`;
* `FATXFindDir`, `FATXListDir` and the menu of BIOS images; `BootLoadFlashCD`;
* of the IDE driver, ATAPI packets, El Torito, cable detection and transfer
  modes; `BootIdeWriteSector` is never called;
* where `startLinux` and `memPlaceKernel` put things in memory, and the kernel's
  parameter block (`setup.c`). Memory behind a buffer is not modelled anywhere:
  where the code would write there, the model stops or says so in a comment;
* the copies under `webserver/` and `webclient/`, the image builder and the
  start-up assembly.
