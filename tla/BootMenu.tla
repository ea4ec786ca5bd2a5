------------------------------ MODULE BootMenu ------------------------------
(***************************************************************************)
(* From the icon menu to Linux: the icons that IconMenuInit finds, the     *)
(* loop of IconMenu with its time-out, the text menus, the search for a    *)
(* boot disc, and the loaders of LoadLinux.c.  One action is one turn of a *)
(* menu's loop or one loader call.                                         *)
(*                                                                         *)
(* Disks, discs and the person at the pad are external.  Time is in ticks, *)
(* and the clock stops at one tick past the time-out.  The Web Boot icon   *)
(* leads through a chain of menus with a time-out each; of what the other  *)
(* items of these menus do, and of those behind the Advanced icon, only    *)
(* the time-out and the way back matter here.                              *)
(***************************************************************************)
EXTENDS BootParser

CONSTANTS
  Media,       \* file systems with a linuxboot.cfg, and NoDisc: see Medium
  Consoles,    \* what is attached: a drive per IDE position
  Discs,       \* media that may lie in the drive
  Bays,        \* icons shown at a time (3)
  Rows,        \* items of a text menu shown at a time (8)
  OtherItems,  \* items of the Web Boot and the Advanced menus
  WebMenus,    \* menus behind the Web Boot icon (5: address and four paths)
  TimeWait     \* ticks of BOOT_TIMEWAIT and MENU_TIMEWAIT

\* A medium has the lines of its linuxboot.cfg, which is parsed when it is
\* read, and the files it holds.
Medium(lines, files) == [lines |-> lines, files |-> files, parsed |-> ParseConfig(lines)]
NoDisc == Medium(<<>>, {})

\* A drive is a hard disk or an ATAPI drive; parts are the media of its
\* bootable partitions with a linuxboot.cfg, fatx that of the FATX partition.
Drives == 1 .. 2

DriveType ==
  [kind : {"hdd"}, mbr : BOOLEAN, fatx : Seq(Media), parts : Seq(Media)]
  \cup [kind : {"atapi", "none"}]

ASSUME BootAssumption ==
  /\ \A m \in Media : m = Medium(m.lines, m.files) /\ ConfigFile(m.lines)
  /\ NoDisc \in Media
  /\ Consoles \subseteq [Drives -> DriveType] /\ Discs \subseteq Media
  /\ Bays \in Nat \ {0} /\ Rows \in Nat \ {0}
  /\ OtherItems \in Nat \ {0} /\ WebMenus \in Nat \ {0} /\ TimeWait \in Nat \ {0}

VARIABLES
  console, disc,   \* what is attached, and the disc in the drive
  tray,            \* "closed" or "open"
  selected, firstVisible,  \* selectedIcon and firstVisibleIcon, by number
  temp,            \* the time-out both kinds of menu share; 0 is off
  clock,           \* ticks since IconMenu started
  timedOut,
  at,              \* where the program is
  config,          \* the medium chosen, and which of its entries
  menus,           \* the open text menus, innermost first: see OpenText
  mem,             \* what startLinux will start
  auto,            \* ghost: was the last icon chosen by the time-out?
  steered,         \* ghost: was left or right ever pressed in the icon menu?
  touched,         \* ghost: was anything pressed?
  meant,           \* ghost: the section that is to be booted
  unread           \* ghost: could a file of that section not be read?

icons  == <<selected, firstVisible>>
menu   == Head(menus)
ghosts == <<auto, steered, touched, meant, unread>>
vars   == <<console, disc, tray, icons, temp, clock, timedOut, at, config, menus, mem, ghosts>>

Pads   == {"none", "left", "right"}
Gone   == {"linux", "hung", "net"}     \* the menus are left for good
Choosing == {"icons", "cdcheck", "cdopen", "cdretry"}  \* no medium is chosen yet

-----------------------------------------------------------------------------
(* IconMenuInit *)

IconsOf(kind, media) == [i \in DOMAIN media |-> [kind |-> kind, medium |-> media[i]]]

CdIcon(d)  == IF d.kind = "atapi" THEN <<[kind |-> "cd"]>> ELSE <<>>
CdIcons(c) == CdIcon(c[1]) \o CdIcon(c[2])

\* Only drive 0 is searched for FATX.
FatXIcons(c) == IF c[1].kind = "hdd" THEN IconsOf("fatx", c[1].fatx) ELSE <<>>

NativeMedia(d) == IF d.kind = "hdd" THEN d.parts ELSE <<>>

\* InitNativeIcons returns at the first hard disk without an MBR.
NativeIcons(c) ==
  LET stops(d) == c[d].kind = "hdd" /\ ~c[d].mbr IN
  IF stops(1) THEN <<>>
  ELSE IconsOf("native", NativeMedia(c[1]))
       \o (IF stops(2) THEN <<>> ELSE IconsOf("native", NativeMedia(c[2])))

Booters(c) == CdIcons(c) \o FatXIcons(c) \o NativeIcons(c)

Icons == Booters(console) \o
         <<[kind |-> "web"], [kind |-> "net"], [kind |-> "advanced"]>>

\* Natives before FATX, the last one found; otherwise the first icon.
FirstSelected(c) ==
  IF FatXIcons(c) \o NativeIcons(c) = <<>> THEN 1 ELSE Len(Booters(c))

NoConfig == [kind |-> "none", medium |-> NoDisc, entry |-> 1]
Nothing  == [kernel |-> NoFile, initrd |-> NoFile, append |-> <<>>]

Init ==
  /\ console \in Consoles /\ disc \in Discs /\ tray = "closed"
  /\ selected = FirstSelected(console) /\ firstVisible = 1
  /\ temp = 1 /\ clock = 1 /\ timedOut = FALSE
  /\ at = "icons"
  /\ config = NoConfig /\ menus = <<>> /\ mem = Nothing
  /\ auto = FALSE /\ steered = FALSE /\ touched = FALSE /\ meant = 1 /\ unread = FALSE

-----------------------------------------------------------------------------
(* Lists with a window on them, as both kinds of menu have. *)

\* Plausible bug: the window follows only when it is past the selection.
BugMoveOn(w, n, size) ==
  IF w.sel = n THEN w
  ELSE [sel   |-> w.sel + 1,
        first |-> IF w.sel = w.first + size THEN w.first + 1 ELSE w.first]

\* To the next of n entries: from the last visible one the window slides along.
MoveOn(w, n, size) ==
  IF w.sel = n THEN w
  ELSE [sel   |-> w.sel + 1,
        first |-> IF w.sel = Min({w.first + size - 1, n}) THEN w.first + 1 ELSE w.first]

MoveBack(w) ==
  IF w.sel = 1 THEN w
  ELSE [sel   |-> w.sel - 1,
        first |-> IF w.sel = w.first THEN w.first - 1 ELSE w.first]

Shown(w, size) == w.sel \in w.first .. w.first + size - 1

\* Plausible bug: the ticks are compared with a limit they never reach.
BugExpired(t) == t > TimeWait + 1

Expired(t) == t > TimeWait

\* External: the clock that both menus read.
Later(t) == IF t > TimeWait THEN t ELSE t + 1

Tick ==
  /\ at \in {"icons", "text"}
  /\ clock' = Later(clock)
  /\ menus' = IF at = "text" THEN [menus EXCEPT ![1].clock = Later(@)] ELSE menus
  /\ UNCHANGED <<console, disc, tray, icons, temp, timedOut, at, config, mem, ghosts>>

-----------------------------------------------------------------------------
(* What choosing an icon calls *)

\* TextMenu, up to its loop.
OpenText(kind, items, sel, timeout) ==
  /\ menus' = <<[kind |-> kind, items |-> items, first |-> 1, sel |-> sel, clock |-> 1]>> \o menus
  /\ temp' = timeout

\* The entry to take or to highlight without a choice of the user.
DefaultEntry(p) == IF p.isDefault = 0 THEN 1 ELSE p.isDefault

\* DrawBootMenu is called with the medium whose file has been found.
CallDrawBootMenu(kind, medium) ==
  /\ at' = "drawing"
  /\ config' = [kind |-> kind, medium |-> medium, entry |-> 1]

\* A single entry, or the default one after a time-out, is booted at once;
\* otherwise a menu of the entries is shown.
DrawBootMenu ==
  /\ at = "drawing"
  /\ LET p == config.medium.parsed
         n == Len(p.entries)
         e == IF n = 1 THEN 1 ELSE DefaultEntry(p)
     IN /\ config' = [config EXCEPT !.entry = e]
        /\ IF n = 1 \/ timedOut
           THEN at' = "loading" /\ meant' = SectionDefault(config.medium.lines)
                /\ UNCHANGED <<temp, menus>>
           ELSE OpenText("boot", n, e, 0) /\ at' = "text" /\ UNCHANGED meant
  /\ UNCHANGED <<console, disc, tray, icons, clock, timedOut, mem, auto, steered, touched, unread>>

\* The function of an icon, with temp = t.  BootFromCD begins with the search
\* for a disc.
Choose(icon, t) ==
  \/ /\ icon.kind \in {"cd", "net"}
     /\ at' = IF icon.kind = "cd" THEN "cdcheck" ELSE "net"
     /\ temp' = t /\ UNCHANGED <<config, menus>>
  \/ /\ icon.kind \in {"fatx", "native"}
     /\ CallDrawBootMenu(icon.kind, icon.medium)
     /\ temp' = t /\ UNCHANGED menus
  \/ /\ icon.kind \in {"web", "advanced"}
     /\ OpenText(icon.kind, OtherItems, 1, IF icon.kind = "web" THEN 1 ELSE 0)
     /\ at' = "text"
     /\ UNCHANGED config

-----------------------------------------------------------------------------
(* IconMenu *)

Moved(pad) ==
  LET w == [first |-> firstVisible, sel |-> selected] IN
  IF pad = "right" THEN MoveOn(w, Len(Icons), Bays)
  ELSE IF pad = "left" THEN MoveBack(w) ELSE w

\* One turn of the loop: left or right first, which end the time-out; then A
\* or START, or the time-out.
IconTurn(pad, press) ==
  /\ at = "icons"
  /\ LET t  == IF pad # "none" \/ temp = 0 THEN 0 ELSE clock
         w  == Moved(pad)
     IN /\ selected' = w.sel /\ firstVisible' = w.first
        /\ timedOut' = (timedOut \/ Expired(t))
        /\ IF press \/ Expired(t)
           THEN Choose(Icons[w.sel], t) /\ auto' = Expired(t)
           ELSE at' = at /\ temp' = t /\ UNCHANGED <<config, menus, auto>>
  /\ steered' = (steered \/ pad # "none")
  /\ touched' = (touched \/ pad # "none" \/ press)
  /\ UNCHANGED <<console, disc, tray, clock, mem, meant, unread>>

-----------------------------------------------------------------------------
(* TextMenu *)

\* DrawChildTextMenu passes no selected item: TextMenu finds zero there, or
\* something that is no item.
DrawChildTextMenu(kind, timeout) ==
  /\ OpenText(kind, OtherItems, 1, timeout)
  /\ at' \in {"text", "hung"}

\* The first item of a Web Boot menu leads to the next one, at last to the
\* download; the others change a number or a letter.
WebItem ==
  IF menu.sel = 1 /\ Len(menus) < WebMenus THEN DrawChildTextMenu("web", 1)
  ELSE /\ at' = IF menu.sel = 1 THEN "net" ELSE "text"
       /\ temp' = 0 /\ UNCHANGED menus

\* External: what runs behind an item of the tool menus comes back to the
\* menu, or never (a reboot, a flash, the network).
ToolItem == at' \in {"text", "net"} /\ temp' = 0 /\ UNCHANGED menus

\* BootMenuEntry is the function of every item of a boot menu.
BootItem ==
  /\ at' = "loading" /\ config' = [config EXCEPT !.entry = menu.sel]
  /\ meant' = menu.sel
  /\ temp' = 0 /\ UNCHANGED menus

\* The items of a boot menu are not cleared (their size is taken for that of a
\* pointer), so what LEFT and RIGHT call is undefined there.
SideFunction == at' \in (IF menu.kind = "boot" THEN {"text", "hung"} ELSE {"text"})

TextMove(in) ==
  /\ in \in {"up", "down"}
  /\ LET w == IF in = "down" THEN MoveOn([first |-> menu.first, sel |-> menu.sel], menu.items, Rows)
              ELSE MoveBack([first |-> menu.first, sel |-> menu.sel])
     IN menus' = [menus EXCEPT ![1].first = w.first, ![1].sel = w.sel]
  /\ temp' = 0
  /\ UNCHANGED <<at, config, meant>>

TextChoose(in) ==
  /\ in = "a" \/ (in \notin {"up", "down"} /\ Expired(temp))
  /\ \/ menu.kind = "boot" /\ BootItem
     \/ menu.kind = "web" /\ WebItem /\ UNCHANGED <<config, meant>>
     \/ menu.kind = "advanced" /\ DrawChildTextMenu("tools", 0) /\ UNCHANGED <<config, meant>>
     \/ menu.kind = "tools" /\ ToolItem /\ UNCHANGED <<config, meant>>

TextSide(in) ==
  /\ in \in {"left", "right"} /\ ~Expired(temp)
  /\ temp' = 0
  /\ SideFunction
  /\ UNCHANGED <<menus, config, meant>>

\* Plausible bug: leaving a menu does not stop its time-out.
BugTextBack(in) ==
  /\ in = "b" /\ ~Expired(temp)
  /\ menus' = Tail(menus) /\ at' = IF Len(menus) = 1 THEN "icons" ELSE "text"
  /\ UNCHANGED <<config, meant, temp>>

TextBack(in) ==
  /\ in = "b" /\ ~Expired(temp)
  /\ temp' = 0
  /\ menus' = Tail(menus) /\ at' = IF Len(menus) = 1 THEN "icons" ELSE "text"
  /\ UNCHANGED <<config, meant>>

TextIdle(in) ==
  /\ in = "none" /\ ~Expired(temp)
  /\ temp' = IF temp = 0 THEN 0 ELSE menu.clock
  /\ UNCHANGED <<at, menus, config, meant>>

TextTurn(in) ==
  /\ at = "text"
  /\ TextMove(in) \/ TextChoose(in) \/ TextSide(in) \/ TextBack(in) \/ TextIdle(in)
  /\ touched' = (touched \/ in # "none")
  /\ UNCHANGED <<console, disc, tray, icons, clock, timedOut, mem, auto, steered, unread>>

-----------------------------------------------------------------------------
(* LoadConfigCD *)

\* Up to 16 or 48 attempts to read the file; a disc may be too slow for them.
DiscFound ==
  /\ disc.lines # <<>>
  /\ CallDrawBootMenu("cd", disc)
  /\ UNCHANGED <<tray, clock>>

CdCheck ==
  /\ at = "cdcheck"
  /\ \/ DiscFound
     \/ /\ at' = "cdopen" /\ tray' = "open"
        /\ UNCHANGED <<clock, config>>
  /\ UNCHANGED <<console, disc, icons, temp, timedOut, menus, mem, ghosts>>

\* External: somebody changes the disc.
SwapDisc ==
  /\ tray = "open" /\ disc' \in Discs
  /\ UNCHANGED <<console, tray, icons, temp, clock, timedOut, at, config, menus, mem, ghosts>>

\* Button A, or the tray is seen closing.
CdClose ==
  /\ at = "cdopen"
  /\ at' = "cdretry" /\ tray' = "closed" /\ touched' = TRUE
  /\ UNCHANGED <<console, disc, icons, temp, clock, timedOut, config, menus, mem, auto, steered,
                 meant, unread>>

\* After the last attempt BootFromCD returns to the icon menu, whose time is up
\* by then.
CdRetry ==
  /\ at = "cdretry"
  /\ \/ DiscFound
     \/ /\ at' = "icons" /\ clock' = TimeWait + 1
        /\ UNCHANGED <<tray, config>>
  /\ UNCHANGED <<console, disc, icons, temp, timedOut, menus, mem, ghosts>>

-----------------------------------------------------------------------------
(* BootMenuEntry: the loaders, and ExittoLinux whatever they return *)

Entry    == config.medium.parsed.entries[config.entry]
Has(f)   == f \in config.medium.files
Load(f)  == IF Has(f) THEN f ELSE "garbage"

Start(kernel, initrd) ==
  /\ at' = "linux"
  /\ mem' = [kernel |-> kernel, initrd |-> initrd, append |-> Entry.append]

\* startLinux with what the loader has put in place.
StartLoaded ==
  Start(Load(Entry.kernel), IF Entry.initrd = NoFile THEN NoFile ELSE Load(Entry.initrd))

Hang == at' = "hung" /\ UNCHANGED mem

\* LoadKernelNative and LoadKernelFatX stop when a file cannot be loaded.
FilesThere == Has(Entry.kernel) /\ (Entry.initrd # NoFile => Has(Entry.initrd))

LoadKernelNative ==
  /\ config.kind = "native"
  /\ IF FilesThere THEN StartLoaded ELSE Hang
  /\ UNCHANGED unread

\* A partition that cannot be opened is reported to nobody.
LoadKernelFatX ==
  /\ config.kind = "fatx"
  /\ \/ /\ IF FilesThere THEN StartLoaded ELSE Hang
        /\ UNCHANGED unread
     \/ Start("garbage", "garbage") /\ unread' = TRUE

\* The sizes are unsigned, so that a missing file passes for one; an initrd
\* is required.
LoadKernelCdrom ==
  /\ config.kind = "cd"
  /\ IF Entry.initrd = NoFile THEN Hang ELSE StartLoaded
  /\ unread' = ~FilesThere

BootMenuEntry ==
  /\ at = "loading"
  /\ LoadKernelNative \/ LoadKernelFatX \/ LoadKernelCdrom
  /\ UNCHANGED <<console, disc, tray, icons, temp, clock, timedOut, config, menus, auto, steered,
                 touched, meant>>

-----------------------------------------------------------------------------
TextInputs == {"none", "up", "down", "a", "left", "right", "b"}

Next ==
  \/ Tick
  \/ \E pad \in Pads, press \in BOOLEAN : IconTurn(pad, press)
  \/ \E in \in TextInputs : TextTurn(in)
  \/ CdCheck \/ SwapDisc \/ CdClose \/ CdRetry
  \/ DrawBootMenu \/ BootMenuEntry

\* The loops run and the clock goes on without anybody at the pad; a person
\* need not do anything.
Fairness ==
  /\ WF_vars(Tick) /\ WF_vars(IconTurn("none", FALSE)) /\ WF_vars(TextTurn("none"))
  /\ WF_vars(CdCheck) /\ WF_vars(CdRetry)
  /\ WF_vars(DrawBootMenu) /\ WF_vars(BootMenuEntry)

Spec == Init /\ [][Next]_vars /\ Fairness

-----------------------------------------------------------------------------
(* Properties *)

MenuType ==
  {m \in [kind : {"boot", "web", "advanced", "tools"}, items : Nat \ {0},
          first : Nat \ {0}, sel : Nat \ {0}, clock : 1 .. TimeWait + 1] :
     m.sel <= m.items /\ m.first <= m.items}

TypeOK ==
  /\ console \in Consoles /\ disc \in Discs /\ tray \in {"closed", "open"}
  /\ selected \in 1 .. Len(Icons) /\ firstVisible \in 1 .. Len(Icons)
  /\ temp \in 0 .. TimeWait + 1 /\ clock \in 1 .. TimeWait + 1
  /\ timedOut \in BOOLEAN
  /\ at \in Choosing \cup {"text", "drawing", "loading"} \cup Gone
  /\ config \in [kind : {"none", "cd", "fatx", "native"}, medium : Media, entry : Nat \ {0}]
  /\ menus \in Seq(MenuType)
  /\ auto \in BOOLEAN /\ steered \in BOOLEAN /\ touched \in BOOLEAN /\ unread \in BOOLEAN
  /\ meant \in Nat \ {0}

\* ParseConfig, DrawBootMenu and the loaders together: when Linux is started,
\* kernel, initrd and command line are those that the chosen section of the
\* file names, or of the default section when nobody chose; no file of
\* another section.  Two cases have no answer: a CD without one of the files
\* and a FATX partition that no longer opens, which are started all the same.
BootsChosenEntry ==
  at = "linux" /\ ~unread =>
    LET ls == config.medium.lines IN
    /\ mem.kernel = Says(ls, meant, "kernel", NoFile)
    /\ mem.initrd = Says(ls, meant, "initrd", NoFile)
    /\ OneAppend(ls, meant) => mem.append = Says(ls, meant, "append", <<>>)

\* Text menus are open where a text menu runs, and none before an icon has
\* led to one.
MenusFit ==
  /\ at \in Choosing \cup {"drawing"} => menus = <<>>
  /\ at = "text" => menus # <<>>

\* Once the icons were moved by hand, the shared time-out is off wherever the
\* icon menu runs or can be come back to without a text menu.
SteeredOff == steered /\ at \in Choosing => temp = 0

\* A boot menu has an item for every entry of the medium chosen, and the entry
\* that is being loaded is the section meant.
EntryFits ==
  /\ \A i \in DOMAIN menus :
        menus[i].kind = "boot" => menus[i].items = Len(config.medium.parsed.entries)
  /\ at = "loading" => /\ config.entry = meant
                       /\ meant \in 1 .. Len(config.medium.parsed.entries)

\* The inductive invariant of the menus.
BootInv == TypeOK /\ MenusFit /\ SteeredOff /\ EntryFits /\ BootsChosenEntry

\* IconMenu, "If anybody has toggled the xpad left/right, disable the timeout":
\* from then on no icon is ever chosen by time, although the text menus in
\* between start and stop the same time-out for themselves.
SteeredStaysManual ==
  [][steered' /\ at = "icons" /\ at' # "icons" => ~auto']_vars

\* IconMenu, TextMenu: once the selected icon or item is on the screen, no
\* sequence of moves takes it off.
SelectionStaysShown ==
  [][/\ Shown([first |-> firstVisible, sel |-> selected], Bays) =>
          Shown([first |-> firstVisible, sel |-> selected], Bays)'
     /\ Len(menus) = Len(menus') =>
          \A i \in DOMAIN menus : Shown(menus[i], Rows) => Shown(menus'[i], Rows)]_vars

\* IconMenu, DrawBootMenu: with nobody at the pad the console boots, or is
\* left waiting for a disc or in the network, and does not stay in a menu.
UnattendedLeavesMenu ==
  <>(touched \/ at \in Gone \cup {"cdopen"})

\* IconMenu.h, on timedOut: "If this is set, the menu item was chosen
\* automatically, due to timeout".
TimedOutMeansAutomatic == timedOut /\ at # "icons" => auto
=============================================================================
