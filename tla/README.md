# Verification of nasd

nasd is the daemon of a network storage appliance: an HTTP and WebSocket server
in Go (`src/nasweb/backend`) with a single-page interface in the browser
(`src/nasweb/frontend/src/js`).  It keeps what the user asked for in a SQLite
database and in configuration files, and brings the system to it by running
commands: mdadm, mount, useradd, smbpasswd, exportfs, systemctl, apt.  Almost
nothing in it takes a lock.  Every HTTP request runs in a goroutine of its own,
and most handlers are a sequence of reads, file writes and commands, any of
which may fail, with the next request free to start between any two of them.

This directory holds TLA+ models of those handlers, the TLC runs that check them
on small instances, and proofs, checked by TLAPS, that hold for every size: every
safety invariant and every action property that a run checks is also a theorem.  `PROJECT.json` lists the runs, the lines each definition
models, the hazards and the theorems.  All paths below are relative to
`src/nasweb`.

## 1. The system

| Component | Source | State | Operations | Talks to |
|---|---|---|---|---|
| Shares | `backend/internal/shares/shares.go`, `sharesHandlers` in `backend/internal/api/handlers.go` | table `shares`; `/etc/exports`; the Samba include; their `.tmp` files; the kernel's exports; nfs and smbd | create, update, delete, each followed by `reapply` (load the table, `ApplyNFS`, `ApplySMB`, grant access) | database, hub, systemctl, exportfs, testparm, smbcontrol |
| Hub | `backend/internal/ws/hub.go` | set of clients, broadcast queue, a queue per client | Emit, register, unregister, broadcast, the two pumps of a client | every handler that emits; the browser |
| Arrays | `backend/internal/raid/raid.go`, `raidHandlers` | superblocks, running arrays, `mdadm.conf` | Create, Stop, WipeDisk, AddDisk, RemoveDisk | mdadm, wipefs, update-initramfs, the boot |
| Filesystems | same files | filesystems on arrays, mounts, `/etc/fstab` | CreateFilesystem, MountOnly, UnmountFilesystem, WipeFilesystem, Stop | mkfs, mount, blkid, the boot |
| Accounts | `backend/internal/users/users.go`, `userHandlers`, `backend/cmd/nasctl/main.go` | table `app_users`, system users, Samba users | create, setPassword, delete; `nasctl create-admin`, which writes the table alone | database, useradd, chpasswd, smbpasswd, userdel |
| Sessions | `backend/internal/auth/auth.go`, `backend/internal/middleware/middleware.go`, `authHandlers`, `frontend/src/js/api.js`, `App` and `Login` in `app.js` | sessions in memory; the browser's cookie; per tab the user shown and the CSRF token | login, logout, me, expiry; poll | every protected handler |
| File manager | `backend/internal/filemgr/filemgr.go`, `fileHandlers`, `FilesView` in `app.js` | the tree under the root; per view path, table, progress bar | list, mkdir, rename, chmod, remove, upload | hub (progress) |
| qBittorrent | `backend/internal/qbt/*.go`, `backend/internal/api/qbt.go` | `qBittorrent.conf`, the systemd unit, the service, row `qbt_config` | configure (several steps), start, stop, browse, status | apt, systemctl, filesystems (volumes) |
| DLNA | `backend/internal/dlna/dlna.go`, `dlnaHandlers` | table `media_dirs`, `minidlna.conf`, minidlna | addDir, removeDir, rescan | database, systemctl |
| Start and migrations | `backend/internal/config/config.go`, `backend/cmd/*/main.go`, `backend/migrations`, `scripts/nasd.service` | the schema, `schema_migrations` | OpenDB, Migrate, create-admin | SQLite, systemd |
| Runner | `backend/internal/system/runner.go` | none | run a command with a timeout | everything above |
| Configuration file | `config.go` Load, `yaml.go` | values read once | Load | start |
| System management | `backend/internal/system/sysmgmt.go`, `api/admin.go` | none | logs, reboot, shutdown | systemctl |
| Console | `RaidView`, `FilesystemSection`, `SharesView`, `UsersView` and their modals in `app.js`, `api.js` | per page its lists, overlays, modal, panel; the request under way | load, show, the buttons, the answers | the API, the hub's events |
| Other views | rest of `app.js`, `i18n.js` | what each form holds | lists, dialogs, wizards | the API |

How they interact: handlers call their manager, the manager runs commands; the
database is reached through one connection (`SetMaxOpenConns(1)`), so a handler
that holds an open result stops all others; shares, arrays, uploads and DLNA
tell the hub, the hub tells the browsers, and the views load again; qBittorrent
takes its volumes from the mounted filesystems; arrays give filesystems their
device name, which may change at a boot.

What is hard, by component:

* **shares, DLNA** - a request changes the table, reads all of it, then writes
  files and reloads services.  Two requests overlap anywhere; for the shares they
  write through one temporary name; any step fails; nasd dies between two steps.
* **hub** - one loop, two goroutines per client, bounded queues that drop whatever
  does not fit, the one event that a page waits for as well, and a channel that is
  closed while others may still send.
* **arrays, filesystems** - sequences of commands on disks that other requests
  may take, places that users, fstab and the kernel spell each in its own way, files
  read and rewritten without a lock, errors that are ignored,
  and boots that happen between two requests and rename arrays.
* **accounts, qBittorrent** - one change in several stores, no rollback; a command
  line that writes one of the stores; files that are emptied before they are written.
* **sessions, FilesView** - tabs share a cookie, answers come back in any order,
  closures keep the directory that was shown when the user asked.
* **console** - a page is a copy: its lists are loaded apart and answered in any
  order, its modals and its panel keep what they were opened with, and the server
  is told to write, wipe and delete what the copy says, while other
  administrators do the same; and a list comes with 200 although some of the commands
  behind it failed.
* **migrations** - two programs migrate one database at a time.

## 2. The modules

| Module | Models | Properties |
|---|---|---|
| `Shares` (`MCShares`, `SharesProofs`) | share handlers and generators; a file is its inodes, its content whole, empty or torn | TypeOK, LoneSuccessIsApplied, DriftHasACause, TmpIsNotLive, RequestsFinish, SourceOfTruth |
| `ConfigStore` | what "source of truth" promises: files change only by being replaced, in one step, with the rendering of the table | implemented by Shares while requests do not overlap |
| `Hub` (`MCHub`, `HubProofs`) | Run, Emit, readPump, writePump | TypeOK, NoSendOnClosed, OrderedStream, GoneIsForgotten, NewsReachesEveryone |
| `LossyStream` | what a browser is promised: some of the events, once and in order | implemented by Hub |
| `Raid` (`MCRaid`, `RaidProofs`) | Create, Stop, WipeDisk, AddDisk, RemoveDisk, mdadm.conf, boots | TypeOK, MembersAreMarked, ArraysAreDisjoint, DeletedStaysDeleted, NamesArePersistent |
| `Volumes` (`MCVolumes`, `BootProofs`) | filesystems, mounts, fstab, boots | TypeOK, MountsAreListed, UnmountedStaysUnmounted |
| `People` | the users, as Accounts and Sessions both name them | extended by both |
| `Accounts` (`MCAccounts`, `AccountsProofs`) | the three stores of a user, its handlers and create-admin | TypeOK, PasswordsAgree, NoOrphans |
| `Sessions` (`AccountsProofs`) | store, middleware, login handlers and the tabs of a browser | SessionsTypeOK, ChangesAreByTheShownUser, DeadSessionIsNoticed |
| `Files` (`MCFiles`, `HubProofs`) | file manager handlers, progress events, FilesView | FilesTypeOK, LoneUploadsAreWhole, CalmViewIsUpToDate, ProgressEnds |
| `Qbt` (`MCQbt`, `QbtProofs`) | Configure, start, stop, volumes, boots | TypeOK, ConfiguredIsInForce, ConfiguredCanStart, GatedByVolumes |
| `Migrate` (`BootProofs`) | OpenDB, Migrate, create-admin, restarts | MigrateTypeOK, OnceInOrder, ReadyHasSchema, DaemonServes |
| `Dlna` (`MCDlna`, `DlnaProofs`) | DLNA handlers and minidlna.conf | TypeOK, DriftHasACause, LoneChangeIsServed |
| `App` | the frame of the page: the mounted view, lists with their loads, the request under way | extended by the three views |
| `RaidView`, `SharesView`, `UsersView` | a page each, and what its requests do to a table of the server | through Console |
| `Console` (`MCConsole`, `ConsoleProofs`) | the three pages, one mounted at a time | TypeOK, ToldIsShown, DestructionWasShown, SaveKeepsTheRest, ToggleDoesWhatItSays, AdminsRemain |

TypeOK is proved of every model, and most runs do not repeat it.  A proof module that
serves two models that do not interact (BootProofs, HubProofs, AccountsProofs)
extends both, and the second of them gives its Init, Next, Spec and TypeOK names
of its own.

### Conventions

A request is a process.  `pc[r]` is `"new"`, the step it is at, or the answer it
got; `job[r]` is what it asks for.  A step is the longest stretch of a handler in
which nothing that another actor can see is read after something else was
written: one SQL statement, one command, one system call on a file.  A request
is served once; a client that repeats is another request.  Three kinds of
variables in the models are not state of the code and are marked *history*:
`overlapped` (the requests that were not alone), `mishap` and `broken` (a cause
of drift happened), `spoilt` and `crowded`, and records such as `gone`, `stopped`,
`unlisted`, `last`, `disturbed`, `silent`.
They let a property say *when* the code promises something: nearly every handler
is correct alone and gives no promise under overlap, so "it is right unless one of
these named things happened" is the strongest true statement, and TLC checks that
nothing outside the list breaks it.

Definitions whose comment begins with *Mutant* are broken variants of the
definition they stand before.  No specification uses them; they show that
a property can fail (`PROJECT.json`, "mutants": the definition is replaced by its
variant, and TLC must find the property violated).

### Module by module

**Shares.**  A row is a share as far as the generators look at it.  `Mutate`
(create, update, delete) commits one statement, `Load` and `Scan` take and give
back the connection, then for NFS and Samba in turn `Prepare`, `OpenTmp`,
`WriteTmp`, `Rename` and the protocol's `Validate`, `Service` and `Reload`.  A
file name leads to an inode: two writers of `path+".tmp"` share one inode, and
`Overwrite` gives a torn file when one of them writes over the other.  `Crash`
kills all requests and leaves files and table as they are.  The text of a line is
the row that it renders; a malformed NFS client list is a row whose `client` is
`"bad"`.

**Hub.**  `message` and `todo` are the local variables of Run's loop.  Channels
are sequences with a capacity; a select with `default` drops.  An event has a type,
and a page acts on one type (`Follows`) and ignores the others; `due` (history) holds
the clients whose page has been sent news that it has not had yet, `crowded` those
whose news met a channel full of other types.  `Connect`,
`Leave`, `ReadFails`, `Write` and `WriterExits` are the two ends of a client.
A browser that disappears without a word is noticed by the ping, which is part
of `ReadFails` and `WriterExits`.

**Raid.**  Disks carry the UUID of an array, running arrays have members under a
name, `mdadm.conf` is a set of lines.  mdadm, wipefs and the boot are external:
they refuse a busy disk, fail for reasons of their own, and assemble at boot what
the superblocks and the lines say, an array without a line, or whose name another
has, under a foreign name.  Disks carry no filesystem of their own, so the first
check of WipeDisk (`isMounted`), which refuses such a disk, has nothing to refuse.
`unlisted` (history) holds the names whose lines nasd has removed.  The copy of mdadm.conf in the initramfs is taken to be that of the disk: a
boot before `update-initramfs` ran would see an older one.  `Mount` keeps an array
busy; the rest of filesystems is in Volumes.

**Volumes.**  A place has several texts: the one that was typed (with a slash at its
end, or a space in it), the field that is left of it in a line of fstab (`Word`), the
directory that mkdir and mount find (`Dir`), the one that systemd reads (`Place`), and
what /proc/mounts shows (`Shown`), which is what the page unmounts.  A line may lack its
type.  nasd compares texts, the kernel directories.  fstab is a sequence of lines, since
the first for a mount point counts; `AddRead`/`AddLine` and `RemoveRead`/`Truncate`/`Rewrite` are the reads and
writes of `fstabAdd` and `fstabRemove`; `Others` is what `fstabRemove` keeps.  `Boot` mounts what the lines find, on
arrays that may be late or renamed.

**Accounts.**  The password of a user is a model value in each of three stores;
`Insert`, `UpdateHash` and `Remove` are statements, `Useradd`, `Chpasswd`,
`Smbpasswd` and `Userdel` commands whose errors the handlers ignore.  `CreateAdmin`
inserts a row or resets its hash and touches neither the system nor Samba; the system
may have users before nasd comes.  A request that is alone with its user and whose steps
all work mends what was `broken`.

**Sessions.**  `wire` holds, per tab and kind of request, what is on its way there
or back.  A session's token and its CSRF token are made together and are one number.
A tab that is not in `OpenTabs` may be suspended by the browser at any point.

**Files.**  The tree maps paths to folders or inodes; uploads write chunks into an
inode they opened, which may be renamed or removed meanwhile.  `Announce` is what the hub makes of a progress event.  The entries a view
shows stand as a flag: whether they are what the directory has now (`Compare`
clears it at every step that changes the listing).  Permissions, times, downloads
and ticks are left out, and the tree has two levels.  A rename may move an entry to
another directory, and a mkdir may make the parents and then fail.  Progress events of one view
that follow each other without a "done" count as one; after a lost connection
the view's bar is not followed any more.

**Qbt.**  The request that brought a configuration stands for it.  The file, the
unit, the enabled flag, the running service and the row each name one.  `os.WriteFile`
is two steps, `OpenConfig` and `WriteConfig` (`OpenUnit`, `InstallUnit`): the first
empties the file, and a failure or the end of nasd before the second leaves it
`Empty` or `Torn`.
`systemctl stop` errors are ignored as in the code; `enable --now` on a running
service leaves it with what it read.

**Migrate.**  Each process runs Migrate's loop: `Count`, `Script`, `Record`,
`Commit`, with SQLite's single writer as `writer`; a failed or killed transaction
is undone.  systemd starts nasd again; nasctl is started by hand.

**Dlna.**  As Shares, with one file that is truncated and written in place and a
server that reads it when it is restarted.  The first file is the package's, and the
service may or may not be started at boot, which nasd does not change.

**App, RaidView, SharesView, UsersView, Console.**  Here the handlers are the
small part: what is a sequence of steps in Raid, Volumes, Shares and Accounts is
one step that succeeds, fails or fails half-way, and the detail is on the other
side of the wire.  A list is asked for, read by the server at a revision `rev`,
and shown when its answer comes; answers overtake each other and fail.  On the storage page they may
also be 200 and say less than there is (`ArrayAnswers`, `FsAnswers`); `whole` (history)
tells which.  `told` (history) is the revision at which the page was last told of a
change: its own mounting, a success of its own, an event, the end of a progress bar.
One success loads nothing, the creation of a filesystem until its Done is pressed;
`silent` (history) says that this is so now.  `view`
holds what the page keeps besides: in RaidView the overlays of failed and added
disks, the progress bars, the modal; in SharesView the modal, the panel, the error
and the loading flag; in UsersView the modal and the locks that exist nowhere
else.  A request carries, as history, the revision of the copy that it was made
from (`basis`); `sent.what` is all that it carries.  A behaviour begins on any of the
three pages and with any tables that the handlers can have written.  A page that is left is unmounted with all it keeps, and the
answers to it change nothing (`DropAnswer`).

An array that somebody else made may be on partitions: the server finds it by the
beginning of its text (`Begins`, `Holding`), the page compares whole texts.  A wipe
stops the arrays of its disk one by one and may fail before the disk is clear.

What is abstracted: disks do not come and go and are known from the start; RAID
levels are the three classes that the page tells apart; a form changes in one
place per save; a Samba user has access, none, or is not listed; squash
options, quota, sizes, groups and search are left out.  One request of the tab
is in flight at a time, although the page does not forbid a second click: two
requests of one tab are two requests, which the models of the handlers
overlap.  SharesView's server is the table, with an error after the write
for a `reapply` that failed.  `api.addDisk` and `api.removeDisk` put an encoded
`/dev/` into the path, `ValidMDDevice` refuses what the router makes of it, and so
`ServeMember` has no success.

## 3. The runs

All passing runs are exhaustive.  Counts are distinct states, times with two
workers.

| Run | Instance | Size | Shows |
|---|---|---|---|
| `shares` | 2 requests, 3 rows in both protocols | 155k, 30 s | see below |
| `hub` | 2 clients that follow a type each, 3 events, capacities 1 | 87k, 95 s | no send on a closed channel; order; leavers are forgotten; the news that a page acts on arrives, but for bursts of other types |
| `raid` | 3 requests, 3 disks, names md1, md10, md127 | 498k, 75 s | disks and arrays stay consistent under overlap; deleted arrays stay deleted |
| `volumes` | 3 requests, 2 arrays, 3 plain mount points, one with a slash, one with a space | 607k, 135 s | mounted means listed; unmounted stays so, for places with a plain text |
| `accounts` | 3 requests, 2 users, 2 passwords, create-admin, users of the system | 175k | the stores agree and there are no orphans, from the next request that is alone on |
| `sessions` | 2 tabs, 2 users, 2 logins, 2 requests in flight, losses | 188k, 65 s | changes are the shown user's; a dead session is noticed |
| `files` | 2 requests, 1 view with 2 loads, uploads of 1 and 2 chunks | 468k, 50 s | uploads are whole; calm views are right; the bar goes |
| `qbt` | 3 requests, 2 volumes | 358k, 15 s | what is configured is in force, and can start unless a writing was cut off |
| `qbt_gate` | 1 request, 1 volume | violation | the service outlives its volumes |
| `migrate` | nasd, 2 nasctl, 3 scripts, 2 faults | 20k | once and in order; nasd serves |
| `dlna` | 3 requests, 2 directories | 142k | a lone change is served |
| `console` | 1 array and 3 disks with a partition each, 1 Samba share, 1 export, 2 accounts; 2 changes, 2 loads at a time | 764k, 170 s | calm pages show what they were told of; confirmed destruction hits what was named; saves and toggles do what they say |

Why the bounds are enough.  *Requests:* an anomaly needs one request to be
overtaken by another, hence two; a third is a later one that finds what they
left, or one that undoes it.  `shares` has two because its liveness
property rules out symmetry; its safety properties are proved for any number.
*Hub:* capacity 1 makes every queue full after one event; a third event makes
the difference between dropped and late; two clients, one of which blocks, leaves
or stays, and each of which follows the type that the other ignores.  *Raid:* an array of two disks and a spare; one name that is a prefix
of another, one foreign name.  *Volumes:* a second array is what a lost or a
stale line may hit; three places, since a renamed array has a default of its
own, and either array may be asked for either of the other two, the first one also
at a place with a slash or a space.  Behind a mishap, where the properties promise
nothing, the third request is not followed; a type is missing at one place only; one
request has a text that is not plain.
*Sessions:* the second user and login are the other tab's; two requests in
flight of one tab are the least that can be answered out of order.  *Files:* two
loads race; the file of two chunks is the longer one that a shorter upload
replaces; the menu holds one change of every kind, aimed at one directory and one
name so that they meet.  *Migrate:* the script that fails when it is repeated has
others before it.  *Console:* two changes are one of this tab and one
of somebody else, or two of this tab; two loads are what it takes for one to
overtake the other (on the storage page, with its two lists and its events, only
until the second change has been made; on the shares page one load at a time).  The
storage page is not followed when one of its lists is spoilt or both leave something
out; when one does, only while nothing has changed or a request is at the server, and
with no modals but the two that destroy; with an array on partitions, not after the
last change.  Two disks make an array and the third is the spare; each
behaviour begins on one of the three pages and may leave it for a page that asks
for nothing, because the pages share no state but the server's, whose
tables are disjoint.  The disks are symmetric, the rest is too small to be.
CHECK_DEADLOCK is off where every request may have been
served and nothing is left to happen.  It is on in `shares`, where a deadlock could
be a connection that nobody gives back (that everything was served is a step
of its own, `Served`), and in `sessions` and `migrate`, which never end.

### What holds, and what the code does otherwise

* A request on the shares that was alone and answered 2xx has left files, exports
  and services as the table says, also after earlier crashes, half-written
  temporary files and overlaps.  With overlap, it may not: two requests may both
  succeed and leave a file without a row of the table, since each writes from
  the rows that it read; overlap is one of the causes that DriftHasACause names.
* The hub never sends on a closed channel, since one goroutine owns both.
* A page that waits for news of its type gets it although channels drop, since what
  fills a channel is of its type too and later than the change - unless it is of
  another: while an upload fills the channels with file.progress, a raid.status is
  lost, and the storage page waits for the next one.  `NewsReachesEveryone` names this
  (`crowded`); without the exception TLC shows it.  `hub.go:70` says that Emit "sends
  an event to all connected clients".
* A disk that belongs to a running array is never cleared, however requests
  overlap: mdadm and wipefs refuse busy disks, and the code relies on it.
* Deleting `/dev/md1` removes the line of `/dev/md10` from mdadm.conf
  (`strings.Contains`); `NamesArePersistent` names this exception.
* A deleted array stays deleted if its disks could be cleared.  The errors of
  `mdadm --zero-superblock` and `wipefs` are ignored (`raid.go:350`): where one fails on
  a disk that is free, the deletion is answered with 200 and the array is back at the
  next boot.  That is a `mishap`, of which `DeletedStaysDeleted` says nothing.
* What is mounted is listed in fstab, and what was unmounted stays so, for places and
  arrays that have one another to themselves (`Owned`, `NotShared`), under a text that
  everybody spells alike (`NamedPlainly`), and with a type.  Nothing in the code sees to
  any of that, and without each of the exceptions TLC shows the loss:
  - mounts may be stacked, of which an unmount takes one and the lines of all;
  - wiping the filesystem of `/dev/md0` while it is not mounted removes the line of
    whatever is at `/srv/nas/md0` (`raid.go:266`), so that a volume that is there now is
    not there after a boot;
  - a mount point with a space is mounted, and its line leads to what comes before the
    space (`raid.go:707`);
  - a mount without a type gets a line whose fields are in the wrong places
    (`raid.go:655`);
  - a mount point with a slash at its end, or a space, is unmounted by the text of
    `/proc/mounts`, its line is not found (`raid.go:733`), and the volume is back
    after a boot although the unmount was answered with 200.
* The passwords of a user agree, and nobody without a web account has a system
  account, as soon as one request for that user was alone and all its steps worked.
  They are parted again by a failed step, an overlap, a crash - and by the documented
  way to make the first administrator: `nasctl create-admin` writes `app_users` alone
  (`scripts/nasd-firstboot.sh:37`), so that the administrator cannot enter a share
  until the password is set once more in the interface.
* A configuration of qBittorrent that is in the row has a file and a unit.  They are
  whole unless the last writing of them failed or was killed: `os.WriteFile` empties
  the file first (`configure.go:297`, `312`), so a reconfiguration that fails on a full
  disk leaves a row that says configured, from before, and a service that cannot start.
* Nothing enables minidlna: `systemctl restart` (`dlna.go:50`) starts it now, and where
  the image has disabled it (`scripts/build-iso.sh:111`, "nasd enables them on request")
  it is gone after a boot.  `DriftHasACause` names this (`ServesTable`).
* A change is made only for the user whom the tab showed: the CSRF token, kept per
  tab, ties it to the session of that tab although the cookie is shared.
* qBittorrent is not stopped when its last volume goes: `Reconcile`, documented at
  `qbt.go:72` to do that, has no caller (`qbt_gate`).
* Two programs may migrate at a time: the write lock and the primary key of
  `schema_migrations` keep each script to one run, although the check before it
  ignores its error.
* A page that is told of a change shows it once everything has been answered, if no
  GET failed and no answer overtook a newer one.  Nothing numbers the answers: with
  overlap an older list may stay until the next reason to load.  And one success of the
  page's own is not followed by a load: a filesystem that was created (`app.js:821`) is
  shown when Done is pressed (`835`), and not at all when the dialog was closed with Esc
  while the formatting went on (`807`).
* What a confirmation names is what is wiped or deleted when the page was up to date,
  its lists left nothing out and nothing changed in between; the server checks none of
  it.  The lists do leave things out, with 200: an array whose `mdadm --detail` fails
  (`raid.go:438`), all filesystems when the arrays cannot be listed (`540`), the type of
  a filesystem when blkid fails (`562`).  Then a member disk is offered as free, a
  formatted array as empty, and a confirmed wipe stops the array that was not shown.
  An array on a partition is taken for one on the disk by the server (`raid.go:239`) and
  not by the page (`app.js:206`): its disk is offered, and the wipe stops it.
* A save or a toggle of a share changes only what the user changed, through
  the blob and the columns and back, for rows with a blob and without one.
  If the row changed since the page read it, the older row is written over
  the newer: two administrators lose each other's changes, and nothing detects it.
* That an administrator remains is a rule of the page alone: the server deletes
  the last one when told to, which happens when the copy is stale, or after
  a role was edited, an edit that the page never sends.
* Adding, failing and replacing a member disk from the page never succeeds on the
  server, while the page shows it as done.

## 4. Fairness

* `Shares`, `Qbt`: weak fairness of each request's next step: a goroutine that can
  run does, commands end (the runner kills them after 60 s), and the connection
  is granted when free.  Crashes are never forced.
* `Hub`: weak fairness of taking, discarding and offering a message, of the pumps'
  failures and writes; strong fairness of register and unregister, because Go's
  select chooses at random among ready cases, so a case that is ready again and
  again is taken.  A connected browser is assumed to read, and a dead one to be
  detected (pings, TCP).
* `Sessions`: for tabs whose script runs, strong fairness of sending the poll
  (a timer every 8 s), of its service and of its arrival: the network may lose
  requests, not all of them.  Weak fairness that nasd answers and that answers
  arrive.  Nothing is assumed of a suspended tab, of users or of expiry.
* `Migrate`: weak fairness of systemd's restart of nasd and of each process' steps;
  faults are bounded by `MaxFaults`, which says that they end.  Nobody is assumed to
  run nasctl.
* `Console`, `Dlna`, `Accounts`, `Raid`, `Volumes`, `Files` have safety properties only.

## 5. Proofs

`SharesProofs`, for any set of requests, names and rows:

* `TypeCorrect`: `Spec => []TypeOK`.
* `Invariance`: the inductive invariant `IInv` = TypeOK, TmpIsNotLive, FreshInodes,
  PhaseOrder, LoneRequest, DriftHasACause.  LoneSuccessIsApplied is not
  inductive: that a lone request's answer is right depends on what it did at each
  earlier step.  `LoneRequest` says it: a request that is alone is the only active
  one, its snapshot is the table, and what it has passed (`PastRename`,
  `PastService`, `PastExportfs`) is in place.  `FreshInodes` (an inode
  named after a request is not used before that request opens it) makes `OpenTmp`
  safe; `PhaseOrder` ties steps to protocols.
* `LoneSuccess`, `DriftCause`, `TmpNeverLive`: the invariants of the run `shares`.
* `SerialRefinement`: `Spec => SourceOfTruth`, the refinement of ConfigStore for as
  long as requests do not overlap: only `Mutate` is a Commit, only `Rename` is an
  Install, every other step stutters.

`HubProofs`, for any number of clients and events, any types and any capacities:

* `Invariance`: TypeOK, NoSendOnClosed, IdleIsDone (between two messages nobody is
  left to offer one to) and ReaderOrder (a channel is closed by the last act
  of its reader, so a client that registers has never been closed before).
  NoSendOnClosed is not inductive without ReaderOrder: the registration of a
  client that had left would bring a closed channel back among the clients.
* `TypeCorrect`, `NeverSendsOnClosed`.
* `OrderIsKept`: `FirstInFirstOut`, the invariant behind the refinement.  An event
  goes through Hub.broadcast, Run's hand (`message`), client.send and the browser;
  at each place what is nearer to the browser was emitted earlier, and a client that
  Run has still to serve was given nothing as late as the event in hand.  The order
  of `received` alone is not inductive: it rests on what waits in both channels.
* `Refinement`: `Spec => OrderedStream`, the hub implements LossyStream: `Emit` is
  Emit, `Write` to a browser that is there is Deliver, every other step stutters.

and of Files, for any views, requests, names, menus of changes, sizes and numbers of
chunks and loads (the tree keeps its two levels, an upload its one or two files):

* `FilesInvariance`, of four parts.
  - `FilesTyped`: the types; at each step of a request what it has open, and which of
    its parts it is at (`Doing`); and the shape of the tree, every entry of which is in
    a folder (`TreeShape`).  Rename moves a whole subtree, and needs what cutting a
    prefix off a path and putting another there makes of it (`SubSeqAppend`,
    `UnderAppend`).
  - `UploadsInv`: an inode that is in the tree or open comes from a part that was
    opened (`InodesUsed`), so that the next part finds its own unused; who has a file
    open that was not mixed has it alone, and the file holds what it wrote
    (`OpenAlone`); any other holds data of one part only, and all of it if this
    part was saved (`FilesWhole`).
  - `BarsEnd`: the bar that a view will show when the events on their way have
    arrived (`BarAhead`) is shown only while something is written.  The bar itself
    says nothing as long as events are on their way.
  - `CalmViews`: a view that is not disturbed shows its directory as it is, or
    loads it, as the only one, while nobody changes anything, or waits for the answer to
    its only request.  The answer to a request starts a load if it is a success and
    none if it is an error; so it is part of the invariant that a rename or a
    chmod that fails has changed nothing.  A mkdir that fails may have made parents:
    it counts among the changes that disturb a view.
* `FilesTypeCorrect`, `UploadsAreWhole`, `NoBarIsLeft`, `CalmViewShows`: the
  four invariants of the run `files`.

`RaidProofs`, for any disks, names (with any pairs of prefixes) and requests:

* `Invariance`: TypeOK, RequestsHoldTheirKind (what `local`, `job` and the step of a
  request can be together), MembersAreMarked, ArraysAreDisjoint and
  IdentitiesAreUsed (who gives its identity to an array has not given it
  before).  The two properties need each other: an array that is assembled at boot has
  its disks to itself because each carries one superblock, and a superblock may be
  cleared because no array holds the disk.  No step is excluded for overlaps,
  failures or boots.
* `TypeCorrect`, `MembersStayMarked`, `ArraysStayDisjoint`.
* `UndisturbedInvariance`: what holds, besides, as long as there was no mishap.
  Requests are then served one at a time (Serial).  `Deletions` says how far a
  deletion is: before it stops the array it holds all its disks, afterwards the array
  runs nowhere and its superblock is only on disks that are still to be cleared.
  That needs `Complete` (who carries the superblock of a running array is in it),
  which is what the removal of a member ends.  `Listed` says it of names: an array
  that runs under a name of nasd has its line, or lost it to a name that shadows its
  own (`unlisted`), or the one request that is served is between the two; and what
  that request has read of mdadm.conf is still what is there (`Writing`).  Neither
  property is inductive, because both speak of moments at which nothing is under way.
* `DeletionsLast`, `NamesLast`: DeletedStaysDeleted and NamesArePersistent.

`BootProofs`, of Migrate, for any number of processes, scripts and faults and any set of
scripts that cannot be repeated:

* `MigrateInvariance`: MigrateTypeOK, OnceInOrder, LockHeld (who runs a transaction holds the
  lock), CommitIsNew (the primary key was checked), SeenRecorded (a process
  passed only what is recorded), ReadyHasSchema.
* `MigratesOnceInOrder`, `ServesOnSchema`.

and of Volumes, for any arrays, names, places, requests and targets:

* `VolumesInvariance`.  In all cases: types and what a request can hold at each step
  (`Typed`), and that a filesystem is the one of the request that made it
  (`MadeBy`).  Without a mishap, `AsAsked`: requests are served one at a time, what is
  mounted and what is listed was asked for by somebody, and what a request has
  read of fstab is still there; and of each mount and each place by itself (`InOrder`):
  a mount that is `Owned` has a line that leads to it, or the request that mounted it is
  about to add one, or the file is between truncation and rewriting, where the lines
  that will be written back have one (`Listed`, `Freed`); a place that was unmounted,
  named plainly and not shared (`Solo`), is in no mount, in no line and in no such copy
  (`Vacant`).  Owned and Solo speak of all jobs asked for so far, so a job that
  breaks them ends the promise for its place, and `AsAsked` is what carries a mount or a
  line back to the job behind it.  For a place that is named plainly nasd's comparison of
  texts is the kernel's of directories, and only for such a place.
* `VolumesTypeCorrect`, `MountsListed`, `UnmountedStays`.
* What fstabRemove keeps, `Others`, is a recursive function over the lines
  (`SelectSeq`, the obvious operator for it, has a definition that the provers
  cannot expand).  `OthersKept` proves that it keeps exactly the lines with another
  text.  The library's induction takes an operator as a parameter; here it is
  replaced by a least counterexample (`Least`, from the well-foundedness of inclusion
  among finite sets), from which `Induction` follows for sets of numbers.
* Volumes assumes that a UUID is not the name of a device.

`AccountsProofs`, for any requests, users and passwords:

* `Invariance`: TypeOK; HasJob and Alone (two requests of one user spoil each other and
  break the user); Settled (a user outside `broken` whom nobody serves has three equal
  passwords, or none and no system account); OnTheWay, in two parts.  `Progress` says
  for each step of create, setPassword and delete which stores a request that is not
  spoilt has reached, whatever was in them before: that is why its last step mends a
  user that create-admin, the system or a failure had broken.  `Kept` says what a
  request of an unbroken user may rely on besides.  Every step of a job disturbs the
  agreement, so the invariant must know how far the job is.
* `TypeCorrect`, `StoresAgree`, `NoAccountIsLeft`.

and of Sessions, for any tabs, users and logins:

* `SessionsInvariance`: SessionsTypeOK, and what a token vouches for wherever it is:
  it was issued, and its session, while it lives, is of the user who is named with it
  (`Vouches`).  In the cookie nobody is named; in a tab it is the user whom the tab
  shows (`Shows`); in a request or a response (`Honest`), the user whom the tab showed
  when it asked, or whom nasd answered with.  The property speaks of the step that
  makes a change; without `Honest` for what is on its way nothing would tie the
  token that arrives there to the user who was shown.
* `SessionsTypeCorrect`, `ChangesAreOwn`.

`ConsoleProofs`, for any arrays, disks, shares, clients and accounts, any bounds
and any tables that the behaviour starts with:

* `ConsoleInvariance`.  Of each list (`ListOK`): a load will bring something as new as
  `told`, or it is shown, or the list is spoilt (`Arrives`), or a filesystem was created
  since the last load (`Silent`); and what an answer says (`Valid`) - as of the current
  revision, if it leaves nothing out, the truth; as of an older one, that a row
  which was not written since is what was read and that a role never changes except
  by deletion.  Of a request on its way (`Backed`) and of a modal: that it was made
  from such a copy, so that, if its basis is the current revision, what the
  confirmation named is so; a save differs from its row in one part only
  (`OneChange`); a deleted account leaves an administrator (`NotTheLast`).  Of
  the panel (`PanelAgrees`): if it was opened while all was calm it shows what the list
  shows.  Each property speaks of the step in which the server acts, long after the page
  was read, so the invariant has to follow the copy on its way: list, modal,
  request.
* `ConsoleTypeCorrect`, and `ToldLasts`, `OnlyWhatWasShown`, `AdminsStay`,
  `TogglesDoWhatTheySay`, `SavesKeepTheRest`: the properties of the run `console`.  The
  last rests on three lemmas about forms: a form is written as what it says
  (`WrittenPart`), a row is read as what it serves (`ReadPart`), with a blob or without,
  and an edit of one part leaves the others (`EditedPart`).
* `ConsoleAssumption` says that the disks are finite, that no answer and no form is the
  null that stands for none, that the pattern `*` is a client and the empty one
  is none.

`QbtProofs`, for any requests and volumes:

* `Invariance`: TypeOK, ConfigureTakesThem, StepsAreKept (that there is a file,
  a unit and an autostart is never taken back, so what a step relies on stays, whoever
  overlaps), LastHasTouched, and AloneIsInForce: without a mishap the request to configure
  is alone, the service is down from its `Halt` to its `Launch` and each file is empty
  from its opening to its writing (`Steady`), and nobody has written over the last
  configuration that succeeded (`InForce`).
* `TypeCorrect`, `ConfiguredAlwaysCanStart`, `ConfiguredStaysInForce`.

`DlnaProofs`, for any requests and directories:

* `Invariance`: TypeOK, RescanOnly, Alone, Progress (what a lone request has read,
  written and restarted at each step), Clean and InStep (with nobody at work and no
  cause, `FileIsTables` and `ServesTable`: until the first change the file is the
  package's and the table is empty; after it the file is the table, and so is what
  the server reads, unless it is off because it was not started at boot).
* `TypeCorrect`, `DriftIsCaused`, and `LoneChangesAreServed`, which is an
  action property: the step that answers a lone change finds, by Progress,
  the whole table in the file it makes minidlna read.

The proofs rest on the assumptions on constants that the modules name (that model
values differ, bounds are natural numbers, and those above) and nothing else; TLC
evaluates all of them.  Only model-checked is liveness, which needs fairness and
ENABLED: RequestsFinish, GoneIsForgotten, NewsReachesEveryone, DeadSessionIsNoticed and
DaemonServes; and GatedByVolumes, which fails.

## 6. Not modelled

* The text of configuration files, forms and messages, beyond what tells two of
  them apart.
* The configuration file's parser, logs, reboot and shutdown, SMART, disk
  lists, GrowFilesystem, the formatting of an array that no route reaches: read-only,
  sequential, or without effect on the state the properties speak of.
* Filesystems directly on a disk (WipeDisk refuses a mounted disk; the disks of
  the model carry none), and a disk whose device name is a prefix of another's in
  the run `raid` (in the model, and in the proofs, but not in the run's instance).
* Commands that are killed in the middle of their work; the models let them fail
  before their effect or succeed.
* The initramfs' copy of mdadm.conf (see Raid).
* DlnaView, QbtView with its wizard, AdminView, the SMART panel, the dialogs of
  groups (which close and do nothing) and the languages; the scrub timer; the build
  of the installation image.
* Requests of one tab that overlap on the storage, shares and users pages.

## 7. Plan

In this order:

1. Raid and Volumes as one composition, with the initramfs' copy of mdadm.conf,
   commands that fail after a part of their effect, and boots in the middle of a
   request; it replaces both runs.
2. The ticks of FilesView with delSelected.
3. DlnaView and QbtView as further pages of Console.
