# Verification of tr69hostif

tr69hostif is the daemon of an RDK device that answers get and set requests
on the TR-181 data model, for RFC (the remote feature control scripts),
WebPA (the cloud, through Parodus), SNMP, rbus, JSON and IARM clients. This
directory holds TLA+ models of the parts of it that keep state, the TLC runs
that check them and the TLAPS proofs about them. Paths below are relative to
`src/src/hostif` of the repository.

## What is modelled

| component | code | modules | state of the work |
|---|---|---|---|
| bootstrap store | `profiles/DeviceInfo/XrdkCentralComBSStore.cpp`, `XrdkCentralComBSStoreJournal.cpp` | `BSStore`, `BSPolicy`, `MCBSStore`, `BSStoreProofs` | modelled, checked, proved |
| RFC store | `profiles/DeviceInfo/XrdkCentralComRFCStore.cpp`, part of `XrdkCentralComRFC.cpp`, `src/IniFile.cpp` | `RFCStore`, `MCRFCStore`, `RFCStoreProofs` | modelled, checked, proved |
| table events | `handlers/src/hostIf_updateHandler.cpp`, `checkForUpdates` of the profile handlers | `TableEvents`, `MCTableEvents`, `TableEventsProofs` | events modelled, checked, proved |
| notifications | `handlers/src/hostIf_NotificationHandler.cpp`, `parodusClient/pal/libpd.cpp`, part of `webpa_adapter.cpp` | `Notifications`, `MCNotifications`, `NotificationsProofs` | the queue, the attempts and the Parodus thread modelled, checked, proved |
| start and shutdown | `src/hostIf_main.cpp`, parts of `httpserver/src/http_server.cpp`, `libpd.cpp`, `hostIf_jsonReqHandlerThread.cpp` | `HostIfMain`, `MCHostIfMain`, end of `RequestsProofs` | modelled, checked, proved |
| locks of the dispatch and the profiles | `handlers/src/hostIf_*_ReqHandler.cpp`, `hostIf_msgHandler.cpp`, `getLock` of the profiles | `LockPaths`, `ProfileLocks`, `MCProfileLocks`, `ProfileLocksProofs` | modelled, checked, proved |
| device profiles: getters and value changes | `profiles/*/*.cpp`, `checkForUpdates` of the handlers | `ProfileGetters`, `MediaGetters`, `WirelessGetters`, `StorageGetters`, `ProfileVisits`, `ProfileValues`, `MCProfileValues`, `ProfileValuesProofs` | getters modelled, checked, proved |
| requests: dispatch table, WebPA adapter, HTTP server, JSON, IARM, rbus | `handlers/src/hostIf_msgHandler.cpp`, `parodusClient/pal/webpa_*.cpp`, `httpserver/src`, `hostIf_rbus_Dml_Provider.cpp`, `hostIf_jsonReqHandlerThread.cpp` | `ManagerTable`, `Parameters`, `Requests`, `MCRequests`, `RequestsProofs` | gets and sets modelled, checked, proved |
| web configuration | `webconfig_lite/webconfig_lite.cpp` | `WebConfig`, `MCWebConfig`, `WebConfigProofs` | modelled, checked, proved |

## Inventory

**Bootstrap store** (`XBSStore`, `XBSStoreJournal`). State: the cache
`m_dict`, the bootstrap `.ini` file, the journal in memory and its file, the
flags `m_initDone` and `m_rfcUpdateInProgress`, a recursive mutex.
Operations: `getValue`, `overrideValue`, `setRawValue`, `call_loadJson`,
ClearDB and ClearDBEnd (`clearRfcValues`, `rfcUpdateEnd`), `init` and
`loadFromJson`, and a detached thread that asks the authentication service
for the partner id and, when it changes, empties both stores and reloads
them. Called from `Device_DeviceInfo.cpp`. Hard: some operations take the
mutex and some do not; two files written one after the other; three owners
(firmware, RFC, WebPA) with an order among them. Correct when only WebPA
takes a parameter from WebPA, an RFC run reverts exactly the RFC values that
were not sent again, and a restart loses nothing.

**RFC store** (`XRFCStore`). State: the caches `m_dict`, `m_local_dict`,
`m_nonpersist_dict`, a file for each, `m_initDone`, `m_updateInProgress`;
beside it the legacy `XRFCStorage`, which reads the main file once and
rewrites it from its own map. Operations: `setValue` from RFC and WebPA,
`clearValue` (ClearParam), `clearAll` (ClearDB), `reloadCache` (ClearDBEnd),
`getValue`. No lock of its own: gets and sets take turns under the lock of
`hostIf_DeviceInfo`. Hard: a run is many requests, between which a get may
reload the caches; writes and loads that fail. Correct when
after ClearDBEnd readers see what the run sent, above what WebPA set.

**Table events** (`updateHandler`). State: one counter per table of the data
model, a stop flag. A thread visits all tables every minute and broadcasts
add and remove events; RegisterForEvents, over IARM, sets the counters back.
Hard: resets run beside the visit, with or without its lock. Correct when a
listener is told of every entry there is.

**Message dispatch** (`hostIf_msgHandler.cpp`). State: the table from
parameter prefix to manager, read from a file at start; `get_handler_mutex`
and `set_handler_mutex`. Operations: get, set, get and set attributes.
Correct when a request reaches the manager the file names, sets are serial
and gets are serial, and both may run together. The stores below assume just
that.

**Notifications and Parodus client** (`hostIf_NotificationHandler.cpp`,
`parodusClient/pal/libpd.cpp`). State: an asynchronous queue, a callback, the
connection, the exit flag. Any thread pushes and then pops in the callback
and sends, with up to four attempts and growing pauses; the Parodus thread
connects, receives and answers. Correct when each notification is sent at
most once, none stays in the queue, and a stop ends the thread.

**WebPA adapter** (`parodusClient/pal/webpa_adapter.cpp`,
`webpa_parameter.cpp`, `webpa_attribute.cpp`). Wildcards and several
parameters in one request, a reboot reason stored on the way, notification
attributes. Correct when a request that is refused leaves nothing behind.

**HTTP server** (`httpserver/`). The local server RFC uses: each request is
checked against the caller and the data model and goes to the dispatch with
its requestor. Sets of an RFC run arrive here.

**Start and shutdown** (`src/hostIf_main.cpp`). Starts the threads, waits for
the HTTP server, writes the ready file; a signal wakes a shutdown thread that
stops the others and destroys the manager table. Hard: requests under way.

**Profile instances** (`profiles/*`). Tables from instance number to object,
made on first use and destroyed on close, and previous values of a parameter
for value-change events. A lock each, made by the first `getLock`, which is
not recursive; the dispatch, MoCA, the processes, Bluetooth and the bootstrap
store have one more. Hard: taken by hand around every handler, with early
returns between, nested, and given back once too often in two handlers;
tables of one profile used by another without its lock. Correct when no two
threads are in the same state of a profile and no thread waits for ever.

**Device profiles** (`profiles/*`, the getters). State: of each parameter a
field for the value read last, a backup of the value a visit compares with and a
flag that there is one; instances share some of them. A get and a visit
call the same getter; a visit with a notification set tells a manager of a change.
Hard: every getter fails in its own way, some call others, and gets of clients
move the backup. Correct when no visit reports what was told already, and a
change is lost to a manager that listens only by a get of some other client.

**rbus provider and JSON thread** (`hostIf_rbus_Dml_Provider.cpp`,
`hostIf_jsonReqHandlerThread.cpp`). Adapters to the same messages: the names of
the data model are registered on rbus, and other processes' names are asked for
there. Correct when no answer this process waits for on rbus needs a mutex it
holds.

**Web configuration** (`webconfig_lite/webconfig_lite.cpp`). A thread that main
starts and never waits for: it asks the cloud for a document, sets the parameter
in it through the HTTP server and reports. State: the version it has, in a file; a
token; the counters of two loops of retries. Hard: answers of a dozen
kinds, a set that fails, a report that does not go out, a process that dies in
between. Correct when every sync ends and raises one report, and a document is
lost in silence only by a report that is dropped or a process that dies.

**Not state of their own**: the data model database (read-only after start), the
SNMP adapter and the IARM bus agent (wrappers of external libraries). They are
not modelled.

The parts meet as follows. Every front end builds a `HOSTIF_MsgData_t` and
calls the dispatch, which serialises sets and gets and calls the manager; the
DeviceInfo manager routes bootstrap parameters to the bootstrap store and RFC
ones to the RFC store. ClearDB and ClearDBEnd go to both stores. Setting the
partner id reloads the bootstrap store. The update thread and the profiles
broadcast events on IARM; the callback for them pushes notifications, which
the WebPA side sends.

## Modules and the code

### BSStore

`dict`, `ini`, `jrn`, `jfile` are the cache, its file, the journal and its
file, as functions from keys to values or records. A record keeps the
firmware value, the updated value, its source and the mark `clearRfc`, which
the file does not keep (`Persisted`). `mtx` is the holder of the recursive
mutex. `pc` says where each of three threads is: `set` (requests that change
something, serial because `hostIf_SetMsgHandler` holds its mutex), `get` and
`partner`. A step is the code between two points where the process may die or
another thread may see the state: each rewrite of a file ends one, so a
`setRawValue` is two steps (`SetRawValue` writes the cache and the `.ini`
file, `SetJournalValue` the journal).

`OverrideInit` and `OverrideBody` are separate since `init` frees the mutex
before `overrideValue` takes it. `SetPartnerId` is followed by `CallLoadJson`
and one `LoadKey` per parameter of the new section; this, ClearDB and
ClearDBEnd run without the mutex, as in the code. `ClearDBEndOpen` truncates
the file and `ClearRfcValues` writes it through the stream it opened; a file
removed in between (`iniOpen`) is not written. The uninitialised `clearRfc`
of a new default record is a choice of `NewRecords`. `Boot` empties the
memory and may start another image.

The values are opaque but for `Lower`, what `strcasecmp` compares. The `-`
the journal writes for "no value" is `Dash`, since it may reach the store.
Left out: the branch of `loadFromJson` on `m_initialUpdate`, which needs the
file to vanish between two lines of one function; JSON that does not parse;
empty values; what simultaneous use of an `unordered_map` does.

`BSPolicy` is the abstract specification: who owns each parameter, and who
the disk says owns it. `BSStore` implements it with the owner of a key being
the source of its journal record.

### RFCStore

One variable per cache, per file and per flag; `pc` is the progress of the
request under way in the thread of the sets, and `asking` that of a get of
the account id, which stores what the authentication service answers through
the legacy storage (`old` is its map). `sent` is history: what was set since
ClearDB. `ReloadCache`, `ReloadLoaded`, `ReloadMerge`, `ReloadDone` are the
points of `reloadCache` between which the process may die.
`LoadAgain` is the `init` of a get after a load that failed. ClearParam, the
legacy storage and failing writes and loads are all there at once; two more
variables of history, `behind` (a cache was not written to its file, or a file
was written beside it, since the files were last read) and `disturbed` (the main
file was not emptied by ClearDB, or was written since by others than the run), say
when the code gives up what the properties promise. Left out: the mode where only
the legacy storage is used, failures of the named semaphore,
`validate_ParamValue`, and the file that says that the first RFC run is over. A
request begins when no other is under way (`Free`), the get that asks for the
account id included, for both take the lock of `hostIf_DeviceInfo`.

### TableEvents

`saved` is the counter of a table, `actual` what the profile answers, `told`
(history) the additions less removals since the listener registered.
`Stepped` are the tables that go through `sendAddRemoveEvents` (event, then
counter, one by one), the others have a loop of their own. `Locked` are those
reset under the lock the visit holds, `Cleared` those `updateHandler::reset`
resets. Every reset is one step, so a registration interleaves with a visit.
Left out: tables inside entries, the once-only gate of the WiFi radios, the
instance a removal names (see Not modelled).

### Notifications

`pc` says where each thread is: the pushers (the thread of `updateHandler`,
and those that serve IARM and HTTP requests) and `Client`, the Parodus thread,
which notifies in its turn when it serves a set. `queues` are the queues that
constructors have made; the static `notificationQueue` is the last.
`GetInstance`, `Construct` and `Assign` are the test of `pInstance`, the
constructor and the assignment, between which another thread may do the
same. `Push` ends with the callback, which runs in the thread that pushed:
`GetNotificationQueue`, `Pop` (the first of the queue, or nothing after a
millisecond), then up to four attempts. `RetryConnect` is a turn of
`connect_parodus` with the arithmetic of its pauses; `Receive`, `Received` and
`WaitTimesOut` are the receiving loop. `parodus_cond` waits until a time of
the monotonic clock plus five seconds on a condition of the real-time clock,
so the wait is over at once: `WaitTimesOut` is always possible, and the signal
of `Stop`, which is given without the mutex, is not needed. libparodus is
external: an attempt may always fail, and succeeds only on an open connection.
Left out: the initial list of notifications, `getNotifySource`, which also
allocates lazily without a lock, and the calls of `sendNotification` by
`webconfig_lite`, in its own thread, where it is built in.

### HostIfMain

`main` is the line main has reached, `shut` that of the shutdown thread in
`exit_gracefully`; `json`, `http`, `parodus` and `monitor` are the threads of the
JSON server, of the HTTP server, of the Parodus client and of the manageable
notification, as far as main and the shutdown see them. A request (`busy`) is
begun by the Parodus thread or by the main loop, which serves both HTTP servers,
and ends by itself. Each statement that another thread may see is a step: the
manager table is freed (`FreeTable`) and then set to NULL (`ClearTable`),
`httpServerThreadDone` is read without its mutex (`CheckHttp`) and again by the
wait. `JoinParodus` does not wait for a thread that has detached itself, as glibc
does. Left out: the thread of the web configuration, which main never waits for;
`init_rbus_dml_provider`, which main calls itself before `CheckHttp`, touches
nothing that is modelled here, and has a bounded number of retries (`OpenRbus` of
`Requests`); the update thread's flag (`TableEvents`) and that of the bootstrap
store (`BSStore`), which the shutdown only sets.

### LockPaths and ProfileLocks

`LockPaths` has one definition per operation of a handler: the set of paths a
call of it may take through the locks, each a sequence of `Lock`, `Unlock` and
`Use`. What a path uses is named by the profile whose lock is there for it and
by its kind: instances (with the backups of values), counters, notifications.
Branches that make no difference to the locks and the state are one path.
`EthernetSet` has the path that gives back a lock that was not taken,
`EthernetVisit` the `continue` that gives it back inside the loop. The nested
calls are in the paths: a MoCA getter takes the lock of the device, a
bootstrap parameter the mutex of the store, a visit of IP or Bluetooth that of
`sendAddRemoveEvents`. `Requests` puts the handlers of one manager under the
locks of the dispatch: gets and sets each have one, attributes none.
`Shared` names what the code itself uses without the lock: the tables of
Ethernet, MoCA and IP, which InterfaceStack, DHCPv4 and BootStatus look into;
the RMH handle, made anew by every getter; the counters of IP and of the
processes, which are reset under one lock and counted under another; the SNMP
adapter of DeviceInfo; what `getRawValue` returns after its mutex is free;
all of WiFi.

`ProfileLocks` runs threads on these paths. `getLock` is three steps (no mutex
was found, it is made, it is locked), since nothing keeps two threads from
making one each. A lock that was made twice or is given back by a thread that
does not hold it is `spoiled`: GLib says nothing of what it excludes then, and
the model lets every thread pass it. `Stray` finds the paths that spoil a
lock, `Disciplined` asks of all others that they use what is not `Shared`
under its lock, take locks in the order of their tiers (dispatch, profile,
device or store, events), and give them back.

Left out: exceptions (one thrown in a getter is caught in
`hostIf_GetMsgHandler`, which does not give back the lock of the profile); the
early release at `hostIf_DeviceClient_ReqHandler.cpp:390`, which needs a
`getInstance` that fails; the visits of Time, STBService and XRE and the resets
of DHCPv4 and XRE, which nothing calls; `unInit`.

### ProfileGetters, MediaGetters, WirelessGetters, StorageGetters, ProfileVisits, ProfileValues

The getters are more than three hundred functions of one shape: query, keep the value
in a field, compare it with a backup, make the backup anew, answer. What
tells them apart is a table. For each parameter: how its query may fail (`fails`:
the getter refuses, answers a blank value, or answers what its field holds),
where a value comes from (`source`), what a visit is told of a change (`tells`),
which of field, backup and flag two instances share (`joint`), whose getter it
calls (`reads`) and whether it takes the instance from the message
(`named`). `ProfileGetters` has the network profiles and DeviceInfo,
`MediaGetters` the STB service and MoCA, `WirelessGetters` WiFi, the mesh
and Bluetooth, `StorageGetters` eMMC and SD card.

`ProfileVisits` says which parameters the update handler visits, and makes the
pairs that `ProfileValues` runs: two instances of a parameter for each set of
places they may share, and a parameter with the one it reads. The notify table of
MoCA is `kept`, though no getter of MoCA reports a change (they leave `pChanged`
alone). DHCPv4 is not visited: `checkForUpdates` of its handler uses a `pSetting`
it does not declare, so that a build with visits is one without it; its getters
are still at work for clients. The other tables, those of Ethernet, IP and
DeviceInfo, are `freed`: the key and the word are freed as soon as they are
inserted, so a visit may compare any name and report or not (`VisitFreed`). The
remaining profiles are never visited; the getters of WiFi, the mesh, Bluetooth,
eMMC and SD card keep no backup, so nothing is ever reported of them. Visits need
`HAVE_VALUE_CHANGE_EVENT`, an option of configure (`--enable-notification`).

`ProfileValues` has a device that changes at any time (`Change`), gets of
clients (`Handle`), visits and the set of a notification. Three variables are
history: `told`, the value given last to a client or to a visit; `seen`, what the
last visit found, until a client gets the value; `report`, the parameter the last
step found changed. A get makes the backup anew and tells its caller only, so it
takes a change from the visits; `UntoldWasGot` says that nothing else does.

Left out: comparisons cut at 16 or 64 characters; see Not modelled for the rest.

### ManagerTable, Parameters, Requests

`ManagerTable` is the file of managers, cut to the lines whose prefixes meet, and
twelve names, one for each way the program treats a name. `HostIf_GetMgr` takes
the first key of a hash table that is a prefix, so a table is any choice among
those that match (`Tables`).

`Requests` serves requests in four threads: Parodus, the main loop (HTTP and
JSON), IARM and rbus. `Arrive` is a front end taking a request. `Reason` is
the reboot reason WebPA stores before it has looked at the items, `Validate` its
checks, `Refuse` an item a front end turns down itself, `Variable` the RFC
variables of the HTTP server, `Post` a name that belongs to another process.
`Enter` takes the mutex of gets or that of sets, `HandleSet` and `HandleGet` are
the managers down to the store, `Forward` the telemetry manager, which asks
on rbus with the mutex held, `BusAnswer` the answer, which this process gives itself
for a name it registered. `requestor` and `bsUpdate` are what each front end
writes into the message; they decide between the bootstrap and the RFC store.
`OpenRbus` is the loop of `init_rbus_dml_provider`. `Expand` makes a get of a
wildcard one for each child, for WebPA and HTTP; JSON never does. Of a get that
failed rbus answers the default of the data model as a success, and an error
only where there is none (`Told`).

`last` (history) is the value last kept for a name, whoever set it, and `astray`
the bootstrap parameters whose last value came over IARM: that set goes to the RFC
store, and is a success, while gets of WebPA, HTTP and IARM look in the bootstrap
store and answer the older value until WebPA or HTTP set it again. Gets over rbus
and JSON and those of a wildcard look in the RFC store in any case. `Reaches` says
which readers look where the value is, and `ReadsLast` is stated of them.

A store keeps a value or fails, which is what `BSStore` and `RFCStore` do outside
an RFC run with one more abstraction: values do not differ by case only. The data
model is always there, as `ServedWithModel` of `HostIfMain` shows.

`Parameters` is the abstract specification: a thread takes a request, serves its
items one after another, each in one step, and replies when each has an outcome; a
WebPA set that is not well formed is refused as a whole. It says what a get may
answer, which parameter a set changes, whose it is then, and what the client is
told of it; managers, their table, mutexes and the bus are not there.
`Requests` implements it (`ServiceSpec`), the value of a parameter being that in
the store its set goes to (`current`). The three kinds of name whose set answers
something else (`Unsure`) and the readers that look aside are part of it, as of the
code.

### WebConfig

`pc` is the stage of a turn: the address (`Turn`), the token (`getAuthToken`,
`createNewAuthToken`), the request (`requestWebConfigData`), its answer
(`HandleFinal`, `HandleQuiet`, `HandleOther`, `HandleError`), the document
(`parseJsonData`, `setRFCParameter`, `HandleDocument`), the pause (`Backoff`). The
version goes to its file before the set, as in the code. `Publish` gives the cloud
another document, `Restart` ends the process anywhere and starts it again; where
the status of the set is logged with `%s`, which may end the process too, it is
the same `Restart`. `addWebConfigNotifyMsg` raises a report (`reports`), which
goes out or is dropped (`sent`): `sendNotification` gives up after four attempts,
whether or not the connection to Parodus was ever made. `dropped` holds the
versions whose report of a failed set did not go out. Versions are opaque and none
is the beginning of another. The cloud, the scripts and libparodus are external:
any answer may come, but a 304 and a 200 tell the truth about the version. The
file uses a macro, `BLE_DETECTION_WEBCFG_ENDPOINT` (`webconfig_lite.cpp:424`),
that neither it nor a header it includes defines; the model is of a build that
supplies it, and the address it is part of is abstracted.

## Runs

| run | instance | what it shows |
|---|---|---|
| `bs_steps` | 2 parameters, 3 values (two alike but for case), 2 partners, 1 image, a JSON of the device | at rest memory and files agree (`FilesMatch`); marks only inside a run (`NoStaleMarks`); cache and journal agree on every override (`OverridesAgree`) |
| `bs_power` | 1 parameter, I/O errors, crashes, torn files | only WebPA takes from WebPA (`PolicySpec`); no RFC run reverts a WebPA value (`MarkedNotWebPa`); every override known in memory is in the journal's file (`OverridesSaved`); every value answered is in the `.ini` file (`CacheSaved`) |
| `bs_live` | 1 parameter, 1 value, 2 images, the second without the default | every request ends, over restarts and changes of image, and so does a reload of the partner thread (`RequestsEnd`) |
| `bs_partner` | as `bs_steps`, 2 values | violation: `NewPartnerLoaded` |
| `rfc` | account id, 1 other with a default, 1 non-persistent, 2 values; failing writes and loads, ClearParam, legacy storage, restarts | outside a run caches and files agree (`FilesMatch`); an undisturbed run delivers what it sent, above what WebPA set (`RunOutcome`); no run loses what WebPA set (`LocalMerged`) |
| `table_live` | Ethernet and Bluetooth, up to 2 entries, numbers that cannot be read | between visits the counter is what a listener was told (`Rebroadcast`); once the entries settle it is told of all (`CatchesUp`) |
| `notify` | 2 pushers, the Parodus thread, 2 notifications | none lost or doubled (`OnePlace`); none left in the queue (`Drained`); every thread comes back (`PushEnds`); a connected Parodus thread hears a stop (`StopHeard`) |
| `main` | 1 signal, 2 polls of the start time file, 1 touch of it | types (`MainTypeOK`); requests of WebPA and HTTP only with a data model (`ServedWithModel`); the start ends (`StartEnds`); a signal that finds the main loop ends the process (`SignalExits`); the manageable notification is sent (`ManageableSent`) |
| `locks` | 2 threads of requests, the visiting thread; 9 scopes of profiles that use each other's state | the paths are disciplined (`TypeOK`); no two threads in the same guarded state (`Apart`); always a thread that does not wait (`NoDeadlock`); locks taken in the order of the tiers (`InOrder`) |
| `values` | every pair of parameters that share something or read each other, 2 values | no visit finds a change of the value given last (`ReportsChange`); one is silent about a change since the visit before only when a client got the value (`UntoldWasGot`) |
| `requests` | 16 requests of the five front ends, 2 at a time; 1 attempt more for rbus | success told of a set means all of it was done (`AnswerTells`); a set refused at the door changes nothing (`RefusedUntouched`); a get gives the value last kept to every reader that looks where it is (`ReadsLast`); every name has a manager in any order of the table (`Served`); no circle over the mutexes and rbus (`NoCircle`); bootstrap values change for WebPA and RFC only (`BootOwned`); items are served one by one, in one step each, as in `Parameters` (`ServiceSpec`) |
| `webconfig` | 3 documents, 2 retries, 1 wait more for the token, 1 restart | types; one report is raised (`ToldOnce`); a document is lost in silence only by a process that dies or a report that is dropped (`LossTold`); every sync ends (`SyncEnds`) |

The type invariants of the stores, the table events, the notifications, the
requests and the values are proved (see Proofs) and not run again.

Why the bounds are enough. The partner id is itself a key of the bootstrap
store, so one parameter more makes two keys and two make three; the loop over
a JSON section needs two to be caught in the middle, and that is `bs_steps`. It has
one image: a change of image is in `bs_live`, and in the theorems for the
properties of `bs_steps`.
Ownership does not depend on the value, so `bs_power` has one value for the
parameter and two for the partner id. Two partners are a change and a change
back. In `rfc` two values are enough, since the store only compares them, and one
must be the unknown account id; that a value differs by its case only is in
`bs_steps` and in the proofs. Requests are not bounded: each thread may serve any
number. A table of at most two entries goes from none to two and back, the
loops turning twice. Two notifications let one thread take another's while a
third is in between; the safety properties are proved for any number.
One signal is all the shutdown thread serves; two polls are one that finds no
file and a last one. In `locks` a behaviour stays in one scope: profiles of different
scopes share no state but that of WiFi, Bluetooth and the bootstrap store,
whose locks are in every scope that reaches them, and the tiers forbid circles
across scopes, which the proof shows for all of them at once. In `values` two
parameters are enough, because a getter shares state with one other at a time,
and two values, because getters only compare; the proofs hold for any. In
`requests` two at a time are enough for two mutexes, and three at a time pass as
well; a request of each front end has every class of name it may send, and the
items are enough for one that is done before one that is refused. In `webconfig` two
retries are a turn that is not the last and one that is, three documents are a
version to have, one to get and one to get next, and one restart falls
anywhere in the sync. Nothing else is bounded.

`notify` does not check for deadlock, since a stopped process whose notifications
are all raised stands still; nor do `main`, where a process that had its one
signal too early does, and `webconfig`, whose thread ends. Nor does `locks`,
because a thread may stand still between two calls; `NoDeadlock` says what
matters.

What the violation shows. `bs_partner`: ClearDBEnd truncates the `.ini` file
without the mutex; when the partner thread reloads the store from it just
then, it finds no partner id, its load fails, and RFC is asked to apply its
overrides "to the new partner configuration" on an empty store.

## Seen while modelling

What the code does where nothing in the repository says otherwise, or where the
properties stop; without a run.

*Stores.* An override of a parameter without a default makes a journal record
with firmware value `-`, and a later ClearDBEnd stores the `-`. A crash between
the `.ini` file and the journal leaves the override served and recorded as a
default; one between the removal of the two files at a change of partner leaves
records without values. A ClearParam in the middle of an RFC run writes the
cache, still the old configuration, over the main file
(`XrdkCentralComRFCStore.cpp:224`); so does the legacy storage, and `RunOutcome`
excludes both. ClearDB empties the file of the non-persistent parameters but
not their cache, so the next one set brings the old ones back. The account id
is stored where the next get does not look.

*Events and notifications.* The WiFi reset takes no lock and may fall between an
event and its counter; the DHCPv4 counter has a reset that nothing calls. A
notification pushed into a queue that a second constructor replaces is never
sent; two notifications of one thread may arrive in the other order, when
another thread takes the first of them. A stop before the connection to Parodus
is made is not heard by its thread, for `connect_parodus` does not look at the
exit flag. A signal before the main loop runs leaves a process that never ends,
since the shutdown thread finds no loop to quit and serves no second signal. The
manageable notification may be sent twice, because the loop that polls sets
another `is_webpa_ready` than the one tested after it.

*Requests.* The set of DNSText in `x_rdk_profile.cpp:282` ignores what
`overrideValue` returns, so HTTP answers SUCCESS to an RFC set of a value WebPA
owns; sets of the telemetry manager are always OK; RFC parameters that are acted
on at once answer what became of the action, not of the store. `AnswerTells`
leaves these out (`Unsure`). Gets over rbus and JSON and those of a wildcard come
without `bsUpdate` and so read the RFC store for a bootstrap parameter that has an
RFC name, and a set over IARM keeps the value there: it is told success, and
WebPA, HTTP and IARM go on answering the older value of the bootstrap store. A
refused WebPA set has the fault in its first status only. `LastRebootReason` is
`readWrite` in `data-model-generic.xml:98` but has no case in the chain of sets,
so storing the reboot reason always fails. The line of `webConfigMgr` in
`mgrlist.conf` names no manager and keeps that of the line before. The set of a
`Device.DeviceInfo.X_RDK_SNMP` name is handled or refused as the order of the hash
decides. WebPA does not look at `readOnly`, HTTP does.

*Getters.* A statistic of an Ethernet interface calls the getter of the
interface's name without a place for the change, so a change of the name just
before is never told; so does the Interface of DHCPv4 with the names of IP, where
clients get it. A get of any client takes a change away from whoever turned
notifications on. No getter of MoCA reports one. Architecture copies its backup
over the value where a comparison is meant, so every visit reports the old
one. MoCA's Upstream and MaxNodes answer from fields that another getter fills.
BroadcastPacketsSent of IP is looked for by the name PacketsSent. WiFi: the
constructor of an SSID sets no instance number; a roaming fetch that fails
zeroes its cache, stamps it and answers OK, and the next set of one of its
fields writes the whole record back. Bluetooth: a list that cannot be fetched
is empty for the time the cache lasts. The qualification of the eMMC is taken
to be true where it cannot be read.

*Setters.* The addresses of IP may be modified only if they are static, says
`Device_IP_Interface_IPv4Address.cpp:722`; the code tests the type last read of
any address of the interface, and answers OK in any case. An IPv6 address
whose replacement is refused is gone. The Enable of an Ethernet interface is set
on interface -1. The speed test starts only if Enable was set since the process
began, though what is stored says it is on.

*Web configuration.* Of a document only the last parameter is set, with the last
value that is a string. A first request for which there is no memory ends the
sync as a success. A failed set is reported and never retried, for the cloud
answers 304 from then on; when `sendNotification` drops that report, which it may
do because the thread starts beside the one that connects to Parodus, the document
is lost in silence. The integer status of the set is logged as a string.

## Fairness

`BSStore!LiveSpec` has strong fairness for the steps a thread takes by itself
(`OwnStep`): the mutex is freed again and again by the others and a thread that
waits for it gets it in the end. The environment has none: requests need not
start, the authentication service need not answer, `RFC_SERVICE_LOCK` need not go
away, and the partner thread waits for either in a loop without a bound; only a
stop is sure to end its wait for RFC. `RequestsEnd` rather than the deadlock check
shows that no early return keeps the mutex, since a change of the service's answer
is always possible. `TableEvents!LiveSpec` has weak fairness for the thread,
strong fairness for a reset (the lock is held for an instant once a minute), and
assumes that a profile asked every minute for its number of entries does not fail
for ever. `Notifications!LiveSpec` has weak fairness for each thread and assumes
nothing of Parodus. `HostIfMain!MainLiveSpec` has weak fairness for main, for the
shutdown thread, for each thread they start and for the end of a request; that
Parodus connects, that a request or a signal comes and that the file is touched
are not assumed. Nothing makes listeners register or entries change.
`WebConfig!LiveSpec` has weak fairness for the thread, since every call it makes
comes back: curl has a time limit, and the set over HTTP is answered; nothing is
assumed of the answers.

## Proofs

All theorems hold for every value of the constants that satisfies the
module's `ConstantsAssumption`; the extra assumptions are named in the
theorem.

*BSStoreProofs.* `TypeCorrect`: types under I/O errors, crashes and power
losses. `TypeOK` alone is not inductive: a step that updates the journal
needs to know that its thread is in the middle of a `setRawValue` (`InCall`)
and that the partner thread has an answer when it uses it (`Answered`); the
invariant is the three together. `RevertSparesWebPa`: a record that is marked
is not WebPA's. Here the mark must not come back from the disk, so the
invariant adds `NoMarkSaved`. `ImplementsPolicy`: every step maps to a step of
`BSPolicy` or to a stutter. A claim is checked in one step and recorded in a
later one; `ClaimStands` says that a claim under way is still permitted when
it is recorded, because only the thread of the sets makes claims that others
could lose.

Two more hold whatever fails. `OverridesKept` (`OverridesSaved`): an override in the
journal's memory is in its file, so no restart forgets who set a parameter. It is
inductive with the invariant above, because a journal that cannot be written is not
taken over, and ClearDBEnd and a change of partner, whose file may stay behind, end
overrides. `CacheOnDisk` (`CacheSaved`): what a get answers is in the `.ini` file,
outside the step in which ClearDBEnd has emptied that file. Its invariant `CInv` is
about the partner thread removing and refilling the store while ClearDBEnd has the
file open (`Closed`): from then on the cache, the journal and every call and load
under way hold nothing but the defaults of the new partner (`OnlyGiven`), so what
ClearDBEnd reverts and writes to the removed file changes no value. These two are
what is left of `OverridesAgree` after a crash and of `FilesMatch` after a write
that failed.

The other three theorems assume `IoOutcomes = {TRUE}`: when a file cannot be opened
for writing the code leaves it behind what is in memory, and TLC finds each of the
three properties violated. `FilesFollow` (`FilesMatch`) allows crashes and power
losses, since a boot reads both files anew. Its invariant is `FInv`:
`Control` is where each thread may be and that it has the lock there, `Written` and
`Recorded` name the steps during which a file may differ from what is in memory,
and `Window` is about the one place where the lock does not help: the partner
thread removes the `.ini` file while a ClearDBEnd, without the lock, has it open,
so that what this writes is lost (`Closed`). Until the ClearDBEnd is done the
records are then all of defaults that the cache holds already (`Defaults`), and
the partner thread only adds what is not there (`Fresh`).

`MarksCleared` (`NoStaleMarks`) and `OverridesFollow` (`OverridesAgree`) are of `Spec`,
where a process stops between calls only: when it dies between the two writes
of an override, the next boot finds the new value with the old record. `OInv`
adds `Replaced`, a store that the partner thread has replaced has no
override until the thread of the sets makes one; `Backed`, the value of an
override is in the cache, or in the `.ini` file before it is loaded, and is what
its record says; `Marks`, the marks are gone when ClearDBEnd comes to its last step.
`Marks` needs `Backed`, for an override without a value is not reverted.

*RFCStoreProofs.* All hold with ClearParam, the legacy storage and whatever
writes and loads fail. `TypeCorrect`. `LocalSurvives`: no run loses a
parameter WebPA set. `RunsDeliver` (`RunOutcome`): its invariant says that
during a run which is not `disturbed` the main file is what the run has sent, and
that what any run sent of non-persistent parameters is in their file and cache.
`FilesKept` (`FilesMatch`): its invariant says the same of each stage of a reload,
unless a cache is `behind` its file.

*TableEventsProofs.* `TypeCorrect`. `ResetsTellAll`: `Rebroadcast` for any
set of tables in any order. Its invariant `Balanced` says, for a table being
visited, what is still owed between the counter and the listener.

*NotificationsProofs.* `TypeCorrect`. `QueueDrained` (`Drained`) counts the
threads that are between the push and the pop against the length of the last
queue; a thread that pops from a queue that was replaced is not counted.
`NoEarlySend`: the callback is registered only once the connection is open.
`InOnePlace` (`OnePlace`): lemma `Move` says that a notification which goes
from one of the six places to another is still in one; each step is such a
move or none. A thread's hand must be empty when it pops or notifies, which
needs `HandEmpty` and, for the Parodus thread, `ClientReady`: it has made the
handler before it serves a request. All hold however many handlers are made.

*ProfileLocksProofs.* The theorems assume `Discipline`: that every path of
every scope is `Disciplined`, which `TypeOK` of the run checks for the paths of
the handlers, and is a sequence of locks, unlocks and uses. The invariant is
that a thread holds exactly the locks its path has locked and not unlocked so
far (`HeldOwned`, `OwnedHeld`), spoiled ones aside; lemma `PassHas` says what a
step adds to them and takes from them. `Separated` (`Apart`) and `OrderAlways`
(`InOrder`) follow for any number of threads; `NeverStuck` (`NoDeadlock`)
climbs from a waiting thread to the holder of its lock, at most through four
tiers.

*ProfileValuesProofs.* `Typed`, `Reports` (`ReportsChange`), `Untold`
(`UntoldWasGot`), for any pair of parameters and any values. The invariant is the
types and `Follows`: of a getter with a backup of its own, the backup is the value
given last, and what the last visit found when no client came since. Lemmas
`HandleStep` and `VisitStep` say what a get and a visit do to the three. A getter
that another one calls, or a backup two instances share, is left out by
`OwnMemory`.

*RequestsProofs.* For requests of any number of items, any interleaving and any
order of the manager table. `AskAssumption` is what it assumes of them: a wildcard
is asked for alone and not over IARM or rbus, an IARM caller fills in a value
that fits, and only WebPA, HTTP and IARM set. The invariant `IInv` is the types;
`Exclusive`, that a thread holds a mutex exactly when it works under it; `Agree`,
that the store a value was last kept in holds it, the RFC store for a bootstrap
parameter that is `astray`; and of each thread how far it has come
(`Progress`) and what its front end has checked (`Looked`). Lemma
`TablesManaged` says that each name has its manager in every order of the table,
on which `AlwaysServed` (`Served`) rests and every step in a handler.
`NeverInCircle` (`NoCircle`): a thread that waits on rbus waits for one that
answers without that mutex. `BootAlwaysOwned` (`BootOwned`). `AlwaysReadsLast`
(`ReadsLast`) follows from `Agree` and lemma `AnswersFrom`, which says in which
store a manager looks for a reader. `AnswersTell` and `RefusedNeverTouches` need
`Reports` as well: either all items were refused and nothing touched, or each
result so far says what was done of its item. `ImplementsService`
(`ServiceSpec`): every step of a request maps to one of `Parameters` or to none. By
`AnswersFrom` what a manager finds for a reader that does not look aside is the
value of the store a set goes to (`BootCurrent`, `RfcCurrent`, `OwnCurrent`);
`SetCases` says to which store
each set goes, and that a bootstrap parameter is set in the RFC store over IARM only;
by `Progress` a thread that answers has an outcome for every item, and by `Looked` no
malformed set is served. The end of the module is
about `HostIfMain`, for any bounds (`BoundsAssumption`): `AlwaysWithModel`
(`ServedWithModel`) discharges what `Requests` takes for granted of the data
model, by `Loaded`: main is past the data model, and the Parodus thread past its
own look at it, only with it. `ProcessTypes` needs `Counted`: the polls and the
watch send the notification once each.

*WebConfigProofs.* For any documents, answers, bounds of the retries and
restarts. `Heard`: a report has been made only when the sync is `Over`, and none is
owed but for the codes that are not reported; the limit of the loop counts as the
end, for the last turn still sleeps after its report. `Stored`: the stored version
was set, failed, failed with a report that was dropped, or lost, or is the one in
hand. `Sincere`: each success reported
was set. `AlwaysToldOnce` and `AlwaysLossTold` follow.

Only model-checked: liveness (`RequestsEnd`, `CatchesUp`, `PushEnds`, `StopHeard`,
`StartEnds`, `SignalExits`, `ManageableSent`, `SyncEnds`), which the prover does
not do. Every invariant of a run that passes, and every action property and
refinement, has its theorem.

## Not modelled

- The data model database (`waldb.cpp`): lookups in XML read once, no state; the
  SNMP adapter and the IARM bus agent: wrappers of tools and of the bus; the
  diagnostics of IP: values in a file; the utilities.
- Setters of the device profiles: each passes one value to the system and keeps
  nothing. Getters that answer OK and no value, those of the capabilities, and
  what no request handler serves.
- The storage service: it does not compile where it is built in, for
  `handleGetMsg` uses a `ret` it does not declare (`Service_Storage.cpp:210`). The
  visits of DHCPv4: neither do they, for they use a `pSetting` that is not declared
  (`hostIf_DHCPv4Client_ReqHandler.cpp:327`).
- Requests for attributes beyond their locks and notify tables: the WebPA side
  casts the parameters of one to another type.
- Tables inside entries of a table (the addresses of an interface), and the
  once-only gate of the radios: the counters of the first are kept per
  instance of the outer table, whose instance numbers the model has no room for
  next to the interleavings; the second is one flag whose race is described
  among the hazards.
- The entries of the profile instances: `ProfileLocks` has one piece of state for
  each table, which is what a lock guards.
- What simultaneous use of a container without a lock does, and what reading freed
  memory does beyond choosing another value: undefined.

## Plan

1. `Requests` on the stores themselves, `BSStore` and `RFCStore`, in place of one
   value kept: their threads of sets and gets would be those that `Enter` lets in.
2. In `TableEvents` the tables inside entries, the gate of the radios and the
   instance a removal names.
3. The attributes of the WebPA side and the initial list of notifications.

## Running

    tlc -config BSStoreStep.cfg MCBSStore
    tlapm BSStoreProofs.tla
