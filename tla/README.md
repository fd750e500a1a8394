# Verification of the GPS connector

TLA+ specifications of the GPS connector, the configurations that model-check
them with TLC, and theorems about them that the TLA+ proof system checks. Paths
are relative to `src/`, the root of the repository.

## 1. The system

GPS trackers of municipalities (tenants, named by their CVR number) publish
positions over MQTT. Bento resolves the tenant of an IMEI, the IoT Agent writes
the position to Orion-LD, QuantumLeap copies it to CrateDB, a CronJob archives
it to MinIO. A Go API registers devices and gives access to the data, and a
Next.js frontend uses that API.

| Component | State | Operations | Interacts with |
|---|---|---|---|
| Device handlers (`api/internal/device/devices.go`) | none of its own | `POST`, `PATCH`, `DELETE`, `GET /devices` | calls the IoT Agent, Orion-LD and Redis, one after the other |
| IoT Agent client (`api/internal/iotagent`) | service groups, devices (in the agent) | make and look up a group, make devices, delete one | HTTP |
| Orion-LD client (`api/internal/orion`) | subscriptions, entities (in Orion) | make and look up a subscription; make, change, delete, list entities | HTTP |
| Ownership table (`device/store.go`) | Redis `device:<imei>` -> tenant | get, set, delete | read by the handlers, by Bento and by the broker authorisation |
| Archive exports (`api/internal/export`) | Redis `export:<tenant>:<id>`, object in MinIO | `POST /archive`, `GET /archive/<id>`, download | three goroutines, a pipe, a channel |
| Archiver (`k8s/archiver/archive.py`) | watermarks and files in MinIO | one run | reads and deletes in CrateDB while QuantumLeap inserts |
| Ingest pipeline (`bento/config.yaml`) | messages under way | normalise, resolve, publish | RabbitMQ, Redis, IoT Agent |
| Tenant certificates (`api/internal/pki`) | a Kubernetes secret per tenant | get or issue, rotate, inspect | Kubernetes API |
| Broker authorisation (`api/internal/mqauth`) | none; RabbitMQ caches its answers for 24 h | user, vhost, resource, topic | RabbitMQ, Redis |
| Live positions (`api/internal/position`, `cratedb`) | none of its own; how far the response is | stream the rows of a period | CrateDB, clients that poll |
| API server, authentication, configuration | none | routing, tokens | |
| Pages `/register` and `/overview` (`frontend/app`) | what is typed, staged, asked and shown; rows and records changed by hand | register one or many, delete, edit, import; download and rotate the certificate | hooks |
| Live map (`frontend/components/map-*.tsx`) | day, vehicle, trip, route, address, markers | select, search, change the day, draw | hooks, Mapbox |
| Frontend hooks (`frontend/hooks`) | last answer of a query, local changes | poll, abort, refresh, mark, remove | proxy |
| Frontend functions (`frontend/lib`) | none | routes from positions, IMEI lists, CSV metadata | Map Matching |
| Frontend proxy and session (`frontend/proxy.ts`, `lib/gps-proxy.ts`) | session cookie | gate, access token, forward | identity provider, API |
| Operator scripts, manifests | see `PROJECT.json` | | |

What is hard here is not in the algorithms. No two stores share a transaction,
any call may fail or lose its answer, replicas and Jobs die in the middle, and
requests, messages and runs interleave. `PROJECT.json` lists each hazard at the
line where it bites, with the properties that cover it or the reason why none
does yet.

What makes each part correct:

* devices: the three stores agree with what a response said; an IMEI passes
  from a tenant to another only through being free; whatever fails half way can
  be deleted or registered again; groups and subscriptions exist before devices
  that need them; a request cannot go round in its loops for ever;
* exports: "ready" is only said of a complete file; status only moves forward;
  a job comes to an end that the client can see;
* certificates: what a client is given is what is stored; a certificate that
  devices use is not replaced by accident;
* archiver: a row that leaves CrateDB is in a file; the watermark tells the
  truth; nothing is archived twice without a failure; rows stay in CrateDB for
  the promised time;
* pages: what they say was done was done; a table that is changed by hand
  instead of loaded anew goes on agreeing with the server; a confirmation is
  answered;
* map: what is drawn belongs to what is selected, whatever answers arrive late;
  the list of vehicles never goes back; each vehicle is on the map once; a day
  is split into trips at its stops and no move is lost between two requests;
* proxy: an answer says of the API only what is so;
* live positions: a client that polls misses no row, and one that gets no row
  can tell an error from an empty period.

## 2. Modules

| Module | What it models | Composed from |
|---|---|---|
| `Backends` | IoT Agent, Orion-LD, Redis as the Go clients see them, and the position messages that also write to Orion | |
| `DeviceOwnership` | abstract: an IMEI is claimed when free and released | |
| `DeviceHandlers` | the three handlers, one step per call, for any number of requests | extends `Backends`, implements `DeviceOwnership` |
| `DeviceHandlers_proofs`, `DeviceOwnership_proofs` | theorems | extend `DeviceHandlers` |
| `ExportJob` | `POST /archive`, `runJob`, `writeCSV`, the upload, expiry, the polling client | |
| `Archiver` | `main()` of the archiver, its Job retries, the inserts of QuantumLeap | |
| `TenantCert` | get or issue, rotate and info over a Kubernetes secret | |
| `Archiver_proofs` | theorems | extends `Archiver` |
| `PositionStream` | `GET /positions`, the rows out of CrateDB, a client that polls | |
| `Api_proofs` | theorems about exports, certificates and positions | extends `MCApi` |
| `ImeiList` | lists of IMEIs, what of them is new, invalid or double | |
| `RegisterPage` | `/register`: one IMEI or a CSV of them, both tabs at once | extends `ImeiList` |
| `OverviewPage` | `/overview`: the table and the dialogs that delete, edit and import | extends `ImeiList` |
| `CertCard` | the certificate card of both pages | |
| `ApiProxy` | sign-in, and the way of a request to the API and back | |
| `MapView` | the live map: polls, day, vehicle, route, trip, the clock | |
| `MapPanel` | the panel beside it: search, list, details, address | |
| `MapMarkers` | source, tiles, frames and the cache of markers | |
| `VehicleRoutes` | positions -> trips -> chunks -> lines, with a reference definition | |
| `Pages_proofs` | theorems about the pages and the proxy | extends `MCFrontend` |
| `MapMarkers_proofs`, `VehicleRoutes_proofs` | theorems | extend the module they are about |
| `Map_proofs` | theorems about view and panel, and of all four parts | extends `MCMap` and the two above |
| `MCDevices`, `MCApi`, `MCArchiver`, `MCFrontend`, `MCMap` | values for TLC; `MCApi` puts exports, certificates and positions side by side, the last two the parts of the frontend | |

Definitions named `Buggy...` are mutants: the definition below each of them as
a plausible mistake would have it. They belong to no specification; they show
that the properties can fail.

### Devices

`Backends` holds what the stores hold: `groups`, `agent`, `subs`, `entities`,
`metadata` (which entities carry attributes), `redis`, and `inflight`, the
messages between Bento and the IoT Agent. Each call of a Go client is one
action whose last argument is the nil-ness of the error it returns. A failed
call may have had its effect. The calls differ in what they take for success:
`CreateServiceGroup` and `CreateSubscription` treat 409 as an error,
`CreateDevices` and `CreateEntity` as success; the deletes accept 404.

`DeviceHandlers` adds the local variables of a request as functions of a
request slot. `pc` names the call that is made next; `types`, `todo` and `cur`
are what the loops have left and work on; `batch` is `toProvision`, `failed`
the keys of `failedGroups`, `result` the statuses. Go maps are iterated in any
order, so loops take any element. IMEIs within a slice are also taken in any
order, which adds behaviours and hides none. `kind` is the `device_type` a
create gives for each IMEI: any request may choose another for the same IMEI.
`failedTenants` can only hold the caller, so a failed subscription settles all
devices at once. `Crash` ends a request anywhere and keeps its effects. The
slot is free afterwards, so clients may repeat and mix requests for ever.

Two constants say what the IoT Agent, which is not in the repository, may do.
`AgentSkipsDuplicates`: a 409 to a batch stores the devices that are new.
`AgentDropsUnknown`: a message of a device the agent does not know is dropped;
if `FALSE` the agent provisions the device, when its group is there. Neither is
settled by the repository (`k8s/iot-agent/deployment.yaml` leaves the second to
the agent's default), so section 5 says what rests on which. No step is fair
here: the HTTP clients are made without `Timeout` (`iotagent.go:18`,
`orion.go:19`), and an IoT Agent or an Orion-LD that accepts a request and
never answers holds the handler for ever. What the code itself guarantees of
the end of a request is `HandlersAdvance`: every call it makes leaves it fewer
to make.

Not in the model: requests refused with 400, 401 or 403, which touch nothing,
and the wording of errors. A `conflict` is told from an `error` only to name
it.

`Overlap` says which requests in progress may name the same IMEI: none, those
of one tenant, or any. The stronger properties need the weaker concurrency, and
each run says which it uses; `devices_race` shows why "any" is not enough.

### Exports

A job is one element of `Jobs`, since jobs share nothing. `run` is the place in
`runJob`, `writer` the place in the goroutine with `writeCSV`, `uploader` that
of `PutObject`. The CSV is a number of rows; `csv.Writer` buffers `BufferRows`
of them; a write to the pipe happens together with the read (`PipeTransfer`),
as `io.Pipe` has no buffer. `total` is how many rows the archive holds for the
job. `over` says that `ExpiresAt` has passed (`TimeUp`), and `ttl` what Redis
was told of the record: to keep it until then, for a second, or for ever, which
is what the Redis client makes of an expiration that is not positive. `saveJob`
computes it, with the floor of one second for a save that comes late
(`job.go:52-55`), and `Expire`, which is Redis, drops only a record whose TTL
has run out. `RecordsExpire` therefore breaks when the floor is missing.

### Archiver

A row is an IMEI and a minute. `stored` remembers all rows that were ever
inserted, `crate` those that are in CrateDB, `files` what each Parquet object
holds. A run takes both cutoffs and the watermarks, processes its schemas in
any order, and saves the watermarks; the clock goes on between any two of its
steps and rows are inserted all the time. Runs do not overlap because the
CronJob forbids it. A run that died is retried at any moment after, in the same
minute or later: the Job's first back-off is 10 s, and file names have minutes.
Scheduled runs (`0 0,12 * * *`) are hours apart and begin in a minute without
files.

Two variables are history: `clean` says that nothing has failed so far, and
`replaced` collects the rows of a file in whose place another of the same name
was written without them (`WriteFile`). With `replaced` the properties say
exactly how much a retry in the same minute can take away, instead of assuming
that there is none.

One assumption is about things outside the code. A row is inserted at most
`MaxLate <= ArchiveAfter` after its `time_index`: a later one would come below
the watermark and be deleted unarchived, and nothing in the pipeline bounds the
delay.

### Tenant certificates

One tenant's secret and any number of requests; a tenant's secret is named
after it, so tenants share nothing. `pc` is the next call to Kubernetes or the
generation of a certificate, `tc` the Go variable of that name. Certificates
are numbers, as nothing but their identity matters to the store. `held` is a
history variable: what the secret held since a request began. The 500 of a
`Create` that finds the secret there is called "conflict" to tell it from other
errors. `GenerateFails` is also what the bound `MaxCerts` looks like.
`Handlers` says which operations the clients call: `api.cfg` all three,
`tenant_cert_race` only `getOrIssue`, so that no rotation can have a part in
what it shows.

### Live positions

`HandleGet` and `StreamPositions` serve one request, and requests share nothing
but the table, so `PositionStream` has one in progress: `at` is its place in
the code, `rest` the rows of the result that are still in the cursor, `sent`
those whose lines are in the response, `tail` what follows them (nothing, a
part of a line, the text of an error), `status` what has gone out, `lost` what
of the result is missing at the end. A row is its tracker, its `time_index` and
whether it has a position (`devicetimestamp IS NOT NULL`). `CursorFails` is an
error of `Scan` or of the cursor, `Break` the end of the server or of the
connection, which loses any part of what was in the buffers. A request asks for
a period (`AskPeriod`, which is `getPositions` of the frontend), or it is a
poll: from the latest `time_index` that was seen until now, with or without
what could be read of a broken response. `device_id` names one tracker and its
absence all of them; a poll is for the set `Watched`. Rows are stored under the
time at which they can be read, an assumption about QuantumLeap and CrateDB.

### Pages

A page is one browser's. Each action is one event: a click, an answer, a
failure or something the server does, with everything the handler and the
rendering after it change. A request is served by the server at one moment and
handled by the page at another; in between everybody else goes on. A failure
before the answer is handled covers a refusal, a broken connection and a lost
answer, so the server may have acted. What the server does is one step here
(`RegisterPage.Serve`, `OverviewPage.WriteServed` and `LoadServed`,
`CertCard.ActionServed`), mapped to the Go code it stands for; how those
handlers interleave among each other is what `DeviceHandlers` and `TenantCert`
are for.

* `RegisterPage`: `imeis` is the set `use-tenant-imeis` keeps, `post` the
  request of each tab, `staged` the tokens of the file, `records` the list
  "Registered devices" as a count per IMEI and type. The payload of the dialog
  is computed from file and set at every rendering and never stored, as in the
  code (`Payload`). `creations` (how often the server created an IMEI for this
  page), `ever` (what was registered at some moment) and `made` (what the
  partial request created) are history variables. An IMEI is an element of
  `Imeis`, anything else a token that `validateImei` refuses.
* `OverviewPage`: `rows` is what the table shows, `store` what the server
  holds, a metadata record or `Absent`; a field that is `""` in a PATCH is left
  as it is (`Merge`, from `orion.go`). The dialogs are modal, which is why
  one `write` suffices. `stale` collects the rows about which the page was not
  told the truth: those changed from outside, those an answer said `not_found`
  of, those of an answer that was an error, partial or lost. `since` is what
  changed after the server answered `GET /devices`.
* `CertCard`: certificates are numbered in the order they are issued. `saved`
  is a history variable, the last one saved to a file.
* `ApiProxy`: a request goes from the page through the gate, the token and the
  API back to the page; `acted` is what the API has done.

### The map

`MapView` has React's order of things: a handler changes the state, the page
renders, effects whose dependencies differ from those of their last run run in
their order. `Render` applies `DayEffect`, `RouteEffect` and `DrawEffect` to
what a handler leaves; `dayDeps` and `routeDeps` are the dependencies they last
ran with. The clock is apart: `today` changes at midnight without a rendering,
and `isCurrentDay` is what the last rendering made of it. The fleet is the
sequence of the server's answers, and `view.polled` says which one is shown.

`MapPanel` is given vehicles and a selection and looks up the address of the
place in the details. `MapMarkers` follows the vehicles from the page through
Mapbox, which is external: the `source` it is given, the `tiles` it makes of it
in its own time, with numbers for groups that are used again, and the `cache`
of markers that each frame brings in line with the tiles.

`VehicleRoutes` has the algorithms of `vehicle-routes.ts` on a line instead of
a sphere: `SplitIntoTrips`, `ChunkPositions`, `Stitch`, `FetchVehicleRoute`.
They are recursive functions where the code has loops, and `Picked` where it
has filters; the reference, in `TripsAreSplitAtStops` and `ChunksCover`, says
what they amount to position by position.

## 3. Runs

| Run | Question | Bounds |
|---|---|---|
| `devices_serial` | Do the stores agree with every response, does every partial failure stay repairable, and does every call bring a request nearer to its end? | 2 tenants, 2 IMEIs, 2 types, one request at a time, 1 message |
| `devices_shared` | Are shared groups and subscriptions there in time, and is ownership respected, even if the agent provisions unknown devices? | 2 requests at once, 2 tenants, 1 IMEI, 2 types, 1 message |
| `devices_race` (violation) | Is ownership respected when two tenants register an IMEI at once? | 2 requests at once, 2 tenants, 1 IMEI and type, no messages, `Overlap = "any"` |
| `devices_retry` (violation) | Is an `already_registered` device listed? | 1 request at a time, 2 tenants, 1 IMEI and type |
| `api` | Exports: is "ready" true, does status move forward, does a job end, is its record gone in the end? Certificates: are answers true of the store, and who replaces one? Positions: does a polling client miss a row, and does an empty answer mean that there are none? | 3 rows, buffer of 2; 2 requests at once, 4 certificates; 2 trackers, 3 moments, 3 rows |
| `export_stuck` (violation) | Does `runJob` end even if the upload fails? | 3 rows, buffer of 2, no crashes |
| `archiver` | Is a row lost only to a retry that replaced its file; honest watermark, no duplicates, rows stay | 2 schemas, 3 IMEIs, 5 minutes, 4 rows, archive after 1, delete after 2 |
| `archiver_retry` (violation) | Is no row lost if a retry starts in the minute of the failed run? | 1 schema and IMEI, 6 minutes, 2 rows |
| `tenant_cert_race` (violation) | Does getting a certificate ever rotate it? | 2 requests at once, all of them to get, 3 certificates |
| `frontend` | Is what the pages and the proxy say true, and is a confirmation answered? | 2 IMEIs; 2 posts or writes; 1 change from elsewhere; 3 certificates; 2 requests |
| `map` | Does the map show what is selected, each vehicle once, no old list; does loading end; are days split and joined rightly? | 2 vehicles, 3 fleets, 3 days, 2 trips, 3 polls; 3 marked vehicles and 1 group; 6 positions, chunks of 3 |
| `positions_cut` (violation) | Can a client tell from the text that rows are missing? | 1 tracker, 4 moments, 2 rows |

Why these bounds: two IMEIs and two types give a request two batches, so that
one fails while the other succeeds, or one batch of two; and one IMEI can be
registered by one tenant after another, and again under another type. Two
requests are enough for every check-then-act pair in the handlers and in `pki`,
and one IMEI suffices because the handlers treat IMEIs separately except within
a batch, which `devices_serial` covers. Three rows and a buffer of two give a
CSV that is flushed once in the middle and once at the end.

In `archiver`, two IMEIs share a schema, so that one group of its upload fails
while the other succeeds, and the third has the other schema, so that one
schema moves on while the other stays; the first two are interchangeable, hence
the symmetry. Five minutes let two runs archive, one of them delete, and
retries come in the same minute or the next. With four rows two IMEIs have rows
in consecutive intervals. `archiver_retry` needs a minute more for the row to
be old enough.

In `frontend`, two posts let both tabs be under way about one IMEI, or a bulk
post be retried after a failure; the files hold a duplicate and a bad token,
and two good ones, so that an answer can be partial. Two writes and one change
from outside let a second dialog work on what the first left. Two fields, one
required, tell a blank field of a PATCH from one that is set. Three
certificates let the card have one, rotate it, and be overtaken. In `map`,
three fleets make a vehicle vanish and come back, change between driving and
standing, and be passed by a later poll; three days give a past one, today, and
tomorrow at midnight. Three vehicles and one group number are the least with
which a group changes its members and keeps its number. Six positions and the
five moves of `MCMoves` (standing, creeping, moving, going back, a gap) give
two stops in a day, and chunks of three give trips of several chunks.

For positions, three rows and three moments let two rows share a moment, one of
them stored after the other was read, with a later row in the next poll; each
may lack a position.

A browser shows one page at a time, and what another page or an earlier visit
does to the server is among the changes from elsewhere, so `part` and `mapPart`
pick the part of a behaviour once, as `operation` does for the operations of
the API, which share no state; the parts of the map take what the others hand
them as inputs that change at any moment.

`MaxInflight`, `MaxRows` (of an export, and of the archiver), `MaxTime`,
`MaxCerts`, `MaxPosts`, `MaxElsewhere`, `MaxWrites`, `MaxOutside`, `MaxSerial`
and with it `MaxAsks`, `MaxTrips`, `MaxPolls`, `MaxPositions`, `MaxClock`,
`MaxMeasures` are the only bounds on otherwise unbounded things, and each is a
guard. `api`, the archiver runs, `frontend` and `map` do not check for
deadlock: a finished job, a clock at `MaxTime`, a page whose requests are used
up or whose list is empty may stop. The other runs do.

Fairness: in `ExportJob` the steps of the goroutines are weakly fair, since the
Go scheduler runs a goroutine that can run; so are `TimeUp`, as time passes,
and `Expire`, as Redis deletes keys whose TTL has run out. `saveJob` alone
decides whether one ever does. In `frontend` the end of the bulk post is weakly
fair, and in `map` the end of a poll, of the fetch of a day and of a route: a
browser settles every fetch, with an answer or a failure, and polls have a
timeout of 30 s (`use-devices.ts`) that is shorter than the interval of 60 s
after which the next poll would abort them. Users, midnight and the server are
not fair. The device handlers have no liveness property, as their HTTP clients
wait without a limit, nor do the archiver and the certificates: nothing in the
code bounds how often a run fails or a request is repeated.

### What the violations show

1. *Two tenants, one IMEI.* The handler checks the owner (`devices.go:128`) and
   sets it (`devices.go:170`) with a call in between, and `SET` has no `NX`.
   Both tenants get "created"; the second has the device.
2. *A half-made device.* `CreateEntity` fails after the mapping is set. The
   retry answers "already_registered" and makes no entity, so the device is
   registered and not listed until its first position arrives.
3. *A stuck export.* `PutObject` fails, nobody closes the read end of the pipe,
   the writer blocks in `pw.Write` and `runJob` in `<-rowCh`. The job stays
   "running" until its record expires.
4. *A retry within a minute.* File names have minute resolution, deletes come
   before the watermarks are saved. A retry in the same minute replaces the
   file that held the deleted rows. `LostOnlyByReplacement`, which holds, says
   that there is no other way to lose a row.
5. *A certificate replaced by a request to get it.* Two requests to get, and no
   rotation: both find no certificate (`tenant.go:139`) and both issue one. The
   second finds the secret of the first and its `Update` replaces the
   certificate that the first has answered, or is about to answer. The devices
   that are set up with that bundle keep working, as nothing revokes it, but
   the API shows the other one.
6. *A part of the positions that looks like all of them.* CrateDB fails after
   the first row. `json.Encoder` writes whole lines, the handler returns, and
   the server ends the response in order with status 200. `API.md:336` tells
   clients to detect this by parsing, but all lines parse. `getPositions` draws
   a part of a day as the day. A client that polls is safe from it
   (`PollingMissesNothing`): rows come in the order of time, so the next poll
   brings the rest.

## 4. Proofs

For any tenants, IMEIs, types and number of requests:

* `TypeCorrect`: `TypeOK` holds. It is not inductive: a call needs a tenant and
  a type or an IMEI, and these come from `tenant` and `cur`, which hold "none"
  at other times. `TypeInv` adds that a request in progress has a caller
  (`Caller`) and that `cur` holds what the next call takes (`Element`).
* `AgentDevicesAlwaysHaveGroup`: no device in the IoT Agent without its group
  and subscription, with any overlap of the requests. `GroupInv` is the
  argument: what a request has learned about groups is in `pc`, `types` and
  `failed` (`GroupsChecked`), past the check there is a subscription
  (`Subscribed`), and what goes to the agent is asked for and of a group that
  did not fail (`BatchAllowed`). Groups and subscriptions are never deleted, so
  what was learned stays true while others run.
* `RequestsAdvance` (`HandlersAdvance`): `CallsLeft`, a natural number computed
  from the place of a request in its loops, gets smaller with every call the
  request makes, whatever the answer is, and nothing else changes it while the
  request is in progress. `WorkInv` says that the loops have an element
  wherever the code takes one (`Workable`). A round of the second loop can look
  up as many IMEIs as the request names and put them in a batch, hence `5 *
  Cardinality(devs[r]) + 3` for each type that is left. That the calls
  themselves return is not assumed and not said.
* `OwnershipIsRespected`: if `Overlap` is not "any", the handlers implement
  `DeviceOwnership`. `ClaimInv` says that what a request has looked up as free
  or its own (`Claimed`) is still so when it writes: only requests of the same
  tenant can have written it. `devices_race` is the counterexample without the
  assumption.
* `NoEntityIsOrphaned`, `MetadataAlwaysHasOwner`; with `AgentSkipsDuplicates`,
  `CreatedIsEverywhere`; with `AgentDropsUnknown`, `DeletedIsGone` and
  `MappingsAreReleasedLast`: if `Overlap` is "none", the stores agree with each
  other and with every response, with any failure, crash or late message.
  `StoresInv` is the argument: requests in progress name different IMEIs
  (`Apart`); from the place of a request it follows what the stores hold of its
  device (`Held`: it is the caller's, it has left the agent, it has left Orion;
  the batch is in the agent); and what a request has reported is true (`Told`).
  A step of one request changes the stores only in its own IMEIs
  (`SameInStores`), so it makes nothing untrue that the others know
  (`OthersKnow`), and what is left for each action is its own request
  (`OwnStep`). A late message adds an entity only for a device in the agent, if
  the agent drops unknown ones, which is why a delete empties the agent first;
  if it provisions them, `AgentDevicesAlwaysHaveGroup` and
  `OwnershipIsRespected` still hold.

For any jobs, numbers of rows and buffer sizes (`Api_proofs`):

* `ExportTypeCorrect`, `ReadyJobsAreComplete`, `RecordsMoveForward`,
  `ClientsSeeForward`. The record says "ready" long after three goroutines have
  counted, read and uploaded the rows. `ExportInv` says what each place in the
  code knows: how far the CSV is where the writer is (`WriterKnows`), that the
  upload only ends after the writer has closed the pipe (`UploaderKnows`),
  where the goroutines can be while `runJob` is somewhere (`RunKnows`), and
  what the record and the client can say then (`RecordKnows`).
* `RecordsHaveTTL`: Redis never holds a record without a TTL. With the fairness
  of time and of Redis this is `RecordsExpire`.

For any tenants, IMEIs, periods and length of time (`Archiver_proofs`):

* `ArchiverTypeCorrect` and `RowsStayLongEnough` from `TimesInv`, which orders
  cutoffs, watermarks and the clock.
* `RowsAreLostOnlyByReplacement`, `WatermarkIsHonest` and
  `RowsAreArchivedOnce`, with retries at any moment. `HonestInv` says that rows
  below the run's watermarks are archived or `replaced` and that, until an
  upload fails, the rows of the schema in progress are that or in `batch`
  (`SchemaCovered`); so what is deleted is in a file, or was until its file was
  replaced. `FilesInv` says that while nothing has failed a run writes only
  names that are free, so that `replaced` is empty. `OnceInv` says that without
  failures files hold what is below the mark of their schema, and `batch` what
  is not.

For any number of requests (also `Api_proofs`):

* `CertTypeCorrect`, `AnswersAreTrue`, `CertsAreReplacedKnowingly`. `CertInv`
  says what a place in the code tells of what the secret held since the request
  began.

For any IMEIs, types, files and numbers of requests (`Pages_proofs`):

* `RegisterTypes`, `EveryRecordWasCreated`, `BelievedIsRegistered`,
  `SummaryIsRight`, all from `RegisterInvariant`. A record comes later than the
  creation it stands for, so `RecordsBacked` counts an answer that has not been
  handled as a record that is owed: `Serve` adds the creation and the debt,
  `SingleArrives` and `BulkArrives` turn the debt into a record, a failure
  cancels it. The number in the dialog is computed by three subtractions; that
  it is the number of created IMEIs needs `created` and `already` to be
  disjoint parts of the payload (`Known`, `SummaryCounts`).

For any number of certificates, requests, devices, fields and files (also
`Pages_proofs`):

* `SavedCertIsShown`: `CardInv` says that a load under way has no answer yet or
  one at least as new as the saved certificate. It rests on `Refresh` aborting
  the loads before; without that an older answer would be shown last.
* `ProxyAnswersAreTrue`: `ProxyInv` says what the place of a request tells of
  it: before `back` the API has not acted, from `token` on the cookie was
  valid.
* `TableStaysCurrent`: `OverviewInv` says that a write belongs to the one
  dialog that is open (`OneDialog`, `OfDialog`), that an answer was true of the
  server and still is of rows nobody else changed (`AnswerHolds`), and that a
  list on its way agrees with the server except in `since` (`ListHolds`).

For any trackers, rows and length of time (also `Api_proofs`):

* `StreamTypes`, `NothingIsMissed`, `EmptyIsEmpty`. What a poll has brought
  says nothing of rows stored since, so `PollingInv` says what a poll in
  progress can rely on: its period began where the last one's knowledge ended
  (`PollInProgress`), the result holds what the table held in the period, but
  for rows stored since, which are not before its end (`ResultIsWhole`), and
  what is sent of it goes up to some time without a gap (`SentIsWhole`). So
  everything before the latest row that came has come.

For any vehicles, fleets, days, trips, polls, places and groups (`Map_proofs`):

* `SelectionIsShown`, `SelectedTripExists`: a handler leaves a state in which
  route and positions belong to the dependencies the effects last ran with
  (`Handled`), and the effects make these the state of now (`Rendered`,
  `RenderKeeps`).
* `PollsNeverGoBack`: at most one poll is under way, and its answer is not
  older than what is shown (`PollInv`).
* `AddressIsRight`: a lookup under way is of the place the details show.
* `MarkersStayOfVehicles`: the chain from the vehicles through source and tiles
  to the cache, each link only while nothing has changed since
  (`SourceIsVisible`, `TilesAreOfSource`, `CacheIsOfTiles`), and the pruning in
  the same effect that changes the source (`VisibleOnly`).
* `MarkersAlwaysMatch` (`MapMarkers_proofs`): after a frame each vehicle on the
  map is shown once, alone or counted in a group. `GroupsInv` says that tiles
  and markers are made of groups of vehicles that are visible, each in at most
  one. That the counts of the groups then add up to the number of vehicles is
  `PartsAddUp`, from `SumIsAnyThatAdds`: a sum is any function that adds up as
  sums do, as there is no smallest set on which the two differ.

For any positions a vehicle reports in the course of a day, and any size of a
request to Map Matching (`VehicleRoutes_proofs`):

* `RouteIsWhole`. `RoutesInv` is short: the positions are in the order of their
  time (`IsDay`), and the route is what was fetched of them. The rest is about
  what the algorithms compute of any day: `DayIsSplitAtStops`, the loop of
  `splitIntoTrips` ends with the trips of the reference definition, since what
  it keeps after a position is `AfterPosition` (`AfterFirst`, `AfterNext`);
  `TripIsCovered`, the chunks begin and end where others end and begin
  (`ChunksMeet`), so that their moves, one chunk after the other, are those of
  the trip (`ChunksHaveMoves`); `TripIsOneLine`, what is stitched of the first
  chunks is one line up to the end of the last of them; `DrawnInTime`, trips
  share at most the end of a stop (`TripRange`), and picking trips out keeps
  their order (`NthInOrder`).
* These are recursive functions over sequences, and the library's induction
  theorems cannot be instantiated here. Two lemmas do their work: a function
  that fits a step by step definition exists (`StepwiseExists`), and among the
  numbers at which a claim about it fails there would be a least one
  (`LeastExists`).

What the modules run together:

* A behaviour of `MCApi`, `MCFrontend` or `MCMap` is one of each of its parts
  (the lemmas `ApiRunsEach`, `FrontendRunsEach`, `MapPageRunsEach`), so what is
  proved of a part holds in the run. From these and the types of the parts
  (`CardTypes`, `ProxyTypes`, `OverviewTypes`, `MarkersTypes`, `MapTypes`,
  `PanelTypes`, `RoutesTypes` and those named above) follow `ApiTypes`,
  `FrontendTypes` and `MapPageTypes`.

The proofs assume the `ASSUME`s of the modules only (`BackendsAssumption`,
`HandlersAssumption`, `ExportAssumption`, `ArchiverAssumption`,
`CertAssumption`, `CardAssumption`, `RegisterAssumption`, `FieldsAssumption`,
`BoundsAssumption`, `MapAssumption`, `PanelAssumption`, `MarkersAssumption`,
`RoutesAssumption`, `StreamAssumption`). That there are finitely many IMEIs, in
`BackendsAssumption`, is used by `RequestsAdvance` alone: an IMEI is a string
of 15 characters. TLC was asked about each inductive invariant or what it
implies, on the instances of section 3, before or while it was proved.

Model-checked only: the liveness properties (`RecordsExpire`,
`RunsEndOrUploadFails`, `ConfirmIsAnswered`, `MapLoadingEnds`), which need
fairness and are beyond the proof system. Every other property of a passing run
is a theorem, and of `RecordsExpire` the part that needs no fairness
(`RecordsHaveTTL`). The properties of the violating runs are of course none.

## 5. Limits

* `AgentSkipsDuplicates = TRUE`: when the IoT Agent answers 409 to a batch, the
  other devices of the batch are stored. The repository does not say; if it is
  not so, `CreatedEverywhere` fails, since the client takes 409 for success.
* `AgentDropsUnknown = TRUE` in the runs about one request at a time: if the
  agent provisions unknown devices, a message under way brings a deleted device
  back, and `DeletedEverywhere` and `MappingReleasedLast` fail.
  `devices_shared` and the other theorems do not need it.
* The agent's devices are a tenant and an IMEI. Under which type, and so which
  key, a device is stored is not kept: a second create with another type is a
  409 that changes nothing there.
* An upstream that never answers holds a request for ever. Nothing is claimed
  of when requests end.
* The properties about reported statuses are checked for one request at a time
  and proved for requests that do not share an IMEI. Two requests of one tenant
  about the same IMEI, a `POST` and a `DELETE`, can leave a mapping without a
  device.
* The stores are linearizable, an HTTP call is atomic, and a lost answer is
  lost together with the return of the call.
* The pages see the API as an operation that answers; that the answers are what
  `DeviceHandlers` promises is not composed. `EachRecordWasCreated` uses that
  of two posts about one IMEI the second is told "already_registered", which
  the handlers promise for requests that do not overlap at the server.
* A row of positions can be read from the moment that is its `time_index`. If
  one becomes readable later than a row with a later `time_index`, a client
  that polls does not get it.
* React runs all effects of a rendering before the next event. It may delay
  passive effects of renderings that no click caused; a click in that gap is
  handled by React after flushing them, an answer may not be.
* `TableIsCurrent` says nothing of a row in `stale`. That an import that
  updates some rows leaves the old values in the table, and that a field
  emptied in the edit dialog is blank in the row and kept by the server, are
  visible in the model (`ImportArrives`, `SaveArrives`) and not excluded by it:
  no comment says what was meant.
* Positions are on a line. The haversine formula and what Map Matching makes of
  a chunk are abstracted.

## 6. Not modelled

* Broker authorisation: four functions of a request without state of their own.
  What could go stale is RabbitMQ's cache of 24 hours, another program's.
* API server and authentication: routing, configuration, a library's token
  check.
* Ingest pipeline: normalisation, acknowledgement and redelivery are Bento's;
  only the lookup of the tenant and the delivery race with the handlers.
* Archive exports: the row selection of `writeParquetFile` and the text of the
  CSV.
* Frontend: check digits, the text of CSV cells and field mapping, wrappers of
  the component library, sorting and paging of the table, navigation, theme,
  camera and layout.
* Operator scripts and manifests.

## 7. What is left

In order of importance:

1. `DeviceHandlers` with overlapping requests of one tenant: which of the
   agreement properties survive; then composition with the operator scripts,
   which delete in another order, and with `RegisterPage` in place of its
   `Serve`.
2. An abstract register that `TenantCert` implements.
3. `BrokerAuth`: the topic decision behind the broker's cache, with `Backends`:
   a device that is deleted, or moves to another tenant, while an allowed
   decision about it is cached.
4. `MetadataCsv` and the row selection of `writeParquetFile` against reference
   definitions.
5. The acknowledgement and redelivery of the ingest pipeline.
