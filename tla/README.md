# A TLA+ model of addie

`addie` is the back end of Cypress, a system for designing networked
cyber-physical experiments and running them on the DETER testbed. This project
models the parts of it whose correctness depends on order, concurrency and
failure: how a design, its models and its settings are kept in memory and in
the database, how a design comes to be served, how it is compiled, how it is put
on the testbed, and how its routers are configured. TLC checks the models on
small instances. TLAPS proves the central invariants for all instances.

- [1. The system](#1-the-system)
- [2. The modules](#2-the-modules)
- [3. What the runs show](#3-what-the-runs-show)
- [4. Where code and text disagree](#4-where-code-and-text-disagree)
- [5. What is proved](#5-what-is-proved)
- [6. Assumptions and abstractions](#6-assumptions-and-abstractions)
- [7. Not modelled](#7-not-modelled)

Paths are relative to the repository; `main.go` is `src/cmd/addie/main.go`,
`postgres.go` is `src/addie/db/postgres.go`, `sema.go` is
`src/addie/sema/sema.go`, `sim.go` is `src/addie/sim/sim.go`, `spi.go` is
`src/addie/deter/spi.go`.

## 1. The system

Two kinds of processes share a PostgreSQL database.

* The **gatekeeper** (`src/cmd/gatekeeper/main.go`) logs users in, creates
  designs, and starts a process of addie for a design.
* A process of **addie** (`main.go`) serves one design of one user. It reads the
  design, the user's models and the settings into memory when it starts, and
  then answers HTTP requests, each in a goroutine of its own. Nothing locks
  anything.

| component | state | operations | talks to | what is hard, and what must hold |
| --- | --- | --- | --- | --- |
| design store (`main.go` 106-522) | `design.Elements`, a Go map from identity to element | `onUpdate`, `onDelete`, `dbCreate`, `dbUpdate`, `doRead` | the web client, the database | concurrent requests, each statement may fail, errors are only logged, the process may die. Memory and database must agree; both must stay well formed |
| user models, phyos, icons | `userModels`, tables `models`, `phyos`, files of the web server | the same handlers, `onModelIco` | web client, database, rsync | models belong to the user and are copied by every process; a handler writes back what it read a while ago |
| simulation settings | `simSettings`, one row | `updateSimSettings` | database | memory is to change only after the database |
| database statements (`postgres.go`) | tables `systems`, `ids`, hosts by type, `interfaces`, `links`, `plinks`, `models`, `phyos`, `sim_settings` | create, read, update, delete, several statements each and never in a transaction | PostgreSQL | half-done writes; references that go stale between two statements |
| data model (`src/addie/model.go`) | – | types, `Routers()` | all | – |
| gatekeeper: designs (`newXP`, `launchAddie`) | rows of designs, root systems, settings; running processes | create a design, launch addie | database, operating system | creation in three statements; look for a process, then start one. A served design must be complete |
| start of addie (`main`, `doRead`, `listen`) | the port, the map | read, then listen | database | what is read before the port is taken may be stale when it is served |
| compilation (`onCompile`; packages `sema`, `sim`, `deter`) | files of the user | check, source, topology, DNS configuration, router charts | `cyc`, the disk | goes through the map while it changes, in an order Go leaves open; check and generators read the same text differently |
| testbed (`onMaterialize`, `onDeMaterialize`, `onMstate`) | the experiment and its realization, at DETER | create, realize, remove, poll, drop | DETER's SPI | concurrent requests, lost answers, deaths between two calls |
| running (`onRun`, `configRouters`) | goroutines, a channel, files on the routers | copy three files, start a script, gather the outcomes | rsync, ssh | no goroutine may be stuck, no failure lost, no script started without its files |
| gatekeeper: sessions | `userCookies` | `onLogin`, `getUser`, `thisUser`, `myDesigns` | database, DETER | an unlocked map |
| database handle | `db`, the connections behind it | `dbConnect`, `dbPing`, `runQ` | PostgreSQL | a shared handle that is replaced; rows left open |

The properties the components are held to are listed with the runs
([3](#3-what-the-runs-show)). The hazards of the code, each at its line and with
the properties that watch over it, are in `PROJECT.json`. Where the code does not
prevent what can go wrong, the properties set the case aside by a precondition
([3](#3-what-the-runs-show)); no property is then named, and the note says so.

## 2. The modules

| module | models |
| --- | --- |
| `DesignData` | identities, elements, interfaces, links (`model.go`) |
| `DesignDb` | the tables and the statements on them (`postgres.go`); an operator per statement, for the case it succeeds |
| `DesignStore` | a process of addie with its map and its handlers, over `DesignDb`; properties and the inductive invariant |
| `AtomicDesign` | what a client may take such a process for; `DesignStore` implements it |
| `DesignStoreProofs` | proofs about `DesignStore` for any client |
| `Agreement` | why the two copies of a design agree if clients are consistent: an inductive invariant |
| `MapProofs`, `AtomicProofs` | the proof of it, and that `DesignStore` implements `AtomicDesign` |
| `ModelStore`, `ModelAgreement`, `ModelStoreProofs` | user models, phyos, icons and settings, in the processes of several designs of one user |
| `Gatekeeper`, `GatekeeperProofs` | how a design is created and a process launched, and how a process gets to serve |
| `Compile`, `CompileProofs` | `onCompile`: check, simulation source, topology, DNS, charts |
| `Testbed`, `TestbedProofs` | materialising and dematerialising |
| `RouterConfig`, `RouterConfigProofs` | configuring the routers of a design |
| `DesignStoreMC`, `ModelStoreMC`, `GatekeeperMC`, `CompileMC` | messages, designs and constants for TLC |

`DesignStore` composes `DesignData` and `DesignDb` by `EXTENDS`, and maps itself
onto `AtomicDesign` by `INSTANCE ... WITH`. The other modules stand by themselves
and meet `DesignStore` in a few assumptions:

* `Gatekeeper` takes of it that a process reads the design when it starts and
  changes memory and database together (`Edit`); `DesignStore` takes of
  `Gatekeeper` that no other process changes the design, which is `ServesStored`.
* `Compile` takes of it that the map may change in one element at a time, at any
  time (`Edit`), and that an element is filed under its identity (`MapKeyed`, a
  part of the invariant of `DesignStore`).
* `ModelStore` leaves to it what phyos have in common with all elements: their
  identities, and that they are deleted.

### DesignStore and AtomicDesign

The variables are the tables; `up` (the process listens); `elements`
(`design.Elements`); and for each handler `pc`, what remains of its message
(`pending`, sorted by `rank` into the order of `onUpdate`'s four loops), its
`killList` (`kills`), and the element at hand with what the statements before
found out (`item`, `old`, `key`, `left`). `placed` and `spoiled` are history.

| code | action |
| --- | --- |
| `onUpdate` up to the loops; `place` | `OnUpdate`, `Place`, `PlaceClass`, `KillList` |
| `onDelete` up to the loops | `OnDelete`, `Deletion` |
| next element of a loop; `dbCreate`, `dbUpdate` | `BeginCreate`, `BeginUpdate`, `BeginDelete`, `TypePanic` |
| `CreateId`; `UpdateId` | `StoreId`; `FindId`, `StoreSystem`, `MoveId`, `RenameId` |
| interfaces of `CreateComputer` and `UpdateNetworkHost` | `StoreInterface` |
| `INSERT` and `UPDATE` of the row of an element | `StoreRow`, `UpdateRow`, `UpdateEnds` |
| `DeleteId` | `DropId` |
| a statement the tables refuse; the connection fails | `Refuse`; `DbFault` |
| `design.Elements[...] = ...`; `delete(...)` | `Show`; `Hide` |
| the kill list, the answer | `Finish` |
| the process dies; starts, `doRead` | `Crash`; `Restart` |

`Crash` also stands for Go's fatal error when two goroutines write a map at once.

`AtomicDesign` has one design, and changes that are applied to it at one blow.
A failing statement *spoils* the identities of the change it was about, a death
those of the changes that were half done; nothing is promised of a spoiled
identity, and it spoils the changes that have to do with it; everything else is
never wrong, and survives every death. The refinement mapping (`Atomic` in
`DesignStore`):

| `AtomicDesign` | `DesignStore` |
| --- | --- |
| `design` | while the process listens, the map without the old identities that are shown under their new one already and still to be killed; while it is dead, what a restart will read |
| `inflight` | the work of all handlers that is not shown yet |
| `Lanes` | the number of handlers: each has at most one change at hand |
| `Follows` | a deletion, or an update of a link: deleting or changing the nodes before it may have done part of it |

### ModelStore

Every design has a process; `userModels`, `elements` (its phyos) and
`simSettings` are what they hold, `models`, `phyos` and `settings` the tables. A
row of phyos has the key of a row of models, where the map has a name. `req` is
what a goroutine is at; of an `onUpdate` what is still to be placed (`rest`), its
four lists and its `modelKillList`. A settings row has what `%f` leaves of a
setting (`SixDecimals`), memory has the setting as it was sent. An error of the
statement on settings leaves open whether it was carried out (`SettingsFail`).

| code | action |
| --- | --- |
| `onUpdate` up to its loop; `placeModel`, `place` of a phyo | `Receive`; `PlaceModel`, `PlacePhyo` |
| `updateSimSettings`: the statement, then memory; an error | `StoreSettings`, `KeepSettings`; `SettingsFail` |
| the loops over models and nodes | `Placed`, `Order`, `First` |
| `CreateModel`, `UpdateModel` | `StoreModel` |
| `CreateId`/`UpdateId` and the position; `ReadModelKey`; the row | `PhyoId`; `PhyoModel`; `PhyoRow` |
| an error of any of them | `Fail` |
| `userModels[...] = ...`, `design.Elements[...] = ...`; `modelKillList` | `Keep`; `Kill` |
| `onModelIco`: the map, the row, the file | `TakeIcon`, `StoreIcon`, `CopyIcon` |
| a death; `doRead`: design, then models and settings | `Die`; `LoadDesign`, `LoadModels` |

`doubt` says of what nothing is promised: what two requests were at at once, what
a message gives that is not consistent (`Clashes`), what a failed statement was
for, settings whose answer was lost, and, in the other processes, models that one of them changed.

### Gatekeeper

Handlers of the gatekeeper write the rows of a design (`designs`, `roots`,
`settings`) one by one, or look for a process (`SeenAs` says which processes
`pgrep` takes for which) and start one. Processes go from `started` through
`read` and `loaded` to `listening`; the port is one for all of them.

| code | action |
| --- | --- |
| `newXP`: `CreateDesign`, `CreateSystem`, `CreateSimSettings`; an error | `NewXP`, `CreateDesign`, `CreateRoot`, `CreateSimSettings`; `NewXPFails` |
| `launchAddie`: `pgrep`, `cmd.Start` | `LaunchAddie`, `FindRunning`, `FindNone`, `StartAddie`, `StartFails` |
| `doRead`; `log.Fatal` | `ReadDesign`, `ReadSimSettings`; `ReadFails` |
| `ListenAndServeTLS`; `log.Fatal` | `Listen`; `ListenFails` |
| `onUpdate` | `Edit` |
| deaths | `GatekeeperDies`, `AddieDies` |

`overtaken` is history: a process whose design another one served, and died,
after it had read it.

### Compile

`pc` is the pass the compilation is in, `todo` what the pass has yet to visit.
`PlinkSrc` and `LinkSubstrate` work on what the pass before put aside (`later`)
and look the ends up in the map of now. An element is known by its identity,
which is what the maps of the code have as a key; what is generated has names:
computers and substrates `Name`, of which identities in two systems may have the
same, and the files of DNS clients the name up to its first dot (`Label`).
`steady` is history: the design has not
changed since the compilation began.

| code | action |
| --- | --- |
| `onCompile`; its answer | `OnCompile`; `Checked`, `Answer` |
| `sema.Check`, `CheckPlinks` | `CheckPlink`, `Checked` |
| `sim.designSrc`, first pass; second pass; `compileSim` | `PhyoSrc`, `SaxSrc`, `KeepPlink`, `ObjectsDone`; `PlinkSrc`, `LinesDone`; `WriteCys` |
| `actuatorSrc`, `sensorSrc` without a match: `m[0]` | `SaxPanics` |
| `DesignTopDL`, first loop; second loop; `compileTopDL` | `AddComp`, `AddSwitch`, `KeepLink`, `HostsDone`; `LinkSubstrate`, `LinksDone`; `WriteTopDL` |
| `generateDnsServerConfig` | `AddClient`, `ClientsDone`, `WriteSpec`, `WriteKey`, `KeysDone` |
| `generateRouterConfigs`, `updateCharts`; `rc.json` | `ChartLink`, `LinksCharted`; `WriteChart` |
| another handler; a death | `Edit`; `Die` |

### Testbed

`pc` is the SPI call a handler makes next. `experiment` and `realized` are the
testbed's. `Others` are designs whose name contains this one's, which the
regular expression finds as well. A call that fails was either not carried out
(`Refuse`) or carried out with its answer lost (`LoseAnswer`).

### RouterConfig

Each `onRun` has a goroutine per router and a channel. Several runs work on the
same nodes (`onNode`). As nobody closes the channel there is no step after the
loop; runs end waiting, and the runs of TLC say `CHECK_DEADLOCK FALSE`.

## 3. What the runs show

All passing runs explore the whole state space within their bounds.

| run | checks | bounds | states |
| --- | --- | --- | --- |
| `DesignStore_apart` | `Durable`: whenever no request is at work, the database holds of every identity that is not spoiled what the map shows; `AtomicSpec`: the refinement of `AtomicDesign` | 2 handlers, 3 requests out of 14 messages that keep apart, 1 failing statement, 1 death | 473,822 |
| `DesignStore_single` | `UpdateTakesEffect`: after `onUpdate` the map has what was sent and no old identity | 1 handler, 3 requests out of 10 messages of any kind, 1 failing statement, 1 death | 70,619 |
| `DesignStore_concurrent` | `TypeOK`, `LinkEndsStored`, `OneElementPerId` | 2 handlers, 3 requests out of 10 messages of any kind, 1 failing statement, 1 death | 2,067,393 |
| `ModelStore_two_designs` | `ModelsDurable`, `PhyosDurable`, `SettingsDurable`: what a process holds that serves nobody is what it would read if it were started again, of settings to six decimals | 2 designs, 2 names of models, 2 handlers, 3 requests out of 10 messages, 1 failing statement, 1 death, handlers symmetric | 2,087,257 |
| `Gatekeeper_launches` | `ServesComplete`, `AnsweredComplete`: what is served, or answered 200 for, has all its rows; `ServesStored`: what a process serves is what is stored | 2 designs, 2 handlers, 3 processes, any number of requests and deaths, handlers and processes symmetric | 376,667 |
| `Compile_designs` | `TopologyMatches`, `SourceMatches`, `ChartsMatch`: the files say what the design says; `PanicsExplained`: what makes the generators panic | 22 designs of up to 7 elements, 2 compilations, 1 change, 1 file that cannot be written, a death at any time | 1,870,445 |
| `Testbed_requests` | `RealizedHasExperiment`; `NoOrphan`: as long as nothing has failed no experiment is left that no request could remove; `DeMaterializeEnds`: the loop of `onDeMaterialize` ends if the other designs it waits for are some day gone | 3 handlers, any number of requests, another design, 1 failing call, 1 death | 5,766 |
| `RouterConfig_two_runs` | `SendersPass`, `FailureKept`, `BootstrapPrepared`, `FailureHeard` | 2 runs, 2 routers, any call may fail | 40,948 |

**Why the bounds suffice.** In `DesignStore` three names in two systems are
enough for a node to be renamed onto, moved beside, and linked with another one;
one interface name is enough for an interface to be there or not; the messages
include several elements at once in an unhelpful order. `MaxKey` exceeds the
identities the requests can store. Two handlers show every pairwise
interleaving; the invariants of the concurrent run are proved for any number. In
`ModelStore` two names are enough for a model to be renamed onto, or away from
under, the model of a phyo, and two designs for one process not to hear of it.
Three processes are what it takes for one to read, another to serve, edit and
die, and a third to take the port. In `Compile` the designs have each kind of
element, each way two routers, a switch and hosts are joined, and each way a
text is read differently by check and generator, and three have equal names, of
two hosts, of a link and a switch, of two files; one change meanwhile is enough
for an end to be gone, or replaced, between two passes. The bounds of the
testbed and the gatekeeper only limit failures and processes, not requests.

**Preconditions.** The code does not keep memory and database together in
general. What it takes is stated as conditions on what clients send, and each
condition is there because TLC shows the property to fail without it (but for the
names of the computers and substrates addie adds, which no design of a run has).

* `ConsistentUpdate`, `ConsistentDelete` and `Apart` (`DesignStore_apart`):
  identities that do not meet, not even halfway through `UpdateId`; a system
  that exists; a type that does not change; interfaces that are only added, and
  that only computers are created with; links whose ends are there; requests
  that do not touch one identity at once, and do not both create one system. A
  comment at `main.go:417` says as much of `onDelete` ("relies on the client to
  provide a consistent set of elements"). Failures and deaths are not excluded:
  only the identities they were about are.
* `doubt` (`ModelStore`): models two requests were at at once, or another
  process changed; phyos that go on naming a model by its old name; settings two
  requests were at at once, or whose statement was carried out and its answer
  lost.
* `overtaken` (`ServesStored`): a process that has read waits for the port while
  another one serves the design, changes it and dies. Then, and only then, it
  serves an old design.
* `Drawable`, `Legible` (`TopologyMatches`, `SourceMatches`): every interface at
  one link; no two hosts of one name, no two of the links and switches, and no
  two DNS clients of one name up to the first dot, or substrates merge and files
  are overwritten (identities of two systems may have one name, so the code does
  not exclude it); and nothing called as what addie adds: no interface `eth0` of a Sax,
  none `ifx` and a number of a router (`connectToDns`, `spi.go:401`), no link or
  switch `dnslink`; text that check and generator read alike. That the name
  `ifx` matters came out of the proof: the first router's own interface of that
  name and the one to the DNS server are then both put on the substrate of its
  link, and one design of the run has it. `Unchecked` lists what `sema` does not
  look at and the generators panic over, and `PanicsExplained` says that this is
  all. All of these are about compilations during which the design does not
  change (`steady`) and about files that could be written (`lost`).

**Fairness.** `FairSpec` of `Testbed` assumes that an SPI call returns and a
removed realization ends at some time; that of `RouterConfig` that rsync and ssh
return. The code sets no timeouts, so these are assumptions on what it
calls. No fairness is assumed of requests, failures, deaths or other designs.

**Mutants.** Every property of a passing run is violated by a plausible bug: a
definition named in `PROJECT.json` ("mutants") and marked in the modules by a
comment that begins with "Mutant". The specifications do not use them.

## 4. Where code and text disagree

Runs that TLC ends with a counterexample. `PROJECT.json` ("findings") quotes the
lines.

| run | what is said | what the code does |
| --- | --- | --- |
| `DesignStore_unknown_system` | an update in a system that does not exist fails (`spec/design.md`) | the error is logged, the element is shown, until the next start |
| `DesignStore_conductor` | an update reads back as sent (test of the package) | a changed interface is never stored: `UpdateInterface` scans before `Next` |
| `RouterConfig_answer` | "routers configured", and the answer "ok" | nobody closes the channel, so there is no answer |
| `Compile_checked` | "We are assuming that the models and design have already been semantically checked" (`sim.go:5`) | a Sax with sensors only passes the check, and `actuatorSrc` panics on the text without an entry |

The models show more disagreements that have no run of their own:

* A router, switch or sax does not get the interfaces it is created with
  (`StoreRow` follows `StoreId` without `StoreInterface`: `postgres.go:1247`).
  They are not added by an update that keeps them either.
* `UpdateId` (`postgres.go:703`) leaves an element that moves and is renamed at
  once under its old identity when its old name is taken in the new system,
  though the new identity is free (`MoveAllowed`).
* "every design starts life with a 'root' system" (`CreateDesign`) is not so
  when the second of its statements fails (`NewXPFails`), and `newXP` then
  refuses the name for ever.
* "the design is already materialize" (`main.go:1255`) is also answered when
  only a design whose name contains this one's is (`AlreadyRealized`).
* "addie is already running for ..." is also logged, and no process launched,
  when only an addie for a design with a longer name runs: `pgrep -f` looks for
  the name anywhere in the command line (`SeenAs`, `FindRunning`).

## 5. What is proved

With TLAPS, for all values of the constants that meet the named assumptions: so
for any messages, any number of handlers, processes, elements and routers, and
any bound on failures and deaths.

| module | theorems | from |
| --- | --- | --- |
| `DesignStoreProofs` | `TypeCorrect`, `LinksAreReadable`, `IdsAreUnique` | `Invariance`: `Spec => []IInv` |
| | `UpdatesTakeEffect`: `OneAtATime` implies `Spec => UpdateTakesEffect` | `IInv` and `Going` |
| `AtomicProofs` | `DesignIsDurable`: `ConsistentClient` implies `Spec => []Durable` | `CopiesAgree`: it implies `Spec => []AgreementInv` |
| | `DesignIsAtomic`: it implies `Spec => AtomicSpec` | the same |
| `ModelStoreProofs` | `TypeCorrect`, `SettingsAreDurable` | `Typed`, `Kept` |
| | `ModelsAreDurable`, `PhyosAreDurable` | `AgreementHolds`: `Spec => [](Typed /\ Control /\ Agreement)` |
| `GatekeeperProofs` | `AnsweredIsComplete`, `ServedIsComplete`, `ServedIsStored` | `CompleteInv`, `StoredInv` |
| `CompileProofs` | `TypeCorrect`, `PanicsAreExplained` | `Typed`, `Sound` |
| | `SourceSaysDesign` | the same, and `Traced` |
| | `TopologySaysDesign` | all of these, and `Depicted` |
| | `ChartsSayDesign` | `Typed`, `Traced` and `Plotted` |
| `TestbedProofs` | `LockHeld`, `RealizedIsCreated`, `NothingOrphaned` | `IInv`, `Held` |
| `RouterConfigProofs` | `SendersAlwaysPass`, `FailuresAreKept`, `BootstrapsArePrepared` | `IInv` of its own |

**`DesignStoreProofs`.** The three safety properties are not inductive: that an
insert does not put a second row under an identity depends on what the handler
holds. `IInv` adds `ItemHeld` (what a handler has at each stage), `FreshKeys`
(nothing is stored under a key not given out yet), `MapKeyed` (the map files
every element under its own identity) and `OwnRow` (the row a
handler is creating is in no table and is no other handler's). The proof has a
lemma per statement of the database (what it does to `LinkEndsStored` and
`OneElementPerId`) and one per action.

`Going` says of a handler at work that what it has shown of
its message is in the map, and that its kill list is what its message replaces.
`Finish` then kills no element of the message, as no identity of a collision-free
message is both given and replaced. With two handlers the other one may overwrite
what was shown, so the theorem assumes one (`OneAtATime`), and the run has one.

**`Agreement`, `MapProofs`, `AtomicProofs`.** What a client sees of the process
is `SeenDesign`; the database holds `ReadDesign`. They differ wherever a handler
is at work, and the invariant says where and how.

* `MapView` is about handlers and map alone. The identities of a message do not
  meet, and a link comes after what it ends in (`Messages`); no two messages
  have to do with one identity (`KeptApart`); what is still to be done fits what
  is seen by now (`Fitting`), finds the ends of its links seen or yet to be done
  (`Founded`), and, if it takes an element away, takes care of the links that
  end in it (`Followed`). Only the loops of `onUpdate` and `onDelete` change what
  is seen, one element at a time, so `MapProofs` never looks at a table.
* `TableView` is about the database. Of an identity that is neither spoiled nor
  at hand (`Busy`), it holds what is seen (`Agreed`). Of work at hand, `Held` says
  for each stage between two statements which of its identities are taken, what
  the row has by now and whom the key held belongs to, and hence that no
  statement is refused. `Linked` says that the rows of links to be updated still
  end where the map has them, or in what the handler has made of that: `UpdateId`
  renames under the key, so links follow before their turn comes.
* A statement only disturbs identities of the work it belongs to: that is proved
  once for all statements (`StatementModest`), and `KeptApart` then keeps `Held`
  of the other handlers, and `Agreed` of everything else (`OthersHeld`,
  `AgreedKept`). What remains is each statement with its own stage.

At rest nothing is busy, so map and database agree (`QuietIsDurable`). In the
refinement a statement is a stutter, `Show` and `Hide` are `Apply`, a failing
statement is `Fault`, work that meets a spoiled identity is `Spread`, a death is
`Die`, and a restart stutters, since a dead process is taken for what a restart
will read. That `Die` spoils no more changes than there are handlers, but for
those of links that follow a rename, is a surjection from the handlers
(`HalvesBounded`). The lemmas before `CopiesAgree` name the code they are about
by its action.

**`ModelAgreement`, `ModelStoreProofs`.** That what a start reads is well formed rests on `Stage`:
what a request holds at each stage, above all that the key it is about to put
into a row of phyos is that of a model that is stored. Models are never deleted
(`Stays`). `Kept` says that memory and row differ only between the two halves of
a request that is at the settings of the design, and that two such requests have
put the settings in doubt.

Of models and phyos, memory and tables are not changed in one step, nor by one
process. `Agreement` says where they differ, so that they do nowhere else.

* A request is *good* unless nothing is promised of what it gives. A good one is
  consistent and no other request touches what it touches (`Unmet`); what it
  gives is in doubt in the other processes (`Foreign`); and phyos that go on
  naming a model it renames are in doubt (`Lasting`).
* The names of models are unique in the table, and every copy is filed under its
  name (`Filed`): `UpdateModel` and `ReadModelKey` then mean one row.
* What no request of a process gives and nothing is doubted of, it holds as it is
  stored (`ModelsSame`, `PhyosSame`).
* What a good request gives is held and stored as far as the request has come
  (`Progress`): before the loops both are as they were and the lists say which
  elements are new (`Sorting`); in them each element is still to be done, stored
  but not yet held, or done (`ModelsCome`, `PhyosCome`). Phyos come after models
  (`PhyosLast`), so the model a phyo names is stored by its turn. The name of a
  phyo's model is read through its key, so renaming the model changes what is
  read of the phyo: of one whose turn is yet to come nothing more is said than
  that it has a row if it is held (`PhyoTodo`).

A step of a request changes only what its message gives; that is `Local`, and
`LocalKeeps` proves once that it then keeps everything of the other requests and
what no request is at. What is left for each action is that it is local and gets
on (`GetsOn`). A death forgets what is held and what the requests were at, and
doubts it; a start holds what it reads. At rest nothing is given, so
`ModelsSame` and `PhyosSame` are the two properties (`QuietAgrees`). The
invariant was checked by TLC on the run's constants before it was proved.

**`GatekeeperProofs`.** Rows are written in one order and only after those
before them (`RowsInOrder`), so settings imply a root system. `ServedIsStored`
rests on `OneListens` and `ReadersCurrent`: a process that has read, and was not
overtaken, knows what is stored, unless one that listens is changing it now.

**`CompileProofs`.** `Sound` is what the passes hand to one
another: what is put aside is put aside by this compilation and, if the design
is steady, is what the map has (`Aside`); no plink visited by the check is
faulty (`Diagnosed`); every host has its computer before links are drawn
(`Housed`). A panic then contradicts the check, unless it is about something in
`Unchecked`. `Traced` follows what is declared and which lines are written
through the passes into the file; it needs `Diagnosed`, as it is the check that
makes sure that a bound variable is one of the Sax. `Depicted` is the same for
the topology. As long as hosts are visited, the computers made so far have the
interfaces of the design, each once, besides what addie adds (`Equipped`), and
one router among them is with the DNS server (`Housing`). While links are drawn,
each is put aside still or drawn (`DrawnLink`): both interfaces are on the
substrate of the link, or of the switch it leads to. Drawing one leaves the
others as they are, since no interface is at two links (`LinkDraws`), in
whatever order they come. A topology in which every link is drawn matches the
design (`DrawnMatches`): two interfaces share a substrate only if it is that of
one link, or of one switch. `Plotted` counts the ends of links the last pass has
been at: a chart has exactly the routers with such an end, as many names as ends
that lead to something, and the next free number (`Charted`). Every update of a
chart adds one end (`UpdateCharted`), so when the pass is over the charts speak
of all links; that these are finitely many follows from the pass being over.

**`TestbedProofs`.** The existence of the experiment works as a lock
(`ExperimentIsLock`): taken by the request that creates it, handed over with the
realization, given back with the experiment. As long as nothing fails it is
always in somebody's hands (`Held`).

**`RouterConfigProofs`.** `SendersAlwaysPass` counts: a channel holds at most one
outcome for each goroutine that is done (`Sent`), so one that is yet to send
finds room. `Followed` follows a failure from the goroutine through the channel
to the run; `Copied`, which files are there at each stage.

**Only model-checked.** The liveness properties (`DeMaterializeEnds`,
`FailureHeard`), which are beyond the prover. Every other property of a passing
run is a theorem.

## 6. Assumptions and abstractions

* The schema of the database is not in the repository. Assumed: a name occurs
  once in a system, an interface once on a host, a design and a model once for a
  user; references must exist; deleting a row deletes the rows that refer to it
  (the test of the package says so), but not the identity of a link that loses
  its end.
* What is only copied (positions, operating systems, scripts, packet conductors
  of elements; in `Compile` capacities, latencies, images) is one attribute or
  left out. Writing it takes several statements in the code; as one step, a
  failure or a death between them, which would leave part of it, is not seen.
  Reading the two ends of a link and inserting it is one step as well: a row
  that goes in between makes the insert fail as the read would have. In
  `ModelStore` the identity and the position of a phyo are one step.
* An identity does not carry the design: a process serves one. In `ModelStore`,
  where there are several, the identity of a phyo names its design (`DesignOf`),
  and a client sends a process phyos of its own design (`MessagesAssumption`).
  Names of models, phyos and designs are told apart (`DoubtAssumption`), as
  `doubt` is about all of them.
* The theorems assume of the constants what the named `ASSUME`s say: `None` is
  no identity, element or row (`NoneAssumption`, `ElementAssumption`,
  `RowAssumption`), messages are of their types, bounds are numbers, and there
  are finitely many goroutines (`HandlersAssumption`), routers and so on. That a
  client is consistent and keeps apart (`ConsistentClient`) and that there is
  one request at a time (`OneAtATime`) are hypotheses of the theorems that need
  them; `MessageAssumption` and the guards of `OnUpdate` and `OnDelete` say
  what they mean.
* Interfaces are known by their key in the map of a host, which the client keeps
  equal to their name, and a host has finitely many (`Interfaces`).
* In `Compile` names are constants (`Name`, `Label`). No two identities have one
  text `name.system.design`, which charts are filed under (`main.go:771`), and
  no host is called `server_spec`, whose key would be written over the file of
  the server (`NameAssumption`).
* `%f` (`postgres.go:455`, `470`) writes settings with six decimals:
  `SixDecimals` is any function whose results it leaves alone
  (`SettingsAssumption`); TLC has one that rounds, so that one setting is stored
  as 0. PostgreSQL reads back what is written.
* A statement that was carried out with its answer lost: for settings it is
  `SettingsFail`, as memory then keeps the old ones; on the testbed `LoseAnswer`.
  The errors of the statements on elements and models are only logged and the
  element is kept all the same, so for the last statement of an element a lost
  answer leaves memory and tables as a success does, and for an earlier one as a
  failure at the next. In `newXP` it leaves the rows of a success and an answer
  that is not 200, of which nothing is said.
* `Restart` reads the design successfully; `LinkEndsStored` says that the tables
  never stand in the way.
* In `Compile` a text of a Sax is a sequence of parts, a part a sequence of
  entries, and each entry says which of the expressions of `sema` and of `sim`
  accept it. One compilation runs at a time; what two would do to one another's
  files is not modelled. A walk through a Go map visits the elements in any
  order and may or may not come to one that is added during it. A panic ends the
  request, as net/http recovers it, and the process lives on. A death may leave
  the source or the topology cut short. Charts of routers that lost their links
  stay on disk, and `ChartsMatch` is about the others.
* DETER creates an experiment once, realizes only what is created and not
  realized, and refuses to remove a realization that is not up. If it accepted
  the removal of one that is ending, two requests could both go on to remove
  the experiment, and `RealizedHasExperiment` would depend on their timing; the
  mutant `RemoveAnyway` shows it.
* A file on a router is there or not. The template of the first one may be
  written in part and be copied all the same (`main.go:977`). A copy that fails
  leaves what was there.

## 7. Not modelled

* **Database handle** (`dbConnect`, `dbPing`, the pool of connections). A
  statement that fails for whatever reason, and a process that dies of it, are in
  every module that has statements. `dbPing` replacing the handle while others
  use it is a data race whose outcomes are these two.
* **Rows left open.** `UpdateSax` never closes its rows, and others keep theirs
  open across further statements. How many connections this leaves depends on
  the pool and on the server's settings, neither of which is in the repository;
  a statement that finds no connection fails as any other does.
* **Sessions** (`onLogin`, `getUser`). One write of a map per login and one read
  per request; between them there is only the data race, which ends the
  gatekeeper (`GatekeeperDies`) or does nothing.
* **Updates that take an interface away.** `UpdateNetworkHost` goes through the
  new interfaces only, so the old one stays stored, and `DeleteInterface` matches
  no row. `ConsistentChange` excludes them.
* **A create and a delete of one element at once**, a topology that is read while
  it is written, charts that are left over: nothing in the code keeps them from
  happening, and nothing in the repository says what should come of it, so there
  is no property to hold the code to.
* Certificates and log files that a process needs to start; encodings to and
  from JSON; the text of the generated files; vendored code (the web server, the
  SPI client, the database driver) and the rsync scripts.
* Code without a caller outside tests: `DeleteDesign`, `SysRecycle`, `beginTx`,
  `runSim`, `CreateDeterXP`, `GenerateSourceFromDB`.
