# Formal models of the Msgcore use examples

This directory models the programs of this repository in TLA+, checks the models with TLC and
proves their main properties with TLAPS. The repository is a set of worked examples for libraries
that are not part of it (Msgcore, Targetcore, MsgFacade, TargetFacade and their COM servers): five
trees (`DirectExamples`, `FieldAccessExamples`, `FacadeExamples`, `ComExamples`, `dotNetExamples`)
write the same eight subjects against five interfaces. What is modelled is the code of the
examples and of the scripts around them, with the libraries stated only as far as the examples
rely on them.

## 1. Inventory

### The mesh examples (`WsaQueryTest`, `WsaStoreTest`, five trees)

Each is one process with two hubs on a loopback link.

| Part | State it keeps | Operations |
|---|---|---|
| main | where it is, the local exit code, the failure counter it reads | set up two hubs, arm listener and dial, wait up to 15 s, judge, tear down |
| server pump | the store (query) or a scratch file and a rebuilt manager (store) | answer a query; lay down, load and check an arrived store |
| client pump | `m_bSent`, the reply counter, a scratch file | on login: send the queries, or build, save, read back and post a store; check replies |
| shared | done event or gate, failure counter, answer counter, reply list | set, wait, increment, append |

They interact through posted messages (ordered per hub, lost with the link), through the event or
gate a pump sets and main waits for, and through plain shared counters. What is hard is that three
threads share them with no lock: main may judge while a handler still checks; the link may be lost
and the login acknowledged again; the last reply races the timeout; the event, the store and the
hubs are destroyed while a pump whose bounded join was given up may still use them; a throw in a
handler must not drop the link; a scratch file must not outlive the manager that maps it.

The process exit code is the contract: 0 success, 1 setup failure, 2 a tripped assertion, 3 a check
that failed or a timeout. What makes an example correct is that 0 is the truth (every query
answered as expected, or the store intact), that the verdict does not change with a late reply,
that nothing is used after it is destroyed, and that the process always ends.

The trees differ where it matters:

| Tree | Handlers run on | Sent | Barrier | Torn down |
|---|---|---|---|---|
| Direct, FieldAccess | a pump per hub | once (`m_bSent`) | auto-reset event, read through a global | after the verdict, bounded joins |
| Facade | a pump per hub | at every peer-up | manual-reset gate, replies counted | before the verdict, destructors wait |
| COM | the one STA thread, while it pumps messages | at every peer-up | count, in the same thread | after the verdict |
| .NET | a dispatch thread per hub | at every peer-up | count, polled by main | after the comparison |

### The store programs (`MgrPersistTest`, `MgrCApiTest`, `ListVectTest`, `RecursTimeTest`, five trees)

One process, one script of sections; each section builds a store, works on it and checks it after
every call. `MgrPersistTest` saves and loads, asks for fields by the position they keep, arms
triggers on positions and listens to the events, pages through a sink. `MgrCApiTest` drives the
flat C interface (FieldAccess and Direct), the vtables of MsgFacade, or late-bound COM, through
handles that must be given back. `ListVectTest` works on lists and vects, nests and copies them, and
moves cursors over children while it deletes them. `RecursTimeTest` walks a subtree with the
library's walker or with a work list of its own, keeps the stops and reads or writes them later,
stamps fields with times that must outlive a save, and puts a field's value aside. The state is that
of the stores (tree, positions, registrations, the file a store holds), of the handles, cursors and
work lists, of what the handlers have seen, and of the failure counter; the scratch files are shared
by processes of one tree. What is hard: a call fails and the
script goes on to checks that pass without it; an event is delivered by a dispatch thread after the
field is gone or the section over; a handle outlives a write of the C++ side or its store; a loop
that ends early because one of its calls failed looks like one that is done; a cursor stands on what
is deleted; a killed run leaves its file, and two runs at once share it.

### Support code, runners and tooling

- The harness headers (`LightMesh.h`, `LightHarness.h`, `ComHarness.h`, `P2PBridge.h`,
  `ComHarness.cs`, `P2PBridge.cs`, `MsgcoreComInterop.cs`): check counters, gates, a wait on a
  wrapping clock, wrappers with a lifetime, event sinks, error translation.
- `run_all.ps1` (five) and `build.ps1`: build, stage and register the servers, run each harness with
  a timeout, score the exit codes, unregister on every way out.
- `tools/hooks/pre-push`: refuses deletions, force-pushes and unverified commits on master, against
  a remote and CI runs that change meanwhile.
- `.github/ci/check_repo_invariants.py`: a sequential checker over the repository's files.
- The remaining subjects (`DataFieldTest`, `BstrWidthTest`, `FieldAccessTest`): sequential scripts of calls into the library. See section 7.

## 2. Modules

| Module | Models | Uses |
|---|---|---|
| `QueryService` | the promise every mesh example makes: answers come back one by one, one verdict, success only when all are in | |
| `P2PeerMesh` | the library's side of two hubs and a link (external) | |
| `TwoHubMain` | the main thread that the Direct harnesses share line for line | `P2PeerMesh` |
| `WsaQueryDirect`, `WsaStoreDirect` | the Direct pair: both pumps; the two scratch files of the store | `TwoHubMain`, `QueryService` |
| `FieldViews` | typed views over a store whose cursor every access moves | |
| `WsaQueryField`, `WsaStoreField` | the FieldAccess pair: what the views write, a reply whose read throws, the rest as in Direct | `FieldViews`, the Direct pair |
| `WsaQueryLight`, `WsaStoreLight` | the Facade pair: gate, unguarded failure counter, destructors; a store serialised at every peer-up | `P2PeerMesh` |
| `ComHarness`, `WsaQueryCom`, `WsaStoreCom` | the COM pair: one apartment thread, `Gate::wait` on a tick count that wraps, the errors the facade raises | `P2PeerMesh`, `QueryService` |
| `WsaQueryNet`, `WsaStoreNet` | the .NET pair: a dispatch thread per hub, a polled gate, `Dispose`, exceptions that end the process | `P2PeerMesh`, `QueryService` |
| `MsgcoreStore` | a store (external): tree, positions, registrations, image | |
| `ProgramSteps` | the calls and checks the store programs are made of | `MsgcoreStore` |
| `StoreProgram` | runs of such programs: sections, exceptions, events, dispatch thread, faults, kills, shared files | `ProgramSteps` |
| `HandleProgram` | the calls that go through handles | `StoreProgram` |
| `TreeSteps`, `TreeProgram` | the calls on containers and trees, cursors and walkers, and the loops, one round at a time | `ProgramSteps`, `HandleProgram` |
| `MgrPersistDirect`, `MgrPersistFacades` | the `MgrPersistTest` scripts of Direct and FieldAccess, and of Facade, COM and .NET | `ProgramSteps` |
| `MgrCApiDirect`, `MgrCApiFacades` | the `MgrCApiTest` scripts, in the same way | `ProgramSteps` |
| `ListVect`, `RecursTime` | the five `ListVectTest` and the five `RecursTimeTest` scripts | `TreeSteps` |
| `SuiteRunner` | the five runners and the C# build | |
| `PrePush` | the pre-push hook, with the remote and CI around it | |
| `MeshCom` | both COM mesh harnesses over one set of variables, the one that runs chosen by `subject`, and the inductive invariant of the two | `WsaQueryCom`, `WsaStoreCom` |
| `MeshStore` | the FieldAccess pair, the Facade store and the .NET store, the one that runs chosen by `subject`, their inductive invariant, and the instance TLC checks | the four modules |
| `...Proofs` | the theorems (section 6); `TwoHubProofs` holds the lemmas on queues and main that the others cite | |
| `MC...` | the instances TLC checks; `MCPrograms` runs several programs, one per behaviour, chosen by `port` | |

**How state corresponds.** In the mesh modules `pc` is the statement main is at; every other
variable is a variable of the program and its comment names it, except those marked *history*,
which record what a property speaks of and no action reads. A handler is cut into one action for
each point where another thread can see a difference: taking a message and answering it, the last
check and the increment of a counter, the increment and the signal, the read and the write of an
unguarded counter. Checks that only look at a handler's own data are one set of failed checks.

**How the store programs are written.** A script is a sequence of steps, one for each call of the
program, with the checks that follow it before the next call (`Then`, `Ok`, `Try`); the operators
of `MgrPersistX`, `MgrCApiX`, `ListVect` and `RecursTime` are the programs' sections. The actions of
`StoreProgram`, `HandleProgram` and `TreeProgram` say what a call does to the store, the handles and the files, and what its failure
does to the script: in the C++ trees it throws past the rest of the section to main's `catch`, in
the COM tree and over the flat C interface it answers an error and the script goes on, in the .NET
tree it throws and nothing catches it. `me[p]` is the state of one process: `pc` in the script,
its stores, noted positions and handles, events raised, queued and seen, the gate, the paging sink,
what the current loop has visited and has yet to visit, the stops kept for later, the failure
counter, how it ended. A loop that moves a cursor, obtains fields or writes runs one round per
action, and in any round a call may fail: the loop ends early, visits a stop twice, skips what is
below it, reads 0 or an empty name, or writes from what it misread (`WalkFault`, `RoundFault`,
`DescendFault`, `DrainFault`, `RevisitFault`).

**What the mesh assumes.** Messages to one hub arrive in order. A message posted without a link is
lost. When the link is lost each queue keeps some prefix of what was on the way. The link may come
up at most `MaxLogins` times, and each time the client's pump is owed one login acknowledgement
(or peer-up). A closed hub's pump ends between two handlers. In the Facade, COM and .NET modules
`PostP2PeerCon` stands for `listen` and `connect`.

**What the store is assumed to be.** What the examples' own checks say of it: a new field takes the
lowest free position and keeps it while it lives, deleting a field drops the registrations on it, a
save writes the whole tree and keeps the file open, a load replaces the tree, a file that some store
holds can be neither saved over nor removed.

**What is abstracted.** A path, a value, an image of a store is one model value; the wording of
replies, the log and the rendering of numbers are left out. An image carries a size, of which only
its relation to the frame limit and to 0 matters. Loops that declare 300 or 200 fields to force a
heap to grow declare three in a heap that starts with room for one. Error texts, version strings,
blobs and the case of member names in `MgrCApiTest` are left out. In `ListVectTest` and
`RecursTimeTest` a loop that only makes a heap move or a cell spill declares a few fields for its 40
to 200; a list, vect or time built aside comes into a tree whole, since no check falls in between;
the limits of 500 and 100 rounds, which no walk of these trees can reach, are left out; a double is
counted in tenths, a time in seconds.

## 3. Runs

Every run has `CHECK_DEADLOCK FALSE`: the process ends, and in `pre_push` the bound on CI runs
stops pushes at last.

| Run | Bounds | Shows |
|---|---|---|
| `query_direct` | the five queries, 2 logins | success only when each query had its answer (`SuccessIsComplete`); nothing is used after teardown unless main gave a join up (`NoUseAfterTeardown`); the event is a barrier (`DoneIsBarrier`); the abstract service (`ImplementsService`); a report, and every query answered on a link that stays up (`Progress`) |
| `store_direct` | images of size 0, one below and at the limit, 2 logins, leftover files | success only for an intact store (`SuccessIsIntact`), no scratch file after it (`NoScratchLeft`), the same barrier, service and progress |
| `query_light` | 3 queries, an intact and a drifted catalogue, 2 peer-ups | no wrong reply under exit code 0 in spite of the unguarded counter, and with one peer-up none missing (`SuccessIsRight`), destructor order (`NoUseAfterDestruction`), final verdict (`VerdictIsFinal`), `Progress` |
| `query_light_twice` | one catalogue, 2 peer-ups | violation: finding 1 |
| `query_net` | 3 questions, 2 peer-ups | the gate orders the list (`GateIsBarrier`), main compares what it copied before it wrote (`SnapshotPredatesWrite`), without a fault only timing can fail a run (`OnlyTimingFails`), doubled answers never make a success (`ImplementsService`), `Progress` |
| `query_net_count` | 3 questions, 1 peer-up | violation: finding 2 |
| `mesh_com` | both COM harnesses, 2 peer-ups, a clock modulo 4 that starts before its wrap | the wait is timed right across the wrap (`WaitIsTimed`), on a link that stays up nothing but the timeout fails (`OnlyTimeoutFails`), success is an intact store (`StoreSuccessIsIntact`) and a full set of answers (`QueryImplementsService`), the process reports (`AlwaysReports`) |
| `mesh_store` | FieldAccess pair, Facade store, .NET store; 2 logins | no harness fails undisturbed (`OnlyDisturbanceFails`), success is intact (`SuccessIsIntact`), the facade's library and scratch files (`LightCleansUp`) |
| `net_scratch` | .NET store, 1 login | violation: finding 3 |
| `programs` | each of twenty store programs alone with one failing call or late dispatch; five pairs side by side with one kill | see below |
| `suite` | five runners and their switches, 3 harnesses with any exit code, all or some DLLs present | what a harness runs with (`RunsPrepared`), what stays registered (`RemovedUnlessRefused`), when exit code 0 is earned (`ZeroIsEarned`), where a run can hang (`RunnerEnds`) |
| `pre_push` | 2 developers, 3 commits, 2 CI runs each | master only at verified commits (`MasterIsVerified`), only forward (`HistoryIsKept`), other branches free (`TopicPushesFreely`) |

**The run `programs`.** `OnlyDisturbanceFails`: with no fault, late dispatch, kill or other run of
the same tree every check passes, so the scripts are right about the library they assume; this is
also the test of the model against the code, since each check of the five trees is evaluated.
`PassIsEarned`: exit code 0 is not reached when a call, or a round of a loop, that matters failed on
the way; it names the calls whose failure goes unseen, two programs that declare a `Revision` and
never read it, and one whose raw step precedes a break.
`LastOneOutCleansUp`: when all processes have ended undisturbed no scratch file is left, except
those that a program deletes while its own store holds them. `CaptureOutlivesSink`: a handler runs
only while the section whose local it writes is running. `NoStaleHandle` and `HandlesReturned`: over
the C interface no handle is held across a write of the C++ side, and all are given back where a
section ends, also when a call answered NULL.

**Why the bounds are enough.** A second login is the first that can double or lose a query, and what
it leaves behind is what a third would find: `bSent` set, or a second round of questions. Three
queries are a value, another kind of value (an attribute, a nested one) and the miss, which are the
cases the handlers tell apart; the Direct run has all five. Sizes matter only at 0 and on either
side of the limit. A clock modulo 4 with a wait of 1 wraps in the middle of the wait. A script is
finite and runs whole; one fault per run is what a check has to notice, and any call or any round of
a loop can be the one (about 306,000 states).
Two processes share a file as many would. A runner treats its harnesses alike: three give one that is
done, one that runs, one to come. Two developers race for master; a third adds no new pair. Where
there is a theorem (section 6) it holds for every value of these constants. `query_light` also runs
with a catalogue that has drifted from the client's table, which this code does not build, so that
its failing checks are exercised; the Direct theorems hold for any catalogue. `programs` has a VIEW
that leaves out the script itself, which `port` determines.

**Fairness.** Each thread that can take a step takes one in the end: weak fairness of each pump and
of main, since no handler blocks and every wait of main is bounded. In the COM harnesses that is one
thread, and its clock advances with each round of the wait. In the other trees that the 15 s elapse
is *not* part of the specification, because then main would leave its wait whatever the pumps do and
a lost answer would go unnoticed; `AlwaysReports` assumes it by name (`TimeoutElapses`). That a dial
is answered and the link stays up is likewise an assumption of the properties that need it
(`DialIsAnswered`, `LinkStaysUp`). The runner is scheduled and a killed process goes, but a harness
or the client script may run for ever, so `RunnerEnds` states the two waits that have no limit. The
properties of `programs`, `mesh_store` and `pre_push` are all safety.

Each property has a mutant of the code that violates it, written before the definition it replaces
(for example `SendsOnEveryLogin`, `PostsHeld`, `NobodyJoins`).

## 4. Findings

1. **Facade `WsaQueryTest` counts replies, not queries** (`query_light_twice`). `onPeerUp` sends all
   queries at each peer-up and the gate opens after as many replies as there are queries, so after
   a reconnection exit code 0, "every query answered", can come with a query unanswered. The Direct
   example has a guard (`m_bSent`).
2. **.NET `WsaQueryTest` can fail a faultless run** (`query_net_count`). The server's handler
   sends the answer before it increments its count, and main compares the count once the client
   has bumped its gate; nothing orders the two. `OnlyTimingFails` shows that this, the timeout
   and the tag main reads from a hub whose handler may still run are the only ways a faultless
   run fails. The COM harness, with one thread, has no such way (`OnlyTimeoutFails`).
3. **.NET `WsaStoreTest` leaves its scratch file when it times out** (`net_scratch`): the verdict is
   returned past `Scratch.Remove`, although `ComHarness.cs` says every harness cleans up.

## 5. Observations

Met while modelling, visible in the models, without a run of their own.

- `ComExamples/run_all.ps1` and the .NET runner read a harness's output to its end before they wait
  with a timeout, so a harness that hangs is never timed out and the servers stay registered, which
  the header says they never do. `RunnerEnds` states it.
- `ps_client.ps1` ends with the number of failed checks; one failed check is exit code 1, which the
  runner scores as a setup failure, although it says the script is "scored like the rest".
- The Com runner says `Start-Process -PassThru` without `-Wait` never yields an exit code; the Direct,
  FieldAccess and Facade runners start their harnesses that way. The Facade runner drops the answer
  of `WaitForExit`, and `Kill($true)` throws, unseen, where that overload does not exist.
- `MgrPersistTestCom.p2p`, `MgrCApiTestCom.p2p`, their .NET namesakes and the facade's positions file
  are deleted while the program's own store still holds them, so the deletion fails and its result is
  not looked at. `LastOneOutCleansUp` lists them.
- The FieldAccess `MgrPersistTest` README has its file removed afterwards; an exception in the section
  skips the removal.
- In the COM and .NET `MgrPersistTest` a comment says the harness deliberately does not look up a
  deleted position, and section 3 does.
- Direct `MgrCApiTest` checks that a missing child answers NULL, which also holds when the lookup of
  the root failed; the Direct and Facade programs declare `Revision` and never read it back
  (`PassIsEarned` has the exception); no C-interface program looks at the answer of taking the sink
  off.
- `EnumEach` and `EnumVars` of `ComHarness.h` answer `S_OK` when `Next` fails on the way, so a loop over
  them that was cut short says it succeeded; the programs notice it by what they count
  (`PassIsEarned`, the fault "enumeration" of `RoundFault`).
- The COM and .NET `RecursTimeTest` say section 7 pushes "into a store with a few hundred nodes in it",
  so that the push makes the heap grow; section 6 has removed its fifty by then and about 35 fields
  are left. The header of section 6 says the walker "answers msgcStale if the tree is mutated under
  it", and its last block that this "is no longer what happens".
- In the COM `RecursTimeTest`, a `timestamp()` that fails reads 0, which is then written back and
  compared with 0: the loop that shows a time does not drift passes (`StampFault`).
- The Facade `RecursTimeTest` does not look at the answer of three `OpenWalker` calls and uses the
  pointer they were to set, which is still null when they fail (`OutOfSight`); after a raw `Next` that
  failed, `Break` leads to the same sibling.
- `ComHarness.h` says every accessor is null-safe; those of the attribute and descriptor wrappers are
  not. `WsaStoreTest.cs` says its shared state is written under a lock; the handler takes none
  (`GateIsBarrier` shows it does no harm past the gate).

## 6. Theorems

All are proved with TLAPS for every value of the constants, from the named assumptions in the
modules: the table of queries has no path twice and is not empty, `Idle` and `None` are none of the
values they stand beside, the sizes are numbers, every commit is its own ancestor, the numbers of
harnesses and of failed checks are natural.

- **`WsaQueryDirectProofs`**: `TypeCorrect`, `SuccessCorrect`, `CountsQueriesCorrect` (no reply is
  counted twice for one query), `TeardownCorrect`, `BarrierCorrect`, `ServiceCorrect`, from
  `Invariant`. `SuccessIsComplete` is not inductive: it needs that the count is the number of
  distinct answered queries, which needs that a query is in one place at a time (on its way, being
  served, on its way back or counted, `EachQueryInOnePlace`), which `bSent` keeps across logins; that
  the event and the verdict speak for a full count (`DoneInv`); and that a zero failure counter means
  each reply seen was as expected (`CountersInv`). Then a full count of distinct queries, all as
  expected, is the whole table. `TeardownInv` says in which order main waits and destroys.
- **`WsaStoreDirectProofs`**: `TypeCorrect`, `SuccessCorrect`, `ScratchCorrect`, `FrameCorrect`
  (nothing empty or oversized is on the way), `TeardownCorrect`, `BarrierCorrect`, `ServiceCorrect`,
  from `Invariant`: the image in any file, queue or handler is the one that was built (`ImageInv`),
  it is posted and rebuilt at most once (`OncePosted`), and event and verdict speak for a handler
  that has finished (`FinishedInv`).
- **`WsaQueryNetProofs`**: `TypeCorrect`, `GateCorrect`, `SnapshotCorrect`, `ServiceCorrect`, from
  `Invariant`: which answers are honest (looked up before the owner's write), what the gate's count
  says of the list, and where main is while the store is as built. `OnlyTimingFailsCorrect` (on a
  link that stays up, no check fails but the timeout and the count of answers that outran it) rests
  on a second invariant over the first, `DeliveryCorrect`: with one login each question is in exactly
  one place, on its way, being answered, on its way back or listed (`DeliveryInv`); what is on its
  way or listed is right for its tag (`RightInv`); which hub is up at which statement of main
  (`HubInv`); and a failed check is one of those two (`FailedInv`). It is from `DeliveryInv` that
  `Compare` finds every tag once the gate has opened. It assumes that the reference table answers
  what the program's table expects (`TableIsRight`) and that `Idle` is no message
  (`IdleAssumption`).
- **`MeshComProofs`**, for both COM harnesses at once: `WaitCorrect`, `OnlyTimeoutCorrect`,
  `StoreSuccessCorrect` and `ServiceCorrect` (the query harness implements `QueryService`, also when
  a reconnection makes it ask twice), from `Invariant`. The wait is proved for every modulus of the
  clock, timeout and nap that fits below it: the tick count minus the start, modulo the width,
  is the time waited as long as that is less than one turn (`ClockInv`), and a wait that looks at
  the clock after every nap never gets further. `WarnInv` says one login owes each hub one sibling
  warning and nothing else, so that the counts of errors come out; `DeliveryInv` and `AnswerInv` do
  for the questions what they do in .NET; `ImageInv` says the bytes in any file, queue or handler
  are the whole image unless a call fell short, and that the check after that call then failed;
  `JudgedInv` and `FailedInv` relate the verdict to the checks. The steps of `ComHarness` are reached through
  three names (its own, the query's and the store's); `QueryIsHarness` and `StoreIsHarness` bring
  them to one, so each step is proved once. The assumptions are those on the clock
  (`ClockAssumption`), on the number of logins (`MaxLoginsAssumption`) and on the constants' values
  being apart (`MeshComAssumption`).
- **`WsaQueryLightProofs`**: `TypeCorrect`, `SuccessCorrect`, `DestructionCorrect`, `VerdictCorrect`,
  from `Invariant`: an increment of the failure counter can lose the other thread's, but the counter
  stays above 0 once a handler has written it (`FailuresInv`); what the gate stands for (`GateInv`);
  whose pump a destructor has waited for (`HubInv`); and, with one peer-up, where each query is
  (`OnceInv`).
- **`MeshStoreProofs`**, for the four harnesses of `MeshStore` at once: `SuccessCorrect`,
  `LightCorrect` and `DisturbanceCorrect`, from `Invariant`, for every table, store, size of an image
  and number of logins.
  *FieldAccess.* `QueryMainIsDirect`, `QueryPumpsAreDirect` and their namesakes for the store show the
  steps of the port to be the original's, so the invariants of the two Direct proofs are carried over
  through an instance of those modules. What the original does not do is proved on its own: the checks
  of the views' writes (`BuildInductive`) and the reply whose read throws (`ThrowInductive`), after
  which the query's invariant no longer holds and need not, since that failure is counted and a verdict
  of 0 falls only while nothing has thrown.
  *Facade.* Main is that of the facade's query, and what is proved of it is used again (`LightMain`,
  through `MainFrame`, `MainHubs`, `MainFails` and `MainVerdict`). Here it is the server's pump that
  races main for the counter: neither writes back a zero (`FailuresInv`), main gets past the gate or
  has failed (`GateInv`), the server's file lives as long as its handler (`FileInv`), and with one
  peer-up the client has let go of its own before anything arrives (`OnceInv`), which is what
  `NoScratchLeft` needs beyond one handler's view.
  *.NET.* The handler takes no lock, so `ArrivedInv` follows its three steps up to the gate; `SetupInv`
  says that nothing comes over the link before the client has dialled, and by then the image is there;
  `WarnInv` that one login owes each hub one warning which nothing overtakes, so that the count of two
  comes out although each hub is told on its own thread; `FailedInv` that a check failing earlier ends
  the process.
  `DisturbanceCorrect` has two hypotheses, both about the program's tables. `ViewsAgree` is what the
  CHECKs beside the views' writes look for, and `TableIsRight` is that the catalogue answers each query
  as the table expects; a program for which one is false reports a failure, as it should. The run's
  instance satisfies both (TLC checked them with the invariants), and the mutant `HeldItem`, which binds
  a view to the cursor, breaks the first. They are hypotheses, not proved of every table, because
  `FieldViews!Built` is a recursion over the writes (see below). `SuccessCorrect` and `LightCorrect`
  need neither.
- **`SuiteHookProofs`**, of `SuiteRunner`: `TypeCorrect`, `PreparedCorrect`, `RemovedCorrect`,
  `ZeroCorrect`, from `Invariant`: which runner can be where (`PlaceInv`), what is registered at each station
  (`RegistryInv`), that a build leaves no executable of an earlier run (`FreshInv`), and that a harness
  left running is scored as failed (`OrphanInv`).
  Of `PrePush`: `MasterVerified`, `HistoryKept`, `TopicsPushFreely`, from `PushInvariant`: every
  master line that a hook in progress has passed is allowed, and stays so while CI runs end and other
  pushes land; the remote's test of the advertised position carries that over to the ref.
- **`TwoHubProofs`**: lemmas about main and about queues that carry tagged messages; the Light, .NET
  and COM proofs cite them through an instance.

Each inductive invariant was checked by TLC on the instance of the run before it was proved. The
refinements are proved step by step: each step of the example is a step of `QueryService` or leaves
its variables as they are.

Only model-checked: all liveness (`Progress`, `AlwaysReports`, `RunnerEnds`), since fairness and
ENABLED are beyond the prover; and what the run `programs` checks (`OnlyDisturbanceFails`,
`PassIsEarned`, `LastOneOutCleansUp`, `NoStaleHandle`, `HandlesReturned`, `CaptureOutlivesSink`). Its
scripts are particular programs without a parameter for a proof to range over, run on a store whose
operators are too large for a symbolic step.
What a recursive definition computes for every input (what the writes of a table of any length have
built, in `FieldViews!Built`) needs induction over data with an operator argument and stays with TLC
too.

## 7. Not modelled

- `DataFieldTest`, `BstrWidthTest` (five trees), `FieldAccessTest`: a check right after each call of one
  thread; what they check of their own is what the library converts and counts (the text of a
  number, the width of a string), and the library is not in the repository.
- `check_repo_invariants.py` and the workflows: a sequential checker over the text of the files; what
  CI means to a push is in `PrePush`.
- `ps_client.ps1`: a sequential script; what the runner makes of its exit code is in `SuiteRunner`.
- The declarations of `MsgcoreComInterop.cs`, the conversion of VARIANTs, endpoint strings, the names
  of error codes, logs and the wording of refusals: formatting and declarations.
- `git push --no-verify` (it skips the hook by design) and `build.ps1 -Clean` (the executables are then
  missing, which the runner's model has).
- The libraries' implementations, which are not in the repository; project files and precompiled
  headers, which have no behaviour.
