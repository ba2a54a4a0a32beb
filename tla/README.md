# A verification development for Priv2

TLA+ models of the setuid tools of this repository: the replacement interfaces
for changing the user (and group) identity of a process, `c/priv2`, and the
program that explores the setuid state graph they are generated from,
`src/GraphExplorer*.h`. TLC checks the models on small instances
(`MC*.tla`, `*.cfg`); TLAPS proves theorems for every instance (`*Proofs.tla`):
about the two interfaces of priv2, the two explorers, the privilege dropping library,
the predicates of the verifiers and the tools. Around the first two stand the older
privilege dropping library `c/priv`, and the programs that normalise a graph, generate
tables from it and verify.

## Inventory

| part of the system | state it keeps | operations | module | status |
|---|---|---|---|---|
| kernel: the setuid family, capabilities (not in the repository) | real, effective, saved ids; permitted and effective capabilities | `setuid`, `seteuid`, `setreuid`, `setresuid` and the group calls | `SetIds` | modelled |
| id state graph, `c/priv2/priv2_graph.c`, tables of `src/ModuleCodeGen.h` | constant tables; a one-entry cache | normalise a pair, ask for reachability, walk, map parameters back | `StateGraph` | modelled |
| users-and-groups interface, `c/priv2/priv2.c` | the credentials of the process | `change_identity_permanently`, `change_identity_temporarily` | `ChangeIdentity` | Linux modelled |
| user-ids-only interface, `c/priv2/priv2_setuid.c` | a mutex; a `ucred_t` per call | `change_uid_permanently`, `change_uid_temporarily` | `ChangeUid` | modelled |
| state graph, `src/GraphImpl.h` | vertices, edges, predecessors | generate calls, `addEdge`, `getPath`, `getPredecessor` | `CallGraph`, `SetuidGraph`, `ModuleGenerator` | in part |
| explorer, `src/GraphExplorerImpl.h`, `src/ForkImpl.h` | the graph, set and queue of states, two buffers of forks, a fork counter | `exploreAll` with its forked processes | `GraphExplorer`, `Exploration` | `exploreAll` modelled |
| privilege dropping, `c/priv/priv.c`, `src/PrivWrapper.cpp` | the credentials of the process | `drop_privileges_permanently`, `drop_privileges_temporarily`, `restore_privileges`; helpers used by priv2 | `Priv`; helpers also in `ChangeIdentity`, `ChangeUid` | modelled, on four systems |
| single calls of the verifier, `IndividualCallExplorer` of `src/GraphExplorerImpl.h` | a queue of processes not waited for | `exploreOne` | `IndividualCallExplorer` | modelled |
| verification, `src/GraphVerificationImpl.h`, `src/APFunctorImpl.h` | none | POSIX predicates over edges, sanity of the calls, of priv and of priv2 | `Verification` | modelled |
| normaliser, `Normalizer` of `src/GraphVerificationImpl.h`, `test/NormalizeGraph.cpp` | the numbering of the uids, the new graph | number, visit an edge | `Normalizer` | modelled |
| code generator, `src/ModuleCodeGen.h`, `src/VisitorAccumulatorImpl.h` | the rows being generated | states, calls, adjacency, predecessors, privilege jumps, lookup | `ModuleGenerator`, tables in `StateGraph` | modelled but for the C text |
| visitor templates, storage, drivers | none, or files | traversal, reading archives, command lines | what the above need of them | rest not modelled |

How they interact: the drivers run the explorer as root, which forks a process
per state and per call and merges what comes back through pipes. The archive is
normalised and `ModuleCodeGen` prints its adjacency and predecessor tables as C.
`priv2_graph.c` walks these tables, `priv2.c` decides what to walk and when to
change groups, `priv2_setuid.c` locks and calls `priv2.c`. All credentials
are the process's, shared by its threads.

What makes each part correct, and what is hard to test in it:

- *priv2*: a permanent change leaves nothing of the old identity and stays final;
  a temporary one leaves a way back; an error means nothing changed; the asserted
  system calls never fail. These are properties of sequences of calls from any of
  the many triples of ids, and of the order of user and group changes.
- *priv2_setuid*: what is read before the lock is used after it; the lock is given
  back on every path.
- *explorer*: no state lost or explored twice over two buffers, failed forks and
  answers in any order; a forked process's copy of the graph, though outdated,
  leads to its state; the whole graph on return; termination.
- *priv*: dropping and restoring form a round trip; a permanent drop is final; a
  failure between two calls must not lose the way back.
- *verification*: the passes that should be silent are, and what the others
  report is what the kernels do differently.
- *normaliser, generator*: the renamed graph is one a kernel has; the tables are
  those the walker reads, whatever order equal distances are taken in.
- *exploreOne*: processes that are not waited for stay few, and the loop ends.

The hazards, one by one at their lines, are in `PROJECT.json`.

## The modules

### SetIds, StateGraph, ChangeIdentity

`SetIds` is the environment: which calls the Linux kernel allows a process, and
what they do to ids and capabilities. `StateGraph` is the generated graph. The
tables `adjacency_matrix`, `predecessor_matrix` and
`effective_privileged_states` are not listed but defined by what the generator
puts into them: the vertices are all triples (root reaches them all), the first
call of a cell is the first in the generator's order of calls
(`CallsTo`, `Adjacent`), a predecessor row is a shortest-path tree. Dijkstra runs
with weights that archives do not carry, so which of several equally good
predecessors a row names is open: `Walks` is the set of the possible walks and
every property is checked for all of them. Walks have at most two calls: one to
an intermediate state made of the process's own ids, one on.
`NormalizeUids` and `NormalizeGids` number ids in the order they are met (`IdMap` is
the map once all were); a pair that does not fit it has `fits` false and the planner
asserts.

`ChangeIdentity` follows `change_identity_linux`. A thread is at `"basic"` (about
to read credentials), `"timing"` (about to decide when to change groups),
`"fallback"` and `"forced"` (the same two for the capability attempt), `"run"`
(making the calls in `todo[t]`), or has a result: `"ok"`, `"EINVAL"`, `"EPERM"`; `"aborted"`
is a failed `assert`, which ends the process (the code puts side effects into
`assert`, so `NDEBUG` cannot be meant). Between two system calls the code only
computes on the last reading, so `Basic` and `Fallback` are `fill_pair`
with the checks around it, `Timing`, `Forced` and `ElevatedPlan` settle the calls to
come, and each system call is an action of its own (`SetUids`,
`SetGids`, `SetSupplementary`, `Abort`). `FillPair` is the search over the 25
candidate pairs: the first of those with the least `Severity`, where a failed
assertion ends the search like a success. `set_cap_*` edit a copy of the
capabilities that is never installed; the model has no action for them because
they change nothing. Abstracted: lists of groups are sets (the code sorts them
and removes duplicates), an insane request is one value, `get_pcred` never fails.

### ChangeUid

Extends `ChangeIdentity` with the mutex. `Fill` is `fill_ucred`, before the lock;
`Lock` takes the mutex and enters the interface; `Inside` is any of its steps;
`Unlock` returns. An empty group list is read as `{0, NULL}`, the don't-change
list. The set-id functions act on the whole process, as glibc's do.

### CallGraph, GraphExplorer, Exploration

`CallGraph` has the graph to be found: `States`, `Calls` and the kernel as
`Step[v][c]`. `HasPath(E, v)`, that `getPath` succeeds, is stated by closed sets,
so that it can be reasoned about without recursion. `GraphExplorer` is
`exploreAll`: `phase` says whether the explorer is in `dispatchForkStates` or in
the reading loop of `bufferForkStates`, `reading` which buffer is the read
buffer. A forked process touches nothing of the explorer but its pipe, so it is
one step, `ExploreState`, from the copy `seen[v]` of the graph it was forked
with; it dies if the copy does not lead to `v`. `ForkFails` is `run()` returning
-1, `ExploreFails` a process that could not fork for one of its calls: `wait()`
then fails an assertion and the explorer reads an empty pipe (`ReadFails`). The
first dispatch of `exploreAll` and the one after each read are the same action;
the model therefore starts in `"dispatch"` with buffer 2 as the empty buffer just
read. `Exploration` is the promise: the graph grows by all calls of one state it
leads to, and ends when there is none left.

### Priv, Verification

`Verification` has the predicates: `Priv2Sanity` and the sanity functions of
`GraphVerificationImpl.h`, and the functors of `APFunctorImpl.h` with their
"appropriate privileges" variants. An edge is a record of the function, the
parameters, the value and the errno; a predicate takes it with the uids before and
after. The drivers' passes are `SaneSetuidEdge`, `SanePrivEdge`, `CleanEdge` and the
debug passes `RootHasAP` and `NonRootHasNoAP`.

`Priv` is one process and one library, compiled in one of several ways: `build`
has the system, whether groups are handled and whether `/proc` is there. A call
of the library goes through stages (groups list, gids, uids, look at the result, look
at the filesystem ids; `First` and `Following` say which) and each kernel call of a
stage is an action (`KernelCall`), so a failure leaves what was done before it. Where there is no
`setresuid`, `calls` has two entries and either may be refused. The kernels differ in
`KernelAllows` and `KernelResults`; what Darwin's `setreuid` does to the saved id is
nondeterministic. `solaris_set_gids` takes a failed `writev` for a good one, so a
write that changes nothing may go unnoticed until the last look. `Return` gives
control back and remembers an identity that a restore may bring back (`dropped`);
`retired` is the identity an ordinary user has taken on for good. In the
builds whose graphs are collected the process also calls the setuid family
directly (`DirectCall`), as `SetuidPrivEdgeGenerator` mixes both kinds of edges.
`Priv2Sanity` is checked of the results of `ChangeIdentity`.

### SetuidGraph, Normalizer, ModuleGenerator, IndividualCallExplorer, Toolchain

`SetuidGraph` is the explored graph as an archive holds it: states, generated calls in
the order of `operator<`, and an edge per call and state, failures included.
`Normalizer` numbers the sorted uids one at a time (`NumberUid`), then visits a
vertex per step and renames its edges (`VisitEdges`); `mapUID`'s assertion is a step
to `"aborted"`. `ModuleGenerator` builds a row of the adjacency matrix, of the
predecessor matrix and of the jumps at a time. The weights of edges are not
archived, so `Expand` takes any vertex that has a distance: the run covers every
order Dijkstra's queue may have, and every row that can come out. `StateGraph`
describes the same tables from the walker's side; the properties compare the two.
Only the fact that a row is a walk of `Walks` is needed there. A state whose jump has
no way back fails the accumulator's assertion: `StartRow` then leads to `"aborted"`.

`IndividualCallExplorer` is `exploreOne` called `NumCalls` times. A process is running,
has written, is a zombie or died; the explorer reads an answer and waits for the
oldest process only when `ForkLimit` have piled up. `pipe()` fails when `openFiles`
is at `MaxFiles`, `fork()` when the process slots are taken, and the explorer sleeps
and retries. `assertions` says whether the build evaluates `ASSERT`: the two ends of
the pipe are closed inside it. `Toolchain` runs the three programs one after the
other, since they meet in archives only: `Normalize`, `GenerateCode`, `Generate`,
`RunVerification`.

## The runs

| run | asks | instance |
|---|---|---|
| `identity` | Every property of priv2 without extra capabilities: types, no failed assertion, all parameters mapped, permanent and temporary promises, way back, honest refusals, finality; and no complaint of `Priv2Sanity`. | uids 0-3 in every starting triple, two gids with a process in group 10 and a setgid-like one, two group lists, any sequence of requests |
| `identityCaps` | What is left with any capability sets? An error leaves everything alone, and all parameters are mapped. | uids 0-2, all capability sets |
| `identityCapsPermanent`, `identityCapsTemporary` | Are two promises kept with capabilities: that a permanent change sets all three uids (`priv2.h`, `Priv2Sanity`), and that a temporary one keeps the old effective uid (README of the repository)? Violated. | the same |
| `identityDontChange` | Is the don't-change list respected? Violated. | uids 0-2 |
| `identityGidMap` | Is there room for the gids of a pair? Violated. | three gids |
| `changeUid` | Two threads through the mutex: stale `ucred_t`, promises, lock given back. | two threads, uids 0-2, two gids |
| `changeUidGroups` | Are groups left as they are? Violated. | the same |
| `explorer` | Nothing lost or repeated, the limit, paths in old copies, completeness, termination, refinement of `Exploration`. | the 8 triples over two users, 5 calls, half of the states unreachable by a jump, limit 3, two failures |
| `priv` | What do drops leave, what does a restore bring back, what does a failure half way lose, and which passes of the verifiers report something? | uids 0-2 in every starting triple without groups on Linux and Solaris (with and without `/proc`), Darwin, AIX; with groups, root and two kinds of set-id programs with all combinations of a list and a gid |
| `tools` | Is a renamed graph an explored one, are the printed tables what the walker takes them for, is the verifier's use of processes bounded and does it end? | uids -1, 0 and three users (tables of all 64 states), one user, a uid of 2^31 or more, no -1; 10 calls, the limit of 8, 8 descriptors, 7, 8 or 12 process slots, assertions on or off |
| `explorerRetry` | Is a failed fork tried again? Violated. | limit 2, one failure |

*Bounds.* Three unprivileged uids are as many as a request and a process without
0 tell apart on the way to a violation of any candidate rule; a fourth distinct
value in a pair would only rename them. The graph's `MaxNormalizedIds` is 4 where
the default build has 6; a pair here has at most three non-zero uids, so as in
the default build uids always fit. Calls may follow each other without end: the
state is finite without a cut. For the explorer, a limit of 3 with 8 states makes
both buffers hold forks while the queue does, and two failures cover one after
another and one in each kind of fork. `MaxFaults` is the only counter bound.
`CHECK_DEADLOCK FALSE` is set because a process that failed an assertion, an
explorer that returned or crashed, really stops; `priv` and `tools` check deadlock.

In `priv`, three uids let real, effective and saved one all differ, with and without
root among them; sequences of calls have no bound. With groups one more gid than
root's is enough, for a gid is root's, the process's own or neither. In `tools`,
`MaxNormalizedIds` is 3: a state has at most three different ids, so a row of the
tables meets every pattern of equal and different ids, root's included. The limit
of 8 is the code's; ten calls make the queue reach it and go on; with eight
descriptors a build without assertions runs out of them, and 7 slots are one too few.

*Fairness.* The identity runs check safety only. In `ChangeUid` a thread that
holds the mutex is scheduled again; nothing is assumed about who gets the mutex,
so the property is that it is released, not that everyone gets in. In
`GraphExplorer` the explorer blocks on nothing but the pipe of a process, and
the kernel runs each process: weak fairness of `Explorer` and of each
`ExploreState`; none for failures. `CallFairness` is the same for `exploreOne`: weak
fairness of the explorer and of each process it forked, which is what a scheduler
gives runnable processes. A process may write or die; both are progress. Which
limit is in force is chosen once, and no fairness is assumed of it.

### What the violations show

1. The capability path (`priv2.c:353-364`) plans with a spoofed effective uid of 0.
   A process that has only `CAP_SETGID` is then prescribed calls for a privilege
   it lacks; a permanent change returns 0 with the old saved uid in place. The header
   promises a permanent change "of a process to that of the given user", and the
   repository's own `Priv2Sanity` asserts all three uids.
2. Conversely a process with effective `CAP_SETUID` and no uid 0 gets more from
   `setuid` than the graph says, and a temporary change loses the old uid.
3. `change_identity_elevate_for_sups` passes the don't-change list to
   `set_sups`, which as root means `setgroups(0, NULL)`.
4. `normalize_single_gids` asserts a counter below 3 although the map holds
   `ID_MAP_SIZE` gids.
5. `change_uid` says groups are left as they are; the real and saved gids move.
6. `dispatchForkStates` is only called again after a read: if a fork fails with
   nothing left to read, `exploreAll` spins.

The README of the repository calls the users-and-groups interface unsound for
general use. 2 and 5 also concern the user-ids-only one; 1 does not, for it takes a
request for another gid.

### What the passing runs show beyond the inventory

- A temporary drop can be undone exactly, on all four systems, when the effective
  ids are also real or saved ones. If not, nothing keeps them, and the comment above
  `drop_privileges_temporarily` promises more than that; the property says so in its
  premise.
- A temporary drop that fails, also between `setreuid` and `seteuid`, never loses an
  old effective uid that the real or the saved one held too.
- On Linux the sanity passes complain of one kind of edge, a permanent drop to uid 0,
  which succeeds; so nobody should take their output for a fault of the library.
- The clean reading of POSIX holds on Linux and on Darwin. The strict one holds of
  Linux, and the only ordinary user who looks privileged there is one that passes
  `seteuid` an effective uid that is neither real nor saved.
- `Priv2Sanity` has nothing to report of any sequence of calls of priv2, with one
  reservation. It expects a call for uids the process has to succeed; a request for a gid
  the process does not have, or for other groups, may be refused all the same
  (`ExistingUidSucceeds`; in `GraphVerificationImpl.h` the condition on the gid is
  commented out).
- Renaming is faithful even for uids that stay negative; but then the ids have a
  hole, and the tables `GenerateCode` would print do not fit their own
  `MAX_NORMALIZED_IDS`. Without -1 among the uids the normaliser stops at the first vertex.
- Whatever the generator meets first, it finds a jump for each state that needs one, and
  what it prints there is what `suid_privilege_is_attainable` would find by searching.
- The tables do not depend on the order in which equal distances are taken in any
  way the walker could notice.
- `exploreOne` needs as many process slots as its limit: it waits for no process
  while it retries, so with fewer it sleeps for ever.

## The theorems

Theorems are about the specifications TLC runs, with their constants left open.
They use no fairness. Each safety property needs an inductive invariant, for hardly
one says enough to survive a step by itself; this section says what had to be added.
The proof modules follow the specifications' own division.

### GraphExplorerProofs: for every kernel, limit and number of failures

- `TypeCorrect`, `ForksBounded`: `TypeOK` and `ForkBound`. `TypeInv` adds that the
  counter is the length of both buffers together, or it could fall below 0.
- `StatesOnce`: `EachStateOnce`. Only `Fork` and `Read` move states; each has a
  lemma about where its state leaves and arrives (`OnceFork`, `OnceRead`).
- `PathsAlwaysExist`: `PathsExist`. `PathInv` adds that the graph has all edges of a
  state or none (`WholeStates`), and that the states met are the start and those that
  edges lead to, with a path in the graph as it is now (`MetByEdges`,
  `MetHavePaths`). A copy is older than the graph, but the path to the state it was
  made for was in it and a path cannot go away (`PathMonotone`).
- `ReturnsWhole`: `Complete`. With both buffers and the queue empty (`DoneIsEmpty`)
  every state met is explored, so the states met are closed under calls.
- `ExplorerImplements`: `Implements`. A `Read` of a whole answer is one exploration of
  `Exploration`, its end is the end, every other step changes nothing there.
- `ExplorationIsWhole`: `Implements` implies `Complete`. `AbstractInv` says of
  `Exploration` alone that its graph has all edges of the states explored, and a path to
  each state met; so it is a specification of `exploreAll` and not only of its steps, and
  `Complete` holds a second time, by the refinement.

The assumptions are those the modules name: finitely many states with the start among
them, at least one call, `Step` total (a failed call leads to where it started), a
limit of at least 1.

### CallExplorerProofs: for every number of calls, limit, descriptors and slots

- `ZombiesAreBounded`: `ZombiesBounded`. `CallInv` adds which processes the queue names:
  they are consecutive, everything older was waited for, nothing younger exists
  (`QueueInOrder`, `ChildrenInOrder`). Without it nothing says that `Trim` frees a slot.
- `SlotsAreNeeded`: `NeedsItsSlots`. With fewer slots than the limit the queue never
  fills, nothing is reaped (`NothingReaped`), and `fork` refuses the call after the
  last slot (`ForkNeedsSlot`).

### StateGraphProofs, ChangeIdentityProofs: for all ids and all sizes of the graph

The lemmas of `StateGraphProofs` say what the tables mean. A vertex is a triple and
back (`LookupInverse`, `VertexIsLookup`); an edge is there exactly if some call is
allowed and leads there, and the call of the cell does (`EdgeIff`,
`FirstCallLeads`); whoever has a 0 reaches everything, others the triples of
their own ids, in at most two calls (`ReachedIff`, `WalksAre`); `IdMap` lists each
id once (`IdMapIs`), so numbering is injective and back again the identity
(`UidsNormalize`, `GidsNormalize`); and the kernel treats the ids of a process as it
treats their numbers (`CallFollows`). That last lemma is why a graph over a few
numbers can speak for all ids.

`ChangeIdentityProofs` proves of `Spec` with one calling thread:
`ChangeTypes`, `WalksAreMapped`, `NoAssertionFails`, `NothingIsLeft`, `OldIdsAreKept`,
`TheWayBackIsOpen`, `RefusalsAreHonest`, `PermanentIsPermanent`,
`FailuresChangeNothing` and `VisitorConfirms`, which are all the invariants of the
runs `identity` and `identityCaps` and the temporal property
`PermanentIsForever`. The argument:

- *The calls left lead to the target.* `Leads(w, x, y, l)` says that there is a trace
  of credentials from x to y in which each call of w is allowed and does the next step.
  The lists `set_uids_from_graph` and `set_gids_from_graph` may prescribe lead
  (`UidWalkLeads`, `GidWalkLeads`), and so do their concatenations (`LeadsOn`).
- *fill_pair is right about what is reachable* (`JudgementIs`, `FillPairIs`,
  `FillPairGives`), and all its candidates keep the promise (`CandidatesFit`).
- *Each order of changes works* (`BasicPlansLead`): with the groups first the process
  is root already or needs no privilege; with them last it is root by then; with an
  elevation it gets to uids that are all 0 (`ElevationsLead`) and the plan made there
  leads on (`FullPlansLead`).
- *The invariant of a thread* (`ThreadIs`) has at each place what the code has
  established: the credentials are those of the call until the first system call; in
  between, the calls left are `Settled`, that is, they lead to the target or to the stop
  where the rest is planned; a refused request asked for something the process does
  not have. One lemma per action keeps it (`CallKeeps` ... `AbortKeeps`,
  `StepKeeps`). The properties only look at the end; `Settled` is what carries
  the promise there.
- *Finality*: `Moves` says that no call brings a process without privilege an id it does
  not hold, so one that holds a single one keeps it.

Three of them, `ChangeTypes`, `WalksAreMapped` and `RefusalsAreHonest`, hold whatever
capabilities the process has, and so does `FailuresChangeNothing`. There the argument
above fails, for a plan made on a spoofed effective uid may be refused or end elsewhere.
`CapInv` says less: the calls left are `Doable`, that is, over the ids of the model and
mapped (`UidsDoable`, `GidsDoable`, `BasicPlansDoable`, `FullPlansDoable`), whatever the
credentials they are made from; a call the kernel does allow brings in no other id
(`AfterWithin`); and the first `fill_pair`, which reads true credentials, has decided on
a refusal.

Their hypotheses, each satisfied by the instances TLC runs:

- `Alone`: one thread. Two threads calling the interface at once may well break its
  promises; nothing in `priv2.h` says otherwise. `ChangeUid` adds the mutex.
- `Wide`: `MaxNormalizedIds >= 2`, since a gid map may hold two ids (the build has 6). With a
  smaller graph a gid could have a number no vertex has.
- `Unaided`: no process has capabilities but by a uid 0. With others the promises are
  broken, as violations 1 and 2 above show. The four theorems just named do without it.
- `Roomy`, where no assertion may fail: graphs of five numbers or more, as four ids other
  than 0 are the most a pair brings, or at most `MaxNormalizedIds - 1` ordinary uids; and at
  most two gids, because of violation 4.

### ChangeUidProofs: for any number of threads

- `UChangeTypes`: `UTypeOK`, mutual exclusion included.
- `UcredsHold`: `UcredStillHolds`. This is inductive only together with the invariant of
  the thread inside: what it is about to set the gids and groups to is what its own
  `ucred_t` names, and that is what the process has (`Names`), so the copies of the
  threads outside stay true as well.
- `PromisesAreKept`, `NoThreadAborts`: `PromiseKept` and `AssertionsHold`.

`UInv` has the `ThreadInv` of `ChangeIdentityProofs` for each thread; threads outside
the mutex are idle and a step is local to its thread (`StepIsLocal`, `OthersStay`).
Hypotheses as above but for `Alone`.

### PrivProofs, PrivUndoProofs: for all users, groups, requests

`PrivProofs` begins with lemmas on the predicates of `Verification`: an edge made by the Linux
kernel's rules is confirmed by the clean passes (`KernelIsClean`) and the sanity
passes (`KernelIsSane`); root shows appropriate privileges (`RootShowsAP`), an
ordinary user but for one kind of edge does not (`OneIrregularity`); and Linux meets the
strict reading of `setreuid` as well (`StrictSetreuid`).

- `TypesAreCorrect`: `PTypeOK`. `TypeInv` adds what the running function has asked for
  and set so far (`StageFits`, `AskedFits`, `CallsFit`, `UntouchedFits`).
- `PermanentStays`: `PermanentIsForever`, on all four systems. `PermanentInv` adds that
  between the two last looks the identity is the one asked for.
- `CleanPasses`, `DebugPasses`: `CleanPassesReportNothing`, `LinuxIrregularities`;
  `DirectInv` says that a direct call's edge is one of the kernel's.
- `FailedDropIsUndoable`: `FailedDropKeepsOld`. `DropInv` says it after each kernel
  call, not only at the return.
- `DropAndRestore`: `RoundTrip`. `UndoInv` says what a drop leaves behind and, stage by
  stage, what a restoration has brought back; `GroupsInv` what happens to groups.
- `SanityPasses`: `SanityReports`. `LinuxInv` says that on Linux a failure changes
  nothing and a look at ids just set never fails.

They rest on `PrivAssumption`: users and groups are numbers with root's among them, the
parameters are of these or -1, the starting processes have such ids on one of
the four systems.

### ToolchainProofs: for every set of uids, every size of the tables

The three programs share no variables (`ToolNextInv`), so there are two arguments.

*The normaliser.* The generated calls are every call once, in order (`CallsAre`,
`CallsWhich`), and a vertex has one edge per call (`OnePerCall`, `OutEdgesAre`). A map of
uids that is injective and keeps root and -1 (`Renames`) renames the calls over one set
to those over the other and commutes with what the kernel answers, so the renamed edges
of a vertex are the edges of the renamed vertex (`EdgesRenamed`). What remains is that
the map being built is such a map. `Numbering` and `Numbered` say so of the part
numbered so far (uids in ascending order, positive ones by `counter`, negative ones
themselves), `Searching` says where the search has still to go, and `Visited` is what
is to be proved, of the vertex visited last.

- `RenamedGraphIsExplored`: `RenamedIsExplored`, from `Visited`.
- `NormalizedIdsAreTableIds`: `IdsAreTableIds`. Without a uid below -1 the counter
  runs through all numbers; a uid that stays negative leaves one out.
- `RenamedGraphIsReversible`: `GraphIsReversible`, by the calls that show it.

*The generator.* It numbers calls by its own order; the walker's module takes, of the
calls that lead from one state to another, the first of a list. `Place` is the number of
a call in that order, written to the base of the number of parameters, and the list is
in ascending places (`CallsToOrdered`), so its first is the cell's (`FirstOfIs`). The
search of a row has three moments: nothing but the row itself is known (`RowStarted`),
its neighbours are (`RowNear`), everything reachable is (`RowEverything`); an expansion
leads from one to the next or changes nothing (`ExpandInv`), and at the last every
predecessor is the row or one privileged neighbour of it.

- `GeneratedAdjacencyAgrees`: `AdjacencyAgrees`.
- `GeneratedRowsAreWalks`: `RowsAreWalks`, in whatever order vertices of equal distance
  are taken. With this the walks that `ChangeIdentity` and its theorems take for granted
  are the ones generated.
- `GeneratedJumpsAreStops`: `JumpsAreStops`. That the assertion holds is `JumpExists`:
  a state with root's id as real or saved one can put it at the effective place and come
  back. Then the jump reaches every target, and a state without root's id has no stop.
- `ToolTypeCorrect`: `ToolTypeOK`.

They rest on `UidSetsAssumption` (finite sets of ints with 0 among them, what the
program reads into a `std::set`), `MaxIdsAssumption` and the assumptions of
`IndividualCallExplorer`.

### What is only model-checked

`Termination`, `LockReleased` and `VerifierFinishes` need fairness, which is out of
the prover's reach; all other properties of the passing runs are theorems. Under file
capabilities each of the promises not named above is broken: TLC finds it violated on the
instance of `identityCaps`. Two of these violations are runs: of the uids of a
permanent change, which the header and the verifier promise, and of the previous
effective uid after a temporary one, which the repository's README promises.
`FailureChangesNothing` and the rest are proved of one calling thread; of several, only
with the mutex of `ChangeUid`.

## Not modelled

Of priv2, the Solaris branch (a copy of the basic path; the build's target is Linux).
Of priv, FreeBSD's group list, in which the first entry is the effective gid. The printing
of C by `CodeGen.h` and of reports; archives on disk; command lines; failures of
`malloc`, `getgroups` and of the reading half of `get_pcred` other than a missing
`/proc`; uid `-1` as an id of a process (a kernel gives it to none). `Priv2State` and
`Priv2EdgeGenerator`, which multiply the calls of the verifier by group lists: its
check is made of `ChangeIdentity`'s own requests instead. `fsuid` is taken to follow
the effective uid, as Linux has it. State processes are never waited for by
`exploreAll` and stay zombies until it ends; their process slots are not counted
beyond the failures they cause.

## Left to do

- Extending `ChangeIdentity` by the Solaris branch, and `Priv` by FreeBSD's group list,
  each with the theorems of the branch beside it.
- The verification of group lists by `Priv2EdgeGenerator`, with its unsorted lists.
- Reading credentials in several steps, for a process that changes them in
  another thread without the mutex; today a reading is one step, which is what a
  process with one calling thread sees.
