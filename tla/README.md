# ackOS: a verification project

ackOS runs one state transition at a time through a governed lifecycle:
observe a resource, propose a state, authorize the transition, let a provider
execute it, let independent evidence confirm it, and only then commit it to the
authoritative root. This directory holds TLA+ models of that machinery, the
TLC configurations that check them on small instances and the TLAPS proofs of
what matters most for every instance.

Run a check with `tlc -config MCKernel.cfg MCKernel`, a proof with
`tlapm KernelProofs.tla`.

## 1. Inventory of the system

| Component | State | Operations | Talks to |
|---|---|---|---|
| kernel `Runtime` (`kernel/kernel.go`) | phase, observation, proposal, transition, decision, authority, the attempt's channel, completion time, result, `verificationActive` | Observe, Normalize, Reconcile, Govern, Reserve, Start, Verify, Commit, Recover | called by Host and the MCP server; calls an Executor and a Verifier with `r.mu` released |
| `StateStore` (same file) | the committed root | Root, CompareAndSwap | only Commit writes it |
| lifecycle gate (same file) | one token in a channel | AcquireLifecycle, ReleaseLifecycle | Host, MCP server |
| provider gate (`control/provider_gate.go`) | busy flag and owner per provider name and Host | tryEnter, leave, callProviderWithGrace | one goroutine per provider callback |
| `Host` (`control/host.go`) | providers, gates; a WaitGroup per Control call | Register, Control | Runtime, gate, providers |
| adapters (`control/provider_adapters.go`) | one call's results | Execute, Verify | between Runtime and a `control.Provider` |
| memory provider (`integrations/memory`) | one resource: state, version, last execution ID | Observe, Execute, Verify, Set | Host |
| synthetic provider (`integrations/synthetic`) | as above | the same, against the kernel's interfaces | MCP server |
| MCP server (`integrations/mcp/server.go`) | its own provider gate | the `ackos_control` tool | Runtime, provider |
| HTTP adapter (`integrations/mcp/http_api_adapter.go`) | none | observe, mutate and verify over HTTP | a remote API |
| Git file provider (`integrations/git/provider.go`, `ref.go`) | a branch of a repository | Observe, Execute (compare-and-swap of a ref), Verify | git subprocesses |
| Git trees (`provider.go`, `tree.go`, `read.go`) | none | readPath, replacePath, flattenTree, compareTreeLeaves | the Git provider |
| Git plumbing, commands | none | argument checks, parsing, start-up | |

### What is hard

* **Concurrency.** `Start` and `Verify` give up `r.mu` around foreign code and
  come back to a Runtime that may be in another attempt. `Start` reads the
  observation after unlocking. Callbacks outlive the calls that made them.
* **Order.** A lifecycle is released by a goroutine of its own, after the last
  callback but before the gate is left.
* **Time.** Evidence is ordered by wall-clock times; deadlines race answers.
  `.UTC()` strips Go's monotonic reading, so the clock may be set back.
* **Failure.** An execution reported as failed may have had its effect, or have
  it later. RECOVERY must stay reachable and must stay recoverable. A git
  process may die after its compare-and-swap, an HTTP answer may be lost after
  the change was made.
* **Other writers.** Branches, files behind the API and resources of the
  providers are moved by programs that take no part in any lifecycle.

There is no persistence and no restart to model: the Runtime lives in memory
(`docs/ARCHITECTURE.md`, "V0 guarantees and boundaries").

### What makes each component correct

* Runtime: one execution at a time, authorized by the evidence it was given;
  one verifier per attempt, judging that attempt; commit only on evidence made
  after completion; the root changes by nothing else; recovery takes new
  evidence and is never a dead end.
* Gates: callbacks never overlap; the lifecycle is neither lost nor doubled;
  callers are answered although providers hang.
* Host: a late Execute never acts in a later lifecycle; what a caller relied on
  is what is replaced; every authorization is fresh.
* Providers: a write only of the authorized version; verification only of the
  execution's own effect.
* MCP server: the same as for the Host, through another gate, and error codes
  that belong to the call they are reported for.
* Git: an ambiguous ref update is settled truthfully; only the named file
  changes; what Execute builds and what Verify accepts are the same change.
* HTTP adapter: what a caller is told is true of what the service did, and
  nothing is submitted twice.

## 2. Modules

| Module | Models |
|---|---|
| `ControlBoundary` | abstract: what the kernel promises its environment |
| `Kernel` | `kernel/kernel.go`, any number of concurrent callers |
| `KernelInvariant`, `KernelProofs` | the inductive invariant, the theorems |
| `ProviderGate`, `ProviderGateProofs` | gate, WaitGroup, lifecycle token, per goroutine |
| `MemoryProvider` | `integrations/memory/provider.go` |
| `Host` | `Host.Control`, composing Kernel and MemoryProvider |
| `HostInvariant`, `HostProofs` | two inductive invariants, the theorems; `Host` implements `Kernel` |
| `SyntheticProvider` | `integrations/synthetic/provider.go` |
| `MCPServer` | the `ackos_control` tool: the provider gate, its goroutines and deadlines, composing Kernel and SyntheticProvider |
| `MCPInvariant`, `MCPServerProofs` | two inductive invariants, the theorems; `MCPServer` implements `Kernel` |
| `MCPExecution`, `MCPExecutionProofs` | how an execution's outcome becomes a tool call's error code |
| `BranchRegister` | abstract: what replacing one file of a branch promises |
| `GitFileProvider` | the Git provider's Observe, Execute and Verify, many Hosts and other writers on one branch |
| `GitFileInvariant`, `GitFileProviderProofs` | the inductive invariant, the theorems |
| `GitTree`, `GitTreeProofs` | the Git provider's tree algorithms; the invariant and the theorems |
| `HTTPAdapter` | the HTTP adapter's tool call, the service and the network |
| `HTTPInvariant`, `HTTPAdapterProofs` | the inductive invariant, the theorems |
| `MC*` | instances for TLC |

`Host` and `MCPServer` compose with `Kernel` by extending it. `GitFileProvider`
stands beside them: a Host with this provider is here the lifecycle as
`ControlBoundary` describes it, one per client, and that this is what the
clients' steps amount to is checked and proved (`BoundarySpec`).

### How state and actions correspond to the code

**Kernel.** The variables up to `executionResult` are the fields of `Runtime`
and `StateStore`. A channel is a number: `executionDone = n` is the channel made
by the n-th Start, `closed` the channels closed; so comparing channels compares
attempts. A method that holds `r.mu` throughout is one action. A call that fails
its checks and changes nothing is a stuttering step. `Start` is three actions:
the locked check and reservation (`Start`), the read of the observation after
unlocking (`StartSnapshot`), and, after the executor returned, the locked
completion (`StartComplete`). `Verify` is reservation (`Verify`), the select
(`VerifyCancel`, or the channel side of `VerifyWake` with the second locked
look), the verifier's answer judged against a clock reading without the lock
(`VerifierReturns`, `VerifierFails`), and the locked verdict (`VerifyAccept`,
`VerifyReject`). `pc[p]` and `local[p]` are the goroutine's place and its local
variables.

SHA-256 fingerprints are the records of the fields they seal, i.e. hashing is
taken to be injective. An execution ID is the pair of a transition and a clock
reading, which is all `randomExecutionID` hashes. Caller-supplied evidence is
any sealed observation, or one whose time was rewritten after sealing.

**ProviderGate.** `pc[r]` is the goroutine of a Control call inside
`callProviderWithGrace`, `callback[r]` the goroutine that runs the provider's
function; its last four statements are four steps since other goroutines see
each of them. `refused` remembers who got `ErrCallbackInFlight`.

**Host** EXTENDS Kernel and conjoins each of its actions with the next step of
`Control`. `effect[p]` follows the Execute callback, which may write the resource
when nobody waits for it any more; the lifecycle is kept until it has returned,
as `ProviderGate` shows. Observe and Verify callbacks only read; one that
outlives its deadline is not followed, nor is the gate's refusal, which for the
kernel is a provider that failed. Other writers may change the resource at any
time.

**MCPServer** also EXTENDS Kernel. The server gives the lifecycle back when a
call returns (`ReleaseLifecycle`), not when its callbacks have; so callbacks of
every kind are followed to their end. `gate` is the channel `providerGate`;
`callback[p]` the goroutine that holds its token, first running, then `answered`
but with the deferred release to come; `result[p]` the buffered channel on which
it answers. A caller whose deadline passes, while it waits for the gate or for
the answer, leaves both alone (`Abandon`) and reports a failure to the kernel.
A callback's context may be over before it starts, since `acquireProvider` takes
a free gate or the deadline at will; that is a callback that fails. The target
of a write is the transition's, as for `synthetic.Executor` and for the payload
`NewServerWithProvider` passes.

**MCPExecution** looks closer at one step of that server with a control
provider behind it, and leaves out the rest of the lifecycle. `holder` is the
variable `executionError` the executor goroutine writes without a lock,
`outcomes` the one-element channel by which `reportExecutionOutcome` says
whether the call may look at it, `results` the executor's result channel.
`controlTool` knows execution failures by how their text begins. An error of
Verify or Commit never begins so (`ExecutionSucceeded`): the kernel puts
"verification failed" before it or returns a sentinel. The provider's error of an
observation, a recovery's too, is returned before Start as it is, so it may
(`ObservationFails`), and then nothing was sent to the outcome channel. Every
other error before Start has a text of its own (`NotStarted`). An observation is
one step, taken when the gate is free; its goroutine, its deadline and the
verifier's are in `MCPServer`, and here could only keep the gate longer. Calls
that are cancelled before they have the lifecycle change nothing and are left
out. `inRecovery` is the kernel's phase as far as the call reads it.

**GitFileProvider.** A client is a Host and a Runtime in a process of their own.
`objects` is the object database, `ref` the branch. Objects never change, so the
reads of commits, trees and blobs below a known commit are one step with the
decision they lead to; each read of the ref is a step of its own, and so is its
update. `git update-ref` is two steps: the compare-and-swap (`Swap`), and the
end of its process, which may be bad although it swapped (`UpdateFails`).
`Inquire` is the read that then settles the outcome, in a context of its own.
`Abandon` is the Host's deadline: it reports a failure and keeps the lifecycle
until the callback returned. An object ID is an element of `Commits` and an equal
commit gets an equal ID (`Store`). Other writers push commits, also with a
message copied from the tip (a rebase or an amended commit), and, where
`MayRewrite`, force the branch back. `reflog`, `used`, `installed` and
`overtaken` are history.

**GitTree.** A tree is the sequence `ls-tree` prints; an object ID is the object.
`ReadPath`, `ReplacePath`, `WriteTree`, `FlattenTree` and `CompareTreeLeaves` are
the functions of these names; the specification around them is one Execute
followed by one Verify, of its own commit or of another one. Git stores trees
that repeat a name or hold `.git`, and so does this model. The functions descend
by calling themselves: each is one level (`ReadLevel`, `ReplaceLevel`,
`FlattenLevel`) with that call as a parameter, and trees have two levels, so the
call in a directory meets files and links only. `FlattenLevel` says what the loop
over the entries leaves in the map: of a path, what its last entry put there.
`WriteTree` sorts by `treeKey`, which here is a rank (`KeyRank`), and `SortedByKey`
is a rearrangement in that order.

**HTTPAdapter.** A tool call is two requests, `observe` and `change`; `requests`
and `answers` are what is on the wire, and neither is ever in order. An answer's
body is `None` where `postJSON` refuses to decode it. The service is not part of
the repository; what is assumed of it is what the adapter and its tests expect:
a token stands for one version of one file, a change takes effect on that version
or not at all, and an answer of status 200 with an execution ID and both
confirmations is only given for a change that took effect. It, or a gateway
before it, may answer anything else at any time, before or after acting.

External, i.e. modelled from how the code uses them: git's object store and refs,
the HTTP service, the network, and other writers.

## 3. Runs

| Run | Question | Instance | States |
|---|---|---|---|
| `kernel` | Do concurrent calls keep attempts apart? Which evidence counts? Does Kernel implement ControlBoundary, also if the clock is set back? | 3 callers, 2 attempts, 2 clock readings, 2 subjects, 2 tokens | 323 000 |
| `gate` | Do callbacks exclude each other, is the token conserved, is a caller answered if the provider hangs, does every call get the lifecycle if it does not? | 3 calls on 2 Hosts | 59 600 |
| `gate_refusal` | Is ErrCallbackInFlight true when it is returned? (violated) | same | |
| `host` | End to end: late writes, lost updates, other writers, fresh authorization, fresh execution IDs | 2 calls, 2 attempts, 3 readings, writers up to version 3 | about 2 million |
| `host_stranded` | Can the Runtime be left in STARTED? (violated) | 1 call | |
| `mcp` | Late executors, recovery, stranding, behind the MCP server's gate | 2 calls, 2 attempts, 3 readings, writers up to version 2 | about 1.8 million |
| `mcp_answer` | Is a tool call answered if the provider hangs? | 2 calls, 1 attempt | 145 000 |
| `mcp_exec` | Is the error code that of the call's own execution, whatever errors precede it? Is the unlocked variable settled when it is read? | 3 calls | 59 000 |
| `git` | Do reports, verification and commits agree with the branch? Does the provider implement BranchRegister, and each lifecycle ControlBoundary? | 2 Hosts, 3 commits, 2 files, 2 executions | 274 000 |
| `git_report` | Is an Execute whose compare-and-swap succeeded always reported as such? (violated) | 1 Host, 3 commits | |
| `git_tree` | Is a replacement exactly one leaf's change, and does Verify accept exactly that? | trees of 2 levels, up to 2 entries each, 3 names, 2 contents | 2.4 million |
| `http` | Is what callers are told true of what the service did? Does every call end? | 2 calls, 2 files, 2 versions | 544 000 |

**Bounds.** Three callers are an executor, a current verifier and one left over
from before; two attempts are what it takes to confuse one attempt with
another. In `kernel` the clock goes back and forth between two readings, so any two
times are before, at or after one another; two subjects and two tokens give each
comparison of evidence both outcomes. The three readings of `host` and `mcp` put
observation, completion and evidence at distinct times. In `gate` three calls on two Hosts give a pair on one Host and a
pair on two. In `host` a version up to 3 lets another writer interfere before and
after the first execution; in `mcp` a version up to 2 lets it come between
observation and execution. `MaxTime`, `MaxAttempts` and `MaxVersion` bound
counters which the code leaves open; Start is disabled when the attempts are used
up and the clock stops at the last reading, which is why the configurations do
not check for deadlock.

In `git` the third commit is the competing one: the first is the start, the
second an execution's own, and the third another Host's or another writer's, on
top of it or beside it; two executions are two Hosts racing, or one Host trying
again. The instance runs out of commits, hence no check for deadlock. In
`git_tree` two entries per tree are enough for a repeated name, also of a file
and a directory, on either level, and for a leaf beside the target; of the names
`.git`, `a` and `a.b` the first is refused, and a file `a` comes before `a.b` in
git's order, a directory `a` after it. The model ends when Verify has answered. In `http` a
file has two versions: the second makes a token stale, by another call or another
writer. Two calls suffice for one call's messages to be taken for another's.
Calls are made once, so the model ends.

`Callers`, `Clients`, `Commits` and the like are symmetric where a configuration
says so: no definition orders or names their elements, and no liveness property
is checked under symmetry.

**What the violated runs show.**

* `gate_refusal`: `outstanding.Done()` precedes `gate.leave()`, so the next
  lifecycle can begin while the gate is still marked busy; its call is refused
  although no callback runs. This is the only way a call is refused at all
  (theorem `RefusalsComeLate`), because Hosts wait for their callbacks before
  giving the lifecycle back.
* `host_stranded`: the verification deadline is measured from before
  `Runtime.Verify`; if it passes before the kernel's select, Verify releases its
  reservation and returns, Control does not try again, and the Runtime stays in
  STARTED where Observe and Recover are refused. The test of verification
  timeouts covers only a deadline that passes inside the provider's callback.
  The MCP server passes a context that never ends, and `NotStranded` holds of
  it (run `mcp`), as `docs/MCP.md` says.
* `git_report`: when the process of `update-ref` fails after the swap and another
  writer builds on the new commit before the settling read, Execute finds a tip
  it does not know and reports a stale observation, although its change is in the
  branch. `docs/git-file-replace-contract.md` rules that out. What does hold is
  `FailureIsHonest`: a change that was made is reported as not made only if
  somebody else has moved the branch since; a killed git process alone never
  does it.

**A third divergence from the documents, without a run of its own.**
`docs/MCP.md:50` says that recovery failures "remain lifecycle errors rather than
execution classifications" and that a recovery error is "returned directly and is
not relabeled as `stale_observation`". The second half holds and is part of
`CodeIsOfOwnExecution` (run `mcp_exec`, theorem `CodesAreOwn`). The first half,
`RecoveryErrorsAreDirect`, does not: `INVARIANT RecoveryErrorsAreDirect` added to
`MCMCPExecution.cfg` has TLC find a call whose execution fails, which puts the
Runtime into RECOVERY, and a second one whose recovery observation fails with a
text that begins "execution failed: ". `server.go:353-355` returns that error
raw, the prefix test at 302 holds, the select at 305-310 finds the outcome
channel empty, and the result carries the code `execution_failed` although
nothing was executed. `TestControlRecoveryFailureIsNotExecutionError` uses the
text "recovery unavailable", and a server without a control provider. Whether a
provider words an error like that is up to the provider.

Two more things met while modelling that no run shows. `Kernel` by itself does
not guarantee `FreshAuthorization`: `Observe` accepts evidence of any age, also
right after a Recover; that it holds is the Host's doing, which observes anew in
every call (run `host`, theorem `AuthorizationIsFresh`). And between a callback's
return and `completed.Store(true)` a deadline discards the callback's result; the
models treat that as an answer that came too late.

**Fairness.** `Kernel`, `Host`, `GitFileProvider` and `MCPExecution` state safety
only. `FairMCPSpec` assumes that the goroutine of a tool call is scheduled, its
deadlines included, and nothing of providers and clients; `CallIsAnswered` speaks
of the way to Start and of the way from it, since the bound on attempts disables
Start itself. In `ProviderGate`, `FairSpec` assumes that running goroutines are
scheduled and that deadlines and timers fire; it assumes nothing of the
provider, and under it a caller is answered. `Cooperation`, the premise of
`LifecycleComesRound`, adds that callbacks return, that a waiting caller is not
given up on by its context for ever while the token is there (weak fairness of
`Acquire`), and that the goroutine waiting on the WaitGroup runs. Go's channels
hand the token to waiting receivers in order, so this is no more than the runtime
gives. In `HTTPAdapter`, `FairSpec` assumes only that the client's timeout, which
`NewHTTPAPIAdapter` always sets, fires; the service may never answer.

## 4. Proofs

Eight modules of theorems, each for every value of the constants. Every safety
property of a passing run is one of them.

**`KernelProofs`**: `TypeCorrect`, and from the inductive invariant `IInv` of
`KernelInvariant`: `ExecutionOwns`, `ExecutorSees`, `VerificationFollows`,
`OneVerifierAtATime`, `CommitIsProven`, `RootIsStable`, `RecoveryIsPossible`,
`RecoveryIsFresh`; `IDsAreFresh` from the further invariant `IDsAge`, for a clock
that is never set back; `ImplementsBoundary`, the refinement of ControlBoundary
under the mapping at the end of `Kernel`. All but `IDsAreFresh` hold with a clock
that is set back, too.

The safety properties are not inductive by themselves. `IInv` adds what each
phase holds (`EvidenceHeld`, `ChannelHeld`): the transition in hand binds the
observation in hand, is no no-op once decided, the current channel is closed
exactly when the attempt completed. And it adds what each goroutine holds while
the lock is not (`CallersHold`): an executor's channel is the current, open one
and its transition the current one; a judging verifier's copies equal the
Runtime's fields, since nothing but its own verdict ends the attempt; a caller
that holds the current attempt's verification is alone and the flag is up. The
root is stable because Start compared it and only Commit, which leaves the
attempt, writes it. `IDsAge` orders spent IDs, completion and clock: an attempt
is left only by evidence later than its completion, and that evidence is not
from the future, so the clock has moved past every spent ID by then.

**`HostProofs`**: `HostImplementsKernel`, every behaviour of a Host is one of
`Kernel`, so that all of the above holds of the Runtime a Host drives; then
`HostTypeCorrect`, `CurrentAuthorityWrites`, `NoUpdateLost`,
`AuthorizationIsFresh` and `CommitIsOwnWrite`. Two invariants carry them. `HInv`
says what a call has gathered: one call is inside at a time, what it observed is
the Runtime's observation until its execution starts, and an Execute callback,
waited for or not, acts for the authority the Runtime holds (`EffectIsAuthorized`),
because the lifecycle is not given back while it runs. `CommitInv` adds order in
time (`EvidenceIsLater`) and the history of writes (`WritesHeld`): every write is
of a spent ID, an attempt's own ID is unspent before its Start (this is where
`IDsAge` is needed), so of the current authority there is exactly one write, of
the version after the one observed, or none; and evidence naming this execution
shows that version. `CommitIsOwnWrite` therefore assumes `~ClockMayStepBack`: with
a clock set back an execution ID could repeat, and a write of an earlier attempt
could be taken for the later one's. `Host` and `MCPServer` have a clock that only
goes forward (`TimePasses`); what a clock set back can do to the Runtime is
`Kernel`'s matter.

**`MCPServerProofs`**: `ServerImplementsKernel` and with it `ServerKeepsBoundary`;
`GateIsConserved`, `NeverStranded`, `ServerWritesUnderAuthority`,
`RecoverySeesWrites`, `ServerAuthorizesOnFreshEvidence`, `ServerCommitsOwnWrite`.
The argument is not the Host's, because the server gives the lifecycle back while
callbacks may still run, so that "inside the lifecycle" says nothing of them.
`MInv` puts the gate in its place. Exactly one callback at most holds the gate's
token (`GateConserved`); while it is an unanswered Execute, every other call is
before its first observation or on its way out (`EffectIsAuthorized`): a call gets
further only with an observation of its own, for which it needs the gate. So the
Runtime still has the authority the callback acts for, and whatever it writes is
written before the next observation is read; that is `ReadingShowsWrites`, from
which a recovery sees it. `WaitsForOwn` says that a call that waits for a result
waits for the callback it started itself, so no late answer of an earlier callback
reaches it. `StartedIsHeld` pairs a Runtime in STARTED with a call between Start
and the verdict: each deadline on that way reports a failure to the kernel, and
the verification context the server passes never ends. `CommitInv` adds order in
time and the history of writes as for the Host. One case is new: the call of a
VERIFIED lifecycle is still under way although its callback has been answered, so
`OneOwnWrite` and `EvidenceShowsIt` are stated of calls, results and callbacks
separately. `ServerCommitsOwnWrite` assumes `~ClockMayStepBack` for the reason
`CommitIsOwnWrite` does.

**`ProviderGateProofs`**: `TypeCorrect`, `TokenIsConserved`, `CallbacksExclude`,
`GateIsHeld` and `CallbacksEndFirst` from one invariant: exactly one call holds
what the channel does not, a running callback belongs to that call, and the
WaitGroup counts it until it returned. `CallbacksEndFirst`, no callback runs while
the lifecycle is free, is what `Host` takes from this module. `RefusalsComeLate`
says how far the finding of `gate_refusal` goes: a gate is busy only for a callback
in it (`BusyIsInGate`), and whoever is refused holds the lifecycle, so that callback
has returned, of a call that is over, and just has not left the gate. No
`ErrCallbackInFlight` of a Host ever tells of a callback in flight.

**`MCPExecutionProofs`**: `CodesAreOwn`, `HoldersAreSettled`. The goroutine of a
call writes the error variable before it sends its result; the call receives that
result before it announces a completed outcome, and only then is the variable
read. So whoever reads it has a worker that can no longer write, and reads what
that worker wrote. A call that ended before Start has no worker and an empty
outcome channel (`NothingExecuted`), so whatever its error reads like, the
variable is not looked at and the code is not `stale_observation`.

**`GitFileProviderProofs`**: `TypeCorrect`, `FailuresAreHonest`,
`VerificationIsOfBranch`, `ImplementsRegister`, `ImplementsBoundary`. The heart of
`IInv` in `GitFileInvariant` is `PublishedAreInstalled`: no commit the branch ever
named carries the ID of an execution whose compare-and-swap did not take effect,
not even one another writer made by copying a message, since there was then a
published commit to copy it from. An Execute that finds its own commit at the tip
after an ambiguous update finds a published commit with its own ID (`IDsAreOwn`,
`CommitIsReplacement`), hence its own swap took effect and success is true; and
one that took effect is the tip unless somebody moved the branch
(`InstalledIsTipOrLeft`), hence a failure is honest. The number of Hosts, commits,
files and executions, and whether others rewrite history, are arbitrary.

**`HTTPAdapterProofs`**: `AdapterTypeCorrect`, `SuccessIsTrue`, `RefusalsAreFinal`,
`OneChangeAtMost`. What a caller is told has to agree with the service, which
hears of the call only through messages that may be late or lost, so `AdapterInv`
says what each of them stands for. A call has sent no change, has had no effect
and has nothing but observations on the wire (`Unsent`), or it sent one and will
not say that it did not (`SentOnce`). A change on the wire is the only one of its
call, is of the file asked for, since its token came with an answer that matched,
has had no effect yet and no answer (`ChangePending`); so an effect is a call's
only one (`EffectsAreOwn`), and an answer that confirms was given after it
(`AnswersTell`). Of the service this uses only what section 2 assumes of it.

**`GitTreeProofs`**: `TreesKeepTypes`, `ReplacementIsOneLeaf`,
`OwnResultIsAccepted`, `VerificationAcceptsTheChange`, for trees with any number
of entries on each of the two levels, any names (a name twice, `.git`), contents
and paths, and any order `treeKey` may give. Three things make the argument.
`Swapped`: what `replacePath` does on a level is to exchange one entry for another
of the same name and key, and since `WriteTree` refuses a name twice, both trees
have every name once there (`EntryIsSwapped`), so first and last entry of a name
are the same. `Replacement` says that this happens to the file that `ReadPath`
reads, in the tree itself or in a directory which is exchanged in turn
(`PathReplacement`); it can be undone the same way (`SwappedBack`), so each
inclusion of leaves or paths has to be proved in one direction only.
The map of `FlattenTree` is related to the leaves twice: in general a path of the
map shows some leaf of that path (`MapIsOfLeaves`), and where names are unique,
*the* leaf of it (`MapOfEntry`, `MapOfFile`). `OwnResultIsAccepted` needs the second
on the way to the target only, which is why the rest of the tree may repeat
names; `VerificationAcceptsTheChange` needs it everywhere, hence `WellFormed`.
Least and greatest positions (the first entry of a name, the last writer of a
path) exist because the natural numbers are well-founded (`NatMin`), so no
induction over entries is needed. The invariant `TreeInv` adds to the types that a
result exists only where `Replacement` holds (`Executed`), that the tree before
Verify is Execute's (`Own`), and that the verdict is the comparison's (`Verdict`).

**Assumptions** are the named ones in the modules: `KernelAssumption` (the empty
token is a token, lifetimes are integers, the bounds are naturals),
`HostAssumption` and `ServerAssumption` (there is a subject, versions are natural
numbers and 1 is one), `AdapterAssumption` (`MaxVersion` is a natural number),
`GateAssumption`, `GitAssumption` (the target is a path, regular entries are
entries), `TreeAssumption` (ranks and the bound on entries are natural numbers,
paths are nonempty sequences of strings, which is what `strings.Split` returns),
and in several modules that `None`, i.e. nil, is no value of the sets
it stands beside.

**Only model-checked**: liveness (`CallerIsAnswered`, `LifecycleComesRound`,
`CallIsAnswered`, `ToolCallEnds`), which rests on fairness and is out of the
prover's reach; and that the three violated properties fail. That `GitTree`'s
two levels stand for any number of them is not proved either: it would be an
induction over data. The inductive invariants are no properties of the runs,
since the theorems cover them; TLC has been through each of them on the instances
above before its proof, and `INVARIANT IInv` (for `MCHost` and `MCMCPServer`:
`CommitInv`, for `MCHTTPAdapter`: `AdapterInv`) added to a configuration has it
look again; for `TreeInv` the instance has to extend `GitTreeProofs` too. Types
are proved for every module with theorems, for `MCPExecution` as a part of its invariant.

## 5. Limits, and what is not modelled

* `VerificationIsExact` speaks of trees in which no path names two entries. For a
  tree that repeats a name the comparison of leaves sees the last entry only;
  what holds there is `OwnResultVerifies` and `ReplacesOneLeaf`, because Execute
  refuses to write such a tree on the way to the target.
* `GitTree` has two levels, with two entries per tree in its run and any number in
  its theorems; deeper trees are the same recursion once more.
* `GitFileProvider` folds a client's kernel into the lifecycle of one call at a
  time; `Host` has the full one. A symbolic branch, SHA-1 against SHA-256, and
  what git leaves behind when it is killed (a lock file) are not told apart:
  each is a git command that fails.
* `GitTree` compares `.git` exactly and leaves out the check of entry modes
  (`validateMode`); both refuse more names or entries and change no tree.
* In `MCPServer` a callback reads the resource and the clock in one step. Evidence
  whose timestamp is later than a write of another party that the read missed is
  therefore not in the model; a write of an execution cannot fall in there, since
  its goroutine would hold the gate. `GitFileProvider` takes the last read of the
  ref together with the verdict, so a push between the two counts as one after
  the verdict.
* `FailureIsHonest` does not speak of an Execute whose update failed and whose
  outcome could not be read either (`InquiryFails`): its error says just that.
* Git plumbing (running processes, checking arguments, parsing their output),
  commands, the MCP SDK and HTTP transport, constructors and the validation of
  configuration: I/O and parsing, no state between calls.
* `Register` and provider lookup: configuration before use.
* Messages, payload bytes and evidence bytes of results: no check reads them.
* `docs/`, `skills/`, CI: no behaviour.

## 6. What is left

1. `MCPExecution` and `MCPServer` both model the step around an execution, one
   with the error variable, one with the gate; a refinement would tie them.
2. `Host` takes `CallbacksEndFirst` from `ProviderGate` as the guard of its own
   release; a composition would make that step a refinement.
