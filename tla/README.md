# A TLA+ verification of template_formal

This directory holds a model of the program in `src/src/template_formal`, the
TLC runs that check it on small instances, and the TLAPS proofs of the theorems
that hold for every instance. It is meant to be read next to the Python code.
Paths below are relative to `src/template_formal/` of the repository unless they
start with something else.

The repository has TLA+ and Lean files of its own (`formal/`). They specify an
ideal handshake by hand. The modules here are translated from the Python
code, faults, locks, failures and reruns included; where both speak of the
same thing and differ, the section "Where the documents and the code differ" says so.

    tlasany M.tla                                # parse
    tlc -workers 2 -config MCBus.cfg MCBus       # one run
    tlapm HandshakeProofs.tla                    # the proofs of one module

## 1. Inventory: the system and its parts

The program simulates a colony of "ants". Each agent has a SQLite file of
observations and a protocol session. A coordinator loop lets the agents choose
a location, record the choice, and deposit pheromone on a shared field. An
experiment harness detects sustained consensus, compares with a null model, and
an analysis program writes the artifacts of the publication. Everything runs in
one thread; what makes it hard are the faults the bus injects, the file locks
that a second process holds, calls that fail halfway, and reruns over old files.

| part | code | state it keeps | operations | hard behaviour |
|---|---|---|---|---|
| fault injector, bus | `network/bus.py` | inboxes per registered endpoint, one pending batch | register, send, flush, try_recv | drop, corrupt, duplicate, reorder across recipients |
| sessions | `protocol/session.py` | one immutable object per phase, each with a consumed flag | open, accept_hello, complete, send, receive, close | crossing dials, stale or foreign frames, frames that use up an object |
| wire codec | `protocol/session.py` | none | encode, decode with CRC-32 | corrupted frames |
| storage | `storage/db.py`, `storage/transaction.py` | SQLite connection, `TransactionHandle._consumed` | open, begin, commit, rollback, create_schema, select, insert | contention, COMMIT that fails, handles kept too long |
| schema | `storage/schema.py` | none | rendering DDL, names checked against a pattern | what SQLite makes of the DDL |
| agent | `agent/agent.py` | database, idle session, preference | construct, decide, record_observation, tick, observation_count, initiate_handshake, close | failure or death between BEGIN, INSERT and COMMIT; results dropped |
| field | `colony/pheromone.py` | concentration by location | sense, deposit, evaporate | order within a tick |
| trial, demo | `colony/experiment.py`, `colony/demo.py` | agents, field, histories | one run | a turn that fails halfway, reruns into the same directory |
| consensus, null model | `colony/experiment.py`, `colony/nullmodel.py` | none, histories | find_sustained_consensus_tick, run_null_model_trial | off by one at the ends of a history |
| analysis, figures | `colony/analysis.py`, `colony/visualization.py` | files under `output/` | run_publication_analysis, run_statistics_sweep | failure between two artifacts, stale artifacts |
| sweep, experiment plan | `colony/sweep.py`, `colony/experiment_plan.py` | the points so far | validate_experiment_plan, run_parameter_sweep | shared seeds and directories, a failure after hours of trials |
| statistics | `colony/stats.py` | none | intervals, tests, correlation | empty, constant and all-or-nothing samples |
| formal check script | `scripts/check_formal_specs.sh` | cached jar, exit status | one run | skipped checks, kills, a cache others can change |
| cover art | `colony/cover_art.py` | none | draws one image | |
| ids, results | `types/ids.py`, `types/result.py` | none | wrappers | |

How they interact: the coordinator calls agents and the field; an agent calls
the query builder and transaction handles of its database; these call SQLite,
where other processes that have the file open are noticed only through its
locks. Sessions and the bus do not call each other: the program that uses them
(`tests/network/test_handshake_over_bus.py` is the repository's example) encodes
what a session returns, sends it, flushes, polls, decodes, and hands the frame to
a session. The analysis calls the demo and the trials and writes files. A sweep calls
trials and the statistics; a plan says which sweeps an experiment makes. The check
script knows nothing of the Python code.

What makes each part correct, in one line:

- bus: copies are neither invented nor lost except by a declared fault, and never reach another endpoint; a flush is a barrier.
- sessions: who is established is established with a session of the peer that took part in the same handshake, and accepts data only from it.
- storage: what a handle reported is what became of its rows.
- agent: what is reported recorded is in the file, what is reported failed is not, and no call leaves a transaction behind.
- colony: files, field, histories and the reported consensus tell one story, however the run ends.
- consensus: the search over a finished history finds what an observer at every tick would have seen.
- sweep: each point counts its own trials, no two trials share files, and an accepted plan can be run.
- statistics: each is the number its definition says, at the edges too.
- codec: what is decoded is what was encoded, and a corrupted frame is never decoded.
- check script: java runs the pinned jar only, exit status 0 means every check passed, and no check passes after one that failed.
- analysis: an analysis that returns left complete files of one run and its rows in the databases; one that does not left nothing misleading.

`PROJECT.json` lists, at their lines, the hazards these properties are aimed at.

## 2. The modules

A module that follows the code has a companion that says what the code promises,
and is shown to implement it (a property of a run, and where proved, a theorem).

| abstract | implemented by | refinement |
|---|---|---|
| `Mailbox`: a lane and a box per endpoint | `Bus` | `MailboxSpec`: lane = the endpoint's part of the batch, box = what is in its inbox |
| `Connection`: sessions join each other, no network | `Handshake` | `ConnectionSpec`: cause of a session = the maker of the frame that established it |
| `ObservationLog`: reports and durable rows | `Agent` | `LogSpec`: durable = committed rows, stuck = agents whose last report is not in the file |
| `Unanimity`: winner and start, tracked tick by tick | `NullModel` with `Consensus` | `WatchSpec`: since = what the search finds in the history so far |

**FaultInjector, Bus, Mailbox** (`network/bus.py`). A roll with probability `p`
has the outcomes `{FALSE}`, `{TRUE}` or both, given as constants: all seeds at
once. A frame is its message and whether it is clean. `Send` does what `send()`
does in its order: registration test, drop, corrupt, duplicate, of the already
corrupted bytes. `Flush` reorders the batch as a whole and distributes it.
Calls that raise change nothing and are stuttering steps.

**Codec, Wire** (`encode_wire_message`, `decode_wire_message`, `FaultInjector.corrupt`).
Frames as byte strings, with the width of a byte and of each field and the polynomial of the CRC
as constants, and the CRC written out as the shift register it is: at the widths of the
format, with CRC-32's polynomial, it is `zlib.crc32`. `Wire` puts the codec beside the
bus: `WireExact` is what entitles `Bus` and `Handshake` to treat a frame that is not clean
as one that carries no message.

**Handshake, Connection** (`protocol/session.py`). A *slot* is the lineage of one
`IdleSession` and the objects made from it; `phase` is that of the newest. A
method that consumes its object and returns an error leaves a lineage without a
usable object: phase `Spent`. The driver is external to the sessions and is any
program that hands a decoded frame to some session of the polled agent that has
a method for it. A `msg_id` is the pair of its maker and a counter, as unique as
the UUID. The network is `Mailbox`, which `Bus` was shown to implement.

**Sqlite, Storage, Schema** (`storage/`). `Sqlite` is external code, modelled as the
storage layer uses it: rollback-journal mode, the five lock states, `BEGIN`
of the three levels, `COMMIT` that needs every reader gone and otherwise leaves
the transaction open with a pending lock, and `ROLLBACK`. `Storage` adds the
handles and their consumed flag, the query builder and `create_schema()`, which may be
called at any time; what it does to a transaction it finds is remembered in `upset`.
The isolation level of each connection is chosen in the initial state. Which rows a table
lets in is the parameter `Admitted`; `Schema` renders the DDL of a table and says
what that DDL admits, and `TypedStorage` joins the two: storage over a file whose table
`create_schema()` made of a given `TableSchema`.

**Agent, ObservationLog** (`agent/agent.py`). `record_observation()` is three steps
(`RecordBegin`, `RecordInsert`, `RecordEnd`), between which other processes run
and the agent's own may die (`Crash`), or the score may raise (`RecordRaises`).
Another `Agent` on the same path and foreign readers are processes like any other.
An observation comes with the free energies of its candidates, of which `Decide` takes
the one Python's `min()` takes. One of them may be `NaN`, a value that no order holds
for and that SQLite stores as NULL, so that the column refuses it. `initiate_handshake()`
is `Handshake!Open`.

**Consensus, NullModel, Unanimity** (`find_sustained_consensus_tick`,
`colony/nullmodel.py`). The code tries every start from the first tick on and returns
the first from which all later ticks agree on its winner; `Consensus` says which start that is.
Histories are numbered from 1 here, and 0 stands for `None`.

**Colony** (`run_colony_trial`, `run_demo_colony`, `pheromone.py`). One action per
agent built, per turn of one agent, per way a turn can fail, and for the end of a tick.
The agents' calls end as `Agent` says: committed, held back by a commit that
failed unnoticed, or failed. Which location wins is left free, because it
depends on floating-point noise; the field is kept as *which deposits of which age*
it consists of, which is exact where the code's floats are not. `open` is the set of
agents whose connection is open: they are built before the `try`. The demo asks each agent for its
`observation_count()`, which answers 0 when it cannot read the file: `Return` lets any agents do so.
A last commit that failed unnoticed leaves its row out of the file while the run reports a
consensus all the same; `ConsensusOnDisk` names this as its one exception.

**ExperimentPlan, Sweep** (`colony/experiment_plan.py`, `colony/sweep.py`). `Accepted` says which
plans are valid; the order of the tests only decides the message and is left out.
`Sweep` runs `run_parameter_sweep()`, one action per trial and per point, either for one
call or for the axes of an accepted plan, one after the other in one directory. That
loop is external: the repository validates plans and leaves running them to a program. A
trial is a function of configuration and seed (what `Colony` describes), of which the
consensus tick is kept; values are counted in units of 1/`Unit`.

**Rational, Statistics, SweepReport** (`colony/stats.py`). Every function of the module, exactly: a float is the
rational number its formula denotes, and a square root is kept as square and sign. The
normal quantile is a constant. `SweepReport` compares each with what it is by definition,
computed another way, over the trials of every sweep of the model.

**Analysis** (`run_publication_analysis`, `run_statistics_sweep`, the two figure
writers). One action per artifact and per trial. A write may be cut off, a figure
rejected by the validator after it replaced the old one, and any step may fail;
then the program is run again over what is there. Whether the trial of a seed
converges is fixed in the initial state: a trial is a function of its seed.
`AnalysisArtifacts` names six things. Five are files each run writes anew (`Artifact`, with what `disk`
holds of them); the sixth, `demo_databases`, is added to by every run: `databases` says how many
rows each run left in each. A demo that returns leaves `DemoTicks` rows per agent (`Demo`), one that fails those of the
turns that were had (`DemoFails`), and an agent whose last commit failed unnoticed lacks its last one, which the
analysis does not notice either. `ReturnedComplete` and `WrittenInOrder` say for each of the two sorts what
is true of it: the five are whole and of one run, the databases hold that run among others.

**CheckScript** (`scripts/check_formal_specs.sh`). `place` is the place in the script, `jar` what
is in the cache, `passed` and `failed` what this run reported. What lake, java and curl answer is free; the script may be killed
anywhere, which in the middle of a download leaves a partial file, and others may change the file
between two runs.

`MC*` modules hold only what the runs need: model values and small tables. Definitions whose name ends
in an underscore and a word (`RecordEnd_NoRollback`) are not part of any
specification: each is the definition of the same name with a plausible bug, kept
to show that the property it belongs to would notice. `PROJECT.json` lists the
lines of code each definition stands for.

## 3. The runs

On two cores the longest runs (`storage`, `sweep`) take between one and two minutes, the others
less. Deadlock is checked where the system never stops (`bus`: an endpoint can always be
registered again; `check_script`: it can always be started again) and not where it may:
a bounded number of sends or runs, a program that returned.

| run | what it shows | bounds, and why they are enough | distinct states |
|---|---|---|---|
| `bus` | every copy accounted for, no copy moved by a later call, a flush is a barrier, the bus implements the mailbox; the codec is exact | two endpoints, three sends, batch of at most four, all faults: one frame before and one after a flush, another recipient in between, a duplicate of one of them. Codec: bytes of 3 bits, ids of one byte, a checksum of two (of the polynomial x^6 + x + 1), payloads of at most two bytes, every one-byte corruption of every such frame, and strings one field away from a frame | 61,500 |
| `handshake_crossed` | agreement, no more sessions by a frame than copies of it, implements the connection | two agents with two sessions each that dial each other, every fault, no data: the smallest crossing in which each session could be completed by the wrong frame, with a second session a duplicate or a replay could meet | 12,896 |
| `handshake_fan` | frames authentic, pairing, provenance of data | one data frame per session, loss; alice dials bob and carol, bob has a second session: an ack or data frame of one could meet the session of the other | 45,240 |
| `handshake_live` | ends, and only a crossing spends a session | one session each and both may dial, duplication, two data frames per session, fairness as below | 17,357 |
| `storage` | handles tell the truth, stay live, and end their own transactions; the table is as declared | two connections of any levels, three handles, four rows (two of one key, one with a NULL): a handle can be kept across a later transaction of its connection while the other contends. Connections are symmetric to one another, and handles too (no liveness here) | 799,249 |
| `agent` | at most the last report at risk, nothing unreported stored or counted, only best candidates stored, idle means no transaction, implements the log | two agents (immediate and deferred), one foreign reader, four rows: a commit that fails, then a further call, then the other agent; a tie, a NaN in front, a NaN further on | 296,142 |
| `agent_durable` | *violated*: a reported observation is in the file | the same | |
| `null_model` | the search agrees with watching | two agents, three locations, four ticks: a run that breaks, a change of winner and a run that begins last | 13,942 |
| `colony` | files, field, histories, counts and consensus agree; what is left open | two agents, two locations, two ticks, two runs, trial and demo in any order, a negative deposit too, a count that finds its file locked | 38,321 |
| `analysis` | artifacts complete, in order, consistent; the databases hold the demo of every run an artifact is of | three trials of any outcomes, minimum two, two databases of two ticks, three runs: a failing run between two others | 830,688 |
| `sweep` | points count their own trials, trials share no files, an accepted plan runs, statistics exact | plans of at most two axes, each good or bad in every field, two trials per point; calls of up to three points or three trials; consensus ticks up to three: all-or-nothing points, ties, equal scores | 135,156 |
| `check_script` | only the pinned jar is run, the exit status tells the truth, a bad cache heals | any number of runs, at most three kills and changes from outside: a partial download, its detection, and another one | 618 |

Constants that only bound: `MaxSends`, `MaxBatch` (bus), `MaxData` (sessions),
`MaxRuns` (colony, analysis), `MaxTrouble` (check script), `Grid` (the proportions at which
intervals are compared).

`handshake_fan` runs without reordering, corruption and duplication and `handshake_crossed`
without data frames, to keep them small; the theorems cover every
combination. `OneSessionPerCopy` is checked with duplication, where a frame may
establish two sessions, one by each copy, and no more; the theorem about it, `FramesUsedOnce`, is for a bus
that does not duplicate, where it may establish one. `SpentOnlyByCrossing` needs one that loses, damages and reorders nothing, agents with one
session each, as `Agent` has it, and nobody who dials one agent while another dials it: without any of
these, the code violates them. The theorems name the same conditions.

Every type invariant but that of `CheckScript`, whose variables range over a few words, is
proved; only `bus` and `colony` run theirs.

**Fairness.** `handshake_live` assumes weak fairness of `Flush` and of each
agent's `Poll`. The repository's drivers flush after every send and poll in a loop
until a frame arrives, so neither can be put off for ever. There is no fairness for
dialling, sending or closing: the driver may stop doing that at any time. Nothing
retries a lost frame, so the run injects no loss. `check_script` assumes that somebody goes on
running the script (weak fairness of its steps and of starting it), and that among infinitely many
runs the Lean build passes and java is found now and then (strong fairness): the script
tests the jar only if nothing before it failed. Nothing is assumed about downloads.

## 4. The proofs

All are for any constants that satisfy the named assumptions.

| module | theorems | inductive invariant, and why the properties alone are not inductive |
|---|---|---|
| `BusProofs` | `TypeCorrect`, `FlushBarrier`, `EveryCopyAccounted`, `NoCopyLost`, `ImplementsMailbox` | `Ordered`: along what was delivered to an endpoint, taken or not, flush numbers never fall, and what is pending was sent since the last flush (the barrier is about what was taken only); `Tallied`: of every message, the line of its addressee, from what was taken to what is pending, holds as many copies as its send may roll, all alike. The refinement needs that `FramesFor` distributes over concatenation |
| | `WireStaysExact`, from `EncodedDecodes`, `DecodedEncodes` and `OneByteIsNoticed`, for any widths, magic and polynomial | no invariant: the codec has no state. See below |
| `HandshakeProofs` | `TypeCorrect`, `FramesStayAuthentic`, `AgreementHolds`, `PairedSessionsHold`, `DataProvenance`, `HandshakeImplementsConnection`, for every fault configuration | agreement is about sessions, but is kept because of what is in the network: every frame on its way was made by a session that is *still* in the state that made it (`FramesAuthentic`); `SessionFacts` adds what each session remembers of its cause |
| | `FramesUsedOnce`, if the bus does not duplicate | `UsedOnce`: no message is in the network twice, none that has established a session is there any more, and none has established two |
| | `NoSessionWasted`, if the bus does nothing but duplicate (`SoundNet`), an agent has one session (`SingleSessions`), and one that is dialled dials at most its dialler (`MutualDial`) | `AckFirst`: while a dialler waits and its peer has accepted, the oldest frame on its way to it is the ack. That nothing else can be before it follows from `FramesAuthentic`; that a crossing is never undone makes the property stable |
| `StorageProofs` | `TypeCorrect`, `HandlesTellTruth`, `HandlesStayLive`, `TransactionsEndByOwnHandle`, for any `Admitted` | needs that one connection at most may write (`TxnFacts`), that an unused handle is the current one of its connection unless that is upset (`HandleFacts`), and that no two transactions share a row (`RowsApart`). On an upset connection `EndedByOwnHandle` still says what can end a transaction: `create_schema()`, which commits it, or a handle of that connection that is unused |
| | `TableKeepsDeclaration`, where `Admitted` is what the DDL of `Table` admits | `TableFacts`: the file together with what a transaction has inserted keeps the constraints; two such row sets could be fine one by one and not together, but a transaction that has inserted holds a lock that no two have (`LockFacts`) |
| `AgentProofs` | `TypeCorrect`, `LastAtRisk`, `ReportedRows`, `AutocommitWhenIdle`, `AgentsImplementLog` | `WorkerInv` says, for each place in a call, what is in the transaction and in the log; `NameInv` that a row being recorded is known to nobody else; `ReportedOnce` that no row is both reported and refused |
| | `RecordsBest` | `ScoredEverywhere`: what is in a transaction or a file has a score that is a number; `DecideFirstBest`: where `Decide`, which goes along the candidates as `min()` does, returns such a one, it is the first of the best |
| `NullModelProofs` | `TypeCorrect`, `ConvergedRight`, `SearchImplementsWatch` | `FirstStart`: the search returns the least start of the final run, which gives how one more tick changes the answer |
| `ColonyProofs` | `TypeCorrect`, `FilesHoldChoices`, `FieldFromChoices`, `ReportedConsensusRecorded`, `RunsCloseAgents` | the properties speak of snapshots and of finished runs; they follow from what is true in the middle of a tick: what the field holds (`FieldNow`), whose observation may be held back (`HeldChosen`), how far each history has got (`InStep`), and that a run being built has done nothing (`NothingYet`) |
| `AnalysisProofs` | `TypeCorrect`, `ReturnsComplete`, `StaysInOrder`, `SweepAgrees`, `TrialsApart` | `Progress` ties the stage to what of this run is on disk, and `DemoDone` to what is in the databases; `Counted` ties the successes on disk to the fixed outcomes of the seeds |
| | `JarIsPinned`, `StatusTellsTruth` (of `CheckScript`) | `Books`: at every place of the script, what has passed is what comes before it and before everything that failed (`Balanced`: the exit alone shows too little of the way there), and while the status is 0, a jar about to be run is the one whose checksum was compared |
| `SweepProofs` | `TypeCorrect`, `TrialsApart`, `PlansRun` | that files are apart follows, for the trial that runs next, from where it is: `TrialOK` says that earlier trials of the point had smaller seeds, those of earlier points another index and those of earlier calls another parameter; the last needs `CallsOK`, what an accepted plan guarantees of its calls |
| | `PointsCountTrials` | `CountsOK` says the same of the points of the call in progress and of the outcomes of the point in progress; for the points to come nothing was run |
| | `IntervalsInvertTest` (the first part of `ReportsExact`) | `CountedOutcomes`: the rate of a point's trials is the rate of the point; `IntervalIsTest` (below) |

Each module goes the same way: `Init => IInv`, one lemma per action that changes
something the invariant speaks of, a lemma for `Next`, then the theorems.

The theorems with a hypothesis say so in their statement (`ASSUME ... PROVE Spec => ...`): it is a condition on the
constants, met by the run that checks the property. `create_schema()` may be called at any time in
all theorems of `StorageProofs`. `TypedStorage` assumes that SQLite admits what the DDL
says (`AdmittedAssumption`), which is what `Schema` models it to do.

Definitions that recurse over data (`FramesFor`, `Decide`) are recursive
functions. The induction theorems of the library take an operator as a parameter and cannot be used
here; where a proof needs induction it takes the least counterexample instead (the lemmas
`Smallest`, from the well-foundedness of `<` on the naturals, and `Recursion`, that the equations of such a
function hold).

The codec is proved about in three parts. *Numbers*: the laws of powers, and that digits and values
are each other's inverse (`ValueOfDigits`, `DigitsOfValue`), each from the equations of its recursive
function. *Frames*: where the seven parts of an encoding are (`Assembled`), and that the parts of a well-formed
string joined again are the string (`Joined`). *Checksum*: `OneByteIsNoticed` says that a frame with one
byte replaced by whatever other byte, in the body or in the trailer, is refused. The argument goes
backwards through the register. The polynomial's lowest coefficient is 1 (`PolynomialAssumption`), so the lowest place after a shift
shows what was shifted out, and with it all places before the shift but the highest are known (`ShiftedBack`);
after a byte, which is not wider than the register, what went out at each of its bits can thus be read
off the result (`FedBack`). So two registers are alike after the same byte only if they were alike before it, and
alike after different bytes only if they were not (`FedApart`): the byte replaced sets the registers apart, and no later byte
brings them together again (`RegisterApart`). The corruption of the fault injector is one such
replacement (`CorruptionChanges`).

`IntervalsInvertTest` is about `WilsonContains` as computed, in lowest terms. `GCDDivides`
gives that the common divisor divides both numbers (Euclid's algorithm is a recursive function of a pair; its equations are proved first,
`GCDStep`), so that a `Ratio` is the number it is written as (`RatioStands`), and `Operations`, `Quotients`
and `Comparison` say the same of the arithmetic. Both inequalities are then brought to integers (`IntervalSide`, `TestSide`), where
their difference is the same up to the positive factor 4 (n + z^2) (`WilsonIdentity`).

**Model-checked only.** `HandshakeEnds` and `CacheHeals` (liveness under fairness is beyond
TLAPS). `ReportsExact`, but for its first
part: the others are about sums over series of any length, sorting and binomial coefficients. The sums are higher-order
operators of the community modules, which TLAPS does not instantiate with a LAMBDA. No module of the project
uses a RECURSIVE operator.

## 5. Where the documents and the code differ

Shown by a run:

- **A reported observation may not be stored.** `record_observation()` drops the result
  of `commit()` (`agent/agent.py:323`); `tick()` says a storage failure is folded into
  an error (`agent/agent.py:329-331`). What holds instead is `OnlyLastAtRisk`
  (`agent_durable`).

Met while modelling, and not given a run:

- A closed session still sends and receives: `send()` and `receive()`
  (`protocol/session.py:229-239`) do not look at `_consumed`; `README.md:116-117`
  says the flag is checked on every call. `DataFromPeer` covers what they let through.
- A negative `deposit_amount` is accepted by `ColonyTrialConfig` and raises deep in the
  loop, after an observation was recorded (`colony/experiment.py:190`; its docstring,
  169-176, is about sparing `decay` exactly this). `RowsFollowChoices` covers the row it leaves.
- `FaultConfig` documents the order drop, duplicate, corrupt (`network/bus.py:52-53`);
  `send()` rolls drop, corrupt, duplicate (149-153), so that the two copies of a
  frame are the same bytes (`CopiesAccounted`).
- A duplicated hello handed to a second idle session establishes that one too;
  `formal/tla/README.md:57-58` says a replay cannot force a second establishment. `OneSessionPerCopy`
  says how far it goes: one session per copy the bus made.
- A responder goes from Idle to Established in one call; `formal/lean/README.md:28` says there
  is no such edge.
- Two agents that dial each other with their only sessions use them up;
  `formal/tla/README.md:31-32` says a pending handshake does not stall for ever, for which
  its specification has an abort step that the code has not. `SpentOnlyByCrossing` shows it is
  the only way.
- `create_schema()` inside a transaction commits it, after which `rollback()` returns Ok
  without restoring anything (`storage/db.py:146`, `storage/transaction.py:76`), and the old
  handle, still unused, can end a later transaction of its connection (`EndedByOwnHandle` bounds the damage to that).
- A primary key that is not an INTEGER accepts NULL, any number of times: its DDL has no
  NOT NULL (`storage/schema.py:90-97`), and SQLite wants it; the docstring, 77-79, calls every
  primary key effectively non-null. The repository's own table has an INTEGER key.
- `observation_count()` is 0 when the file is locked (`agent/agent.py:353`), and counts the
  rows of earlier runs of the demo as the new agents' (`colony/demo.py:92`). `RowsFollowChoices` allows
  both for what the demo reports, and nothing else.
- An analysis that returns lists the databases of the demo as artifacts of the run (`colony/analysis.py:127`), but they hold the
  rows of earlier runs too, failed ones included, and may lack the last row of this one.
- If the score raises after `BEGIN` (`agent/agent.py:318`), the transaction stays open and every
  later `record_observation()` of the agent raises. `RecordRaises` and
  `IdleInAutocommit` say exactly that.
- The mean of a belief is not validated: a candidate whose free energy is not a number is
  chosen if it comes first, whatever the others are, and its observation is refused (`agent/agent.py:297`;
  `BestRecorded`).
- An accepted plan may sweep `num_agents`, or name a decay of 3: the plan looks at names and
  numbers only, and the configuration refuses the value in the middle of the sweep
  (`colony/sweep.py:135`). `PlanRuns` says what a plan does guarantee.
- `cochran_armitage_trend_test()` documents that it raises when all scores are equal; with a
  constant response it returns (0, 1) before it looks at the scores. Scores that are equal
  but whose float mean is off by an ulp have a variance that is not 0.0 (`colony/stats.py:396`): no
  error, and z is the noise. Float rounding is out of the model.
- The comment of the check script (67-71) says the jar is always verified and never left
  unverified; after a failed Lean build a freshly fetched jar is kept and not tested in that run. It is not run either
  (`OnlyPinnedRuns`), and the next run tests it (`CacheHeals`).

## 6. What is not modelled

- Float rounding. Statistics are exact rationals; the free energy is a number given with the
  candidate, or not a number; noise and the location it makes win are free.
- SQL text, row decoding, JSON, drawing, and the pixel tests of the figure validator, which is
  free to reject any figure (the analysis is `partly` for that).
- The p-value of a z statistic and the quantile of the normal distribution (`partly`).
- `colony/cover_art.py` (rendering of one image), `types/ids.py` and `types/result.py` (wrappers without
  state; an `Err` is an outcome of the action that returns it), and the scripts that only call one function.
- `formal/`: specifications themselves. Only the script that checks them is modelled.

## 7. Plan

Done, in the order of importance: bus and handshake; storage and agent; consensus and null
model; colony; analysis; sweep and plans; codec, schema, statistics, check script; the proofs of
the table above.

Every safety invariant, every action property and every refinement the runs check is now proved, but for
the last three parts of `ReportsExact` (percentiles, Fisher's test, the trend). Next:

1. `TrendIsCorrelation` for two groups, where the sums are of two terms.
2. `PlanRuns` for the repository's own names of parameters and metrics.
