# codenames-llm-bias in TLA+

The repository plays Codenames Duet between language models: a rules engine, a
driver that asks the models for clues and guesses and records what they did, a
batch runner that plays 192 games over one database and can be resumed, the
clients that talk to the models' providers, the metrics that read the games
back, and the generator that made the boards. This directory holds TLA+ modules
of that code, the TLC configurations that check them on small instances, and
theorems about them that TLAPS checks for every instance.

    tlc -workers 2 -config MCDuetEngine.cfg MCDuetEngine.tla    # one run
    tlapm DuetEngineProofs.tla                                  # one proof module

`PROJECT.json` lists, for every definition that models code, the lines it
models; every run with its properties; for every property, a mutated definition
that breaks it; the hazards of the code, at their lines; and the theorems.

## 1. Inventory

Paths are relative to `src/backend/app/` unless they begin with `src/`.

| part | state it keeps | operations | talks to | hard behaviour | what makes it correct |
|---|---|---|---|---|---|
| rules engine `core/engine.py` | phase, roles, clue and archive, token reserve and piles, pending words, covers, sudden-death flags, result | `receive_clue`, `attach_confidence_ranking`, `attach_sudden_death_ranking`, `resolve_guess`, `pass_turn`, `concede_sudden_death` | clue validator (its visible words) | a word green on both sides counts for two seats; the penalty that takes the last token; a seat that is done; the hand-over of sudden death | counters agree with the board, tokens are conserved, the phase names a seat with something to do, the game is won iff all is found |
| clue validator `core/clue_validator.py` | `visible_words` | `is_valid`, `remove_word` | called by the engine | its list can go stale | it sees the uncovered words exactly |
| game conductors `core/game_conductor.py` | none of their own | `conduct_clue`, `conduct_guess`, `conduct_sd_guess` | engine, LLM service, recorder | model calls between mutations; proposals with nothing playable; a measurement that fails | only legal engine calls; what is recorded is what happened |
| game runner `core/game_runner.py` | dispatch count, `flushed` latch | `run_single_game`, `create_run` | conductors, writer, invariant guard | the terminal flush fails inside the boundary that flushes on error | one row per game, reported for what it is; every game ends |
| recorder `db/recorder.py` | turns, reveals, proposals, measurements | `record_*` | conductors, writer | indices linked only when the game is written; time markers not stored | the board can be rebuilt from the rows |
| invariant guard `core/invariants.py` | none | `check_invariants`, `guard_invariants` | engine, runner | a strict guard that fires loses the game | it never fires |
| writer `db/writer.py` | tables `run`, `game` and below | `persist_game`, `delete_error_game`, `delete_run` | runner, batch runner, scripts | lost answer to a commit; primary keys against racing writers | a completed game goes only with its run |
| batch runner `core/batch_runner.py`, `db/runs.py` | place in the schedule, failure counter, aborted pairings, tallies | `run_batch` with preconditions, resume, replay, wait | runner, writer | crashes, resumes, overlapping batches, replays | no game played twice, nothing unaccounted for |
| batch schedule `core/batch_schedule.py`, ingest `db/ingest_boards.py`, fingerprints `core/provenance.py` | the boards table; nothing else of their own | `select_boards`, `build_schedule`, `ingest_boards_if_absent`, the comparison of a resume | batch runner, files, database, providers | files, templates, models and code change between, and during, the batches of a run | a run stays one experiment; what was played is what is stored |
| LLM retry layer `core/llm/client.py`, `models/llm_errors.py` | retries, bad draws, seed of the current call | `generate`, `generate_with_retries` | the game's service, the providers | failures and bad draws mixed over one budget; a probe that fails at the first attempt | a seed that drew badly is not sent again, an outage changes nothing, the stamp explains the seed, one regime per client |
| LLM service `core/llm_service.py` | none | prompt building, the five model calls | conductors, clients | one board told to two seats with opposite keys by different functions | what the prompts say of the board is true, and the two agree |
| embeddings `db/embed_mpnet.py` | the table of vectors | resumable backfill | database | numeric | out of scope |
| analysis `analysis/*.py` | none | loaders, metrics, cluster bootstrap | database | rebuilding from rows what the models knew; duplicated games in a replicate; ties and thresholds | what is read is what happened; every word is counted once; every copy of a game weighs as a game |
| board generator `src/board_generator/` | word lists, candidates, dilemma files, board files, frame and seals | curation, `DilemmaSession`, `build_bank`, `write_board`, `emit_frame`, `seal_board_dir` | files, one operator | files that outlive what they were made from; interrupted writes and seals; one order of the neutral pool shared by all boards | every board file is a board the experiment can be played on, under one frame |
| schema, migrations `db/models.py`, `db/session.py`, `src/backend/migrations` | the database | constraints, commit or rollback | all writers | | used by the writer's model |

How they interact: `run_batch` mints or takes over a run, then for each cell of
the schedule calls `run_single_game`, one game at a time. The runner loops over
the engine's phase, calling one conductor per dispatch; a conductor awaits the
LLM service (which awaits a client and its retries), gives the answer to the
recorder and the engine, and returns. When the engine is over the runner hands
the recorder to the writer in one transaction. Everything the batch knows about
a game is the row and the result it returns, and everything the analysis knows
is the rows. The generator runs offline, long before: its files are what
`run_batch` loads and ingests.

## 2. Modules

| module | models | its abstract specification | proofs |
|---|---|---|---|
| `DuetEngine` | `core/engine.py`, card predicates of `models/game_schemas.py`, visible words of `core/clue_validator.py` | `DuetRules` (through `DuetEngineRefinement`) | `DuetEngineProofs` |
| `LLMService` (extends `DuetEngine`) | the prompts and gates of `core/llm_service.py` | none | `GameReadersProofs` |
| `GameConductor` (extends `DuetEngine`) | `core/game_conductor.py`, loop and flushes of `core/game_runner.py`, `db/recorder.py` | `DuetEngine!Spec` itself (`PlaysTheEngine`) | `GameConductorProofs` |
| `GameRows` (composes `GameConductor` and `LLMService`) | the rows `db/writer.py` writes below a game | none | `GameReadersProofs` |
| `GameReaders` (extends `GameRows`) | the loaders of `analysis/` | the engine's own state | `GameReadersProofs` |
| `FrameGeometry`, `GuesserMetrics`, `SuddenDeathMetrics`, `ClueMetrics`, `SkillMetrics` | the metrics of `analysis/`, as operators | none | none |
| `BiasStudy` (composes the metrics) | `analysis/inference.py` and the estimators | none | none |
| `BatchRunner` | `core/batch_runner.py`, the transactions of `db/writer.py`, the deletion of `src/scripts/manage_runs.py` | `ExperimentLedger` | `BatchRunnerProofs` |
| `BatchHistory` (extends `BatchRunner`) | the same, with a record of how each game ended that the code does not keep | none | `BatchCountProofs` |
| `BatchSchedule`, `RunProvenance` | `core/batch_schedule.py`; what a batch checks, loads, ingests, mints and resumes, while the world changes | none | `RunProvenanceProofs` |
| `LLMRetry` | `core/llm/client.py`, `models/llm_errors.py`, failures and probe of both clients | none | `LLMRetryProofs` |
| `WordPools`, `PairMatching`, `BoardAssembly` | word lists, neutral candidates, balanced pairs, words, key card and grid of a board, as operators | none | lemmas of `BoardBankProofs` |
| `BoardBank` (composes the three) | the generator's tools over its files | none | `BoardBankProofs` |

### DuetEngine and DuetRules

The variables are the fields of `GameState`, named at their declarations; cards
are model values and a board is `Side[seat][card]`, with the role counts the
board validator enforces as an assumption (`BoardRules`). There is one action
per public method. A call the engine refuses raises before it changes anything,
so it is no step; who may call what is the guard. Clues are words by what the
validator makes of them: a word of the board, not a word, or unrelated.

`DuetRules` is the game with the bookkeeping removed: which words each seat has
to find, which it found, what is left of the reserve, and whether the game
stands, is in sudden death, won or lost. `PlaysByTheRules` says that the engine
implements it under the mapping of `DuetEngineRefinement`.

### GameConductor

Adds to the engine the driver's place (`at`: the loop's head, in a measurement,
resolving a proposal word by word, flushing, in the error boundary), the
proposal being resolved, the recorder's turns and reveals, the database row and
the result reported to the batch. An action is what happens between two awaits:
a model call's answer is chosen when it arrives, and any call may fail for good
(`ModelCallFails`) unless the code swallows that failure. Proposals come from a
set of sequences that includes repeats and words that are not on the board; the
recorder's telemetry and the words of the prompts are left out.

A commit that raises may have committed or not (`FlushFails`, `ErrorFlush`).

### BatchRunner and ExperimentLedger

Any number of batches, all of the same boards, models and seed, so that all of
them schedule the same game ids: this is where they can interfere. Each has its
place in `run_batch` and what it holds in memory. A game is two or three of its
transactions, with the outcomes `GameConductor` gives it. `Die` may happen at
any point and loses the memory; a new batch may resume the run. `Overlap` says
whether two batches may be alive together (an operator's mistake that only the
preconditions and the primary key stand against). `ExperimentLedger` is what
the database promises: a game is recorded at most once, by a run that exists;
only an error is forgotten; a completed game goes only with its whole run.

The preconditions that compare digests, boards, rosters and templates are one
choice here (`Refuse`) and the subject of `RunProvenance`; the wait for the
provider is one choice (it answers or its budget is spent).

The code keeps of the failures in a row only their number. `BatchHistory` adds
what that number is about: of each batch, how each game it counted ended
(`ended`). Each of its steps is a step of `BatchRunner` and no guard reads the
history, so it allows what `BatchRunner` allows; `CountsOnlyItsOwnErrors` is
stated over it.

### BatchSchedule and RunProvenance

The other view of a batch: games do not fail, batches do not overlap, and what
may happen instead is that a board file, a template, a served model, the code or
the database changes, between two batches and, with `EditsDuringLaunch`, between
two steps of a launch. A launch is the code's own sequence: load the bank, check
the seed's games or the run being resumed, ask the providers what they serve,
ingest the files, mint the run or compare with it, play. A row keeps what the
game was played with whether or not the database records it, so that the
properties can say what the database should have been able to tell. A
fingerprint is the value it is taken of: digests do not collide. The schedule
is the code's function of the boards and models, with the order of ids for the
order of strings; the items of a sorted list are named by their rank (`Nth`,
`PairingKey`), and a game index is taken apart as the code puts it together
(`Pairing`, `Place`, `Seats`).

### LLMRetry

One client for the length of a game: each call is a series of attempts; an
attempt probes the capability (local client, first time), resets the context,
sends the chat and reads the answer. An answer is what is wrong with it (empty,
cut, malformed, degenerate), an error is its code in the taxonomy. A seed is the
number of its draw: `redraw_seed` is a hash, taken to be injective.

### LLMService, GameRows and GameReaders

A prompt is the information its text carries: the words listed in each of its
parts, as sets, and the clues. `GameRows` is `GameConductor` with the log of the
requests that were answered or missed; the rows are a function of the stored
recorder, because the writer runs once, on it. `GameReaders` is what the
loaders of the analysis compute from the rows, and its properties compare that
with the log and with the engine's state, which the loaders never see.

### The metrics and BiasStudy

Cosines are integers, means over a history are kept in units of `1/Scale`, and
results are fractions, so that comparisons are exact. Each metric is a
composition of the code's steps: admissible turns, the funnel of exclusions,
observations, bands, weights, cells. A bootstrap draw is a multiset of games
(no estimator looks at their order) chosen by TLC; the percentiles of the kept
values are left out.

### The board generator

A word is the number of its place in the alphabet, since the generator sorts by
text before it chooses; a seeded generator is a function of its seed and of the
segment of the stream the code reads (`Deal`). The corpus, the number of senses,
the logits of the propensity model and the arbiters' cosines are parameters.
`BoardBank` is one operator at a time, running the tools in any order and
interrupting any of them; the lists are edited between tools and while a
dilemma is under construction. Files are replaced whole: a file cut in the
middle of a write is not modelled. A manifest lists files the dilemma tool
wrote, so that the bank's own check of their verdict never fires. The log of
rejected attempts, the balance report and the role-gender audit, which
only warn, are left out.

Two remarks from reading. `composition.py:263-266` says that consecutive boards
take disjoint windows of the neutral pool; each probe also drops its own bridge
from it, so two consecutive probes may share one word, and `PoolIsSharedOut`
states that bound. And the files of an earlier, larger bank are not removed by a
later one: the directory may mix the two, which is why `DirectoryIsABank` is
about each file and about the seal, and not about the bank as a whole.

## 3. Runs

| run | instance | states | what it shows |
|---|---|---|---|
| `engine` | seven words, three tokens, every call | 214,400 | the guard finds nothing, the two prompts of a turn describe the board, the archive accounts for the tokens, covered words and finished seats are left alone, the rules are refined |
| `game` | four words, two tokens, every answer, refusal, failed call and failed commit | 231,730 | the driver plays the engine, the record tells its game, the row is the game, it ends and is reported |
| `game_cap` | the same game cut by a low cap | 5,980 | the cap holds, and what it cut has no result |
| `game_readers` | three tokens, with the log of the prompts | 459,190 | what the analysis reads back is what was asked and what happened |
| `llm_retry` | two calls, three retries, both providers | 79,286 | seeds, stamps, budget and regime of a client |
| `batch_overlap` | two batches, three games of one pairing, overlapping, dying, runs deleted | 716,471 | the database is a ledger; what is reported completed is stored |
| `batch_alone` | two batches in succession, four games, a pairing of three, with the history | 1,094,448 | nothing left out, the failures in a row counted as they happened, places free, one run, every batch ends |
| `run_provenance` | two launches, two changes of the world between or after them | 1,828,741 | a run is one experiment; what was played is stored |
| `edits_during_launch` | the same, a file edited during the launch | stops | `PlayedIsStored` fails: a finding |
| `bias_metrics` | every metric over small data sets, two replicates | 81,628 | copies of a game count as games; every word is accounted for |
| `board_bank` | boards of seven cards, two constructions, two builds, one edit | 151,221 | every board file can be played, a finished seal pass leaves one frame, the pool is shared out |
| `neutral_rebuild` | the candidates written again with `neutral.csv` in place | stops | `OnlyGenderExcludes` fails: a finding |

Why these bounds are enough. The engine's rules tell cards apart only by their
pair of roles and whether they are covered; the seven-word board has one card of
each pair that the engine treats differently, and three tokens let a turn end in
each way before sudden death. The game's board is the smallest that the rules
allow; with two tokens it reaches the penalty on the last token, both seats'
sudden death and all its endings. In a batch the interesting distances are
"the same pairing", "the next pairing" and "one failure below the threshold",
which the four games of `batch_alone` contain with threshold 2; the ledger of
`batch_overlap` has nothing to do with the second. The LLM run uses the code's
own retry budget; the second call is there because the probe's cache outlives
the first. `game_readers` needs a third token, for a civilian and an invalid
clue before sudden death. In `run_provenance` the schedule is two models over
two boards, and two changes are what it takes to change a thing and change it
back. The bank of `board_bank` has boards of seven cards, one pair, a neutral
pool of ten (a control takes seven, so that two of them wrap around it and two
probes do not), two arbiters that disagree, and dilemmas whose words an edit or
a review may strike; `MaxWork` bounds editing, constructions and builds
together, so that two builds over one dilemma, or one over two, both occur.
`MaxCalls`, `MaxDispatches`, `MaxLaunches`, `MaxChanges`, `MaxProbes`,
`MaxSessions`, `MaxBuilds`, `MaxEdits` and `MaxWork` are the only counters
capped; of these `MaxDispatches` is in the code (2000, far out of a game's
reach: `DispatchesAreFew`), the rest are bounds of the runs.

`CHECK_DEADLOCK FALSE` is set where the system really stops: a finished game, a
finished batch, a client whose calls are over, a study, an operator whose
bounded work is done. Symmetry is used for batches in `batch_overlap` only,
never where liveness is checked.

Fairness. A game is fair in its next step (`GameSpec`): the loop awaits nothing
but model calls and transactions, and each of those answers or times out. A
batch is fair in what it does of itself once started, and in the refusal of a
resume whose run is gone (`Fairness`); nothing makes an operator start a batch,
a process die or a run be deleted. The engine and the LLM client have no
fairness: nothing obliges a caller to call.

### Reading the properties

* Engine (its types are the first part of the game's `GameTypeOK`):
  `GuardFindsNothing` is everything the code's own strict guard looks
  for, so that it can never end a game: tokens conserved, counters and
  validator in agreement with the board, a phase that names a seat with
  something to do, a result that is honest. `ArchiveAccountsForTheTokens` ties
  the token piles to the archive through every way of ending a turn, the
  penalty that takes the last token included. `CoveredIsFinal` says that a
  covered word is covered for both sides of the key: read from the guesser's
  own finds, it would be resolved again against the other side, which neither
  the counters nor the abstract rules see. `DoneSeatTouchesNothing` says that a
  seat with nothing left to find makes no call of its own, be it a guess, a stop
  or a concession, in a turn or in sudden death, lays no token and is credited
  with no word: that the roles are handed over, and sudden death handed on,
  correctly for the rest of the game. `PromptsShowTheBoard` says that the two
  prompts of a turn describe one board, the engine's.
* Game: `PlaysTheEngine` (the driver makes only calls the engine accepts, so
  that all of the above holds of every driven game), `RecordTellsTheGame`
  (what is stored rebuilds the board, the tokens and the order of play),
  `CompletedRowIsTheGame`, `RowIsFinal` (what the batch and the database are
  told), `DispatchesAreFew`, `CapHolds`, `EveryGameIsReported` (it ends),
  `SuddenDeathSeatsAreAsked`, `MeasuredBeforeGuessing` (the measurements are
  taken when they should be). The recorder's docstring says that time markers
  are rebuilt from the civilian reveals; the exact statement, in
  `RecordTellsTheGame`, is that only those of the normal turns count, since a
  sudden-death miss on a civilian is recorded too and lays no token.
* Readers: `OfferedIsWhatWasAsked` (the words CIT takes as offered are those
  the prompts listed), `SuddenDeathIsReadRight`, `SkillIsReadRight`,
  `AvailableWasShown`.
* Metrics: `EveryCopyCountsOnce` (a replicate weighs every copy of a game as a
  game of its own, and contrasts are paired), `EveryWordIsAccountedFor` (the
  funnels add up, bands are thirds of their population, no choice is counted
  by two metrics, and the games of the pairs are those of the models).
* Provenance: `RunIsOneExperiment` (whatever changed between its batches, a run
  holds games of one schedule, one content per board, one fingerprint), and
  `PlayedIsStored` (the database holds the boards the games were played on). The
  second fails when a file is edited during a launch: `edits_during_launch`.
* Generator: `DirectoryIsABank` and `PoolIsSharedOut`, described above, and
  `OnlyGenderExcludes`, which a comment claims and a rebuild with `neutral.csv`
  in place violates: `neutral_rebuild`.
* Batch: `StoreIsALedger`, `ReportedCompletedAreStored`,
  `ReplayFindsItsPlaceFree`, `OneRunOwnsTheSchedule`, `NothingLeftOut`,
  `CountsOnlyItsOwnErrors`, `EveryBatchEnds`. `CountsOnlyItsOwnErrors` is an
  equality twice over: the counter is the number of this batch's errors in this
  pairing after its last completion, played or kept, and the pairings given up
  are exactly those with an error that made such a row of the threshold. A
  forgotten reset, a row carried into the next pairing and a threshold off by
  one in either direction each break it. `ReplayFindsItsPlaceFree` and
  `OneRunOwnsTheSchedule` hold only without overlap: two batches started
  together both pass the collision check, and the primary key then keeps the
  rows apart at the price of a game played to the end and lost.
* LLM: `BadSeedIsNotSentAgain`, `OutageKeepsTheSeed`, `StampExplainsTheSeed`,
  `BudgetIsSpentNotExceeded`, `OneRegimePerClient`; the bound on the seconds a
  call sleeps between its attempts is in `TypeOK`.

## 4. Proofs

The theorems hold for every value of the constants that satisfies the named
assumptions: a finite set of cards with a legal board, at least one token and
one agent per side (`CardsAssumption`, `SideAssumption`, `CountAssumption`,
`BoardAssumption`), non-empty proposals (`ProposalsAssumption`: the schema
refuses an empty one), a dispatch cap of at least one, a natural retry budget;
games numbered without gaps and a pairing's games contiguous
(`PairingAssumption` of `BatchRunner`, which `ScheduleIsBalanced` shows of the
schedule the code builds); a finite bank, finite rosters, a board table and
files of boards that exist at the start. Of the generator: the rows the lists may
hold are finitely many, and a neutral one names no specification, as
`neutral.csv` is written (`RowAssumption`); `random.Random` deals a permutation,
whatever it is seeded with (`DealAssumption`); a fit gives each of its words a
logit (`LogitAssumption`); and the table of the joint distribution has a pair of
roles once and agents enough on the model's side for a dilemma
(`JointAssumption`). Two hypotheses are conditions of use
and stand in the theorems that need them: `~Overlap` (one batch at a time) and
`~EditsDuringLaunch`. The runs without them refute what those theorems say, or
show what is left of it.

* `DuetEngineProofs`. The central inductive invariant is `PhaseInv`: the types,
  the pending counters as cardinalities of the words on the board, the tokens,
  and `PhaseFitsTheBoard`. No part stands alone: that the phase names a seat
  with a pending word needs the counters to be right, that sudden death starts
  at an empty reserve needs the tokens to be, and that a counter goes down by
  the right amount needs a finite board and the guess to be on an uncovered
  word. `RulesInv` adds who found a word and the honesty of the result, and
  carries `EngineImplementsRules`: every engine step is a step of `DuetRules`
  or a stutter. `GuardCorrect` collects the separately proved parts of
  `CheckInvariants`; `PendingReachable` and `CoveredCorrect` (what lies on a
  covered word is final) follow from those parts, and so does `DoneSeatsRest`: a
  phase, of a turn or of sudden death, gives the move only to a seat with
  something to find, and a find credited to a seat with none would leave its
  counter below zero, which a cardinality cannot be. `ArchiveCorrect` has an invariant
  of its own, `ArchiveInv`: the archive is in the order of the turns and has
  left out only the clue in hand, the penalties paid are the invalid clues
  archived or in hand, and each archived turn has cost its token. The exception
  it has to carry is the penalty that took the last token: the turn it ended
  was archived and has no token of its own left to lose.
* `GameConductorProofs`. `ConductorPlaysTheEngine` shows every step of the
  driver to be a step of the engine or a stutter, so that every engine theorem
  holds of the driven game; `GuardNeverEndsAGame` is the first to be carried
  over. `RowInv` relates the driver's place, the latch, the failure and the row,
  and gives the two theorems about what is stored and reported. `DriverInv` relates the place where the driver stands to
  the phase of the engine (`PlaceInv`), counts the dispatches (`PaidInv`: every
  token that has left the reserve has paid for two, and the turn in hand is one
  ahead), and says which seats can have been measured (`MeasureInv`). It gives
  `SuddenDeathAsked`, `FewDispatches` and `CapCorrect`, and with them
  `CapNeverFires`: under a cap above twice the tokens and one, reaching the cap
  could only mean a defect of the conductors.
  Of the record of a game, `RecordInv` is what holds of the recorder's turns at every
  await: one normal turn per clue, live or archived, then at most one
  sudden-death turn (`ShapeInv`, `MatchInv`); in the turn being guessed every
  reveal comes from before the next proposed word, has left the turn open and
  has left the reserve where it is (`GuessedInv`); in sudden death a seat has
  no reveal before its proposal and seat 1 none while seat 0 plays
  (`SuddenInv`). The four parts of `RecordTellsTheGame` are not inductive
  without these: a reveal is linked only because the words before it are, and
  the reserve runs down only because no earlier reveal ended the turn. Each
  handler has a lemma (`PlayWordKeeps` is the long one); `RecordCorrect`,
  `MeasuredInTime` and `GameTypeCorrect` follow.
* `GameReadersProofs`. The prompts are functions of the engine's state, so
  `PromptsCorrect` needs no invariant but those of the engine: which words a
  giver is told its partner can touch, and which are the guesser's to find,
  follow from the pending counters and from who found what. The readers compare
  the rows with the log of those prompts. Every step of `RowsNext` is one of
  `GameNext`, so all of the above holds of the logged game (`GameInvariant`);
  a stored row is the recorder (`StoredTurns`), and the recorder only grows: a
  step opens one turn or writes to the last, and only a guess adds a reveal
  (`RecordGrows`). What lies before a turn is therefore settled when it opens
  (`PastStays`), and from it the board the prompt showed can be rebuilt
  (`FoundIsCovered`, `TokensAreMarked`). `RequestInv` says of the log that each
  turn's clue and measurement showed that board (`ShownInv`, `OfferedInv`), and
  that a turn's play and measurement showed the same, because nothing happens
  between them (`OrderInv`; a turn that has its clue to come has asked its
  guesser nothing). It gives `AvailableShown` and `OfferedAsAsked`. `EndInv` says
  how the reveals tell the end: each has the role of the partner's key, no agent
  is found twice, only the last can have ended the game and then the result
  names its role, and the result tells whether sudden death was recorded; a
  conceded sudden death is recorded because the proposal that ran out was.
  `SDAskedInv` says that the archive is closed when sudden death is asked
  (`ArchiveClosed`). The numbers of the rows count from 0, the turns of the
  prompts from 1, so the two lists of clues agree by `ShiftedOrder`.
  `SuddenDeathRead` follows. For `SkillRead` an item's link is shown to be one
  reveal or none (`OneReveal`: a seat's reveals carry increasing positions), so
  that the later of two never overwrites the earlier; the counts then agree by
  one-to-one maps between finite sets (`MatchedCount`, `CreditedAgents`).
* `BatchRunnerProofs`. `BatchesKeepTheLedger` needs no invariant of the
  batches' memory: whatever a batch believes, the guards inside the
  transactions are enough. `BatchInv`, of every batch, overlapping or not, is the
  types with what keeps the replay counter in its bound. `AloneInv` adds what
  holds without overlap: at most one batch is active, and it `Knows` the
  database although it read it only once, when it started. Every row is its
  own run's, a cell it has not come to is as it was read, and what stands in
  the place of the cell in hand is an error until it is forgotten. A crash
  leaves nobody who knows anything, which is why the start of a batch has to
  establish `Knows` from the preconditions alone.
* `BatchCountProofs`. The counts of a batch, for any number of overlapping
  batches. `CountInv` says what each number of the tally is the number of: the
  cells of the pairing that are behind the batch (`Passed`), those kept from
  before, those that failed; that a pairing short of its cells is one the batch
  gave up, with as many errors as it takes; and that the counter of consecutive
  failures never exceeds the errors counted in the pairing it is about. That the
  counter is reset only when the batch comes to another pairing is why the
  pairings have to be contiguous. It gives `FinishedAccounts`.
  For the failures in a row the history is needed. `HistoryInv` says of each
  batch (`Watched`) that its history has no game beyond the last one counted,
  that the counter is the size of the streak up to the place the batch has come
  to (`StreakTo` with the game just counted, `Streak` before it), and that the
  pairings given up are those of the breaking games. `StreakBefore` and
  `StreakOver` carry a streak over one more cell: a completion empties it, an
  error adds its own game, anything else leaves it, and the next pairing begins
  with none. The history only watches (`HistoryImplements`), so `CountInv` is
  there to be used. It gives `CounterIsItsOwn`. `StoredInv` puts the database under the counts: as long as
  the batch's run exists, what it found completed, the result in its hands and
  the games it counted are rows of that run (`Backed`). Since a run's id is
  minted once (`MintInv`), a deleted run cannot come back with other rows, and
  `ReportsAreBacked` follows although any other batch may write meanwhile.
* `RunProvenanceProofs`. First the schedule, as arithmetic on ranks: a finite set
  of numbers has an element of every rank (`NthExists`), the pairs of models are
  numbered without gaps (`PairingKeyExists`), and an index is a pairing, a place
  and a seat order, each triple once (`IndexOf`, `IndexUnique`). With these
  `ScheduleIsBalanced` is the docstring of `batch_schedule.py`, for every bank
  and any number of models and boards. Then `ProvenanceInv`: every row agrees
  with its run's row and with the schedule's function of the run's own models
  (`Agrees`), its board is stored with its content, and a run has one board at
  each place (`RowsInv`); a batch being launched still sees what it checked
  (`Loaded`, `Checked`, `Opened`), and a batch that plays has a run that says
  what the batch will write, and a schedule that contains all the run has
  (`Plays`). `JobInv` is the part that fails when a file is edited during a
  launch. It gives `PlayedBoardsAreStored` and `OneExperiment`; in the second
  two different games of a pairing on one place must differ in the seat order,
  by `IndexUnique`, and so exchange the seats.
* `LLMRetryProofs`. `RetryInv` says that the seed is the sum of the bad draws
  counted so far, that the counts are those of the attempts made, that seeds
  never go down along the attempts and go up exactly at a bad draw, and that
  attempts and retries move together. The lemmas `SeedsFollowOn`, `CountOn` and
  `TotalOn` carry each of these over one more attempt. `RegimeInv` is a second
  invariant, of the client and not of the call: the capability is known before
  the first draw and is never unknown again.
  `CallsAreTyped` is the type of the client with its bound on the seconds a
  call sleeps, 15 * (2^n - 1) after n retries (`CallTyped`). The provers do not
  compute with exponents, so `2 ** n` is the recursive function `PowerOfTwo`,
  and `PowersDouble` shows that it exists and doubles: by `SetInduction`, an
  induction over a set of numbers that follows from the order of the naturals
  being well founded, tables of its first values exist and agree.
* `BoardBankProofs`. `BankInv` is the inductive invariant of the generator's
  tools: the lists hold rows that may be listed, every dilemma on file was
  accepted, every board on file can be played on (`Playable`), and so can every
  board a build has still to write (`BoardsLeft`); a seal pass has its frame on
  all files it is through with. The directory alone is not inductive: a build
  writes what it composed from lists that may have been edited since, so the
  boards in hand are part of it, and an accepted dilemma has to be
  known to pass every arbiter without the lists it came from. The work is in
  `Composed`, which says of every bank that `BuildBoards` returns what its
  boards are made of. It takes the generator's functions one by one: dealing,
  sorting, filtering and cutting windows (`ShuffledElements`, `SortedLists`,
  `KeptElements`, `WindowElements`), the matching, which yields pairs of one
  word of each group (`MatchedPairs`), the key card, which
  has every pair of roles as often as the table says, and the places, where the
  dilemma is on agents and every word is once (`AssembledBoard`).
  `ProbeContents` counts a probe: as many words of the one gender as of the
  other, and the rest neutral, because the words were placed and not changed.
  It gives `DirectoryAlwaysABank`.
  `PoolAlwaysSharedOut` needs arithmetic on top. The controls take consecutive
  windows of one circular order, so that a word at place `x` of `size` is used
  once for every `k` with `x + k * size` below the words taken (`Rounds`); two
  places differ by one round at most (`RoundsAreEven`), and a window no wider
  than the pool meets a place once (`WindowsAreRounds`). Of two consecutive
  probes each takes its stretch of the order without its own bridge, and
  leaving one element out moves the others by one place at most
  (`FillsAreStretches`): the stretches can overlap in one place only.
  The matching is a recursive function; that it exists and is what each step
  computes follows from `StepsExist`, by the induction of `SetInduction`. The
  Fisher-Yates shuffles stay the parameter `Deal`.

Only model-checked: liveness (`EveryGameIsReported`, `EveryBatchEnds`), which is
beyond the prover, and the two properties of the metrics (`EveryCopyCountsOnce`,
`EveryWordIsAccountedFor`). These are about folds, choices and exact fractions
of data sets. The library's induction over finite sets takes an operator as a
parameter, which the installed provers cannot instantiate; an induction in the
manner of `SetInduction` for the folds they use has not been carried out.

## 5. What is not modelled

`PROJECT.json` gives the reason for each part. In short:

* texts and numbers: the wording of prompts and logs, how JSON is found in a
  model's prose, the telemetry of a call, the clue validator's morphology (a
  clue is what the validator makes of it), percentiles of the bootstrap
  intervals, embeddings and cosines, the propensity model, the balance report
  and its statistical tests, the generator's encoders and diagnostics;
* the arithmetic of the wait for a provider (the doubling, capped step cut to
  the budget): in `BatchRunner` the wait ends one way or the other;
* of a launch, the ingest of the frame, the check of the schema's head and the
  choice to retry errors, which `BatchRunner` has but `RunProvenance` has not;
* the backfill of embeddings, the golden games and the comparison of solvers,
  migrations, argument parsing and printing, containers;
* half-written files, and dilemma files whose words an editor relabelled by
  hand afterwards: the generator does not look for either.

## 6. Plan

Done, in this order: engine and its rules, their proofs; conductor, runner and
recorder; batches over the database; the retry layer; prompts, rows and readers;
schedule and provenance of runs; metrics and bootstrap; board generator; proofs
of the prompts, of the batches without overlap, of the regime of a client, of
the driver's dispatches and of the record of a game; proofs of the archive, of
the counts and reports of batches, of the schedule, of the provenance of runs
and of the readers of games; proofs of the board bank.

What is left:

1. `ProviderWait`: the doubling, capped and cut wait of `_wait_for_provider`,
   composed with the replay of a lost game.
2. The ingest of frame words and the backfill of embeddings, with a crash
   between two commits.
3. The clue validator's comparison as a pure operator against a reference.
4. Proofs of the parts of the metrics that are no recursion: the admissible
   turns and the funnels.
