# A verification of kloppy

kloppy reads soccer event and tracking data of some fifteen providers into one
data model, and lets its users navigate, filter, transform, search, annotate and
export the result. It is sequential: no threads, no network protocol, no
database. Three things make it hard to get right.

- **Sharing.** A dataset is a list of mutable record objects and a mutable
  metadata object; every operation builds a new dataset, but hands on some of the
  old records and always the same players, teams and periods. After *this*
  sequence of loads, filters, maps and transforms, what do all the datasets that
  still exist say?
- **One pass with a memory.** A deserializer goes over raw items once and carries
  periods, ball states, set pieces, players and the events it has already made
  from one item to the next, looks at items ahead, and makes several events of
  one item or one of several. Sampling and limits cut into the middle of that.
- **Hidden automata.** A pattern is compiled into a graph whose edges are joined
  around everything optional, in the order of a hash set, and matched by
  explorers that branch.

The modules here model that. TLC checks small instances; TLAPS proves the
central facts for every value of the constants.

## Inventory

| Component | State | Operations | Interaction |
|---|---|---|---|
| **time** (`domain/models/time.py`) | periods linked by `prev_period`/`next_period`; `TimeContainer.items`, a dictionary sorted by `Time` | `Time` ± `timedelta`, `Time - Time`, order; `set`, `value_at`, `last`, `ranges`, `reset` | `Metadata.__post_init__` sets the links; positions and formations live in TimeContainers |
| **records and datasets** (`common.py`, `event.py`, `tracking.py`) | `record.dataset`, `prev_record`, `next_record`; `dataset.records`, `metadata` | `__post_init__`/`set_refs`, `filter`, `map`, `find_all`, `prev`, `next`, `attacking_direction` | every constructor runs `set_refs` on records that may already belong to a dataset |
| **dataset transformer** (`transformers/dataset.py`) | none of its own | `transform_dataset`, `transform_event`, `transform_frame` | returns new or shared records; assigns `freeze_frame` in place |
| **pitch** (`pitch.py`) | none | conversion between pitch dimensions by zones, through a pitch in metres; the coordinate systems of the providers | called by the transformer |
| **positions and formations** (`event.py`, `common.py`, `aggregators/`) | `player.positions`, `team.formations` | `_init_player_positions`, `_update_formations_and_positions`, `minutes_played` | refilled by every constructor, in metadata that all datasets share |
| **state builders** (`state_builder/`) | the state of the loop of `add_state`; `event.state` | `score`, `sequence`, `lineup`, `formation` | copy every event; `sequence` looks ahead over `next_record` |
| **pattern matching** (`matchers/pattern/`) | a graph; sets of explorers with trails | compile an expression, match, capture, `search` | reads `dataset.events` per period |
| **selectors** (`Event.matches`, `matchers/css.py`) | none | string to predicate | gives `filter` and `find_all` their predicate |
| **tracking deserializers** (11 formats) | the counter of frames, periods, players, ball state, half-built frames | raw frames, lines or XML sets to frames; `limit`, `sample_rate`, `only_alive` | make the first dataset of a session; transform frame by frame |
| **event deserializers** (8 readers) | periods, the last event, set piece, previous and next items | raw items to events with results and qualifiers; `event_types` | make the first dataset of a session; transform event by event |
| **configuration** (`config.py`) | one dictionary of the process | `set_config`, `reset_config`, `get_config`, `config_context` | the coordinate system is read by every load, the cache directory by every read |
| **input and output** (`io.py`, `infra/io/`) | open outputs with their buffers; a cache on disk | `open_as_file`, `expand_inputs`, adapters for files, URLs, S3, zip | feeds the deserializers; code data is written through it |
| **provider front ends** (`_providers/`) | none | the load functions: which inputs, in which order, which format | I/O and configuration, then a deserializer |
| **export** (`transformers/data_record.py`, `transformers/attribute.py`) | none | `to_dict`, `to_records`, wildcards, callables | read a dataset |
| **code data** (`domain/models/code.py`, `serializers/code/`) | none | codes from a dataset, saved to XML and loaded | I/O |
| **factories, command line, utilities** | none | keyword arguments handed on; argument parsing | leaves of the system |

`PROJECT.json` lists what is hard in each, hazard by hazard, at the line where it
bites, with the properties that would catch it. In short:

- *time*: exactness across periods, the two representations of a period
  boundary, loops over links that must end;
- *records*: references of shared records that are stale after another
  construction, links that lead into other datasets;
- *transformer*: the decision to flip is made from what the metadata says, so
  one wrong announcement silently corrupts all later transforms; in-place
  assignment; an exception half way through the records;
- *positions*: shared containers rewritten by derived datasets; the order of
  reads and writes at a substitution; the 60 seconds in which a formation change
  rewrites history; two independent computations of who is on the pitch;
- *state builders*: the state *before* an event against the state after it;
  look-ahead through links that may not be those of the dataset; renumbering;
- *patterns*: hash order; captures merged, cancelled and reopened on edges around
  optional and repeated parts; a loop that consumes nothing;
- *readers*: what is carried over items that are sampled away; limits counted in
  another unit than the frames; players enrolled on the way; facts told by the
  item before, the item after, or both;
- *settings and storage*: contexts that undo one another; a cache that is never
  refreshed; an output that is replaced by what was written before an exception;
- *pitch*: markings where two zones meet, places beyond the edge, half-pitch
  mirroring, axes that point the other way.

There is no concurrency in the code, and the models have none, except that each
iteration of a loop that the properties look into is a step. A session is the
interleaving that matters: any operation may follow any other, contexts and
outputs may be open side by side, and hash order is a free choice.

## The modules

| Module | Models | Proofs |
|---|---|---|
| `Clock` | periods, `Time`, its order and `Time - Time` as values | |
| `MatchTime` | the three loops of `Time` arithmetic, one iteration per step | `MatchTime_proofs` |
| `Dataset` | sessions of load, filter, map and transform over a heap of records | `Dataset_proofs` |
| `Positions` | TimeContainers, positions, formations, minutes played, the lineup and formation builders | `Positions_proofs` |
| `AddState` | `add_state` with the score and sequence builders | `AddState_proofs` |
| `PatternAst` | the syntax of patterns and what it means (`ParsesFrom`) | |
| `PatternSearch` | abstract: what `search` promises, without graph or automaton | |
| `Pattern` | `ast_to_graph` node by node, `RegExp.match` explorer by explorer, `search` | |
| `TrackingReader` | what tracking readers share: options, sampling, periods, the loop | |
| `SkillCornerReader`, `FrameReaders` (Second Spectrum, Signality, StatsPerform, PFF, TRACAB, Metrica CSV and EPTS), `EntryReaders` (Hawk-Eye, Sportec) | one turn of the loop of each format, and what follows the loop | |
| `Tracking` | composes them: one action per reader, `Finish` | `Tracking_proofs` |
| `EventModel` | event types, results, qualifiers, and what event readers share | |
| `StatsBombEvents`, `WyscoutV2Events`, `WyscoutV3Events`, `OptaEvents` (also Stats Perform), `SportecEvents`, `DatafactoryEvents`, `ImpectEvents`, `MetricaEvents` | one turn of the loop of each reader, and what follows the loop | |
| `Export` | selectors, rows and tables, codes and their file | |
| `Events` | composes readers and `Export`: load, select, tabulate, save, read back | |
| `ScopedConfig` | abstract: settings with dynamically scoped bindings | |
| `Config` | the dictionary and `config_context` | `Session_proofs` |
| `Storage` | `open_as_file`, adapters, the cache, buffered outputs | `Session_proofs` |
| `Loaders` | the inputs of the load functions | |
| `Pitch` | dimensions, zones, conversion, coordinate systems, in exact fractions | |
| `Session` | composes `Config`, `Storage`, `Loaders`, `Pitch`: settings, files, a loaded dataset and its transforms | |
| `FiniteLemmas` | no model: lemmas on finite sets of numbers, recursive functions over `0..n` and sums over finite sets, for the proofs | itself |
| `FoldInduction` | no model: induction over a fold of a sequence, instantiated by the proofs once for every fold of a model | itself |
| `MC...` | values of the constants for TLC | |

`Positions` extends `Clock`: it uses `Time - Time` as the value `MinusTime`, and
`MatchTime` has the same operation step by step. `Dataset`, `Positions` and
`AddState` model the same construction of a dataset from three sides: what
happens to its records, to the metadata it shares, and to the state attached to
its events. `Dataset` has coordinates as frames of reference, `Session` has them
as numbers: `Dataset` says *which* conversion is applied to a record, `Pitch` what
it does. `Tracking` and `Events` end where `Dataset` begins, with the records of
the first dataset. None of these pairs shares a variable, because the code does
not either: the position update reads only the event's own data, no state builder
reads a coordinate, and no reader looks at a dataset.

A definition with the comment `\* Fault: ...` stands before the one it would break
and is used by no other definition; it exists to show that a property notices.

### MatchTime

`period`, `timestamp` and `rest` are the locals of the loops (`current_period`,
`current_timestamp` or `diff`, and what is left of `other`). `CallSub`,
`CallAdd` and `CallDiff` are the calls; each `Step...` is an iteration, each
`...Return` and clamp a `return`. Time is in ticks. A timestamp may exceed the
duration of its period, as stoppage events do. `Kickoff`, ticks of play before a
period, is not in the code: it is the scale on which results are judged.

`LoopConserves` is the loop invariant: what was walked plus what is left is the
instant asked for. `ResultExact` follows from it when a loop returns.
`BoundaryRepresentation` says which of the two Times of a period boundary comes
back: that decides the key under which a TimeContainer files an item.
`LoopEnds` is the one liveness property. Its fairness, `WF_vars(Loop)`, says a
called function runs: nothing in these loops waits for anything.

### Dataset

`heap` maps object identities to records; `<<n, e>>` is the copy of source
record `e` made for dataset `n`. Operations keep the order of the records, so a
list of records is a function from source numbers to objects. Coordinates are
abstracted to the frame of reference they are expressed in: `dir`, where the
home team attacks, and `cs`, the coordinate system. A conversion applied to
coordinates that are not in the system it converts from gives `Garbled`.

- `Load` is the first dataset of a deserializer; `Filter`, `Map` and `Transform`
  derive others from *any* earlier one. `Map` replaces any subset of the
  records, as the mapper may; `add_state` is the `Map` that replaces all.
- `Construct` is `Dataset.__post_init__`: `SetRefs` on every listed record, with
  the early return for one that already has a dataset.
- `Transform` follows `transform_dataset`: which target wins (`TargetCs`), the
  flip decision for an event (its own team) and for a frame or freeze frame
  (the ball owning team), the objects handed on when nothing changes, and the
  freeze frame assigned to them in place. `TransformFails` is the same call when
  `from_orientation` raises on a record: the ones before it have been touched.

A feed's directions are those its orientation defines; where the orientation
leaves the direction open (shootout, unknown owner) either may occur.
The numbers are in `Pitch`.

### Positions

The match actions (`Substitution`, `FormationChange`, `RedCard`, `PlayerOff`,
`PlayerOn`) append events to a feed in time order, with players the rules allow;
they are the provider's side. `Load` and `Derive` construct a dataset over all
or some of the events; `Update` is one iteration of
`_update_formations_and_positions`. `positions` and `formations` are *one*
variable each, whatever dataset refilled them last, as in the code. `seen` keeps
what the loaded dataset showed before any other was derived.

`OnPitchAgree` relates two parts of the code that never meet: the lineup builder
and `player.positions`. They agree at every time except on the players of events
that positions do not look at (cards, players off and on, substitutions without
a replacement), which the definition names. `MinutesConserved` is the accounting
identity for datasets of all the events of a match, for the teams nobody of which
left the pitch without a replacement (`LeftUnreplaced`): of the others the code
counts minutes that were not played, see the disagreements. `HistoryStable` bounds how
far back an event may rewrite.

### AddState

`feed`, `records` and `linked` say which events the dataset has and whether
`next_record` leads along the feed (a filtered dataset) or along the dataset.
`Begin`, `Step`, `EndLoop`, `PostProcess` and `Return` are `add_state`, one event
per step. `Kind` is what the builders tell apart. `PossessionExact` and
`SequenceSplit` compare the incremental result with declarative definitions over
the whole past (`Control`), for filtered datasets too.

### Pattern

An expression is a tree; a node of the graph is known by its path in it. `Explore`
takes *any* node of the current round and replaces it by its parts, as the
`_explore_*` functions do, with `_cross_connect` for the predecessors and successors
of optional and repeated parts. Edges stay in the order networkx keeps them, for
the matcher follows them in that order. `AdvanceToken` is one turn of the loop of
`RegExp.match` over all explorers; `Conclude` reports the match with the longest
trail and moves on, `Raise` is a capture that is stopped while it is not the
innermost one, which the code answers with an exception.

`SearchesThePattern` is the refinement: compiling is a stutter of
`PatternSearch`, a match is one `Try`, and what it reports is the longest run of
events of the period that the pattern accepts by its *meaning*. `Progress` gives
a measure that every step decreases, so a search ends without any fairness
beyond being run. `CapturesAreAReading` says that the captures of a match are
those of one single way to read the matched events.

### Tracking

`loop` is the local state of a reader as one record. `Read<Format>` is one turn
of its loop over one item of the feed: a line, a frame, a minute file, an XML
frame set. The conditions stand in the order of the code: sampling before or
after parsing, the `only_alive` test before or after the counter, the limit in
raw or delivered frames, differ from format to format, and are modelled as they
are. `Script` has Sportec read its file once per pass.

`OnlySelects` is the property that ties the options together: with any limit,
rate and `only_alive`, each frame delivered is the very frame the complete read
has, with the same period, time, ball state, owner and players; and an option
does not make a read fail, but for the two errors of the readers that need a
first frame. Two readers break it, and the property leaves out exactly their
conditions: EPTS on a feed whose format changes behind a line that is not sampled
(`FormatMissed`), and Sportec with a limit on a feed that has players in frames
without the ball (`CountedApart`), of whose frames players may be missing. Both occur
among the feeds of the run. What is carried from frame to frame must therefore be carried over
frames that are not delivered.

`InPeriod` says that a frame is of a period the dataset has, and for the readers
that place a frame by its number (TRACAB, Metrica CSV, EPTS) that it lies inside that
period. The others hand on the times of the feed and compare them with nothing, so the
feeds of the run include excerpts as in `tests/test_skillcorner.py:225-239`, whose
clock is beyond the length of their period.

### Events

Each reader module has the tables that decide control (which subtype becomes
which event with which result), not those that only rename. Of an event it keeps
type, team, period, time, result, qualifiers and how it follows from the raw
item. `Read<Provider>` is one turn of the loop, everything it appends, changes
or removes included; `Closed` is what follows the loop. `MakeCodes`, `SaveCodes`
and `LoadCodes` then use the dataset. `SaveCodes` writes what the buffer holds
also when serializing raises.

`OutOnce` and `EachOnce` are about facts that are told more than once, or several at
once; their comments name the exceptions the code makes, format by format. `Told` says
which events an item must yield: of a carded foul, a pass that was an interception or
an aerial duel, both sides of a duel, a change of formation.

### Session

`Config` keeps what a context *remembered*; the refinement `Scoped` recovers from
that the scopes a user thinks of: `Under(n, key)` is the value a key has below
the n-th context. `ScopedSpec` then says the dictionary with its undo lists is an
implementation of deep binding.

`Storage` has files as sequences of chunks, each from one output; outputs are
opened, written in steps, and closed, several at a time. `cache` is what
`simplecache` copied, by directory and URL. `Publish` is another program that
writes to a server. `Loaders` gives for every load function its inputs in the
order they are opened, the optional ones, and what tells its format; a load that
misses one raises and leaves what it has cached.

In `Pitch` a place is a fraction, exact; a *landmark* is a place relative to the
markings (on one, a quarter of the way to the next, beyond the line).
`LandmarksKept` says every landmark is at its place in whatever system the dataset
is in, whatever way it got there.

External code is modelled from how it is used, and marked so in the map: networkx
(`DiGraph` keeps edges in insertion order and merges the data of an edge added
twice), fsspec (`simplecache` never refreshes what it has), zip archives (what
modes they open).

## The runs

| Run | Question | Bounds |
|---|---|---|
| `match_time` | are the loops exact, and do they end? | periods of 3, 2 and 1 ticks, timestamps 0..4 (beyond every period), timedeltas 0..8 (beyond the match) |
| `dataset` | does any session leave a record, reference or freeze frame wrong? | three events or two frames, four orientations, two axes and two dimensions, three datasets |
| `dataset_freeze_frame` | do event and freeze frame agree? | violated |
| `dataset_shootout` | is a shootout ignored by transforms? | violated |
| `dataset_next` | does `next_record` stay in the dataset? | violated |
| `positions` | do positions, formations, lineup and minutes agree? | three events, one starter and two substitutes, two teams, two periods, times before and after half time and within and beyond the leeway |
| `positions_filter` | does filtering leave the loaded dataset alone? | violated |
| `add_state` | are score, possession and sequences right? | feeds of four events of every kind, filtered up to three |
| `pattern` | does the search report what the pattern means, with captures that make sense? | all concatenations and alternations of two small patterns under `\|`, `maybe`, `any` and captures, the pattern of `examples/pattern_matching/ball_recovery.py` with its back references; feeds of up to three events of one or two teams and types, in one or two periods |
| `tracking` | are frames in place and in order, and do the options only select? | per format small feeds over two halves, with dead, empty, overlapping and unlisted ones among the frames, excerpts that begin late in a half, EPTS feeds of one and two formats that change on sampled and unsampled lines, Hawk-Eye minutes in any order, a Sportec ball that is listed or starts later than the players; limits 0..2, rates 1, 1/2 and 2/3, `only_alive` |
| `events` | is what is delivered in the vocabulary, told once, in order, and the same in every view? | per reader two halves; in the first every combination of two plays, each play two to five items around one special case |
| `session` | do settings, files and places survive a session? | three keys, two contexts, two outputs of two chunks, six URLs over five schemes, eight load calls, two transforms |

Why the bounds are enough. Time arithmetic treats all inner periods alike, so
three periods have a first, an inner and a last one; ticks make every comparison
with a boundary fall on either side of it and on it. In `Dataset` three datasets
are a source, one derived from it, and one derived from the derived one or again
from the source: the proofs cover the rest. The three events cover the team in
possession, the other team and an unknown owner, with and without freeze frame.
In `Positions` three events allow a substitution, the substitution of the
substitute, and a formation change between or after. In `AddState` four events
allow a sequence that is interrupted and resumed.

In `Pattern` two constructors above a leaf are what `_cross_connect` sees of a
node and its neighbours, and three events let a repeated part take none, one and
two of them with one left over.
In `Tracking` a feed has about four frames: enough for one that is sampled away,
one dead, one delivered and one beyond the limit, across half time; `Half = 3` and
`Ticks = 2` put the boundary of a period and of a HawkEye minute into it.
In `Events` what a reader carries reaches over one or
two items, so two plays in any order put every special case before and after
every other one, and at the end of a half. In `Session` two contexts nest, follow
or (outside this run) overlap; two outputs may name the same URL. The
session's operations are bounded together by `Budgets`, so that each run of it
explores one aspect deeply or all of them a little: two outputs written side by
side; two contexts with everything set in them; a dataset loaded and converted
twice, or loaded again after a setting; a load after a write; one of each. Beyond
two conversions, `LandmarksKept` says nothing new: the second starts from an
arbitrary system.

Teams, axes and dimensions are symmetric where a run says so; in `match_time`,
which has a liveness property, nothing is. `CHECK_DEADLOCK FALSE` stands where a
session may simply stop at its bound. `TypeOK` of `AddState`, `Pattern`,
`Positions` and `Tracking` states the shape of their variables for the reader and
holds at these bounds, but is in no run; `AddStateTypes` and `PositionsTypes`
prove it for the first and the third at every bound.

Fairness is assumed in one place, `WF_vars(Loop)` of `MatchTime`: a called
function runs. Nothing else in the code waits for anything, and the other
termination argument, `Progress`, is a measure that needs none.

### Disagreements with the documentation

Four runs find the code do something else than its documentation says; each is a
finding of `PROJECT.json` with the lines on both sides.

1. The freeze frame of an event by the team out of possession is flipped by
   another rule than the event (`dataset_freeze_frame`).
2. A transform from or to `home-away` fails on a match with a shootout, which
   the documentation says is ignored (`dataset_shootout`).
3. `next_record` in a transformed dataset leads into the source dataset
   (`dataset_next`).
4. Filtering rewrites the player positions of the dataset that was filtered
   (`positions_filter`).

What holds *despite* the sharing is as interesting: `RefDirection` says that the
attacking direction, though computed from a stale dataset reference, is right;
`DatasetCoherent` that no session mislabels a record; `RebuildSame` that positions
can be recovered by building a dataset over all the events again.

Further behaviours that surprised while modelling. They are in the models as the
code has them, and the properties name them where they are exempt; they have no
run of their own. (`events` stands for `infra/serializers/event`, `tracking` for
`infra/serializers/tracking`.)

- *Contexts that overlap* (`config.py:93`). One that is left while another is open
  restores what it found, so a setting may outlive both. The documentation
  (`docs/user-guide/configuration/index.md:47`) promises the original values.
  `session` with `Nested = FALSE` violates `ScopedSpec`.
- *The cache cannot be disabled* (`infra/io/adapters/fsspec.py:35` has no path to
  `no_cache` for reading), though `docs/user-guide/configuration/index.md:3`
  speaks of it; `StaleOnlyFromCache` says it is the only source of stale data.
- *Captures around something that may be empty* (`regexp.py:205-235`) can end a
  search with an `IndexError`: `pattern` with `Shapes = "hollow"` violates
  `StopsInnermost`.
- *A repeated capture* (`regexp.py:395`) keeps its last turn only, and around
  optional parts mixes turns: `Shapes = "loops"` violates `CapturesAreAReading`.
- *Players who left the pitch* without a replacement (red card, player off,
  `domain/models/event.py:1409-1470` looks at neither) keep their position to the end and
  `minutes_played` counts on, while `docs/user-guide/concepts/positions/index.md:154`
  says that a position is `None` "if not on the pitch". `OnPitchAgree` leaves these
  players out and `MinutesConserved` their teams.
- *EPTS with a sample rate* (`tracking/metrica_epts/reader.py:85-122`): the format of
  the lines changes on a frame that is sampled or not at all; after a change that is
  missed the reader raises at the first line that does not fit. `OnlySelects` leaves
  this out as `FormatMissed`.
- *Sportec tracking with a limit* (`tracking/sportec/deserializer.py:216`): the frames
  of each object are counted by themselves, so frames lose players when an object
  starts later than another one. `OnlySelects` leaves this out as `CountedApart`.
- *Times beyond the period*: SkillCorner and PFF measure the length of a period by the
  frames the file has and take the time of a frame from its clock; in the excerpts of
  `tests/test_skillcorner.py:225-239` and `tests/test_pff.py:148-164` the last timestamp
  exceeds the period. `InPeriod` asks nothing of the times of these readers.
- *limit* is one frame short in `tracking/skillcorner.py:568` and
  `tracking/metrica_csv.py:216`, against "the first `n` frames" of
  `docs/user-guide/loading-data/index.md`; it counts raw frames in some readers
  and delivered ones in others.
- *Anonymous players of SkillCorner V2* (`tracking/skillcorner.py:154-165`) are
  stored under one key and looked up under another: a new player in every frame.
- *Wyscout V2* (`events/wyscout/deserializer_v2.py:522`) replaces a `Period` that
  earlier events already refer to, so they keep one without an end; and drops
  whatever event came last (line 678) when a duel turns out an interception.
- *Wyscout V3* (`events/wyscout/deserializer_v3.py:960-970`): after a foul,
  `continue` skips the card of the same item, against the comment above it, and after
  a foul or a card the change of formation the next item shows (`EachOnce` leaves both
  out); an infraction nobody is punished for delivers the previous event again.
- *Impect* (`events/impect/deserializer.py:270-275`): the end of the second period
  counts from the start of the match.
- *Stats Perform* (`events/statsperform/deserializer.py:720-722`) takes the parser
  of the metadata from the data type of the events.
- *Qualifiers*: `get_qualifier_values` (`domain/models/event.py:672`) raises on an
  event whose qualifiers are `None`, where its docstring says it returns `None`;
  of several qualifiers of one type the table keeps the last
  (`domain/services/transformers/attribute.py:257`), `get_qualifier_value` the
  first (`event.py:655`).
- *Selectors* `<event_type>.<result>` (`domain/models/event.py:843-873`) find
  nothing for events whose class has no result.
- *Code files*: when serializing fails, `save` leaves an empty or shortened file
  (`_providers/sportscode.py:35`, `io.py:328`).
- *Events after a reported final whistle* have more ticks than the next kick-off:
  a formation change early in the next half counts as within the leeway of them and
  rewrites the position they gave, half-time break or not
  (`domain/models/event.py:1447`). `positions` with such times violates
  `HistoryStable`.
- *File objects* given to Wyscout and SkillCorner loads
  (`_providers/wyscout.py:96`, `_providers/skillcorner.py:114-124`) are consumed by
  the detection of the format.

## The proofs

Six modules prove theorems of the specifications, for every value of the
constants that satisfies the named assumptions; `FiniteLemmas` and `FoldInduction`
have what they share. `PROJECT.json` lists the theorems. Each rests on an inductive invariant;
what that has to add to the property is the interesting part.

### Time arithmetic (`MatchTime_proofs`)

`TypeOK`, `LoopConserves`, `ResultExact` and `BoundaryRepresentation`, for any
number of periods of any durations, zero included. The invariant adds to
`LoopConserves` that a loop that has left its first period stands at the end
(going back) or at the start (going forward) of the one it is in.
`LoopsDescend` is the measure behind `LoopEnds`: the periods left to look at.
Assumed: `ClockAssumption` (durations are naturals, `Kickoff` their running sum)
and `InputAssumption`.

### Datasets (`Dataset_proofs`)

All of `Dataset`, for every feed, set of orientations and coordinate systems and
number of datasets. `DatasetCoherent` is not inductive alone: a new object must
not overwrite a shared one. `HeapInv` says an object bears the number of a dataset
already built, so that `NewId` is fresh; `DatasetsInv` that a list holds, for each
source record, an object made from it. The heart is `FlipRight`: flipping a record
whose direction is right for one orientation, when neither orientation raises,
makes it right for the other.

`RecordsImmutable` and `FreezeFrameCoherent` need `Settled`: every object has a
dataset, so that `set_refs` leaves it alone, and its freeze frame is a view, of the
record itself where the team in possession acts. `HandedOn` then says that a
record of that team that needs no change has a freeze frame that needs none, so
the assignment in place changes nothing. It fails exactly for the other team: the
first disagreement above.

`OwnChain`, `LinksAdvance` and `RefDirection` need `ChainInv` besides: a record
refers to a dataset that exists, and no dataset holds a record made for a later
one. Every step is shown once to be an *extension* (`Extended`: objects are kept,
datasets are added at the end, new objects are linked within the new one), and
the reference properties follow from that. `TypeOK` adds that what a dataset
announces is an orientation and a coordinate system (`Announced`).

### Positions and formations (`Positions_proofs`)

All of `Positions`, for matches of any length, squads of any size and any sequence
of derived datasets. Assumed: `ClockAssumption` and `PositionsAssumption`, of which
the proofs need that the players are finitely many and the leeway is not zero.

- `Shape`: events are in the order of their times, a dataset keeps their order,
  containers are finite functions of times. With it, `HistoryStable`: a key that
  is written is the time of the event, or a last key less than a leeway before.
  This theorem alone has a hypothesis, `EventsInPeriods`: no event comes after the
  reported final whistle of its period. Without it the property is false: the
  leeway is measured in ticks, on which such an event comes after the next kick-off,
  but the containers sort by period first.
- `Replayed`: the containers are the result of replaying the events processed.
  With uniqueness of a replay, and since as many ascending numbers as there are
  events are all of them, `RebuildSame`. That is why derived datasets do no
  lasting harm: nothing but the events enters the result.
- `FormationsDated` and `FormationsTell`, `PositionsDated` and `PositionsTell`: a
  container up to a time tells what the fold of the state builder tells after the
  events up to that time. The induction is over the events processed; the new
  event either comes after the time asked for (nothing changes, `PutShows`) or is
  the last one up to it. With `CountUntil`, which TLC counts and the proof
  identifies as a prefix, these are `FormationAgree` and `OnPitchAgree`.
- `MatchRules`: a replaced player does not come back, neither in a substitution
  nor in an announced formation. Without it positions and lineup do *not* agree:
  the rule of the game is what the agreement of the two computations rests on.
- `SubstitutionRules` and `MinutesHeld`: a player taken off has come on at another
  time, his substitute never; the first key of a container is the time he came on.
  The time left of the match goes from one to the other, so the sum over a team is
  that of its starters after every event. `GapsAddUp` makes the ranges by position
  telescope to the same number. That nobody is replaced at the very time he came on
  is what keeps `ranges` from raising.

### State builders (`AddState_proofs`)

`ScoreExact`, `PossessionExact`, `SequenceSplit`, `SequencesNumbered` and `TypeOK`,
for any feed and filter and two teams (with three, "the other team" of an own goal
would be two). The score is the cardinality of a set of earlier goals, which one
more event extends by at most one element (`ScoreCounts`). For sequences the
invariant relates three things: the numbers the builder gives (`RawSplit`: they
never decrease, and grow where a sequence ends), the renumbering made so far
(`MappingTells`) and the renumbered prefix (`NumberedSplit`, `NumberedOn`). The
team in control is carried from event to event (`TeamsHeld`), while `Control` looks
at the whole past; the look-ahead of `reduce_before` is where they meet.

### Settings and storage (`Session_proofs`)

`SettingsAreScoped` is the refinement of `ScopedConfig` by `Config`, step by step:
entering a context pushes its bindings, setting a key changes the innermost scope
that binds it, leaving pops. What a context remembers is, for a key, the value under
it (`BelowNext`). It has the hypothesis `Nested`, contexts left
innermost first as `with` statements do; without it the property is false, as
described above. Initial states, all steps and stuttering of the whole `Session`
are covered.

`NothingTorn` proves `OutputsAreWhole` for any number of outputs open at once: what
is stored, cached or read is a sequence of whole outputs, each of them closed, and an
output that is closed changes no more (`StorageInv`). `ReadsFresh` proves
`StaleOnlyFromCache`.

### Tracking (`Tracking_proofs`)

All ten readers, for feeds of any length and every choice of options. Assumed
throughout: a feed is a finite sequence (`TrackingAssumption`).

- `BallFollowsEvents`. The invariant, `Heard`, is that the reader of PFF carries
  what the events among *all* frames read so far say, whatever became of those
  frames, and that each frame in its two lists is the one its place in the feed
  gives (`MadeOf`): nothing of it depends on the options. `StateAfterEvent` and
  `OwnerAfterEvent` identify what is carried from frame to frame with the latest
  event up to a place. After the loop extra time may be turned round, which changes
  players only.
- `RosterClosed`. `Closure` adds to it what a reader carries, since PFF, Hawk-Eye
  and Sportec deliver frames after the loop, and who is in the metadata, since
  SkillCorner V2 and Metrica look up nobody. A turn has one of a few shapes
  (`Skips`, `Adds`). The folds (the periods a TRACAB item lies in, the records of a
  SkillCorner frame, and of Sportec the items of a pass, the rows of an object and the
  periods after the loop) are taken through by instances of `FoldInduction`. Assumed (`FeedAssumption`): items
  are of the kinds their format has, and where a reader looks up nobody the
  item names players of the metadata (`NamesKnown`).
- `InOrder`. `Timely` says of each frame which item it tells of (`Told`); an item
  that makes a frame comes after all those told of. That carries the property over
  sampling and skipped frames, over the second list in which PFF keeps extra time,
  and over a TRACAB item that lies in two periods. Hawk-Eye and Sportec keep places for
  frames instead (`Placed`) and sort them in the end; a limit keeps a beginning of
  that. Assumed (`ClockAssumption`): the clock of a feed runs on and the periods of
  the metadata follow each other. The minutes of Hawk-Eye may come in any order, as
  long as a later minute is of no earlier segment; the frame sets of Sportec need no
  order.
- `InPeriod`. `Spanned` says for each reader where its periods come from. Most know
  them before the loop (StatsPerform looks each item's up and raises when there is
  none); Metrica CSV opens a period with its first line and extends
  it with each further one (`Opened`), so that the frames delivered before must still
  fit; Hawk-Eye makes a period when a minute tells of it first. A frame
  of TRACAB or EPTS has the period its number lies in, also when periods touch or
  overlap. Of the times of the feeds nothing is assumed; SkillCorner, PFF and Signality
  read their periods off the items of the whole feed (`PeriodsInFeed`), as the code
  does before its loop.

The assumptions are about files the code does not check. A feed whose clock
goes back is delivered as it is, by every reader that does not sort. TLC evaluates the
assumptions on the feeds of the run `tracking`.

### What only TLC checks

- `LoopEnds`: liveness under fairness, beyond the prover. `LoopsDescend` proves the
  part without fairness.
- `StopsInnermost`, `CapturesAreAReading`, `Progress` and `SearchesThePattern` (the
  refinement of `PatternSearch`): `PatternAst` and `Pattern` need recursive operators
  (the meaning of an expression, the graph under a node), and the prover has no
  support for modules that have them.
- `OnlySelects`: it compares two reads of the same feed, one with options and one
  without. A proof needs an invariant over both loops side by side, for each of
  the readers; and Sportec goes over its file in other passes with `only_alive`.
- The properties of `Events`: they quantify over eight readers whose feeds and
  tables are the constants; a proof would repeat their tables.
- `LandmarksKept`: products and quotients of the coordinates of fourteen systems,
  non-linear arithmetic over fractions.

## The plan

What is left, in order of importance:

1. More theorems about the readers: of `Tracking`, that options only select
   (`OnlySelects`), with the complete read as a second loop beside the first; of
   `Events`, that codes are made in place (`CodesInPlace`) and rows agree
   (`RowsAgree`), which rest on `Export` alone.
2. The second construction of `EventDataDeserializer.deserialize`
   (`additional_metadata`) as an action of `Dataset`, and builders chosen per call
   in `AddState`: the two hazards that are not modelled.
3. Abstract specifications: `Dataset` as an implementation of datasets that share
   nothing, under which the disagreements above are the places where the
   refinement fails.

## What is not modelled, and why

- *Tables and file formats* of the providers (XML, JSON, CSV, binary), and the
  parsers of their metadata: conversions of single objects without control.
  Rosters and lineups enter the models as what a reader knows when it starts.
- *Numbers* no modelled decision depends on: statistics, speeds, expected goals,
  the z-axis, distances and angles. Coordinates are frames of reference in
  `Dataset`, sides of the pitch in `Tracking`, fractions in `Pitch`.
- *Export*: the dataframe libraries, the rows of frames and codes, and the
  transformers that turn one coordinate into numbers (distance, angle, one-hot).
- *The css-like selectors*: an external library parses them.
- *Storage*: compression by the extension of a file, filters on file names,
  adapters registered by the user, where a buffer keeps its bytes.
- *Names* of a coordinate system with a version (`provider:type`), and a dataset
  that has pitch dimensions but no coordinate system.
- *The command line, deprecation helpers and exceptions* have no state. Warnings
  and log messages are left out.

## Running

    tlc -workers 2 -config MCSession.cfg MCSession
    tlapm Dataset_proofs.tla

Each mutant of `PROJECT.json` replaces one definition by a faulty one that stands
before it; TLC then finds the property named there violated.
