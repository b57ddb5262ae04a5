# A verification project for DB-All.e

DB-All.e stores meteorological observations: it reads BUFR, CREX, JSON and CSV
messages, keeps their values in an SQL database (SQLite, PostgreSQL or MySQL),
gives them back by query, as messages or summarised, and has an API for Fortran
programs. These modules model, in TLA+, what its parts do to the data they hold;
TLC checks the models on small instances and TLAPS proves the theorems for all.

## The system

| component | state | operations | what is hard |
|---|---|---|---|
| SQL tables (`db/v7/sqlite/driver.cc`) | `repinfo`, `station`, `levtr`, `station_data`, `data` | insert, update, delete, cascades | UNIQUE does not cover NULL idents; ids of removed rows are used again |
| Batch (`db/v7/batch.cc`) | the station in use, the ids of the rows it has seen, a queue of inserts and updates, `write_attrs` | `get_station`, `add`, `write_pending`, `clear` | a cache and a queue that outlive the call that filled them; exceptions in the middle |
| LevTr cache (`db/v7/levtr.cc`, `cache.cc`) | ids of level and time range pairs | `obtain_id`, prefetch, clear | must not outlive its rows |
| Repinfo (`db/v7/repinfo.cc`) | the table of reports, its cache, an index by name, the pending new values | `update` from a file, `obtain_id`, `read_cache` | statements in an order that UNIQUE may refuse; what a failed update leaves behind |
| Transaction (`db/v7/transaction.cc`, `import.cc`) | an SQL transaction, a batch, the caches | inserts, imports, removals, attributes, commit, rollback | the caches against the tables, through removals and rollbacks |
| Cursors (`db/v7/cursor.cc`, `qbuilder.cc`) | the rows of a query, a position | `load` with each modifier, `next`, `remove`, `discard` | row ids that go stale; reductions that count on an order made elsewhere |
| PostgreSQL (`db/v7/postgresql`, `sql/postgresql.cc`) | a snapshot and locks for each connection | the same calls, one statement at a time | transactions that overlap, wait for each other, die |
| Summaries and explorers (`db/summary*.cc`, `explorer.cc`) | entries by station and variable; what is computed from them; files | `add`, merge, filter, rebuild, update, load | statistics computed lazily, several updates, what is on disk when the program ends |
| Export and import of messages (`db/v7/export.cc`, `import.cc`) | none of their own | `query_messages`, `import_messages` | what is lost between rows and messages |
| Messages (`msg/msg.cc`, `context.cc`, `values.cc`) | arrays sorted by context and code | set, unset, remove, pack, diff, CSV | binary searches that count on the order; the end of a message in a flat file |
| Queries (`core/query.cc`, `types.cc`, `core/matcher.cc`) | the parameters | set, unset, `validate`, `is_subquery`, three filters | incomplete datetimes, longitudes that wrap, one meaning in three places |
| Fortran sessions (`fortran/commonapi.cc`, `dbapi.cc`, `msgapi.cc`) | query, data to write, attributes, the operation under way, the file | `seti`, `query_data`, `next_data`, `insert_data`, `critica`, ... | one routine prepares what a later one does |
| Codecs, tools, Python, handles | tables, none of their own | | |

A program opens a `DB`, asks it for a `Transaction`, and calls the transaction,
or opens a session whose routines do. Within one transaction everything is
sequential: no threads, callbacks only inside a call. Each insert or import goes
through the batch: it caches the station, reads which rows the station has, queues
inserts and updates, and writes them at the end of the call. A call that throws
leaves the cache and the queue as they are, and the next call starts from there. A
cursor reads all rows of its query at once and from then on goes by their ids; it
looks levels up in the cache of the transaction. Concurrency is between
connections. Summaries are fed by cursors and messages; messages by queries, files
and programs. The same query selects rows through SQL, messages through a matcher
and entries of a summary through a filter.

## Modules

| module | what it is |
|---|---|
| `Batch` | the tables and the batch, as operators on a record that holds what one call sees and changes |
| `Transaction` | one transaction after another on one connection: variables, one action for each call, `Spec` |
| `TransactionProps`, `TransactionDocs` | invariants; a statement of the documentation that the code does not keep |
| `Archive`, `TransactionArchive` | what the transaction promises, a set of values by station, context, level and code; the refinement mapping |
| `Repinfo`, `RepinfoProps` | the table of reports: update from a file, automatic entries, the cache, the stations that refer to it |
| `Cursor`, `CursorProps` | a cursor over the transaction of `Transaction`, which it extends: the calls of both interleave |
| `Connections`, `ConnectionsProps` | programs that write one PostgreSQL database, statement by statement on snapshots |
| `Summary` | ranges of datetimes, entries, a summary in memory: operators |
| `Explorer`, `ExplorerProps` | explorers of the three kinds of storage, over `Summary` |
| `Message` | a message in memory: sorted arrays, packing, differences: operators |
| `Messages`, `MessagesProps` | from a database to messages, through CSV, to another database |
| `MessageStore` | what messages promise: maps |
| `Query` | what a query means to the database, to the matcher and to the filter of summaries: operators |
| `QuerySession`, `QueryProps` | the query of a session, set and used one call at a time |
| `DbSession`, `DbSessionProps` | a session on a database, over `Transaction`, which it extends |
| `MsgSession`, `MsgSessionProps` | a session on a file of messages, reading or writing |
| `MessageWriter` | what a session that writes promises |
| `MC...` | arguments for the runs of each |
| `TransactionProofs` | lemmas about the operators of `Batch`, lemmas and theorems about `Transaction`; that it implements `Archive` |
| `ClientProofs` | theorems about a cursor and a session over a transaction, from those of `TransactionProofs` |
| `MessagesProofs` | lemmas about the arrays of a message, searches, folds and walks of two arrays; that it implements `MessageStore`, that an export restores its database, what differences count, that CSV is read back as it was written |
| `ConnectionsProofs`, `RepinfoProofs`, `ExplorerProofs`, `MsgSessionProofs`, `QueryProofs` | lemmas and theorems about the others |

### State and code

**Transaction.** `station`, `levtr` and `rows` are the tables, `rows` being
`station_data` (context `StationCtx`) and `data` (context a datetime) together; the
ids of the two are independent, as in the schema. `last` is `Batch::last_station`:
its key and id, `is_new`, the contexts loaded (`StationData::loaded` and the
datetimes in `MeasuredDataByDatetime`), the ids known, and the queue (`to_insert`
and `to_update`). `wattrs` is `Batch::write_attrs`, `cache` the levtr cache, `fired`
and `saved` the SQL transaction, `res` the outcome of the last call. Values,
levels, codes and datetimes are members of small sets; attributes are present or
not. A report is part of the key of a station. An action is a whole call, from its
argument to its return or exception, `write_pending` included. After a call that
throws, the caller may free the variables it passed, and the queue still points to
them: `Return` lets the value of what stays queued become `Garbage` (the code and the
attributes, read through the same pointers, stay what they were: `Abandon`). The variables of
one call have each a code of its own (`values.h`); two messages of one import may
queue the same value, and the last wins. Inserted rows get their ids in the order in
which the queues are sorted.

**Repinfo.** `table` is the SQL table, `cache` the vector of `repinfo::Cache` with
the new values that a file has left in each entry, `station` what the station table
says of reports (with the report each row was inserted for, which the code does not
store) and `last` the station in the batch. `Update` is `update_repinfo`: read the
lines, check, write the entries in order of id, insert the new items in order of
file, read the cache again; each step may stop the call, and leaves what it has
done. A statement refused halfway is not an abort: SQLite keeps the transaction.

**Cursor.** `cur` is the cursor: kind, rows still to fetch, `at_start`. A query is
the set of stations and codes it matches, the order in which its rows come, and its
limit. A summary has no rows of its own to remove: `Summary::remove` makes a query of
the row, and a query asks nothing of a part that a level or a time range lacks
(`qbuilder.cc:722-788`). `Matching` says which levels a query for one finds; the one
without a second surface finds those with one. `Loaded` is the set of results that a load may give: `add_to_best_results` or
`add_to_last_results` of the rows sent one at a time, in any order compatible with
ORDER BY. It is a recursive function, which the provers can unfold.
`walk` and `writes` are history and a bound. The cursor walks while `Meanwhile` lets
calls of `Transaction` happen.

**Connections.** `tx[c]` is what the server has of a connection: state, snapshot,
and tables with its own changes; `call[c]` the statements still to send. A select
reads the snapshot, so it is part of the step that begins the call; each write is a
step that may be refused, block, or be the victim of a deadlock. `last` is the station
in the batch of a connection: `get_station` puts it there before the lookup that throws
on a station with two rows (`batch.cc:73`, `station.cc:126`), so that only the first
call is refused: `InsertRefused`. The next one finds it cached without an id, and
`write_pending` adds a third row. `Lost` says which
updates and deletes the server refuses: of rows that the snapshot shows, never of
rows that the transaction has inserted itself (a proof of `CommitStoresAll` that did
not go through showed that it once said more). What the server
does (row locks, serialization failures, foreign keys, deadlocks) is external, and
marked so in `map`.

**Explorer.** `global`, `filter` and `active` are `_global_summary`, the query and
`_active_summary`; `updates` the `Update` objects; `disk` the JSON file or the
Xapian index, `reader` the snapshot a reader of the index has open. JSON is written over
the old file: of an update that was open when the program ended, `Restart` may leave a
file that opens no explorer (`Spoiled`), so that the next one starts without it. History says
what was merged (`truth`) and saved (`saved`), and where an `Update` was
overwritten (`lost`) or a file broke off (`torn`). A key stands for a station and a
variable; one set stands for those of reports, levels, time ranges and codes.

**Messages.** `Message` has the arrays as sequences, with `obtain`, `find`, `set`,
`unset`, `merge`, `sounding_pack_levels` and `diff` on them. `Messages` goes through
the phases of an export: query, changes, CSV, and a reader that builds messages line
by line as `from_csv` does, importing each. A level is the sequence of its four
numbers; none is larger than `Missing`, which is `MISSING_INT`. The assumptions on the
databases say what the indexes of the tables do: a place, a report and an identifier
are those of one station, and a slot holds one value.

**Query.** A record of the parameters, `Missing` where they are not given.
`Validate` is `validate_input_query`, in its order, with what it has done when it
throws; `SelectStations`, `SelectData`, `SelectStationData` are the WHERE clauses,
with each filter (`ana_filter` and the like) known by the rows that pass it, and
`Returned` what a limit, best or last may leave of them. `Match` is the filter of
messages, as an export makes them: `export.cc:150` puts no `B01192` in a message, so a
query with `ana_id` matches none, unless a station has that value of its own.
`SummaryMatches` is the filter of the summary of an explorer, which ignores `ana_id`, and
`DBSummaryMatches` that of a database, which does not. In `QuerySession`, `input` is
`input_query` with `input_query_var` and `input_query_varlist`; `last` is history:
the last query as it was asked, as it was run, and what it found.

**Sessions.** In `DbSession`, `op` is `operation`, with the rows or row ids it goes
by, `qcinput` and `qcoutput` the attributes, `context` is `station_context`, `input`
the file of `messages_open_input`; `denied` is history, the stations that `insert_data`
was refused for in station mode "read". In `MsgSession`, `reader` is the position in the
file (`msgs`, `curmsgidx`, `state`), `wmsg`, `msgs`, `exporter` and `out` what is
written, `life` whether the program has closed the session or was terminated by an
exception in its destructor. One list, `MsgAPI::msgs`, holds what has been read and what
is being written, and nothing keeps the two apart: `insert_data` makes an error for a
session that reads and does not throw it (`msgapi.cc:490`), and a query has no check. So
both are actions in either mode: what is inserted while reading comes after the messages
of the bulletin, an insert before the first query leaves an empty list, of which `size() - 1`
is the largest number there is (`msgapi.cc:410`), and a query while writing goes on to
the next message and deletes the subsets ended so far. To read a file that is open for
writing fails, or finds its end; which, is left open.

## Runs

| run | question | why these bounds are enough |
|---|---|---|
| `insert` | do inserts, refused or not, and removals keep the batch in step with the tables, and do what the archive does? | two stations, so that each evicts the other from the cache; a set with a value already stored and one with a new value, so that a refusal comes halfway; calls that only create a station |
| `import` | do imports, whole or incomplete, ever meet a constraint, do they do what the archive does, and do they leave the values of stored stations alone unless told? | messages one and two at a time, all options; one with station values and data, one without datetime; inserts in between, so that `write_attrs` flips |
| `life` | commit, rollback, `remove_all`, vacuum, attributes | two transactions: what the first leaves is the start of the second |
| `doc_can_add` | do inserts without `can_add_stations` ever create a station? | violated |
| `repinfo_table` | do stations stay, under their report, while files replace, rename, add and exchange reports or break off, and is the table, after an update that returns, what the file says? | one report and another that comes and goes, so that ids are given again; a file with an entry twice; two transactions |
| `cursor_walk` | does a walk remove what the rows it removes stand for, are levels always known, do best and last lose nothing? | tables filled so that reports of two priorities, two datetimes and codes meet in one place; two levels, the second with a part that the first lacks; one call in between, which is enough to empty a cache or reuse an id |
| `connections` | do transactions that overlap keep values whole and known stations single, do they leave a doubled one alone, is what commits stored, do calls return? | two programs of two calls each, so that a refused insert may be repeated; both fill the same slot of each of two stations, one vacuums and one removes: two wait for each other when each has one slot; a database with a station and a level that nothing uses any more, and one that has a station twice |
| `explorer` | do summaries and filters follow what was merged, and is it on disk? | one explorer on JSON and one on Xapian, which merge each other; two merges, so that a range is joined twice and through a filter; values with and without datetime |
| `msg_files` | does a session show each message once, is what it reads in memory, does it get to the end, does it lose what it has taken to write to nothing but a query? | files with bulletins of one and several messages and broken ones between them; one insert while reading, which leaves an empty list or one more message; while writing three inserts, for two subsets or messages and what is open after them, and two queries |
| `db_modes` | do operations, attributes, input files and access modes hold together? | every combination of modes; one station that is stored and one that is not, so that a refused insert may be repeated; seven calls: a query, a walk, a change of attributes, a removal and what follows |
| `messages` | do data come back whole through messages and CSV, and do arrays behave as maps? | databases with several stations in one place, two datetimes, soundings to pack, values without level; two changes of a message |
| `queries` | is what is selected what the parameters say, in all places, and are narrower queries narrower? | three parameters set, unset or set again with queries in between, two filters, `best` and a limit of 1 among them; values at the ends of years and of two Februaries; half a turn is 4 units, so that ranges cross the dateline, end at it and go all around; one station beyond the dateline, where `normalon` leaves it, one with a `B01192` of its own |

Every property of a passing run has a mutant: a variant of one definition, with a
mistake that the code could have, under which the property fails. The mutants are
marked in the modules, next to the definition they change.

Bounds that the code does not have: `MaxId` (room in a table), `MaxTransactions`,
`MaxCalls`, `MaxWrites`, `MaxMerges`, `MaxInserts` (for each mode of a file), `MaxAsked`
(queries while writing, or of an empty list), `MaxEdits`, `MaxSets` (parameters set since
`unsetall`) and the sets of arguments. `Room` stops the exploration when a table is
full, not the code, of one connection or of several. The explorer has one `Update` object in the run; the
theorems hold for any number. Deadlock is not checked where programs or sessions end
or a bound stops them, as each such `.cfg` says.

### Fairness

The library is called, and has nothing to do by itself: most properties are about
safety. Two are not.

- `EveryCallReturns` (run `connections`) assumes `WF(Proceed(c))`: the server, in its
  own process, executes a statement that it can execute and breaks deadlocks after
  `deadlock_timeout`; and a program that makes no more calls ends its transaction,
  by the destructor of `Transaction` (`transaction.cc:36`) if nothing else, or by
  dying. No fairness is assumed of the calls a program chooses to make.
- `ReachesEnd` (run `msg_files`) assumes `WF(QueryData(TRUE, FALSE))`: it is about a
  program that goes on calling `query_data`, as the loop of `files.rst` does. Nothing is
  assumed about the file, which may be broken everywhere. It says nothing of a session
  whose list is empty: after an `insert_data` when no message was in memory `query_data`
  says for ever that there is no more.

### What the runs show

- The cache mirrors the tables (`CacheMirrorsDb`, `LevTrCacheMirrorsDb`), whatever
  order calls come in and however they end, and no statement is ever refused by a
  constraint (`NoSqlError`).
- The transaction implements the archive. What a call that throws leaves behind
  is part of the archive's state (`left`): values that some later call may write.
  This is the price of the queue that outlives its call, and the reason why
  `Archive` is not simply a map. The archive does not see the options of a call:
  what they promise is said by `StationValuesKept` and in `TransactionDocs`.
- No update of the reports, however it ends, takes stations away or leaves them
  under another report; only a refused statement takes the cache out of step.
- A walk that nobody disturbs removes what its rows stand for and no more. A row of a
  summary whose level lacks a part stands for every level that has the others: to remove
  it takes away what the walk shows in rows of their own, or (with a limit, say) never.
  If the program writes in between, a walk may remove other rows: ids are given again. Best
  and last queries lose nothing of what they should return, and may return more (below).
- On PostgreSQL only transactions that overlap duplicate a fixed station. From then
  on a lookup throws, and nothing is filed under either row; but an insert repeated
  after the error adds a third row, and files its values under that. What commits is
  stored, and every call returns.
- What explorers show is what was merged; the statistics, computed late, are those
  of the entries, except after an `add_json` that threw.
- A session on a file shows each message of it once and in order, past broken bulletins,
  whatever it inserts meanwhile; what one has taken to write is lost to nothing but a
  query made while writing, which drops the subsets ended so far (the program is
  terminated if a subset is open when it then closes the file), and the variables of a
  call that ends a subset. A session on a database never goes by the id of a row that is gone, and
  changes no more than its modes allow, with one exception: in station mode "read", a
  station comes in by the repetition of an `insert_data` that was refused for it.
- Arrays of a message behave as maps: `Messages` implements `MessageStore`. Exports,
  imported elsewhere, give back what was selected, unless station values repeat what
  a station or a datetime is.
- What a query selects is what its parameters and filters say, in SQL, and of messages and of
  summaries when it is made of what they know (`FiltersAgree`: of messages not `ana_id`);
  a query is only called narrower if it is, with four exceptions (below).

## Where code and documentation disagree

One is stated by a run, `doc_can_add`: a refused `insert_data`, tried again, creates
the station it must not create. The others were met while modelling, and the models
have the behaviour of the code.

*Transaction.* A batch that threw keeps its queue, so `batch.cc:21` (every insert ends
with `write_pending`) does not hold, and after a throwing import values are replaced
that `can_replace` (`db.h:125`) protects. An import of what is there succeeds without
`overwrite` (`import.cc:65`, `db.h:91`).

*Repinfo.* A file that exchanges two priorities passes the checks and is refused by
the database (`repinfo.cc:312`). The values of a file that was refused are loaded by
the next update (`repinfo.cc:230`, `db.h:243`). A name of more than 19 characters is
cut when it is looked up and not when it is loaded (`repinfo.cc:61`, `repinfo.h:121`).

*Cursors.* `query=last` with two codes also returns older values, `query=best` those
of other levels in between: only neighbours are compared (`cursor.cc:244`,
`query.rst:88`). The limit is applied before the reduction. `CursorStation::remove`
leaves the row of the station (`db.h:61`). `remaining()` is −1 after the end.

*Servers.* On PostgreSQL, COMMIT of an aborted transaction returns as if it had
committed. `lock_table` does nothing on MySQL.

*Explorers.* Assigning an `Update` drops the one that is open (`explorer.cc:170`).
Rebuilding an explorer on Xapian empties the index on disk at once. A rejected
`add_json` leaves stale statistics. The filter ignores `mobile` and attributes; the
count of remaining rows goes down by stations. `smallset::operator!=` returns what
`==` does.

*Messages.* Two messages of one station in CSV are read back as one, with the
datetime of the second, since station values are written without date
(`msg.cc:436,584` against `msg.h:328`); an attribute of a station value makes
`from_csv` throw; a blank line is refused, although `msg.cc:545` says that it
separates. `diff` counts a station value that one message lacks only if it is not set
(`msg.cc:781`). Packing lets a plain level replace what soundings have put there
(`msg.cc:1012`). Levels are compared by subtraction, which may overflow
(`types.cc:1214`). Stored datetimes of a station take the place of those of the data
exported (`export.cc:183`). `dbadb import` writes the values of a message that failed
with a later one (`processor.h:22` says otherwise).

*Queries.* `LonRange::contains(LonRange)` (`types.cc:1110`) is wrong if the outer range
crosses the dateline or is one longitude. `is_subquery` takes for a narrower one a query
with more codes (`query.cc:222`, `query.h:59`), one with the same limit or a smaller one
(`query.cc:243`), though the limit before may have left out what is asked for now, and
one with `best` or `last` when both have it (`query.cc:225`), though with narrower
priorities, say, other values are the best. `NarrowerSelectsLess` leaves these four
out. `normalon` (`types.cc:794`) uses the `%` of C++, and does not normalise
longitudes below −180 degrees: of a range (the condition `EastOfDateline`), and of
stations, which no range then selects (`SelectsWhatIsAsked` speaks of the others). Exported
messages are not found by `ana_id`. `setdatemin` and `setdatemax` select station values
(`commonapi.cc:384`, against `functions.rst:629`). `unset("ident")` does not clear the
ident of the query. A query fills in the datetimes of the session: if only the year is
then unset the next query is refused, and a changed month keeps the day of the old one
(the 31st of February selects by comparison, and is the condition `Exists`). `var` and
`varlist` are joined, where `query.rst:46` says that one clears the other. Priorities
are not used in queries for stations. The filter of messages ignores a station without
block, that of summaries compares reports as they are written.

*Sessions.* On a file, variables of the call that ends a subset are dropped
(`msgapi.cc:177`, `files.rst:26`); `query_data` after `query_stations` of a later subset
passes over a message (`msgapi.cc:410`); `insert_data` in read mode builds an exception
and does not throw it (`msgapi.cc:490`), and queries while writing are not refused either; a failed write joins messages, and one in the
destructor ends the program. On a database, station mode "read" is to let in no station
(`functions.rst:336`), and does when a refused insert is repeated (`batch.cc:71`); `*context_id` of a station value acts on
measured values (`attributes.rst:123`); removals, imports and commits leave `qcoutput`
as it is; ana "read" with data "add" is allowed (`functions.rst:353`).

## Proofs

The theorems hold for every value of the constants, under the assumptions named in
the modules: sentinels are not values, datetimes, levels and codes are numbers,
arguments are finite and of their types. Bounds play no part in them.

| module | theorems | inductive invariant, and why it says more |
|---|---|---|
| `TransactionProofs` | `TypeCorrect`, `StationsStayUnique` | `Inv`: tables and queue are finite (the next id is one more than the largest), a station cached without an id has no row, and what a rollback brings back is unique too |
| | `LevelsStayUnique` | `LevelInv` adds that the saved table has each level once, and that the cache is empty outside a transaction, where a vacuum may take levels away |
| | `CacheTruthful`, `NothingIsRefused` | `CacheInv` adds that the station cached has its row, that the ids known are those of its rows in the contexts loaded, that what is queued for insertion is in none of them, and that every value is filed under a station that exists, in the saved tables too |
| | `RowIdsNameOneRow` | `KeyedInv` adds that the queue holds a slot once, so that the ranks of what is inserted differ, and that measured values have a level; each call is a chain of steps that change no id (`Tame`) or write the queue |
| | `StationsAreLeftAlone` | `CacheInv`: a cached station without a row id has no row, so that one that is stored is never taken for a new one |
| | `ImplementsTheArchive` | `ArchiveInv` adds to `KeyedInv` that no slot (station, context, level, code) has two rows, in the tables that a rollback brings back too, that station values have no level, and that what is queued as an update goes to the row of its own slot |
| `ClientProofs`, cursors | `LevelsAreFound`, `WalkTakesWhatRowsStandFor` | `CursorInv`: `ArchiveInv`, and, while nobody else writes, the rows a cursor holds are of the table it was made from, in which an id names one row |
| | `NothingIsHidden` | an invariant of the reduction, over the rows sent so far (`Reduced`): every row that none of those sent beats is among the results; and, where all rows are of one variable and level, no other row is, and each row sent comes before the last result or competes with it. It needs that no two rows have one slot (`ArchiveInv`), lest two rows compete that ORDER BY leaves equal |
| `ClientProofs`, sessions | `OperationIsFound`, `AttributesAreTrue`, `ModesAreKept`, `ImportsEachMessage` | `SessionInv`: `KeyedInv`, that a mode which only adds queues no updates and that in station mode "read" a station cached as one that may not be added is one that a call was refused for (`ModesInv`), and that each row id the operation goes by is of a row that has the place it remembers (`OpFits`); `TriedInv`, for an input file: messages reached are those tried |
| `ConnectionsProofs` | `WholeValues`, `StationsStaySingle`, `NoValueUnderADuplicate`, `CommitStores` | `ServerInv`: an id names one row in all copies of a table, what a transaction has changed nobody else changes and is on the database as its snapshot has it (`Locked`, `Held`), and nothing refers to what it has removed (`Unreferred`, `Rooted`); `CallsInv`: what a call has still to send, and the station in its batch, fit what its transaction sees; `HistoryInv`: what a transaction has stored it still sees, it has added a row only of stations that its snapshot has not or has twice, and the station in its batch has a row of its own adding or is not doubled |
| `RepinfoProofs` | `TableTyped`, `StationsStayFiled`, `UpdatesKeepStations`, `CacheMirrors`, `UpdatesFollowFiles` | the cache, which a refused statement may leave out of step, never gives an id another name than the table does, and the table gives an id one name: true after new items have been inserted up to the first one refused; an update that returns has passed every check and refused no statement, so that its lines for new ids have each an id of its own, and those for known ids leave the values of the last |
| `ExplorerProofs` | `StatsInStep`, `FilterFollowed`, `NothingGetsHidden`, `SavedOnceQuiet` | `Inv`: every value merged is within the range of its entry (`Covers`), in the file and in the snapshot of a reader too; an explorer that is not being updated is as its filter says; statistics that are not dirty are those of the entries |
| `QueryProofs` | `NarrowerNarrows`, `SelectsAsked` | `QueryInv`: the parameters of a session are numbers or missing, however they are set, unset and filled in, and the last query found what its WHERE selects, or with best, last or a limit a part of it. The rest is about the operators, for any query: datetimes are ordered, validation turns a period into its first and last instants, ranges of longitudes that wrap are the arcs between their ends (whole turns make no difference), and each criterion of a narrower query implies that of the wider |
| `MessagesProofs` | `MessagesStaySorted`, `CallsOnMaps`, `DiffsAreCounted` | `MessagesSorted`: in every message, values are in strictly increasing order of code and contexts of level and time range, and no context of the data is that of the station. Without the order a binary search may miss what is there, `set` would then store a second variable of one code, and a walk of two arrays would take for two differences one value that is in both |
| | `ExportsAreRestored` | `ExportHeld`: until a message is changed, the messages held are those that the query returns from the database. The rest is about the operators: what is imported message by message is, slot by slot, the rows selected |
| | `CsvIsReadBack` | `CsvInv`: once the file is written, the lines read so far are all those of the messages read so far, and these are the messages written without their empty contexts; nothing is read before |
| `MsgSessionProofs` | `RowsStayInMemory`, `AttrsStayOfRow` | `SessionInv`: a message is in memory unless the flags say why not |
| | `ShowsEachMessage` | `ReadingInv`: the message in memory is the one at the position, what was shown has been reached, and if the last shown is in memory the flags say so |
| | `WritesAsPromised` | `WriterInv`: while no query has been made, a subset that is open has a list to go to; each action is then one of the writer, a query its `Ask` |

For `Transaction` the proofs go up from the operators: the sections of
`TransactionProofs` show of each operator of `Batch` that it keeps the record typed
and finite, then that it keeps stations unique, then levels, the cache and ids; each
is then lifted to calls and to actions. Cursors and sessions extend `Transaction`, and
their proofs start from its invariant. The last part, on the archive, goes the same way: `Abs(s)` is
the state of the archive that a record of `Batch` stands for; for each operator there
is a lemma that says what the archive sees of it (`WritePending` is `Flush`, finding a
station is `Switch`, adding is `Queue` of the slots the mode allows, loading ids and
obtaining levels are nothing), the calls are chains of these, and each action is then
the step of the archive of the same name. It rests on one fact about row ids: two rows
of one station have the same slot in the archive only if they are the same row.

Besides sentinels and types the proofs assume: tables that earlier transactions left
are `Consistent` (as `RowIdsNameOneRow`, `ImplementsTheArchive` and the others show
they are), place and report together name a station (`KeyAssumption`: they are what a
station is looked up by), the variables of a call have each a code of its own, the
requests of a connection are of its types (`RequestsAssumption`), the limit of a query
is a number (`SelectionsAssumption`), and for the archive `NoStation` is not a station
(`NobodyAssumption`). For queries: columns are numbers, longitudes stored are
normalised as `Coords` does when they are set (`SitesAssumption`), values belong to
stations that exist (`ValuesAssumption`), and the calendar that the meaning of a query
refers to has real dates, with the first and last instants of the periods they lie in
(`CalendarAssumption`). (Normalised means left as they are by `normalon`: longitudes more than
half a turn west are too.) `SelectsWhatIsAsked` itself says which queries it speaks of:
periods that exist, and longitudes that `normalon` brings into its range.

For messages the work is in the operators. `Find` is a recursive function on ranges,
and what it finds is proved by induction on the length of a range: if the comparison
is increasing along the array it gives the position at which it is zero, if there is
one. From this each operation on arrays is an operation on the set of their elements:
`SetVar` replaces the variable of a code, `Obtain` adds a context if there is none,
`MergeVars` and `Pack` are unions in which one side wins. Folds are treated alike: the
function that a fold is defined by is shown to exist, and what has been built after
`k` elements is found by induction on `k`. An induction is written as a proof that a set of
numbers is all of them, and a hypothesis about every step as a predicate with a name,
since the provers cannot instantiate theorems that take an operator. `AsMap` then
turns what is known of the two sets, of variables and of contexts, into the map.

An export is restored because each message stands for the rows of one station, report
and datetime: a slot has one row in a database, so the message of a group has a
variable for each of its rows and no others but those of the keys of the station, and
the import of a message adds to what earlier ones have left, since the groups share
no slot of measured values and agree on those of a station. What is in the database after `k` messages is
found by induction on `k`.

A walk of two arrays is a function of two positions; that there is one is proved by
induction on what is left of both. Two lemmas about any walk serve contexts and
variables alike: a set that gains at each step as many elements as are counted there
ends with as many as the walk counts (with at most as many, where the walk counts
more), and a walk with the arrays exchanged counts the same. `Differences` is then the set
that the walk of the contexts builds, each context adding what the walk of its
variables does.

CSV is read back because of what a message holds: its pairs of context and variable
(`Holding`), which are all there is to a message without empty contexts
(`HoldingSame`: arrays sorted alike that have the same elements are the same). While
the lines of a message are read, the reader holds pairs of that message only, and
among them those of the lines read so far (`Stage`); a line of a value adds its pair, a
line of an attribute finds the value that the line before has just set, the first line
with a datetime sets what the lines of the station had set or will set. So after the
last line it holds all of them. The first line of the next message ends it, for
another place or report (`ReadsOneMessage`), and what is left of the file begins with
that line (`FileGoesOn`). `CsvReadsBack` says which messages it speaks of
(`Writable`): neighbours of different places or reports, each with a place, a datetime
and the type of its report, values that have levels and station values without
attributes. The others are read otherwise, as said above.

Only model-checked: liveness (`EveryCallReturns`, `ReachesEnd`), which is out of the
prover's reach, and the run in which a line of the documentation is refuted.

## Not modelled

- SQL errors that no constraint causes (disk, connection). After one in the middle
  of `write_pending`, rows are written and the queue is not cleared.
- MySQL, whose isolation the sources do not determine.
- Calls on a transaction after `commit` or `rollback`.
- Negative priorities of reports; report names other than by case and length.
- `std::sort` is not stable on more than 16 items: if two messages of one import give
  one value, which wins is then open; the model takes the last.
- What filters on values compare (`ana_filter`, `data_filter`, `attr_filter`): a filter
  is the set of rows that pass it. Seconds, which go like minutes, and `ltype2`, `l2`,
  `p2`, which go like `l1` and `p1`.
- Reading through a cursor whose message is gone, or that was never made, in a session on
  a file: the code dereferences what is not there.
- Queries of a file while it is written whose outcome depends on the system: reading it
  fails or finds its end.
- Unset variables in messages; CSV that `to_csv` has not written.
- The codecs (BUFR, CREX, JSON), the tables of variables, printing and parsing: pure
  functions of large tables without state. Handles and the trace of the Fortran API,
  the command line tools and the Python bindings, which pass calls on. Tests,
  benchmarks and generated code. These are most of the lines of the repository, which
  is why the definitions stand for a small share of it.

## Plan

1. Done: batch and transaction, reports, cursors, several connections, summaries and
   explorers, sessions on files and databases, messages, queries; liveness under
   fairness; the abstract specifications `Archive`, `MessageWriter`, `MessageStore`.
2. Next: `DbSession` with an output file; handles of the Fortran API; the modifiers of
   `Cursor` on the queries of `Query`.
