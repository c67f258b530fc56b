# Specifications of learnwords-tg

TLA+ models of the bot, TLC configurations that check them on small instances, and
TLAPS proofs of what the checks found to hold. Paths below are relative to the source
tree (`lw/...` is `src/src/lw/...`).

## The system

One process, one thread: `main` makes an `application`, which builds an `inventory` of
three services and runs an `io_context`. Everything else happens in coroutines and
handlers that interleave at their `co_await`s.

| part | state | operations | correct when |
|---|---|---|---|
| `application` (`lw/application/application.cpp`, `main.cpp`) | options, credentials, inventory | constructor, `run`, `on_init` | services come up in order with what was configured; every failure ends the process with its code |
| `inventory` (`lw/application/inventory.*`, `service_base.hpp`) | list of services, initializer and stopper with cached iterators | `add_service`, `async_init`, `reload`, `async_stop` | initialization in order of addition, reload only after all of it, destruction after stopping, every handler called |
| `service::tg` | the connection and the update source | `async_init` = `async_connect` | - |
| `telegram::connection` (`connection.hpp`) | one TLS stream, the token | `async_connect`, `async_request` | every request ends; a response completes one operation; the asker gets its own answer |
| `telegram::process_response` | none | value, API error or exception | - |
| `telegram::update::long_polling` behind `polymorphic_update` | `offset`, the current batch | `async_resume` | updates in order, each once per process, none lost |
| `service::db`, `database::database` | one MySQL connection, three prepared statements; tables on the server | `async_init`, `async_get_state`, `async_set_state`, `async_add_sentence` (never called) | statements in an order the server accepts, results belong to their callers |
| `service::user_dialog` | a detached coroutine per update | `on_update`, `process_update` and what it calls | every command answered, erroneous states repaired, users do not affect each other |
| credentials (`lw/systemd/`), option validator, error codes | the mapped files | constructor, `get`, `begin`/`end`; `validate` | what is missing, unreadable or blank is told apart |
| JSON helpers (`lw/util/json/`) in `process_update` | none | `if_contains`, `if_<type>` | a command is found and cut out of any message |
| `json_body`, `co_initiate`, `allowed_updates` | none | pure, or glue | - |

How they interact: `user_dialog` holds references to the connection, the update source
(which holds the same connection) and the database. So one TLS stream carries
`getUpdates`, which may stay unanswered for 100 s, and every `sendMessage`; and one
MySQL connection carries the queries of all dialogs. Neither has a queue or a lock.
`user_dialog::on_update` is resumed by the polling coroutine, starts a dialog and
resumes the coroutine at once. Nothing has a deadline: no expiry time, no keepalive.

Hard behaviour: overlapping reads of the shared stream; overlapping operations on
`any_connection`; a link that dies without a word; the offset that confirms updates
still being processed; restarts between any two steps; one error of `getUpdates` that
ends the process; dialogs that fail without anybody hearing of it; cached iterators
over a list that shrinks. `PROJECT.json` lists each hazard with its line and the
properties aimed at it.

## Modules

| module | models | composed of |
|---|---|---|
| `Connection` | `telegram::connection`, `process_response`, the far end of the stream | - |
| `UpdateFeed` | abstract specification: what the update source promises | implemented by `LongPolling` |
| `LongPolling` | the `long_polling` coroutine, `on_update`, the update side of the bot API, restarts | `Connection` |
| `Inventory` | `inventory`, `inventory_builder`, `application::on_init` | - |
| `Database` | `database::database`, `service::db`, the MySQL server | - |
| `UserDialog` | `service::user_dialog` and the process around it | `Database` |
| `Bot` | the whole process from `make_inventory` on, and the processes after it | `Inventory`, `UpdateFeed`, `UserDialog` |
| `BotProgress` | `Bot` with a record across processes of what became of each update | `Bot` |
| `Startup` | `main`, the constructor of `application`, `run` up to `async_init`, the credentials, the constructors of the services | - |
| `UpdateParsing` | `process_update` up to its first `co_await`, `util::json` | - |
| `MCUserDialog` | symmetry of the dialogs for TLC | |
| `ConnectionProofs` | proofs about `Connection` | |
| `LongPollingProofs`, `FeedProofs` | proofs about `LongPolling`, the refinement | |
| `InventoryProofs`, `UserDialogProofs`, `StartupProofs`, `ParsingProofs` | proofs about these (the last: `UpdateParsing`) | |
| `BotProofs` | proofs about `Bot`, from those of `Inventory` and `UserDialog` | |

Definitions marked "Mutated" are wrong on purpose: each is a plausible slip in the
code, put in the place of the definition it precedes to see that a property notices.
No specification uses them.

**Connection.** `call[c]` is the `async_request` of coroutine `c`: `writing` until
`async_write` is through, `reading` until `async_read` is, `done` until the handler
has run. `wire` holds requests not yet answered, `inbox` the parts of responses not
yet read. `ReadSome` is one read of the stream with what the parser does with it;
`Surplus` bounds how many parts may come along after the end of a response and be lost
with the operation's own buffer, and the history variable `spilt` remembers that the
end of another response was among them. A link can be lost, which every operation then
hears of (`StreamFails`), or fall silent (`LinkSilent`; in the handshake, `stalled`):
a write still goes into the kernel's buffers, a read waits, and whether it is ever
noticed (`Noticed`) is left open. Assumed of the outside: the API answers in the order
of requests (HTTP/1.1); with several reads outstanding any may get the next part.
`Reset` and `orphans` (requests a dead process has written) are for the modules that
end the process.

**LongPolling.** `pc` follows the coroutine's loop; `GotUpdates` is the body after
`co_await`, `OnUpdate` one round of `co_yield` and `on_update`. An exception in the
coroutine is rethrown out of `io_context::run`, so `Exit` ends the process and
everything but the API's state is gone; `Connect` begins the next one. `seen` is a
history variable (the last update any process handed out). A silent link costs a
fault; `Notice` may follow or not. Updates are numbered from 1; an answer names a
range.

**Inventory.** Iterators are positions. `Start` is `initializer::start(nullptr)`,
`StartFailed` is `start(exc)`, `StopFrom` is `stopper::start`; a reverse iterator is
kept as its base. Services call their handlers from `io_context`, never inside of
`async_init` itself, so that `++begin_` after the call comes first. All lists of
services with any mix of interfaces are built by `AddService`. `rerase` is taken to
erase the element a reverse iterator refers to and return the iterator to the next
one.

**Database.** `Statements` are those of `async_init` with what each makes and needs.
The schema and the rows survive restarts, the selected database and the prepared
statements do not. With Boost 1.88 and later an operation begun while another is under
way completes with an error (`Overlap = "rejected"`); before, the outcome is undefined
(`"undefined"`: either operation ends somehow, executed or not). The build file does
not fix the version, so both are checked. Initially the tables are missing, or present
with any rows, also from a table whose column is wider than the program's, or signed
or without NOT NULL: `Unfit` is such a value, which `as_uint64` throws at. The UPDATE
may turn it into a number or not.

**UserDialog.** `frame[d]` is one detached coroutine. `GotState` is what follows
`async_get_state` in `process_text` and `process_command`. An exception ends the
dialog silently, except those thrown inside `async_get_state`, which end the process
(`StateUnusable`, with the code of `UnusableCode`). The frame keeps whether the API
took the message; `clashed` remembers which dialogs had an operation that met another
on the connection. `sendMessage` is one step here, because its life on the stream is
the subject of `Connection`; the kind of an update is one of three, told apart in
`UpdateParsing`.

**Bot.** The state of `Inventory`, `UpdateFeed` and `UserDialog` side by side. The
three services are initialized by `Inventory`'s actions: `TgUp`/`TgFails` are what
`tg::async_init` reports, `DbBoot`, `DbUp` and `DbFails` the statements and the report
of `db::async_init`. `serving` becomes true in the very step that calls
`user_dialog::async_init`, so updates are dispatched while its handler (`DialogsUp`)
and `on_init` (`OnInit`) are still to come. A dialog is named by its update. Whatever
ends the process resets services and session and restarts the feed; tables and what
the API has not forgotten remain. That the update source may be taken for `UpdateFeed`
here is what `LongPolling` shows; `source` keeps what can become of it: it is up, it
waits for good because a dialog's read threw its answer away (`Strand`), or its link
is silent or lost (`LoseLink`). It may fail (`PollRaised`) without a fault from
outside when the link is down or when a dialog of the process shares the stream with
it (`Shared`), and with one at any time. `troubled` remembers that a fault has reached
the process of now, so that no process is excused by the faults of an earlier one.

**BotProgress.** `Bot` with the history variable `fate`: an update was handled to the
end by some process, or its dialog was cut off by the end of its process. It is a
module of its own because the record would only multiply the states of the other runs.

**Startup.** The directory of the credentials may be unset, a file, a directory, or a
path that cannot be examined (`denied`), which `is_directory` throws of. Credentials
are short strings over white space, a slash and other characters; a file may be
missing, unreadable or hold any of them. `GetCred` may come in any order, because the
four calls are arguments of one call. `aborted` is the assertion in `tg`'s
constructor, which a release build leaves out: both builds are outcomes. `main.cpp`
maps what is thrown to the exit code.

**UpdateParsing.** Members of a message may be missing or of another type. `Subview`
computes modulo 2^w (`Word`) as the conversion of a negative `int64_t` to `size_t`
does. A text is a well-formed sequence of UTF-8 bytes, each known by its role: the
first of a character of one to four bytes, or one that follows. That is all it takes
to tell bytes, characters and UTF-16 units apart; units, and what is cut out, are
positions in the text. The properties are stated by reference definitions over the
update itself, not over the functors.

## Runs

| run | asks | checks | bounds |
|---|---|---|---|
| `connection` | does a response complete two operations, is a reader stranded, does every operation end | `TypeOK`, `AnswerTakenOnce`, `NoReaderStranded`, `RequestCompletes` | 2 callers, 3 requests, 2 parts, surplus 1; `FairSpec` |
| `polling_feed` | is the update source an in-order feed that forgets only what was seen, is there ever a second `getUpdates` on the stream, is anybody stranded there | `TypeOK`, `ForgetOnlySeen`, `OneGetUpdates`, `NoneStranded`, `ImplementsFeed` | 3 updates, limit 2, 2 parts, surplus 1, 1 dialog, 1 fault |
| `polling_live` | does the coroutine alone take its own answers, does every update reach `on_update` | `OwnAnswer`, `NoneStranded`, `EveryUpdateSeen` | 3 updates, limit 2, no dialog, 2 faults; `FairSpec` |
| `inventory_order` | order of initialization, reload and destruction; who holds the handlers; is `async_init` answered | `TypeOK`, `InitInOrder`, `ReloadAfterInit`, `StoppedThenGone`, `OneHoldsHandler`, `InitAnswered` | all lists of up to 3 services, 1 further reload; `FairSpec` |
| `inventory_stop` | is `async_stop` answered (it is not) | `StopAnswered` | the same |
| `dialogs` | statements, and commands without a reply, when operations spoil each other | `TypeOK`, `StatementsInOrder`, `UnansweredHasCause` | 2 dialogs, users 7 and 300, state 255, one that is no unsigned number, or no row, id 0 present, 1 fault, undefined overlap |
| `recovery` | does the recovery repair the row (it does not) | `RecoveryRepairs` | 1 dialog, 2 users, states 1 and 255, no fault |
| `bot` | dialogs on prepared services, causes of exits, replies, updates once per process and none skipped | `DialogsPrepared`, `ExitHasCause`, `ReplyMatchesRow`, `NoneSkipped`, `OncePerProcess` | 2 updates, users 7 and 300, 1 fault, states 255, 256 or no row |
| `bot_live` | is every update handled, is a command answered | `UpdateHandled`, `CommandAnswered` | `BotProgress`: 2 updates, 1 user, 1 fault, state 255 or no row; `RecordedSpec` |
| `startup` | what an exit code means, what services are constructed with | `TypeOK`, `ExitExplained`, `AsConfigured` | 2 options, 4 kinds of directory, credentials of up to 2 of 3 characters |
| `startup_token` | is the token never empty (it may be) | `TokenNotEmpty` | the same |
| `parsing` | is a command found, cut out and answered | `CommandFound`, `SoundEntityAnswered`, `CommandIsNamed` | well-formed texts of up to 5 bytes, 2 entities, numbers -1..2, word 32 |

Why the bounds are enough. Two overlapping operations suffice for every way to steal
or spoil a response, and the third request lets one of them ask again on the stream
the other has spoilt; two parts give a beginning and an end, a surplus of one part can
swallow a beginning or a whole response. Three updates with a limit of two give a full
batch, a partial one and an empty one. Two faults are a crash during the recovery from
a crash. States: no row reads as 0; 1 is a sound state, 255 the marker of an error,
256 does not fit into a byte; user 300 does not fit into the column and user 7 does,
and with the two arguments of the UPDATE swapped it is the user that is stored, which
the server refuses where the column is too small. In `bot_live` the rows are those
that make a dialog as long as it gets, and the one fault may strike at any step of it.
Two entities have a first and a later one; five bytes hold a character of four bytes
with an ASCII one before or behind it, and two shorter wide ones. For the safety
properties the proofs below take the bounds away.

Deadlock is not checked where the system may stop: in `Inventory` and `Startup` when
the process exits or goes on elsewhere, in `connection` because the pool of names for
requests is finite on a spoilt stream, in `polling_feed` because an answer thrown away
with another's buffer leaves its reader waiting for good, in `Bot` when every update
was handled, in `UpdateParsing` because an update is looked at once. It is checked in
`polling_live`, `dialogs` and `recovery`.

### What the runs show

- On the shared stream an operation may get the answer to somebody else's request or a
  failure, but no answer is taken twice. An operation can wait for good in two ways.
  If the end of one response and all of the next arrive in one read, the second is
  lost with `buffer` (`connection.hpp:125`) and one reader has nothing to wait for.
  And if the link dies in silence, nothing ever ends the read
  (`connection.hpp:123-132` sets no expiry time): not even the long poll, which asks
  for 100 s, has a deadline here. These are the only two (`NoReaderStranded`,
  `RequestCompletes`), also with the coroutine, the dialogs and restarts around the
  connection, and the coroutine alone never throws an end away (`NoneStranded`).
  `polling_live` leaves the dialogs out for this reason, and `EveryUpdateSeen` excepts
  a link that stays silent.
- Nothing the overlap does makes the API forget an update that was not handed out, or
  leaves two `getUpdates` on the stream: a wrong answer ends the process instead.
- An update is confirmed when the `getUpdates` after its batch reaches the API,
  whether its dialog has ended or not. `UpdateHandled` says that this is all that can
  be lost once a process stays up: an update is handled to the end by some process, or
  its dialog was cut off by the end of its process, and the update was confirmed then
  or its confirmation on its way. No dialog hangs in a process that lives, whether its
  update is confirmed or not. A command is sure of an answer only while no fault
  occurs and no operation of its dialog meets another (`CommandAnswered`); with Boost
  1.88 and later the dialog whose operation meets another one ends without a word.
- A command whose dialog ended without a reply met another operation on the
  connection, lost the database, or had its repair refused by the server
  (`UnansweredHasCause`): dialogs side by side harm each other in no other way.
- Between the dialogs of the process and what the API has forgotten no update falls
  through (`NoneSkipped`), whichever late offset of a dead process arrives when.
- The initializer and the stopper wait for exactly one service (`OneHoldsHandler`).
- A row whose state is wider than a byte, or no unsigned number, ends the process
  before the update that found it is confirmed, so the next process gets the update
  again. `ExitHasCause` says of each process that ends, whatever happened to those
  before it, that such a row was read in it, a fault reached it, or its dialogs shared
  the stream with the update source; in particular what an earlier process left half
  done in the database is no cause. A process whose database is lost lives on, and
  each of its dialogs ends in an error.
- Updates are handled before `on_init` has run, but never before the services
  `user_dialog` refers to are up (`DialogsPrepared`).
- Exit code 2, described as a bad command line option, is only used for a blank
  `mysql-socket`; an unknown option ends with 1. `--help` needs the credentials
  directory, and without it ends with 3, or with 1 if it cannot be examined. A socket
  that is not an absolute path is not used as one: the default host and port are
  (`AsConfigured`, `ExitExplained`).
- Which updates are commands, texts or left alone is exactly what their members say,
  whatever else they hold (`CommandFound`).
- An entity counts UTF-16 units and the text is cut in bytes. No text has more units
  than bytes, so an entity that is right never leads out of the text
  (`SoundEntityAnswered`), and what is cut out is what was meant if all of the text up
  to there is ASCII (`CommandIsNamed`). Elsewhere it is not; nothing but a log line
  depends on it.
- `recovery`: `set_state.bind(tg_user_id, val)` (`database.hpp:147`) fills
  `SET state = ? WHERE tg_user_id = ?` in the wrong order. A user with an erroneous
  state is told of a recovery on every command and never recovers. Because
  `state::initial` is 0 and 0 is no user's id, the UPDATE hits nobody else
  (`NoUserRepaired`), and `ReplyMatchesRow` holds also for this reason.
- `inventory_stop`: the stopper compares with an end iterator taken before the list
  was erased from (`inventory.cpp:77, 85, 100`); it refers to the first service, so
  the loop never ends properly. Nothing calls `async_stop` yet.
- `startup_token`: a token file of white space only is trimmed to nothing after the
  question whether it is there, so the assertion in `tg.cpp:17` does not hold.

### Fairness

`io_context` runs every handler that is ready: weak fairness for the steps of
coroutines and handlers. `ReadSome` has strong fairness in `Connection`: a read that
finds nothing is queued by asio's SSL stream and tried again when another completes,
so a reader is not passed over for good while parts keep coming. A link that was lost
ends what waits for it; that a silent link, or the loss of the database, is noticed is
not assumed. The API and the MySQL server answer what they are asked while they are
there; in `Inventory` a service that is initializing or stopping calls its handler. In
`LongPolling` and `Bot` the process is started again after it ends (a service manager;
the program reads systemd credentials). In `Bot` the update source goes on while it is
up, and a dialog's steps are fair while the database is connected. Nothing is assumed
about arrivals, faults or new commands, and every fault counts against a bound, so
that a fault does not happen for ever.

## Proofs

TLAPS proves the following for every value of the constants, that is for any number of
callers, parts, updates, services, dialogs, rows, restarts and faults. Except for what
is listed further below, every safety property of the passing runs is proved.

- `ConnectionProofs`: `TypeCorrect`, and `ResponsesTakenOnce` (`AnswerTakenOnce`). The
  invariant is not inductive alone. `OnceInv` adds where traces of a request can be:
  none while it is still to be written (`Untraced`), no part of a response while it is
  on the wire, and one part that ends its response either in the inbox or read by one
  operation (`WrittenOnce`, `EndedOnce`). `NoneStranded` (`NoReaderStranded`) counts:
  `Balance` keeps the readers and the ends of responses still to come, and each step
  is shown not to make more of the first than of the second. The lemmas about `Ends`
  say what appending, reading and throwing away do to their number.
- `LongPollingProofs`: `TypeCorrect` and `NothingUnseenForgotten` (`ForgetOnlySeen`).
  The inductive invariant says that every offset anywhere (in the coroutine outside a
  batch, in an operation, on the wire, in requests of dead processes) is at most one
  past an update already handed out.
- `FeedProofs`: `FeedImplemented`, the refinement of `UpdateFeed`: the initial state
  is one of the feed and every step maps to a step of it or a stutter. A batch may
  only be taken if it is the answer to the latest offset, so `FeedInv` follows the
  coroutine's one request: it is on the wire, or is the parts of its answer with the
  last part last, or is nowhere (`OneTrace`, `Untraced`); every offset on the way asks
  for what comes after the cursor and every batch goes on there (`RequestsAskOn`,
  `BatchesGoOn`, `InBatch`). `OneAtATime` (`OneGetUpdates`) is a consequence, and
  `AloneGetsOwn` (`OwnAnswer`) follows from the same traces when there are no dialogs.
  `NobodyStranded` (`NoneStranded`) carries the balance of `ConnectionProofs` through
  the steps of the coroutine, the API and restarts, which are steps of the connection
  with other callers or leave it alone; `AloneSpillsNothing` uses that the end of the
  coroutine's answer is last in the inbox.
- `InventoryProofs`: `TypeCorrect`, `InitializedInOrder`, `ReloadedAfterInit`,
  `DestroyedAfterStop`, from one invariant about the two iterators: what lies before
  `begin` is up, what lies after is new, what is beyond `left` has stopped.
  `HandlerHeldByOne` (`OneHoldsHandler`) reads off it who is awaited.
  `StopNeverAnswered` is the finding of `inventory_stop` for every list of services:
  the stopper's iterators differ from the start and are never changed.
- `UserDialogProofs`: `TypeCorrect`; `StatementsOrdered` from what is there before
  each statement (`Ordered`). `RepliesOwed` (`UnansweredHasCause`) follows each dialog
  from its command to its end: an operation that ended in an error met another, lost
  the server, or is a repair the server refuses for its user, and a dialog at `send`
  has a reply to give. `NoUserRepaired` is the finding of `recovery` for any number of
  dialogs and users: no step changes the row of any user. All of them hold for
  undefined overlap too. The lemmas are stated for `Step`, which lets others start and
  end the process at any time, so that `BotProofs` can use them.
- `BotProofs`: `NoDialogUnprepared` (`DialogsPrepared`) instantiates `InventoryProofs`
  for the three services; a dialog has begun only in a process that serves, and that
  only once `user_dialog` was called. `HandledOnce` (`OncePerProcess`) needs that
  dialogs are for updates up to the cursor, `UpdatesAccounted` (`NoneSkipped`) the
  converse: those up to the cursor have a dialog or are forgotten. `RepliesMatchRows`
  (`ReplyMatchesRow`) and `ExitsHaveCause` (`ExitHasCause`) show that the dialogs of
  the process take steps of `UserDialogProofs`, whose `Told` says that a result not
  yet looked at is the row of its user; then (`Caused`) that the session breaks, a
  service fails and the link goes down only by a fault that reaches the process of
  now, for no statement is ever refused.
- `StartupProofs`: `TypeCorrect`, `ExitsExplained`, `ConfiguredAsFound`
  (`AsConfigured`). That trimming ends somewhere needs the greatest element of a set
  of positions, which is derived from the well-foundedness of finite sets.
- `ParsingProofs`: `FoundIfThere` (`CommandFound`, in both directions, with what is
  left alone), `SoundEntitiesAnswered` (`SoundEntityAnswered`) and
  `AsciiCommandsNamed` (`CommandIsNamed`). That the first command is found rests on
  the least element of a set of positions. That an entity in the text stays in the
  bytes is a comparison of cardinalities, for units are some of the positions. For the
  last one the first position where byte and unit counts could differ is shown to lie
  behind the entity: up to it every position begins a unit, so the units before a
  position are all positions before it.

The assumptions are those named in the modules: markers differ from each other and
from data, bounds are naturals, at least one part and one service, 0 is no user.
`RepliesMatchRows` and `ExitsHaveCause` also assume `Overlap = "rejected"`: where the
outcome of overlapping operations is undefined, a result can be anything.

Only model-checked: the liveness properties (`RequestCompletes`, `EveryUpdateSeen`,
`InitAnswered`, `UpdateHandled`, `CommandAnswered`), because the prover does not
handle fairness and `ENABLED`. What the runs that expect a violation check is refuted
by their counterexamples; for two of them a theorem says how far it goes.

## Not modelled

- `allowed_updates` is a list of names; the program passes the empty set, which leaves
  the parameter out.
- `util::asio` (`co_initiate`, the coroutine helpers) is template glue between
  coroutines and completion tokens; what it does is in the grain of the actions.
- The writer of `json_body` serializes as far as its buffer goes and has no state
  between chunks that others see; it is part of `Written`.
- `database::async_add_sentence` is called by nobody and could not be instantiated;
  its prepared statement is one of `Statements`.
- `compat.hpp` and the precompiled header are includes. The text of messages, logs and
  descriptions of errors; TLS and TCP below the level of one read; the parameters of
  an API error, which no caller looks at; memory that runs out, and the set-up of
  OpenSSL in the constructor and `run` (`set_default_verify_paths`), which throws if
  OpenSSL does.

## What is left

- Dialogs on the shared stream in `Bot`: `sendMessage` as an operation of
  `Connection`, delayed behind a long poll, in the same model as its database
  operations. The product of the two is beyond TLC at useful bounds; today the
  interface between them is `UpdateFeed` with `source` and `Shared`.
- `inventory::reload` and `async_stop` once the program calls them (a configuration
  that changes, a signal), with dialogs still running.
