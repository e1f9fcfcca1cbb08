# RareVoyager: TLA+ models and proofs

RareVoyager is a small C++ server framework: a configuration system, a logging
system and wrappers of pthread threads and locks.  This directory holds TLA+
modules of its core, TLC configurations that check them on small instances, and
TLAPS proofs for every size.  Line numbers below are those of `src/src/...`.

## The system

First-party code is about 2,900 lines under `src/src`; `src/3rdparty` is
vendored boost and yaml-cpp and is not modelled.

| Component | State | Operations | Hard behaviour |
|---|---|---|---|
| `ConfigVar<T>` (`config.h` 320-435) | `m_val`, listener map `m_cbs`, rwlock `m_mutex`, key counter `s_fun_id` shared by all variables of one `T` | `getValue`, `setValue`, `fromString`, `toString`, `add/del/get/clearListener(s)` | listeners run under the read lock and call back; the write lock is taken under the read lock; a shared counter under separate locks |
| `Config` (`config.h` 444-516, `config.cpp`) | map name -> variable, its rwlock | `Lookup` (two forms), `LookupBase`, `LoadFromYaml` | unlocked `LookupBase`; name checks before and after lowering; order of application |
| `LexicalCast` (`config.h` 36-281, `logger.cpp` 872-989) | none | text <-> value | round trips |
| `Logger` (`logger.h` 321-369, `logger.cpp` 504-662) | level, formatter, list of appenders, mutex | the macros, `log`, `add/del/clearAppender(s)`, `setFormatter` (two forms), `setLevel`, `toYamlString` | unlocked level reads, check-then-act on an appender's formatter, assignments without the appender's mutex |
| `LogAppender`, `StdoutLogAppender`, `FileLogAppender` (`logger.h` 279-313, 374-408, `logger.cpp` 495-499, 667-760) | level, formatter, `m_hasFormatter`, mutex; file name, stream, `m_lastTime` | `log`, `setFormatter`, `getFormatter`, `setLevel`, `toYamlString`, `reopen` | shared between loggers; stream errors |
| `LogFormatter` (`logger.cpp` 353-493) | pattern, items, `m_error` | `init`, `format` | the scan of a pattern |
| `LogEvent`, `LogEventWarp`, `LogLevel` | one event | made by the macros, logged by the wrapper's destructor | second level check |
| `LogManager` (`logger.cpp` 776-815) | map name -> logger, root, mutex | `getLogger`, `getRoot`, `toYamlString` | root is not in the map; `m_root` of a logger is never set |
| `LogDefine`, `LogIniter` (`logger.cpp` 819-1076) | configuration variable `logs` | a listener that rebuilds loggers | interleaved listeners, null logger, `operator==` |
| `Thread`, `Semaphore` (`thread.h`, `thread.cpp`) | handle, id, callback, semaphore; `t_thread` | constructor, `run`, `join`, destructor, `SetName` | handshake, join races, dangling `t_thread` |
| `Mutex`, `RWMutex`, `Spinlock`, `CASLock` and scoped guards (`mutex.h`, `mutex.cpp`) | the pthread object; `m_locked` | lock, unlock, RAII | no fairness; `ReadScopedLockImpl::lock` unlocks |

How they interact: `Config` owns the variables and hands them to every module;
`LoadFromYaml` calls `fromString`, which calls `setValue`, which calls the
listeners, which (`LogIniter`) call `LogManager`, loggers and appenders.  A
logger calls its appenders with its mutex held, an appender takes its own.
Every component logs, so logging runs under the locks of the others.

What makes each correct: a config variable stores what it was told, tells its
listeners with nothing changing under them, and a key leads to its listener; a
logger delivers an event to each appender once, in one order, with a formatter
that exists; a registry answers a name with one variable of one type; a thread
constructor returns when `run` no longer needs the object.

## Modules

| Module | Models |
|---|---|
| `ConfigVar` | `ConfigVar<T>` with its rwlock: any number of variables of one type, any threads |
| `ListenerTable` | what a variable that is the only one of its type promises: a value and a table of listeners |
| `ConfigVarTable` | the refinement mapping from `ConfigVar` to `ListenerTable` |
| `MCConfigVar` | instances for TLC |
| `ConfigVarProofs` | theorems, and that the mapping is a refinement |
| `Logger` | loggers and the appenders they share |
| `MCLogger` | instances for TLC |
| `LoggerProofs` | theorems |
| `LogReload` | the listener of `LogIniter`, the `LogManager` and its loggers, composed with `ConfigVar` (which it extends) |
| `MCLogReload` | instances for TLC |
| `LogReloadProofs` | theorems |
| `FileAppender` | the stream of a `FileLogAppender`, `reopen`, `m_lastTime` |
| `MCFileAppender` | instances for TLC |
| `FileAppenderProofs` | theorems |
| `LogPattern` | `LogFormatter`: the scan of a pattern, the items, `format`, as functions |
| `LogDefineText` | nodes and texts; the definitions of loggers and the `toYamlString`s, as functions between texts and values |
| `LexicalCast` | the other conversions of `LexicalCast`; extends `LogDefineText` |
| `YamlMembers` | `ListAllMember`: the names in a document, as functions of it |
| `MCYamlMembers`, `MCPattern`, `MCDefine` | all small documents, patterns and definitions, for TLC |
| `MCText` | these and all small values, for TLC |
| `YamlMembersProofs` | theorems about `ListAllMember`, and the lemmas about induction and recursion they need |
| `TextProofs` | theorems about documents, patterns, definitions and the values of all types |
| `ConfigRegistry` | `Config`: the map of variables, its lock, `Lookup`, `LookupBase`, `LoadFromYaml`; extends `YamlMembers` |
| `MCConfigRegistry` | instances for TLC |
| `ConfigRegistryProofs` | theorems |
| `Thread` | Thread objects, their pthreads and the threads that use them |
| `MCThread` | instances for TLC |
| `ThreadProofs` | theorems |

### ConfigVar

A *frame* is one activation of a member function.  A frame with a `Parent` is a
call that a listener makes while its parent, a `setValue`, runs it: this is how
re-entrance is modelled without a stack.  `val`, `cbs`, `funId` are `m_val`,
`m_cbs`, `s_fun_id`; `readers` and `writer` are the state of `m_mutex`.  `pc`
names the points between which another thread may run:

| pc | code |
|---|---|
| `rdlock`, `wrlock` | blocked in the constructor of a read or write guard |
| `reading` | under the read guard, before the comparison of `setValue` (371) or the return of `getValue` |
| `notify`, `callback` | in the loop over `m_cbs` (375), in a listener (378) |
| `writing` | under the write guard |
| `store`, `insert`, `return` | in `addListener`, after the load, the store and the insertion |

`getListener` and `toString` are a read under the read lock and return, so
`CallGetValue` stands for them; `fromString` is `setValue` once the text is
converted (`ListenerThrows` is the exception that it catches).  `++s_fun_id` is
a load and a store because another variable's lock does not exclude it; the two
reads after it may be served from a register or from memory (`Seen`).  `keys`
is a history variable: the keys handed out and not removed since.

`WriterBlocksReaders` is the admission policy of the rwlock.  winpthreads (the
platform of the repository's toolchain) keeps new readers out while a writer
waits; glibc's default kind does not.  Both report no error to the code
(`RWMutex` ignores the return values), and both let a thread that reads ask for
the write lock and wait for itself.  The theorems hold for both.

### Logger

Each thread is in at most one call.  `list` is `m_appenders`; `hasFmt` is
`m_hasFormatter`; `out` is what an appender has written; `lOwner` and `aOwner`
are the owners of the mutexes.  `call.i` is the iterator of the loop over the
list, `call.a` the appender a call deals with.

| pc | code |
|---|---|
| `event` | between the macro's level check and `~LogEventWarp` |
| `llock` | blocked on the logger's mutex |
| `each` | in a loop over `m_appenders` (`log`, `setFormatter`, `toYamlString`) |
| `give` | `setFormatter` between its test of an appender's flag (559) and the assignment (561), neither of which the appender's mutex guards |
| `apply` | `setFormatter(pattern)` has the mutex and has parsed the pattern |
| `check`, `alock`, `owned`, `flag`, `push` | `addAppender`: before `getFormatter` (516), blocked on and inside the appender's mutex, before `m_hasFormatter` is set, before `emplace_back` (529) |
| `reopen` | blocked on the appender's mutex in `FileLogAppender::reopen` |
| `alock`, `owned`, `flag` | the same in `log` and `LogAppender::setFormatter` |
| `erase` | `delAppender` and `clearAppenders` under the mutex |

Two places use an appender's `m_formatter` without its mutex.  If at that moment
another thread is inside the critical section that uses or assigns it, the copy
of the shared pointer may be torn; the model lets the step end the process or
not (`fault`).  A null formatter that is dereferenced ends it too.  `fault`
stops all threads.  `reset` is a history variable: whether some
`LogAppender::setFormatter` was called with a null formatter.  Levels are plain integers, read and written in one piece.
`FileLogAppender::log` reopens when `m_lastTime`, which is uninitialised and
unguarded, differs from the clock: a free choice here, and modelled in
`FileAppender`.

### ListenerTable and ConfigVarTable

`ListenerTable` has no locks and no frames: callers add and remove listeners in
one step when nobody goes through the table, begin to go through it with a new
value, visit the keys in ascending order, and stop.  There is no action that
changes the value.  The mapping takes the listeners of the variable and its
value as they are; a caller visits from `BeginNotify` on, also while it waits
for the write lock (the guard of 370 is still there); and `last` is `s_fun_id`
without the increment of an `addListener` that has not inserted yet, so that
`++s_fun_id` and the insertion are one step of the table.  That is sound only if
no other caller can see the counter in between: with a second variable of the
type it can, and `shared_counter` shows what happens.

### LogReload

`LogReload` extends `ConfigVar`: a frame that runs the callback of `logs` is in
the listener of logger.cpp 1006-1072, and its `job` says where: the definitions
still to do, the one at hand, the next call on its logger.  Each call is one
step: it is one assignment, or holds the logger's mutex throughout.  `known` is
the set of keys of `m_loggers`, `mgr` the owner of the manager's mutex,
`object` every logger with its level, formatter and list; `RootObject` is the
logger that `getRoot` returns, which is never put into the map.  `old_value` is
the variable's value, `new_value` the frame's.  A definition's formatter is a
pattern that is good, wrong or empty.  `last` and `overlap` are history.

Since no `setValue` ever stores its value (`NothingChanges`), `old_value` is
always empty: every definition is new, and the second loop, which should switch
off the loggers of removed definitions, has nothing to do.  It is modelled all
the same, as is the pointer that stays null for an unchanged definition (1016,
1020): with a repaired `setValue` (the mutant of `NoNullLogger`) it is
dereferenced.  `operator==` (855) compares a definition's appenders with
themselves, so one whose appenders alone changed would count as unchanged.

### FileAppender

A stream is `good` (its `operator bool`) and has a `file` open: none, the one at
the path, or one that was moved away from there.  `close` clears no error,
`open` on an open stream fails, and only an `open` that succeeds clears the
errors (C++11 and libstdc++); so `reopen` (732-741) repairs a stream whose
`open` failed and not one whose write failed.  `log` is five steps: `time(0)`,
the comparison with `m_lastTime`, `reopen`, the assignment, the write; the
stream is used under the mutex only, so these two are atomic.  `m_lastTime` may
be anything at first; a call that finds its second in it before it is assigned
skips the `reopen` (`byGarbage`), and the properties are about the others.
Around it the clock ticks, the file is moved away, and the path stops and starts
to be one that can be opened.  Below the appender's level a call does nothing.

### LogPattern, LogDefineText and LexicalCast

Functions of their inputs.  A pattern is a sequence of characters; the scan is a
recursive function of the position.  `IsWriting` is the reference: whether a
pattern is one of those that a list of items can be written as.

In `LogDefineText` and `LexicalCast` a text is known by the node it loads as and whether it is the
dump of that node; the quotes that yaml-cpp puts around a scalar that would read
as something else are kept, since they decide what comes back.  `as<std::string>`
of a null and elements of a map read as a sequence do not occur in the inputs.
A type is the sequence of its kinds, such as `<<"list", "set", "int">>`, as the
specializations of the class follow one another.  `Parts` is what a conversion
meets at each depth of the type, and `Casts` what becomes of it, from the inside
out; both are recursive functions of the depth.
Of which values nothing is lost is `Lossless`: scalars, sets of ints, and lists of
these however nested, but for strings in a list that a load and a dump rewrite.
Of a definition the levels of its appenders are written and not read; a set
pushes each element as a dumped text, which for anything but a plain scalar is in
quotes when it is read, so that the value of `logs` itself does not come back
from its `toString`; in a map `it->first` is converted where `it->second` belongs
(`config.h` 150, 186).  That containers of ints are
among what does not come back, though the code announces conversions in both
directions, is what the run `conversion` shows; `ValuesSurvive` says of every
value whether it does.  The description that the `LogManager` gives of its loggers is read back
as definitions.

`doc/logger/字符串解析.md` calls `%T` a tab; `TabFormatItem` prints a space.

### YamlMembers and ConfigRegistry

A name is the sequence of the tokens between its dots, so that `a: {b: 1}` and
`a.b: 1` have the same name, as in the code; `ValidTokens` and `LowerCase` are
all that is known of characters.  A document is its nodes in the order of the
file with parents and keys; the recursion of `ListAllMember` is a recursive
function over it.  A key that is not a scalar has the empty name.

`datas` is the map, `owner` the writer of its lock (no code reads under it).

| pc | code |
|---|---|
| `lock`, `find`, `insert` | `Lookup`: blocked at the guard (461, 496), before `find` (462, 497), before `operator[]` (483) |
| `each`, `search`, `apply` | `LoadFromYaml`: head of the loop (69), inside `LookupBase`'s `find` (97), before `fromString` (84, 90) |
| `stuck` | in a `setValue` that waits for itself |

`LookupBase` takes no lock: if a `Lookup` inserts while a `find` is under way,
the tree may be torn (`torn`), which stops the process; or the find has its
answer from before or after.  `fromString` is what `ConfigVar` shows it to be:
it returns if the text does not convert, has the variable's value, or a listener
throws, and otherwise it does not return.  `left` is what remains of the list;
`set`, `met` and `handed` are history.

### Thread

A pthread has the name of the object that created it, so `pc[o]` is where the
thread of object `o` is: `born`, `named`, `took` inside `run` (112-116, 119,
120), `user` in its callback, `ended`.  A thread in `user`, and every thread
that no `Thread` made, may construct, join and destroy the objects that `Holds`
allows it, and call `SetName`.  `life` is the object's lifetime, `hasCb`,
`idSet`, `handle`, `sem` its members, `pthread` the kernel's view of the handle.
A thread that joins itself gets `EDEADLK` and an exception: no step.  The return
of `pthread_join` (99) and `m_thread = 0` (105) are two steps, `JoinReturns` and
`ClearHandle`: between them the thread is `joined`, and a second `join` passes
the test of 97 with a handle that is no longer valid.  Two joins of one pthread
are undefined in POSIX: one returns, the other reports an error or uses a stale
handle.  The destructor runs when no call on the object is under
way, as shared pointers ensure; `run`, which holds a bare pointer, is not
counted, and whether it can then meet a destroyed object is the question.
`fault` names what went wrong, and stops all threads; an object whose
constructor threw because `sem_wait` failed is told apart (`failed`), since
`run` does use that one.

## Runs

| Run | What it asks | Bounds |
|---|---|---|
| `one_variable` | one variable, two threads and a call nested in a listener, glibc policy: `TypeOK`, `KeyFindsListener`, `LockDiscipline`, `StableWhileNotifying`, `ValueFrozen`, `WedgeIsFinal`, `RefinesTable`, and with fairness `SetValueWedges` | 2 values, 2 keys |
| `setvalue_returns` | `SetValueReturns` is violated | 2 threads, 1 key |
| `shared_counter` | `KeyFindsListener` is violated with two variables | 2 threads, 2 keys |
| `fanout` | two loggers that may share a console and a file appender, two threads: `TypeOK`, `SameOrder`, `Delivered`, `WritesToAttached`, `NoCrash`, `AttachedNeverFollows`, and with fairness `CallsReturn` | 2 events, 2 levels, 1 formatter, 4 calls |
| `formatter_applies` | `LoggerFormatterApplies` is violated | 1 event, 3 calls |
| `texts` | `Lists` (`ListAllMember` against a definition of its result, for every document); `ScanReads`, `EscapesPrint` (every pattern); `RoundTrips` (values of 23 types, pairs of loggers); `DefinesMakeable` (nodes of definitions) | documents of 4 nodes with 5 kinds of key; patterns of 6 characters out of 6; containers of 2 elements, nested twice; 2 appenders |
| `reload` | two `setValue`s of `logs` run the listener, a client asks the manager: `ReloadTypeOK`, `NoNullLogger`, `LastClearerComplete`, `ReloadMatches`, and with fairness `ReloadFinishes` | 2 names, 4 values, up to 2 definitions with 2 appenders |
| `conversion` | `ConvertsBothWays` is violated | values as in `texts` |
| `file` | three threads log to a file that is moved, unreachable or fails: `TypeOK`, `RotationNoticed`, `OpenRetried`, `FailedWriteFinal` | 4 seconds |
| `capitals` | `Capitals` is violated | documents as in `texts` |
| `registry` | two threads look names up and load documents: `TypeOK`, `OneVariable`, `LoadComplete` and the invariant of the proofs | 4 names (nested, empty, not valid), 2 types, 2 documents of 7 and 4 nodes |
| `handshake` | three threads and two objects, fairness: `TypeOK`, `HandshakeDone`, `RunUsesObject`, `JoinedEnded`, `HandleValid`, `ConstructorReturns`, `JoinCompletes` | the objects; no circle of joins |

The bounds: `MaxId` bounds the keys in use, not the calls, so `ConfigVar` runs
are unbounded in length, like those of `ConfigRegistry` and `Thread`; two keys let one be removed or overwritten while the
other stays.  `MaxCalls` bounds the calls of the `Logger` runs: two `addAppender`s and two
events are the least that can put two events in different orders, an
`addAppender`, an event and a `delAppender` the least that can write to a removed
appender, and two `addAppender`s of two loggers with a `setFormatter` of each
kind the least for the races over one formatter.  Four
nodes are the least for a node with two nested parts and one beside it; the
documents of `registry` have a name twice, a name within a name, a capital and
an empty key.  Six characters are enough for an item with a format and text
around it.  The values of `reload` have a logger whose definition changes in
every part, one called "root", and a wrong pattern for a logger and for an
appender; two listeners are the least that overlap.  Four seconds and three
threads let a call that is two seconds late store its second between two calls
of a newer one.  What the bounds leave out the theorems cover, for the properties
they state.

Deadlock is checked in `reload`, where the client always has a step, in `file`
and in `texts`.  It is not in the others: a wedged variable stops all its users (that
is a result, stated by `SetValueWedges` and `SetValueReturns`), and threads of
`Logger` stop when the calls are used up or the process has died, those of
`Thread` when there is no object left to make or to use.

Fairness: a thread that is not blocked is scheduled (weak fairness of `Step`).
A lock is granted if it stays free (weak fairness of `Lock`); for
`setvalue_returns` even if it is only free again and again, so that the
counterexample does not rest on an unfair lock.  A listener returns or throws
(strong fairness, since it may be interrupted by the calls it makes).  In
`Logger` no more is asked than that some thread that can go on does (weak
fairness of all steps together): since threads make finitely many calls, every
call returns unless all that are left wait for each other, whatever the order in
which threads are scheduled and mutexes granted.  In `Thread` every callback returns, or `join` has
nothing to promise; and objects are joined downwards (`Holds` has no circle),
which is what the library leaves to its user.  In `LogReload` a listener that is
not blocked is scheduled (weak fairness of `Around` and `Rebuild`), whoever has
the manager's mutex lets it go (weak fairness of `EndYaml`), and a listener that
could have the mutex again and again is granted it (strong fairness): clients
that ask for descriptions without end would otherwise keep it away, which no
pthread mutex excludes but no scheduler does for ever.

### What the violated runs show

* `setvalue_returns`: `setValue` holds its read guard (370) when it constructs
  its write guard (381).  With a value that differs it waits for itself, and
  `m_val` is never assigned.  `config_example.cpp` 178-183 expects the opposite.
* `shared_counter`: two `addListener`s on two variables of one type hold
  different locks and interleave on `s_fun_id` (402-406): the key returned is
  not the one the callback is stored under, or two callbacks of one variable
  share a key.
* `conversion`: the text of a map of ints is not read as the map: for each value
  the conversion takes the text of its key (150).  The comments at 51 and 316
  speak of conversions between the text and the container, both ways.
* `capitals`: `ListAllMember` drops a key with a capital, and all below it,
  because `regex_str` (32) has none (`config.cpp` 47); the conversion to lower
  case comes after (76) and never changes anything: every name that reaches it
  is in lower case, as the lemma `RegisteredLowered` uses.
* `formatter_applies`: `addAppender` sets `m_hasFormatter` for a formatter that
  the appender inherited (522), so `Logger::setFormatter` skips it (559) for
  ever.  `logger_example.cpp` 24-28 sets a format this way and expects to see it.

## Theorems

All theorems hold for every value of the constants that the modules' named
assumptions allow.

`ConfigVarProofs`: `TypeCorrect`, then `Invariant`: `IInv` is `LockDiscipline`
(the lock records exactly the frames between their lock and unlock, a writer
excludes readers, and a listener's exception leaves none held; `LocksHeld`), `Stages` (where a frame can be, given its function) and
`CallsNest`.  None of the properties is inductive without the first: that two
writers exclude each other follows only because the lock's own state agrees
with the frames'.  From it: `WritersExclude`; `NothingChanges` (to store, a
`setValue` would need the write lock while its own read lock is recorded);
`NotificationStable`; `WedgeLasts`; and `OneVariableKeys`, under the hypothesis
that the type has a single variable, with the further invariant `KeysBelow`.
The hypothesis is needed: `shared_counter` is the counterexample without it.

In the same module `ImplementsTable`, under the same hypothesis: the initial
state maps to an initial state and each step to a step of
`ListenerTable` or a stutter.  That additions and removals happen while nobody
visits is `LockDiscipline` again; that `Visit` takes the least key is the order
of `std::map`; that keys are new is `KeysBelow`.

`LoggerProofs`: `TypeCorrect`, then `Invariant`: `IInv` is `LockDiscipline`,
`Stages`, `Cursor` (while `log` deals with an appender, it is the one its
iterator points to: the list cannot change under the mutex) and, until a thread
resets a formatter, `Formatted`: flag and formatter agree except while the
owner of the appender is between the two assignments, and an appender is in a
list only with both.  `OnlyAttached` follows from `Cursor`, `FormattersSafe` and
`NeverFollows` from `Formatted`.  The argument is pleasingly odd: setting the
flag for an inherited formatter is the fault behind `formatter_applies`, and it
is what keeps `setFormatter`'s unguarded assignment from ever being executed
(`NoneToReach`: nobody is in `give`).
`DeadlockFree`: some busy thread never waits, because who owns an appender waits
for nobody, and who owns a logger waits at most for an appender.  `History` is
the invariant of what has been written, `HistoryInv`: an event is in one
thread's hands and of one logger (`OneHand`, `OneLogger`); once an appender has
a later event of a logger, nobody has the earlier one in hand (`Past`), which is
what makes `SameOrder` inductive; and what has been written of an event is as
many copies as the iterator has passed entries (`Progress`), which at the end of
the loop is `Delivered`.  `OrderKept` and `AllDelivered` follow.

`ConfigRegistryProofs`: `Invariant`: `IInv` is `Locked`, `Stages` (a `Lookup`
about to insert has found nothing, and nobody has inserted since), `Injective`
(the map gives a variable one name, and a valid one) and `HandedStays` (what was
returned is still in the map).  `OneVariable` alone is not inductive: that an
insertion does not replace a variable already handed out needs the lock.
`NamesHaveOneVariable` follows.  The invariant behind `LoadsAreComplete`,
`LoadInv`, says that what was registered at the start is in `left` or in `set`;
that `left` starts with every valid name of the document is a theorem of
`YamlMembersProofs`.  `RegistryTypeCorrect` needs `LoadInv` too: what is left of
a load's list is nodes of its document.

`YamlMembersProofs`: `ValidNamesListed` (`ListAllMember` returns the nodes with a
valid name, last one first, whatever the document) and `InnerNodesFirst`.  The
recursion of `ListAllMember` goes down the tree, and a node's list is built from
its children's: that the children's lists are disjoint ranges, each after the
one before, is the induction.  Where a function is recursive, a lemma shows that
the function exists and obeys its equation (`Recursion`, for any set that a
measure orders); induction over numbers is had from the pigeonhole theorem for
finite sets, since the library's induction theorems cannot be instantiated.

`TextProofs`: `MembersAreListed` is the property `Lists` of the run for every
document.  `DefinitionsMakeable`: whatever node a definition is read from, its
appenders have a type that the listener makes an appender of, and what is
written of the definition is read as the same one; the hypothesis is that a
node's appenders come in a finite sequence.  `TextIsPrinted`: a text with every
percent sign doubled is scanned as one item, the text, whatever its characters;
the scan from a position depends only on what comes from there on (`SameScan`),
so that it can be taken character by character.  `PatternIsRead` is `ScanReads`
for every pattern over every alphabet, by an induction over patterns
(`PatternInduction`): what holds of the empty pattern, and of one if it holds of
what is left after its first character, escaped or not, or its first item.  Its
three parts are `ReadsAsWritten` (without an error a pattern is a writing of its
items, `ItemIsWritten` for one item), `ErrorIsRepaired` (an error is the last
item, and a closing brace behind it repairs that item alone; `ItemGoesOn`: what
comes behind an item changes nothing in it) and `PatternIsCut` (a pattern may be
cut behind an item without braces exactly where neither a letter nor a brace
follows; the hard case is a brace pair with nothing in it, which the scan drops
behind a name and prints anywhere else, `BracesAreText`).  Nothing is assumed of
`Letters`.

`NothingIsLost` is `RoundTrips` for values of every type at every depth, with
elements of any number; `ValuesSurvive` says beyond it exactly which values of
the other types come back: those of which every part is kept (`Survives`, which
`Lossless` implies).  Its hypotheses say what a value is: vectors and lists
are sequences, sets are finite, maps are functions, and what is inside is of the
type inside (`IsOfType`); the texts in it are of a set `W` in which a text that
a dump rewrites loads as a node, and in which no text is in quotes for ever
(`AreTexts`); the loggers of a manager have different names (`AreManaged`).  Of
`Ints` it is assumed that `std::to_string` tells them apart (`IntsAssumption`).
`PartsAt` and `CastsAt` give the two recursive functions their equations; from
them follows what becomes of a container in terms of its elements alone
(`ContainerBecomes`), so that the proof is one by induction over the length of
the type (`ValuesComeBack`).  `ListComesBack`: a list comes back if all of its
elements do.  `SetComesBack`: the quotes in which an element of a set is
written are read as a part of it, so that a set of strings could come back only
if its elements became one another, which no set of texts can do for ever
(`StringsInSet`).  `MapComesBack`: every value is read from its key.
`DefineSurvives` is the same for definitions, and `ManagerIsRead` the second half
of the property: `toYamlString` gives texts that are their own dumps, so that
what it writes for each logger is read as its definition (`LoggerIsRead`), and
definitions with different names are different elements.

`LogReloadProofs`: `ReloadIsConfigVar` (every step of the composition is one of
`ConfigVar` or leaves its variables alone), which brings every theorem of
`ConfigVarProofs` to the composition; with `NothingChanges`, `LoggersExist`
follows.  `ReloadTypeCorrect` is direct.  `RebuiltInOrder` needs
`Applied`: who still adds to a list that nobody has cleared since is adding what
it cleared the list for.  `RebuiltAsDefined` needs `Sole` (a logger without
overlap has one listener at it) and `InProgress` (what that one has done so far,
step by step); the property itself is their last step.

`FileAppenderProofs`: `FileTypeCorrect`; `RotationFollowed` and `OpenIsRetried`
rest on `Opened`: a second that is in `m_lastTime`, or with which a call has
opened the file, is one in which the stream was brought up to date, so that only
later events can have made it stale; and on `Dated`: no call is ahead of the
clock.  A late call may set `m_lastTime` back, which costs a `reopen` and
nothing else.  `NoRecovery` needs no invariant but types.

`ThreadProofs`: `Invariant`: `IInv` adds to the properties `Handshake` (what
`run` has done, seen from each stage of the object's life), `CallsOnLive` (who
waits for an object and in which stage it then is, and that the pthread of an
object that was `joined` has ended) and `Building` (the handle
that the constructor leaves).  `HandshakeDone` is not inductive: that a
returning constructor finds `run` past `notify` follows only because a positive
semaphore says so.  From it `HandshakeHolds`, `RunIsSafe` (for
an object that was alive: one whose constructor threw is used), `JoinWaits` and
`HandlesValid`.  The last says what `m_thread` of a live object is: joinable; 0
with the pthread joined; or a stale handle, while exactly one thread is between
99 and 105.  That it is one thread follows because a pthread is joined once;
that a second `join` can be on its way meanwhile is why the stale handle has to
be in the statement.

The invariants `IInv` of `ConfigVar`, `Logger` and `Thread`, `ReloadInv` and
`FileInv` are not among the properties of the runs; they are proved.

Every invariant and action property of the passing runs is thus stated by a theorem.
Model-checked only are the liveness properties `SetValueWedges`,
`SetValueReturns`, `CallsReturn`, `ConstructorReturns`, `JoinCompletes` and
`ReloadFinishes`, which are out of the proof system's reach.

## Not modelled

* `Spinlock`, `CASLock` and the guards' own `lock` and `unlock` (`mutex.h`):
  nothing in `src/src` calls them.  (`ReadScopedLockImpl::lock` unlocks.)
* `LogFormatter::setFormatter` and `Logger::getFormatter`: never called.
* The formatting of a message with `vasprintf`, and of the date with `strftime`,
  whose 64 bytes may not hold a long format.
* `Singleton`, the assertion macros and `util`: no state of their own; `Fiber` is
  an empty namespace; the examples are programs that call the library.
* boost, yaml-cpp and iostreams, but for what the modules say of them.

What could be added: `FileAppender` as an appender of `Logger`, with buffered
output that is lost when a flush fails at `close`; that waits across two
variables are final; `LogReload` with a repaired `setValue`, to see what its
branches for changed and removed definitions do.
