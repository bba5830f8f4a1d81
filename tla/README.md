# Specifications of clpsz-demos

TLA+ modules beside the demos of this repository. The repository is a
collection of small, independent programs. Those with a core logic of their own
are modelled: the two distributed-transaction demos, with several actors, two
databases and failures; libconfig and cJSON, whose sources the repository holds
and builds; and the serial protocol, two programs on an unreliable line.

Paths below are relative to `src/`. `T/` stands for
`presentations/dtp-in-action/dtp-tcc/src/main/java/com/clpsz/`, `G/` for the
same directory of `dtp-saga`, `L/` for `linux/linux_libconfig/` and `U/` for
`linux/uart_communicate_protocol/`.

## 1. Inventory

| part | state | operations | modelled in |
|---|---|---|---|
| TCC stock service, `T/service/ItemStockService.java` | `item_table.stock`, `item_reserve_stock_table` (INIT, CONFIRMED, CANCELED) in `item_db` | `tryReserveStock`, `confirmReserveStock`, `cancelReserveStock` | `TccStock`, `TccStockTx` |
| TCC order service, `T/service/OrderService.java` | `order_table` (INIT, NORMAL, CANCELED) in `order_db` | `tryCreateOrder`, `confirmCreateOrder`, `cancelCreateOrder` | `TccOrders` |
| TCC coordinator, `T/ShopController.java`, `T/service/TccService.java` | `tcc_table` (INIT, TO_CONFIRM, TO_CANCEL, FINISHED) | `placeOrder` | `Tcc` |
| saga event center, `G/EventCenter.java` | a bounded queue in memory, one event loop per `placeOrder` | `putEvent`, `startEventLoop` | `Saga` |
| saga of an order, `G/CreateOrderEvent.java`, `G/ShopController.java` | the event in hand | `processEventForward`, `processCancel`, `placeOrder` | `Saga` |
| saga services, `G/service/*.java` | stock, reservations (NORMAL, CANCELED), orders, `saga_table`, `saga_log_table` | `deductStock`, `cancelDeductStock`, `createOrder`, `cancelOrder`, the log and status updates | `SagaStore`, `Saga` |
| libconfig, setting tree, `L/libconfig.c` | settings in allocated memory, their lists, names, hooks; the options of `config_t` | add, set, get, look up, remove, hook, destroy | `ConfigHeap`, `ConfigTree` |
| libconfig, parser, `L/grammar.c` | the two stacks of bison's automaton, the parse context | `yyparse` | `ConfigGrammar` |
| libconfig, writer, `L/libconfig.c` | none | `config_write` | `ConfigRoundTrip` |
| libconfig, reading files, `L/scanner.c`, `L/scanctx.c`, `L/libconfig.c` | start condition, include stack, open files, error place | `config_read_file`, `config_read_string`, the rules of the scanner | `ConfigScan` |
| libconfig, scanning engine, `L/scanner.c` | the buffer, its refills, the automaton in tables | `yylex`, `yy_get_next_buffer`, buffer switches | `FlexBuffer` |
| cJSON, `cJSON/cJSON.c` | items and strings in allocated memory, the error pointer | parse, print, create, add, insert, replace, detach, delete, duplicate, references | `CJson`, `CJsonClient` |
| serial protocol, `U/` | receiver automaton, reply slot shared by two threads, sequence number | `ser_cmd_send`, `ser_cmd_rcv`, `ser_cmd_dealcmd`, the handlers | `SerFrame`, `SerLink` |

How the parts interact. In the TCC demo the coordinator is a thread per
purchase that calls the two services one after the other; every call opens a
JDBC connection of its own, so that several connections meet in the databases
and nowhere else. In the saga demo the threads meet in two places, in the
databases and in one queue: a loop takes an event, makes the call that it stands
for, and the called service itself puts the next event. In libconfig the parser
calls the scanner for tokens and the tree for every setting; the scanner keeps a
stack of files of its own; the program calls the tree between reads. In the
serial protocol the sending thread and the reading thread of one program share
`replied` and `replied_pkt` without a lock, and the other program is at the end
of a line that loses and changes bytes.

What is hard: interleaved transactions on one stock row; calls that time out,
fail or succeed without an answer; a program that stops between two calls, with
no code that resumes; a cancel that overtakes its try; an event sent before the
transaction it reports has committed; a queue whose consumers are its producers;
trees of pointers under any sequence of calls with any allocation failing;
hand-made growth of lists, stacks and buffers; tables that no one reads, against
the language that they stand for; files that include each other and a parser that
stops at any token; replies that come twice or late. `PROJECT.json` lists each
such hazard at its line with the properties that would catch it.

## 2. The TCC demo

### Modules

* `TccCalls`: the constants and replies that both participants share. A call
  returns `"true"`; or `"false"` after a rollback; or an exception leaves the
  method (`"exn"`), and then the transaction is committed or not.
* `TccStock`: the contract of the stock service, each call atomic, called in any
  order and any number of times, and what the contract is for: `Conservation` and
  `NoOversell`. The units that reservations hold are counted as a set (`HeldOf`).
* `TccStockTx`: the same service statement by statement. One action is one SQL
  statement of one connection (`TrySelectItem`, `TrySelectRow`, `TryInsert`,
  `TryCommit`, and so on). The locks are InnoDB's under repeatable read:
  `select ... for update` locks the row it finds, or the gap when it finds none;
  gap locks do not exclude each other but do stop inserts; an uncommitted insert
  locks its row; a commit, a rollback and `close()` release everything. What a
  statement read stays in `seenStock` and `seenRow`, as it does in the Java
  local variables.
* `TccOrders`: the order service, each call atomic (one row, one lock).
* `Tcc`: `placeOrder` over `TccStock`, `TccOrders` and the row of `TccService`,
  for several purchases at once. `pc[t]` is the next call of the thread.
  `faulty` collects the purchases that met a failure which nothing in the
  program's state explains.
* `AtomicPurchase`: what the whole promises: a decision once and for all, two
  participants that follow it.
* `TccStockProofs`, `TccStockTxProofs`, `TccProofs`: the theorems; the last two
  extend the first.

`FOR UPDATE` locks and the unsigned columns are MySQL's, not the program's; they
are marked external in `PROJECT.json` or named at the definition that uses them.
The unsigned columns matter: `getStock() < stock` lets a negative count pass, and
only the insert refuses it.

### Runs

| run | instance | shows |
|---|---|---|
| `stock_tx` | 2 connections, 3 transactions on 2 items, one of them for a negative count, every call at any time, any failure | no stale read is written back (`SeenIsCurrent`), stock and reservations add up (`Conservation`), never below zero (`NoOversell`), an answer stays true (`AnswersDurable`), stock moves only with its reservation, the service implements `TccStock` (`StockSpec`), and every call returns and leaves no lock (`CallsReturn`) |
| `orders_cancel_first` | the order service alone | violated: a canceled order that is not there is not remembered (section 8) |
| `tcc` | 2 purchases of 2 items each, 3 in stock, and a third of a missing item; any failure of any call, crashes | the safety properties of `Tcc`, `ImplementsPurchase`, and that every purchase of an existing item ends FINISHED unless the environment failed one of its calls (`EveryPurchaseFinishes`) |

Two connections are enough for every pair of statements to meet, and for a
deadlock cycle; the third transaction gives the gaps neighbours (two new ids
fall into one gap, or into two), and the second item lets two connections hold
different item locks. In `tcc` the two purchases exclude each other, so that either tries,
wins or is refused; a third one of another item shows that they do not disturb
it. There is no bound on the length of a run: the
state spaces are finite and explored completely.

Every property is also checked against a version of the code with one plausible
bug (the operators commented "Mutant"): the run must then find the property
violated.

### Fairness

`FairSpec` of `TccStockTx`: a connection whose next statement can be executed
again and again executes it (strong fairness: InnoDB grants a lock to its waiters
in order, so that a waiter is not passed over for ever), and a deadlock is
detected and broken (weak fairness, InnoDB's detector). Failures stay possible at
any step. `FairSpec` of `Tcc` has weak fairness of each thread: the JVM schedules
its threads, and a JDBC call returns or throws. What the environment may still
refuse is named in the property.

### Theorems

All hold for any sets of connections, items and transactions, any counts and any
initial stock, from the named assumptions on the constants only (counts are
integers, the stock is natural, ids are naturals and differ from `None`).

`TccStockProofs`, about the contract. `StockConserved`: the stock of an item and
the units of it that reservations hold always add up to the initial stock, and the
stock is never negative. The units of a transaction are the pairs of it and a number
up to its count, so that a reservation adds, and a release takes away, a set of known
size that is disjoint from the others; no sum over transactions is needed.

`TccStockTxProofs`. The invariant `IInv` consists of `TypeOK`, the agreement
of the locks with the place each connection has reached (`ReadsAreLocked`: what
was read is locked and still current), `SeenIsCurrent`, `AnswersDurable`,
`NoOversell` and the form of absent rows (`AbsentIsNoRow`). None of the
properties is inductive by itself: that a commit writes the right stock depends
on the lock held since the select. One lemma per action shows that it preserves
`IInv`. From the invariant follow `NoLostUpdate`, `StockNeverNegative`,
`StockAnswersDurable`, the action property `StockMoves`, and the refinement
`StockTxImplementsStock`: a commit is one step of `TccStock`, every other
statement a stutter or a failed or repeated call. `StockTxConserves` is then
`StockConserved` seen through the refinement: what the contract keeps, the
statements keep.

`TccProofs`. `IInv` is `TypeOK` with `CoordinatorKnows`, three facts per
purchase: the participants' rows follow the coordinator's row
(`RowsFollowStatus`), what was answered is so (`AnswersAreTrue`), and the place
`placeOrder` has reached implies both (`PlaceIsKnown`). From it follow
`PurchaseNeverSplit`, `FinishedPurchaseIsOver`, `NormalOrdersHoldStock`,
`OnlyFaultsStop`, `ParticipantsFollow` and `TccImplementsPurchase`. `OrdersWithinStock`
joins the two databases: the units sold by NORMAL orders are among those that
reservations hold (`NormalOrderHoldsStock`), which are no more than there were
(`Conservation`).

Only model-checked: liveness (`CallsReturn`, `EveryPurchaseFinishes`).

## 3. The saga demo

### Modules

* `SagaStore`: the two databases and the calls of `OrderService`,
  `ItemStockService`, `SagaService` and `SagaLogService`, each one atomic.
  `deductStock` is not: it puts its success event between its last statement and
  `commit()`. `SagaStore` only has its parts.
* `Saga`: `placeOrder` (`PlaceInsertSaga`, `PlaceStartLoop`, `PlacePutInit`), the
  loops of `EventCenter` and `CreateOrderEvent.processEvent`. A loop is named by
  the purchase that started it, because `placeOrder` starts one each time. `loc[c]`
  is its next call, `hand[c]` its event, `todo[c]` what `processCancel` has left of
  the log list it read. Actions follow the calls: `Take`, `UpdateLog`, `InsertLog`,
  `CreateOrder`, `DeductStock`, `PutDeducted`, `CommitDeduct`, `PutEvent`,
  `SelectLog`, `Compensate`, `LogCanceled`, `UpdateSaga`. Putting is an action of
  its own because it blocks on a full queue; a loop between `PutDeducted` and
  `CommitDeduct` holds the lock of its item. Results that the code ignores
  (`insertSagaLog`, `updateSagaLogEventStatus`, `updateSagaStatus`) are ignored
  here; an `SQLException` drops the event, as the loop does. `Crash` empties the
  queue and ends every loop; purchases not yet placed go on with a new program.
* `SagaPattern`: what the saga pattern promises: steps in order, compensations in
  the opposite order, nothing done after an undo.

The log is a function of purchase and event. The table has no unique key, but an
event of a saga is taken once, so that a step is logged at most once.

A lost InnoDB deadlock between two sagas is a call that answers false. For a
forward step that is an ordinary refusal. For a compensation it counts as a
fault: it is not retried.

### Runs

| run | instance | shows |
|---|---|---|
| `saga` | 2 purchases of 2 and 1 items, 2 in stock, a queue of one place, every call failing in every way, crashes | `FinishedIsBought`, `CanceledIsUndone`, `AtRestIsWhole`, `StockIsAccounted`, `NeverJammed`, `ImplementsPattern`, `EverySagaEnds` |

What the run says about the code, with its conditions:

* a FINISHED saga has order and stock, unless the very commit of the deduction
  failed after its event had been put; then it is FINISHED with neither;
* a CANCELED saga holds no stock ever, and no order unless the log of its first
  step could not be written: `insertSagaLog` answers null then, nobody looks at it
  (`G/CreateOrderEvent.java:84`), and the compensation does not see the step. No
  property can exclude what the code does here; `CanceledIsUndone` and the refinement
  except this case and no other;
* a saga that met no failure ends whole.

Two purchases are enough for two loops to work on the two contradicting events
of one saga at once, in either order, while the other saga holds or waits for
the item. The queue has one place because a full queue is what `NeverJammed` is
about; the loops then block at every put. Neither system stops
by itself: loops waiting for events are the normal end, therefore
`CHECK_DEADLOCK FALSE`; a jam is what `NeverJammed` excludes. It does not hold
after failed commits, when a purchase has two events: as many purchases as the
queue has places (100 in the code) would then have to fail at once.

Fairness: weak fairness of each thread's steps (`FairSpec`). Every purchase takes
finitely many steps, so that no stronger assumption about the fairness of the
queue is needed.

### Theorems

For any number of purchases and items, any counts and initial stock, and any
capacity of the queue. The assumptions are those of `SagaStore` and `Saga` on their
constants: counts are integers, the stock is natural, the queue holds at least one
event, and `NoEvent` is no event.

`SagaProofs`. A purchase goes on as long as something has it: `placeOrder`, an event
in the queue, or a loop with an event in hand. `IInv` says, for each of these places,
how far the databases are:

* `Control`: where a loop can be with which event (`LoopShape`), and that a purchase
  that is under way has a loop (`OwnLoop`);
* `Apart`: no two places have the same purchase, except that one may be about to
  finish what another has not committed, or failed to commit (`Together`). This is
  the case that makes the properties hard: `deductStock` puts its event before it
  commits, so that a success and the failure of the same step can be processed by two
  loops at once;
* `Databases`: what each event and each loop know of the rows of their purchase
  (`EventOK`, `LoopOK`), and what is true of a purchase whoever has it (`SagaOK`);
* `GoesOn`: a purchase that is not over has such a place, or a fault explains why not;
* `Locks`: a loop between its last statement and its commit holds its item alone.

None of the safety properties is inductive without `Apart`: that nothing is reserved
when the compensation reads the log is a fact about all the other loops. One lemma per
action shows that it preserves `IInv`. From it follow `SagaTypeOK`,
`SagaFinishedIsBought`, `SagaCanceledIsUndone` and `SagaAtRestIsWhole`.

Two more follow with a count kept next to `IInv`. `SagaStockIsAccounted`: the stock and the reserved units of an item
add up, counted as in the TCC demo. `SagaNeverJammed`: that the loops never all block
at a full queue is a matter of counting. Each loop that is blocked has a purchase of
its own in hand, the queue is full of others, and each of all these purchases has
started a loop; so there are more loops than the blocked ones. It needs that finitely
many loops are on (`FewOn`), an invariant of its own, because the number of purchases
may be infinite.

`SagaPatternProofs`. `SagaImplementsPattern`: the refinement of `SagaPattern`. A
step of the program moves one step of one purchase, and in the pattern's order; that no
other purchase's steps move is again `IInv`.

Only model-checked: `EverySagaEnds`, which is liveness.

## 4. libconfig

The sources are in the repository and linked into the demo `L/main.c`, which
reads a file, prints its settings and exits on an error. All of the library that
keeps state is modelled, in four layers that share little state: the tree, the
parser that builds it, the include stack of the scanner, and the engine that cuts
the text into tokens.

### The tree: `ConfigHeap`, `ConfigTree`

`ConfigHeap` has one operator per library call, from a heap (a function from the
addresses in use to settings) to a heap. A list keeps its `cap`, the memory that
`__config_list_add` has asked for, which the C code does not store anywhere.
Values are integers: doubles are counted in halves, strings are the numbers that
stand for them. The widths of `int`, `long long`, `float` and `double` are
constants, so that a narrowing and a rounding happen with small numbers; the
conversions are C's (an integer that does not fit an `int` becomes 0, `float`
rounds to even). The conversion of a float to an integer type that does not hold it
is undefined in C; the model yields the type's least integer, as the x86 instruction
does, and this is the one place where it relies on the machine.
`ConfigTree` is a program that makes the calls in any order, with one hook for
each setting at most, as `config_setting_set_hook` overwrites without freeing; what
it passes to a setter is a value of the setter's C type. `last` keeps the last answer
for the properties. `PathTo` is the path of names and indices from the root to each
setting, a recursive function on the heap, which `Lookup` follows step by step.

Run `config_tree`: trees of five settings, the root among them, so that a group or a
list has up to four members, two of which may have names of their own; `CHUNK_SIZE` 2
(16 in the code), so that a list grows at its third element, and again, or not, after
removals. An `int` has 4 bits, a `long long` 7, a `float` is exact up to 4 and a
`double` up to 32, with inputs on each side of each: exact everywhere, rounded by a
float within an `int` and out of it, rounded out of a `long long`, rounded by a double.
`MCConfigTree` lists them. Its view joins states that differ in addresses, in which
names are used and, in the largest trees, in hooks and numbers, which no step relates
to the fifth setting.

* `TreeIntact`: types, one tree, lists in their memory, every setting found from its
  parent, and a path of names and indices to it from the root.
* `NoSilentTruncation`: by name, by path and by index each getter answers the same, and
  what it answers is determined for every pair of types (`TellsNumber`). The setting has
  the number `w`: the one given, 0 if it is an INT too narrow for it, or the one a
  FLOAT rounds it to, which is near. A getter that succeeds answers `w` where its
  type holds it (a double the nearest one); elsewhere 0 for the `int` of an INT64, and
  the least integer for a FLOAT.
* `FailedCallsChangeNothing`, `HooksGoWithTheirSettings`, `OnlyAddMixesArrays`.

### The parser: `ConfigGrammar`, `ConfigRoundTrip`

`ConfigGrammar` runs the tables of `L/grammar.c` (`yypact`, `yytable`, `yycheck`,
`yydefact`, ...) with bison's loop: default reductions without a lookahead,
errors, the stack that doubles up to `YYMAXDEPTH`. The actions of the grammar are
one operator per rule, on `parent`, `setting` and the pieces of a string.
`Recognised` is the reference: the language as an automaton over a stack of
brackets, written from the grammar's rules and not from the tables.
`ConfigRoundTrip` composes it with the tree and the writer: a program builds a
tree, writes it and reads it; or a file of any tokens comes.

Run `config_file`: every file of up to ten tokens and every tree of up to four
settings; stack 4, growing to 14 (200 and 10000 in the code), because growth has
to happen within these lengths. The memory for a grown stack may be refused each time. `ParsesTheLanguage` compares the tables with the
reference at every token. `ActionsFitTheParse` collects why the actions may rely
on the shared context: `ctx->parent` is the innermost open aggregate whenever a
token is read, a name is stored while `yytext` still holds it, `ctx->setting` is
there when a value is stored. `SurvivesTheFile`: every parse ends, and a written
tree comes back, or is refused if no file can hold it or memory ends. The run writes
entries without semicolons (`Semicolons = FALSE`); the files of any tokens have them
everywhere the grammar allows.

### Reading files: `ConfigScan`

Files are sequences of the pieces that the scanner's rules match. The state is
what one read touches: `config_t`'s error, file names and include directory,
flex's buffers, the open streams, the stack of `L/scanctx.c`, the start
condition. The parser may stop at any token. The reference for includes is `Lex`,
a recursive function on one flat text without buffers: when it meets a directive, the
text of the file, with the mark `Back` behind it, takes its place, and the start condition and the
string that is being collected go on over the mark, as they do in the scanner.

Run `config_scan`: three reads with one `config_t`, `MaxDepth` 3 (10 in the code) so
that a file that includes itself meets the limit; among the files are one that ends
inside a comment (`open`) and one that ends inside a directive (`cut`), which the
including files close (`wide`; `join` and `part`), and a directive without a name.
`IncludeIsTextual`, `ErrorIsInPlace`, `ReadsEndClean`. For `ErrorIsInPlace` the variable
`place` remembers which piece of which buffer ended the last token, and nothing of
what the code reports: the property counts the newlines of that text up to that
piece (`LineAt`), and asks whether the reported file is one that has this text
(`HasText`). A line that is not saved with its buffer, or a name looked up on the
wrong level, disagrees. Weak fairness of the scan stands for a thread that runs.

### The engine: `FlexBuffer`

The tables and loops of `L/scanner.c`, character by character: `yy_ec` classes,
the match loop with its backing up, NULs, refills, growth of the buffer, the
switch of buffers at an include and back. The buffer has 2 characters and is read
by 2 (16384 and 8192 in the code), so that every token straddles an end.
`LongestMatchOfTheWhole` compares it with the longest match on the whole text
without any buffer; `WrittenScansAsItsType` says that each number that the writer
prints is one token of its own type. The fairness condition is weak fairness of
`Next` with its `ENABLED` written out, which TLC evaluates faster.

### Theorems: `ConfigTreeProofs`

For any set of addresses, any `CHUNK_SIZE`, any names, hooks and calls. The
assumptions are those of `ConfigHeap` and `ConfigTree` on their constants: finite
addresses that contain the root's and not NULL, NULL is neither a name nor a hook,
setters store scalars that fit the setter's C type, and the number types are as wide
as in C relative to each other (`float` < `int` < `double` < `long long`, by the
integers that they hold exactly).

* `SettingsStayFound` (`FoundFromParent`): the index that `config_setting_index`
  answers, and in a group the name, lead from the parent back to the setting. The
  invariant `NamesTell`: only aggregates have a list, and the members of a group have
  valid names, each its own.
* `TreeStaysATree`: `TreeShape` and `ListsWithinMemory` always. The invariant
  `TreeInv` needs more than either: lists are only known to fit after a removal and
  a further add if, past each chunk that is begun, there is room for all of it
  (`HasRoom`); and a cut leaves a tree because what hangs below a setting hangs
  there through its parent (`BelowByParents`), so that nothing below it is in a list
  elsewhere. `GrownKeeps` and `CutKeeps` are the two steps that change the shape.
* `FailuresChangeNothing` (`FailedCallsChangeNothing`): an element that
  `config_setting_set_*_elem` has just created always takes its value.
* `HooksAreFreedOnce` (`HooksGoWithTheirSettings`): `HooksApart` says that a hook
  hangs on one setting.
* `ArraysStayUniform` (`OnlyAddMixesArrays`), for programs that add no setting of
  type NONE. The run has none either; with one, a later setter gives the element
  another type than the array's.

* `TreeStaysIntact` (`TreeIntact`, all of it): the types, where an INT always holds
  what fits an `int`, the tree, the lists in their memory, and
  `EverySettingHasItsPath`. `PathTo` is defined by a recursion that must be shown to
  have a solution: in a tree every setting has exactly one route from the root
  (`EachHasARoute`, by closure under the lists and not by induction over the depth),
  and the routes satisfy the equations (`PathsExist`). `Lookup` is then followed step
  by step (`LookupStep`); each step is `SettingsStayFound`.
* `NumbersSurvive` (`NoSilentTruncation`), for any widths of the number types and any
  number: each getter answers what `TellsNumber` determines. `Pow2` is a
  recursive function whose equations are proved from the naturals alone (`Recursion`:
  the initial parts of a recursion agree, and there is one of every length). What
  narrowing, rounding to even and truncation do to a number is `NarrowFits`,
  `ToFloatNear` (the rounded number is the exact one or off by less than one part
  in 2^bits) and `TruncateFits`; `IntTells`, `Int64Tells` and `FloatTells` follow
  the number into the three types and out of each. The
  invariant `WholeInv` adds to `TreeInv` and `NamesTell` the types (`Entries`) and what
  each getter answers of the last number set (`NumberTold`), and the three ways to a
  setting agree because each leads to it (`EveryWayLeads`).

### Theorems: `ConfigScanProofs`

For any files, any directories, any depth of includes, any number of reads, and
wherever the parser stops. The assumption is `DiskAssumption`: files are sequences
of pieces, and NULL names no file.

* `ErrorsInPlace` (`ErrorIsInPlace`) and `ReadsLeaveNothingOpen` (`NothingLeftOpen`,
  the safety half of `ReadsEndClean`). The invariant `HeldInv`: the frames of the include
  stack have a stream and a buffer each, no two the same and none that of the file
  which is read (`FramesApart`, `FramesOpen`, `CurrentOpen`), and nothing else is open
  (`OthersClosed`). The first is needed because three functions close files, and
  each closes once only what another one has not; `PlacesInText` keeps
  every buffer's place inside its text. `ErrorsInPlace` needs `PlaceInv` besides:
  the line of every live buffer, also of those that wait below an include, is that of
  its place in its text (`LinesCounted`), and each level of the stack has the text of
  the file whose name it has (`FilesMatch`). Neither is a matter of the action that
  reports: a line is left behind by `PushInclude` and used again after any number of
  files, and the name comes from the level above.
* `InclusionIsTextual` (`IncludeIsTextual`). The invariant `TextInv` relates the stack
  to the flat text at every moment of a read: the tokens so far, and the rests of the buffers
  one behind the other with `Back` between them, make the tokens of the whole text
  (`SameText`). `BehindDirectives` is needed for the return from a file: the quote
  before the place where reading goes on is not the beginning of a line. Each action is
  one `Consume` of the reference, or none. That a function `Lex` with its equation
  exists is proved too (`LexExists`): a file that includes itself has a flat text without an
  end, so the function is defined by where the steps of `Consume` end, and arbitrarily
  where they do not.

Only model-checked: that every read ends (`ReadsEndClean`, liveness); the parser and
the engine, whose tables and references are recursions over texts.

## 5. cJSON

`CJson` holds the library's inside as functions of a memory: items in `nodes`,
strings and buffers in `strs`, and a counter that makes one allocation fail. The
recursive parser, printer and duplicator are recursive operators; a text is a
sequence of symbols, a `\u` escape one symbol by the kind of its unit, numbers one
literal. `print_string_ptr` counts first what it will write (`Counted`) and then writes
(`Escape`): the buffer has the size of the count, and writing past it is an error of
the memory. `CJsonClient` calls the library: create, add, insert, replace, detach and
delete by index and by name, references, duplicate, print and parse, and texts
written by hand symbol by symbol.

Run `cjson`: two trees of up to three items (an array made at once may have four),
whose names differ in case only and hold, with the string values, every kind of
character to be escaped: a quote, a backslash, a control character with an escape of
its own and one that needs `\u`. Of the calls that allocate once or twice (`AllocateFew`) either
allocation may fail; of those that print, parse, duplicate or make an array
(`AllocateMany`) any of the first eight (`MaxFail`), which is past the last one that
`print_object` makes for two members (seven) and reaches the parse of every copy by text. Texts
have up to seven symbols, so that an object with a second member is not completed
by the parser's own run; it is in `CopiesAreEqual`, whose objects have two. `MemoryIsAccounted`: one owner for each item and each string, links both
ways, nothing freed twice, used after the free, or written past a buffer, also by
printing any item in either format and reading it back.
`CopiesAreEqual`: what is printed and parsed again, and what is duplicated, is equal.
`ReadsJson`: the parser against the grammar of JSON, with its structure, and its
error pointer at the first symbol that cannot go on. TLC sees states through the
view `Canonical`, which numbers items in the order they are reached: addresses
mean nothing to any property, so that the view joins only states that behave
alike.

The client keeps to the documented use: it does not change what a reference
elsewhere shows, and it holds no item in two trees. Excluded by it, and found while
modelling: a text that ends in a backslash inside a string is read past its end;
`cJSON_Create*Array` dereferences NULL when an item cannot be allocated
(`cJSON/cJSON.c:548-551`; `fault = "null"` ends the run's behaviours there).
Nothing is proved here: all of it is recursion over trees and texts.

## 6. The serial protocol

`SerFrame`: the frame, its checksum, the receiver automaton of `ser_cmd_rcv` byte by
byte, the table of handlers and their answers. `SerLink`: a sender of two threads, a
receiver, and two byte streams. One action is one read of a byte or one access to
the shared `replied` or `replied_pkt`, because these accesses are unsynchronised:
the two stores of `ser_hal_tellsend` are two actions, and so are the reads of
`ser_hal_rcvreply`. Buffers are counted by address. Faults are a byte lost or
changed, a short write, memory refused, and a new start of the sender; the
receiver that is called with the terminating entry of its table stops (`devUp`).

Run `uart`: three commands in a row, any two faults. The commands are one of each
kind that the receiver tells apart: one without a handler (the one `_send_10` sends),
an echo whose data are the head of a frame, command 0, the "discover" of the
README, and one of 128 and more, which the receiver takes for a reply.

* `RepliesHandedOver`: one owner for each reply buffer until a restart, and no reply
  that the sending thread does not wait for.
* `CommandsAreAnswered`: `inStep` says that nothing was under way when the command was
  written and that nothing has gone wrong since; what went wrong earlier does not
  matter. A reply that comes in step is the answer of the command's handler. A
  command in step gets one, unless something goes wrong before, or the property names
  what happens instead: command 0 ends the receiver, and 128 and more are never answered
  (`Unanswered`). After a loss the sender may wait for ever, as the code has no
  timeout; that is the reason why `~>` may end in `~inStep`. Under weak fairness of the
  threads.

Run `uart_sn` is a violation, see section 8. The frames' length is one byte:
`CommandsAssumption` says that no data is so long that it wraps, as the callers in
`U/main.c` see to it.

`SerLinkProofs`, for any such commands and any number of them, and any number of faults:

* `AnswersAreOwn`: in step, replies come one at a time (`OneReplyAtATime`), the reply
  that the sending thread reads has the sn of its command although nothing compares
  them (`ReplyIsOwn`), and it is the answer of the command's handler. The invariant
  `SoundInv` says that a line in step is in one of three conditions: the command is
  travelling, with a part in the receiver's parser and the rest on the line
  (`InTransit`); the answer is, likewise (`AnswerOnWay`); or nothing is, and what the
  reading thread has told is the answer (`Still`). `Travels` says that what has been read
  and what is on the line make the frame, for a frame of any length, so that reading a
  byte keeps it. That a built frame passes the receiver's checksum for
  any data is part of it. Any fault ends `inStep`, and only a command that finds the
  line quiet begins it again.
* `RepliesHandedOverOnce`: as long as nothing is lost, changed, refused, cut short or
  started anew, the two threads hand every buffer over, although they share no lock.
  There is no hypothesis on what the other program or the line does: that replies come
  one at a time follows from `SoundInv`. `HandInv` says that the buffers in use are exactly
  those of the reading thread, the mailbox and the caller, each another one
  (`OwnedApart`), and where the threads are when they have one (`ThreadsAgree`).

After a fault the hand-over cannot be proved for all commands, as it does not hold for
all: section 8 has one that a lost byte turns into two. For the commands and
faults of the run TLC checks it. The liveness half of `CommandsAreAnswered` stays with TLC too.

## 7. Composition

`TccStockTx` implements `TccStock`; `Tcc` uses `TccStock` and `TccOrders` by
EXTENDS, its actions conjoin one call of a participant with the step of the
thread; `Tcc` implements `AtomicPurchase`. `Saga` extends `SagaStore` and
implements `SagaPattern`. `ConfigTree` and `ConfigGrammar` extend `ConfigHeap`;
`ConfigRoundTrip` extends the parser and adds the writer and the program.
`ConfigScan` leaves the parser open (any token may be its last), `ConfigGrammar`
leaves the scanner open (any token may come next): each is checked against every
behaviour of the other. `CJsonClient` extends `CJson`, `SerLink` extends
`SerFrame`. The `MC*` modules hold the constants of the runs.

## 8. Disagreements between code and comments

With a run that shows them:

* `T/service/OrderService.java:86` (`orders_cancel_first`): with no order to
  cancel, a canceled one is inserted and the method returns true without
  `commit()`; `close()` rolls it back, and a try that comes later opens the order.
  The stock service does commit in the case its comment calls "cancel reaches
  before try" (`T/service/ItemStockService.java:117`). In `placeOrder` the order of
  calls hides it. `G/service/OrderService.java:66` has the same line.
* `L/libconfig.c:706` (`config_missing_file`): for a file that cannot be opened,
  `config_read_file` calls `fclose(NULL)`, which ends the program before the error
  is set; `L/main.c:16` relies on the return.
* `U/ser_cmd.c:223` (`uart_sn`): the comment says "check sn, and tell send"; no
  code compares the sn. After a restart the answer to an old command is taken for
  that of a new one.

Without a run:

* `presentations/dtp-in-action/dtp-saga/item_db__local3307.sql` calls the states of a saga "init, succeed,
  canceled"; the code writes FINISHED for the second.
* `config_setting_add` puts an element of any type into an array, although the
  comment at `L/libconfig.c:527` says that an array's first element determines the
  type; hence the exception in `OnlyAddMixesArrays`. Such a tree is written, and
  refused when it is read (`ComesBack`).
* libconfig writes an infinite or undefined float as `inf.0` or `nan.0`, which it
  cannot read; an include of a directory ends the program in flex's fatal error.
* Looking up the name NULL in a group that has named members compares through NULL
  (`L/libconfig.c:133-156`, from `config_setting_add` with no name for a second member);
  the program of `ConfigTree` does not do it (`NameComparable`).
* cJSON: `cJSON_ReplaceItemInObject` overwrites the name of the new item
  without freeing it (`cJSON/cJSON.c:535`; `overwritten` in the model); a failed
  `cJSON_strdup` goes unnoticed and leaves a member without a name, or a string that
  prints as nothing; the error pointer is not set for want of memory, against the
  comment at 272; a string that the text ends in is accepted.
* Serial protocol: the README offers the command 0x00, "discover", but 0 is also
  the end of the table of handlers, so that the last entry's missing function is
  called (`U/ser_cmd.c:69-82`); after `@`, a byte other than `>` is dropped even when
  it is an `@`, so that the frame of `@@>` is missed (178); the length is one byte,
  so that longer data wrap around (88); the timeout of `ser_hal_rcvreply` is not
  used; an echo whose data hold two whole commands gets two replies when the head of its
  frame is lost (the receiver finds the two in the data), and the second reply loses or
  overwrites the first one's buffer, which breaks `RepliesHandedOver` with one lost byte
  and one command; after a restart, a late reply on top of another loses a reply buffer or frees
  one that is still read.

Behaviour the models show and a reader of the code may not expect: a saga for an
item that does not exist keeps its order NORMAL and its status INIT for ever,
because `cancelDeductStock` refuses a missing item as `deductStock` did; in the
TCC demo such a purchase is abandoned before anything is tried.

## 9. Checks of the checks

Every property is also checked against a version of the code with one plausible
bug (the operators commented "Mutant"): its run must then find it violated. The
state spaces are finite and explored completely; the bounds are constants named in
the modules. Systems that may stop have `CHECK_DEADLOCK FALSE` in their run: loops
and threads that wait for work, a program that has crashed, a read that is over.

Type invariants: `Tcc`, `TccStockTx` and `Saga` have theirs in the proved `IInv`,
`ConfigScan` in the proved `HeldInv`, `ConfigTree` in `TreeIntact`, which is proved
as well.

What is proved and what is only model-checked is said at the end of each section.
Two kinds of property stay with TLC throughout: liveness, and what recursive operators
over texts and trees compute (the tables of the parser and of the scanning engine,
cJSON's parser and printer). Where a recursion is needed by a proof (`Pow2`, `PathTo`,
`Lookup`, `Lex`) it is a recursive function, and its equation is proved before it is used.

## 10. Not modelled, and why

* Conversions between numbers and their digits (`strtod`, `printf`) in libconfig and
  cJSON: values are symbols; only the forms in which numbers are printed matter and
  are in `FlexBuffer`. Indentation and layout of what is printed.
  `L/strbuf.c` (a growing string), `L/main.c` (prints), `cJSON_Minify`,
  `cJSON_InitHooks`, the thin wrappers around cJSON.
* `java/jvmgo/ch05`: an exercise that interprets straight-line byte code; its
  instructions are one assignment each, and it has no concurrency, failure or
  state over time beyond the operand stack.
* `java/sharding-test`: two hash functions and configuration of a library; the
  strategy keeps no state.
* `linux/linux_kernel_list`: a copy of the kernel's `list.h` with a short user.
  `php` doubly linked list: a few lines of the same.
* `linux/posix_semaphore`, `linux/domain_socket`, `linux/daemonize`,
  `linux/netlink_socket`, kernel-module skeletons, `presentations/httpclient-example`,
  the k8s shutdown demo: one sequence of library calls each, whose interleavings are
  those of the library or the kernel.
* `presentations/dtp-in-action/dtp-xa`: console transcripts, no program.
* Generated code (protobuf) and user interfaces (Qt, C#, electron), logging
  configuration, libcurl, sqlite3, getopt, Lua, tty copy.
* Of the transaction demos, connection strings, time stamps, logging and the value
  classes' accessors; JDBC connections are not counted, so that the connection
  `G/service/SagaLogService.java:29` never closes does not run out here.

## 11. Running

    tlc -workers 2 -config MCTcc.cfg MCTcc.tla        # likewise the other .cfg files
    tlapm TccStockTxProofs.tla                        # likewise the other *Proofs.tla

The proofs need no pragma beyond SMT, Z3, Zenon and PTL. Each run takes at most
three minutes, each proof module at most four.
