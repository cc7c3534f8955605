# TLA+ specifications of the poker backend

The repository is an account server for a poker game: a TCP server that registers, logs in
and unregisters users kept in a PostgreSQL table, with a command line client and two
end-to-end tests. There is no game yet (`include/player.h` is empty). These modules specify
the server, its protocol and the client; TLC checks them on small instances and TLAPS proves
the most important results for all values of the constants.

## 1. The system

| Part | Source | State | Operations |
|---|---|---|---|
| account handlers | `src/net/mes_handler/*.cpp`, `include/net/mes_handler.h`, `include/db/table_user.hpp` | locals of the handler that runs (`req`, `id_val`, `rsp`) | `handle`, `handle_reg_request_`, `handle_login_request_`, `handle_unreg_request_` |
| users | `src/server.cpp`, `src/user.cpp` | `server::users_`, one `user` per id, each with its connection | `add_user`; `get_user` and `users` read and have no caller |
| database | `src/db/database_worker.cpp`, PostgreSQL | the table `users` | `read_cfg_from`, `connect`; the handlers' `select`, `insert`, `delete` |
| TCP server | `src/net/tcp_server.cpp` | the outstanding accept | `start_accept`, `handle_accept` |
| connection | `src/net/tcp_connection.cpp` | `read_msg_`, `write_msgs_`, the outstanding read and write | `start`, `deliver`, the completions of `do_read_header_`, `do_read_body_`, `do_write_` |
| dispatch | `src/net/mes_handler/mes_handler.cpp` | `participants_` | `add_connection`, `del_connection`, `handle` |
| framing | `include/net/message.hpp` | `data_`, `body_length_` | `encode_header`, `decode_header`, `operator=` |
| api, JSON | `components/api`, `include/json_obj.h` | none | `to_json`, `from_json`; `parse`, `value`, `value_as` |
| server program | `main.cpp` | the process, what is connected to what | configuration, database, listening, wiring, `io_context.run()`, end |
| client | `components/client` | `write_msgs_`, `read_messages_`, the outstanding operations | `write`, `close`, `read_wait` on the caller's thread, completions on the io thread |
| client program | `client/main.cpp` | the line it is at | commands, raw lines, `join` |
| tests | `tests/` | one port, one table | `test_runner` starts the server, sleeps, runs a client, ends the server |
| small parts | `components/property.hpp`, `components/log.hpp`, `include/tracy_include.h`, `include/player.h` | none that matters | accessors, log output, profiling |

How they interact. A connection is accepted, gets a `connect_response`, becomes a participant
and starts its read chain: header, body, `mes_handler::handle`, header again. `handle` runs on
the server's only thread, sends its SQL statements synchronously and ends by queueing a reply on
the connection, whose write chain sends the queue one message at a time. A login puts a `user`
that holds the connection into `users_`. The client posts its writes to a thread of its own and
takes replies from a queue that thread fills.

What is hard:

- statements of a handler are separate and outside a transaction; the process may die between
  any two (an uncaught exception ends it) and another process may use the same table;
- completions of accepts, reads, writes and handlers of many connections interleave, with one
  queue per connection whose emptiness alone says if a write is under way;
- peers pipeline requests, do not read, send what cannot be decoded, close at any time;
- keys are reused: a `user_id` is `max + 1` and free again after an unregistration;
- messages arrive in pieces; lengths pass through four characters, an `int` and a `size_t`;
- the client's two threads and the server race, and it has to end, with lines still queued;
- the text of a message says by its member `type` how to read it, and may lack members, have
  them twice, in any order or of another type;
- a server listens before it is wired, and what starts it waits for nothing but a sleep.

What makes each part correct: section 3 names the properties. `PROJECT.json` lists the hazards
at their lines with the properties that cover them.

## 2. Modules

| Module | What it is |
|---|---|
| `AccountService` | abstract: a map from addresses to accounts, calls that take effect at one instant and are answered |
| `Accounts` | the three handlers, one action per SQL statement; the table, `users_`, several processes, death and restart |
| `Session` | abstract: what the server promises to one peer |
| `PokerServer` | the process: accept, read and write chains, dispatch, peers; `EXTENDS Accounts` and takes its handlers step by step; implements a `Session` for each connection |
| `Message` | header and lengths of `message.hpp` as operators |
| `MessageHeader` | every length and every header over an alphabet, against a second definition |
| `Channel` | abstract: one direction of a connection as a queue of whole messages |
| `MessageStream` | messages on a TCP stream, found again from pieces; implements a `Channel` |
| `Api` | the objects of the protocol as JSON texts: writing, look-up, reading, dispatch; `EXTENDS Message` |
| `Client` | `class client` on the io thread and `client/main.cpp` on the main thread, with a `Session` as its server |
| `TestRunner` | `ctest`, `test_runner`, the server's `main()` and the clients as processes on one port |
| `TestScenarios` | `register_test` and `login_test` as `test_runner` runs them, on the handlers of `Accounts` |
| `AccountsProofs`, `PokerServerProofs`, `MessageHeaderProofs`, `MessageProofs`, `ApiProofs`, `ClientProofs`, `TestRunnerProofs`, `TestScenariosProofs` | theorems |
| `MC*` | sets and symmetry for TLC |

### Accounts

`rows` is the table: a set of rows, so that nothing but the code keeps an address or an id
unique (the repository has no DDL, and no constraint is assumed). A row has two fields no query
reads: `ctid`, its identity, and `by`, the process that inserted it. `pc[s]` is the statement
the handler of process `s` is at: `handle` starts it at `select`; `reg_select`, `reg_max`,
`reg_insert`, `login_select`, `unreg_select` and `unreg_remove` are the statements with the
branches that follow them; `reply` is the `deliver()` at the end. A `select` reads at one
instant; the order of the rows it gives is free, so `unreg_select` picks any first row and
`login_select` any row with the password. `max` of an empty table is NULL, which the connector
reads as 0. `add_user` overwrites. `terminate` (any end of the process: signal, statement that
throws, malformed body) keeps `rows` and drops all else; `main` starts again. SHA-512 is an
injection of the password and the salt; the client's own hash is part of what `Password`
stands for. The column `coins` is never used and left out, and so is the text of replies.

### PokerServer

One `Conn` is a connection with both its ends. `reading[c]` is what the read chain waits for:
`header`, `body`, the end of a `handler`, or nothing: `none`, or `undecodable` after
`decode_header()` failed. `write_msgs[c]` is the queue, `writes[c]` the number of `async_write`s
outstanding (a number, not a flag, so that two are possible). `Dispatching` says that the thread
is between two completions: while a handler is between two statements no completion runs.
`read_body_request` is `handle()` up to the first statement, `statement` one statement of
`Accounts`, `handler_returns` the reply and the next `do_read_header_()`. A malformed body is
one that makes `json::parse` or `value_as` throw. An accept that fails either was for a connection
that was aborted (`Aborted`) or found no descriptor, and then leaves the connection in the backlog
for the next accept. The peers connect, send frames (good, unknown,
malformed, undecodable) without waiting, read or not, and close, possibly losing the last frames,
of which the first bytes may still have come (`CutOff`).

### Session

What one peer can rely on, with no chains, handlers or other connections in it: it is greeted
once, its frames are dealt with in order, each request with one reply, the replies come in
that order, a header that does not decode makes the server deaf, and the session may end at any
time. The refinement at the end of `PokerServer` maps each connection to a session: `frames` is
`inbox`, `due` is `write_msgs`, `delivered` is `outbox`, all empty once the peer has gone.
`RepliesInOrder` is the safety part of that refinement, `Answered` its fairness. `Client` takes
its server's steps from the same module, so what it is shown to work with is what `PokerServer`
is shown to give.

### Message, MessageHeader, MessageStream, Channel

`encode_header` is `sprintf("%4d")`, `decode_header` is `atoi` and the comparison as `size_t`,
where a negative number is huge; `Blank` is what `atoi` skips (`isspace`). Texts longer than
`max_body_length` are not modelled: `operator=` copies all of them into the array whatever the
length it announced, which is undefined behaviour; the server's own messages are all shorter
(`RepliesFit` of `Api`). The `wstring` overload has no caller. In `MessageStream` the network
delivers any number of characters at a time and an `async_read` completes when all it asked for
are there. `Channel` is what comes of it: texts are sent and received whole. A text is sent at
its write and received when its body has been read, so `queue` is the part of `sent` behind the
first `Len(received)`. `PokerServer`, `Session` and `Client` have connections that carry whole
messages for that reason.

### Api

A text is the sequence of the members of a JSON object, each a name and a value of a kind. A
value is a record with its kind as the one field, so that reading it as another kind finds
nothing. `to_json` writes `type` first and then the members of the object in the order of
`api.cpp`. `Named` is rapidjson's look-up, which takes the first member of a name; `value_as`
yields the value if the member is there and of the right kind, and otherwise nothing, which
stands for the exception; `from_json` reads all members of a type or throws. `handle` is the
dispatch of `mes_handler.cpp` up to the request its handler reads, `accepts` the comparisons in
the steps of the tests. The variables are an object that is sent and a text up to `MaxEdits`
edits away from what `to_json` writes of it: members swapped, put before, put behind or dropped,
as users can type at the client. `same` says if the edits kept the members of the object.
`json_length` counts the characters of the layout of `PrettyWriter`. The strings of the replies
are literals of the code (`ReplyWord`); `ReplyWordsAreShort` assumes of them that each has at
most 64 characters, which TLC evaluates, for to the provers a string has no parts to count.

### Client

`posted` is the io_context's queue of functions (`write` and `close` post there), `socket`,
`reading`, `writing`, `write_msgs` belong to the io thread, `read_messages` is the queue between
the threads. A write is `started`, `sent` when the socket has taken it, and over when its
completion runs: in between, the reply may already have been read and the next line posted.
Operations begun on a closed socket are `dead` and fail. A message is the number of its line.
Four variables are there for the properties: `unread`, the replies asked for and not read;
`commands`, the lines that were commands; `requests`, the lines sent as they are that the server
replies to; `handled`, the last line the server dealt with.

### TestRunner

One action per call of `test_runner.cpp` that starts, waits for or ends a process, and per call
of the server's `main()` up to `run()` that can throw or that changes what a client meets:
`read_cfg_from` and `connect` (which return or throw), the constructor of `tcp_server` (whose
acceptor listens, or throws because another does; `make_handler` is its last line),
`connect_db_worker`, `set_server` and `io_context_run`. `mes_handler` holds the members set so
far: between these calls the server is partly wired and clients already connect. A client
connects to whoever listens and is refused for good when no one does. The sleep of 500 ms is a
step that may be taken at any moment, so that both too short and long enough a sleep occur. A
runner may be interrupted with its children, or killed alone.

### TestScenarios

A test is a sequence of steps, each a request and the one code it accepts. The test's client is
one connection of `Accounts`, which it drives through `handle` and `reply`; another connection
sends any request for other addresses between any two statements. A wrong code ends the test
(`failed`). The runner ends the server after each test; the server may also end under a test
(`cut`), whose client would wait for ever.

## 3. What the runs show

| Run | Bounds | Distinct states | Properties |
|---|---|---|---|
| `accounts_two` | 2 processes, 2 addresses, 1 password, 1 connection, 2 INSERTs | 214,353 | `AccTypeOK`, `OneRowPerEmailPerServer`, `OneRowPerIdPerServer`, `RegistersAfresh` |
| `accounts_one` | 1 process, 2 addresses, 2 passwords, 2 connections, 3 INSERTs | 41,880 | `AnswersHold`, `OnlyOwnerRemoves`, `NoOneEvicted`, `ImplementsService` |
| `server_replies` | 2 connections, 3 frames, a socket that holds 1 reply | 500,300 | `TypeOK`, `WriteChain`, `HandlerOfReader`, `PeersAreServed`, `ChainsGoOn`, `RepliesInOrder` |
| `server_answers` | the same with 2 frames, fair | 81,031 | `Answered`, `Reclaimed` |
| `message_header` | all 2045 lengths; all 6561 headers over 9 characters | 8,606 | `LengthsSurvive`, `RefusedOrFits` |
| `message_stream` | 3 texts out of 4, two of which look like headers | 5,297 | `ReadAsSent`, `NeverStarves`, `AllRead`, `IsChannel` |
| `api_texts` | all objects over 2 words, 2 edits | 79,369 | `ReadAsSent`, `NothingInvented`, `RepliesAreToldApart`, `RepliesFit` |
| `client_lines` | 4 lines, each a command or raw, with or without a reply | 112,760 | `WriteUnderWay`, `RepliesPairUp`, `LostCommandsHadReplies`, `NoWaitInVain`, `LinesInOrder`, `ReadWaitReturns`, `Joins` |
| `test_runner` | 3 tests | 379,241 | `OwnServer`, `ServedWhenWired`, `NoWaitInVain`, `TestEnds` |
| `test_scenarios` | 2 tests, 2 addresses, 2 passwords, 4 INSERTs | 45,505 | `TestsPass`, `LeavesNothing` |

`accounts_two` asks what the handlers guarantee when processes share a table: each process alone
keeps addresses and ids unique among the rows it inserted, although look-up, `max` and INSERT are
three statements. Two processes can enter the same address or id each. Two of each suffice: the
properties relate two rows and one process to another. `accounts_one` is the deployment the
repository runs (`tests/test_runner.cpp`): with one process the table as a whole is a map from
addresses to accounts and every handler is atomic (`ImplementsService`), whatever statement the
process dies at. `AnswersHold` says what each code promises of the table when the reply is sent:
`NAME_TAKEN` that there is a row of the address, `PASS_INCORRECT` that none has the password,
`OK` that the row, or the user, is there or gone. Three INSERTs let an id be given, freed and
given again while the first user is still in `users_`, which is what `NoOneEvicted` is about; two
passwords let a wrong one be used. The abstract ids are bounded by the INSERTs.

`server_replies` needs two connections because completions of one run between those of the other,
and three frames so that one can wait behind one in a handler and one that is bad. A socket that
holds one reply makes the queue grow behind a peer that does not read. `ChainsGoOn` says that
an accept is always outstanding and that no participant is without a read that would tell of its
end, other than one whose header did not decode. The queues
have no bound of their own; `MaxSends` bounds them. `MaxSends <= MaxInserts` makes sure that
no request is refused for the bound on INSERTs.

`message_header` checks the lengths completely. Its alphabet has one character of each kind
`atoi` tells apart (space and tab are both blanks) and the digits of 2044, 2045 and their
neighbours. `message_stream` has the empty text and texts of digits and spaces, which would be
taken for headers were a boundary lost. `NeverStarves` is the state of which `AllRead` is the
outcome: an `async_read` for more characters than anyone sends would wait for ever with the text
in its buffer. `client_lines` has four lines so that one can be posted while the write of another
completes, a third waits behind, and close() finds lines in the queue after a command was
answered. `LinesInOrder` and `LostCommandsHadReplies` say what the end of the input costs: never
a line before one that arrives, and a command only in one way. `read_wait` takes whichever reply
comes first, so that the reply of a raw request that was handled lets the main thread go on from
a later command; `close()` may then be posted before that command is sent. Such a raw request
pays for at most one command, and without one no command is lost. `NoWaitInVain` looks at each
state in which the main thread waits, for a reply or for the io thread: who could end the wait is
named and ready, unless the connection is lost.

`api_texts` has two edits: enough to put a second member of a name before or behind the first, to
move a member past another, or to drop one and add another in its place. One of the two words is
the name of a type, which a look-up by value instead of by name would take for one.
`RepliesAreToldApart` is what the tests rely on when they compare the type before the code.
`test_runner` has three tests so that one can be between one that left a server and one that has
to be clear of it. Clients connect while `main()` still has calls to make, and none is served
until all members are set (`ServedWhenWired`). Only a killed runner leaves anything
(`OwnServer`); every test ends unless its client was refused, the sleep having been too short, or
lost its server (`TestEnds`); nobody ends a server whose client is still waited for
(`NoWaitInVain`).

The type invariants of `Client` and `TestRunner` are proved (`ClientTypeCorrect`, `RunnerTypes`) and
in no run.

`test_scenarios` runs two tests, so that the second meets what the first left; four INSERTs leave
two for the other client. The tests' assertions hold in every interleaving; a run that was cut
off after its registration makes the next one fail.

Five runs do not check for deadlock: `message_header` ends with the last length,
`message_stream` with the last text, `api_texts` with the last edit and `test_runner` with the last
test. The client ends, or waits for ever in
`read_wait` when its connection is lost: that is how the code is (`ReadWaitReturns` states the
exception).

### Bounds, by name

`MaxInserts` (no registration starts after so many INSERTs), `MaxSends` (frames of all peers),
`SockBuf` (replies the socket holds; part of the environment), `MaxTexts`, `MaxLines`, `MaxEdits`,
`MaxTests` (tests of a run, in `TestScenarios` and in `TestRunner`).

### Fairness

- `AccFairSpec`: the thread of a process runs the statements and the reply of the handler it has
  begun: it is synchronous code. Not assumed: that requests come, that a process restarts.
- `PokerServer!Fairness`: the handler runs, and `io_context.run()` gets to every completion that
  stays ready (its queue is first in, first out, and epoll reports each ready socket). Accepts,
  reads and writes of each connection have a condition of their own for that reason. For accepts
  it assumes that a descriptor is found in the end. Nothing is
  assumed of peers: `Answered` and `Reclaimed` have the peer that does not read, and the
  header that does not decode, as their exceptions.
- `MessageStream!Spec`: the network delivers what is on its way; the receiver completes its reads.
- `Client!Fairness`: both threads run, and the kinds of work of the io thread each get their
  turn. That the server answers is assumed by `ReadWaitReturns` only: its antecedent is the
  fairness of `Session`, which `Answered` shows of the server.
- `TestRunner!Fairness`: every process runs; nothing says which is faster, so the sleep may be
  too short. That nobody interrupts or kills, and that no statement throws, is not assumed.

## 4. What is proved

All proofs are for any finite or infinite sets of processes, connections, addresses, names,
passwords, characters and texts and any bounds, from the named assumptions on the constants alone
(and `ReplyWordsAreShort`, an assumption on literals of the code).

| Theorem | For all |
|---|---|
| `AccountsProofs`, first part | addresses, passwords, connections, numbers of processes on the table |
| `AccountsProofs`, second part | the same with one process |
| `PokerServerProofs` | the same, with any peers, frames, kills and socket buffer |
| `MessageHeaderProofs` | alphabets of the headers of others |
| `MessageProofs` | texts no longer than a body, numbers of them, pieces |
| `ClientProofs` | numbers of lines |
| `TestRunnerProofs`, `TestScenariosProofs` | numbers of tests; other clients |
| `ApiProofs` | words, numbers of edits |

Liveness is out of reach of the proof system, but what makes it fail in a program like this is
seldom an unfair scheduler: it is a state in which everyone waits for something that no one is
about to do. All but one of the liveness properties have such a safety half, an invariant that TLC
checks as well and that is proved for all constants:

| Liveness, by TLC | Safety half, proved |
|---|---|
| `AllRead` of `MessageStream` | `ReaderNeverStarves` |
| `Answered`, `Reclaimed` of `PokerServer` | `ServerChainsGoOn`, with `WritesAreChained` and `OpenPeersAreServed` |
| `ReadWaitReturns`, `Joins` of `Client` | `MainNeverWaitsInVain` |
| `TestEnds` of `TestRunner` | `RunnersWaitForSomeone` |
| fairness of `ImplementsService` | none |

**AccountsProofs.** `AccTypeCorrect`, `EmailOncePerServer`, `IdOncePerServer`,
`RegistrationStaysFresh`. That two rows of one process differ is not inductive: at the INSERT
nothing in it says what was looked up two statements earlier. `RegistersAfresh` is the
strengthening: between look-up and INSERT the process has no row of the address of its own, and
between `max` and INSERT none with an id as high. It is stable because the process itself is in that
handler and others insert only rows with their own `by`.

The second part is about one process on the table (`OneServer`). `OwnerRemovesOnly`: what
`unreg_select` found of one row holds of all rows of the address at `unreg_remove`, since there
is one row per address and no one else writes. `NoExistingUserEvicted`: the lemma `SoloInvariant`
carries that every user in `users_` whose account is in the table has its id, which ids being
unique turns into "the one overwritten is the same account or a gone one". `AnswersAreTrue`: an
answer found out at a `select` is about rows that no one has written since, so it still holds at
the `deliver()`; what makes it true after the INSERT or DELETE is that the row found or looked
for in vain is the only one of its address. `ImplementsAccountService`: initial states map to
initial states and each step to the abstract call, effect, return, crash or a stutter under the
mapping at the end of `Accounts` (the account of an address is its row, the effect is at the
statement that settles the answer). The fairness part of `ImplementsService` is TLC's.

**PokerServerProofs.** Each step of the server is one of the account handlers or leaves their
state alone, which is how the module is built (lemma `AccountsInside`), so all of the above holds
of the server. Being the one process on its table, it is the abstract account service to all its
peers together (`ServerIsAccountService`), keeps one row per address and gives true answers
(`ServerAnswersAreTrue`). `TypeCorrect`, `WritesAreChained`, `HandlersHaveReaders`,
`OpenPeersAreServed` come from an inductive invariant, `NetInv`: their conjunction and
`BacklogFresh`, that a connection not yet accepted has an empty queue and no read chain, without
which `deliver()` in `handle_accept` could be thought to join a write under way.
`ServerChainsGoOn` is inductive beside it: whatever ends a read chain takes the connection out of
`participants_` in the same completion, and each accept, failed or not, begins the next.

`ServerKeepsSessions`: `Spec => RepliesInOrder`. Each step of the process is,
for each connection, a step of its session or leaves it alone. The lemma `Elsewhere` deals with
the steps of other connections, the rest goes by action. `NetInv` is needed where a session's
`Answer` takes the head of `inbox`: that a handler runs for `c` only while `reading[c]` is
`"handler"`, and that the head is the request it was started with.

**ClientProofs.** `ClientTypeCorrect`, `ClientWritesAreChained`, from `ClientInv`: each needs the
other, since a completion takes the first message of a queue that only the chain shows not empty.
`LinesArriveInOrder` and `CommandsLostHadReplies`, from `LinesAreNumbered`. Neither property is
inductive, for a line is in one of four queues before it is handled. `Numbered` says that the queues
put behind each other hold consecutive numbers as long as the connection is there. `Balance` counts:
each reply that was taken, is queued or is on its way was to the greeting or to a line that has been
handled, and the main thread took one for each command it does not wait for. So there are no more
commands behind it than lines that got a reply (`Replied`: commands and raw requests up to
`handled`), and taking the handled commands off both sides leaves the property (`BalanceBounds`).

`RepliesArePaired`: `Spec => []RepliesPairUp`. The property compares `read_messages` with `unread`,
and says nothing of a connection that is lost, so that a reply on the wire could be anyone's then.
`PairInv` adds what is still to come at that moment: as long as the server is there, what it has
to do with (`InFlight`: read, on the network, due, asked for by the lines it has not handled) is
a beginning of `unread`; after it is gone, what crossed the network is (`Arrived`). While the
connection is up the whole sequence of parts is `unread`, so that every step moves a boundary
between two parts and nothing else; `SessionPair` and `QuietPair` say so once for the steps that
move a reply and for those that touch none. The parts are sequences made of others by
`FlattenSeq`, whose values for a longer sequence follow by induction (`FlattenAppend`,
`FlattenHead`).

`MainNeverWaitsInVain`: with the connection up, `PairInv` has the whole of `unread` spread over the
queues, and a main thread in `read_wait` asked for something (`AwakeInv`); so the reply it waits for
lies in some queue (`ComingIsSomewhere`), and the invariants of the chains name the step that moves
it. For the join, `CloseIsDue` lasts from the end of the input to the closed socket.

The server in `Client` takes its steps from `Session`, and `ServerKeepsSessions` shows that the
server process implements one: the client is shown to work with what the server is shown to give.

**MessageHeaderProofs.** `HeadersAreRefusedOrFit`: a header, whatever its characters, has exactly
one split into blanks, a sign, digits and a rest, and `atoi` computes the number of that split
(`MeaningIsAtoi`), which `decode_header` refuses or takes. `LengthsAreKept`: the digits that
`sprintf` writes for a length have it as their value (`EncodedDecodes`); `MHInv` says that
`header` is that of `announced`.

**MessageProofs.** `StreamIsReadAsSent`: `ReadAsSent` compares only the texts, so `StreamInv`
says where each message that was sent lies in what has arrived and what is still on its way: a
function gives the position of each one's first character (`Placed`), and the characters there
are its header and its text. A read that completes moves all positions by what it took
(`TakePlaced`), a delivery moves characters from one sequence to the other without moving a
position (`ArrivePlaced`), a write puts a message behind the last (`WritePlaced`). When a header
was read, the next position is 4 characters back: so what is taken for a header is one.
`ReaderNeverStarves` needs no more: the next position says how many characters there are of the
message being read, and with nothing on its way all of them have arrived. `StreamIsAChannel`:
`Spec => IsChannel`. The completed read of a body is a `Receive` because `StreamInv` makes the
text taken the next one sent; a write is a `Send` of its text, and the delivery of characters and
the read of a header are stutters.

Induction. The induction theorems of the library cannot be used (they take an operator), so
`MessageHeaderProofs` and `ClientProofs` have the lemma `Least`, that a set of numbers that is
not empty has a least one: from the theorem on well-founded relations, for a set and not an
operator. What `Number`, `Meaning`, `FlattenSeq` and the sum in `json_length` compute is shown
with it, by the least number for which it is wrong.

**TestRunnerProofs.** `RunnerTypes`, `TestsHaveOwnServer`, `ServedByWiredServer`, for any number
of tests. `InTurn` says that a runner starts when the earlier ones are over, and that a server
lives only while its runner waits or after it was killed: so a port that is taken when a test
begins is taken by the server of a killed runner. `Connections` says how far a server got that a
client is connected to, `WiredSoFar` which members it has set at each call: together they make
the last call of the wiring the one before the first client is served. `RunnersWaitForSomeone`
adds `EndedBehind`: a server is ended only by a runner that waits no more, so no client that is
waited for is connected to one that was ended.

**TestScenariosProofs.** `TestsAlwaysPass`, `TestsLeaveNothing`, for any number of tests and of
other clients. What the table holds of the tests' address follows from the steps a test has left
(`Expected`): nothing before it registers and after it unregisters, rows with its password in
between. While a handler of the test runs, the answer it has settled on and the rows change in
the same statement, so what is left to deliver already goes with the steps after this one
(`AtStep`); the statements of other clients touch other rows.

**ApiProofs.** `TextsAreReadAsSent`, `TypesTellRepliesApart`, `RequestsComeFromTheText`, for any
words and any number of edits. `same` alone says nothing of the text: the invariant
`SameIsSame` says that the first member of each name the object has carries its value. One lemma per
edit shows that it stays first; that a text of `AnyMember` yields only what it has needs no more.
`RepliesAlwaysFit`: a text of at most three lines, each with at most two strings of at most 64
characters, is shorter than a body (`LineIsBounded`, `LengthIsBounded`), and its length comes
back from the header (`EncodedDecodes`).

Model-checked only: all liveness (`Answered`, `Reclaimed`, `AllRead`, `ReadWaitReturns`, `Joins`,
`TestEnds`, the fair part of `ImplementsService`), which the proof system does not reach. Every
invariant of the runs, and every other action property and refinement, is a theorem.

## 5. Observations

- A `user` stays in `users_` after its account is unregistered, under an id the next
  registration may get. Nothing reads `users_` yet; a later login with that id replaces the
  stale entry (`NoOneEvicted`), but until then a look-up by id would find the old user.
- A second login of an account replaces the first silently. The TODO at `mes_handler-login.cpp:37`
  says that this is still to be dealt with.
- One body that does not parse ends the process with all connections and logins; the accounts
  survive (`ImplementsService`).
- After a header that does not decode the connection stays a participant for ever.
- A raw line that is a request shifts the replies the client prints for later commands, and the
  last command of the input may then be dropped by `close()` before it is sent
  (`LostCommandsHadReplies`).
- A client whose connection fails, or is lost while it waits, never ends.

The TODO names the second login as unfinished; of the others no comment, test or document of the
repository says anything. None is promised to be otherwise, so they are recorded here and as
hazards, not as disagreements.

## 6. Not modelled, and why

The characters of JSON (rapidjson writes and parses them; `Api` starts from the members) and the
wording of errors; `connect_response::from_json` and the error code overloads as callers see them
(no caller); options, logging (`components/log.hpp` only hands on to spdlog), tracing, stack
traces, signal handlers' output (no state); `components/property.hpp` (get and set of one value);
`include/player.h` (empty); SQL errors as such (they end the process, which `terminate` covers at
every statement); the timed `read_wait`, `read_avail`, `read_if_avail`, `get_user` (no caller);
`tests/db_test_add` (parses a file; no test runs it); undefined behaviour for texts over 2044
characters; bodies that are JSON but no object (an assertion of rapidjson, or undefined without
it); the length of a sleep; build files and the connector's recipe.

## 7. Plan

1. *Done*: account service and handlers, server process, framing, client, test scenarios, and
   the first theorems; then the sessions of the server and the client on them, the start of the
   program, the runs of the tests, the texts of the api, and the theorems on each.
2. *Done*: proofs of `RepliesPairUp`, of the headers and of the stream; then of the answers, the
   length of replies, the refinement of the channel and the safety halves of liveness, so that
   every property of the runs that is not liveness is a theorem.
3. When the game comes: what `get_user` is for, and what a look-up of a user whose account is
   gone should answer.
