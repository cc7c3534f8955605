------------------------------ MODULE TestRunner ------------------------------
(***************************************************************************)
(* How the tests are run: ctest starts one test_runner after the other,    *)
(* all with port 9000.  A test_runner starts a server, sleeps for 500 ms,  *)
(* starts the client of its test, waits for its end and ends the server.   *)
(* Nothing else tells the client that the server listens.                  *)
(*                                                                         *)
(* The processes are modelled as far as they depend on each other: the     *)
(* server's main() up to io_context.run(), where it may throw, and the     *)
(* first connection of the client.  A sleep is a step that may be taken    *)
(* early or late.  What client and server say to each other is module      *)
(* TestScenarios.                                                          *)
(***************************************************************************)
EXTENDS Naturals

CONSTANT MaxTests     \* how many tests there are

ASSUME TestRunnerAssumption == MaxTests \in Nat

Test == 1 .. MaxTests
NoServer == 0

VARIABLES
    runner,       \* where the test_runner of a test is
    server,       \* where the server it started is
    mes_handler,  \* which members of that server's tcp_server and mes_handler are set
    port,         \* the server that listens on the port
    client,       \* where the client it started is
    peer          \* the server the client's connection was made to

vars == <<runner, server, mes_handler, port, client, peer>>

Wired == {"handler_", "db_wrkr_", "srv_"}

\* Where main() is, by the call it makes next, while its server listens and serves no one.
Wiring == {"make_handler", "connect_db_worker", "set_server", "io_context_run"}

RunnerTypeOK ==
    /\ runner \in [Test -> {"none", "sleep", "wait", "terminated", "passed", "failed", "killed"}]
    /\ server \in [Test -> {"none", "config", "connect", "bind", "run", "threw", "killed"} \cup Wiring]
    /\ mes_handler \in [Test -> SUBSET Wired]
    /\ port \in Test \cup {NoServer}
    /\ client \in [Test -> {"none", "connecting", "refused", "queued", "served", "ok", "error"}]
    /\ peer \in [Test -> Test \cup {NoServer}]
    /\ port # NoServer => server[port] \in Wiring \cup {"run"}

Init ==
    /\ runner = [k \in Test |-> "none"]
    /\ server = [k \in Test |-> "none"]
    /\ mes_handler = [k \in Test |-> {}]
    /\ port = NoServer
    /\ client = [k \in Test |-> "none"]
    /\ peer = [k \in Test |-> NoServer]

Over(k) == runner[k] \in {"passed", "failed", "killed"}
Alive(k) == server[k] \notin {"none", "threw", "killed"}

Runner(k, at) == runner' = [runner EXCEPT ![k] = at]
Server(k, at) == server' = [server EXCEPT ![k] = at]
Client(k, at) == client' = [client EXCEPT ![k] = at]

\* The process is gone, and its listening socket with it.
ServerEnds(k, how) ==
    /\ server' = IF Alive(k) THEN [server EXCEPT ![k] = how] ELSE server
    /\ port' = IF port = k THEN NoServer ELSE port
-----------------------------------------------------------------------------
(* ctest and test_runner.cpp.                                              *)

\* The next test: bp::child serv.
start(k) ==
    /\ runner[k] = "none" /\ \A j \in Test : j < k => Over(j)
    /\ Runner(k, "sleep")
    /\ Server(k, "config")
    /\ UNCHANGED <<mes_handler, port, client, peer>>

\* The sleep is over, however far the server is: bp::child cli.
start_cli(k) ==
    /\ runner[k] = "sleep"
    /\ Runner(k, "wait")
    /\ Client(k, "connecting")
    /\ UNCHANGED <<server, mes_handler, port, peer>>

\* Mutant: the exit code is checked before the server is ended, and the exception that no one
\* catches leaves it running.
cli_wait_checks(k) ==
    /\ runner[k] = "wait" /\ client[k] \in {"ok", "error"}
    /\ IF client[k] = "ok" THEN Runner(k, "terminated") /\ ServerEnds(k, "killed")
       ELSE Runner(k, "failed") /\ UNCHANGED <<server, port>>
    /\ UNCHANGED <<mes_handler, client, peer>>

\* Mutant: the server is ended before the client was waited for.
terminate_first(k) ==
    /\ runner[k] = "wait" /\ Alive(k)
    /\ Runner(k, "wait")
    /\ ServerEnds(k, "killed")
    /\ UNCHANGED <<mes_handler, client, peer>>

\* cli.wait() and serv.terminate(), which waits for the end of the process.
cli_wait(k) ==
    /\ runner[k] = "wait" /\ client[k] \in {"ok", "error"}
    /\ Runner(k, "terminated")
    /\ ServerEnds(k, "killed")
    /\ UNCHANGED <<mes_handler, client, peer>>

\* The exit code of the client is that of the test.
exit_code(k) ==
    /\ runner[k] = "terminated"
    /\ Runner(k, IF client[k] = "ok" THEN "passed" ELSE "failed")
    /\ UNCHANGED <<server, mes_handler, port, client, peer>>

\* The user interrupts a test: runner, server and client end together.
interrupt(k) ==
    /\ runner[k] \in {"sleep", "wait"}
    /\ Runner(k, "failed")
    /\ ServerEnds(k, "killed")
    /\ client' = IF client[k] = "none" THEN client ELSE [client EXCEPT ![k] = "error"]
    /\ UNCHANGED <<mes_handler, peer>>

\* Somebody kills the runner alone: what it started goes on.
kill_runner(k) ==
    /\ runner[k] \in {"sleep", "wait"}
    /\ Runner(k, "killed")
    /\ UNCHANGED <<server, mes_handler, port, client, peer>>
-----------------------------------------------------------------------------
(* main() of the server.                                                   *)

\* read_cfg_from() and database_worker::connect(), which throw or return.
read_cfg_from(k) ==
    /\ server[k] = "config"
    /\ Server(k, "connect") \/ Server(k, "threw")
    /\ UNCHANGED <<runner, mes_handler, port, client, peer>>

connect(k) ==
    /\ server[k] = "connect"
    /\ Server(k, "bind") \/ Server(k, "threw")
    /\ UNCHANGED <<runner, mes_handler, port, client, peer>>

\* The constructor of tcp_server: its acceptor_ listens, or throws when another does.
tcp_server(k) ==
    /\ server[k] = "bind"
    /\ \/ port = NoServer /\ port' = k /\ Server(k, "make_handler")
       \/ port # NoServer /\ Server(k, "threw") /\ UNCHANGED port
    /\ UNCHANGED <<runner, mes_handler, client, peer>>

\* main() is at one call and goes on to the next; the member is set.
Sets(k, at, member, next) ==
    /\ server[k] = at
    /\ mes_handler' = [mes_handler EXCEPT ![k] = @ \cup {member}]
    /\ Server(k, next)
    /\ UNCHANGED <<runner, port, client, peer>>

make_handler(k) == Sets(k, "make_handler", "handler_", "connect_db_worker")

connect_db_worker(k) == Sets(k, "connect_db_worker", "db_wrkr_", "set_server")

set_server(k) == Sets(k, "set_server", "srv_", "io_context_run")

\* Mutant: the event loop runs before set_server(), as if moved up a line.
io_context_run_early(k) ==
    /\ server[k] \in {"set_server", "io_context_run"}
    /\ Server(k, "run")
    /\ UNCHANGED <<runner, mes_handler, port, client, peer>>

io_context_run(k) ==
    /\ server[k] = "io_context_run"
    /\ Server(k, "run")
    /\ UNCHANGED <<runner, mes_handler, port, client, peer>>

\* The client is accepted; the handler gets its connection.
handle_accept(k) ==
    /\ client[k] = "queued" /\ server[peer[k]] = "run"
    /\ Client(k, "served")
    /\ UNCHANGED <<runner, server, mes_handler, port, peer>>

\* A statement of a handler throws.
statement_throws(k) ==
    /\ server[k] = "run" /\ \E j \in Test : client[j] = "served" /\ peer[j] = k
    /\ ServerEnds(k, "threw")
    /\ UNCHANGED <<runner, mes_handler, client, peer>>
-----------------------------------------------------------------------------
(* The client of a test.                                                   *)

\* The system connects it to who listens; when no one does it is refused, for good.
do_connect_(k) ==
    /\ client[k] = "connecting"
    /\ IF port = NoServer
       THEN Client(k, "refused") /\ UNCHANGED peer
       ELSE Client(k, "queued") /\ peer' = [peer EXCEPT ![k] = port]
    /\ UNCHANGED <<runner, server, mes_handler, port>>

\* All replies were right, or one was not and an exception ends the client.
client_main(k) ==
    /\ client[k] = "served" /\ server[peer[k]] = "run"
    /\ Client(k, "ok") \/ Client(k, "error")
    /\ UNCHANGED <<runner, server, mes_handler, port, peer>>
-----------------------------------------------------------------------------
RunnerStep(k) == start(k) \/ start_cli(k) \/ cli_wait(k) \/ exit_code(k)
ServerStep(k) ==
    \/ read_cfg_from(k) \/ connect(k) \/ tcp_server(k)
    \/ make_handler(k) \/ connect_db_worker(k) \/ set_server(k) \/ io_context_run(k)

ClientStep(k) == do_connect_(k) \/ handle_accept(k) \/ client_main(k)

Next ==
    \E k \in Test :
        \/ RunnerStep(k) \/ ServerStep(k) \/ ClientStep(k)
        \/ statement_throws(k) \/ interrupt(k) \/ kill_runner(k)

\* The processes run; nothing is assumed about which is faster.
Fairness ==
    \A k \in Test : WF_vars(RunnerStep(k)) /\ WF_vars(ServerStep(k)) /\ WF_vars(ClientStep(k))

Spec == Init /\ [][Next]_vars /\ Fairness
-----------------------------------------------------------------------------
\* A test is run against the server that was started for it: all servers have the same port,
\* so that one left by an earlier test makes the new one throw and takes its client.  Only a
\* runner that is killed leaves a server or a client behind; one that fails or is interrupted
\* does not.
OwnServer ==
    \A k \in Test :
        /\ peer[k] \in {NoServer, k} \/ "killed" \in {runner[k], runner[peer[k]]}
        /\ runner[k] = "passed" => peer[k] # NoServer

\* Clients connect from the moment the acceptor listens, while main() has four calls to make
\* before a connection can be handled; whoever is served has been connected to a server whose
\* connections have a handler with a database worker and a table of users.
ServedWhenWired ==
    \A k \in Test : client[k] = "served" => mes_handler[peer[k]] = Wired

\* A client that nothing will wake: the sleep was too short for its server, or the server it
\* is connected to threw.
Lost(k) == client[k] = "refused" \/ (peer[k] # NoServer /\ server[peer[k]] = "threw")

\* Nobody ends a server while a client of it is waited for: unless the client is lost, it is
\* done, or it can go on by itself or the server it is connected to can.
NoWaitInVain ==
    \A k \in Test : runner[k] = "wait" =>
        \/ Lost(k)
        \/ client[k] \in {"connecting", "ok", "error"}
        \/ client[k] = "queued" /\ server[peer[k]] \in Wiring \cup {"run"}
        \/ client[k] = "served" /\ server[peer[k]] = "run"

\* A test comes to its end, whatever its result and whatever the tests before it left, unless
\* its client is lost; then cli.wait() does not return.
TestEnds == \A k \in Test : runner[k] = "sleep" ~> (Over(k) \/ Lost(k))
=============================================================================
