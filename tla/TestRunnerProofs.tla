--------------------------- MODULE TestRunnerProofs ---------------------------
(***************************************************************************)
(* For any number of tests: which server a test is run against, that no    *)
(* client is served by a server that is not wired, and that no runner      *)
(* waits for a client whose server another one ended.                      *)
(***************************************************************************)
EXTENDS TestRunner, TLAPS

Begun(k) == server[k] \in Wiring \cup {"run", "threw", "killed"}

\* A test is started when the earlier ones are over, and a server lives only while its runner
\* watches it or when nobody does any more.
InTurn ==
    \A k \in Test :
        /\ runner[k] # "none" => \A j \in Test : j < k => Over(j)
        /\ runner[k] = "none" => server[k] = "none"
        /\ Alive(k) => runner[k] \in {"sleep", "wait", "killed"}
        /\ client[k] = "connecting" => runner[k] \in {"wait", "killed"}

\* A client that got beyond its connect is connected to a server that got as far as to
\* listen.
Connections ==
    \A k \in Test :
        /\ client[k] \in {"queued", "served", "ok"} => peer[k] # NoServer
        /\ peer[k] # NoServer => Begun(peer[k])

\* What main() has set when it is at one of its calls.
WiredSoFar ==
    \A k \in Test :
        /\ server[k] \in {"connect_db_worker", "set_server", "io_context_run", "run"} =>
              "handler_" \in mes_handler[k]
        /\ server[k] \in {"set_server", "io_context_run", "run"} => "db_wrkr_" \in mes_handler[k]
        /\ server[k] \in {"io_context_run", "run"} => "srv_" \in mes_handler[k]

IInv == RunnerTypeOK /\ InTurn /\ Connections /\ WiredSoFar /\ OwnServer /\ ServedWhenWired

LEMMA NoServerIsNone == NoServer \notin Test
  BY TestRunnerAssumption DEF NoServer, Test

LEMMA InitIInv == Init => IInv
  BY NoServerIsNone DEF Init, IInv, RunnerTypeOK, InTurn, Connections, WiredSoFar,
                        OwnServer, ServedWhenWired, Alive, Over, Wired, Wiring

\* The steps of the runner that start something.
LEMMA StartSteps ==
  ASSUME IInv, NEW k \in Test,
         start(k) \/ start_cli(k)
  PROVE  IInv'
<1> USE NoServerIsNone DEF IInv, RunnerTypeOK, Runner, Server, Client, Wiring
<1>1. CASE start(k)
  <2>1. RunnerTypeOK'
    BY <1>1 DEF InTurn, start
  <2>2. InTurn'
    BY <1>1 DEF InTurn, Over, Alive, start
  <2>3. Connections'
    BY <1>1 DEF InTurn, Connections, Begun, start
  <2>4. OwnServer'
    BY <1>1 DEF OwnServer, Connections, start
  <2>5. WiredSoFar' /\ ServedWhenWired'
    BY <1>1 DEF WiredSoFar, ServedWhenWired, Connections, Begun, start
  <2> QED
    BY <2>1, <2>2, <2>3, <2>4, <2>5
<1>2. CASE start_cli(k)
  <2>1. RunnerTypeOK'
    BY <1>2 DEF start_cli
  <2>2. InTurn'
    BY <1>2 DEF InTurn, Over, Alive, start_cli
  <2>3. Connections'
    BY <1>2 DEF InTurn, Connections, Begun, start_cli
  <2>4. OwnServer'
    BY <1>2 DEF OwnServer, Connections, start_cli
  <2>5. WiredSoFar' /\ ServedWhenWired'
    BY <1>2 DEF WiredSoFar, ServedWhenWired, Connections, Begun, start_cli
  <2> QED
    BY <2>1, <2>2, <2>3, <2>4, <2>5
<1> QED
  BY <1>1, <1>2

\* Those that end something, the user's among them.
LEMMA EndSteps ==
  ASSUME IInv, NEW k \in Test,
         cli_wait(k) \/ exit_code(k) \/ interrupt(k) \/ kill_runner(k)
  PROVE  IInv'
<1> USE NoServerIsNone DEF IInv, RunnerTypeOK, Runner, ServerEnds, Alive
<1>1. CASE cli_wait(k)
  <2>1. RunnerTypeOK'
    BY <1>1 DEF cli_wait
  <2>2. InTurn'
    BY <1>1 DEF InTurn, Over, Alive, cli_wait
  <2>3. Connections'
    BY <1>1 DEF InTurn, Connections, Begun, cli_wait
  <2>4. OwnServer'
    BY <1>1 DEF OwnServer, Connections, cli_wait
  <2>5. WiredSoFar' /\ ServedWhenWired'
    BY <1>1 DEF WiredSoFar, ServedWhenWired, Connections, Begun, cli_wait
  <2> QED
    BY <2>1, <2>2, <2>3, <2>4, <2>5
<1>2. CASE exit_code(k)
  <2>1. RunnerTypeOK'
    BY <1>2 DEF exit_code
  <2>2. InTurn'
    BY <1>2 DEF InTurn, Over, Alive, exit_code
  <2>3. Connections'
    BY <1>2 DEF InTurn, Connections, Begun, exit_code
  <2>4. OwnServer'
    BY <1>2 DEF OwnServer, Connections, exit_code
  <2>5. WiredSoFar' /\ ServedWhenWired'
    BY <1>2 DEF WiredSoFar, ServedWhenWired, Connections, Begun, exit_code
  <2> QED
    BY <2>1, <2>2, <2>3, <2>4, <2>5
<1>3. CASE interrupt(k)
  <2>1. RunnerTypeOK'
    BY <1>3 DEF interrupt
  <2>2. InTurn'
    BY <1>3 DEF InTurn, Over, Alive, interrupt
  <2>3. Connections'
    BY <1>3 DEF InTurn, Connections, Begun, interrupt
  <2>4. OwnServer'
    BY <1>3 DEF OwnServer, Connections, interrupt
  <2>5. WiredSoFar' /\ ServedWhenWired'
    BY <1>3 DEF WiredSoFar, ServedWhenWired, Connections, Begun, interrupt
  <2> QED
    BY <2>1, <2>2, <2>3, <2>4, <2>5
<1>4. CASE kill_runner(k)
  <2>1. RunnerTypeOK'
    BY <1>4 DEF kill_runner
  <2>2. InTurn'
    BY <1>4 DEF InTurn, Over, Alive, kill_runner
  <2>3. Connections'
    BY <1>4 DEF InTurn, Connections, Begun, kill_runner
  <2>4. OwnServer'
    BY <1>4 DEF OwnServer, Connections, kill_runner
  <2>5. WiredSoFar' /\ ServedWhenWired'
    BY <1>4 DEF WiredSoFar, ServedWhenWired, Connections, Begun, kill_runner
  <2> QED
    BY <2>1, <2>2, <2>3, <2>4, <2>5
<1> QED
  BY <1>1, <1>2, <1>3, <1>4

\* What main() does between listening and serving.
Wires(k) == make_handler(k) \/ connect_db_worker(k) \/ set_server(k) \/ io_context_run(k)

\* main() of a server, and its end.
LEMMA ServerSteps ==
  ASSUME IInv, NEW k \in Test,
         read_cfg_from(k) \/ connect(k) \/ tcp_server(k) \/ Wires(k) \/ statement_throws(k)
  PROVE  IInv'
<1> USE NoServerIsNone DEF IInv, RunnerTypeOK, Server, ServerEnds, Alive, Wired, Wiring
<1>1. CASE read_cfg_from(k)
  <2>1. RunnerTypeOK'
    BY <1>1 DEF read_cfg_from
  <2>2. InTurn'
    BY <1>1 DEF InTurn, Over, Alive, read_cfg_from
  <2>3. Connections'
    BY <1>1 DEF InTurn, Connections, Begun, read_cfg_from
  <2>4. OwnServer'
    BY <1>1 DEF OwnServer, Connections, read_cfg_from
  <2>5. WiredSoFar' /\ ServedWhenWired'
    BY <1>1 DEF WiredSoFar, ServedWhenWired, Connections, Begun, read_cfg_from
  <2> QED
    BY <2>1, <2>2, <2>3, <2>4, <2>5
<1>2. CASE connect(k)
  <2>1. RunnerTypeOK'
    BY <1>2 DEF connect
  <2>2. InTurn'
    BY <1>2 DEF InTurn, Over, Alive, connect
  <2>3. Connections'
    BY <1>2 DEF InTurn, Connections, Begun, connect
  <2>4. OwnServer'
    BY <1>2 DEF OwnServer, Connections, connect
  <2>5. WiredSoFar' /\ ServedWhenWired'
    BY <1>2 DEF WiredSoFar, ServedWhenWired, Connections, Begun, connect
  <2> QED
    BY <2>1, <2>2, <2>3, <2>4, <2>5
<1>3. CASE tcp_server(k)
  <2>1. RunnerTypeOK'
    BY <1>3 DEF tcp_server
  <2>2. InTurn'
    BY <1>3 DEF InTurn, Over, Alive, tcp_server
  <2>3. Connections'
    BY <1>3 DEF InTurn, Connections, Begun, tcp_server
  <2>4. OwnServer'
    BY <1>3 DEF OwnServer, Connections, tcp_server
  <2>5. WiredSoFar' /\ ServedWhenWired'
    BY <1>3 DEF WiredSoFar, ServedWhenWired, Connections, Begun, tcp_server
  <2> QED
    BY <2>1, <2>2, <2>3, <2>4, <2>5
<1>4. CASE Wires(k)
  <2> USE <1>4 DEF Wires, make_handler, connect_db_worker, set_server, io_context_run, Sets
  <2>1. RunnerTypeOK'
    OBVIOUS
  <2>2. InTurn'
    BY DEF InTurn, Over
  <2>3. Connections'
    BY DEF InTurn, Connections, Begun
  <2>4. OwnServer'
    BY DEF OwnServer, Connections
  <2>5. WiredSoFar' /\ ServedWhenWired'
    BY DEF WiredSoFar, ServedWhenWired, Connections, Begun
  <2> QED
    BY <2>1, <2>2, <2>3, <2>4, <2>5
<1>5. CASE statement_throws(k)
  <2>1. RunnerTypeOK'
    BY <1>5 DEF statement_throws
  <2>2. InTurn'
    BY <1>5 DEF InTurn, Over, Alive, statement_throws
  <2>3. Connections'
    BY <1>5 DEF InTurn, Connections, Begun, statement_throws
  <2>4. OwnServer'
    BY <1>5 DEF OwnServer, Connections, statement_throws
  <2>5. WiredSoFar' /\ ServedWhenWired'
    BY <1>5 DEF WiredSoFar, ServedWhenWired, Connections, Begun, statement_throws
  <2> QED
    BY <2>1, <2>2, <2>3, <2>4, <2>5
<1> QED
  BY <1>1, <1>2, <1>3, <1>4, <1>5

\* A client that connects: its runner and that of the server which listens are not both under
\* ctest's eyes unless they are one.
LEMMA ClientSteps ==
  ASSUME IInv, NEW k \in Test, ClientStep(k)
  PROVE  IInv'
<1> USE NoServerIsNone DEF IInv, RunnerTypeOK, Client, Wiring
<1>1. CASE do_connect_(k)
  <2>1. RunnerTypeOK'
    BY <1>1 DEF do_connect_
  <2>2. InTurn'
    BY <1>1 DEF InTurn, Over, Alive, do_connect_
  <2>3. Connections'
    BY <1>1 DEF Connections, Begun, do_connect_
  <2>4. ASSUME port # NoServer, port # k
        PROVE  "killed" \in {runner[k], runner[port]}
    <3>1. runner[k] \in {"wait", "killed"} /\ runner[port] \in {"sleep", "wait", "killed"}
      BY <1>1, <2>4 DEF InTurn, Alive, do_connect_
    <3>2. port < k \/ k < port
      BY <2>4, TestRunnerAssumption DEF Test
    <3> QED
      BY <2>4, <3>1, <3>2 DEF InTurn, Over
  <2>5. OwnServer'
    BY <1>1, <2>4 DEF OwnServer, do_connect_
  <2>6. WiredSoFar' /\ ServedWhenWired'
    BY <1>1 DEF WiredSoFar, ServedWhenWired, do_connect_
  <2> QED
    BY <2>1, <2>2, <2>3, <2>5, <2>6
<1>2. CASE handle_accept(k) \/ client_main(k)
  <2>1. RunnerTypeOK' /\ InTurn' /\ Connections'
    BY <1>2 DEF InTurn, Connections, Over, Alive, Begun, handle_accept, client_main
  <2>2. OwnServer'
    BY <1>2 DEF Connections, OwnServer, handle_accept, client_main
  <2>3. WiredSoFar' /\ ServedWhenWired'
    BY <1>2 DEF WiredSoFar, Connections, ServedWhenWired, Wired, handle_accept, client_main
  <2> QED
    BY <2>1, <2>2, <2>3
<1> QED
  BY <1>1, <1>2 DEF ClientStep

LEMMA NextIInv == IInv /\ [Next]_vars => IInv'
<1> SUFFICES ASSUME IInv, [Next]_vars PROVE IInv'
  OBVIOUS
<1>1. CASE UNCHANGED vars
  BY <1>1 DEF IInv, RunnerTypeOK, InTurn, Connections, WiredSoFar, OwnServer,
              ServedWhenWired, vars, Over, Alive, Begun
<1>2. CASE Next
  <2>1. PICK k \in Test :
            \/ RunnerStep(k) \/ ServerStep(k) \/ ClientStep(k)
            \/ statement_throws(k) \/ interrupt(k) \/ kill_runner(k)
    BY <1>2 DEF Next
  <2> QED
    BY <2>1, StartSteps, EndSteps, ServerSteps, ClientSteps DEF RunnerStep, ServerStep, Wires
<1> QED
  BY <1>1, <1>2

LEMMA IInvHolds == Spec => []IInv
  BY InitIInv, NextIInv, PTL DEF Spec

\* The values the variables have, and that only a process that runs listens.
THEOREM RunnerTypes == Spec => []RunnerTypeOK
  BY IInvHolds, PTL DEF IInv

\* However many tests there are, each is run against its own server: test_runner ends it
\* before it fails, so that only a killed one leaves the port to the next test.
THEOREM TestsHaveOwnServer == Spec => []OwnServer
  BY IInvHolds, PTL DEF IInv

\* No client is served before main() has set the database worker and the table of users.
THEOREM ServedByWiredServer == Spec => []ServedWhenWired
  BY IInvHolds, PTL DEF IInv

\* A server ends with its runner in "terminated" or "failed", or threw: so one that was ended
\* was not by a runner that still waits, and a client that was connected to it was not one
\* that a runner waits for.  Waiting also needs a client that was started.
EndedBehind ==
    \A k \in Test :
        /\ server[k] = "killed" => Over(k) \/ runner[k] = "terminated"
        /\ runner[k] \in {"none", "sleep"} => client[k] = "none"
        /\ runner[k] = "wait" => client[k] # "none"
        /\ runner[k] = "wait" /\ peer[k] # NoServer => server[peer[k]] # "killed"
        /\ client[k] \in {"none", "connecting", "refused"} => peer[k] = NoServer
        /\ client[k] = "served" => server[peer[k]] \notin Wiring

LEMMA EndedInit == Init => EndedBehind
  BY DEF Init, EndedBehind

LEMMA EndedStep ==
  ASSUME IInv, EndedBehind, [Next]_vars
  PROVE  EndedBehind'
<1> USE NoServerIsNone DEF IInv, RunnerTypeOK, Runner, Server, Client, ServerEnds, Alive, Wiring
<1>1. ASSUME NEW k \in Test, start(k) PROVE EndedBehind'
  BY <1>1 DEF start, EndedBehind, InTurn, Connections, Begun, Over
<1>2. ASSUME NEW k \in Test, start_cli(k) PROVE EndedBehind'
  BY <1>2 DEF start_cli, EndedBehind, InTurn, Over
<1>3. ASSUME NEW k \in Test, cli_wait(k) PROVE EndedBehind'
  <2>1. \A j \in Test : runner[j] = "wait" => j = k
    <3> TAKE j \in Test
    <3>1. j < k \/ k < j \/ j = k
      BY TestRunnerAssumption DEF Test
    <3> QED
      BY <1>3, <3>1 DEF cli_wait, InTurn, Over
  <2> QED
    BY <1>3, <2>1 DEF cli_wait, EndedBehind, Over
<1>4. ASSUME NEW k \in Test, exit_code(k) PROVE EndedBehind'
  BY <1>4 DEF exit_code, EndedBehind, Over
<1>5. ASSUME NEW k \in Test, interrupt(k) PROVE EndedBehind'
  <2>1. \A j \in Test : runner[j] = "wait" => j = k
    <3> TAKE j \in Test
    <3>1. j < k \/ k < j \/ j = k
      BY TestRunnerAssumption DEF Test
    <3> QED
      BY <1>5, <3>1 DEF interrupt, InTurn, Over
  <2> QED
    BY <1>5, <2>1 DEF interrupt, EndedBehind, Over, Connections
<1>6. ASSUME NEW k \in Test, kill_runner(k) PROVE EndedBehind'
  BY <1>6 DEF kill_runner, EndedBehind, Over
<1>7. ASSUME NEW k \in Test, ServerStep(k) \/ statement_throws(k) PROVE EndedBehind'
  BY <1>7 DEF ServerStep, read_cfg_from, connect, tcp_server, statement_throws, Sets,
              make_handler, connect_db_worker, set_server, io_context_run, Wiring,
              EndedBehind, Connections, Begun, Over
<1>8. ASSUME NEW k \in Test, do_connect_(k) PROVE EndedBehind'
  BY <1>8 DEF do_connect_, EndedBehind, Over
<1>9. ASSUME NEW k \in Test, handle_accept(k) \/ client_main(k) PROVE EndedBehind'
  BY <1>9 DEF handle_accept, client_main, EndedBehind, Connections, Over
<1>10. CASE UNCHANGED vars
  BY <1>10 DEF vars, EndedBehind, Over
<1> QED
  BY <1>1, <1>2, <1>3, <1>4, <1>5, <1>6, <1>7, <1>8, <1>9, <1>10
  DEF Next, RunnerStep, ClientStep

\* cli.wait() is not left waiting by another test: serv.terminate() of one never takes the
\* server from under the client of another, in whatever order they end or are killed.
THEOREM RunnersWaitForSomeone == Spec => []NoWaitInVain
<1>1. IInv /\ EndedBehind => NoWaitInVain
  <2> SUFFICES ASSUME IInv, EndedBehind, NEW k \in Test, runner[k] = "wait", ~Lost(k),
                      client[k] \notin {"connecting", "ok", "error"}
               PROVE  \/ client[k] = "queued" /\ server[peer[k]] \in Wiring \cup {"run"}
                      \/ client[k] = "served" /\ server[peer[k]] = "run"
    BY DEF NoWaitInVain
  <2>1. client[k] \in {"queued", "served"} /\ peer[k] # NoServer
    BY DEF IInv, RunnerTypeOK, EndedBehind, Lost, Connections
  <2>2. server[peer[k]] \in Wiring \cup {"run"}
    BY <2>1 DEF IInv, Connections, Begun, EndedBehind, Lost
  <2> QED
    BY <2>1, <2>2 DEF EndedBehind
<1> QED
  BY <1>1, EndedInit, EndedStep, IInvHolds, PTL DEF Spec
=============================================================================
