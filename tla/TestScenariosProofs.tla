------------------------- MODULE TestScenariosProofs -------------------------
(***************************************************************************)
(* The end-to-end tests hold for any number of tests and whatever any      *)
(* number of other clients do with addresses of their own.                 *)
(***************************************************************************)
EXTENDS TestScenarios, AccountsProofs

\* What is left of a test before its account is registered, and after.
Early == {<<>>, register_test, login_test}
Late == {<<try_re_register, try_un_register>>, <<try_login, try_un_register>>,
         <<try_un_register>>}

OurPass == hash_(<<test_pass, db_pass_salt>>)

\* What the rows of the tests' address are when the steps s are left.
Expected(s) ==
    IF s \in Early THEN RowsOf(test_email) = {}
    ELSE RowsOf(test_email) # {} /\ \A r \in RowsOf(test_email) : r.pass_hash = OurPass

\* The handler that runs handles the step the test is at.  Its statements settle the answer
\* and the rows together, so what it has left to deliver goes with the steps after this one.
AtStep ==
    /\ steps # <<>>
    /\ pc[poker] # "idle" /\ sender[poker] = tester
    /\ req[poker] = Head(steps).req
    /\ pc[poker] \in {"max", "insert"} => steps \in Early
    /\ IF pc[poker] = "deliver"
       THEN code[poker] = Head(steps).accepts /\ Expected(Tail(steps))
       ELSE Expected(steps)

\* The handler that runs, if any, is another client's.
BetweenSteps ==
    /\ Expected(steps)
    /\ pc[poker] # "idle" => sender[poker] # tester /\ req[poker].email # test_email

StepsOK == steps \in Early \cup Late

TestInv ==
    ~cut =>
        /\ ~failed
        /\ IF waiting THEN AtStep ELSE BetweenSteps

-----------------------------------------------------------------------------
(* The steps of the tests.                                                  *)

LEMMA Tuples ==
    /\ \A a : Head(<<a>>) = a /\ Tail(<<a>>) = <<>> /\ <<a>> # <<>>
    /\ \A a, b : Head(<<a, b>>) = a /\ Tail(<<a, b>>) = <<b>> /\ <<a, b>> # <<>>
    /\ \A a, b, c : Head(<<a, b, c>>) = a /\ Tail(<<a, b, c>>) = <<b, c>> /\ <<a, b, c>> # <<>>
  OBVIOUS

LEMMA EarlyOrLate ==
    ASSUME NEW s \in Late
    PROVE  s \notin Early
<1>1. \A a, b, c, d : <<a, b>> # <<c, d, b>> /\ <<b>> # <<c, d, b>> /\ <<a, b>> # <<>>
                      /\ <<b>> # <<>>
  OBVIOUS
<1> QED
  BY <1>1 DEF Early, Late, register_test, login_test

LEMMA StepsLeft ==
    ASSUME NEW s \in Early \cup Late, s # <<>>
    PROVE  \/ s \in Early /\ Head(s) = try_register /\ Tail(s) \in Late
           \/ s \in Late /\ Head(s) \in {try_re_register, try_login} /\ Tail(s) \in Late
           \/ s \in Late /\ Head(s) = try_un_register /\ Tail(s) = <<>>
<1>1. ASSUME s = <<try_register, try_re_register, try_un_register>>
             \/ s = <<try_register, try_login, try_un_register>>
      PROVE  s \in Early /\ Head(s) = try_register /\ Tail(s) \in Late
  <2>1. Head(s) = try_register
    BY <1>1, Tuples
  <2>2. Tail(s) = <<try_re_register, try_un_register>> \/ Tail(s) = <<try_login, try_un_register>>
    <3>1. CASE s = <<try_register, try_re_register, try_un_register>>
      BY <3>1, Tuples
    <3>2. CASE s = <<try_register, try_login, try_un_register>>
      BY <3>2, Tuples
    <3> QED
      BY <1>1, <3>1, <3>2
  <2> QED
    BY <1>1, <2>1, <2>2 DEF Early, Late, register_test, login_test
<1>2. ASSUME s = <<try_re_register, try_un_register>> \/ s = <<try_login, try_un_register>>
      PROVE  s \in Late /\ Head(s) \in {try_re_register, try_login} /\ Tail(s) \in Late
  <2>1. Head(s) = try_re_register \/ Head(s) = try_login
    BY <1>2, Tuples
  <2>2. Tail(s) = <<try_un_register>>
    BY <1>2, Tuples
  <2> QED
    BY <1>2, <2>1, <2>2 DEF Late
<1>3. ASSUME s = <<try_un_register>>
      PROVE  s \in Late /\ Head(s) = try_un_register /\ Tail(s) = <<>>
  BY <1>3, Tuples DEF Late
<1> QED
  BY <1>1, <1>2, <1>3 DEF Early, Late, register_test, login_test

LEMMA StepRequests ==
    /\ \A t \in {try_register, try_re_register, try_login, try_un_register} :
          t.req \in Request /\ t.req.email = test_email /\ req_pass(t.req) = OurPass
    /\ \A t \in {try_register, try_re_register} : t.req.type = "register_request"
    /\ try_login.req.type = "login_request"
    /\ try_un_register.req.type = "unregister_request"
    /\ try_register.accepts = "OK" /\ try_re_register.accepts = "NAME_TAKEN"
    /\ try_login.accepts = "OK" /\ try_un_register.accepts = "OK"
<1>1. try_re_register.req = try_register.req /\ try_re_register.accepts = "NAME_TAKEN"
  BY DEF try_re_register, try_register
<1> QED
  BY <1>1, TestAssumption DEF try_register, try_login, try_un_register, Request,
          register_request, login_request, unregister_request, req_pass, hash_, OurPass

-----------------------------------------------------------------------------
(* The statements.                                                          *)

LEMMA ScenarioStep ==
    ASSUME StepsOK, [Next]_vars
    PROVE  [AccNext]_accVars
<1> USE TestAssumption
<1>1. ASSUME NEW test \in {register_test, login_test}, start_test(test)
      PROVE  UNCHANGED accVars
  BY <1>1 DEF start_test
<1>2. CASE send
  <2>1. Head(steps).req \in Request
    BY <1>2, StepsLeft, StepRequests DEF send, StepsOK
  <2> QED
    BY <1>2, <2>1 DEF send, AccNext
<1>3. CASE check
  BY <1>3 DEF check, AccNext
<1>4. CASE server_ends
  BY <1>4 DEF server_ends, AccNext
<1>5. CASE server_goes_on
  BY <1>5 DEF server_goes_on, others, OtherRequest, AccNext
<1>6. CASE UNCHANGED vars
  BY <1>6 DEF vars
<1> QED
  BY <1>1, <1>2, <1>3, <1>4, <1>5, <1>6 DEF Next

\* A statement leaves its request and its connection to the next.
LEMMA StatementGoesOn ==
    ASSUME AccTypeOK, Statement(poker)
    PROVE  /\ req' = req /\ sender' = sender
           /\ pc[poker] \in {"select", "max", "insert", "remove"}
           /\ pc'[poker] \in {"max", "insert", "remove", "deliver"}
           /\ req[poker] \in Request
<1> USE TestAssumption DEF At, Goto, Answer
<1>1. CASE reg_select(poker)
  BY <1>1 DEF reg_select, AccTypeOK
<1>2. CASE reg_max(poker)
  BY <1>2 DEF reg_max, AccTypeOK
<1>3. CASE reg_insert(poker)
  BY <1>3 DEF reg_insert, AccTypeOK
<1>4. CASE login_select(poker)
  BY <1>4 DEF login_select, AccTypeOK
<1>5. CASE unreg_select(poker)
  BY <1>5 DEF unreg_select, AccTypeOK
<1>6. CASE unreg_remove(poker)
  BY <1>6 DEF unreg_remove, AccTypeOK
<1> QED
  BY <1>1, <1>2, <1>3, <1>4, <1>5, <1>6 DEF Statement

\* A statement of another client's request does not touch the tests' rows.
LEMMA StatementElsewhere ==
    ASSUME Statement(poker), req[poker].email # test_email
    PROVE  RowsOf(test_email)' = RowsOf(test_email)
<1>1. CASE reg_insert(poker)
  BY <1>1 DEF reg_insert, RowsOf
<1>2. CASE unreg_remove(poker)
  BY <1>2 DEF unreg_remove, RowsOf
<1>3. CASE UNCHANGED rows
  BY <1>3 DEF RowsOf
<1> QED
  BY <1>1, <1>2, <1>3 DEF Statement, reg_select, reg_max, login_select, unreg_select, db

\* A statement of a test's request.
LEMMA StatementAtStep ==
    ASSUME AccTypeOK, StepsOK, AtStep, Statement(poker), UNCHANGED testVars
    PROVE  AtStep'
<1> DEFINE h == Head(steps)
<1> USE TestAssumption
<1>1. /\ req' = req /\ sender' = sender /\ steps' = steps
      /\ pc[poker] \in {"select", "max", "insert", "remove"}
      /\ pc'[poker] \in {"max", "insert", "remove", "deliver"}
  BY StatementGoesOn DEF testVars
<1>2. /\ steps # <<>> /\ sender[poker] = tester /\ req[poker] = h.req
      /\ Expected(steps)
      /\ pc[poker] \in {"max", "insert"} => steps \in Early
  BY <1>1 DEF AtStep
<1>3. /\ h \in {try_register, try_re_register, try_login, try_un_register}
      /\ req[poker].email = test_email /\ req_pass(req[poker]) = OurPass
  BY <1>2, StepsLeft, StepRequests DEF StepsOK
<1>4. SUFFICES /\ pc'[poker] \in {"max", "insert"} => steps \in Early
               /\ IF pc'[poker] = "deliver"
                  THEN code'[poker] = h.accepts /\ Expected(Tail(steps))'
                  ELSE Expected(steps)'
  BY <1>1, <1>2 DEF AtStep
<1> HIDE DEF h
<1>5. ASSUME UNCHANGED rows
      PROVE  /\ Expected(steps)' <=> Expected(steps)
             /\ Expected(Tail(steps))' <=> Expected(Tail(steps))
  BY <1>1, <1>5 DEF Expected, RowsOf
<1>6. CASE reg_select(poker)
  <2>1. req[poker].type = "register_request" /\ UNCHANGED rows
    BY <1>6 DEF reg_select, At, db
  <2>2. CASE RowsOf(test_email) # {} /\ Answer(poker, "NAME_TAKEN")
    <3>1. steps \notin Early
      BY <1>2, <2>2 DEF Expected
    <3>2. h = try_re_register /\ Tail(steps) \in Late
      BY <1>2, <2>1, <3>1, StepsLeft, StepRequests DEF StepsOK, h
    <3>3. pc'[poker] = "deliver" /\ code'[poker] = "NAME_TAKEN"
      BY <2>2 DEF Answer, Goto, AccTypeOK
    <3>4. Expected(Tail(steps))
      BY <1>2, <3>1, <3>2, EarlyOrLate DEF Expected
    <3> QED
      BY <1>5, <2>1, <3>2, <3>3, <3>4, StepRequests
  <2>3. CASE RowsOf(test_email) = {} /\ Goto(poker, "max")
    <3>1. steps \in Early
      BY <1>2, <2>3 DEF Expected
    <3>2. pc'[poker] = "max"
      BY <2>3 DEF Goto, AccTypeOK
    <3> QED
      BY <1>2, <1>5, <2>1, <3>1, <3>2
  <2> QED
    BY <1>3, <1>6, <2>2, <2>3 DEF reg_select
<1>7. CASE reg_max(poker)
  <2>1. pc'[poker] = "insert" /\ pc[poker] = "max" /\ UNCHANGED rows
    BY <1>7 DEF reg_max, At, Goto, db, AccTypeOK
  <2> QED
    BY <1>2, <1>5, <2>1
<1>8. CASE reg_insert(poker)
  <2>1. /\ pc[poker] = "insert" /\ pc'[poker] = "deliver" /\ code'[poker] = "OK"
    BY <1>8 DEF reg_insert, At, Answer, Goto, AccTypeOK
  <2>2. steps \in Early /\ RowsOf(test_email) = {}
    BY <1>2, <2>1 DEF Expected
  <2>3. h = try_register /\ Tail(steps) \in Late
    BY <1>2, <2>2, StepsLeft, EarlyOrLate DEF StepsOK, h
  <2>4. PICK r : r.email = test_email /\ r.pass_hash = OurPass /\ rows' = rows \cup {r}
    BY <1>3, <1>8 DEF reg_insert
  <2>5. RowsOf(test_email)' = {r}
    BY <2>2, <2>4 DEF RowsOf
  <2>6. Expected(Tail(steps))'
    BY <1>1, <2>3, <2>4, <2>5, EarlyOrLate DEF Expected
  <2> QED
    BY <2>1, <2>3, <2>6, StepRequests
<1>9. CASE login_select(poker)
  <2>1. req[poker].type = "login_request" /\ UNCHANGED rows
    BY <1>9 DEF login_select, At, db
  <2>2. h = try_login /\ steps \in Late /\ Tail(steps) \in Late
    BY <1>2, <2>1, StepsLeft, StepRequests DEF StepsOK, h
  <2>3. /\ RowsOf(test_email) # {} /\ \A r \in RowsOf(test_email) : r.pass_hash = OurPass
        /\ Expected(Tail(steps))
    BY <1>2, <2>2, EarlyOrLate DEF Expected
  <2>4. Answer(poker, "OK")
    BY <1>3, <1>9, <2>3 DEF login_select
  <2>5. pc'[poker] = "deliver" /\ code'[poker] = "OK"
    BY <2>4 DEF Answer, Goto, AccTypeOK
  <2> QED
    BY <1>5, <2>1, <2>2, <2>3, <2>5, StepRequests
<1>10. CASE unreg_select(poker)
  <2>1. req[poker].type = "unregister_request" /\ UNCHANGED rows
    BY <1>10 DEF unreg_select, At, db
  <2>2. steps \in Late
    BY <1>2, <2>1, StepsLeft, StepRequests DEF StepsOK, h
  <2>3. RowsOf(test_email) # {} /\ \A r \in RowsOf(test_email) : r.pass_hash = OurPass
    BY <1>2, <2>2, EarlyOrLate DEF Expected
  <2>4. Goto(poker, "remove")
    BY <1>3, <1>10, <2>3 DEF unreg_select
  <2>5. pc'[poker] = "remove"
    BY <2>4 DEF Goto, AccTypeOK
  <2> QED
    BY <1>2, <1>5, <2>1, <2>5
<1>11. CASE unreg_remove(poker)
  <2>1. req[poker].type = "unregister_request"
    BY <1>11 DEF unreg_remove, At
  <2>2. h = try_un_register /\ Tail(steps) = <<>>
    BY <1>2, <2>1, StepsLeft, StepRequests DEF StepsOK, h
  <2>3. pc'[poker] = "deliver" /\ code'[poker] = "OK"
    BY <1>11 DEF unreg_remove, Answer, Goto, AccTypeOK
  <2>4. RowsOf(test_email)' = {}
    BY <1>3, <1>11 DEF unreg_remove, RowsOf
  <2>5. Expected(Tail(steps))'
    BY <1>1, <2>2, <2>4 DEF Expected, Early
  <2> QED
    BY <2>2, <2>3, <2>5, StepRequests
<1> QED
  BY <1>6, <1>7, <1>8, <1>9, <1>10, <1>11 DEF Statement

-----------------------------------------------------------------------------
(* The invariant.                                                           *)

IInv == AccTypeOK /\ RowInv /\ StepsOK /\ TestInv

LEMMA ScenarioInit == Init => IInv
<1> SUFFICES ASSUME Init PROVE IInv
  OBVIOUS
<1>1. AccTypeOK /\ RowInv
  BY TypeInit, RowInit DEF Init
<1>2. Expected(steps) /\ pc[poker] = "idle"
  BY TestAssumption DEF Init, AccInit, Expected, Early, RowsOf
<1>3. StepsOK
  BY DEF Init, StepsOK, Early
<1> QED
  BY <1>1, <1>2, <1>3 DEF Init, IInv, TestInv, BetweenSteps

LEMMA TestStep ==
    ASSUME IInv, [Next]_vars
    PROVE  StepsOK' /\ TestInv'
<1> USE TestAssumption
<1>0. AccTypeOK /\ StepsOK /\ TestInv
  BY DEF IInv
<1>1. ASSUME NEW test \in {register_test, login_test}, start_test(test)
      PROVE  StepsOK' /\ TestInv'
  <2>1. /\ UNCHANGED <<rows, pc, sender, req, waiting, failed, cut>>
        /\ steps = <<>> /\ steps' = test
    BY <1>1 DEF start_test, accVars
  <2>2. test \in Early /\ <<>> \in Early
    BY DEF Early
  <2>3. StepsOK'
    BY <2>1, <2>2 DEF StepsOK
  <2>4. ~cut => ~failed /\ ~waiting /\ BetweenSteps
    BY <1>0, <2>1 DEF TestInv, AtStep
  <2>5. Expected(steps) => Expected(steps)'
    BY <2>1, <2>2 DEF Expected, RowsOf
  <2> QED
    BY <2>1, <2>3, <2>4, <2>5 DEF TestInv, BetweenSteps
<1>2. CASE send
  <2>1. /\ UNCHANGED <<rows, steps, failed, cut>>
        /\ waiting' = TRUE /\ ~waiting /\ steps # <<>>
        /\ pc'[poker] = "select" /\ sender'[poker] = tester
        /\ req'[poker] = Head(steps).req
    BY <1>0, <1>2 DEF send, handle, db, AccTypeOK
  <2>2. StepsOK'
    BY <1>0, <2>1 DEF StepsOK
  <2>3. Expected(steps) => Expected(steps)'
    BY <2>1 DEF Expected, RowsOf
  <2> QED
    BY <1>0, <2>1, <2>2, <2>3 DEF TestInv, BetweenSteps, AtStep
<1>3. CASE check
  <2>1. /\ UNCHANGED <<rows, cut>> /\ waiting' = FALSE
        /\ pc[poker] = "deliver" /\ sender[poker] = tester /\ pc'[poker] = "idle"
    BY <1>0, <1>3 DEF check, reply, Forget, db, AccTypeOK
  <2>2. ~cut => ~failed /\ AtStep
    BY <1>0, <2>1 DEF TestInv, BetweenSteps
  <2>3. StepsOK'
    <3>1. CASE steps' = <<>>
      BY <3>1 DEF StepsOK, Early
    <3>2. CASE steps = <<>> /\ steps' = Tail(steps)
      <4>1. Tail(<<>>) = <<>>
        OBVIOUS
      <4> QED
        BY <3>2, <4>1 DEF StepsOK, Early
    <3>3. CASE steps # <<>> /\ steps' = Tail(steps)
      <4>1. Tail(steps) \in Late \/ Tail(steps) = <<>>
        BY <1>0, <3>3, StepsLeft DEF StepsOK
      <4> QED
        BY <3>3, <4>1 DEF StepsOK, Early
    <3> QED
      BY <1>3, <3>1, <3>2, <3>3 DEF check
  <2>4. ASSUME ~cut
        PROVE  steps' = Tail(steps) /\ ~failed' /\ Expected(Tail(steps))
    BY <1>3, <2>1, <2>2, <2>4 DEF check, AtStep
  <2>5. ASSUME ~cut
        PROVE  Expected(steps)'
    BY <2>1, <2>4, <2>5 DEF Expected, RowsOf
  <2> QED
    BY <2>1, <2>3, <2>4, <2>5 DEF TestInv, BetweenSteps
<1>4. CASE server_ends
  <2>1. /\ UNCHANGED <<rows, failed>> /\ waiting' = FALSE /\ steps' = <<>>
        /\ pc'[poker] = "idle"
        /\ cut' = (cut \/ steps # <<>>)
    BY <1>0, <1>4 DEF server_ends, terminate, Forget, db, AccTypeOK
  <2>2. StepsOK'
    BY <2>1 DEF StepsOK, Early
  <2>3. ASSUME ~cut'
        PROVE  ~failed' /\ Expected(steps)'
    <3>1. ~cut /\ steps = <<>>
      BY <2>1, <2>3
    <3>2. ~failed /\ BetweenSteps
      BY <1>0, <3>1 DEF TestInv, AtStep
    <3> QED
      BY <2>1, <3>1, <3>2 DEF BetweenSteps, Expected, RowsOf
  <2> QED
    BY <2>1, <2>2, <2>3 DEF TestInv, BetweenSteps
<1>5. CASE server_goes_on
  <2>1. UNCHANGED testVars /\ UNCHANGED <<tests, steps, waiting, failed, cut>>
    BY <1>5 DEF server_goes_on, testVars
  <2>2. StepsOK'
    BY <1>0, <2>1 DEF StepsOK
  <2>3. SUFFICES ASSUME ~cut
                 PROVE  IF waiting THEN AtStep' ELSE BetweenSteps'
    BY <1>0, <2>1, <2>2 DEF TestInv
  <2>4. IF waiting THEN AtStep ELSE BetweenSteps
    BY <1>0, <2>3 DEF TestInv
  <2>5. ASSUME RowsOf(test_email)' = RowsOf(test_email)
        PROVE  Expected(steps)' <=> Expected(steps)
    BY <2>1, <2>5 DEF Expected
  <2>6. CASE Statement(poker)
    <3>1. CASE waiting
      BY <1>0, <2>1, <2>4, <2>6, <3>1, StatementAtStep
    <3>2. CASE ~waiting
      <4>1. req' = req /\ sender' = sender /\ pc[poker] # "idle"
        BY <1>0, <2>6, StatementGoesOn
      <4>2. sender[poker] # tester /\ req[poker].email # test_email /\ Expected(steps)
        BY <2>4, <3>2, <4>1 DEF BetweenSteps
      <4>3. RowsOf(test_email)' = RowsOf(test_email)
        BY <2>6, <4>2, StatementElsewhere
      <4> QED
        BY <2>5, <3>2, <4>1, <4>2, <4>3 DEF BetweenSteps
    <3> QED
      BY <3>1, <3>2
  <2>7. CASE main(poker)
    <3>1. ~up[poker] /\ UNCHANGED <<rows, pc>>
      BY <2>7 DEF main, db
    <3>2. pc[poker] = "idle"
      BY <1>0, <3>1 DEF AccTypeOK
    <3>3. ~waiting /\ Expected(steps)
      BY <2>4, <3>2 DEF AtStep, BetweenSteps
    <3>4. RowsOf(test_email)' = RowsOf(test_email)
      BY <3>1 DEF RowsOf
    <3> QED
      BY <2>5, <3>1, <3>2, <3>3, <3>4 DEF BetweenSteps
  <2>8. CASE others
    <3>1. UNCHANGED rows
      BY <2>8 DEF others, handle, reply, db
    <3>2. /\ pc[poker] = "idle" \/ sender[poker] # tester
          /\ \/ pc'[poker] = "idle"
             \/ sender'[poker] # tester /\ req'[poker].email # test_email
      BY <1>0, <2>8 DEF others, OtherRequest, handle, reply, Forget, AccTypeOK
    <3>3. ~waiting /\ Expected(steps)
      BY <2>4, <3>2 DEF AtStep, BetweenSteps
    <3>4. RowsOf(test_email)' = RowsOf(test_email)
      BY <3>1 DEF RowsOf
    <3> QED
      BY <2>5, <3>2, <3>3, <3>4 DEF BetweenSteps
  <2> QED
    BY <1>5, <2>6, <2>7, <2>8 DEF server_goes_on
<1>6. CASE UNCHANGED vars
  <2>1. UNCHANGED <<rows, up, pc, req, sender, code, steps, waiting, failed, cut>>
    BY <1>6 DEF vars, accVars, testVars
  <2>2. (Expected(steps)' <=> Expected(steps)) /\ (Expected(Tail(steps))' <=> Expected(Tail(steps)))
    BY <2>1 DEF Expected, RowsOf
  <2> QED
    BY <1>0, <2>1, <2>2 DEF TestInv, AtStep, BetweenSteps, StepsOK
<1> QED
  BY <1>1, <1>2, <1>3, <1>4, <1>5, <1>6 DEF Next

LEMMA ScenarioInvariant == Spec => []IInv
<1>1. Init => IInv
  BY ScenarioInit
<1>2. ASSUME IInv, [Next]_vars
      PROVE  IInv'
  <2>1. StepsOK' /\ TestInv'
    BY <1>2, TestStep
  <2>2. [AccNext]_accVars
    BY <1>2, ScenarioStep DEF IInv
  <2>3. AccTypeOK'
    BY <1>2, <2>2, TypeStep DEF IInv, RowInv
  <2>4. RowInv'
    BY <1>2, <2>2, RowStep DEF IInv
  <2> QED
    BY <2>1, <2>3, <2>4 DEF IInv
<1> QED
  BY <1>1, <1>2, PTL DEF Spec

\* However many tests are run, in whatever order, and whatever any number of other clients
\* do with addresses of their own between a test's requests and between the statements of
\* their handlers: a test fails only if the server was once ended under a test.
THEOREM TestsAlwaysPass == Spec => []TestsPass
<1>1. IInv => TestsPass
  BY DEF IInv, TestInv, TestsPass
<1> QED
  BY <1>1, ScenarioInvariant, PTL

\* Between tests the table has no row of the tests' address, unless a test was cut off.
THEOREM TestsLeaveNothing == Spec => []LeavesNothing
<1>1. IInv => LeavesNothing
  <2> SUFFICES ASSUME IInv, steps = <<>>, ~cut
               PROVE  RowsOf(test_email) = {}
    BY DEF LeavesNothing
  <2>1. Expected(steps)
    BY DEF IInv, TestInv, AtStep, BetweenSteps
  <2> QED
    BY <2>1 DEF Expected, Early
<1> QED
  BY <1>1, ScenarioInvariant, PTL
=============================================================================
