--------------------------- MODULE AccountsProofs ---------------------------
(***************************************************************************)
(* Theorems about Accounts, for any number of addresses, passwords and     *)
(* connections: what holds however many processes share the table, and     *)
(* then what holds in the deployment of the repository, where one uses it: *)
(* what it removes, whom a login replaces, that its answers are true, and  *)
(* that it implements AccountService.                                      *)
(***************************************************************************)
EXTENDS Accounts, TLAPS

\* A statement belongs to a request: the handler has one, of the type that has the statement.
LEMMA AtRequest ==
    ASSUME AccTypeOK, NEW s \in Server, NEW l, l # "idle", NEW t, At(s, l, t)
    PROVE  up[s] /\ req[s] \in Request /\ req[s].type = t /\ sender[s] \in Conn
BY DEF AccTypeOK, At

\* The row that handle_reg_request_ inserts is a row of the table.
LEMMA NewRow ==
    ASSUME NEW s \in Server, NEW r \in Request, r.type = "register_request",
           NEW i \in Nat, i # 0, NEW n \in Nat
    PROVE  [email |-> r.email, nickname |-> r.nickname, pass_hash |-> req_pass(r),
            user_id |-> i, ctid |-> n, by |-> s] \in tab_user
<1>1. r \in register_request
  BY DEF Request, register_request, login_request, unregister_request
<1>2. r.pass_hash \in Password /\ r.email \in Email /\ r.nickname \in Nickname
  BY <1>1 DEF register_request
<1>3. req_pass(r) \in Digest
  BY <1>2 DEF req_pass, hash_, Digest
<1> QED
  BY <1>2, <1>3 DEF tab_user
-----------------------------------------------------------------------------
(* Type correctness.                                                        *)

\* What an answer or a step of a handler leaves of the types of the handler's state.
LocalTypeOK ==
    /\ pc \in [Server -> {"idle", "select", "max", "insert", "remove", "deliver"}]
    /\ req \in [Server -> Request \cup {NoRequest}]
    /\ sender \in [Server -> Conn \cup {NoConn}]
    /\ id_val \in [Server -> Nat]
    /\ code \in [Server -> Code \cup {"none"}]
    /\ up \in [Server -> BOOLEAN]
    /\ \A s \in Server : pc[s] # "idle" => up[s] /\ req[s] \in Request /\ sender[s] \in Conn

LEMMA GotoType ==
    ASSUME AccTypeOK, NEW s \in Server, pc[s] # "idle",
           NEW l \in {"max", "insert", "remove", "deliver"}, Goto(s, l),
           id_val' \in [Server -> Nat], code' \in [Server -> Code \cup {"none"}]
    PROVE  LocalTypeOK'
BY DEF AccTypeOK, LocalTypeOK, Goto

LEMMA AnswerType ==
    ASSUME AccTypeOK, NEW s \in Server, pc[s] # "idle", NEW c \in Code, Answer(s, c)
    PROVE  LocalTypeOK'
<1>1. id_val' \in [Server -> Nat] /\ code' \in [Server -> Code \cup {"none"}]
  BY DEF AccTypeOK, Answer
<1> QED
  BY <1>1, GotoType DEF Answer

LEMMA ForgetType ==
    ASSUME AccTypeOK, NEW s \in Server, Forget(s), up' \in [Server -> BOOLEAN],
           \A t \in Server : t # s => up'[t] = up[t]
    PROVE  LocalTypeOK'
BY DEF AccTypeOK, LocalTypeOK, Forget

LEMMA Codes ==
    /\ "OK" \in Code /\ "NAME_TAKEN" \in Code /\ "NAME_UNKNOWN" \in Code
    /\ "PASS_INCORRECT" \in Code /\ "NO_NAME" \in Code /\ "NO_PASS" \in Code
BY DEF Code, register_code, login_code, unregister_code

LEMMA TypeInit == AccInit => AccTypeOK
BY DEF AccInit, AccTypeOK

\* Types are preserved, given that no id to be inserted is 0.
LEMMA TypeStep ==
    ASSUME AccTypeOK, RegistersAfresh, [AccNext]_accVars
    PROVE  AccTypeOK'
<1> USE DEF db, local
<1>a. ASSUME NEW s \in Server, NEW c \in Conn, NEW r \in Request, handle(s, c, r)
      PROVE  AccTypeOK'
  BY <1>a DEF handle, AccTypeOK
<1>b. ASSUME NEW s \in Server, reg_select(s)
      PROVE  AccTypeOK'
  <2>1. LocalTypeOK'
    <3>1. pc[s] # "idle"
      BY <1>b DEF reg_select, At
    <3>2. CASE Answer(s, "NAME_TAKEN")
      BY <3>1, <3>2, AnswerType, Codes
    <3>3. CASE Goto(s, "max") /\ UNCHANGED <<id_val, code>>
      BY <3>1, <3>3, GotoType DEF AccTypeOK
    <3> QED
      BY <1>b, <3>2, <3>3 DEF reg_select
  <2> QED
    BY <1>b, <2>1 DEF reg_select, AccTypeOK, LocalTypeOK
<1>c. ASSUME NEW s \in Server, reg_max(s)
      PROVE  AccTypeOK'
  <2>1. PICK m \in max_user_id : id_val' = [id_val EXCEPT ![s] = m + 1]
    BY <1>c DEF reg_max
  <2>2. m \in Nat
    BY DEF max_user_id, AccTypeOK, tab_user
  <2>3. id_val' \in [Server -> Nat]
    BY <2>1, <2>2 DEF AccTypeOK
  <2>4. LocalTypeOK'
    BY <1>c, <2>3, GotoType DEF reg_max, At, AccTypeOK
  <2> QED
    BY <1>c, <2>4 DEF reg_max, AccTypeOK, LocalTypeOK
<1>d. ASSUME NEW s \in Server, reg_insert(s)
      PROVE  AccTypeOK'
  <2>1. req[s] \in Request /\ req[s].type = "register_request" /\ pc[s] # "idle"
    BY <1>d, AtRequest DEF reg_insert, At
  <2>2. id_val[s] \in Nat /\ id_val[s] # 0 /\ inserts \in Nat
    BY <1>d DEF reg_insert, RegistersAfresh, AccTypeOK
  <2>3. rows' \in SUBSET tab_user /\ inserts' \in Nat
    BY <1>d, <2>1, <2>2, NewRow DEF reg_insert, AccTypeOK
  <2>4. LocalTypeOK'
    BY <1>d, <2>1, AnswerType, Codes DEF reg_insert
  <2> QED
    BY <1>d, <2>3, <2>4 DEF reg_insert, AccTypeOK, LocalTypeOK
<1>e. ASSUME NEW s \in Server, login_select(s)
      PROVE  AccTypeOK'
  <2>1. pc[s] # "idle" /\ sender[s] \in Conn
    BY <1>e, AtRequest DEF login_select, At
  <2>2. \E k \in Code : Answer(s, k)
    BY <1>e, Codes DEF login_select
  <2>3. LocalTypeOK'
    BY <2>1, <2>2, AnswerType
  <2>4. users' \in [Server -> SUBSET user]
    <3>1. CASE UNCHANGED users
      BY <3>1 DEF AccTypeOK
    <3>2. ASSUME NEW r \in rows,
                 add_user(s, [id |-> r.user_id, email |-> r.email,
                              nickname |-> r.nickname, connection |-> sender[s]])
          PROVE  users' \in [Server -> SUBSET user]
      <4>1. [id |-> r.user_id, email |-> r.email, nickname |-> r.nickname,
             connection |-> sender[s]] \in user
        BY <2>1 DEF AccTypeOK, tab_user, user
      <4> QED
        BY <3>2, <4>1 DEF add_user, AccTypeOK
    <3> QED
      BY <1>e, <3>1, <3>2 DEF login_select, RowsOf
  <2> QED
    BY <1>e, <2>3, <2>4 DEF login_select, AccTypeOK, LocalTypeOK
<1>f. ASSUME NEW s \in Server, unreg_select(s)
      PROVE  AccTypeOK'
  <2>1. pc[s] # "idle"
    BY <1>f DEF unreg_select, At
  <2>2. LocalTypeOK'
    <3>1. CASE Answer(s, "NO_NAME") \/ Answer(s, "NO_PASS")
      BY <2>1, <3>1, AnswerType, Codes
    <3>2. CASE Goto(s, "remove") /\ UNCHANGED <<id_val, code>>
      BY <2>1, <3>2, GotoType DEF AccTypeOK
    <3> QED
      BY <1>f, <3>1, <3>2 DEF unreg_select
  <2> QED
    BY <1>f, <2>2 DEF unreg_select, AccTypeOK, LocalTypeOK
<1>g. ASSUME NEW s \in Server, unreg_remove(s)
      PROVE  AccTypeOK'
  <2>1. LocalTypeOK'
    BY <1>g, AnswerType, Codes DEF unreg_remove, At
  <2> QED
    BY <1>g, <2>1 DEF unreg_remove, AccTypeOK, LocalTypeOK
<1>h. ASSUME NEW s \in Server, reply(s)
      PROVE  AccTypeOK'
  <2>1. LocalTypeOK'
    BY <1>h, ForgetType DEF reply, AccTypeOK
  <2> QED
    BY <1>h, <2>1 DEF reply, AccTypeOK, LocalTypeOK
<1>i. ASSUME NEW s \in Server, terminate(s)
      PROVE  AccTypeOK'
  <2>1. LocalTypeOK'
    BY <1>i, ForgetType DEF terminate, AccTypeOK
  <2> QED
    BY <1>i, <2>1 DEF terminate, AccTypeOK, LocalTypeOK
<1>j. ASSUME NEW s \in Server, main(s)
      PROVE  AccTypeOK'
  BY <1>j DEF main, AccTypeOK
<1>k. CASE UNCHANGED accVars
  BY <1>k DEF accVars, AccTypeOK
<1> QED
  BY <1>a, <1>b, <1>c, <1>d, <1>e, <1>f, <1>g, <1>h, <1>i, <1>j, <1>k
  DEF AccNext, Statement
-----------------------------------------------------------------------------
(* One row per address and one per id, among the rows of a process.         *)

RowInv == OneRowPerEmailPerServer /\ OneRowPerIdPerServer /\ RegistersAfresh

\* The handler of s is between its look-up and its INSERT.
Registering(s) == At(s, "max", "register_request") \/ At(s, "insert", "register_request")

LEMMA RowInit == AccInit => RowInv
BY DEF AccInit, RowInv, OneRowPerEmailPerServer, OneRowPerIdPerServer, RegistersAfresh, At

\* A step that adds no row and takes no register request further keeps the invariant.
LEMMA QuietStep ==
    ASSUME RowInv, rows' \subseteq rows,
           \A s \in Server : Registering(s)' =>
              pc'[s] = pc[s] /\ req'[s] = req[s] /\ id_val'[s] = id_val[s]
    PROVE  RowInv'
BY DEF RowInv, OneRowPerEmailPerServer, OneRowPerIdPerServer, RegistersAfresh, Registering, At

\* So does a step of a handler after which it is not registering.
LEMMA QuietHandler ==
    ASSUME AccTypeOK, RowInv, rows' \subseteq rows, NEW s \in Server,
           \A t \in Server : t # s =>
              pc'[t] = pc[t] /\ req'[t] = req[t] /\ id_val'[t] = id_val[t],
           ~Registering(s)'
    PROVE  RowInv'
<1>1. \A t \in Server : Registering(t)' =>
         pc'[t] = pc[t] /\ req'[t] = req[t] /\ id_val'[t] = id_val[t]
  OBVIOUS
<1> QED
  BY <1>1, QuietStep

LEMMA RowStep ==
    ASSUME AccTypeOK, RowInv, [AccNext]_accVars
    PROVE  RowInv'
<1> USE DEF db, local
<1>a. ASSUME NEW s \in Server, NEW c \in Conn, NEW r \in Request, handle(s, c, r)
      PROVE  RowInv'
  BY <1>a, QuietHandler DEF handle, AccTypeOK, Registering, At
<1>b. ASSUME NEW s \in Server, reg_select(s)
      PROVE  RowInv'
  <2>1. CASE Answer(s, "NAME_TAKEN")
    BY <1>b, <2>1, QuietHandler DEF reg_select, Answer, Goto, AccTypeOK, Registering, At
  <2>2. CASE RowsOf(req[s].email) = {} /\ Goto(s, "max") /\ UNCHANGED <<id_val, code>>
    <3>1. \A r \in rows : r.email # req[s].email
      BY <2>2 DEF RowsOf
    <3>2. /\ rows' = rows /\ req' = req /\ id_val' = id_val
          /\ pc' = [pc EXCEPT ![s] = "max"]
      BY <1>b, <2>2 DEF reg_select, Goto
    <3> QED
      BY <3>1, <3>2 DEF AccTypeOK, RowInv, OneRowPerEmailPerServer, OneRowPerIdPerServer,
                        RegistersAfresh, At
  <2> QED
    BY <1>b, <2>1, <2>2 DEF reg_select
<1>c. ASSUME NEW s \in Server, reg_max(s)
      PROVE  RowInv'
  <2>1. PICK m \in max_user_id : id_val' = [id_val EXCEPT ![s] = m + 1]
    BY <1>c DEF reg_max
  <2>2. m \in Nat /\ \A r \in rows : r.user_id \in Nat /\ r.user_id <= m
    BY DEF max_user_id, AccTypeOK, tab_user
  <2>3. id_val'[s] # 0 /\ \A r \in rows : r.user_id < id_val'[s]
    BY <2>1, <2>2 DEF AccTypeOK
  <2>4. /\ rows' = rows /\ req' = req
        /\ pc' = [pc EXCEPT ![s] = "insert"]
        /\ \A t \in Server : t # s => id_val'[t] = id_val[t]
        /\ At(s, "max", "register_request")
    BY <1>c, <2>1 DEF reg_max, Goto, AccTypeOK
  <2> QED
    BY <2>3, <2>4 DEF AccTypeOK, RowInv, OneRowPerEmailPerServer, OneRowPerIdPerServer,
                      RegistersAfresh, At
<1>d. ASSUME NEW s \in Server, reg_insert(s)
      PROVE  RowInv'
  <2> DEFINE new == [email |-> req[s].email, nickname |-> req[s].nickname,
                     pass_hash |-> req_pass(req[s]), user_id |-> id_val[s],
                     ctid |-> inserts, by |-> s]
  <2>1. rows' = rows \cup {new} /\ At(s, "insert", "register_request")
    BY <1>d DEF reg_insert
  <2>2. /\ new.by = s /\ new.email = req[s].email /\ new.user_id = id_val[s]
        /\ \A r \in rows : r.by = s => r.email # new.email /\ r.user_id < new.user_id
    BY <2>1 DEF RowInv, RegistersAfresh
  <2>3. /\ new.user_id \in Nat
        /\ \A r \in rows : r.user_id \in Nat
    BY DEF AccTypeOK, tab_user
  <2>4. /\ req' = req /\ id_val' = id_val
        /\ pc' = [pc EXCEPT ![s] = "deliver"]
    BY <1>d DEF reg_insert, Answer, Goto
  <2> HIDE DEF new
  <2>5. OneRowPerEmailPerServer' /\ OneRowPerIdPerServer'
    BY <2>1, <2>2, <2>3 DEF RowInv, OneRowPerEmailPerServer, OneRowPerIdPerServer
  <2>6. RegistersAfresh'
    BY <2>1, <2>2, <2>4 DEF AccTypeOK, RowInv, RegistersAfresh, At
  <2> QED
    BY <2>5, <2>6 DEF RowInv
<1>e. ASSUME NEW s \in Server, login_select(s)
      PROVE  RowInv'
  <2>1. \E k \in Code : Answer(s, k)
    BY <1>e, Codes DEF login_select
  <2> QED
    BY <1>e, <2>1, QuietHandler DEF login_select, Answer, Goto, AccTypeOK, Registering, At
<1>f. ASSUME NEW s \in Server, unreg_select(s)
      PROVE  RowInv'
  <2>1. \E l \in {"deliver", "remove"} : Goto(s, l) /\ UNCHANGED id_val
    BY <1>f DEF unreg_select, Answer
  <2> QED
    BY <1>f, <2>1, QuietHandler DEF unreg_select, Goto, AccTypeOK, Registering, At
<1>g. ASSUME NEW s \in Server, unreg_remove(s)
      PROVE  RowInv'
  BY <1>g, QuietHandler DEF unreg_remove, Answer, Goto, AccTypeOK, Registering, At
<1>h. ASSUME NEW s \in Server, reply(s)
      PROVE  RowInv'
  BY <1>h, QuietHandler DEF reply, Forget, AccTypeOK, Registering, At
<1>i. ASSUME NEW s \in Server, terminate(s)
      PROVE  RowInv'
  BY <1>i, QuietHandler DEF terminate, Forget, AccTypeOK, Registering, At
<1>j. ASSUME NEW s \in Server, main(s)
      PROVE  RowInv'
  BY <1>j, QuietStep DEF main
<1>k. CASE UNCHANGED accVars
  BY <1>k, QuietStep DEF accVars
<1> QED
  BY <1>a, <1>b, <1>c, <1>d, <1>e, <1>f, <1>g, <1>h, <1>i, <1>j, <1>k
  DEF AccNext, Statement

\* The inductive invariant: types and rows together.
THEOREM AccInvariant == AccSpec => [](AccTypeOK /\ RowInv)
<1>1. AccInit => AccTypeOK /\ RowInv
  BY TypeInit, RowInit
<1>2. (AccTypeOK /\ RowInv) /\ [AccNext]_accVars => (AccTypeOK /\ RowInv)'
  BY TypeStep, RowStep DEF RowInv
<1> QED
  BY <1>1, <1>2, PTL DEF AccSpec

\* Type correctness of the account handlers and of the table they share.
THEOREM AccTypeCorrect == AccSpec => []AccTypeOK
BY AccInvariant, PTL

\* However many processes share the table, none enters an address twice.
THEOREM EmailOncePerServer == AccSpec => []OneRowPerEmailPerServer
<1>1. AccTypeOK /\ RowInv => OneRowPerEmailPerServer
  BY DEF RowInv
<1> QED
  BY <1>1, AccInvariant, PTL

\* Nor does any give one id to two accounts of its own that exist together.
THEOREM IdOncePerServer == AccSpec => []OneRowPerIdPerServer
<1>1. AccTypeOK /\ RowInv => OneRowPerIdPerServer
  BY DEF RowInv
<1> QED
  BY <1>1, AccInvariant, PTL

\* Between its statements a process that registers keeps what its first two established.
THEOREM RegistrationStaysFresh == AccSpec => []RegistersAfresh
<1>1. AccTypeOK /\ RowInv => RegistersAfresh
  BY DEF RowInv
<1> QED
  BY <1>1, AccInvariant, PTL
-----------------------------------------------------------------------------
(* One process.                                                             *)

\* When the handler gets to its DELETE the address has its row, with the request's password.
RemovesChecked ==
    \A s \in Server :
        At(s, "remove", "unregister_request") =>
            /\ RowsOf(req[s].email) # {}
            /\ \A r \in RowsOf(req[s].email) : r.pass_hash = req_pass(req[s])

\* No id is higher than the number of INSERTs so far, nor ever than MaxInserts.
IdsCounted ==
    /\ inserts <= MaxInserts
    /\ \A r \in rows : r.user_id <= inserts
    /\ \A s \in Server :
          /\ pc[s] \in {"select", "max", "insert"} /\ req[s].type = "register_request"
             => inserts < MaxInserts
          /\ At(s, "insert", "register_request") => id_val[s] <= inserts + 1

\* Between two requests nothing is left of the last one.
IdleForgets == \A s \in Server : pc[s] = "idle" => req[s] = NoRequest /\ code[s] = "none"

SoloInv == RemovesChecked /\ IdsCounted /\ IdleForgets

LEMMA SoloInit == AccInit => SoloInv
BY ConstantsDiffer DEF AccInit, SoloInv, RemovesChecked, IdsCounted, IdleForgets, At

\* With one process, an address and an id have at most one row.
LEMMA Unique ==
    ASSUME OneServer, AccTypeOK, RowInv, NEW q \in rows, NEW r \in rows,
           q.email = r.email \/ q.user_id = r.user_id
    PROVE  q = r
<1>1. q.by = r.by
  BY DEF OneServer, AccTypeOK, tab_user
<1> QED
  BY <1>1 DEF RowInv, OneRowPerEmailPerServer, OneRowPerIdPerServer

\* A step that changes no row, and takes no handler to a statement other than its next,
\* keeps the invariant.
LEMMA SoloQuiet ==
    ASSUME SoloInv, rows' \subseteq rows, inserts' = inserts, NEW s \in Server, OneServer,
           ~At(s, "remove", "unregister_request")', ~At(s, "insert", "register_request")',
           pc'[s] \in {"select", "max", "insert"} /\ req'[s].type = "register_request" =>
              inserts < MaxInserts,
           pc'[s] = "idle" => req'[s] = NoRequest /\ code'[s] = "none"
    PROVE  SoloInv'
<1>1. \A t \in Server : t = s
  BY DEF OneServer
<1> QED
  BY <1>1 DEF SoloInv, RemovesChecked, IdsCounted, IdleForgets, At

LEMMA SoloStep ==
    ASSUME OneServer, AccTypeOK, RowInv, SoloInv, [AccNext]_accVars
    PROVE  SoloInv'
<1> USE DEF db, local
<1>s. \A s, t \in Server : s = t
  BY DEF OneServer
<1>a. ASSUME NEW s \in Server, NEW c \in Conn, NEW r \in Request, handle(s, c, r)
      PROVE  SoloInv'
  BY <1>a, SoloQuiet DEF handle, AccTypeOK, At
<1>b. ASSUME NEW s \in Server, reg_select(s)
      PROVE  SoloInv'
  <2>1. \E l \in {"deliver", "max"} : Goto(s, l)
    BY <1>b DEF reg_select, Answer
  <2>2. inserts < MaxInserts
    BY <1>b DEF reg_select, At, SoloInv, IdsCounted
  <2> QED
    BY <1>b, <2>1, <2>2, SoloQuiet DEF reg_select, Goto, AccTypeOK, At
<1>c. ASSUME NEW s \in Server, reg_max(s)
      PROVE  SoloInv'
  <2>1. PICK m \in max_user_id : id_val' = [id_val EXCEPT ![s] = m + 1]
    BY <1>c DEF reg_max
  <2>2. m \in Nat /\ m <= inserts
    BY DEF max_user_id, AccTypeOK, tab_user, SoloInv, IdsCounted
  <2>3. id_val'[s] <= inserts + 1
    BY <2>1, <2>2 DEF AccTypeOK
  <2>4. /\ UNCHANGED <<rows, inserts, req, code>>
        /\ pc' = [pc EXCEPT ![s] = "insert"]
        /\ At(s, "max", "register_request")
    BY <1>c DEF reg_max, Goto
  <2> QED
    BY <1>s, <2>3, <2>4
    DEF AccTypeOK, SoloInv, RemovesChecked, IdsCounted, IdleForgets, At, RowsOf
<1>d. ASSUME NEW s \in Server, reg_insert(s)
      PROVE  SoloInv'
  <2> DEFINE new == [email |-> req[s].email, nickname |-> req[s].nickname,
                     pass_hash |-> req_pass(req[s]), user_id |-> id_val[s],
                     ctid |-> inserts, by |-> s]
  <2>1. /\ rows' = rows \cup {new} /\ inserts' = inserts + 1
        /\ At(s, "insert", "register_request")
        /\ pc' = [pc EXCEPT ![s] = "deliver"]
    BY <1>d DEF reg_insert, Answer, Goto
  <2>2. /\ new.user_id = id_val[s] /\ id_val[s] \in Nat /\ inserts \in Nat
        /\ \A r \in rows : r.user_id \in Nat
    BY DEF AccTypeOK, tab_user
  <2>3. new.user_id <= inserts' /\ inserts < MaxInserts
    BY <2>1, <2>2 DEF SoloInv, IdsCounted, At
  <2> HIDE DEF new
  <2>4. IdsCounted'
    BY <1>s, <2>1, <2>2, <2>3, ConstantsDiffer DEF SoloInv, IdsCounted, At, AccTypeOK
  <2>5. RemovesChecked' /\ IdleForgets'
    BY <1>s, <2>1 DEF RemovesChecked, IdleForgets, At, AccTypeOK
  <2> QED
    BY <2>4, <2>5 DEF SoloInv
<1>e. ASSUME NEW s \in Server, login_select(s)
      PROVE  SoloInv'
  <2>1. \E k \in Code : Answer(s, k)
    BY <1>e, Codes DEF login_select
  <2> QED
    BY <1>e, <2>1, SoloQuiet DEF login_select, Answer, Goto, AccTypeOK, At
<1>f. ASSUME NEW s \in Server, unreg_select(s)
      PROVE  SoloInv'
  <2>1. UNCHANGED <<rows, inserts, req>>
    BY <1>f DEF unreg_select, Answer, Goto
  <2>2. CASE \E k \in Code : Answer(s, k)
    BY <2>1, <2>2, SoloQuiet DEF Answer, Goto, AccTypeOK, At
  <2>3. ASSUME NEW first \in RowsOf(req[s].email),
               first.pass_hash = req_pass(req[s]), Goto(s, "remove")
        PROVE  SoloInv'
    <3>1. \A r \in RowsOf(req[s].email) : r = first
      BY Unique DEF RowsOf
    <3>2. pc' = [pc EXCEPT ![s] = "remove"] /\ At(s, "select", "unregister_request")
      BY <1>f, <2>3 DEF Goto, unreg_select
    <3> QED
      BY <1>s, <2>1, <2>3, <3>1, <3>2
      DEF AccTypeOK, SoloInv, RemovesChecked, IdsCounted, IdleForgets, At, RowsOf, req_pass
  <2> QED
    BY <1>f, <2>2, <2>3, Codes DEF unreg_select
<1>g. ASSUME NEW s \in Server, unreg_remove(s)
      PROVE  SoloInv'
  BY <1>g, SoloQuiet DEF unreg_remove, Answer, Goto, AccTypeOK, At
<1>h. ASSUME NEW s \in Server, reply(s)
      PROVE  SoloInv'
  BY <1>h, SoloQuiet DEF reply, Forget, AccTypeOK, At
<1>i. ASSUME NEW s \in Server, terminate(s)
      PROVE  SoloInv'
  BY <1>i, SoloQuiet DEF terminate, Forget, AccTypeOK, At
<1>j. ASSUME NEW s \in Server, main(s)
      PROVE  SoloInv'
  BY <1>j DEF main, SoloInv, RemovesChecked, IdsCounted, IdleForgets, At, RowsOf
<1>k. CASE UNCHANGED accVars
  BY <1>k DEF accVars, SoloInv, RemovesChecked, IdsCounted, IdleForgets, At, RowsOf
<1> QED
  BY <1>a, <1>b, <1>c, <1>d, <1>e, <1>f, <1>g, <1>h, <1>i, <1>j, <1>k
  DEF AccNext, Statement

Inv == AccTypeOK /\ RowInv /\ SoloInv

\* What holds in every state of a database that one process uses.
LEMMA SoloInvariant ==
    ASSUME OneServer
    PROVE  AccSpec => []Inv
<1>1. AccInit => Inv
  BY TypeInit, RowInit, SoloInit DEF Inv
<1>2. Inv /\ [AccNext]_accVars => Inv'
  BY TypeStep, RowStep, SoloStep DEF Inv, RowInv
<1> QED
  BY <1>1, <1>2, PTL DEF AccSpec
-----------------------------------------------------------------------------
(* What the steps of one process do to the accounts of others.              *)

\* Only the DELETE takes rows away.
LEMMA RemovingStep ==
    ASSUME AccTypeOK, [AccNext]_accVars, NEW r \in rows \ rows'
    PROVE  \E s \in Server : unreg_remove(s)
<1>1. ASSUME NEW s \in Server, ~unreg_remove(s),
             \/ \E c \in Conn, q \in Request : handle(s, c, q)
             \/ Statement(s) \/ reply(s) \/ terminate(s) \/ main(s)
      PROVE  FALSE
  BY <1>1 DEF handle, Statement, reg_select, reg_max, reg_insert, login_select, unreg_select,
              reply, terminate, main, db
<1> QED
  BY <1>1 DEF AccNext, accVars, Statement

\* A row leaves the table of a single process only with its own password.
LEMMA OwnerStep ==
    ASSUME Inv, [AccNext]_accVars, OneServer, NEW r \in rows \ rows'
    PROVE  \E s \in Server : RemovedByOwner(s, r)
<1>1. PICK s \in Server : unreg_remove(s)
  BY RemovingStep DEF Inv
<1>2. At(s, "remove", "unregister_request") /\ r \in RowsOf(req[s].email)
  BY <1>1 DEF unreg_remove, RowsOf
<1>3. r.pass_hash = req_pass(req[s])
  BY <1>2 DEF Inv, SoloInv, RemovesChecked
<1> QED
  BY <1>2, <1>3 DEF RowsOf, RemovedByOwner

\* No account is unregistered with another account's password.
THEOREM OwnerRemovesOnly == AccSpec => OnlyOwnerRemoves
<1> DEFINE Rightly == \A r \in rows \ rows' : \E s \in Server : RemovedByOwner(s, r)
<1>1. CASE OneServer
  <2>1. Inv /\ [AccNext]_accVars => [OneServer => Rightly]_accVars
    BY OwnerStep
  <2> QED
    BY <1>1, <2>1, SoloInvariant, PTL DEF AccSpec, OnlyOwnerRemoves
<1>2. CASE ~OneServer
  <2>1. [AccNext]_accVars => [OneServer => Rightly]_accVars
    BY <1>2
  <2> QED
    BY <2>1, PTL DEF AccSpec, OnlyOwnerRemoves
<1> QED
  BY <1>1, <1>2

\* A user leaves users_ of a running process only in a login that enters its id again.
LEMMA EvictingStep ==
    ASSUME AccTypeOK, [AccNext]_accVars,
           NEW s \in Server, NEW u \in users[s] \ users'[s], up'[s]
    PROVE  \E r \in rows, v \in users'[s] :
              v.id = u.id /\ v.id = r.user_id /\ v.email = r.email
<1>1. ASSUME NEW t \in Server, login_select(t)
      PROVE  \E r \in rows, v \in users'[s] :
                v.id = u.id /\ v.id = r.user_id /\ v.email = r.email
  <2>1. users' # users
    OBVIOUS
  <2>2. PICK r \in RowsOf(req[t].email) :
          add_user(t, [id |-> r.user_id, email |-> r.email,
                       nickname |-> r.nickname, connection |-> sender[t]])
    BY <1>1, <2>1 DEF login_select
  <2> DEFINE v == [id |-> r.user_id, email |-> r.email,
                   nickname |-> r.nickname, connection |-> sender[t]]
  <2>3. s = t /\ v \in users'[s] /\ u.id = v.id
    BY <2>2 DEF add_user, AccTypeOK
  <2> QED
    BY <2>2, <2>3 DEF RowsOf
<1>2. ASSUME NEW t \in Server, ~login_select(t),
             \/ \E c \in Conn, q \in Request : handle(t, c, q)
             \/ Statement(t) \/ reply(t) \/ main(t)
      PROVE  FALSE
  BY <1>2 DEF handle, Statement, reg_select, reg_max, reg_insert, unreg_select, unreg_remove,
              reply, main
<1>3. ASSUME NEW t \in Server, terminate(t)
      PROVE  FALSE
  BY <1>3 DEF terminate, AccTypeOK
<1> QED
  BY <1>1, <1>2, <1>3 DEF AccNext, accVars, Statement

LEMMA EvictionStep ==
    ASSUME Inv, [AccNext]_accVars, OneServer, NEW s \in Server, NEW u \in users[s] \ users'[s]
    PROVE  LeavesRightly(s, u)
<1> SUFFICES ASSUME up'[s], NEW q \in rows, q.user_id = u.id, q.email = u.email
             PROVE  \E v \in users'[s] : v.id = u.id /\ v.email = u.email
  BY DEF LeavesRightly
<1>1. PICK r \in rows, v \in users'[s] :
        v.id = u.id /\ v.id = r.user_id /\ v.email = r.email
  BY EvictingStep DEF Inv
<1>2. q = r
  BY <1>1, Unique DEF Inv
<1> QED
  BY <1>1, <1>2

\* A login costs no other existing account its place in users_.
THEOREM NoExistingUserEvicted == AccSpec => NoOneEvicted
<1> DEFINE Rightly == \A s \in Server : \A u \in users[s] \ users'[s] : LeavesRightly(s, u)
<1>1. CASE OneServer
  <2>1. Inv /\ [AccNext]_accVars => [OneServer => Rightly]_accVars
    BY EvictionStep
  <2> QED
    BY <1>1, <2>1, SoloInvariant, PTL DEF AccSpec, NoOneEvicted
<1>2. CASE ~OneServer
  <2>1. [AccNext]_accVars => [OneServer => Rightly]_accVars
    BY <1>2
  <2> QED
    BY <2>1, PTL DEF AccSpec, NoOneEvicted
<1> QED
  BY <1>1, <1>2
-----------------------------------------------------------------------------
(* What the responses say.                                                  *)

\* A step after which the handler is not at its end keeps the invariant.
LEMMA NoAnswerYet ==
    ASSUME OneServer, NEW s \in Server, pc'[s] # "deliver"
    PROVE  AnswersHold'
<1>1. \A t \in Server : t = s
  BY DEF OneServer
<1> QED
  BY <1>1 DEF AnswersHold

\* It is enough to look at the handler that answers.
LEMMA AnswerGiven ==
    ASSUME OneServer, NEW s \in Server, AnswerHolds(s)'
    PROVE  AnswersHold'
<1>1. \A t \in Server : t = s
  BY DEF OneServer
<1> QED
  BY <1>1 DEF AnswersHold

\* The answer of a handler whose SELECT was all it did.
LEMMA SelectAnswers ==
    ASSUME Inv, NEW s \in Server, pc[s] # "idle", UNCHANGED rows, NEW k \in Code, Answer(s, k),
           k \in {"NAME_UNKNOWN", "NO_NAME"} => RowsOf(req[s].email) = {},
           k = "NAME_TAKEN" => RowsOf(req[s].email) # {},
           k \in {"PASS_INCORRECT", "NO_PASS"} =>
              RowsOf(req[s].email) # {}
              /\ {r \in RowsOf(req[s].email) : r.pass_hash = req_pass(req[s])} = {},
           k # "OK"
    PROVE  AnswerHolds(s)'
<1>1. code'[s] = k /\ req' = req
  BY DEF Inv, AccTypeOK, Answer, Goto
<1> QED
  BY <1>1 DEF AnswerHolds, RowsOf

LEMMA AnswerStep ==
    ASSUME OneServer, Inv, AnswersHold, [AccNext]_accVars
    PROVE  AnswersHold'
<1> USE DEF db, local
<1>t. AccTypeOK
  BY DEF Inv
<1>a. ASSUME NEW s \in Server, NEW c \in Conn, NEW r \in Request, handle(s, c, r)
      PROVE  AnswersHold'
  BY <1>t, <1>a, NoAnswerYet DEF handle, AccTypeOK
<1>b. ASSUME NEW s \in Server, reg_select(s)
      PROVE  AnswersHold'
  <2>1. pc[s] # "idle" /\ UNCHANGED rows
    BY <1>b DEF reg_select, At
  <2>2. CASE RowsOf(req[s].email) # {} /\ Answer(s, "NAME_TAKEN")
    BY <2>1, <2>2, Codes, SelectAnswers, AnswerGiven
  <2>3. CASE Goto(s, "max")
    BY <1>t, <2>3, NoAnswerYet DEF Goto, AccTypeOK
  <2> QED
    BY <1>b, <2>2, <2>3 DEF reg_select
<1>c. ASSUME NEW s \in Server, reg_max(s)
      PROVE  AnswersHold'
  BY <1>t, <1>c, NoAnswerYet DEF reg_max, Goto, AccTypeOK
<1>d. ASSUME NEW s \in Server, reg_insert(s)
      PROVE  AnswersHold'
  <2> DEFINE new == [email |-> req[s].email, nickname |-> req[s].nickname,
                     pass_hash |-> req_pass(req[s]), user_id |-> id_val[s],
                     ctid |-> inserts, by |-> s]
  <2>1. rows' = rows \cup {new} /\ Answer(s, "OK") /\ req[s].type = "register_request"
    BY <1>d DEF reg_insert, At
  <2>2. /\ new.email = req[s].email /\ new.nickname = req[s].nickname
        /\ new.pass_hash = req_pass(req[s]) /\ new.user_id = id_val[s]
    OBVIOUS
  <2> HIDE DEF new
  <2>3. code'[s] = "OK" /\ req' = req /\ id_val' = id_val
    BY <1>t, <2>1 DEF Answer, Goto, AccTypeOK
  <2>4. new \in {r \in RowsOf(req[s].email)' : r.pass_hash = req_pass(req[s])'}
    BY <2>1, <2>2, <2>3 DEF RowsOf, req_pass
  <2>5. AnswerHolds(s)'
    BY <2>1, <2>2, <2>3, <2>4 DEF AnswerHolds
  <2> QED
    BY <2>5, AnswerGiven
<1>e. ASSUME NEW s \in Server, login_select(s)
      PROVE  AnswersHold'
  <2>1. pc[s] # "idle" /\ UNCHANGED rows /\ req[s].type = "login_request"
    BY <1>e DEF login_select, At
  <2> DEFINE right == {r \in RowsOf(req[s].email) : r.pass_hash = req_pass(req[s])}
  <2>2. CASE RowsOf(req[s].email) = {} /\ Answer(s, "NAME_UNKNOWN")
    BY <2>1, <2>2, Codes, SelectAnswers, AnswerGiven
  <2>3. CASE RowsOf(req[s].email) # {} /\ right = {} /\ Answer(s, "PASS_INCORRECT")
    BY <2>1, <2>3, Codes, SelectAnswers, AnswerGiven
  <2>4. ASSUME NEW r \in right, Answer(s, "OK"),
               add_user(s, [id |-> r.user_id, email |-> r.email,
                            nickname |-> r.nickname, connection |-> sender[s]])
        PROVE  AnswersHold'
    <3>1. /\ code'[s] = "OK" /\ req' = req /\ sender' = sender
          /\ [id |-> r.user_id, email |-> r.email, nickname |-> r.nickname,
              connection |-> sender[s]] \in users'[s]
      BY <1>t, <2>4 DEF Answer, Goto, AccTypeOK, add_user
    <3>2. r \in {q \in RowsOf(req[s].email)' : q.pass_hash = req_pass(req[s])'}
      BY <2>1, <3>1 DEF RowsOf, req_pass
    <3>3. AnswerHolds(s)'
      BY <2>1, <3>1, <3>2 DEF AnswerHolds
    <3> QED
      BY <3>3, AnswerGiven
  <2> QED
    BY <1>e, <2>2, <2>3, <2>4 DEF login_select
<1>f. ASSUME NEW s \in Server, unreg_select(s)
      PROVE  AnswersHold'
  <2>1. pc[s] # "idle" /\ UNCHANGED rows
    BY <1>f DEF unreg_select, At
  <2>2. CASE RowsOf(req[s].email) = {} /\ Answer(s, "NO_NAME")
    BY <2>1, <2>2, Codes, SelectAnswers, AnswerGiven
  <2>3. ASSUME NEW first \in RowsOf(req[s].email),
               first.pass_hash # req_pass(req[s]), Answer(s, "NO_PASS")
        PROVE  AnswersHold'
    <3>1. \A r \in RowsOf(req[s].email) : r = first
      BY Unique DEF Inv, RowsOf
    <3>2. {r \in RowsOf(req[s].email) : r.pass_hash = req_pass(req[s])} = {}
      BY <2>3, <3>1
    <3> QED
      BY <2>1, <2>3, <3>2, Codes, SelectAnswers, AnswerGiven
  <2>4. CASE Goto(s, "remove")
    BY <1>t, <2>4, NoAnswerYet DEF Goto, AccTypeOK
  <2> QED
    BY <1>f, <2>2, <2>3, <2>4 DEF unreg_select
<1>g. ASSUME NEW s \in Server, unreg_remove(s)
      PROVE  AnswersHold'
  <2>1. /\ rows' = rows \ RowsOf(req[s].email) /\ Answer(s, "OK")
        /\ req[s].type = "unregister_request"
    BY <1>g DEF unreg_remove, At
  <2>2. code'[s] = "OK" /\ req' = req
    BY <1>t, <2>1 DEF Answer, Goto, AccTypeOK
  <2>3. RowsOf(req[s].email)' = {}
    BY <2>1, <2>2 DEF RowsOf
  <2>4. AnswerHolds(s)'
    BY <2>1, <2>2, <2>3 DEF AnswerHolds
  <2> QED
    BY <2>4, AnswerGiven
<1>h. ASSUME NEW s \in Server, reply(s)
      PROVE  AnswersHold'
  BY <1>t, <1>h, NoAnswerYet DEF reply, Forget, AccTypeOK
<1>i. ASSUME NEW s \in Server, terminate(s)
      PROVE  AnswersHold'
  BY <1>t, <1>i, NoAnswerYet DEF terminate, Forget, AccTypeOK
<1>j. ASSUME NEW s \in Server, main(s)
      PROVE  AnswersHold'
  <2>1. pc'[s] # "deliver"
    BY <1>t, <1>j DEF main, AccTypeOK
  <2> QED
    BY <2>1, NoAnswerYet
<1>k. CASE UNCHANGED accVars
  BY <1>k DEF accVars, AnswersHold, AnswerHolds, RowsOf, req_pass
<1> QED
  BY <1>a, <1>b, <1>c, <1>d, <1>e, <1>f, <1>g, <1>h, <1>i, <1>j, <1>k
  DEF AccNext, Statement

\* Whatever was found out in the statements before, it is so when the response goes out.
THEOREM AnswersAreTrue == AccSpec => []AnswersHold
<1>1. CASE OneServer
  <2>1. AccInit => AnswersHold
    BY DEF AccInit, AnswersHold
  <2>2. Inv /\ AnswersHold /\ [AccNext]_accVars => AnswersHold'
    BY <1>1, AnswerStep
  <2> QED
    BY <1>1, <2>1, <2>2, SoloInvariant, PTL DEF AccSpec
<1>2. CASE ~OneServer
  <2>1. AnswersHold
    BY <1>2 DEF AnswersHold
  <2> QED
    BY <2>1, PTL
<1> QED
  BY <1>1, <1>2
-----------------------------------------------------------------------------
(***************************************************************************)
(* The process implements AccountService: every call takes effect at one   *)
(* instant, whatever the statements of its handler and wherever the        *)
(* process dies.  (That every call is answered is left to TLC.)            *)
(***************************************************************************)

(* The accounts that the rows stand for.                                    *)

LEMMA AccountIsSome ==
    ASSUME AccTypeOK, NEW r \in rows
    PROVE  /\ AccountOf(r) # NoAccount
           /\ AccountOf(r).user_id = r.user_id
           /\ AccountOf(r).password = r.pass_hash.sha512[1]
BY DEF AccTypeOK, tab_user, AccountOf, NoAccount

\* The account of an address that has a row is that row's.
LEMMA BarPresent ==
    ASSUME OneServer, Inv, NEW r \in rows
    PROVE  r.email \in Email /\ accountBar[r.email] = AccountOf(r)
<1>1. r.email \in Email /\ r \in RowsOf(r.email)
  BY DEF Inv, AccTypeOK, tab_user, RowsOf
<1>2. \A q \in RowsOf(r.email) : q = r
  BY Unique DEF Inv, RowsOf
<1>3. (CHOOSE q \in RowsOf(r.email) : TRUE) = r
  BY <1>1, <1>2
<1> QED
  BY <1>1, <1>3 DEF accountBar, AccountIn

LEMMA BarAbsent ==
    ASSUME NEW e \in Email, RowsOf(e) = {}
    PROVE  accountBar[e] = NoAccount
BY DEF accountBar, AccountIn

\* Comparing digests is comparing passwords.
LEMMA SamePassword ==
    ASSUME AccTypeOK, NEW r \in rows, NEW q \in Request
    PROVE  r.pass_hash = req_pass(q) <=> AccountOf(r).password = q.pass_hash
<1>1. r.pass_hash \in [sha512 : Password \X {db_pass_salt}]
  BY DEF AccTypeOK, tab_user, Digest
<1>2. PICK p \in Password : r.pass_hash = [sha512 |-> <<p, db_pass_salt>>]
  BY <1>1
<1>3. AccountOf(r).password = p
  BY <1>2, AccountIsSome
<1>4. req_pass(q) = [sha512 |-> <<q.pass_hash, db_pass_salt>>]
  BY DEF req_pass, hash_
<1>5. r.pass_hash.sha512[1] = p /\ req_pass(q).sha512[1] = q.pass_hash
  BY <1>2, <1>4
<1> QED
  BY <1>2, <1>3, <1>4, <1>5

\* What the abstract service sees of a step of a handler.
LEMMA PhaseStep ==
    ASSUME AccTypeOK, NEW s \in Server,
           NEW l \in {"idle", "select", "max", "insert", "remove", "deliver"},
           pc' = [pc EXCEPT ![s] = l]
    PROVE  phaseBar' = [phaseBar EXCEPT ![s] =
              IF l = "idle" THEN "idle" ELSE IF l = "deliver" THEN "done" ELSE "called"]
BY DEF AccTypeOK, phaseBar

LEMMA PhaseIs ==
    ASSUME NEW s \in Server
    PROVE  phaseBar[s] = IF pc[s] = "idle" THEN "idle"
                         ELSE IF pc[s] = "deliver" THEN "done" ELSE "called"
BY DEF phaseBar

LEMMA CallingStep ==
    ASSUME NEW s \in Server, NEW l \in {"select", "max", "insert", "remove"}, NEW t, At(s, l, t)
    PROVE  AS!Calling(s, t)
BY PhaseIs DEF At, AS!Calling

LEMMA AnswerSettles ==
    ASSUME AccTypeOK, NEW s \in Server, NEW c, Answer(s, c)
    PROVE  AS!Settle(s, c)
<1>1. phaseBar' = [phaseBar EXCEPT ![s] = "done"]
  BY PhaseStep DEF Answer, Goto
<1> QED
  BY <1>1 DEF Answer, Goto, AS!Settle

\* Moving on between two statements is invisible.
LEMMA GotoStutters ==
    ASSUME AccTypeOK, NEW s \in Server, NEW l \in {"max", "insert", "remove"}, Goto(s, l),
           pc[s] \in {"select", "max"}, UNCHANGED <<rows, code>>
    PROVE  UNCHANGED AS!vars
<1>1. phaseBar' = [phaseBar EXCEPT ![s] = "called"]
  BY PhaseStep DEF Goto
<1>2. phaseBar[s] = "called" /\ phaseBar \in [Server -> {"idle", "done", "called"}]
  BY PhaseIs DEF phaseBar
<1>3. accountBar' = accountBar
  BY DEF accountBar, RowsOf
<1>4. phaseBar' = phaseBar
  BY <1>1, <1>2
<1> QED
  BY <1>3, <1>4 DEF AS!vars, Goto
-----------------------------------------------------------------------------
LEMMA RefInit == AccInit => AS!Init
BY DEF AccInit, AS!Init, accountBar, AccountIn, phaseBar, RowsOf

LEMMA RefRegister ==
    ASSUME OneServer, Inv, NEW s \in Server, reg_select(s) \/ reg_insert(s)
    PROVE  AS!Register(s) \/ UNCHANGED AS!vars
<1> USE DEF db
<1>1. req[s] \in Request /\ req[s].type = "register_request" /\ AS!Calling(s, "register_request")
  BY AtRequest, CallingStep DEF reg_select, reg_insert, Inv
<1>2. req[s].email \in Email
  BY <1>1 DEF Request, register_request, login_request, unregister_request
<1>3. CASE reg_select(s)
  <2>1. accountBar' = accountBar /\ rows' = rows
    BY <1>3 DEF reg_select, accountBar, RowsOf
  <2>2. CASE RowsOf(req[s].email) # {} /\ Answer(s, "NAME_TAKEN")
    <3>1. PICK r \in rows : r.email = req[s].email
      BY <2>2 DEF RowsOf
    <3>2. accountBar[req[s].email] # NoAccount
      BY <3>1, BarPresent, AccountIsSome DEF Inv
    <3> QED
      BY <1>1, <2>1, <2>2, <3>2, AnswerSettles DEF AS!Register, Inv
  <2>3. CASE Goto(s, "max") /\ UNCHANGED <<id_val, code>>
    BY <1>3, <2>1, <2>3, GotoStutters DEF Inv, reg_select, At
  <2> QED
    BY <1>3, <2>2, <2>3 DEF reg_select
<1>4. CASE reg_insert(s)
  <2> DEFINE new == [email |-> req[s].email, nickname |-> req[s].nickname,
                     pass_hash |-> req_pass(req[s]), user_id |-> id_val[s],
                     ctid |-> inserts, by |-> s]
             a == [user_id |-> id_val[s], nickname |-> req[s].nickname,
                   password |-> req[s].pass_hash]
  <2>1. rows' = rows \cup {new} /\ At(s, "insert", "register_request") /\ Answer(s, "OK")
    BY <1>4 DEF reg_insert
  <2>2. \A r \in rows : r.by = s
    BY DEF OneServer, Inv, AccTypeOK, tab_user
  <2>3. /\ \A r \in rows : r.email # req[s].email /\ r.user_id < id_val[s] /\ r.user_id \in Nat
        /\ id_val[s] # 0 /\ id_val[s] \in Nat
    BY <2>1, <2>2 DEF Inv, RowInv, RegistersAfresh, AccTypeOK, tab_user
  <2>4. id_val[s] \in 1 .. MaxInserts
    <3>1. id_val[s] <= inserts + 1 /\ inserts < MaxInserts /\ inserts \in Nat
      BY <2>1 DEF Inv, SoloInv, IdsCounted, At, AccTypeOK
    <3> QED
      BY <2>3, <3>1, ConstantsDiffer
  <2>5. accountBar[req[s].email] = NoAccount
    BY <1>2, <2>3, BarAbsent DEF RowsOf
  <2>6. ~AS!IdInUse(id_val[s])
    <3> SUFFICES ASSUME NEW e \in Email, accountBar[e] # NoAccount,
                        accountBar[e].user_id = id_val[s]
                 PROVE  FALSE
      BY DEF AS!IdInUse
    <3>1. PICK r \in rows : r.email = e
      BY BarAbsent DEF RowsOf
    <3>2. accountBar[e].user_id = r.user_id
      BY <3>1, BarPresent, AccountIsSome DEF Inv
    <3> QED
      BY <2>3, <3>2
  <2>7. accountBar' = [accountBar EXCEPT ![req[s].email] = a]
    <3>1. AccountOf(new) = a
      BY DEF AccountOf, req_pass, hash_
    <3>2. \A e \in Email : RowsOf(e)' = IF e = req[s].email THEN {new} ELSE RowsOf(e)
      BY <2>1, <2>3 DEF RowsOf
    <3>3. accountBar' = [e \in Email |-> AccountIn(RowsOf(e)')]
      BY DEF accountBar, AccountIn, AccountOf, NoAccount
    <3>4. AccountIn({new}) = a
      BY <3>1 DEF AccountIn
    <3> HIDE DEF new, a
    <3> QED
      BY <1>2, <3>2, <3>3, <3>4 DEF accountBar
  <2> HIDE DEF new
  <2>8. AS!Settle(s, "OK")
    BY <2>1, AnswerSettles DEF Inv
  <2> QED
    BY <1>1, <2>4, <2>5, <2>6, <2>7, <2>8 DEF AS!Register
<1> QED
  BY <1>3, <1>4

LEMMA RefLogin ==
    ASSUME OneServer, Inv, NEW s \in Server, login_select(s)
    PROVE  AS!Login(s)
<1>1. req[s] \in Request /\ AS!Calling(s, "login_request")
  BY AtRequest, CallingStep DEF login_select, Inv
<1>2. req[s].email \in Email
  BY <1>1 DEF Request, register_request, login_request, unregister_request
<1>3. accountBar' = accountBar
  BY DEF login_select, db, accountBar, RowsOf
<1> DEFINE e == req[s].email
<1>4. CASE RowsOf(e) = {} /\ Answer(s, "NAME_UNKNOWN")
  BY <1>1, <1>2, <1>3, <1>4, BarAbsent, AnswerSettles DEF AS!Login, Inv
<1>5. ASSUME NEW r \in RowsOf(e),
             \/ r.pass_hash = req_pass(req[s]) /\ Answer(s, "OK")
             \/ r.pass_hash # req_pass(req[s]) /\ Answer(s, "PASS_INCORRECT")
      PROVE  AS!Login(s)
  <2>1. r \in rows /\ r.email = e
    BY DEF RowsOf
  <2>2. accountBar[e] = AccountOf(r) /\ accountBar[e] # NoAccount
    BY <2>1, BarPresent, AccountIsSome DEF Inv
  <2>3. r.pass_hash = req_pass(req[s]) <=> accountBar[e].password = req[s].pass_hash
    BY <1>1, <2>1, <2>2, SamePassword DEF Inv
  <2>4. \/ accountBar[e].password = req[s].pass_hash /\ AS!Settle(s, "OK")
        \/ accountBar[e].password # req[s].pass_hash /\ AS!Settle(s, "PASS_INCORRECT")
    BY <1>5, <2>3, AnswerSettles DEF Inv
  <2> QED
    BY <1>1, <1>3, <2>2, <2>4 DEF AS!Login
<1> QED
  BY <1>4, <1>5 DEF login_select

LEMMA RefUnregisterSelect ==
    ASSUME OneServer, Inv, NEW s \in Server, unreg_select(s)
    PROVE  AS!Unregister(s) \/ UNCHANGED AS!vars
<1>1. req[s] \in Request /\ AS!Calling(s, "unregister_request") /\ pc[s] = "select"
  BY AtRequest, CallingStep DEF unreg_select, Inv, At
<1>2. req[s].email \in Email
  BY <1>1 DEF Request, register_request, login_request, unregister_request
<1>3. rows' = rows /\ accountBar' = accountBar
  BY DEF unreg_select, db, accountBar, RowsOf
<1> DEFINE e == req[s].email
<1>4. CASE RowsOf(e) = {} /\ Answer(s, "NO_NAME")
  BY <1>1, <1>2, <1>3, <1>4, BarAbsent, AnswerSettles DEF AS!Unregister, Inv
<1>5. ASSUME NEW r \in RowsOf(e), r.pass_hash # req_pass(req[s]), Answer(s, "NO_PASS")
      PROVE  AS!Unregister(s)
  <2>1. r \in rows /\ r.email = e
    BY DEF RowsOf
  <2>2. accountBar[e] = AccountOf(r) /\ accountBar[e] # NoAccount
    BY <2>1, BarPresent, AccountIsSome DEF Inv
  <2>3. accountBar[e].password # req[s].pass_hash
    BY <1>1, <1>5, <2>1, <2>2, SamePassword DEF Inv
  <2> QED
    BY <1>1, <1>3, <1>5, <2>2, <2>3, AnswerSettles DEF AS!Unregister, Inv
<1>6. CASE Goto(s, "remove") /\ UNCHANGED <<id_val, code>>
  BY <1>1, <1>3, <1>6, GotoStutters DEF Inv
<1> QED
  BY <1>4, <1>5, <1>6 DEF unreg_select

LEMMA RefUnregisterRemove ==
    ASSUME OneServer, Inv, NEW s \in Server, unreg_remove(s)
    PROVE  AS!Unregister(s)
<1>1. req[s] \in Request /\ AS!Calling(s, "unregister_request")
  BY AtRequest, CallingStep DEF unreg_remove, Inv
<1>2. req[s].email \in Email
  BY <1>1 DEF Request, register_request, login_request, unregister_request
<1> DEFINE e == req[s].email
<1>3. PICK r \in rows : r.email = e /\ r.pass_hash = req_pass(req[s])
  BY DEF unreg_remove, Inv, SoloInv, RemovesChecked, RowsOf
<1>4. accountBar[e] # NoAccount /\ accountBar[e].password = req[s].pass_hash
  BY <1>1, <1>3, BarPresent, AccountIsSome, SamePassword DEF Inv
<1>5. AS!Settle(s, "OK")
  BY AnswerSettles DEF unreg_remove, Inv
<1>6. accountBar' = [accountBar EXCEPT ![e] = NoAccount]
  <2>1. \A d \in Email : RowsOf(d)' = IF d = e THEN {} ELSE RowsOf(d)
    BY DEF unreg_remove, RowsOf
  <2>2. accountBar' = [d \in Email |-> AccountIn(RowsOf(d)')]
    BY DEF accountBar, AccountIn, AccountOf, NoAccount
  <2>3. AccountIn({}) = NoAccount
    BY DEF AccountIn
  <2> QED
    BY <1>2, <2>1, <2>2, <2>3 DEF accountBar
<1> QED
  BY <1>1, <1>4, <1>5, <1>6 DEF AS!Unregister

\* A handler that returns or dies ends its call.
LEMMA ForgetFinishes ==
    ASSUME Inv, NEW s \in Server, Forget(s), rows' = rows
    PROVE  AS!Finish(s)
<1>1. phaseBar' = [phaseBar EXCEPT ![s] = "idle"]
  BY PhaseStep DEF Forget, Inv
<1>2. accountBar' = accountBar
  BY DEF accountBar, RowsOf
<1> QED
  BY <1>1, <1>2 DEF Forget, AS!Finish

LEMMA RefStep ==
    ASSUME OneServer, Inv, [AccNext]_accVars
    PROVE  [AS!Next]_(AS!vars)
<1> USE DEF db, local
<1>a. ASSUME NEW s \in Server, NEW c \in Conn, NEW r \in Request, handle(s, c, r)
      PROVE  AS!Next
  <2>1. phaseBar[s] = "idle" /\ phaseBar' = [phaseBar EXCEPT ![s] = "called"]
    BY <1>a, PhaseIs, PhaseStep DEF handle, Inv
  <2>2. accountBar' = accountBar
    BY <1>a DEF handle, accountBar, RowsOf
  <2>3. AS!Call(s, r)
    BY <1>a, <2>1, <2>2 DEF handle, AS!Call
  <2>4. r \in AS!Request
    BY DEF Request, register_request, login_request, unregister_request, AS!Request,
           AS!RegisterRequest, AS!LoginRequest, AS!UnregisterRequest
  <2> QED
    BY <2>3, <2>4 DEF AS!Next
<1>b. ASSUME NEW s \in Server, reg_select(s) \/ reg_insert(s)
      PROVE  AS!Next \/ UNCHANGED AS!vars
  BY <1>b, RefRegister DEF AS!Next, AS!Effect
<1>c. ASSUME NEW s \in Server, reg_max(s)
      PROVE  UNCHANGED AS!vars
  BY <1>c, GotoStutters DEF reg_max, Inv, At
<1>d. ASSUME NEW s \in Server, login_select(s)
      PROVE  AS!Next
  BY <1>d, RefLogin DEF AS!Next, AS!Effect
<1>e. ASSUME NEW s \in Server, unreg_select(s) \/ unreg_remove(s)
      PROVE  AS!Next \/ UNCHANGED AS!vars
  BY <1>e, RefUnregisterSelect, RefUnregisterRemove DEF AS!Next, AS!Effect
<1>f. ASSUME NEW s \in Server, reply(s)
      PROVE  AS!Next
  <2>1. AS!Finish(s) /\ phaseBar[s] = "done"
    BY <1>f, ForgetFinishes, PhaseIs DEF reply
  <2> QED
    BY <2>1 DEF AS!Next, AS!Return
<1>g. ASSUME NEW s \in Server, terminate(s)
      PROVE  AS!Next \/ UNCHANGED AS!vars
  <2>1. CASE pc[s] # "idle"
    <3>1. AS!Finish(s) /\ phaseBar[s] # "idle"
      BY <1>g, <2>1, ForgetFinishes, PhaseIs DEF terminate
    <3> QED
      BY <3>1 DEF AS!Next, AS!Vanish
  <2>2. CASE pc[s] = "idle"
    <3>1. UNCHANGED <<pc, req, code, rows>>
      BY <1>g, <2>2 DEF terminate, Forget, Inv, AccTypeOK, SoloInv, IdleForgets
    <3> QED
      BY <3>1 DEF AS!vars, accountBar, phaseBar, RowsOf
  <2> QED
    BY <2>1, <2>2
<1>h. ASSUME NEW s \in Server, main(s)
      PROVE  UNCHANGED AS!vars
  BY <1>h DEF main, AS!vars, accountBar, phaseBar, RowsOf
<1>i. CASE UNCHANGED accVars
  BY <1>i DEF accVars, AS!vars, accountBar, phaseBar, RowsOf
<1> QED
  BY <1>a, <1>b, <1>c, <1>d, <1>e, <1>f, <1>g, <1>h, <1>i DEF AccNext, Statement

\* Where one process uses the database, every register, login and unregister request takes
\* effect at one instant between its arrival and its reply, or, if the process dies, then
\* or never; the reply's code is the one of that instant.
THEOREM ImplementsAccountService ==
    ASSUME OneServer
    PROVE  AccSpec => AS!Spec
<1>1. AccInit => AS!Init
  BY RefInit
<1>2. Inv /\ [AccNext]_accVars => [AS!Next]_(AS!vars)
  BY RefStep
<1> QED
  BY <1>1, <1>2, SoloInvariant, PTL DEF AccSpec, AS!Spec
=============================================================================
