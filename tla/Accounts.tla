------------------------------ MODULE Accounts ------------------------------
(***************************************************************************)
(* The account handlers of the poker backend: mes_handler's three request  *)
(* handlers (src/net/mes_handler), the table of logged-in users they fill  *)
(* (src/server.cpp, src/user.cpp) and the PostgreSQL table "users" they    *)
(* read and write through database_worker.                                 *)
(*                                                                         *)
(* A handler runs on the one thread of its process and issues its SQL      *)
(* statements one after the other, outside any transaction.  Each          *)
(* statement is therefore a step of its own: the process may die between   *)
(* two of them (a statement that throws ends the process, main.cpp's       *)
(* io_context.run() catches nothing), and another server process started   *)
(* with the same --db_config may issue its own statements in between.      *)
(* A process that dies keeps its rows and loses everything else.           *)
(***************************************************************************)
EXTENDS Naturals, FiniteSets

CONSTANTS
    Server,       \* the server processes that share the database
    Conn,         \* connections (tcp_connection objects)
    Email, Nickname, Password,
    db_pass_salt, \* the salt all processes read from the configuration
    NoConn, NoRequest,
    MaxInserts    \* bound: no register request starts after this many INSERTs

ASSUME ConstantsDiffer == NoConn \notin Conn /\ MaxInserts \in Nat

\* The deployment the repository runs (tests/test_runner.cpp): one process at a time
\* uses the database.  An assumption of some theorems, never of the module.
OneServer == \A s, t \in Server : s = t

register_request ==
    [type : {"register_request"}, nickname : Nickname, email : Email, pass_hash : Password]
login_request == [type : {"login_request"}, email : Email, pass_hash : Password]
unregister_request == [type : {"unregister_request"}, email : Email, pass_hash : Password]

Request == register_request \cup login_request \cup unregister_request

register_code == {"OK", "NAME_TAKEN"}
login_code == {"OK", "NAME_UNKNOWN", "PASS_INCORRECT"}
unregister_code == {"OK", "NO_NAME", "NO_PASS"}
Code == register_code \cup login_code \cup unregister_code

\* SHA-512 of the password and the salt, as an injection: collisions are left out.
hash_(orig) == [sha512 |-> orig]
Digest == [sha512 : Password \X {db_pass_salt}]
req_pass(r) == hash_(<<r.pass_hash, db_pass_salt>>)

\* A row of table "users".  ctid is the row's own identity, by the process that inserted
\* it; no query reads these two.
tab_user ==
    [email : Email, nickname : Nickname, pass_hash : Digest, user_id : Nat \ {0},
     ctid : Nat, by : Server]

\* A logged-in user (class user).
user == [id : Nat \ {0}, email : Email, nickname : Nickname, connection : Conn]

VARIABLES
    rows,         \* the table: a set of rows told apart by ctid
    inserts,      \* how many INSERTs the table has seen
    up,           \* which processes run
    users,        \* server::users_ of each process, at most one user per id
    pc,           \* where the handler of each process is
    req,          \* the request it handles
    sender,       \* the connection the request came from
    id_val,       \* handle_reg_request_'s local id_val
    code          \* rsp.code

db == <<rows, inserts>>
local == <<req, sender, id_val, code>>
accVars == <<rows, inserts, up, users, pc, req, sender, id_val, code>>

AccTypeOK ==
    /\ rows \in SUBSET tab_user
    /\ inserts \in Nat
    /\ up \in [Server -> BOOLEAN]
    /\ users \in [Server -> SUBSET user]
    /\ pc \in [Server -> {"idle", "select", "max", "insert", "remove", "deliver"}]
    /\ req \in [Server -> Request \cup {NoRequest}]
    /\ sender \in [Server -> Conn \cup {NoConn}]
    /\ id_val \in [Server -> Nat]
    /\ code \in [Server -> Code \cup {"none"}]
    /\ \A s \in Server : pc[s] # "idle" => up[s] /\ req[s] \in Request /\ sender[s] \in Conn

AccInit ==
    /\ rows = {}
    /\ inserts = 0
    /\ up = [s \in Server |-> TRUE]
    /\ users = [s \in Server |-> {}]
    /\ pc = [s \in Server |-> "idle"]
    /\ req = [s \in Server |-> NoRequest]
    /\ sender = [s \in Server |-> NoConn]
    /\ id_val = [s \in Server |-> 0]
    /\ code = [s \in Server |-> "none"]
-----------------------------------------------------------------------------
\* select ... from users where email = e
RowsOf(e) == {r \in rows : r.email = e}

\* select max(user_id) from users; NULL, the answer for an empty table, reads as 0.
max_user_id ==
    {m \in {0} \cup {r.user_id : r \in rows} : \A r \in rows : r.user_id <= m}

\* users_[u->id()] = u
add_user(s, u) == users' = [users EXCEPT ![s] = {v \in @ : v.id # u.id} \cup {u}]

\* The handler of s is at statement l of a request of type t.
At(s, l, t) == pc[s] = l /\ req[s].type = t

Goto(s, l) == pc' = [pc EXCEPT ![s] = l] /\ UNCHANGED <<up, req, sender>>

\* rsp.code = c, and nothing is left but to deliver the response.
Answer(s, c) ==
    /\ Goto(s, "deliver")
    /\ code' = [code EXCEPT ![s] = c]
    /\ UNCHANGED id_val

\* mes_handler::handle with a request of a known type.
handle(s, c, r) ==
    /\ up[s] /\ pc[s] = "idle"
    /\ r.type = "register_request" => inserts < MaxInserts
    /\ pc' = [pc EXCEPT ![s] = "select"]
    /\ req' = [req EXCEPT ![s] = r]
    /\ sender' = [sender EXCEPT ![s] = c]
    /\ UNCHANGED <<db, up, users, id_val, code>>

\* Mutant: the look-up's answer is ignored.
reg_select_unchecked(s) ==
    /\ At(s, "select", "register_request") /\ Goto(s, "max")
    /\ UNCHANGED <<db, users, id_val, code>>

reg_select(s) ==
    /\ At(s, "select", "register_request")
    /\ \/ /\ RowsOf(req[s].email) # {}
          /\ Answer(s, "NAME_TAKEN")
       \/ /\ RowsOf(req[s].email) = {}
          /\ Goto(s, "max")
          /\ UNCHANGED <<id_val, code>>
    /\ UNCHANGED <<db, users>>

\* Mutant: the new id is max, not max + 1.
reg_max_itself(s) ==
    /\ At(s, "max", "register_request")
    /\ \E m \in max_user_id : id_val' = [id_val EXCEPT ![s] = m]
    /\ Goto(s, "insert")
    /\ UNCHANGED <<db, users, code>>

\* Mutant: max is taken over the rows of the address (none), not unconditionally.
reg_max_where(s) ==
    /\ At(s, "max", "register_request")
    /\ id_val' = [id_val EXCEPT ![s] = 1]
    /\ Goto(s, "insert")
    /\ UNCHANGED <<db, users, code>>

reg_max(s) ==
    /\ At(s, "max", "register_request")
    /\ \E m \in max_user_id : id_val' = [id_val EXCEPT ![s] = m + 1]
    /\ Goto(s, "insert")
    /\ UNCHANGED <<db, users, code>>

reg_insert(s) ==
    /\ At(s, "insert", "register_request")
    /\ rows' = rows \cup
         {[email |-> req[s].email, nickname |-> req[s].nickname,
           pass_hash |-> req_pass(req[s]), user_id |-> id_val[s],
           ctid |-> inserts, by |-> s]}
    /\ inserts' = inserts + 1
    /\ Answer(s, "OK")
    /\ UNCHANGED users

\* Mutant: the password is not compared.
login_select_any(s) ==
    /\ At(s, "select", "login_request")
    /\ \/ RowsOf(req[s].email) = {} /\ Answer(s, "NAME_UNKNOWN") /\ UNCHANGED users
       \/ \E r \in RowsOf(req[s].email) :
            /\ Answer(s, "OK")
            /\ add_user(s, [id |-> r.user_id, email |-> r.email,
                            nickname |-> r.nickname, connection |-> sender[s]])
    /\ UNCHANGED db

login_select(s) ==
    /\ At(s, "select", "login_request")
    /\ LET results == RowsOf(req[s].email)
           right == {r \in results : r.pass_hash = req_pass(req[s])}
       IN  \/ results = {} /\ Answer(s, "NAME_UNKNOWN") /\ UNCHANGED users
           \/ results # {} /\ right = {} /\ Answer(s, "PASS_INCORRECT") /\ UNCHANGED users
           \/ \E r \in right :
                /\ Answer(s, "OK")
                /\ add_user(s, [id |-> r.user_id, email |-> r.email,
                                nickname |-> r.nickname, connection |-> sender[s]])
    /\ UNCHANGED db

\* Mutant: a known address is enough to unregister it.
unreg_select_any(s) ==
    /\ At(s, "select", "unregister_request")
    /\ \/ RowsOf(req[s].email) = {} /\ Answer(s, "NO_NAME")
       \/ RowsOf(req[s].email) # {} /\ Goto(s, "remove") /\ UNCHANGED <<id_val, code>>
    /\ UNCHANGED <<db, users>>

unreg_select(s) ==
    /\ At(s, "select", "unregister_request")
    /\ LET results == RowsOf(req[s].email)
       IN  \/ results = {} /\ Answer(s, "NO_NAME")
           \/ \E first \in results :
                \/ first.pass_hash # req_pass(req[s]) /\ Answer(s, "NO_PASS")
                \/ /\ first.pass_hash = req_pass(req[s])
                   /\ Goto(s, "remove")
                   /\ UNCHANGED <<id_val, code>>
    /\ UNCHANGED <<db, users>>

unreg_remove(s) ==
    /\ At(s, "remove", "unregister_request")
    /\ rows' = rows \ RowsOf(req[s].email)
    /\ Answer(s, "OK")
    /\ UNCHANGED <<inserts, users>>

\* The locals of a handler that has returned are gone.
Forget(s) ==
    /\ pc' = [pc EXCEPT ![s] = "idle"]
    /\ req' = [req EXCEPT ![s] = NoRequest]
    /\ sender' = [sender EXCEPT ![s] = NoConn]
    /\ id_val' = [id_val EXCEPT ![s] = 0]
    /\ code' = [code EXCEPT ![s] = "none"]

\* sender->deliver(rsp.to_json()), with which the handler returns.
reply(s) == pc[s] = "deliver" /\ Forget(s) /\ UNCHANGED <<db, up, users>>

\* Mutant: a process that ends leaves its handler running.
terminate_mid_handler(s) ==
    /\ up[s]
    /\ up' = [up EXCEPT ![s] = FALSE]
    /\ users' = [users EXCEPT ![s] = {}]
    /\ UNCHANGED <<db, pc, local>>

\* The process ends: a signal, test_runner's terminate(), or an exception out of
\* io_context.run().
terminate(s) ==
    /\ up[s]
    /\ up' = [up EXCEPT ![s] = FALSE]
    /\ users' = [users EXCEPT ![s] = {}]
    /\ Forget(s)
    /\ UNCHANGED db

\* main() brings a new process up on the same database.
main(s) == ~up[s] /\ up' = [up EXCEPT ![s] = TRUE] /\ UNCHANGED <<db, users, pc, local>>
-----------------------------------------------------------------------------
Statement(s) ==
    \/ reg_select(s) \/ reg_max(s) \/ reg_insert(s)
    \/ login_select(s)
    \/ unreg_select(s) \/ unreg_remove(s)

AccNext ==
    \E s \in Server :
        \/ \E c \in Conn, r \in Request : handle(s, c, r)
        \/ Statement(s)
        \/ reply(s)
        \/ terminate(s)
        \/ main(s)

AccSpec == AccInit /\ [][AccNext]_accVars

\* The thread of a process runs the handler it has begun.
AccFairSpec == AccSpec /\ \A s \in Server : WF_accVars(Statement(s)) /\ WF_accVars(reply(s))
-----------------------------------------------------------------------------
\* No process ever enters an e-mail address into the table twice: two rows of one
\* address were inserted by different processes.  handle_reg_request_ looks the address
\* up and inserts it in two statements; only other processes can come between them.
OneRowPerEmailPerServer ==
    \A q, r \in rows : q.email = r.email /\ q.by = r.by => q = r

\* Nor does a process give one user_id to two accounts that exist together, although it
\* computes the id (max + 1) one statement before it inserts it.
OneRowPerIdPerServer ==
    \A q, r \in rows : q.user_id = r.user_id /\ q.by = r.by => q = r

\* Why both hold: between its look-up and its INSERT a process has no row of the address of
\* its own, and between max and INSERT none with an id as high as the one it will use.
\* Other processes add only rows of theirs and otherwise only remove.
RegistersAfresh ==
    \A s \in Server :
        /\ \A r \in rows :
             /\ r.by = s
             /\ At(s, "max", "register_request") \/ At(s, "insert", "register_request")
             => r.email # req[s].email
        /\ At(s, "insert", "register_request") =>
             /\ id_val[s] # 0
             /\ \A r \in rows : r.by = s => r.user_id < id_val[s]

\* The handler of s is at its DELETE of row r, on a request with the password of r.
RemovedByOwner(s, r) ==
    /\ At(s, "remove", "unregister_request")
    /\ r.email = req[s].email
    /\ r.pass_hash = req_pass(req[s])

\* In the deployment of the repository: a row leaves the table only when a handler
\* removes it for a request that carries its password.  handle_unreg_request_ compares the
\* password of one row in one statement and removes every row of the address in another.
OnlyOwnerRemoves ==
    [][OneServer =>
        \A r \in rows \ rows' : \E s \in Server : RemovedByOwner(s, r)]_accVars

\* A user u may leave the table of s: the process ends, u's account logs in again, or that
\* account is gone.
LeavesRightly(s, u) ==
    \/ ~up'[s]
    \/ \E v \in users'[s] : v.id = u.id /\ v.email = u.email
    \/ \A r \in rows : ~(r.user_id = u.id /\ r.email = u.email)

\* In that deployment too: a login pushes a user out of server::users_ only if it is a new
\* login of the same account, or if the account of the one pushed out is gone.  The key is an
\* id that is computed as max + 1 and is free again once its account is unregistered.
NoOneEvicted ==
    [][OneServer =>
        \A s \in Server : \A u \in users[s] \ users'[s] : LeavesRightly(s, u)]_accVars

\* What the code s answers with says of the table, and of its own users_.
AnswerHolds(s) ==
    LET results == RowsOf(req[s].email)
        right == {r \in results : r.pass_hash = req_pass(req[s])}
        OK(t) == code[s] = "OK" /\ req[s].type = t
    IN  /\ code[s] \in {"NAME_UNKNOWN", "NO_NAME"} \/ OK("unregister_request") => results = {}
        /\ code[s] = "NAME_TAKEN" => results # {}
        /\ code[s] \in {"PASS_INCORRECT", "NO_PASS"} => results # {} /\ right = {}
        /\ OK("register_request") =>
              \E r \in right : r.nickname = req[s].nickname /\ r.user_id = id_val[s]
        /\ OK("login_request") =>
              \E r \in right :
                 [id |-> r.user_id, email |-> r.email, nickname |-> r.nickname,
                  connection |-> sender[s]] \in users[s]

\* And in that deployment each answer is still true when the response is delivered, although
\* it was found out statements before, each on its own and outside a transaction.
AnswersHold ==
    OneServer => \A s \in Server : pc[s] = "deliver" => AnswerHolds(s)
-----------------------------------------------------------------------------
(***************************************************************************)
(* Refinement.  The account of an address is its row; a call takes effect  *)
(* at the statement that settles its answer: the SELECT, or the INSERT or  *)
(* DELETE when there is one.                                               *)
(***************************************************************************)
NoAccount == [user_id |-> 0]

AccountOf(r) ==
    [user_id |-> r.user_id, nickname |-> r.nickname, password |-> r.pass_hash.sha512[1]]

\* The account of an address whose rows are R.
AccountIn(R) == IF R = {} THEN NoAccount ELSE AccountOf(CHOOSE r \in R : TRUE)

accountBar == [e \in Email |-> AccountIn(RowsOf(e))]

phaseBar ==
    [s \in Server |-> IF pc[s] = "idle" THEN "idle"
                      ELSE IF pc[s] = "deliver" THEN "done" ELSE "called"]

AS == INSTANCE AccountService
        WITH Caller <- Server, UserId <- 1 .. MaxInserts,
             account <- accountBar, phase <- phaseBar, arg <- req, answer <- code

\* One server implements the account service, its liveness included: every call
\* takes effect at one instant between the request and the reply, whatever statement the
\* process dies at, and is answered unless the process dies.
ImplementsService == AS!FairSpec
=============================================================================
