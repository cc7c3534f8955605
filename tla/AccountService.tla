--------------------------- MODULE AccountService ---------------------------
(***************************************************************************)
(* What the poker backend promises about accounts, with no database, no    *)
(* table scan and no connection in sight: each e-mail address holds at     *)
(* most one account, and each call of a caller takes effect at one instant *)
(* between the moment it is made and the moment it is answered.  A caller  *)
(* may vanish at any time; its call then has taken effect or it has not.   *)
(*                                                                         *)
(* The three requests and the codes that answer them are those of          *)
(* components/api/api.h.  Module Accounts is shown to implement this one.  *)
(***************************************************************************)
EXTENDS Naturals

CONSTANTS
    Caller,       \* those who make calls, one call each at a time
    Email, Nickname, Password,
    UserId,       \* the ids an account can be given
    NoAccount,    \* account[e] when e is not registered
    NoRequest     \* arg[k] when k has no call under way

RegisterRequest ==
    [type : {"register_request"}, nickname : Nickname, email : Email, pass_hash : Password]
LoginRequest == [type : {"login_request"}, email : Email, pass_hash : Password]
UnregisterRequest == [type : {"unregister_request"}, email : Email, pass_hash : Password]

\* The requests the service answers.
Request == RegisterRequest \cup LoginRequest \cup UnregisterRequest

\* The codes an answer can carry.
Code == {"OK", "NAME_TAKEN", "NAME_UNKNOWN", "PASS_INCORRECT", "NO_NAME", "NO_PASS"}

Account == [user_id : UserId, nickname : Nickname, password : Password]

VARIABLES
    account,      \* the account of each e-mail address, or NoAccount
    phase,        \* where each caller is: "idle", "called" or "done"
    arg,          \* the request of the call under way
    answer        \* its code, once the call has taken effect

vars == <<account, phase, arg, answer>>

TypeOK ==
    /\ account \in [Email -> Account \cup {NoAccount}]
    /\ phase \in [Caller -> {"idle", "called", "done"}]
    /\ arg \in [Caller -> Request \cup {NoRequest}]
    /\ answer \in [Caller -> Code \cup {"none"}]

Init ==
    /\ account = [e \in Email |-> NoAccount]
    /\ phase = [k \in Caller |-> "idle"]
    /\ arg = [k \in Caller |-> NoRequest]
    /\ answer = [k \in Caller |-> "none"]
-----------------------------------------------------------------------------
Call(k, r) ==
    /\ phase[k] = "idle"
    /\ phase' = [phase EXCEPT ![k] = "called"]
    /\ arg' = [arg EXCEPT ![k] = r]
    /\ UNCHANGED <<account, answer>>

\* The call of k takes effect and its answer is settled.
Settle(k, code) ==
    /\ phase' = [phase EXCEPT ![k] = "done"]
    /\ answer' = [answer EXCEPT ![k] = code]
    /\ UNCHANGED arg

Calling(k, type) == phase[k] = "called" /\ arg[k].type = type

IdInUse(i) == \E e \in Email : account[e] # NoAccount /\ account[e].user_id = i

Register(k) ==
    /\ Calling(k, "register_request")
    /\ \/ /\ account[arg[k].email] # NoAccount
          /\ Settle(k, "NAME_TAKEN")
          /\ UNCHANGED account
       \/ /\ account[arg[k].email] = NoAccount
          /\ Settle(k, "OK")
          /\ \E i \in UserId :
                /\ ~IdInUse(i)
                /\ account' = [account EXCEPT ![arg[k].email] =
                                 [user_id |-> i, nickname |-> arg[k].nickname,
                                  password |-> arg[k].pass_hash]]

Login(k) ==
    /\ Calling(k, "login_request")
    /\ LET a == account[arg[k].email] IN
         \/ a = NoAccount /\ Settle(k, "NAME_UNKNOWN")
         \/ a # NoAccount /\ a.password = arg[k].pass_hash /\ Settle(k, "OK")
         \/ a # NoAccount /\ a.password # arg[k].pass_hash /\ Settle(k, "PASS_INCORRECT")
    /\ UNCHANGED account

Unregister(k) ==
    /\ Calling(k, "unregister_request")
    /\ LET a == account[arg[k].email] IN
         \/ a = NoAccount /\ Settle(k, "NO_NAME") /\ UNCHANGED account
         \/ /\ a # NoAccount /\ a.password # arg[k].pass_hash
            /\ Settle(k, "NO_PASS")
            /\ UNCHANGED account
         \/ /\ a # NoAccount /\ a.password = arg[k].pass_hash
            /\ Settle(k, "OK")
            /\ account' = [account EXCEPT ![arg[k].email] = NoAccount]

\* The call ends, answered or (its caller having vanished) not.
Finish(k) ==
    /\ phase' = [phase EXCEPT ![k] = "idle"]
    /\ arg' = [arg EXCEPT ![k] = NoRequest]
    /\ answer' = [answer EXCEPT ![k] = "none"]
    /\ UNCHANGED account

Return(k) == phase[k] = "done" /\ Finish(k)

Vanish(k) == phase[k] # "idle" /\ Finish(k)
-----------------------------------------------------------------------------
Effect(k) == Register(k) \/ Login(k) \/ Unregister(k)

Next ==
    \E k \in Caller :
        \/ \E r \in Request : Call(k, r)
        \/ Effect(k)
        \/ Return(k)
        \/ Vanish(k)

Spec == Init /\ [][Next]_vars

\* A call that is made takes effect and is answered, unless its caller vanishes.
FairSpec == Spec /\ \A k \in Caller : WF_vars(Effect(k)) /\ WF_vars(Return(k))
=============================================================================
