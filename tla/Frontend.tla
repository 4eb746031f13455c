------------------------------ MODULE Frontend ------------------------------
(* The way of a request through the server (handle_connection and the         *)
(* functions it calls in maharit-server/src/tcp_server.rs): the session check,*)
(* user management, authorisation and execution, each of them a step of its   *)
(* own, since the lock on the users and the lock on the statement cache are   *)
(* taken and released one after the other and other connections run between. *)
(* What a statement does to the graph is TxServer's and Database's matter;    *)
(* here it is recorded which statement ran, and for which role.               *)
EXTENDS Auth, StatementCache

CONSTANTS Conns,         \* connections
          NoToken,       \* a request without a session token
          RequireAuth,   \* ServerConfig.require_auth
          Requested      \* the texts clients send

(* The parser gives a CREATE USER a name and a password.                      *)
ASSUME FrontendAssumption ==
    /\ Requested \subseteq Queries
    /\ \A q \in Queries :
         ParseOf[q] # ParseError /\ ParseOf[q].kind = "create_user"
             => ParseOf[q].user \in Names /\ ParseOf[q].password \in Passwords

VARIABLES conns,   \* connection -> the request it serves and how far it is
          ran      \* the statement the last step executed, or managed users with

vars == <<authVars, cacheVars, conns, ran>>

Idle == [st |-> "idle", query |-> <<>>, role |-> "read_only", stream |-> FALSE,
         statement |-> ParseError]
NothingRan == [query |-> <<>>, statement |-> ParseError, role |-> "admin", as |-> "Read"]

UserManagement == {"create_user", "drop_user", "alter_user", "show_users"}
IsUserManagement(s) == s # ParseError /\ s.kind \in UserManagement
IsReadOnly(s) == s.kind \in {"read", "show_users"}
OperationOf(s) == IF IsReadOnly(s) THEN "Read" ELSE "Write"

(* The role a request runs with, or a refusal; the session in use is renewed. *)
CheckSessionOk(t) == ~RequireAuth \/ (t # NoToken /\ ValidateResult(t) = "Ok")
RoleOf(t) == IF RequireAuth THEN sessions[t].role ELSE "admin"
CheckSession(t) ==
    IF RequireAuth /\ t # NoToken THEN ValidateSession(t) ELSE UNCHANGED authVars

(* The text is parsed anew; one that does not parse is left to the execution. *)
AuthorizeQuery(role, q) ==
    ParseOf[q] = ParseError \/ OperationOf(ParseOf[q]) \in Permitted(role)

Free(c) == conns[c].st = "idle"
Become(c, st, s) == conns' = [conns EXCEPT ![c].st = st, ![c].statement = s]
Answered(c) == conns' = [conns EXCEPT ![c] = Idle]

Login(c, n, p, t) ==
    /\ Free(c) /\ Authenticate(n, p, t)
    /\ ran' = NothingRan /\ NoLookup /\ UNCHANGED conns

(* A query or a stream arrives. Without a valid session it is refused.        *)
Arrive(c, q, t, stream) ==
    /\ Free(c)
    /\ CheckSession(t)
    /\ conns' = IF CheckSessionOk(t)
                THEN [conns EXCEPT ![c] = [st |-> "checked", query |-> q, role |-> RoleOf(t),
                                           stream |-> stream, statement |-> ParseError]]
                ELSE conns
    /\ ran' = NothingRan /\ NoLookup

(* A query is looked up in the statement cache. User management is for        *)
(* administrators; other statements and texts that do not parse go on to the  *)
(* authorisation, where a stream starts.                                      *)
Dispatch(c) ==
    LET q == conns[c].query
        role == conns[c].role
        s == GetOrParse(ast, q).statement
        manages == ~conns[c].stream /\ IsUserManagement(s)
    IN /\ conns[c].st = "checked"
       /\ IF conns[c].stream THEN NoLookup ELSE Parse(q)
       /\ IF manages
          THEN IF RequireAuth /\ "ManageUsers" \notin Permitted(role)
               THEN Answered(c) ELSE Become(c, "managing", s)
          ELSE IF AuthorizeQuery(role, q)
               THEN Become(c, "executing", ParseError) ELSE Answered(c)
       /\ ran' = NothingRan /\ UNCHANGED authVars

(* ALTER USER sets the password first and the role after it; when the role is *)
(* unknown or refused, the new password stays.                                *)
AlterUser(s) ==
    LET n == s.user
        setsPassword == s.password \in Passwords /\ n \in DOMAIN users
        setsRole == s.role \in Roles /\ n \in DOMAIN users /\ AlterUserRoleResult(n, s.role) = "Ok"
        withPassword == IF setsPassword THEN [users EXCEPT ![n].password = s.password] ELSE users
    IN /\ users' = IF setsRole THEN [withPassword EXCEPT ![n].role = s.role] ELSE withPassword
       /\ file' \in IF saving /\ (setsPassword \/ setsRole)
                    THEN {Saved(users'), Saved(withPassword), file, TornFile} ELSE {file}
       /\ UNCHANGED <<sessions, issued, saving, accounts, now>>

Manage(c) ==
    LET s == conns[c].statement
    IN /\ conns[c].st = "managing"
       /\ CASE s.kind = "create_user" /\ s.role \in Roles ->
                 CreateUser(s.user, s.password, s.role)
            [] s.kind = "drop_user" -> DropUser(s.user)
            [] s.kind = "alter_user" -> AlterUser(s)
            [] OTHER -> UNCHANGED authVars
       /\ ran' = [query |-> conns[c].query, statement |-> s, role |-> conns[c].role,
                  as |-> "ManageUsers"]
       /\ Answered(c)
       /\ NoLookup

(* The statement is taken from the cache once more and executed.              *)
Execute(c) ==
    LET q == conns[c].query
        s == GetOrParse(ast, q).statement
    IN /\ conns[c].st = "executing"
       /\ Parse(q)
       /\ ran' = IF s = ParseError THEN NothingRan
                 ELSE [query |-> q, statement |-> s, role |-> conns[c].role,
                       as |-> OperationOf(s)]
       /\ Answered(c)
       /\ UNCHANGED authVars

(* BEGIN, COMMIT and ROLLBACK check the session; a transaction that may write *)
(* also needs the right to write.                                             *)
TransactionRequest(c, t, begins, readOnly) ==
    /\ Free(c)
    /\ CheckSession(t)
    /\ ran' = IF CheckSessionOk(t) /\ begins /\ ~readOnly /\ "Write" \in Permitted(RoleOf(t))
              THEN [NothingRan EXCEPT !.role = RoleOf(t), !.as = "Write"] ELSE NothingRan
    /\ NoLookup /\ UNCHANGED conns

(* The process ends and starts again: connections and sessions are gone.      *)
Reboot ==
    /\ Restart
    /\ ClearCache
    /\ conns' = [c \in Conns |-> Idle] /\ ran' = NothingRan

Init ==
    /\ AuthInit /\ CacheInit
    /\ conns = [c \in Conns |-> Idle] /\ ran = NothingRan

Next ==
    \/ Reboot
    \/ \E c \in Conns :
         \/ Dispatch(c) \/ Manage(c) \/ Execute(c)
         \/ \E n \in Names, p \in Passwords, t \in Tokens : Login(c, n, p, t)
         \/ \E t \in Tokens \cup {NoToken} :
              \/ \E q \in Requested, stream \in BOOLEAN : Arrive(c, q, t, stream)
              \/ \E begins, readOnly \in BOOLEAN : TransactionRequest(c, t, begins, readOnly)

FrontendSpec == Init /\ [][Next]_vars
-----------------------------------------------------------------------------
(* Properties.                                                                *)

FrontendTypeOK ==
    /\ AuthTypeOK /\ CacheTypeOK
    /\ \A c \in Conns : conns[c].st \in {"idle", "checked", "managing", "executing"}

(* Every statement that runs belongs to the key of the text it was asked for, *)
(* and users are managed only with a role that may. When the key decides,     *)
(* the statement is the one of the text itself and the role that the request  *)
(* was checked with may run it, although the text is parsed for the           *)
(* authorisation and looked up in the shared cache for the execution, and     *)
(* other requests fill, empty and evict that cache between the two. Nothing   *)
(* more is said of a text with a line comment or with blanks in a literal.    *)
RanAsAuthorized ==
    ran = NothingRan \/
        /\ ran.query # <<>> => Belongs(ran.statement, ran.query)
        /\ RequireAuth /\ (KeyDecides(ran.query) \/ ran.as = "ManageUsers")
             => ran.as \in Permitted(ran.role)
        /\ ran.as = "Read" /\ ran.query # <<>> /\ KeyDecides(ran.query)
             => IsReadOnly(ParseOf[ran.query])

(* Access is guarded at every level: someone can administer, sessions belong  *)
(* to live accounts, a statement whose key decides runs only with a role that *)
(* may run it, and the rules on labels are monotone.                          *)
AccessGuarded ==
    /\ FrontendTypeOK
    /\ AdminRemains /\ SessionsOfLiveAccounts
    /\ RanAsAuthorized /\ AclCoarserIsStricter
=============================================================================
