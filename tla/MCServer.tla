------------------------------ MODULE MCServer ------------------------------
(* An instance of the server's front end. The parts share no state beyond     *)
(* what Frontend composes, so one run explores them one at a time: `scene`    *)
(* is chosen at the start and says which part moves.                          *)
EXTENDS Frontend, StatementCache, Auth, Listener, TLC

CONSTANTS admin, guest, pw, pw2, noPassword, adminToken, guestToken,
          MaxLookups   \* bound on the uses of a cache by requests and plans

VARIABLE scene

Statement(kind, user, password, role) ==
    [kind |-> kind, user |-> user, password |-> password, role |-> role]
Plain(kind) == Statement(kind, guest, noPassword, "none")

(* Texts and the statements they parse to. Some differ in blanks only; of two *)
(* with a line comment, the one parses to a read and the other to a write.    *)
Texts ==
    <<"MATCH">> :> Plain("read")
    @@ <<"MATCH", " ">> :> Plain("read")
    @@ <<"MATCH", "//", " ", "CREATE">> :> Plain("read")
    @@ <<"MATCH", "//", "NL", "CREATE">> :> Plain("write")
    @@ <<"CREATE">> :> Plain("write")
    @@ <<"CREATE", "NL", "USER">> :> Statement("create_user", guest, pw, "read_only")
    @@ <<"DROP", " ", "USER">> :> Statement("drop_user", guest, noPassword, "none")
    @@ <<"ALTER", " ", "USER">> :> Statement("alter_user", admin, pw, "read_only")
    @@ <<"ALTER", " ", " ", "ROLE">> :> Statement("alter_user", guest, noPassword, "admin")
    @@ <<"BAD">> :> ParseError
TextQueries == DOMAIN Texts
RequestedTexts == {<<"MATCH">>, <<"MATCH", "//", " ", "CREATE">>, <<"MATCH", "//", "NL", "CREATE">>,
                   <<"CREATE", "NL", "USER">>, <<"DROP", " ", "USER">>, <<"ALTER", " ", "USER">>}
PlannedTexts == {<<"MATCH">>, <<"MATCH", " ">>, <<"CREATE">>, <<"ALTER", " ", " ", "ROLE">>}

(* Two string literals that differ in the blanks inside them. What a text     *)
(* parses to is told by the words of its tokens.                              *)
PX == INSTANCE Parser
LiteralTexts ==
    [q \in {<<"'", "a", " ", "a", "'">>, <<"'", "a", " ", " ", "a", "'">>} |->
        LET tokens == PX!Tokenize(q).tokens
        IN [kind |-> "read", words |-> [i \in DOMAIN tokens |-> tokens[i].value]]]
LiteralQueries == DOMAIN LiteralTexts

Scenes == {"requests", "accounts", "statements", "plans", "rules", "connections"}

(* In the scene of requests the administrator and a guest are logged in.      *)
GuestAccount == [password |-> pw, role |-> "read_only", id |-> 2]
SessionOf(n, us) == [user |-> n, role |-> us[n].role, id |-> us[n].id, at |-> 0]
LoggedIn ==
    /\ users = With(DefaultUsers, guest, GuestAccount)
    /\ sessions = adminToken :> SessionOf(admin, users) @@ guestToken :> SessionOf(guest, users)
    /\ issued = Tokens /\ accounts = 2 /\ saving = FALSE /\ file = NoFile /\ now = 0

(* In the scene of accounts one token is free, the other was given out and    *)
(* withdrawn.                                                                 *)
MCInit ==
    /\ scene \in Scenes
    /\ CASE scene = "requests" -> LoggedIn
         [] scene = "accounts" ->
                /\ users = DefaultUsers /\ sessions = NoSessions /\ issued = {adminToken}
                /\ saving \in BOOLEAN /\ file = NoFile /\ accounts = 1 /\ now = 0
         [] OTHER -> AuthInit /\ saving = FALSE
    /\ CacheInit /\ conns = [c \in Conns |-> Idle] /\ ran = NothingRan
    /\ PlanInit /\ AclInit /\ ListenerInit
    /\ scene # "plans" => stats = CHOOSE s \in AllStats : TRUE

Requests ==
    /\ scene = "requests" /\ Next /\ ast'.clock <= MaxLookups
    /\ UNCHANGED <<planVars, rules, listenerVars>>
(* A bound: in the scene of accounts only the guest's password changes.       *)
PasswordKept == admin \in DOMAIN users' => users'[admin].password = pw
Accounts ==
    /\ scene = "accounts" /\ AuthNext /\ PasswordKept
    /\ UNCHANGED <<cacheVars, conns, ran, planVars, rules, listenerVars>>
Statements ==
    /\ scene = "statements" /\ CacheNext
    /\ UNCHANGED <<authVars, conns, ran, planVars, rules, listenerVars>>
Plans ==
    /\ scene = "plans" /\ PlanNext /\ plans'.clock <= MaxLookups
    /\ UNCHANGED <<vars, rules, listenerVars>>
RuleChanges == scene = "rules" /\ AclNext /\ UNCHANGED <<vars, planVars, listenerVars>>
Connections == scene = "connections" /\ ListenerNext /\ UNCHANGED <<vars, planVars, rules>>

MCNext ==
    /\ Requests \/ Accounts \/ Statements \/ Plans \/ RuleChanges \/ Connections
    /\ UNCHANGED scene

MCSpec ==
    /\ MCInit /\ [][MCNext]_<<vars, planVars, rules, listenerVars, scene>>
    /\ ListenerFairness
=============================================================================
