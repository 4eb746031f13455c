-------------------------------- MODULE Auth --------------------------------
(* Users, sessions and roles (AuthManager of maharit-server/src/auth.rs).     *)
(*                                                                            *)
(* A password stands for its salted hash, which verify_password compares;     *)
(* tokens are drawn from a set, each at most once (256 random bits). `id`     *)
(* counts the accounts created and tells two accounts of one name apart; the  *)
(* code has no such number. The list of users is written to a file after      *)
(* every change when a save path is set, and errors of that write are ignored.*)
EXTENDS Integers, FiniteSets, Sequences
Lists == INSTANCE SequencesExt

CONSTANTS Names, Passwords, Tokens,
          Admin,            \* the name of the account made at the start
          AdminPassword,    \* the password it is given
          SessionTimeout,   \* how long a session may be idle
          MaxTime,          \* bound on the clock
          MaxAccounts       \* bound on the accounts ever created

ASSUME AuthAssumption ==
    /\ Admin \in Names /\ AdminPassword \in Passwords
    /\ SessionTimeout \in Nat /\ MaxTime \in Nat /\ MaxAccounts \in Nat \ {0}

VARIABLES users,      \* name -> account, for the names in use
          sessions,   \* token -> session, for the tokens that are live
          issued,     \* the tokens given out so far
          saving,     \* whether a save path is set
          file,       \* the saved list of users, if there is one
          accounts,   \* how many accounts were created
          now         \* the clock that idle time is measured with

authVars == <<users, sessions, issued, saving, file, accounts, now>>

Roles == {"admin", "read_write", "read_only"}
Operations == {"Read", "Write", "CreateIndex", "DropIndex", "ManageUsers"}
Nothing == [x \in {} |-> 0]
Saved(us) == [state |-> "saved", users |-> us]
NoFile == [state |-> "none", users |-> Nothing]
TornFile == [state |-> "torn", users |-> Nothing]
NoSessions == Nothing
DefaultUsers == [n \in {Admin} |-> [password |-> AdminPassword, role |-> "admin", id |-> 1]]

Without(f, S) == [x \in DOMAIN f \ S |-> f[x]]
With(f, x, v) == [y \in DOMAIN f \cup {x} |-> IF y = x THEN v ELSE f[y]]

Permitted(role) ==
    CASE role = "admin" -> Operations
      [] role = "read_write" -> Operations \ {"ManageUsers"}
      [] role = "read_only" -> {"Read"}

(* auto_save writes the list in place; the write may fail before it changed   *)
(* the file or after it truncated it, and the caller does not learn of it.    *)
AutoSave == file' \in IF saving THEN {Saved(users'), file, TornFile} ELSE {file}

Admins(us) == {n \in DOMAIN us : us[n].role = "admin"}
LastAdmin(n) == users[n].role = "admin" /\ Cardinality(Admins(users)) <= 1

(* The result an operation on a user answers.                                 *)
CreateUserResult(n) == IF n \in DOMAIN users THEN "UserAlreadyExists" ELSE "Ok"
DropUserResult(n) ==
    CASE n \notin DOMAIN users -> "UserNotFound"
      [] n \in DOMAIN users /\ LastAdmin(n) -> "CannotDeleteLastAdmin"
      [] OTHER -> "Ok"
AlterUserRoleResult(n, r) ==
    CASE n \notin DOMAIN users -> "UserNotFound"
      [] n \in DOMAIN users /\ r # "admin" /\ LastAdmin(n) -> "CannotDeleteLastAdmin"
      [] OTHER -> "Ok"
AlterUserPasswordResult(n) == IF n \in DOMAIN users THEN "Ok" ELSE "UserNotFound"
AuthenticateResult(n, p) ==
    IF n \in DOMAIN users /\ users[n].password = p THEN "Ok" ELSE "InvalidCredentials"

Expired(s) == now - s.at > SessionTimeout
ValidateResult(t) ==
    CASE t \notin DOMAIN sessions -> "InvalidSession"
      [] t \in DOMAIN sessions /\ Expired(sessions[t]) -> "SessionExpired"
      [] OTHER -> "Ok"

CreateUser(n, p, r) ==
    IF CreateUserResult(n) = "Ok"
    THEN /\ accounts < MaxAccounts
         /\ accounts' = accounts + 1
         /\ users' = With(users, n, [password |-> p, role |-> r, id |-> accounts + 1])
         /\ AutoSave
         /\ UNCHANGED <<sessions, issued, saving, now>>
    ELSE UNCHANGED authVars

(* A variant of DropUser: the sessions of the user stay.                      *)
DropUserKeepsSessions(n) ==
    IF DropUserResult(n) = "Ok"
    THEN users' = Without(users, {n}) /\ AutoSave
         /\ UNCHANGED <<sessions, issued, saving, accounts, now>>
    ELSE UNCHANGED authVars

(* The account goes and with it every session of its name.                    *)
DropUser(n) ==
    IF DropUserResult(n) = "Ok"
    THEN /\ users' = Without(users, {n})
         /\ sessions' = Without(sessions, {t \in DOMAIN sessions : sessions[t].user = n})
         /\ AutoSave
         /\ UNCHANGED <<issued, saving, accounts, now>>
    ELSE UNCHANGED authVars

(* The account changes its role; its sessions keep the role they have.        *)
AlterUserRole(n, r) ==
    IF AlterUserRoleResult(n, r) = "Ok"
    THEN /\ users' = [users EXCEPT ![n].role = r]
         /\ AutoSave
         /\ UNCHANGED <<sessions, issued, saving, accounts, now>>
    ELSE UNCHANGED authVars

AlterUserPassword(n, p) ==
    IF AlterUserPasswordResult(n) = "Ok"
    THEN /\ users' = [users EXCEPT ![n].password = p]
         /\ AutoSave
         /\ UNCHANGED <<sessions, issued, saving, accounts, now>>
    ELSE UNCHANGED authVars

(* A login: a session under a new token, with the role the account has now.   *)
Authenticate(n, p, t) ==
    IF AuthenticateResult(n, p) = "Ok"
    THEN /\ t \in Tokens \ issued
         /\ issued' = issued \cup {t}
         /\ sessions' = With(sessions, t, [user |-> n, role |-> users[n].role,
                                           id |-> users[n].id, at |-> now])
         /\ UNCHANGED <<users, saving, file, accounts, now>>
    ELSE UNCHANGED authVars

(* A session in use is refreshed; one idle for too long is removed.           *)
ValidateSession(t) ==
    /\ sessions' = CASE ValidateResult(t) = "Ok" -> [sessions EXCEPT ![t].at = now]
                     [] ValidateResult(t) = "SessionExpired" -> Without(sessions, {t})
                     [] OTHER -> sessions
    /\ UNCHANGED <<users, issued, saving, file, accounts, now>>

InvalidateSession(t) ==
    sessions' = Without(sessions, {t}) /\ UNCHANGED <<users, issued, saving, file, accounts, now>>

CleanupExpiredSessions ==
    /\ sessions' = Without(sessions, {t \in DOMAIN sessions : Expired(sessions[t])})
    /\ UNCHANGED <<users, issued, saving, file, accounts, now>>

SaveToFile ==
    file' \in {Saved(users), file, TornFile}
    /\ UNCHANGED <<users, sessions, issued, saving, accounts, now>>

(* The process starts again from the file. Without a file there is the        *)
(* default account, and saving only if the caller asks for it once more; a    *)
(* torn file is an error and no manager comes up.                             *)
Restart ==
    /\ file # TornFile
    /\ IF file = NoFile THEN users' = DefaultUsers /\ saving' \in BOOLEAN
       ELSE users' = file.users /\ saving' = TRUE
    /\ sessions' = NoSessions
    /\ UNCHANGED <<issued, file, accounts, now>>

Tick == now < MaxTime /\ now' = now + 1
        /\ UNCHANGED <<users, sessions, issued, saving, file, accounts>>

AuthInit ==
    /\ users = DefaultUsers /\ sessions = NoSessions /\ issued = {}
    /\ saving \in BOOLEAN /\ file = NoFile /\ accounts = 1 /\ now = 0

AuthNext ==
    \/ CleanupExpiredSessions \/ SaveToFile \/ Restart \/ Tick
    \/ \E t \in Tokens : ValidateSession(t) \/ InvalidateSession(t)
    \/ \E n \in Names :
         \/ DropUser(n)
         \/ \E r \in Roles : AlterUserRole(n, r)
         \/ \E p \in Passwords :
              \/ AlterUserPassword(n, p)
              \/ \E r \in Roles : CreateUser(n, p, r)
              \/ \E t \in Tokens : Authenticate(n, p, t)

AuthSpec == AuthInit /\ [][AuthNext]_authVars
-----------------------------------------------------------------------------
(* Properties.                                                                *)

Account == [password : Passwords, role : Roles, id : 1 .. MaxAccounts]
Session == [user : Names, role : Roles, id : 1 .. MaxAccounts, at : 0 .. MaxTime]
AccountList(us) == DOMAIN us \subseteq Names /\ us \in [DOMAIN us -> Account]

AuthTypeOK ==
    /\ AccountList(users)
    /\ file \in {NoFile, TornFile} \/ (file = Saved(file.users) /\ AccountList(file.users))
    /\ DOMAIN sessions \subseteq issued /\ issued \subseteq Tokens
    /\ sessions \in [DOMAIN sessions -> Session]
    /\ \A t \in DOMAIN sessions : sessions[t].at <= now
    /\ saving \in BOOLEAN /\ accounts \in 1 .. MaxAccounts /\ now \in 0 .. MaxTime

(* Someone can always administer: there is an administrator among the users,  *)
(* and in every list that was saved, so also after a restart at any point     *)
(* ("Cannot delete the last admin user").                                     *)
AdminRemains ==
    /\ Admins(users) # {}
    /\ file.state = "saved" => Admins(file.users) # {}

(* A live session belongs to the account it was opened for: a user who was    *)
(* dropped, and perhaps created again under the same name, is never reached   *)
(* through a session of before (drop_user: "Invalidate all sessions").        *)
SessionsOfLiveAccounts ==
    \A t \in DOMAIN sessions :
        /\ sessions[t].user \in DOMAIN users
        /\ users[sessions[t].user].id = sessions[t].id

-----------------------------------------------------------------------------
(* Label and property rules (AclManager of maharit-server/src/auth.rs).        *)

CONSTANTS AclUsers, AclRoles, AclLabels, AclKeys,
          MaxRules     \* bound on the rules

VARIABLE rules         \* the list of rules, in the order they were added

Subjects == [kind : {"user"}, of : AclUsers] \cup [kind : {"role"}, of : AclRoles]
AllLabels == [kind |-> "all"]
Resources ==
    {AllLabels} \cup [kind : {"label"}, label : AclLabels]
                \cup [kind : {"property"}, label : AclLabels, key : AclKeys]
Rules == [subject : Subjects, resource : Resources, permission : {"Allow", "Deny"}]

(* Whether a rule on resource r concerns resource x. A rule on a label covers *)
(* the label's properties; whoever asks for all labels meets every rule.      *)
MatchesResource(r, x) ==
    \/ AllLabels \in {r, x}
    \/ r = x
    \/ r.kind = "label" /\ x.kind = "property" /\ r.label = x.label

Concerns(rule, subject, x, permission) ==
    /\ rule.subject = subject
    /\ rule.permission = permission
    /\ MatchesResource(rule.resource, x)

(* The first of these that applies: the user is denied, the role is denied,   *)
(* the user is allowed, the role is allowed; otherwise access is open.        *)
CheckAcl(user, role, x) ==
    LET u == [kind |-> "user", of |-> user]
        r == [kind |-> "role", of |-> role]
        some(s, p) == \E i \in DOMAIN rules : Concerns(rules[i], s, x, p)
    IN CASE some(u, "Deny") -> "Deny"
         [] ~some(u, "Deny") /\ some(r, "Deny") -> "Deny"
         [] OTHER -> "Allow"

AddRule(rule) == Len(rules) < MaxRules /\ rules' = Append(rules, rule)
RemoveRule(i) == i \in DOMAIN rules /\ rules' = Lists!RemoveAt(rules, i)

AclInit == rules = <<>>
AclNext == (\E rule \in Rules : AddRule(rule)) \/ (\E i \in 1 .. MaxRules : RemoveRule(i))
-----------------------------------------------------------------------------
(* Access to a whole label is never wider than the access to its parts, and   *)
(* access to all labels never wider than to any of them: who is denied a      *)
(* property by a rule on its label is denied the label, and who is denied any *)
(* label is denied all of them, whatever allowances were added.               *)
AclCoarserIsStricter ==
    \A u \in AclUsers, r \in AclRoles, l \in AclLabels :
        /\ CheckAcl(u, r, [kind |-> "label", label |-> l]) = "Deny" =>
              /\ CheckAcl(u, r, AllLabels) = "Deny"
              /\ \A k \in AclKeys :
                    CheckAcl(u, r, [kind |-> "property", label |-> l, key |-> k]) = "Deny"
        /\ \A k \in AclKeys :
              CheckAcl(u, r, [kind |-> "property", label |-> l, key |-> k]) = "Deny"
                => CheckAcl(u, r, AllLabels) = "Deny"
=============================================================================
