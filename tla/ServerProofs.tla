---------------------------- MODULE ServerProofs ----------------------------
(* Proofs about the server's front end: the accept loop and its handlers      *)
(* (Listener).                                                                *)
EXTENDS Frontend, Listener, FiniteSetTheorems, TLAPS

(* The inductive invariant: the handlers are finitely many, because they come *)
(* one at a time, and ConnectionsCounted.                                     *)
ConnectionsInv == IsFiniteSet(Serving) /\ ConnectionsCounted

(* A step of a handler that neither starts nor ends it keeps the set of       *)
(* handlers.                                                                  *)
LEMMA HandlerMoves ==
    ASSUME ListenerTypeOK, NEW p \in Peers, handler[p] # "none",
           NEW next \in {"top", "reading", "ending"},
           handler' = [handler EXCEPT ![p] = next]
    PROVE  Serving' = Serving /\ handler' \in [Peers -> {"none", "top", "reading", "ending"}]
BY DEF Serving, ListenerTypeOK

(* A response that is sent, or is not taken, keeps the set of handlers and    *)
(* the types.                                                                 *)
LEMMA SendKeeps ==
    ASSUME ListenerTypeOK, NEW p \in Peers, handler[p] # "none",
           NEW response \in Responses, NEW next \in {"top", "ending"},
           Send(p, response, next)
    PROVE  /\ Serving' = Serving
           /\ handler' \in [Peers -> {"none", "top", "reading", "ending"}]
           /\ answers' \in [Peers -> Responses]
           /\ \A q \in Peers : handler[q] = "none" => handler'[q] = "none"
<1>1. PICK to \in {"top", "ending"} : handler' = [handler EXCEPT ![p] = to]
  BY DEF Send
<1>2. answers' \in [Peers -> Responses]
  BY DEF Send, ListenerTypeOK
<1>3. \A q \in Peers : handler[q] = "none" => handler'[q] = "none"
  BY <1>1 DEF ListenerTypeOK
<1>4. QED
  BY <1>1, <1>2, <1>3, HandlerMoves

(* The number of connections is the number of handlers and never exceeds      *)
(* max_connections, for any number of clients and any limit, however accepts, *)
(* closes, failed reads and writes, and the shutdown interleave.              *)
THEOREM ConnectionsAlwaysCounted == ListenerSpec => []ConnectionsCounted
<1>1. ListenerInit => ConnectionsInv
  <2> SUFFICES ASSUME ListenerInit PROVE ConnectionsInv
    OBVIOUS
  <2>1. ListenerTypeOK /\ Serving = {} /\ current = 0 /\ loop = "top"
        /\ \A p \in Peers : handler[p] = "none"
    BY DEF ListenerInit, ListenerTypeOK, Serving, Responses
  <2> QED
    BY <2>1, FS_EmptySet, ListenerAssumption DEF ConnectionsInv, ConnectionsCounted
<1>2. ConnectionsInv /\ [ListenerNext]_listenerVars => ConnectionsInv'
  <2> SUFFICES ASSUME ConnectionsInv, [ListenerNext]_listenerVars PROVE ConnectionsInv'
    OBVIOUS
  <2> USE DEF ConnectionsInv, ConnectionsCounted
  <2>0. Cardinality(Serving) \in Nat
    BY FS_CardinalityType
  <2>1. CASE LoopTop
    <3>1. Serving' = Serving
      BY <2>1 DEF LoopTop, Serving
    <3> QED BY <2>0, <2>1, <3>1, ListenerAssumption DEF LoopTop, ListenerTypeOK
  <2>2. CASE AcceptNothing
    <3>1. Serving' = Serving
      BY <2>2 DEF AcceptNothing, Serving
    <3> QED BY <2>2, <3>1 DEF AcceptNothing, ListenerTypeOK
  <2>3. ASSUME NEW p \in Peers, Accept(p) PROVE ConnectionsInv'
    <3>1. handler[p] = "none" /\ p \notin Serving
      BY <2>3 DEF Accept, Serving
    <3>2. Serving' = Serving \cup {p}
      BY <2>3 DEF Accept, Serving, ListenerTypeOK
    <3>3. IsFiniteSet(Serving') /\ Cardinality(Serving') = Cardinality(Serving) + 1
      BY <3>1, <3>2, FS_AddElement
    <3>4. current' <= MaxConnections /\ current' = Cardinality(Serving')
      BY <2>0, <2>3, <3>3, ListenerAssumption DEF Accept
    <3>5. ListenerTypeOK' /\ loop' = "top"
      BY <2>3 DEF Accept, ListenerTypeOK
    <3>6. \A q \in Peers : peer'[q] = "connecting" => handler'[q] = "none"
      BY <2>3 DEF Accept, ListenerTypeOK
    <3> QED BY <3>3, <3>4, <3>5, <3>6
  <2>4. CASE Shutdown
    <3>1. Serving' = Serving
      BY <2>4 DEF Shutdown, Serving
    <3> QED BY <2>4, <3>1 DEF Shutdown, ListenerTypeOK
  <2>5. ASSUME NEW p \in Peers, handler[p] # "none",
               NEW response \in Responses, NEW next \in {"top", "ending"},
               Send(p, response, next), UNCHANGED <<loop, shutdown, current, peer>>
        PROVE  ConnectionsInv'
    BY <2>5, SendKeeps DEF ListenerTypeOK
  <2>6. ASSUME NEW p \in Peers, handler[p] # "none", NEW next \in {"reading", "ending"},
               handler' = [handler EXCEPT ![p] = next],
               UNCHANGED <<loop, shutdown, current, peer, answers>>
        PROVE  ConnectionsInv'
    <3>1. Serving' = Serving /\ handler' \in [Peers -> {"none", "top", "reading", "ending"}]
      BY <2>6, HandlerMoves
    <3>2. \A q \in Peers : peer'[q] = "connecting" => handler'[q] = "none"
      BY <2>6 DEF ListenerTypeOK
    <3> QED BY <2>6, <3>1, <3>2 DEF ListenerTypeOK
  <2>7. ASSUME NEW p \in Peers, HandlerTop(p) PROVE ConnectionsInv'
    BY <2>5, <2>6, <2>7 DEF HandlerTop, Responses
  <2>8. ASSUME NEW p \in Peers, Woken(p) PROVE ConnectionsInv'
    BY <2>5, <2>8 DEF Woken, Responses
  <2>9. ASSUME NEW p \in Peers, ConnectionClosed(p) PROVE ConnectionsInv'
    BY <2>6, <2>9 DEF ConnectionClosed
  <2>10. ASSUME NEW p \in Peers, ReadError(p) PROVE ConnectionsInv'
    BY <2>5, <2>10 DEF ReadError, Responses
  <2>11. ASSUME NEW p \in Peers, NEW kind \in {"request", "invalid", "disconnect"},
                Request(p, kind)
         PROVE  ConnectionsInv'
    BY <2>5, <2>11 DEF Request, Responses
  <2>12. ASSUME NEW p \in Peers, HandlerEnds(p) PROVE ConnectionsInv'
    <3>1. p \in Serving /\ Serving' = Serving \ {p}
      BY <2>12 DEF HandlerEnds, Serving, ListenerTypeOK
    <3>2. IsFiniteSet(Serving') /\ Cardinality(Serving') = Cardinality(Serving) - 1
      BY <3>1, FS_RemoveElement
    <3>3. /\ current' = Cardinality(Serving') /\ current' <= MaxConnections
          /\ loop' = "accepting" => current' < MaxConnections
      BY <2>0, <2>12, <3>2, ListenerAssumption DEF HandlerEnds
    <3>4. ListenerTypeOK' /\ \A q \in Peers : peer'[q] = "connecting" => handler'[q] = "none"
      BY <2>12 DEF HandlerEnds, ListenerTypeOK
    <3> QED BY <3>2, <3>3, <3>4
  <2>13. ASSUME NEW p \in Peers, Connect(p) PROVE ConnectionsInv'
    <3>1. Serving' = Serving
      BY <2>13 DEF Connect, Serving
    <3> QED BY <2>13, <3>1 DEF Connect, ListenerTypeOK, Responses
  <2>14. ASSUME NEW p \in Peers, Close(p) PROVE ConnectionsInv'
    <3>1. Serving' = Serving
      BY <2>14 DEF Close, Serving
    <3> QED BY <2>14, <3>1 DEF Close, ListenerTypeOK
  <2>15. CASE UNCHANGED listenerVars
    <3>1. Serving' = Serving
      BY <2>15 DEF listenerVars, Serving
    <3> QED BY <2>15, <3>1 DEF listenerVars, ListenerTypeOK
  <2> QED
    BY <2>1, <2>2, <2>3, <2>4, <2>7, <2>8, <2>9, <2>10, <2>11, <2>12, <2>13, <2>14, <2>15
       DEF ListenerNext, AcceptLoop, Handle
<1>3. ConnectionsInv => ConnectionsCounted
  BY DEF ConnectionsInv
<1> QED
  BY <1>1, <1>2, <1>3, PTL DEF ListenerSpec
-----------------------------------------------------------------------------
(* Users and sessions (Auth).                                                 *)

(* A list of accounts that someone can administer; it is finite, because      *)
(* accounts are created one at a time.                                        *)
Administered(us) == AccountList(us) /\ IsFiniteSet(DOMAIN us) /\ Admins(us) # {}
Restorable(f) == f = NoFile \/ f = TornFile \/ \E us : f = Saved(us) /\ Administered(us)

(* The inductive invariant of the users and sessions.                         *)
AuthInv ==
    /\ AuthTypeOK /\ SessionsOfLiveAccounts
    /\ Administered(users) /\ Restorable(file)

(* A new account.                                                             *)
LEMMA AccountAdded ==
    ASSUME NEW us, Administered(us), NEW n \in Names, NEW a \in Account, n \notin DOMAIN us
    PROVE  /\ Administered(With(us, n, a)) /\ DOMAIN With(us, n, a) = DOMAIN us \cup {n}
           /\ \A m \in DOMAIN us : With(us, n, a)[m] = us[m]
<1> DEFINE w == With(us, n, a)
<1>1. DOMAIN w = DOMAIN us \cup {n} /\ (\A m \in DOMAIN us : w[m] = us[m]) /\ w[n] = a
  BY DEF With
<1>2. AccountList(w)
  BY <1>1 DEF With, Administered, AccountList
<1>3. IsFiniteSet(DOMAIN w)
  BY <1>1, FS_AddElement DEF Administered
<1>4. Admins(us) \subseteq Admins(w)
  BY <1>1 DEF Admins
<1> QED BY <1>1, <1>2, <1>3, <1>4 DEF Administered

(* An account is removed, which is not the last administrator's.              *)
LEMMA AccountRemoved ==
    ASSUME NEW us, Administered(us), NEW n \in DOMAIN us,
           us[n].role # "admin" \/ ~(Cardinality(Admins(us)) <= 1)
    PROVE  /\ Administered(Without(us, {n})) /\ DOMAIN Without(us, {n}) = DOMAIN us \ {n}
           /\ \A m \in DOMAIN us \ {n} : Without(us, {n})[m] = us[m]
<1> DEFINE w == Without(us, {n})
<1>1. DOMAIN w = DOMAIN us \ {n} /\ (\A m \in DOMAIN us \ {n} : w[m] = us[m])
  BY DEF Without
<1>2. AccountList(w)
  BY <1>1 DEF Without, Administered, AccountList
<1>3. IsFiniteSet(DOMAIN w)
  BY <1>1, FS_RemoveElement DEF Administered
<1>4. Admins(w) = Admins(us) \ {n}
  BY <1>1 DEF Admins
<1>5. IsFiniteSet(Admins(us)) /\ Cardinality(Admins(us)) \in Nat
  BY FS_Subset, FS_CardinalityType DEF Admins, Administered
<1>6. Admins(us) \ {n} # {}
  <2>1. CASE us[n].role # "admin"
    BY <2>1 DEF Admins, Administered
  <2>2. CASE ~(Cardinality(Admins(us)) <= 1)
    <3> SUFFICES ASSUME Admins(us) \ {n} = {} PROVE FALSE
      OBVIOUS
    <3>1. Admins(us) = {n}
      BY DEF Administered
    <3> QED BY <2>2, <3>1, FS_Singleton
  <2> QED BY <2>1, <2>2
<1> QED BY <1>1, <1>2, <1>3, <1>4, <1>6 DEF Administered

(* An account changes; if it was the last administrator's it stays one.       *)
LEMMA AccountChanged ==
    ASSUME NEW us, Administered(us), NEW n \in DOMAIN us, NEW a \in Account,
           a.role = "admin" \/ us[n].role # "admin" \/ ~(Cardinality(Admins(us)) <= 1)
    PROVE  /\ Administered([us EXCEPT ![n] = a]) /\ DOMAIN [us EXCEPT ![n] = a] = DOMAIN us
           /\ [us EXCEPT ![n] = a][n] = a
           /\ \A m \in DOMAIN us \ {n} : [us EXCEPT ![n] = a][m] = us[m]
<1> DEFINE w == [us EXCEPT ![n] = a]
<1>0. us \in [DOMAIN us -> Account]
  BY DEF Administered, AccountList
<1>1. DOMAIN w = DOMAIN us /\ w[n] = a /\ (\A m \in DOMAIN us \ {n} : w[m] = us[m])
  BY <1>0
<1>2. AccountList(w)
  BY <1>0, <1>1 DEF Administered, AccountList
<1>3. CASE a.role = "admin"
  <2>1. n \in Admins(w)
    BY <1>1, <1>3 DEF Admins
  <2> QED BY <1>1, <1>2, <2>1 DEF Administered
<1>4. CASE us[n].role # "admin" \/ ~(Cardinality(Admins(us)) <= 1)
  <2>1. Administered(Without(us, {n})) /\ DOMAIN Without(us, {n}) = DOMAIN us \ {n}
        /\ \A m \in DOMAIN us \ {n} : Without(us, {n})[m] = us[m]
    BY <1>4, AccountRemoved
  <2>2. PICK m \in Admins(Without(us, {n})) : TRUE
    BY <2>1 DEF Administered
  <2>3. m \in Admins(w)
    BY <1>1, <2>1, <2>2 DEF Admins
  <2> QED BY <1>1, <1>2, <2>3 DEF Administered
<1> QED BY <1>3, <1>4

(* What a save leaves in the file can be restored.                            *)
LEMMA SaveRestorable ==
    ASSUME NEW us, Administered(us), NEW f, Restorable(f), NEW g, g \in {Saved(us), f, TornFile}
    PROVE  Restorable(g)
BY DEF Restorable

LEMMA RestorableType ==
    ASSUME NEW f, Restorable(f)
    PROVE  f \in {NoFile, TornFile} \/ (f = Saved(f.users) /\ AccountList(f.users))
BY DEF Restorable, Administered, Saved

(* The sessions are those of accounts, opened before `at`.                    *)
SessionsGood(ss, us, given, at) ==
    /\ DOMAIN ss \subseteq given /\ given \subseteq Tokens
    /\ ss \in [DOMAIN ss -> Session]
    /\ \A t \in DOMAIN ss :
         ss[t].at <= at /\ ss[t].user \in DOMAIN us /\ us[ss[t].user].id = ss[t].id

LEMMA AuthParts ==
    AuthInv <=> /\ Administered(users) /\ Restorable(file)
                /\ SessionsGood(sessions, users, issued, now)
                /\ saving \in BOOLEAN /\ accounts \in 1 .. MaxAccounts /\ now \in 0 .. MaxTime
BY RestorableType DEF AuthInv, AuthTypeOK, SessionsOfLiveAccounts, SessionsGood, Administered

(* The same for the next state.                                               *)
LEMMA AuthPartsNext ==
    ASSUME Administered(users'), Restorable(file'), SessionsGood(sessions', users', issued', now'),
           saving' \in BOOLEAN, accounts' \in 1 .. MaxAccounts, now' \in 0 .. MaxTime
    PROVE  AuthInv'
<1>1. file' \in {NoFile, TornFile} \/ (file' = Saved(file'.users) /\ AccountList(file'.users))
  BY RestorableType
<1> QED
  BY <1>1 DEF AuthInv, AuthTypeOK, SessionsOfLiveAccounts, SessionsGood, Administered, Restorable,
              Admins, AccountList, Account, Session, Roles, NoFile, TornFile, Saved, Nothing

(* Sessions stay good when some of them end and the clock does not go back.   *)
LEMMA SessionsEnd ==
    ASSUME NEW ss, NEW us, NEW given, NEW at, SessionsGood(ss, us, given, at), NEW S
    PROVE  SessionsGood(Without(ss, S), us, given, at)
BY DEF SessionsGood, Without

(* Sessions stay good when their accounts stay.                               *)
LEMMA SessionsStay ==
    ASSUME NEW ss, NEW us, NEW given, NEW at, SessionsGood(ss, us, given, at),
           NEW vs, DOMAIN us \subseteq DOMAIN vs, \A n \in DOMAIN us : vs[n].id = us[n].id
    PROVE  SessionsGood(ss, vs, given, at)
BY DEF SessionsGood

(* Results are "Ok" for the reasons the code checks.                          *)
LEMMA DropAllowed ==
    ASSUME NEW n, DropUserResult(n) = "Ok"
    PROVE  n \in DOMAIN users /\ ~LastAdmin(n)
BY Zenon DEF DropUserResult

LEMMA AlterAllowed ==
    ASSUME NEW n, NEW r, AlterUserRoleResult(n, r) = "Ok"
    PROVE  n \in DOMAIN users /\ (r = "admin" \/ ~LastAdmin(n))
BY Zenon DEF AlterUserRoleResult

LEMMA ValidSession ==
    ASSUME NEW t, ValidateResult(t) = "Ok"
    PROVE  t \in DOMAIN sessions
BY Zenon DEF ValidateResult

(* Not every change is saved, and what is saved can be restored.              *)
LEMMA SaveKeeps ==
    ASSUME Restorable(file), Administered(users'), AutoSave
    PROVE  Restorable(file')
<1>1. file' \in {Saved(users'), file, TornFile}
  BY DEF AutoSave
<1> QED BY <1>1, SaveRestorable

LEMMA UnchangedAuth ==
    ASSUME AuthInv, UNCHANGED authVars
    PROVE  AuthInv'
<1>1. /\ Administered(users) /\ Restorable(file)
      /\ SessionsGood(sessions, users, issued, now)
      /\ saving \in BOOLEAN /\ accounts \in 1 .. MaxAccounts /\ now \in 0 .. MaxTime
  BY AuthParts
<1> QED BY <1>1, AuthPartsNext DEF authVars

LEMMA CreateUserKeeps ==
    ASSUME AuthInv, NEW n \in Names, NEW p \in Passwords, NEW r \in Roles, CreateUser(n, p, r)
    PROVE  AuthInv'
<1>1. /\ Administered(users) /\ Restorable(file)
      /\ SessionsGood(sessions, users, issued, now)
      /\ saving \in BOOLEAN /\ accounts \in 1 .. MaxAccounts /\ now \in 0 .. MaxTime
  BY AuthParts
<1>2. CASE CreateUserResult(n) = "Ok"
  <2> DEFINE a == [password |-> p, role |-> r, id |-> accounts + 1]
  <2>1. /\ accounts < MaxAccounts /\ accounts' = accounts + 1
        /\ users' = With(users, n, a) /\ AutoSave /\ n \notin DOMAIN users
        /\ UNCHANGED <<sessions, issued, saving, now>>
    BY <1>2 DEF CreateUser, CreateUserResult
  <2>2. a \in Account /\ accounts' \in 1 .. MaxAccounts
    BY <1>1, <2>1, AuthAssumption DEF Account
  <2>3. /\ Administered(users') /\ DOMAIN users' = DOMAIN users \cup {n}
        /\ \A m \in DOMAIN users : users'[m] = users[m]
    BY <1>1, <2>1, <2>2, AccountAdded
  <2>4. SessionsGood(sessions, users', issued, now)
    BY <1>1, <2>3, SessionsStay
  <2>5. Restorable(file')
    BY <1>1, <2>1, <2>3, SaveKeeps
  <2> QED BY <1>1, <2>1, <2>2, <2>3, <2>4, <2>5, AuthPartsNext
<1>3. CASE CreateUserResult(n) # "Ok"
  BY <1>3, UnchangedAuth DEF CreateUser
<1> QED BY <1>2, <1>3

LEMMA DropUserKeeps ==
    ASSUME AuthInv, NEW n, DropUser(n)
    PROVE  AuthInv'
<1>1. /\ Administered(users) /\ Restorable(file)
      /\ SessionsGood(sessions, users, issued, now)
      /\ saving \in BOOLEAN /\ accounts \in 1 .. MaxAccounts /\ now \in 0 .. MaxTime
  BY AuthParts
<1>2. CASE DropUserResult(n) = "Ok"
  <2>1. /\ users' = Without(users, {n}) /\ AutoSave
        /\ sessions' = Without(sessions, {t \in DOMAIN sessions : sessions[t].user = n})
        /\ UNCHANGED <<issued, saving, accounts, now>>
    BY <1>2 DEF DropUser
  <2>2. n \in DOMAIN users /\ (users[n].role # "admin" \/ ~(Cardinality(Admins(users)) <= 1))
    BY <1>2, DropAllowed DEF LastAdmin
  <2>3. /\ Administered(users') /\ DOMAIN users' = DOMAIN users \ {n}
        /\ \A m \in DOMAIN users \ {n} : users'[m] = users[m]
    BY <1>1, <2>1, <2>2, AccountRemoved
  <2>4. SessionsGood(sessions', users', issued, now)
    BY <1>1, <2>1, <2>3 DEF SessionsGood, Without
  <2>5. Restorable(file')
    BY <1>1, <2>1, <2>3, SaveKeeps
  <2> QED BY <1>1, <2>1, <2>3, <2>4, <2>5, AuthPartsNext
<1>3. CASE DropUserResult(n) # "Ok"
  BY <1>3, UnchangedAuth DEF DropUser
<1> QED BY <1>2, <1>3

(* An account that changes without the last administrator losing the role,    *)
(* and the file afterwards restorable.                                        *)
LEMMA ChangeKeeps ==
    ASSUME AuthInv, NEW n \in DOMAIN users, NEW a \in Account, a.id = users[n].id,
           a.role = "admin" \/ users[n].role # "admin" \/ ~(Cardinality(Admins(users)) <= 1),
           users' = [users EXCEPT ![n] = a],
           Administered(users') => Restorable(file'),
           UNCHANGED <<sessions, issued, saving, accounts, now>>
    PROVE  AuthInv' /\ Administered(users')
<1>1. /\ Administered(users) /\ Restorable(file)
      /\ SessionsGood(sessions, users, issued, now)
      /\ saving \in BOOLEAN /\ accounts \in 1 .. MaxAccounts /\ now \in 0 .. MaxTime
  BY AuthParts
<1>2. /\ Administered(users') /\ DOMAIN users' = DOMAIN users /\ users'[n] = a
      /\ \A m \in DOMAIN users \ {n} : users'[m] = users[m]
  BY <1>1, AccountChanged
<1>3. \A m \in DOMAIN users : users'[m].id = users[m].id
  BY <1>2
<1>4. SessionsGood(sessions, users', issued, now)
  BY <1>1, <1>2, <1>3, SessionsStay
<1> QED BY <1>1, <1>2, <1>4, AuthPartsNext

LEMMA AlterUserRoleKeeps ==
    ASSUME AuthInv, NEW n, NEW r \in Roles, AlterUserRole(n, r)
    PROVE  AuthInv'
<1>1. Administered(users) /\ Restorable(file) /\ users \in [DOMAIN users -> Account]
  BY AuthParts DEF Administered, AccountList
<1>2. CASE AlterUserRoleResult(n, r) = "Ok"
  <2> DEFINE a == [users[n] EXCEPT !.role = r]
  <2>1. n \in DOMAIN users
        /\ (r = "admin" \/ users[n].role # "admin" \/ ~(Cardinality(Admins(users)) <= 1))
    BY <1>2, AlterAllowed DEF LastAdmin
  <2>2. users' = [users EXCEPT ![n] = a] /\ AutoSave
        /\ UNCHANGED <<sessions, issued, saving, accounts, now>>
    BY <1>2 DEF AlterUserRole
  <2>3. a \in Account /\ a.id = users[n].id /\ a.role = r
    BY <1>1, <2>1 DEF Account
  <2>4. Administered(users') => Restorable(file')
    BY <1>1, <2>2, SaveKeeps
  <2> HIDE DEF a
  <2> QED BY <2>1, <2>2, <2>3, <2>4, ChangeKeeps
<1>3. CASE AlterUserRoleResult(n, r) # "Ok"
  BY <1>3, UnchangedAuth DEF AlterUserRole
<1> QED BY <1>2, <1>3

LEMMA AlterUserPasswordKeeps ==
    ASSUME AuthInv, NEW n, NEW p \in Passwords, AlterUserPassword(n, p)
    PROVE  AuthInv'
<1>1. Administered(users) /\ Restorable(file) /\ users \in [DOMAIN users -> Account]
  BY AuthParts DEF Administered, AccountList
<1>2. CASE n \in DOMAIN users
  <2> DEFINE a == [users[n] EXCEPT !.password = p]
  <2>2. users' = [users EXCEPT ![n] = a] /\ AutoSave
        /\ UNCHANGED <<sessions, issued, saving, accounts, now>>
    BY <1>2 DEF AlterUserPassword, AlterUserPasswordResult
  <2>3. a \in Account /\ a.id = users[n].id /\ a.role = users[n].role
    BY <1>1, <1>2 DEF Account
  <2>4. Administered(users') => Restorable(file')
    BY <1>1, <2>2, SaveKeeps
  <2> HIDE DEF a
  <2>5. CASE a.role = "admin"
    BY <1>2, <2>5, <2>2, <2>3, <2>4, ChangeKeeps
  <2>6. CASE a.role # "admin"
    BY <1>2, <2>6, <2>2, <2>3, <2>4, ChangeKeeps
  <2> QED BY <2>5, <2>6
<1>3. CASE n \notin DOMAIN users
  BY <1>3, UnchangedAuth DEF AlterUserPassword, AlterUserPasswordResult
<1> QED BY <1>2, <1>3

LEMMA AuthenticateKeeps ==
    ASSUME AuthInv, NEW n, NEW p, NEW t, Authenticate(n, p, t)
    PROVE  AuthInv'
<1>1. /\ Administered(users) /\ Restorable(file)
      /\ SessionsGood(sessions, users, issued, now)
      /\ saving \in BOOLEAN /\ accounts \in 1 .. MaxAccounts /\ now \in 0 .. MaxTime
  BY AuthParts
<1>2. CASE AuthenticateResult(n, p) = "Ok"
  <2> DEFINE s == [user |-> n, role |-> users[n].role, id |-> users[n].id, at |-> now]
  <2>1. /\ t \in Tokens /\ t \notin issued /\ issued' = issued \cup {t}
        /\ sessions' = With(sessions, t, s) /\ n \in DOMAIN users
        /\ UNCHANGED <<users, saving, file, accounts, now>>
    BY <1>2 DEF Authenticate, AuthenticateResult
  <2>2. s \in Session /\ s.at <= now /\ s.user = n /\ s.id = users[n].id
    BY <1>1, <2>1, AuthAssumption DEF Session, Account, Administered, AccountList
  <2> HIDE DEF s
  <2>3. SessionsGood(sessions', users, issued', now)
    BY <1>1, <2>1, <2>2 DEF SessionsGood, With
  <2> QED BY <1>1, <2>1, <2>3, AuthPartsNext
<1>3. CASE AuthenticateResult(n, p) # "Ok"
  BY <1>3, UnchangedAuth DEF Authenticate
<1> QED BY <1>2, <1>3

(* Steps that only touch the sessions.                                        *)
LEMMA SessionStepKeeps ==
    ASSUME AuthInv, SessionsGood(sessions', users, issued, now),
           UNCHANGED <<users, issued, saving, file, accounts, now>>
    PROVE  AuthInv'
<1>1. /\ Administered(users) /\ Restorable(file)
      /\ saving \in BOOLEAN /\ accounts \in 1 .. MaxAccounts /\ now \in 0 .. MaxTime
  BY AuthParts
<1> QED BY <1>1, AuthPartsNext

LEMMA ValidateSessionKeeps ==
    ASSUME AuthInv, NEW t, ValidateSession(t)
    PROVE  AuthInv'
<1>1. SessionsGood(sessions, users, issued, now) /\ now \in 0 .. MaxTime
  BY AuthParts
<1>2. \/ ValidateResult(t) = "Ok" /\ sessions' = [sessions EXCEPT ![t].at = now]
      \/ sessions' = Without(sessions, {t})
      \/ sessions' = sessions
  BY Zenon DEF ValidateSession
<1>3. CASE ValidateResult(t) = "Ok" /\ sessions' = [sessions EXCEPT ![t].at = now]
  <2> DEFINE s == [sessions[t] EXCEPT !.at = now]
  <2>1. t \in DOMAIN sessions /\ sessions \in [DOMAIN sessions -> Session]
    BY <1>1, <1>3, ValidSession DEF SessionsGood
  <2>2. /\ s \in Session /\ s.at <= now
        /\ s.user = sessions[t].user /\ s.id = sessions[t].id
    BY <1>1, <2>1, AuthAssumption DEF Session
  <2>3. sessions' = [sessions EXCEPT ![t] = s]
    BY <1>3
  <2> HIDE DEF s
  <2>4. /\ DOMAIN sessions' = DOMAIN sessions /\ sessions'[t] = s
        /\ \A x \in DOMAIN sessions \ {t} : sessions'[x] = sessions[x]
        /\ sessions' \in [DOMAIN sessions -> Session]
    BY <2>1, <2>2, <2>3
  <2>5. SessionsGood(sessions', users, issued, now)
    BY <1>1, <2>1, <2>2, <2>4 DEF SessionsGood
  <2> QED BY <2>5, SessionStepKeeps DEF ValidateSession
<1>4. CASE sessions' = Without(sessions, {t})
  BY <1>1, <1>4, SessionsEnd, SessionStepKeeps DEF ValidateSession
<1>5. CASE sessions' = sessions
  BY <1>1, <1>5, SessionStepKeeps DEF ValidateSession
<1> QED BY <1>2, <1>3, <1>4, <1>5

LEMMA InvalidateSessionKeeps ==
    ASSUME AuthInv, NEW t, InvalidateSession(t)
    PROVE  AuthInv'
BY AuthParts, SessionsEnd, SessionStepKeeps DEF InvalidateSession

LEMMA CleanupExpiredSessionsKeeps ==
    ASSUME AuthInv, CleanupExpiredSessions
    PROVE  AuthInv'
BY AuthParts, SessionsEnd, SessionStepKeeps DEF CleanupExpiredSessions

LEMMA SaveToFileKeeps ==
    ASSUME AuthInv, SaveToFile
    PROVE  AuthInv'
<1>1. /\ Administered(users) /\ Restorable(file)
      /\ SessionsGood(sessions, users, issued, now)
      /\ saving \in BOOLEAN /\ accounts \in 1 .. MaxAccounts /\ now \in 0 .. MaxTime
  BY AuthParts
<1>2. Restorable(file')
  BY <1>1, SaveRestorable DEF SaveToFile
<1> QED BY <1>1, <1>2, AuthPartsNext DEF SaveToFile

LEMMA DefaultAdministered == Administered(DefaultUsers)
<1>1. DOMAIN DefaultUsers = {Admin} /\ DefaultUsers[Admin].role = "admin"
  BY DEF DefaultUsers
<1>2. AccountList(DefaultUsers)
  BY AuthAssumption DEF DefaultUsers, AccountList, Account, Roles
<1>3. Admin \in Admins(DefaultUsers)
  BY <1>1 DEF Admins
<1> QED BY <1>1, <1>2, <1>3, FS_Singleton DEF Administered

LEMMA NoSessionsGood ==
    ASSUME NEW us, NEW given, NEW at, given \subseteq Tokens
    PROVE  SessionsGood(NoSessions, us, given, at)
BY DEF SessionsGood, NoSessions, Nothing

(* A restart reads back the accounts that were saved, and forgets the         *)
(* sessions.                                                                  *)
LEMMA RestartKeeps ==
    ASSUME AuthInv, Restart
    PROVE  AuthInv'
<1>1. /\ Restorable(file) /\ SessionsGood(sessions, users, issued, now)
      /\ saving \in BOOLEAN /\ accounts \in 1 .. MaxAccounts /\ now \in 0 .. MaxTime
  BY AuthParts
<1>2. Administered(users') /\ saving' \in BOOLEAN
  <2>1. CASE file = NoFile
    BY <2>1, DefaultAdministered DEF Restart
  <2>2. CASE file # NoFile
    <3>1. PICK us : file = Saved(us) /\ Administered(us)
      BY <1>1, <2>2 DEF Restart, Restorable
    <3>2. file.users = us
      BY <3>1 DEF Saved
    <3> QED BY <2>2, <3>1, <3>2 DEF Restart
  <2> QED BY <2>1, <2>2
<1>3. SessionsGood(sessions', users', issued, now)
  BY <1>1, NoSessionsGood DEF Restart, SessionsGood
<1> QED BY <1>1, <1>2, <1>3, AuthPartsNext DEF Restart

LEMMA TickKeeps ==
    ASSUME AuthInv, Tick
    PROVE  AuthInv'
<1>1. /\ Administered(users) /\ Restorable(file)
      /\ SessionsGood(sessions, users, issued, now)
      /\ saving \in BOOLEAN /\ accounts \in 1 .. MaxAccounts /\ now \in 0 .. MaxTime
  BY AuthParts
<1>2. now' \in 0 .. MaxTime /\ now < now'
  BY <1>1, AuthAssumption DEF Tick
<1>3. SessionsGood(sessions, users, issued, now')
  <2>1. \A t \in DOMAIN sessions : sessions[t].at \in 0 .. MaxTime
    BY <1>1 DEF SessionsGood, Session
  <2>2. \A t \in DOMAIN sessions : sessions[t].at <= now'
    BY <1>1, <1>2, <2>1, AuthAssumption DEF SessionsGood
  <2> QED BY <1>1, <2>2 DEF SessionsGood
<1> QED BY <1>1, <1>2, <1>3, AuthPartsNext DEF Tick

LEMMA AuthStarts == AuthInit => AuthInv
<1> SUFFICES ASSUME AuthInit PROVE AuthInv
  OBVIOUS
<1>1. /\ Administered(users) /\ Restorable(file)
      /\ SessionsGood(sessions, users, issued, now)
  BY DefaultAdministered, NoSessionsGood DEF AuthInit, Restorable
<1>2. saving \in BOOLEAN /\ accounts \in 1 .. MaxAccounts /\ now \in 0 .. MaxTime
  BY AuthAssumption DEF AuthInit
<1> QED BY <1>1, <1>2, AuthParts

LEMMA AuthKept == AuthInv /\ [AuthNext]_authVars => AuthInv'
BY UnchangedAuth, CreateUserKeeps, DropUserKeeps, AlterUserRoleKeeps, AlterUserPasswordKeeps,
   AuthenticateKeeps, ValidateSessionKeeps, InvalidateSessionKeeps, CleanupExpiredSessionsKeeps,
   SaveToFileKeeps, RestartKeeps, TickKeeps
   DEF AuthNext

LEMMA AuthShows == AuthInv => AuthTypeOK /\ AdminRemains /\ SessionsOfLiveAccounts
<1> SUFFICES ASSUME AuthInv PROVE AdminRemains
  BY DEF AuthInv
<1>1. ASSUME file.state = "saved" PROVE Admins(file.users) # {}
  BY <1>1 DEF AuthInv, Restorable, NoFile, TornFile, Saved, Administered
<1> QED BY <1>1 DEF AuthInv, AdminRemains, Administered

(* Someone can always administer the server, after a restart from whatever    *)
(* was saved too, and no session outlives its account, for any users,         *)
(* passwords and tokens: drop_user and alter_user_role guard the last         *)
(* administrator, and drop_user ends the sessions of the account.             *)
THEOREM AccountsAlwaysGuarded ==
    AuthSpec => [](AuthTypeOK /\ AdminRemains /\ SessionsOfLiveAccounts)
BY AuthStarts, AuthKept, AuthShows, PTL DEF AuthSpec
-----------------------------------------------------------------------------
(* Rules on labels and properties (Auth).                                     *)

(* A rule denies x to the user or to the role.                                *)
Denies(u, r, x) ==
    \E i \in DOMAIN rules :
        \/ Concerns(rules[i], [kind |-> "user", of |-> u], x, "Deny")
        \/ Concerns(rules[i], [kind |-> "role", of |-> r], x, "Deny")

LEMMA Denied ==
    ASSUME NEW u, NEW r, NEW x
    PROVE  CheckAcl(u, r, x) = "Deny" <=> Denies(u, r, x)
BY Zenon DEF CheckAcl, Denies

(* Whatever the rules, a coarser resource is not easier to reach.             *)
LEMMA CoarserIsStricter == AclCoarserIsStricter
<1>1. ASSUME NEW u, NEW r, NEW x, Denies(u, r, x) PROVE Denies(u, r, AllLabels)
  BY <1>1 DEF Denies, Concerns, MatchesResource
<1>2. ASSUME NEW u, NEW r, NEW l, NEW k, Denies(u, r, [kind |-> "label", label |-> l])
      PROVE  Denies(u, r, [kind |-> "property", label |-> l, key |-> k])
  BY <1>2 DEF Denies, Concerns, MatchesResource, AllLabels
<1> QED BY <1>1, <1>2, Denied DEF AclCoarserIsStricter
-----------------------------------------------------------------------------
(* The caches (StatementCache).                                               *)

(* The entries of a cache whose clock shows `at`, and a cache.                *)
EntriesOK(e, at) ==
    /\ DOMAIN e \subseteq Keys /\ IsFiniteSet(DOMAIN e) /\ Cardinality(DOMAIN e) <= Capacity
    /\ e = [k \in DOMAIN e |-> e[k]]
    /\ \A k \in DOMAIN e :
         e[k] = [value |-> e[k].value, at |-> e[k].at] /\ e[k].at \in 1 .. at
CacheOK(c) ==
    /\ c = [entries |-> c.entries, clock |-> c.clock]
    /\ c.clock \in 0 .. MaxClock /\ EntriesOK(c.entries, c.clock)

(* The entries e hold v under k and for the rest what f holds.                *)
ValuesOf(e, f, k, v) ==
    \A l \in DOMAIN e : \/ l = k /\ e[l].value = v
                        \/ l \in DOMAIN f /\ e[l].value = f[l].value

LEMMA NatsHaveLeast ==
    ASSUME NEW T, T \subseteq Nat, T # {}
    PROVE  \E x \in T : \A y \in T : x <= y
<1> DEFINE less == {ss \in Nat \X Nat : ss[1] < ss[2]}
<1>1. IsWellFoundedOn(less, Nat)
  BY NatLessThanWellFounded DEF OpToRel
<1>2. \A x, y \in Nat : ~(<<y, x>> \in less) => x <= y
  OBVIOUS
<1> HIDE DEF less
<1>3. \E x \in T : \A y \in T : ~(<<y, x>> \in less)
  BY <1>1, WFMin
<1> QED BY <1>2, <1>3

(* A cache that holds something has an entry used least recently.             *)
LEMMA LruExists ==
    ASSUME NEW e, NEW at \in Nat, EntriesOK(e, at), DOMAIN e # {}
    PROVE  Lru(e) \in DOMAIN e
<1> DEFINE T == {e[k].at : k \in DOMAIN e}
<1>1. T \subseteq Nat /\ T # {}
  BY DEF EntriesOK
<1>2. PICK x \in T : \A y \in T : x <= y
  BY <1>1, NatsHaveLeast
<1>3. \E k \in DOMAIN e : \A l \in DOMAIN e : e[k].at <= e[l].at
  BY <1>2
<1> QED BY <1>3 DEF Lru

LEMMA RemoveOK ==
    ASSUME NEW e, NEW at \in Nat, EntriesOK(e, at), NEW k
    PROVE  /\ EntriesOK(Remove(e, k), at)
           /\ DOMAIN Remove(e, k) = DOMAIN e \ {k}
           /\ \A l \in DOMAIN Remove(e, k) : Remove(e, k)[l].value = e[l].value
           /\ k \in DOMAIN e => Cardinality(DOMAIN Remove(e, k)) < Cardinality(DOMAIN e)
<1> DEFINE d == Remove(e, k)
<1>1. DOMAIN d = DOMAIN e \ {k} /\ (\A l \in DOMAIN d : d[l] = e[l]) /\ d = [l \in DOMAIN d |-> d[l]]
  BY DEF Remove
<1>2. Cardinality(DOMAIN e) \in Nat
  BY FS_CardinalityType DEF EntriesOK
<1>3. /\ IsFiniteSet(DOMAIN d)
      /\ Cardinality(DOMAIN d) = IF k \in DOMAIN e THEN Cardinality(DOMAIN e) - 1 ELSE Cardinality(DOMAIN e)
  BY <1>1, FS_RemoveElement DEF EntriesOK
<1>4. /\ Cardinality(DOMAIN d) <= Capacity
      /\ k \in DOMAIN e => Cardinality(DOMAIN d) < Cardinality(DOMAIN e)
  BY <1>2, <1>3, CacheAssumption DEF EntriesOK
<1> HIDE DEF d
<1>5. EntriesOK(d, at)
  BY <1>1, <1>3, <1>4 DEF EntriesOK
<1> QED BY <1>1, <1>4, <1>5 DEF d

LEMMA EvictOK ==
    ASSUME NEW e, NEW at \in Nat, EntriesOK(e, at)
    PROVE  /\ EntriesOK(EvictLru(e), at)
           /\ DOMAIN EvictLru(e) \subseteq DOMAIN e
           /\ \A l \in DOMAIN EvictLru(e) : EvictLru(e)[l].value = e[l].value
           /\ e # NoEntries => Cardinality(DOMAIN EvictLru(e)) < Cardinality(DOMAIN e)
<1>1. CASE e = NoEntries
  BY <1>1 DEF EvictLru
<1>2. CASE e # NoEntries
  <2>1. DOMAIN e # {}
    BY <1>2 DEF EntriesOK, NoEntries
  <2>2. Lru(e) \in DOMAIN e
    BY <2>1, LruExists
  <2> QED BY <1>2, <2>2, RemoveOK DEF EvictLru
<1> QED BY <1>1, <1>2

LEMMA HitOK ==
    ASSUME NEW c, CacheOK(c), c.clock < MaxClock, NEW k \in DOMAIN c.entries, NEW v
    PROVE  CacheOK(Hit(c, k)) /\ ValuesOf(Hit(c, k).entries, c.entries, k, c.entries[k].value)
<1> DEFINE e == [c.entries EXCEPT ![k] = [@ EXCEPT !.at = c.clock + 1]]
<1>1. Hit(c, k) = [entries |-> e, clock |-> c.clock + 1]
  <2> DEFINE h == Hit(c, k)
  <2>1. c = [entries |-> c.entries, clock |-> c.clock]
    BY DEF CacheOK
  <2>2. DOMAIN h = {"entries", "clock"} /\ h.entries = e /\ h.clock = c.clock + 1
    BY <2>1 DEF Hit
  <2>3. h = [x \in DOMAIN h |-> h[x]]
    BY DEF Hit
  <2> HIDE DEF h
  <2>4. h = [entries |-> e, clock |-> c.clock + 1]
    BY <2>2, <2>3
  <2> QED BY <2>4 DEF h
<1>2. /\ DOMAIN e = DOMAIN c.entries /\ e[k] = [value |-> c.entries[k].value, at |-> c.clock + 1]
      /\ \A l \in DOMAIN e \ {k} : e[l] = c.entries[l]
      /\ e = [l \in DOMAIN e |-> e[l]]
  BY DEF CacheOK, EntriesOK
<1>3. c.clock \in Nat /\ c.clock + 1 \in 0 .. MaxClock
  BY CacheAssumption DEF CacheOK
<1> HIDE DEF e
<1>4. EntriesOK(e, c.clock + 1)
  BY <1>2, <1>3 DEF CacheOK, EntriesOK
<1>5. ValuesOf(e, c.entries, k, c.entries[k].value)
  BY <1>2 DEF ValuesOf
<1> QED BY <1>1, <1>3, <1>4, <1>5 DEF CacheOK

LEMMA InsertOK ==
    ASSUME NEW c, CacheOK(c), c.clock < MaxClock, NEW k \in Keys, k \notin DOMAIN c.entries, NEW v
    PROVE  CacheOK(Insert(c, k, v)) /\ ValuesOf(Insert(c, k, v).entries, c.entries, k, v)
<1>0. c.clock \in Nat /\ c.clock + 1 \in 0 .. MaxClock
  BY CacheAssumption DEF CacheOK
<1>1. CASE Capacity = 0
  BY <1>1 DEF Insert, ValuesOf
<1>2. CASE Capacity # 0
  <2> DEFINE room == IF Cardinality(DOMAIN c.entries) >= Capacity
                     THEN EvictLru(c.entries) ELSE c.entries
             e == [l \in DOMAIN room \cup {k} |->
                      IF l = k THEN [value |-> v, at |-> c.clock + 1] ELSE room[l]]
  <2>1. Insert(c, k, v) = [entries |-> e, clock |-> c.clock + 1]
    BY <1>2 DEF Insert, CacheOK
  <2>2. Cardinality(DOMAIN c.entries) \in Nat
    BY FS_CardinalityType DEF CacheOK, EntriesOK
  <2>3. /\ EntriesOK(room, c.clock) /\ DOMAIN room \subseteq DOMAIN c.entries
        /\ \A l \in DOMAIN room : room[l].value = c.entries[l].value
        /\ Cardinality(DOMAIN room) < Capacity
    <3>1. CASE Cardinality(DOMAIN c.entries) >= Capacity
      <4>1. Cardinality(DOMAIN c.entries) # 0
        BY <1>2, <2>2, <3>1, CacheAssumption
      <4>2. DOMAIN NoEntries = {}
        BY DEF NoEntries
      <4>3. c.entries # NoEntries
        BY <4>1, <4>2, FS_EmptySet
      <4>4. /\ EntriesOK(room, c.clock) /\ DOMAIN room \subseteq DOMAIN c.entries
            /\ \A l \in DOMAIN room : room[l].value = c.entries[l].value
            /\ Cardinality(DOMAIN room) < Cardinality(DOMAIN c.entries)
        BY <1>0, <3>1, <4>3, EvictOK DEF CacheOK
      <4>5. Cardinality(DOMAIN room) \in Nat
        BY <4>4, FS_CardinalityType DEF EntriesOK
      <4>6. Cardinality(DOMAIN c.entries) <= Capacity
        BY DEF CacheOK, EntriesOK
      <4> HIDE DEF room
      <4>7. Cardinality(DOMAIN room) < Capacity
        BY <2>2, <4>4, <4>5, <4>6, CacheAssumption
      <4> QED BY <4>4, <4>7
    <3>2. CASE ~(Cardinality(DOMAIN c.entries) >= Capacity)
      BY <2>2, <3>2, CacheAssumption DEF CacheOK
    <3> QED BY <3>1, <3>2
  <2> HIDE DEF room
  <2>4. /\ DOMAIN e = DOMAIN room \cup {k} /\ k \notin DOMAIN room
        /\ e[k] = [value |-> v, at |-> c.clock + 1]
        /\ \A l \in DOMAIN room : e[l] = room[l]
        /\ e = [l \in DOMAIN e |-> e[l]]
    BY <2>3
  <2> HIDE DEF e
  <2>5. IsFiniteSet(DOMAIN e) /\ Cardinality(DOMAIN e) = Cardinality(DOMAIN room) + 1
    BY <2>3, <2>4, FS_AddElement DEF EntriesOK
  <2>6. Cardinality(DOMAIN room) \in Nat
    BY <2>3, FS_CardinalityType DEF EntriesOK
  <2>7. Cardinality(DOMAIN e) <= Capacity
    BY <2>3, <2>5, <2>6, CacheAssumption
  <2>8. EntriesOK(e, c.clock + 1)
    BY <1>0, <2>3, <2>4, <2>5, <2>7 DEF EntriesOK
  <2>9. ValuesOf(e, c.entries, k, v)
    BY <2>3, <2>4 DEF ValuesOf
  <2> QED BY <1>0, <2>1, <2>8, <2>9 DEF CacheOK
<1> QED BY <1>1, <1>2

LEMMA EmptyOK == CacheOK(EmptyCache) /\ DOMAIN EmptyCache.entries = {}
<1>1. DOMAIN NoEntries = {} /\ NoEntries = [k \in {} |-> NoEntries[k]]
  BY DEF NoEntries
<1>2. EmptyCache = [entries |-> NoEntries, clock |-> 0]
  BY DEF EmptyCache
<1> HIDE DEF EmptyCache, NoEntries
<1>3. EntriesOK(NoEntries, 0)
  BY <1>1, FS_EmptySet, CacheAssumption DEF EntriesOK
<1> QED BY <1>1, <1>2, <1>3, CacheAssumption DEF CacheOK

(* What belongs to a key belongs to each of its texts, and what a text parses *)
(* to belongs to its key and, if the key decides, nothing else does.          *)
LEMMA OwnBelongs ==
    ASSUME NEW q \in Queries
    PROVE  Belongs(ParseOf[q], q)
BY DEF Belongs, Alike

LEMMA AlikeBelongs ==
    ASSUME NEW q, NEW r, KeyOf(r) = KeyOf(q), NEW x, Belongs(x, q)
    PROVE  Belongs(x, r)
BY Zenon DEF Belongs, Alike

LEMMA DecidedBelongs ==
    ASSUME NEW q, KeyDecides(q), NEW x, Belongs(x, q)
    PROVE  x = ParseOf[q]
BY DEF Belongs, KeyDecides

(* Every stored statement belongs to its key.                                 *)
Faithful(e) == \A q \in Queries : KeyOf(q) \in DOMAIN e => Belongs(e[KeyOf(q)].value, q)
AstInv == CacheOK(ast) /\ Faithful(ast.entries)

(* A lookup keeps the cache and answers with a statement of the text's key.   *)
LEMMA GetOrParseOK ==
    ASSUME NEW c, CacheOK(c), Faithful(c.entries), c.clock < MaxClock, NEW q \in Queries
    PROVE  /\ CacheOK(GetOrParse(c, q).cache) /\ Faithful(GetOrParse(c, q).cache.entries)
           /\ Belongs(GetOrParse(c, q).statement, q)
<1> DEFINE k == KeyOf(q)
<1>0. k \in Keys /\ \A p \in Queries : \A x : KeyOf(p) = k /\ Belongs(x, q) => Belongs(x, p)
  BY AlikeBelongs DEF Keys
<1>1. CASE k \in DOMAIN c.entries
  <2>1. /\ GetOrParse(c, q).cache = Hit(c, k)
        /\ GetOrParse(c, q).statement = c.entries[k].value
    BY <1>1 DEF GetOrParse
  <2>2. Belongs(c.entries[k].value, q)
    BY <1>1 DEF Faithful
  <2>3. CacheOK(Hit(c, k)) /\ ValuesOf(Hit(c, k).entries, c.entries, k, c.entries[k].value)
    BY <1>1, HitOK
  <2> HIDE DEF k
  <2>4. Faithful(Hit(c, k).entries)
    BY <1>0, <2>2, <2>3 DEF Faithful, ValuesOf
  <2> QED BY <2>1, <2>2, <2>3, <2>4
<1>2. CASE k \notin DOMAIN c.entries
  <2>1. /\ GetOrParse(c, q).cache = IF ParseOf[q] = ParseError THEN c ELSE Insert(c, k, ParseOf[q])
        /\ GetOrParse(c, q).statement = ParseOf[q]
    BY <1>2 DEF GetOrParse
  <2>2. CacheOK(Insert(c, k, ParseOf[q])) /\ ValuesOf(Insert(c, k, ParseOf[q]).entries, c.entries, k, ParseOf[q])
    BY <1>0, <1>2, InsertOK
  <2> HIDE DEF k
  <2>3. Faithful(Insert(c, k, ParseOf[q]).entries)
    BY <1>0, <2>2, OwnBelongs DEF Faithful, ValuesOf
  <2> QED BY <2>1, <2>2, <2>3, OwnBelongs
<1> QED BY <1>1, <1>2

LEMMA AstNext ==
    ASSUME CacheOK(ast'), Faithful(ast'.entries)
    PROVE  AstInv'
<1>1. CacheOK(ast)'
  BY DEF CacheOK, EntriesOK
<1>2. Faithful(ast.entries)'
  BY DEF Faithful, Belongs, Alike
<1> QED BY <1>1, <1>2 DEF AstInv

LEMMA AstSame ==
    ASSUME AstInv, UNCHANGED ast
    PROVE  AstInv'
BY AstNext DEF AstInv

LEMMA AstCleared ==
    ASSUME ast' = EmptyCache
    PROVE  AstInv'
<1>1. CacheOK(EmptyCache) /\ Faithful(EmptyCache.entries)
  BY EmptyOK DEF Faithful
<1> QED BY <1>1, AstNext

LEMMA ParseKeeps ==
    ASSUME AstInv, NEW q \in Queries, Parse(q)
    PROVE  AstInv' /\ Belongs(GetOrParse(ast, q).statement, q)
<1>1. /\ CacheOK(GetOrParse(ast, q).cache) /\ Faithful(GetOrParse(ast, q).cache.entries)
      /\ Belongs(GetOrParse(ast, q).statement, q)
  BY GetOrParseOK DEF AstInv, Parse
<1>2. ast' = GetOrParse(ast, q).cache
  BY DEF Parse
<1> HIDE DEF Parse
<1> QED BY <1>1, <1>2, AstNext

LEMMA AstShows ==
    ASSUME AstInv, lastParse.query \in Queries \cup {<<>>}
    PROVE  CacheTypeOK
BY DEF AstInv, CacheTypeOK, CacheOK, EntriesOK

(* The inductive invariant of the statement cache.                            *)
Answer(r) == r.query \in Queries \cup {<<>>} /\ (r = NoParse \/ Belongs(r.statement, r.query))
StatementsInv == AstInv /\ Answer(lastParse)

LEMMA NoAnswer == Answer(NoParse)
BY DEF Answer, NoParse

LEMMA StatementsNext ==
    ASSUME AstInv', Answer(lastParse')
    PROVE  StatementsInv'
BY DEF StatementsInv, Answer, Belongs, Alike, NoParse

LEMMA StatementsStart == CacheInit => StatementsInv
<1> SUFFICES ASSUME CacheInit PROVE StatementsInv
  OBVIOUS
<1>1. CacheOK(ast) /\ Faithful(ast.entries)
  BY EmptyOK DEF CacheInit, Faithful
<1> QED BY <1>1, NoAnswer DEF CacheInit, StatementsInv, AstInv

LEMMA LookupKeeps ==
    ASSUME StatementsInv, NEW q \in Queries, Parse(q)
    PROVE  StatementsInv' /\ Belongs(GetOrParse(ast, q).statement, q)
<1>1. AstInv' /\ Belongs(GetOrParse(ast, q).statement, q)
  BY ParseKeeps DEF StatementsInv
<1>2. lastParse' = [query |-> q, statement |-> GetOrParse(ast, q).statement]
  BY DEF Parse
<1>3. Answer(lastParse')
  BY <1>1, <1>2 DEF Answer
<1> QED BY <1>1, <1>3, StatementsNext

LEMMA NoLookupKeeps ==
    ASSUME StatementsInv, NoLookup
    PROVE  StatementsInv'
BY AstSame, NoAnswer, StatementsNext DEF StatementsInv, NoLookup

LEMMA ClearKeeps ==
    ASSUME ClearCache
    PROVE  StatementsInv'
BY AstCleared, NoAnswer, StatementsNext DEF ClearCache

LEMMA StatementsSame ==
    ASSUME StatementsInv, UNCHANGED cacheVars
    PROVE  StatementsInv'
BY AstSame, StatementsNext DEF StatementsInv, cacheVars

LEMMA StatementsKept ==
    ASSUME StatementsInv, [CacheNext]_cacheVars
    PROVE  StatementsInv'
<1>1. CASE ClearCache
  BY <1>1, ClearKeeps
<1>2. ASSUME NEW q \in Queries, Parse(q) PROVE StatementsInv'
  BY <1>2, LookupKeeps
<1>3. ASSUME NEW q \in Queries, Invalidate(q) PROVE StatementsInv'
  <2> DEFINE e == Remove(ast.entries, KeyOf(q))
  <2>1. CacheOK(ast) /\ ast.clock \in Nat /\ Faithful(ast.entries)
    BY CacheAssumption DEF StatementsInv, AstInv, CacheOK
  <2>2. ast' = [entries |-> e, clock |-> ast.clock]
    BY <1>3, <2>1 DEF Invalidate, Invalidated, CacheOK
  <2>3. /\ EntriesOK(e, ast.clock) /\ DOMAIN e \subseteq DOMAIN ast.entries
        /\ \A l \in DOMAIN e : e[l].value = ast.entries[l].value
    <3>1. EntriesOK(ast.entries, ast.clock)
      BY <2>1 DEF CacheOK
    <3>2. /\ EntriesOK(e, ast.clock) /\ DOMAIN e = DOMAIN ast.entries \ {KeyOf(q)}
          /\ \A l \in DOMAIN e : e[l].value = ast.entries[l].value
      BY <2>1, <3>1, RemoveOK
    <3> QED BY <3>2
  <2> HIDE DEF e
  <2>4. CacheOK(ast') /\ Faithful(ast'.entries)
    BY <2>1, <2>2, <2>3 DEF CacheOK, Faithful
  <2> QED BY <1>3, <2>4, AstNext, NoAnswer, StatementsNext DEF Invalidate
<1>4. CASE UNCHANGED cacheVars
  BY <1>4, StatementsSame
<1> QED BY <1>1, <1>2, <1>3, <1>4 DEF CacheNext

(* Every stored plan is for a statement of its key.                           *)
Planned(e) == \A q \in Queries : KeyOf(q) \in DOMAIN e => Belongs(e[KeyOf(q)].value.statement, q)

(* The inductive invariant of the plan cache.                                 *)
PlansInv == CacheOK(plans) /\ Planned(plans.entries) /\ stats \in AllStats /\ PlanCurrent

LEMMA PlansStart == PlanInit => PlansInv
<1> SUFFICES ASSUME PlanInit PROVE PlansInv
  OBVIOUS
<1>1. CacheOK(plans) /\ Planned(plans.entries)
  BY EmptyOK DEF PlanInit, Planned
<1> QED BY <1>1 DEF PlanInit, PlansInv, PlanCurrent, NoPlan

LEMMA PlansNext ==
    ASSUME CacheOK(plans'), Planned(plans'.entries), stats' \in AllStats, PlanCurrent'
    PROVE  PlansInv'
<1>1. CacheOK(plans)'
  BY DEF CacheOK, EntriesOK
<1>2. Planned(plans.entries)'
  BY DEF Planned, Belongs, Alike
<1> QED BY <1>1, <1>2 DEF PlansInv, AllStats

(* A lookup keeps the cache and serves a plan for a statement of the key and  *)
(* the counts it is asked with.                                               *)
LEMMA GetOrBuildOK ==
    ASSUME NEW c, CacheOK(c), Planned(c.entries), c.clock < MaxClock,
           NEW q \in Queries, NEW s
    PROVE  LET built == GetOrBuild(c, q, ParseOf[q], s)
           IN /\ CacheOK(built.cache) /\ Planned(built.cache.entries)
              /\ Belongs(built.plan.statement, q) /\ CountsMatch(built.plan.from, s)
<1> DEFINE k == KeyOf(q)
           plan == BuildPlan(ParseOf[q], s)
           kept == [entries |-> Remove(c.entries, k), clock |-> c.clock]
           built == GetOrBuild(c, q, ParseOf[q], s)
<1>0. k \in Keys /\ \A p \in Queries : \A x : KeyOf(p) = k /\ Belongs(x, q) => Belongs(x, p)
  BY AlikeBelongs DEF Keys
<1>1. CASE k \in DOMAIN c.entries /\ CountsMatch(c.entries[k].value.from, s)
  <2>1. built.cache = Hit(c, k) /\ built.plan = c.entries[k].value
    BY <1>1 DEF GetOrBuild
  <2>2. Belongs(c.entries[k].value.statement, q)
    BY <1>1 DEF Planned
  <2>3. CacheOK(Hit(c, k)) /\ ValuesOf(Hit(c, k).entries, c.entries, k, c.entries[k].value)
    BY <1>1, HitOK
  <2> HIDE DEF k
  <2>4. Planned(Hit(c, k).entries)
    BY <1>0, <2>2, <2>3 DEF Planned, ValuesOf
  <2> QED BY <1>1, <2>1, <2>2, <2>3, <2>4
<1>2. CASE ~(k \in DOMAIN c.entries /\ CountsMatch(c.entries[k].value.from, s))
  <2>1. [c EXCEPT !.entries = Remove(@, k)] = kept
    BY DEF CacheOK
  <2>2. built.cache = Insert(kept, k, plan) /\ built.plan = plan
    BY <1>2, <2>1 DEF GetOrBuild
  <2>3. Belongs(plan.statement, q) /\ CountsMatch(plan.from, s)
    BY OwnBelongs DEF BuildPlan, CountsMatch
  <2>4. /\ EntriesOK(Remove(c.entries, k), c.clock)
        /\ DOMAIN Remove(c.entries, k) = DOMAIN c.entries \ {k}
        /\ \A l \in DOMAIN Remove(c.entries, k) : Remove(c.entries, k)[l].value = c.entries[l].value
    <3>1. c.clock \in Nat
      BY CacheAssumption DEF CacheOK
    <3> QED BY <3>1, RemoveOK DEF CacheOK
  <2>5. CacheOK(kept) /\ kept.clock < MaxClock /\ k \notin DOMAIN kept.entries
    BY <2>4 DEF CacheOK
  <2>6. Planned(kept.entries)
    BY <2>4 DEF Planned
  <2> HIDE DEF kept, plan, k
  <2>7. CacheOK(Insert(kept, k, plan)) /\ ValuesOf(Insert(kept, k, plan).entries, kept.entries, k, plan)
    BY <1>0, <2>5, InsertOK
  <2>8. Planned(Insert(kept, k, plan).entries)
    BY <1>0, <2>3, <2>6, <2>7 DEF Planned, ValuesOf
  <2> QED BY <2>2, <2>3, <2>7, <2>8
<1> QED BY <1>1, <1>2

LEMMA PlansKept ==
    ASSUME PlansInv, [PlanNext]_planVars
    PROVE  PlansInv'
<1>1. CASE ClearPlans
  <2>1. CacheOK(EmptyCache) /\ Planned(EmptyCache.entries)
    BY EmptyOK DEF Planned
  <2> QED BY <1>1, <2>1, PlansNext DEF ClearPlans, PlansInv, PlanCurrent, Belongs, Alike
<1>2. CASE GraphChanges
  BY <1>2, PlansNext DEF GraphChanges, PlansInv, PlanCurrent, Belongs, Alike
<1>3. ASSUME NEW q \in PlanQueries, Plan(q) PROVE PlansInv'
  <2> DEFINE built == GetOrBuild(plans, q, ParseOf[q], stats)
  <2>1. q \in Queries /\ plans.clock < MaxClock
    BY <1>3, PlanAssumption DEF Plan
  <2>2. /\ CacheOK(built.cache) /\ Planned(built.cache.entries)
        /\ Belongs(built.plan.statement, q) /\ CountsMatch(built.plan.from, stats)
    BY <2>1, GetOrBuildOK DEF PlansInv
  <2>3. /\ plans' = built.cache /\ stats' = stats
        /\ lastPlan' = [query |-> q, plan |-> built.plan, asked |-> stats]
    BY <1>3 DEF Plan
  <2> HIDE DEF built
  <2>4. PlanCurrent'
    BY <2>2, <2>3 DEF PlanCurrent, CountsMatch, Belongs, Alike
  <2> QED BY <2>2, <2>3, <2>4, PlansNext DEF PlansInv
<1>4. CASE UNCHANGED planVars
  BY <1>4, PlansNext DEF planVars, PlansInv, PlanCurrent, Belongs, Alike
<1> QED BY <1>1, <1>2, <1>3, <1>4 DEF PlanNext

(* Whatever texts are asked for: the caches answer each with a statement or a *)
(* plan of its key, so with its own if the key decides, for any capacity and  *)
(* any sequence of lookups, invalidations, clears and changes of the graph.   *)
THEOREM CachesAlwaysFaithful == CacheSpec /\ PlanSpec => []CachesFaithful
<1>1. CacheInit /\ PlanInit => StatementsInv /\ PlansInv
  BY StatementsStart, PlansStart
<1>2. StatementsInv /\ PlansInv /\ [CacheNext]_cacheVars /\ [PlanNext]_planVars
         => (StatementsInv /\ PlansInv)'
  BY StatementsKept, PlansKept
<1>3. StatementsInv /\ PlansInv => CachesFaithful
  <2>1. PlansInv => PlanTypeOK
    BY DEF PlansInv, PlanTypeOK, CacheOK, EntriesOK
  <2> QED BY <2>1, AstShows DEF StatementsInv, Answer, StatementOfKey, PlansInv, CachesFaithful
<1> QED BY <1>1, <1>2, <1>3, PTL DEF CacheSpec, PlanSpec
-----------------------------------------------------------------------------
(* The way of a request (Frontend).                                           *)

Statements == {ParseOf[q] : q \in Queries} \cup {ParseError}
RequestType ==
    [st : {"idle", "checked", "managing", "executing"}, query : Queries \cup {<<>>},
     role : Roles, stream : BOOLEAN, statement : Statements]

(* What a connection knows of the request it serves: users are managed with a *)
(* statement of the text's key by a role that may, and execution was allowed  *)
(* for the statement that the text itself parses to.                          *)
Authorized(r) ==
    /\ r.st # "idle" => r.query \in Queries
    /\ r.st = "managing" =>
         /\ Belongs(r.statement, r.query) /\ r.statement # ParseError
         /\ RequireAuth => "ManageUsers" \in Permitted(r.role)
    /\ r.st = "executing" => AuthorizeQuery(r.role, r.query)
ConnsInv == conns \in [Conns -> RequestType] /\ \A c \in Conns : Authorized(conns[c])

(* The inductive invariant of the front end.                                  *)
FrontendInv == AuthInv /\ StatementsInv /\ ConnsInv /\ RanAsAuthorized

(* One connection changes.                                                    *)
LEMMA ConnMoves ==
    ASSUME ConnsInv, NEW c \in Conns, NEW r \in RequestType, Authorized(r),
           conns' = [conns EXCEPT ![c] = r]
    PROVE  ConnsInv'
<1>1. conns' \in [Conns -> RequestType] /\ \A d \in Conns : Authorized(conns'[d])
  BY DEF ConnsInv
<1>2. (conns \in [Conns -> RequestType])'
  BY <1>1 DEF RequestType, Statements, Roles
<1>3. (\A d \in Conns : Authorized(conns[d]))'
  BY <1>1 DEF Authorized, AuthorizeQuery, Belongs, Alike
<1> QED BY <1>2, <1>3 DEF ConnsInv

LEMMA ConnsSame ==
    ASSUME ConnsInv, UNCHANGED conns
    PROVE  ConnsInv'
BY DEF ConnsInv, RequestType, Statements, Roles, Authorized, AuthorizeQuery, Belongs, Alike

LEMMA IdleOK == Idle \in RequestType /\ Authorized(Idle)
BY DEF Idle, RequestType, Statements, Roles, Authorized

LEMMA AnsweredOK ==
    ASSUME ConnsInv, NEW c \in Conns, Answered(c)
    PROVE  ConnsInv'
BY IdleOK, ConnMoves DEF Answered

LEMMA CheckSessionKeeps ==
    ASSUME AuthInv, NEW t, CheckSession(t)
    PROVE  AuthInv'
BY ValidateSessionKeeps, UnchangedAuth DEF CheckSession

LEMMA RoleKnown ==
    ASSUME AuthInv, NEW t, CheckSessionOk(t)
    PROVE  RoleOf(t) \in Roles
<1>1. CASE RequireAuth
  <2>1. t \in DOMAIN sessions
    BY <1>1, ValidSession DEF CheckSessionOk
  <2>2. sessions \in [DOMAIN sessions -> Session]
    BY AuthParts DEF SessionsGood
  <2> QED BY <1>1, <2>1, <2>2 DEF RoleOf, Session
<1>2. CASE ~RequireAuth
  BY <1>2 DEF RoleOf, Roles
<1> QED BY <1>1, <1>2

(* ALTER USER: the password, then the role, and whatever of it is saved.      *)
LEMMA AlterUserKeeps ==
    ASSUME AuthInv, NEW s, AlterUser(s)
    PROVE  AuthInv'
<1> DEFINE n == s.user
           w == IF s.password \in Passwords /\ n \in DOMAIN users
                THEN [users EXCEPT ![n].password = s.password] ELSE users
<1>1. /\ Administered(users) /\ Restorable(file)
      /\ SessionsGood(sessions, users, issued, now)
      /\ saving \in BOOLEAN /\ accounts \in 1 .. MaxAccounts /\ now \in 0 .. MaxTime
  BY AuthParts
<1>2. users \in [DOMAIN users -> Account]
  BY <1>1 DEF Administered, AccountList
<1>3. /\ Administered(w) /\ DOMAIN w = DOMAIN users
      /\ \A m \in DOMAIN users : w[m].id = users[m].id /\ w[m].role = users[m].role
  <2>1. CASE s.password \in Passwords /\ n \in DOMAIN users
    <3> DEFINE a == [users[n] EXCEPT !.password = s.password]
    <3>1. a \in Account /\ a.id = users[n].id /\ a.role = users[n].role
      BY <1>2, <2>1 DEF Account
    <3>2. w = [users EXCEPT ![n] = a]
      BY <2>1
    <3>3. a.role = "admin" \/ users[n].role # "admin" \/ ~(Cardinality(Admins(users)) <= 1)
      BY <3>1
    <3> HIDE DEF a, w, n
    <3>4. /\ Administered(w) /\ DOMAIN w = DOMAIN users /\ w[n] = a
          /\ \A m \in DOMAIN users \ {n} : w[m] = users[m]
      BY <1>1, <2>1, <3>1, <3>2, <3>3, AccountChanged
    <3> QED BY <3>1, <3>4
  <2>2. CASE ~(s.password \in Passwords /\ n \in DOMAIN users)
    BY <1>1, <2>2
  <2> QED BY <2>1, <2>2
<1>4. w \in [DOMAIN w -> Account]
  BY <1>3 DEF Administered, AccountList
<1>5. Admins(w) = Admins(users)
  BY <1>3 DEF Admins
<1>6. /\ users' = IF s.role \in Roles /\ n \in DOMAIN users /\ AlterUserRoleResult(n, s.role) = "Ok"
                  THEN [w EXCEPT ![n].role = s.role] ELSE w
      /\ file' \in {Saved(users'), Saved(w), file, TornFile}
      /\ UNCHANGED <<sessions, issued, saving, accounts, now>>
  BY DEF AlterUser
<1> HIDE DEF w
<1>7. /\ Administered(users') /\ DOMAIN users' = DOMAIN users
      /\ \A m \in DOMAIN users : users'[m].id = users[m].id
  <2>1. CASE s.role \in Roles /\ n \in DOMAIN users /\ AlterUserRoleResult(n, s.role) = "Ok"
    <3> DEFINE a == [w[n] EXCEPT !.role = s.role]
    <3>1. s.role = "admin" \/ users[n].role # "admin" \/ ~(Cardinality(Admins(users)) <= 1)
      BY <2>1, AlterAllowed DEF LastAdmin
    <3>2. a \in Account /\ a.id = w[n].id /\ a.role = s.role
      BY <1>3, <1>4, <2>1 DEF Account
    <3>3. users' = [w EXCEPT ![n] = a]
      BY <1>6, <2>1
    <3> HIDE DEF a, n
    <3>4. n \in DOMAIN w
          /\ (a.role = "admin" \/ w[n].role # "admin" \/ ~(Cardinality(Admins(w)) <= 1))
      BY <1>3, <1>5, <2>1, <3>1, <3>2
    <3>5. /\ Administered(users') /\ DOMAIN users' = DOMAIN w /\ users'[n] = a
          /\ \A m \in DOMAIN w \ {n} : users'[m] = w[m]
      BY <1>3, <3>2, <3>3, <3>4, AccountChanged
    <3> QED BY <1>3, <3>2, <3>5
  <2>2. CASE ~(s.role \in Roles /\ n \in DOMAIN users /\ AlterUserRoleResult(n, s.role) = "Ok")
    BY <1>3, <1>6, <2>2
  <2> QED BY <2>1, <2>2
<1>8. Restorable(file')
  BY <1>1, <1>3, <1>6, <1>7, SaveRestorable
<1>9. SessionsGood(sessions, users', issued, now)
  BY <1>1, <1>7, SessionsStay
<1> QED BY <1>1, <1>6, <1>7, <1>8, <1>9, AuthPartsNext

(* RanAsAuthorized of the statement `r` that a step executed.                 *)
Ran(r) ==
    r = NothingRan \/
        /\ r.query # <<>> => Belongs(r.statement, r.query)
        /\ RequireAuth /\ (KeyDecides(r.query) \/ r.as = "ManageUsers")
             => r.as \in Permitted(r.role)
        /\ r.as = "Read" /\ r.query # <<>> /\ KeyDecides(r.query)
             => IsReadOnly(ParseOf[r.query])

LEMMA RanNext ==
    ASSUME Ran(ran')
    PROVE  RanAsAuthorized'
BY DEF Ran, RanAsAuthorized, NothingRan, IsReadOnly, Permitted, Operations, Belongs, Alike, KeyDecides

LEMMA FrontendNext ==
    ASSUME AuthInv', StatementsInv', ConnsInv', Ran(ran')
    PROVE  FrontendInv'
BY RanNext DEF FrontendInv

LEMMA NothingRanOK == Ran(NothingRan)
BY DEF Ran

LEMMA LoginKeeps ==
    ASSUME FrontendInv, NEW c, NEW n, NEW p, NEW t, Login(c, n, p, t)
    PROVE  FrontendInv'
<1>1. AuthInv'
  BY AuthenticateKeeps DEF FrontendInv, Login
<1> QED
  BY <1>1, NoLookupKeeps, ConnsSame, NothingRanOK, FrontendNext DEF FrontendInv, Login

LEMMA ArriveKeeps ==
    ASSUME FrontendInv, NEW c \in Conns, NEW q \in Requested, NEW t, NEW stream \in BOOLEAN,
           Arrive(c, q, t, stream)
    PROVE  FrontendInv'
<1>1. AuthInv'
  BY CheckSessionKeeps DEF FrontendInv, Arrive
<1>2. ConnsInv'
  <2>1. CASE CheckSessionOk(t)
    <3> DEFINE r == [st |-> "checked", query |-> q, role |-> RoleOf(t),
                     stream |-> stream, statement |-> ParseError]
    <3>1. RoleOf(t) \in Roles
      BY <2>1, RoleKnown DEF FrontendInv
    <3>2. r \in RequestType /\ Authorized(r)
      BY <3>1, FrontendAssumption DEF RequestType, Statements, Authorized
    <3>3. conns' = [conns EXCEPT ![c] = r]
      BY <2>1 DEF Arrive
    <3> HIDE DEF r
    <3> QED BY <3>2, <3>3, ConnMoves DEF FrontendInv
  <2>2. CASE ~CheckSessionOk(t)
    BY <2>2, ConnsSame DEF Arrive, FrontendInv
  <2> QED BY <2>1, <2>2
<1> QED
  BY <1>1, <1>2, NoLookupKeeps, NothingRanOK, FrontendNext DEF FrontendInv, Arrive

LEMMA TransactionRequestKeeps ==
    ASSUME FrontendInv, NEW c, NEW t, NEW begins, NEW readOnly,
           TransactionRequest(c, t, begins, readOnly)
    PROVE  FrontendInv'
<1>1. AuthInv'
  BY CheckSessionKeeps DEF FrontendInv, TransactionRequest
<1>2. Ran(ran')
  <2>1. CASE ran' = NothingRan
    BY <2>1, NothingRanOK
  <2>2. CASE "Write" \in Permitted(RoleOf(t)) /\ ran' = [NothingRan EXCEPT !.role = RoleOf(t), !.as = "Write"]
    <3>1. ran'.query = <<>> /\ ran'.as = "Write" /\ ran'.role = RoleOf(t)
      BY <2>2 DEF NothingRan
    <3> QED BY <2>2, <3>1 DEF Ran
  <2> QED BY <2>1, <2>2 DEF TransactionRequest
<1> QED
  BY <1>1, <1>2, NoLookupKeeps, ConnsSame, FrontendNext DEF FrontendInv, TransactionRequest

LEMMA DispatchKeeps ==
    ASSUME FrontendInv, NEW c \in Conns, Dispatch(c)
    PROVE  FrontendInv'
<1> DEFINE q == conns[c].query
           s == GetOrParse(ast, q).statement
           manages == ~conns[c].stream /\ IsUserManagement(s)
           become(st, x) == [conns[c] EXCEPT !.st = st, !.statement = x]
<1>1. /\ conns \in [Conns -> RequestType] /\ conns[c] \in RequestType /\ q \in Queries
      /\ conns[c].st = "checked"
  BY DEF FrontendInv, ConnsInv, Dispatch, Authorized
<1>2. AuthInv'
  BY UnchangedAuth DEF FrontendInv, Dispatch
<1>3. StatementsInv' /\ (manages => Belongs(s, q))
  <2>1. CASE conns[c].stream
    BY <2>1, NoLookupKeeps DEF FrontendInv, Dispatch
  <2>2. CASE ~conns[c].stream
    BY <1>1, <2>2, LookupKeeps DEF FrontendInv, Dispatch
  <2> QED BY <2>1, <2>2
<1>4. \A st \in {"managing", "executing"}, x \in Statements :
        /\ become(st, x) \in RequestType
        /\ become(st, x).st = st /\ become(st, x).statement = x
        /\ become(st, x).query = q /\ become(st, x).role = conns[c].role
  BY <1>1 DEF RequestType
<1>5. ASSUME NEW st \in {"managing", "executing"}, NEW x, Become(c, st, x)
      PROVE  conns' = [conns EXCEPT ![c] = become(st, x)]
  BY <1>1, <1>5 DEF Become, RequestType
<1>6. ConnsInv'
  <2>1. CASE Answered(c)
    BY <2>1, AnsweredOK DEF FrontendInv
  <2>2. CASE manages /\ (RequireAuth => "ManageUsers" \in Permitted(conns[c].role)) /\ Become(c, "managing", s)
    <3>1. Belongs(s, q) /\ s # ParseError /\ s \in Statements
      BY <1>1, <1>3, <2>2 DEF IsUserManagement, Statements, Belongs, Alike
    <3>2. conns' = [conns EXCEPT ![c] = become("managing", s)]
      BY <1>5, <2>2
    <3> HIDE DEF q, s, become
    <3>3. become("managing", s) \in RequestType /\ Authorized(become("managing", s))
      BY <1>1, <1>4, <2>2, <3>1 DEF Authorized
    <3> QED BY <3>2, <3>3, ConnMoves DEF FrontendInv
  <2>3. CASE AuthorizeQuery(conns[c].role, q) /\ Become(c, "executing", ParseError)
    <3>1. ParseError \in Statements
      BY DEF Statements
    <3>2. conns' = [conns EXCEPT ![c] = become("executing", ParseError)]
      BY <1>5, <2>3
    <3> HIDE DEF q, become
    <3>3. become("executing", ParseError) \in RequestType /\ Authorized(become("executing", ParseError))
      BY <1>1, <1>4, <2>3, <3>1 DEF Authorized
    <3> QED BY <3>2, <3>3, ConnMoves DEF FrontendInv
  <2> QED BY <2>1, <2>2, <2>3 DEF Dispatch
<1> QED BY <1>2, <1>3, <1>6, NothingRanOK, FrontendNext DEF FrontendInv, Dispatch

LEMMA ManageKeeps ==
    ASSUME FrontendInv, NEW c \in Conns, Manage(c)
    PROVE  FrontendInv'
<1> DEFINE s == conns[c].statement
           q == conns[c].query
<1>1. /\ conns[c].st = "managing" /\ q \in Queries /\ Belongs(s, q) /\ s # ParseError
      /\ RequireAuth => "ManageUsers" \in Permitted(conns[c].role)
  BY DEF FrontendInv, ConnsInv, Manage, Authorized
<1>2. \/ s.kind = "create_user" /\ s.role \in Roles /\ CreateUser(s.user, s.password, s.role)
      \/ DropUser(s.user)
      \/ AlterUser(s)
      \/ UNCHANGED authVars
  BY Zenon DEF Manage
<1>3. AuthInv'
  <2>1. CASE s.kind = "create_user" /\ s.role \in Roles /\ CreateUser(s.user, s.password, s.role)
    <3>1. s.user \in Names /\ s.password \in Passwords
      BY <1>1, <2>1, FrontendAssumption DEF Belongs, Alike
    <3> QED BY <2>1, <3>1, CreateUserKeeps DEF FrontendInv
  <2>2. CASE DropUser(s.user)
    BY <2>2, DropUserKeeps DEF FrontendInv
  <2>3. CASE AlterUser(s)
    BY <2>3, AlterUserKeeps DEF FrontendInv
  <2>4. CASE UNCHANGED authVars
    BY <2>4, UnchangedAuth DEF FrontendInv
  <2> QED BY <1>2, <2>1, <2>2, <2>3, <2>4
<1>4. /\ Answered(c) /\ NoLookup
      /\ ran' = [query |-> q, statement |-> s, role |-> conns[c].role, as |-> "ManageUsers"]
  BY Zenon DEF Manage
<1>5. Ran(ran')
  BY <1>1, <1>4 DEF Ran
<1> QED
  BY <1>3, <1>4, <1>5, NoLookupKeeps, AnsweredOK, FrontendNext DEF FrontendInv

LEMMA ExecuteKeeps ==
    ASSUME FrontendInv, NEW c \in Conns, Execute(c)
    PROVE  FrontendInv'
<1> DEFINE q == conns[c].query
           s == GetOrParse(ast, q).statement
<1>1. q \in Queries /\ AuthorizeQuery(conns[c].role, q)
  BY DEF FrontendInv, ConnsInv, Execute, Authorized
<1>2. AuthInv'
  BY UnchangedAuth DEF FrontendInv, Execute
<1>3. StatementsInv' /\ Belongs(s, q) /\ (KeyDecides(q) => s = ParseOf[q])
  BY <1>1, LookupKeeps, DecidedBelongs DEF FrontendInv, Execute
<1>4. ran' = IF s = ParseError THEN NothingRan
             ELSE [query |-> q, statement |-> s, role |-> conns[c].role, as |-> OperationOf(s)]
  BY DEF Execute
<1>5. Ran(ran')
  <2>1. CASE s = ParseError
    BY <1>4, <2>1, NothingRanOK
  <2>2. CASE s # ParseError
    <3> HIDE DEF s, q
    <3>1. KeyDecides(q) => OperationOf(s) \in Permitted(conns[c].role)
      BY <1>1, <1>3, <2>2 DEF AuthorizeQuery
    <3>2. (OperationOf(s) = "Read" => IsReadOnly(s)) /\ OperationOf(s) # "ManageUsers"
      BY DEF OperationOf
    <3> QED BY <1>3, <1>4, <2>2, <3>1, <3>2 DEF Ran
  <2> QED BY <2>1, <2>2
<1> QED
  BY <1>2, <1>3, <1>5, AnsweredOK, FrontendNext DEF FrontendInv, Execute

LEMMA RebootKeeps ==
    ASSUME FrontendInv, Reboot
    PROVE  FrontendInv'
<1>1. AuthInv'
  BY RestartKeeps DEF FrontendInv, Reboot
<1>2. StatementsInv'
  BY ClearKeeps DEF Reboot
<1>3. ConnsInv'
  <2>1. conns' = [c \in Conns |-> Idle]
    BY DEF Reboot
  <2>2. conns' \in [Conns -> RequestType] /\ \A d \in Conns : Authorized(conns'[d])
    BY <2>1, IdleOK
  <2>3. (conns \in [Conns -> RequestType])'
    BY <2>2 DEF RequestType, Statements, Roles
  <2>4. (\A d \in Conns : Authorized(conns[d]))'
    BY <2>2 DEF Authorized, AuthorizeQuery, Belongs, Alike
  <2> QED BY <2>3, <2>4 DEF ConnsInv
<1> QED BY <1>1, <1>2, <1>3, NothingRanOK, FrontendNext DEF FrontendInv, Reboot

(* Access is guarded at every level, for any users, connections and texts:    *)
(* although a text is authorised by a parse of its own and executed from the  *)
(* shared cache, and users are dropped and altered and the server restarts    *)
(* between the two, a request runs a statement of its key only, manages users *)
(* only with a role that may, and, if its key decides, runs nothing that its  *)
(* role may not run.                                                          *)
THEOREM AccessAlwaysGuarded == FrontendSpec => []AccessGuarded
<1>1. Init => FrontendInv
  <2> SUFFICES ASSUME Init PROVE FrontendInv
    OBVIOUS
  <2>1. AuthInv
    BY AuthStarts DEF Init
  <2>2. StatementsInv
    BY StatementsStart DEF Init
  <2>3. ConnsInv
    BY IdleOK DEF Init, ConnsInv
  <2> QED BY <2>1, <2>2, <2>3 DEF Init, FrontendInv, RanAsAuthorized
<1>2. FrontendInv /\ [Next]_vars => FrontendInv'
  <2> SUFFICES ASSUME FrontendInv, [Next]_vars PROVE FrontendInv'
    OBVIOUS
  <2>1. CASE UNCHANGED vars
    <3>1. AuthInv'
      BY <2>1, UnchangedAuth DEF FrontendInv, vars
    <3>2. Ran(ran')
      BY <2>1 DEF FrontendInv, vars, RanAsAuthorized, Ran
    <3> QED BY <2>1, <3>1, <3>2, StatementsSame, ConnsSame, FrontendNext DEF FrontendInv, vars
  <2>2. CASE Next
    BY <2>2, RebootKeeps, DispatchKeeps, ManageKeeps, ExecuteKeeps, LoginKeeps, ArriveKeeps,
       TransactionRequestKeeps
       DEF Next
  <2> QED BY <2>1, <2>2
<1>3. FrontendInv => AccessGuarded
  <2> SUFFICES ASSUME FrontendInv PROVE AccessGuarded
    OBVIOUS
  <2>1. CacheTypeOK
    BY AstShows DEF FrontendInv, StatementsInv, Answer
  <2>2. \A c \in Conns : conns[c].st \in {"idle", "checked", "managing", "executing"}
    BY DEF FrontendInv, ConnsInv, RequestType
  <2> QED BY <2>1, <2>2, AuthShows, CoarserIsStricter DEF FrontendInv, AccessGuarded, FrontendTypeOK
<1> QED BY <1>1, <1>2, <1>3, PTL DEF FrontendSpec
=============================================================================
