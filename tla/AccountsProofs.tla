--------------------------- MODULE AccountsProofs ---------------------------
(***************************************************************************)
(* Proofs about Accounts, for any users, requests, bounds and faults.       *)
(*                                                                          *)
(* AccountsInv is the inductive invariant. Names says that the families and *)
(* tokens requests and rows speak of were issued before, so that the next   *)
(* token to be issued begins a family nobody knows. Followed ties a refresh *)
(* that is about to delete its token to the family of that token. Founded   *)
(* says that whoever registers without becoming administrator has seen a    *)
(* user; as users never all disappear, there is one then, and with him an   *)
(* administrator.                                                           *)
(***************************************************************************)
EXTENDS Accounts, TLAPS

Names ==
    /\ \A t \in Stored : tokens[t].family \in Issued
    /\ \A r \in Requests : /\ req[r].family # NoToken => req[r].family \in Issued
                           /\ req[r].token # NoToken => req[r].token \in Issued
    /\ dead \subseteq Issued

Followed ==
    \A r \in Requests :
        /\ req[r].at \in {"delete", "revoke", "find"} =>
             req[r].token \in TokenIds /\ req[r].family \in TokenIds
        /\ req[r].at = "insert" => req[r].family = NoToken
        /\ req[r].at = "delete" /\ req[r].token \in Stored =>
             tokens[req[r].token].family = req[r].family

Founded ==
    /\ SomeoneIsAdmin
    /\ \A u \in Users : saved[u].at = "here" => \E v \in Users : saved[v].at = "here" /\ saved[v].admin
    /\ \A r \in Requests : req[r].at = "insert" /\ ~req[r].admin => Here # {}
    /\ \A u \in Users : saved[u].at = "here" => Here # {}

-----------------------------------------------------------------------------
(* Types.                                                                   *)

(* What a request stands at when nothing runs.                              *)
LEMMA IdleFacts ==
  /\ Idle \in Request
  /\ Idle.op = "none" /\ Idle.at = "idle" /\ Idle.family = NoToken /\ Idle.token = NoToken
  BY AccountsAssumption DEF Idle, Request, NoToken, TokenIds, Restored, Passwords

(* A row of users that is here has its columns; a stored token too.         *)
LEMMA RowFacts ==
  ASSUME TypeOK
  PROVE  /\ \A u \in Here : users[u].admin \in BOOLEAN /\ users[u].pass \in Passwords
         /\ \A t \in Stored : /\ tokens[t].user \in Here /\ tokens[t].family \in TokenIds
                              /\ tokens[t].pass \in Passwords /\ tokens[t].late \in BOOLEAN
         /\ \A t \in TokenIds : tokens[t].at = "live" => t \in Stored
         /\ \A r \in Requests : req[r] \in Request
<1>1. \A u \in Here : users[u].admin \in BOOLEAN /\ users[u].pass \in Passwords
  BY DEF TypeOK, Here, User
<1>2. \A t \in Stored : /\ tokens[t].user \in Here /\ tokens[t].family \in TokenIds
                        /\ tokens[t].pass \in Passwords /\ tokens[t].late \in BOOLEAN
  BY DEF TypeOK, Stored, Token
<1>. QED  BY <1>1, <1>2 DEF TypeOK, Stored

(* Deleting tokens removes those that were stored and changes no other.     *)
LEMMA DeletedFacts ==
  ASSUME TypeOK, NEW T, Deleted(T)
  PROVE  /\ tokens' \in [TokenIds -> Token]
         /\ Stored' = Stored \ T
         /\ Issued' = Issued
         /\ \A t \in Stored' : tokens'[t] = tokens[t]
         /\ \A f : Family(f)' = Family(f) \ T
<1>1. \A t \in TokenIds : tokens'[t] = IF t \in T \cap Stored THEN Gone ELSE tokens[t]
  BY DEF Deleted
<1>2. Gone \in Token /\ Gone.at = "gone"
  BY DEF Gone, Token
<1>3. tokens' \in [TokenIds -> Token]
  BY <1>2 DEF Deleted, TypeOK
<1>4. Stored' = Stored \ T
  BY <1>1, <1>2 DEF Stored
<1>5. Issued' = Issued
  BY <1>1, <1>2 DEF Issued, Stored
<1>6. \A t \in Stored' : tokens'[t] = tokens[t]
  BY <1>1, <1>4 DEF Stored
<1>7. \A f : Family(f)' = Family(f) \ T
  BY <1>4, <1>6 DEF Family
<1>. QED  BY <1>3, <1>4, <1>5, <1>6, <1>7

(* Replacing what one request stands at.                                    *)
LEMMA RequestFacts ==
  ASSUME TypeOK, NEW r \in Requests, NEW q \in Request, req' = [req EXCEPT ![r] = q]
  PROVE  /\ req' \in [Requests -> Request]
         /\ req'[r] = q
         /\ \A s \in Requests : s # r => req'[s] = req[s]
  BY DEF TypeOK

(* The types hold at the start: nothing is stored and nothing runs.         *)
LEMMA InitTypes == ASSUME Init PROVE TypeOK
<1>1. users \in [Users -> User] /\ saved \in [Users -> User]
  BY DEF Init, NotYet, User
<1>2. tokens \in [TokenIds -> Token] /\ Stored = {}
  BY DEF Init, Token, Stored
<1>3. pats \in [Pats -> Pat] /\ req \in [Requests -> Request]
  BY IdleFacts DEF Init, Pat
<1>4. /\ \A p \in Pats : pats[p].at = "none"
      /\ \A r \in Requests : req[r].at = "idle"
  BY IdleFacts DEF Init
<1>. QED  BY <1>1, <1>2, <1>3, <1>4, AccountsAssumption DEF Init, TypeOK

-----------------------------------------------------------------------------
(* A step of a request that changes no table keeps the types.               *)
LEMMA RequestTypes ==
  ASSUME TypeOK, NEW r \in Requests, NEW q \in Request, req' = [req EXCEPT ![r] = q],
         q.at # "idle" => q.user \in Users,
         UNCHANGED <<users, tokens, access, pats, saved, dead>>,
         events' \in 0..MaxEvents, cut' \subseteq Users
  PROVE  TypeOK'
<1>1. req' \in [Requests -> Request]
  BY RequestFacts
<1>2. \A s \in Requests : req'[s].at # "idle" => req'[s].user \in Users
  BY RequestFacts DEF TypeOK
<1>. QED  BY <1>1, <1>2 DEF TypeOK, Here, Stored

(* So does going on to another statement.                                   *)
LEMMA GotoTypes ==
  ASSUME TypeOK, NEW r \in Requests,
         NEW at \in {"issue", "delete", "revoke", "find", "update", "revoke_all"},
         Goto(r, at), req[r].at # "idle"
  PROVE  /\ req' \in [Requests -> Request]
         /\ \A s \in Requests : req'[s].at # "idle" => req'[s].user \in Users
         /\ req'[r].at = at
         /\ req'[r].user = req[r].user /\ req'[r].token = req[r].token
         /\ req'[r].family = req[r].family /\ req'[r].pass = req[r].pass
         /\ req'[r].admin = req[r].admin
         /\ \A s \in Requests : s # r => req'[s] = req[s]
<1> DEFINE q == [req[r] EXCEPT !.at = at]
<1>1. req' = [req EXCEPT ![r] = q]
  BY DEF Goto, TypeOK
<1>2. /\ q \in Request /\ q.at = at /\ q.user = req[r].user /\ q.token = req[r].token
      /\ q.family = req[r].family /\ q.pass = req[r].pass /\ q.admin = req[r].admin
  BY DEF TypeOK, Request
<1> HIDE DEF q
<1>. QED  BY <1>1, <1>2, RequestFacts DEF TypeOK

(* A request that ends is idle, the others stay where they are.             *)
LEMMA FinishTypes ==
  ASSUME TypeOK, NEW r \in Requests, Finish(r)
  PROVE  /\ req' \in [Requests -> Request]
         /\ \A s \in Requests : req'[s].at # "idle" => req'[s].user \in Users
         /\ req'[r] = Idle
         /\ \A s \in Requests : s # r => req'[s] = req[s]
<1>1. req' = [req EXCEPT ![r] = Idle]
  BY DEF Finish
<1>. QED  BY <1>1, IdleFacts, RequestFacts DEF TypeOK

(* Deleting tokens keeps the types.                                         *)
LEMMA DeletedTypes ==
  ASSUME TypeOK, NEW T, Deleted(T),
         req' \in [Requests -> Request],
         \A s \in Requests : req'[s].at # "idle" => req'[s].user \in Users,
         events' \in 0..MaxEvents, dead' \subseteq TokenIds,
         UNCHANGED <<users, access, pats, saved, cut>>
  PROVE  TypeOK'
<1>1. \A t \in Stored' : tokens'[t].user \in Here'
  BY DeletedFacts, RowFacts DEF Here
<1>. QED  BY <1>1, DeletedFacts DEF TypeOK, Here

(* The bound on events is a number.                                         *)
LEMMA EventTypes ==
  ASSUME TypeOK, Event
  PROVE  events' \in 0..MaxEvents
  BY AccountsAssumption DEF TypeOK, Event

-----------------------------------------------------------------------------
(* What the first statement of a request makes of it.                       *)
LEMMA CountUsersFacts ==
  ASSUME TypeOK, NEW r \in Requests, NEW u \in Users, CountUsers(r, u)
  PROVE  \E q \in Request :
           /\ req' = [req EXCEPT ![r] = q]
           /\ q.at = "insert" /\ q.user = u /\ q.family = NoToken /\ q.token = NoToken
           /\ q.admin = (Here = {})
<1>1. PICK first \in BOOLEAN : first = (Here = {})
  OBVIOUS
<1> DEFINE q == [Idle EXCEPT !.op = "register", !.at = "insert", !.user = u, !.admin = first]
<1>2. req' = [req EXCEPT ![r] = q]
  BY <1>1, Zenon DEF CountUsers
<1>3. q \in Request
  BY IdleFacts DEF Request, AllOps
<1>4. /\ q.at = "insert" /\ q.user = u /\ q.family = NoToken
      /\ q.token = NoToken /\ q.admin = first
  BY DEF Idle
<1>. QED  BY <1>1, <1>2, <1>3, <1>4

(* A login has looked its user up.                                          *)
LEMMA LoginFacts ==
  ASSUME TypeOK, NEW r \in Requests, NEW u \in Users, Login(r, u)
  PROVE  \E q \in Request :
           /\ req' = [req EXCEPT ![r] = q]
           /\ q.at = "issue" /\ q.user = u /\ q.family = NoToken /\ q.token = NoToken
<1> DEFINE q == [Idle EXCEPT !.op = "login", !.at = "issue", !.user = u,
                             !.admin = users[u].admin, !.pass = users[u].pass]
<1>1. req' = [req EXCEPT ![r] = q]
  BY DEF Login
<1>2. users[u].admin \in BOOLEAN /\ users[u].pass \in Passwords
  BY RowFacts DEF Login
<1>3. /\ q \in Request /\ q.at = "issue" /\ q.user = u /\ q.family = NoToken
      /\ q.token = NoToken
  BY <1>2 DEF Idle, Request, AllOps, NoToken
<1>. QED  BY <1>1, <1>3

(* A change of a password has looked its user up.                           *)
LEMMA CheckPasswordFacts ==
  ASSUME TypeOK, NEW r \in Requests, NEW u \in Users, CheckPassword(r, u)
  PROVE  \E q \in Request :
           /\ req' = [req EXCEPT ![r] = q]
           /\ q.at = "update" /\ q.user = u /\ q.family = NoToken /\ q.token = NoToken
<1> DEFINE q == [Idle EXCEPT !.op = "change", !.at = "update", !.user = u, !.pass = users[u].pass]
<1>1. req' = [req EXCEPT ![r] = q]
  BY DEF CheckPassword
<1>2. users[u].pass \in Passwords
  BY RowFacts DEF CheckPassword
<1>3. /\ q \in Request /\ q.at = "update" /\ q.user = u /\ q.family = NoToken
      /\ q.token = NoToken
  BY <1>2 DEF Idle, Request, AllOps, NoToken
<1>. QED  BY <1>1, <1>3

(* A refresh has user, password and family from the token it found.         *)
LEMMA FindRefreshTokenFacts ==
  ASSUME TypeOK, NEW r \in Requests, NEW t \in TokenIds, FindRefreshToken(r, t)
  PROVE  \E q \in Request :
           /\ req' = [req EXCEPT ![r] = q]
           /\ q.at = "delete" /\ q.user \in Users /\ q.token = t
           /\ t \in Stored /\ q.family = tokens[t].family
<1> DEFINE q == [Idle EXCEPT !.op = "refresh", !.at = "delete", !.user = tokens[t].user,
                             !.token = t, !.pass = tokens[t].pass, !.family = tokens[t].family]
<1>1. req' = [req EXCEPT ![r] = q]
  BY DEF FindRefreshToken
<1>2. /\ t \in Stored /\ tokens[t].user \in Users /\ tokens[t].pass \in Passwords
      /\ tokens[t].family \in TokenIds
  BY RowFacts DEF FindRefreshToken, Here
<1>3. /\ q \in Request /\ q.at = "delete" /\ q.user \in Users /\ q.token = t
      /\ q.family = tokens[t].family
  BY <1>2 DEF Idle, Request, AllOps, NoToken
<1>. QED  BY <1>1, <1>2, <1>3

(* Registering adds the user and goes on with him, or ends.                 *)
LEMMA CreateUserFacts ==
  ASSUME TypeOK, NEW r \in Requests, CreateUser(r)
  PROVE  LET u == req[r].user IN
         /\ u \in Users
         /\ u \in Here => Finish(r) /\ UNCHANGED users
         /\ u \notin Here =>
              /\ users' = [users EXCEPT ![u] = [at |-> "here", admin |-> req[r].admin, pass |-> 1]]
              /\ [at |-> "here", admin |-> req[r].admin, pass |-> 1] \in User
              /\ \E q \in Request :
                   /\ req' = [req EXCEPT ![r] = q] /\ q.at = "issue" /\ q.user = u
                   /\ q.family = req[r].family /\ q.token = req[r].token
<1> DEFINE u == req[r].user
<1>1. u \in Users /\ req[r].admin \in BOOLEAN /\ 1 \in Passwords
  BY AccountsAssumption DEF CreateUser, TypeOK, Request, Passwords
<1>2. CASE u \in Here
  BY <1>1, <1>2 DEF CreateUser
<1>3. CASE u \notin Here
  <2> DEFINE q == [req[r] EXCEPT !.at = "issue", !.pass = 1]
  <2>1. req' = [req EXCEPT ![r] = q]
    BY <1>3 DEF CreateUser, TypeOK
  <2>2. /\ q \in Request /\ q.at = "issue" /\ q.user = u
        /\ q.family = req[r].family /\ q.token = req[r].token
    BY <1>1 DEF TypeOK, Request
  <2>3. [at |-> "here", admin |-> req[r].admin, pass |-> 1] \in User
    BY <1>1 DEF User
  <2> HIDE DEF q
  <2>. QED  BY <1>1, <1>3, <2>1, <2>2, <2>3 DEF CreateUser
<1>. QED  BY <1>2, <1>3

(* A refresh goes on if its user is still there.                            *)
LEMMA FindUserFacts ==
  ASSUME TypeOK, NEW r \in Requests, FindUser(r)
  PROVE  LET u == req[r].user IN
         /\ u \notin Here => Finish(r)
         /\ u \in Here => \E q \in Request :
              /\ req' = [req EXCEPT ![r] = q] /\ q.at = "issue" /\ q.user = u
              /\ q.family = req[r].family /\ q.token = req[r].token
<1> DEFINE u == req[r].user
<1>1. CASE u \in Here
  <2>1. PICK admin \in BOOLEAN : admin = users[u].admin
    BY <1>1, RowFacts
  <2> DEFINE q == [req[r] EXCEPT !.at = "issue", !.admin = admin]
  <2>2. req' = [req EXCEPT ![r] = q]
    BY <1>1, <2>1 DEF FindUser, TypeOK
  <2>3. /\ q \in Request /\ q.at = "issue" /\ q.user = u
        /\ q.family = req[r].family /\ q.token = req[r].token
    BY RowFacts DEF Request
  <2> HIDE DEF q
  <2>. QED  BY <1>1, <2>2, <2>3
<1>2. CASE u \notin Here
  BY <1>2 DEF FindUser
<1>. QED  BY <1>1, <1>2

(* Issuing stores one token that was never used, if the user is there.      *)
LEMMA IssueTokensFacts ==
  ASSUME TypeOK, NEW r \in Requests, IssueTokens(r)
  PROVE  /\ Finish(r) /\ access' \subseteq Users \X BOOLEAN
         /\ \/ req[r].user \notin Here /\ UNCHANGED tokens
            \/ \E t \in TokenIds \ Issued, n \in Token :
                 /\ req[r].user \in Here
                 /\ tokens' = [tokens EXCEPT ![t] = n]
                 /\ n.at = "live" /\ n.user = req[r].user /\ n.pass = req[r].pass
                 /\ n.family = IF req[r].family = NoToken THEN t ELSE req[r].family
                 /\ n.late = (req[r].pass # users[req[r].user].pass)
<1> DEFINE u == req[r].user
<1>1. u \in Users /\ req[r].admin \in BOOLEAN /\ req[r].pass \in Passwords
      /\ req[r].family \in TokenIds \cup {NoToken}
  BY DEF IssueTokens, TypeOK, Request
<1>2. CASE u \notin Here
  BY <1>2 DEF IssueTokens, TypeOK
<1>3. CASE u \in Here
  <2>1. PICK t \in TokenIds \ Issued :
          /\ tokens' = [tokens EXCEPT ![t] =
                 [at |-> "live", user |-> u, pass |-> req[r].pass,
                  family |-> IF req[r].family = NoToken THEN t ELSE req[r].family,
                  late |-> req[r].pass # users[u].pass]]
          /\ access' = access \cup {<<u, req[r].admin>>}
    BY <1>3 DEF IssueTokens
  <2> DEFINE n == [at |-> "live", user |-> u, pass |-> req[r].pass,
                   family |-> IF req[r].family = NoToken THEN t ELSE req[r].family,
                   late |-> req[r].pass # users[u].pass]
  <2>2. n \in Token
    BY <1>1 DEF Token
  <2>3. access' \subseteq Users \X BOOLEAN
    BY <1>1, <2>1 DEF TypeOK
  <2>. QED  BY <1>3, <2>1, <2>2, <2>3 DEF IssueTokens
<1>. QED  BY <1>2, <1>3

(* Logging out, expiring and revoking are deletions or changes of a mark.   *)
LEMMA ExpireTokenFacts ==
  ASSUME TypeOK, NEW t \in TokenIds, ExpireToken(t)
  PROVE  /\ tokens' \in [TokenIds -> Token]
         /\ Stored' = Stored /\ Issued' = Issued
         /\ \A s \in Stored : /\ tokens'[s].user = tokens[s].user
                              /\ tokens'[s].family = tokens[s].family
                              /\ tokens'[s].pass = tokens[s].pass
                              /\ tokens'[s].late = tokens[s].late
         /\ \A f : Family(f)' = Family(f)
<1> DEFINE n == [tokens[t] EXCEPT !.at = "expired"]
<1>1. tokens' = [tokens EXCEPT ![t] = n] /\ tokens[t].at = "live"
  BY DEF ExpireToken, TypeOK
<1>2. /\ n \in Token /\ n.at = "expired" /\ n.user = tokens[t].user
      /\ n.family = tokens[t].family /\ n.pass = tokens[t].pass /\ n.late = tokens[t].late
  <2>1. tokens[t] \in [at : {"live", "expired"}, user : Users, family : TokenIds,
                       pass : Passwords, late : BOOLEAN]
    BY <1>1 DEF TypeOK, Token
  <2>. QED  BY <2>1 DEF Token
<1> HIDE DEF n
<1>3. tokens' \in [TokenIds -> Token]
  BY <1>1, <1>2 DEF TypeOK
<1>4. Stored' = Stored /\ Issued' = Issued
  BY <1>1, <1>2 DEF Stored, Issued, TypeOK
<1>5. \A s \in Stored : /\ tokens'[s].user = tokens[s].user
                        /\ tokens'[s].family = tokens[s].family
                        /\ tokens'[s].pass = tokens[s].pass
                        /\ tokens'[s].late = tokens[s].late
  BY <1>1, <1>2 DEF Stored, TypeOK
<1>6. \A f : Family(f)' = Family(f)
  BY <1>4, <1>5 DEF Family
<1>. QED  BY <1>3, <1>4, <1>5, <1>6

(* A restored backup leaves no token, and the users that were saved.        *)
LEMMA RestoreFacts ==
  ASSUME TypeOK, Restore
  PROVE  /\ users' \in [Users -> User] /\ tokens' \in [TokenIds -> Token]
         /\ pats' \in [Pats -> Pat]
         /\ Stored' = {} /\ Issued' = Issued
         /\ \A p \in Pats : pats'[p].at \notin {"live", "expired"}
         /\ Here' = {u \in Users : saved[u].at = "here"}
         /\ \A u \in Here' : users'[u].admin = saved[u].admin
<1>1. \A u \in Users : users'[u] = RestoredUser(u)
  BY DEF Restore
<1>2. \A u \in Users : RestoredUser(u) \in User
  <2> SUFFICES ASSUME NEW u \in Users PROVE RestoredUser(u) \in User
    OBVIOUS
  <2>1. CASE saved[u].at = "here"
    <3>1. saved[u].admin \in BOOLEAN /\ Restored \in Passwords
      BY <2>1, AccountsAssumption DEF TypeOK, User, Restored, Passwords
    <3>. QED  BY <2>1, <3>1 DEF RestoredUser, User
  <2>2. CASE saved[u].at # "here"
    BY <2>2 DEF RestoredUser, User, NotYet
  <2>. QED  BY <2>1, <2>2
<1>3. \A t \in TokenIds : tokens'[t] = IF t \in Stored THEN Gone ELSE tokens[t]
  BY DEF Restore, Cascade
<1>4. Gone \in Token /\ Gone.at = "gone"
  BY DEF Gone, Token
<1>5. users' \in [Users -> User]
  BY <1>2 DEF Restore
<1>6. tokens' \in [TokenIds -> Token]
  BY <1>4 DEF Restore, Cascade, TypeOK
<1>7. Stored' = {} /\ Issued' = Issued
  BY <1>3, <1>4 DEF Stored, Issued, TypeOK
<1>8. [at |-> "gone"] \in Pat
  BY DEF Pat
<1>9. pats' \in [Pats -> Pat]
  BY <1>8 DEF Restore, TypeOK
<1>10. \A p \in Pats : pats'[p].at \notin {"live", "expired"}
  BY DEF Restore, TypeOK
<1>11. ASSUME NEW u \in Users
       PROVE  /\ users'[u].at = saved[u].at
              /\ saved[u].at = "here" => users'[u].admin = saved[u].admin
  <2>1. CASE saved[u].at = "here"
    <3>1. users'[u] = [at |-> "here", admin |-> saved[u].admin, pass |-> Restored]
      BY <1>1, <2>1 DEF RestoredUser
    <3>. QED  BY <2>1, <3>1
  <2>2. CASE saved[u].at # "here"
    BY <1>1, <2>2 DEF RestoredUser, NotYet, TypeOK, User
  <2>. QED  BY <2>1, <2>2
<1>12. /\ Here' = {u \in Users : saved[u].at = "here"}
       /\ \A u \in Here' : users'[u].admin = saved[u].admin
  BY <1>11 DEF Here
<1>. QED  BY <1>5, <1>6, <1>7, <1>9, <1>10, <1>12

-----------------------------------------------------------------------------
(* No statement breaks the types.                                           *)
LEMMA TypeStep ==
  ASSUME TypeOK, Followed, [Next]_vars
  PROVE  TypeOK'
<1>a. events' = events => events' \in 0..MaxEvents
  BY DEF TypeOK
<1>1. ASSUME NEW r \in Requests, NEW u \in Users, CountUsers(r, u) PROVE TypeOK'
  <2>1. PICK q \in Request : req' = [req EXCEPT ![r] = q] /\ q.user \in Users
    BY <1>1, CountUsersFacts
  <2>. QED  BY <1>1, <1>a, <2>1, RequestTypes DEF CountUsers, TypeOK
<1>2. ASSUME NEW r \in Requests, NEW u \in Users, Login(r, u) PROVE TypeOK'
  <2>1. PICK q \in Request : req' = [req EXCEPT ![r] = q] /\ q.user \in Users
    BY <1>2, LoginFacts
  <2>. QED  BY <1>2, <1>a, <2>1, RequestTypes DEF Login, TypeOK
<1>3. ASSUME NEW r \in Requests, NEW u \in Users, CheckPassword(r, u) PROVE TypeOK'
  <2>1. PICK q \in Request : req' = [req EXCEPT ![r] = q] /\ q.user \in Users
    BY <1>3, CheckPasswordFacts
  <2>. QED  BY <1>3, <1>a, <2>1, RequestTypes DEF CheckPassword, TypeOK
<1>4. ASSUME NEW r \in Requests, NEW t \in TokenIds, FindRefreshToken(r, t) PROVE TypeOK'
  <2>1. PICK q \in Request : req' = [req EXCEPT ![r] = q] /\ q.user \in Users
    BY <1>4, FindRefreshTokenFacts
  <2>. QED  BY <1>4, <1>a, <2>1, RequestTypes DEF FindRefreshToken, TypeOK
<1>5. ASSUME NEW r \in Requests, CreateUser(r) PROVE TypeOK'
  <2>1. CASE req[r].user \in Here
    BY <1>5, <2>1, <1>a, CreateUserFacts, FinishTypes DEF CreateUser, TypeOK, Here, Stored
  <2>2. CASE req[r].user \notin Here
    <3> DEFINE u == req[r].user
               n == [at |-> "here", admin |-> req[r].admin, pass |-> 1]
    <3>1. u \in Users /\ n \in User /\ n.at = "here" /\ users' = [users EXCEPT ![u] = n]
      BY <1>5, <2>2, CreateUserFacts
    <3>2. PICK q \in Request : req' = [req EXCEPT ![r] = q] /\ q.at = "issue" /\ q.user = u
      BY <1>5, <2>2, CreateUserFacts
    <3> HIDE DEF u, n
    <3>3. req' \in [Requests -> Request]
      BY <3>2, RequestFacts
    <3>4. \A s \in Requests : req'[s].at # "idle" => req'[s].user \in Users
      BY <3>1, <3>2, RequestFacts DEF TypeOK
    <3>5. users' \in [Users -> User] /\ Here \subseteq Here'
      BY <3>1 DEF TypeOK, Here
    <3>. QED  BY <1>5, <3>3, <3>4, <3>5 DEF CreateUser, TypeOK, Stored
  <2>. QED  BY <2>1, <2>2
<1>6. ASSUME NEW r \in Requests, IssueTokens(r) PROVE TypeOK'
  <2>1. req' \in [Requests -> Request] /\ access' \subseteq Users \X BOOLEAN
        /\ \A s \in Requests : req'[s].at # "idle" => req'[s].user \in Users
    BY <1>6, IssueTokensFacts, FinishTypes
  <2>2. tokens' \in [TokenIds -> Token] /\ \A t \in Stored' : tokens'[t].user \in Here
    <3>1. CASE UNCHANGED tokens
      BY <3>1 DEF TypeOK, Stored
    <3>2. CASE ~ UNCHANGED tokens
      <4>1. PICK t \in TokenIds \ Issued, n \in Token :
              /\ req[r].user \in Here
              /\ tokens' = [tokens EXCEPT ![t] = n] /\ n.user = req[r].user
        BY <1>6, <3>2, IssueTokensFacts
      <4>. QED  BY <4>1 DEF TypeOK, Stored
    <3>. QED  BY <3>1, <3>2
  <2>. QED  BY <1>6, <2>1, <2>2 DEF IssueTokens, TypeOK, Here
<1>7. ASSUME NEW r \in Requests, DeleteRefreshToken(r) PROVE TypeOK'
  <2>1. AfterDelete(req[r].token) \in {"find", "revoke"}
    BY DEF AfterDelete
  <2>. QED  BY <1>7, <2>1, GotoTypes, DeletedTypes DEF DeleteRefreshToken, TypeOK
<1>8. ASSUME NEW r \in Requests, RevokeFamily(r) PROVE TypeOK'
  <2>1. req[r].family \in TokenIds
    BY <1>8 DEF Followed, RevokeFamily
  <2>. QED  BY <1>8, <2>1, FinishTypes, DeletedTypes DEF RevokeFamily, TypeOK
<1>9. ASSUME NEW r \in Requests, FindUser(r) PROVE TypeOK'
  <2>1. CASE req[r].user \in Here
    <3>1. PICK q \in Request : req' = [req EXCEPT ![r] = q] /\ q.user = req[r].user
      BY <1>9, <2>1, FindUserFacts
    <3>. QED  BY <1>9, <1>a, <2>1, <3>1, RequestTypes DEF FindUser, TypeOK, Here
  <2>2. CASE req[r].user \notin Here
    BY <1>9, <2>2, FinishTypes, FindUserFacts DEF FindUser, TypeOK, Here, Stored
  <2>. QED  BY <2>1, <2>2
<1>10. ASSUME NEW r \in Requests, UpdatePassword(r) PROVE TypeOK'
  <2>1. /\ req' \in [Requests -> Request]
        /\ \A s \in Requests : req'[s].at # "idle" => req'[s].user \in Users
    BY <1>10, GotoTypes DEF UpdatePassword
  <2>2. users' \in [Users -> User] /\ Here' = Here
    <3>1. CASE UNCHANGED users
      BY <3>1 DEF TypeOK, Here
    <3>2. CASE ~ UNCHANGED users
      <4> DEFINE u == req[r].user
                 n == [users[u] EXCEPT !.pass = users[u].pass + 1]
      <4>1. u \in Here /\ users[u].pass < MaxPass /\ users' = [users EXCEPT ![u] = n]
        BY <1>10, <3>2 DEF UpdatePassword, TypeOK, Here
      <4>2. users[u] \in [at : {"here"}, admin : BOOLEAN, pass : Passwords]
        BY <4>1 DEF Here, TypeOK, User
      <4>3. users[u].pass + 1 \in Passwords
        BY <4>1, <4>2, AccountsAssumption DEF Passwords
      <4>4. n \in User /\ n.at = "here"
        BY <4>2, <4>3 DEF User
      <4> HIDE DEF n
      <4>. QED  BY <4>1, <4>4 DEF TypeOK, Here
    <3>. QED  BY <3>1, <3>2
  <2>. QED  BY <1>10, <2>1, <2>2 DEF UpdatePassword, TypeOK, Stored
<1>11. ASSUME NEW r \in Requests, RevokeAll(r) PROVE TypeOK'
  BY <1>11, FinishTypes, DeletedTypes DEF RevokeAll, TypeOK
<1>12. ASSUME NEW r \in Requests, Drop(r) PROVE TypeOK'
  <2>1. cut' \subseteq Users
    BY <1>12, RowFacts DEF Drop, TypeOK
  <2>. QED  BY <1>12, <2>1, FinishTypes, EventTypes DEF Drop, TypeOK, Here, Stored
<1>13. ASSUME NEW t \in TokenIds, Logout(t) PROVE TypeOK'
  BY <1>13, DeletedTypes, EventTypes DEF Logout, TypeOK
<1>14. ASSUME NEW t \in TokenIds, ExpireToken(t) PROVE TypeOK'
  BY <1>14, ExpireTokenFacts, EventTypes DEF ExpireToken, TypeOK, Here
<1>15. ASSUME CleanUpExpired PROVE TypeOK'
  BY <1>15, DeletedTypes DEF CleanUpExpired, TypeOK
<1>16. ASSUME NEW a \in Users \X BOOLEAN, ExpireAccess(a) PROVE TypeOK'
  BY <1>16, EventTypes DEF ExpireAccess, TypeOK, Here, Stored
<1>17. ASSUME NEW u \in Users, NEW p \in Pats, NEW scope \in {"read", "write"},
              CreatePat(u, p, scope)
       PROVE  TypeOK'
  <2> DEFINE n == [at |-> "live", user |-> u, scope |-> scope]
  <2>1. n \in Pat /\ n.user = u
    BY DEF Pat
  <2> HIDE DEF n
  <2>2. pats' = [pats EXCEPT ![p] = n]
    BY <1>17 DEF CreatePat, n
  <2>. QED  BY <1>17, <2>1, <2>2, EventTypes DEF CreatePat, TypeOK, Here, Stored
<1>18. ASSUME NEW p \in Pats, DeletePat(p) PROVE TypeOK'
  <2>1. [at |-> "gone"] \in Pat /\ [at |-> "gone"].at = "gone"
    BY DEF Pat
  <2>. QED  BY <1>18, <2>1, EventTypes DEF DeletePat, TypeOK, Here, Stored
<1>19. ASSUME NEW p \in Pats, ExpirePat(p) PROVE TypeOK'
  <2> DEFINE n == [pats[p] EXCEPT !.at = "expired"]
  <2>1. pats[p] \in [at : {"live", "expired"}, user : Users, scope : {"read", "write"}]
    BY <1>19 DEF ExpirePat, TypeOK, Pat
  <2>2. n \in Pat /\ n.user = pats[p].user
    BY <2>1 DEF Pat
  <2>3. pats' = [pats EXCEPT ![p] = n]
    BY <1>19 DEF ExpirePat, TypeOK
  <2> HIDE DEF n
  <2>. QED  BY <1>19, <2>2, <2>3, EventTypes DEF ExpirePat, TypeOK, Here, Stored
<1>20. ASSUME Backup PROVE TypeOK'
  BY <1>20, EventTypes DEF Backup, TypeOK, Here, Stored
<1>21. ASSUME Restore PROVE TypeOK'
  BY <1>21, RestoreFacts, EventTypes DEF Restore, TypeOK
<1>22. ASSUME UNCHANGED vars PROVE TypeOK'
  BY <1>22 DEF vars, TypeOK, Here, Stored
<1>. QED
  BY <1>1, <1>2, <1>3, <1>4, <1>5, <1>6, <1>7, <1>8, <1>9, <1>10, <1>11, <1>12, <1>13, <1>14,
     <1>15, <1>16, <1>17, <1>18, <1>19, <1>20, <1>21, <1>22 DEF Next, RequestStep

-----------------------------------------------------------------------------
(* Sessions.                                                                *)

SessionsInv == Names /\ Followed /\ OneTokenPerFamily /\ RevokedFamilyIsOver

(* Statements after which a request is at a place where it issues no token, *)
(* or one of the family it was about to issue.                              *)
Tame(r) ==
    \/ req'[r] = req[r]
    \/ /\ req'[r].family = NoToken /\ req'[r].token \in {NoToken, req[r].token}
       /\ req'[r].at \notin {"delete", "revoke", "find"}
    \/ /\ req'[r].family = req[r].family /\ req'[r].token = req[r].token
       /\ req'[r].at \notin {"insert", "delete", "revoke", "find"}
       /\ req'[r].at = "issue" => req[r].at \in {"find", "issue"}
    \/ /\ req'[r].at = "delete" /\ req'[r].token \in Stored
       /\ req'[r].family = tokens[req'[r].token].family

(* If requests go on like that, and tokens are only taken away, the         *)
(* families stay as they have to be.                                        *)
LEMMA TameStep ==
  ASSUME TypeOK, SessionsInv, \A r \in Requests : Tame(r),
         Stored' \subseteq Stored, Issued' = Issued,
         \A t \in Stored' : tokens'[t].family = tokens[t].family,
         UNCHANGED dead
  PROVE  SessionsInv'
<1>1. \A f \in TokenIds : Family(f)' \subseteq Family(f) /\ Issuing(f)' \subseteq Issuing(f)
  <2> SUFFICES ASSUME NEW f \in TokenIds
               PROVE  Family(f)' \subseteq Family(f) /\ Issuing(f)' \subseteq Issuing(f)
    OBVIOUS
  <2>1. Family(f)' \subseteq Family(f)
    BY DEF Family
  <2>2. f # NoToken
    BY DEF TokenIds, NoToken
  <2>3. Issuing(f)' \subseteq Issuing(f)
    BY <2>2 DEF Issuing, Tame
  <2>. QED  BY <2>1, <2>3
<1>2. Names'
  <2>1. Stored \subseteq Issued
    BY DEF Stored, Issued
  <2>2. ASSUME NEW r \in Requests
        PROVE  /\ req'[r].family # NoToken => req'[r].family \in Issued
               /\ req'[r].token # NoToken => req'[r].token \in Issued
    BY <2>1, Tame(r) DEF SessionsInv, Names, Tame
  <2>. QED  BY <2>2 DEF SessionsInv, Names
<1>3. Followed'
  BY RowFacts DEF SessionsInv, Followed, Tame, Stored
<1>4. OneTokenPerFamily'
  BY <1>1 DEF SessionsInv, OneTokenPerFamily
<1>5. RevokedFamilyIsOver'
  BY <1>1 DEF SessionsInv, RevokedFamilyIsOver, TypeOK
<1>. QED  BY <1>2, <1>3, <1>4, <1>5 DEF SessionsInv

(* If a request follows one of the shapes of Tame and the others do not     *)
(* move, all are tame.                                                      *)
LEMMA OthersTame ==
  ASSUME NEW r \in Requests, Tame(r), \A s \in Requests : s # r => req'[s] = req[s]
  PROVE  \A s \in Requests : Tame(s)
  BY DEF Tame

(* A request that ends is tame.                                             *)
LEMMA FinishTame ==
  ASSUME TypeOK, NEW r \in Requests, Finish(r)
  PROVE  \A s \in Requests : Tame(s)
<1>1. Tame(r)
  BY FinishTypes, IdleFacts DEF Tame
<1>. QED  BY <1>1, FinishTypes, OthersTame

(* Storing a token: the first of a new family, or the one its family was    *)
(* waiting for.                                                             *)
LEMMA IssueStep ==
  ASSUME TypeOK, SessionsInv, NEW r \in Requests, IssueTokens(r)
  PROVE  SessionsInv'
<1>1. CASE UNCHANGED tokens
  <2>1. UNCHANGED dead /\ Stored' = Stored /\ Issued' = Issued
    BY <1>1 DEF IssueTokens, Stored, Issued
  <2>. QED  BY <1>1, <2>1, IssueTokensFacts, FinishTame, TameStep DEF Stored
<1>2. CASE ~ UNCHANGED tokens
  <2>1. PICK t \in TokenIds \ Issued, n \in Token :
          /\ tokens' = [tokens EXCEPT ![t] = n] /\ n.at = "live"
          /\ n.family = IF req[r].family = NoToken THEN t ELSE req[r].family
    BY <1>2, IssueTokensFacts
  <2>2. t \notin Stored /\ tokens[t].at = "unused"
    BY <2>1 DEF Stored, Issued
  <2>3. Stored' = Stored \cup {t} /\ Issued' = Issued \cup {t}
    BY <2>1, <2>2 DEF Stored, Issued, TypeOK
  <2>4. /\ tokens'[t] = n
        /\ \A s \in Stored : tokens'[s] = tokens[s]
    BY <2>1, <2>2 DEF TypeOK
  <2>5. /\ req'[r].at = "idle" /\ req'[r].family = NoToken /\ req'[r].token = NoToken
        /\ \A s \in Requests : s # r => req'[s] = req[s]
    BY IssueTokensFacts, FinishTypes, IdleFacts
  <2>6. \A f \in TokenIds : Family(f)' = IF f = n.family THEN Family(f) \cup {t} ELSE Family(f)
    BY <2>3, <2>4 DEF Family
  <2>7. \A f \in TokenIds : Issuing(f)' = Issuing(f) \ {r}
    BY <2>5 DEF Issuing
  <2>8. dead' = dead /\ dead \subseteq Issued /\ dead \subseteq TokenIds
    BY DEF IssueTokens, SessionsInv, Names, TypeOK
  <2>9. n.family \in TokenIds /\ n.family \in Issued'
    BY <2>1, <2>3 DEF SessionsInv, Names, TypeOK, Request
  <2>10. Family(n.family) = {} /\ Issuing(n.family)' = {} /\ n.family \notin dead
    <3>1. CASE req[r].family = NoToken
      <4>1. n.family = t /\ t \notin Issued /\ t # NoToken
        BY <2>1, <3>1 DEF TokenIds, NoToken
      <4>2. Family(t) = {} /\ Issuing(t) = {}
        BY <4>1 DEF SessionsInv, Names, Family, Issuing
      <4>. QED  BY <2>7, <2>8, <4>1, <4>2
    <3>2. CASE req[r].family # NoToken
      <4>1. n.family = req[r].family /\ r \in Issuing(n.family)
        BY <2>1, <3>2 DEF IssueTokens, Issuing
      <4>. QED  BY <2>7, <2>9, <4>1 DEF SessionsInv, OneTokenPerFamily, RevokedFamilyIsOver
    <3>. QED  BY <3>1, <3>2
  <2>11. Names'
    BY <2>3, <2>4, <2>5, <2>8, <2>9 DEF SessionsInv, Names
  <2>12. Followed'
    <3>1. \A s \in Requests : req[s].at = "delete" => req[s].token # t
      BY <2>1 DEF SessionsInv, Followed, Names, TokenIds, NoToken
    <3>. QED  BY <2>3, <2>4, <2>5, <3>1 DEF SessionsInv, Followed
  <2>13. OneTokenPerFamily'
    BY <2>6, <2>7, <2>10 DEF SessionsInv, OneTokenPerFamily
  <2>14. RevokedFamilyIsOver'
    BY <2>6, <2>7, <2>8, <2>10 DEF SessionsInv, RevokedFamilyIsOver
  <2>. QED  BY <2>11, <2>12, <2>13, <2>14 DEF SessionsInv
<1>. QED  BY <1>1, <1>2

(* Whoever deletes the token takes its place in the family; whoever comes   *)
(* too late goes on to revoke it.                                           *)
LEMMA DeleteStep ==
  ASSUME TypeOK, SessionsInv, NEW r \in Requests, DeleteRefreshToken(r)
  PROVE  SessionsInv'
<1>0. PICK t, f : t = req[r].token /\ f = req[r].family
  OBVIOUS
<1>1. t \in TokenIds /\ f \in TokenIds /\ (t \in Stored => tokens[t].family = f)
  BY <1>0 DEF DeleteRefreshToken, SessionsInv, Followed
<1>2. AfterDelete(t) = IF t \in Stored THEN "find" ELSE "revoke"
  BY DEF AfterDelete
<1>3. /\ Stored' = Stored \ {t} /\ Issued' = Issued
      /\ \A s \in Stored' : tokens'[s] = tokens[s]
      /\ \A g : Family(g)' = Family(g) \ {t}
  BY <1>0, DeletedFacts DEF DeleteRefreshToken
<1>4. /\ req'[r].at = AfterDelete(t) /\ req'[r].token = t /\ req'[r].family = f
      /\ \A s \in Requests : s # r => req'[s] = req[s]
  BY <1>0, <1>2, GotoTypes DEF DeleteRefreshToken
<1>5. dead' = dead /\ dead \subseteq TokenIds
  BY DEF DeleteRefreshToken, TypeOK
<1>6. Names'
  BY <1>0, <1>3, <1>4, <1>5 DEF SessionsInv, Names
<1>7. Followed'
  BY <1>1, <1>2, <1>3, <1>4 DEF SessionsInv, Followed
<1>8. CASE t \in Stored
  <2>1. t \in Family(f)
    BY <1>1, <1>8 DEF Family
  <2>a. Family(f) = {t}
    BY <1>1, <2>1 DEF SessionsInv, OneTokenPerFamily
  <2>2. Issuing(f) = {} /\ Family(f)' = {} /\ f \notin dead
    BY <1>1, <1>3, <2>1, <2>a DEF SessionsInv, OneTokenPerFamily, RevokedFamilyIsOver
  <2>3. \A g \in TokenIds : Issuing(g)' \subseteq Issuing(g) \cup (IF g = f THEN {r} ELSE {})
    BY <1>4 DEF Issuing
  <2>4. OneTokenPerFamily'
    <3>1. \A g \in TokenIds \ {f} : Issuing(g)' \subseteq Issuing(g)
      BY <2>3
    <3>2. Issuing(f)' \subseteq {r}
      BY <1>1, <2>2, <2>3
    <3>. QED  BY <1>3, <2>2, <3>1, <3>2 DEF SessionsInv, OneTokenPerFamily
  <2>5. RevokedFamilyIsOver'
    BY <1>3, <1>5, <2>2, <2>3 DEF SessionsInv, RevokedFamilyIsOver
  <2>. QED  BY <1>6, <1>7, <2>4, <2>5 DEF SessionsInv
<1>9. CASE t \notin Stored
  <2>1. \A g \in TokenIds : Issuing(g)' \subseteq Issuing(g)
    BY <1>2, <1>4, <1>9 DEF Issuing
  <2>2. OneTokenPerFamily'
    BY <1>3, <2>1 DEF SessionsInv, OneTokenPerFamily
  <2>3. RevokedFamilyIsOver'
    BY <1>3, <1>5, <2>1 DEF SessionsInv, RevokedFamilyIsOver
  <2>. QED  BY <1>6, <1>7, <2>2, <2>3 DEF SessionsInv
<1>. QED  BY <1>8, <1>9

(* A family that is revoked while nobody issues one of its tokens is over.  *)
LEMMA RevokeStep ==
  ASSUME TypeOK, SessionsInv, NEW r \in Requests, RevokeFamily(r)
  PROVE  SessionsInv'
<1> DEFINE f == req[r].family
<1>1. f \in TokenIds /\ f \in Issued /\ f # NoToken
  BY DEF RevokeFamily, SessionsInv, Followed, Names, TokenIds, NoToken
<1>2. /\ Stored' = Stored \ Family(f) /\ Issued' = Issued
      /\ \A s \in Stored' : tokens'[s] = tokens[s]
      /\ \A g : Family(g)' = Family(g) \ Family(f)
  BY DeletedFacts DEF RevokeFamily, Revoked
<1>3. /\ req'[r].at = "idle" /\ req'[r].family = NoToken /\ req'[r].token = NoToken
      /\ \A s \in Requests : s # r => req'[s] = req[s]
  BY FinishTypes, IdleFacts DEF RevokeFamily
<1>4. \A g \in TokenIds : Issuing(g)' \subseteq Issuing(g)
  BY <1>3 DEF Issuing
<1>5. dead' = IF Issuing(f) = {} THEN dead \cup {f} ELSE dead
  BY DEF RevokeFamily
<1>6. Names'
  BY <1>1, <1>2, <1>3, <1>5 DEF SessionsInv, Names
<1>7. Followed'
  BY <1>2, <1>3 DEF SessionsInv, Followed
<1>8. OneTokenPerFamily'
  BY <1>2, <1>4 DEF SessionsInv, OneTokenPerFamily
<1>9. RevokedFamilyIsOver'
  BY <1>1, <1>2, <1>4, <1>5 DEF SessionsInv, RevokedFamilyIsOver, TypeOK
<1>. QED  BY <1>6, <1>7, <1>8, <1>9 DEF SessionsInv

(* Every step keeps what is known of sessions.                              *)
LEMMA SessionsStep ==
  ASSUME TypeOK, SessionsInv, [Next]_vars
  PROVE  SessionsInv'
<1>a. ASSUME UNCHANGED <<tokens, req, dead>> PROVE SessionsInv'
  BY <1>a, TameStep DEF Tame, Stored, Issued
<1>b. ASSUME UNCHANGED <<tokens, dead>>, \A r \in Requests : Tame(r) PROVE SessionsInv'
  BY <1>b, TameStep DEF Stored, Issued
<1>c. ASSUME UNCHANGED dead, \A r \in Requests : Tame(r), NEW T, Deleted(T) PROVE SessionsInv'
  BY <1>c, DeletedFacts, TameStep
<1>1. ASSUME NEW r \in Requests, NEW u \in Users, CountUsers(r, u) PROVE SessionsInv'
  <2>1. PICK q \in Request : /\ req' = [req EXCEPT ![r] = q]
                             /\ q.at = "insert" /\ q.family = NoToken /\ q.token = NoToken
    BY <1>1, CountUsersFacts
  <2>2. req'[r] = q /\ \A s \in Requests : s # r => req'[s] = req[s]
    BY <2>1, RequestFacts
  <2>3. Tame(r)
    BY <2>1, <2>2 DEF Tame
  <2>. QED  BY <1>1, <1>b, <2>2, <2>3, OthersTame DEF CountUsers
<1>2. ASSUME NEW r \in Requests, NEW u \in Users, Login(r, u) PROVE SessionsInv'
  <2>1. PICK q \in Request : /\ req' = [req EXCEPT ![r] = q]
                             /\ q.at = "issue" /\ q.family = NoToken /\ q.token = NoToken
    BY <1>2, LoginFacts
  <2>2. req'[r] = q /\ \A s \in Requests : s # r => req'[s] = req[s]
    BY <2>1, RequestFacts
  <2>3. Tame(r)
    BY <2>1, <2>2 DEF Tame
  <2>. QED  BY <1>2, <1>b, <2>2, <2>3, OthersTame DEF Login
<1>3. ASSUME NEW r \in Requests, NEW u \in Users, CheckPassword(r, u) PROVE SessionsInv'
  <2>1. PICK q \in Request : /\ req' = [req EXCEPT ![r] = q]
                             /\ q.at = "update" /\ q.family = NoToken /\ q.token = NoToken
    BY <1>3, CheckPasswordFacts
  <2>2. req'[r] = q /\ \A s \in Requests : s # r => req'[s] = req[s]
    BY <2>1, RequestFacts
  <2>3. Tame(r)
    BY <2>1, <2>2 DEF Tame
  <2>. QED  BY <1>3, <1>b, <2>2, <2>3, OthersTame DEF CheckPassword
<1>4. ASSUME NEW r \in Requests, NEW t \in TokenIds, FindRefreshToken(r, t) PROVE SessionsInv'
  <2>1. PICK q \in Request : /\ req' = [req EXCEPT ![r] = q]
                             /\ q.at = "delete" /\ q.token \in Stored
                             /\ q.family = tokens[q.token].family
    BY <1>4, FindRefreshTokenFacts
  <2>2. req'[r] = q /\ \A s \in Requests : s # r => req'[s] = req[s]
    BY <2>1, RequestFacts
  <2>3. Tame(r)
    BY <2>1, <2>2 DEF Tame
  <2>. QED  BY <1>4, <1>b, <2>2, <2>3, OthersTame DEF FindRefreshToken
<1>5. ASSUME NEW r \in Requests, CreateUser(r) PROVE SessionsInv'
  <2>1. CASE req[r].user \in Here
    BY <1>5, <1>b, <2>1, CreateUserFacts, FinishTame DEF CreateUser
  <2>2. CASE req[r].user \notin Here
    <3>1. req[r].family = NoToken
      BY <1>5 DEF CreateUser, SessionsInv, Followed
    <3>2. PICK q \in Request : /\ req' = [req EXCEPT ![r] = q] /\ q.at = "issue"
                               /\ q.family = NoToken /\ q.token = req[r].token
      BY <1>5, <2>2, <3>1, CreateUserFacts
    <3>3. Tame(r)
      BY <3>2, RequestFacts DEF Tame
    <3>. QED  BY <1>5, <1>b, <3>2, <3>3, RequestFacts, OthersTame DEF CreateUser
  <2>. QED  BY <2>1, <2>2
<1>6. ASSUME NEW r \in Requests, FindUser(r) PROVE SessionsInv'
  <2>1. CASE req[r].user \notin Here
    BY <1>6, <1>b, <2>1, FindUserFacts, FinishTame DEF FindUser
  <2>2. CASE req[r].user \in Here
    <3>1. PICK q \in Request : /\ req' = [req EXCEPT ![r] = q] /\ q.at = "issue"
                               /\ q.family = req[r].family /\ q.token = req[r].token
      BY <1>6, <2>2, FindUserFacts
    <3>2. Tame(r)
      BY <1>6, <3>1, RequestFacts DEF Tame, FindUser
    <3>. QED  BY <1>6, <1>b, <3>1, <3>2, RequestFacts, OthersTame DEF FindUser
  <2>. QED  BY <2>1, <2>2
<1>7. ASSUME NEW r \in Requests, UpdatePassword(r) PROVE SessionsInv'
  <2>1. Tame(r)
    BY <1>7, GotoTypes DEF UpdatePassword, Tame
  <2>. QED  BY <1>7, <1>b, <2>1, GotoTypes, OthersTame DEF UpdatePassword
<1>8. ASSUME NEW r \in Requests, RevokeAll(r) PROVE SessionsInv'
  BY <1>8, <1>c, FinishTame DEF RevokeAll
<1>9. ASSUME NEW r \in Requests, Drop(r) PROVE SessionsInv'
  BY <1>9, <1>b, FinishTame DEF Drop
<1>10. ASSUME NEW t \in TokenIds, Logout(t) PROVE SessionsInv'
  BY <1>10, <1>c DEF Logout, Tame
<1>11. ASSUME NEW t \in TokenIds, ExpireToken(t) PROVE SessionsInv'
  BY <1>11, ExpireTokenFacts, TameStep DEF ExpireToken, Tame
<1>12. ASSUME CleanUpExpired PROVE SessionsInv'
  BY <1>12, <1>c DEF CleanUpExpired, Tame
<1>13. ASSUME Restore PROVE SessionsInv'
  BY <1>13, RestoreFacts, TameStep DEF Restore, Tame
<1>14. ASSUME \/ \E a \in Users \X BOOLEAN : ExpireAccess(a)
              \/ \E u \in Users, p \in Pats, scope \in {"read", "write"} : CreatePat(u, p, scope)
              \/ \E p \in Pats : DeletePat(p) \/ ExpirePat(p)
              \/ Backup
              \/ UNCHANGED vars
       PROVE  SessionsInv'
  BY <1>14, <1>a DEF ExpireAccess, CreatePat, DeletePat, ExpirePat, Backup, vars
<1>. QED
  BY <1>1, <1>2, <1>3, <1>4, <1>5, <1>6, <1>7, <1>8, <1>9, <1>10, <1>11, <1>12, <1>13, <1>14,
     IssueStep, DeleteStep, RevokeStep DEF Next, RequestStep

-----------------------------------------------------------------------------
(* Sessions of an old password: if a step neither stores tokens nor changes *)
(* passwords of users who have some, and whoever was to revoke them still   *)
(* is, or is marked as cut off, none is left over.                          *)
LEMMA OldSessionsKept ==
  ASSUME OldSessionsEnd,
         Stored' \subseteq Stored,
         \A t \in Stored' : /\ tokens'[t].user = tokens[t].user
                            /\ tokens'[t].pass = tokens[t].pass
                            /\ tokens'[t].late = tokens[t].late
                            /\ users'[tokens[t].user].pass = users[tokens[t].user].pass,
         cut \subseteq cut',
         \A r \in Requests : req[r].at = "revoke_all" =>
            \/ req'[r].at = "revoke_all" /\ req'[r].user = req[r].user
            \/ req[r].user \in cut'
            \/ \A t \in Stored' : tokens[t].user # req[r].user
  PROVE  OldSessionsEnd'
  BY DEF OldSessionsEnd

(* One request moves, and was not about to revoke anything.                 *)
LEMMA OldSessionsMove ==
  ASSUME TypeOK, OldSessionsEnd, NEW r \in Requests, req[r].at # "revoke_all",
         \A s \in Requests : s # r => req'[s] = req[s],
         UNCHANGED <<users, tokens>>, cut \subseteq cut'
  PROVE  OldSessionsEnd'
<1>1. Stored' = Stored
  BY DEF Stored
<1>. QED  BY <1>1, OldSessionsKept

(* Every step keeps old sessions ended.                                     *)
LEMMA OldSessionsStep ==
  ASSUME TypeOK, OldSessionsEnd, [Next]_vars
  PROVE  OldSessionsEnd'
<1>a. ASSUME UNCHANGED <<users, tokens, req, cut>> PROVE OldSessionsEnd'
  BY <1>a DEF OldSessionsEnd, Stored
<1>b. ASSUME UNCHANGED <<users, req, cut>>, NEW T, Deleted(T) PROVE OldSessionsEnd'
  BY <1>b, DeletedFacts, OldSessionsKept
<1>1. ASSUME NEW r \in Requests, NEW u \in Users,
             CountUsers(r, u) \/ Login(r, u) \/ CheckPassword(r, u)
      PROVE  OldSessionsEnd'
  <2>1. PICK q \in Request : req' = [req EXCEPT ![r] = q]
    BY <1>1, CountUsersFacts, LoginFacts, CheckPasswordFacts
  <2>2. req[r].at # "revoke_all"
    BY <1>1, IdleFacts DEF CountUsers, Login, CheckPassword, May
  <2>. QED  BY <1>1, <2>1, <2>2, RequestFacts, OldSessionsMove DEF CountUsers, Login, CheckPassword
<1>2. ASSUME NEW r \in Requests, NEW t \in TokenIds, FindRefreshToken(r, t)
      PROVE  OldSessionsEnd'
  <2>1. PICK q \in Request : req' = [req EXCEPT ![r] = q]
    BY <1>2, FindRefreshTokenFacts
  <2>2. req[r].at # "revoke_all"
    BY <1>2, IdleFacts DEF FindRefreshToken, May
  <2>. QED  BY <1>2, <2>1, <2>2, RequestFacts, OldSessionsMove DEF FindRefreshToken
<1>3. ASSUME NEW r \in Requests, CreateUser(r) PROVE OldSessionsEnd'
  <2> DEFINE u == req[r].user
  <2>1. /\ req[r].at # "revoke_all"
        /\ \A s \in Requests : s # r => req'[s] = req[s]
        /\ \A v \in Here : users'[v] = users[v]
    <3>1. CASE u \in Here
      BY <1>3, <3>1, CreateUserFacts, FinishTypes DEF CreateUser
    <3>2. CASE u \notin Here
      <4>1. PICK q \in Request : req' = [req EXCEPT ![r] = q]
        BY <1>3, <3>2, CreateUserFacts
      <4>2. /\ req[r].at # "revoke_all"
            /\ \A s \in Requests : s # r => req'[s] = req[s]
        BY <1>3, <4>1, RequestFacts DEF CreateUser
      <4>3. \A v \in Here : users'[v] = users[v]
        BY <1>3, <3>2 DEF CreateUser, TypeOK, Here
      <4>. QED  BY <4>2, <4>3
    <3>. QED  BY <3>1, <3>2
  <2>2. Stored' = Stored /\ UNCHANGED <<tokens, cut>>
    BY <1>3 DEF CreateUser, Stored
  <2>. QED  BY <2>1, <2>2, RowFacts, OldSessionsKept
<1>4. ASSUME NEW r \in Requests, IssueTokens(r) PROVE OldSessionsEnd'
  <2>1. /\ req[r].at # "revoke_all" /\ UNCHANGED <<users, cut>>
        /\ \A s \in Requests : s # r => req'[s] = req[s]
    BY <1>4, IssueTokensFacts, FinishTypes DEF IssueTokens
  <2>2. CASE UNCHANGED tokens
    BY <2>1, <2>2, OldSessionsMove
  <2>3. CASE ~ UNCHANGED tokens
    <3>1. PICK t \in TokenIds \ Issued, n \in Token :
            /\ tokens' = [tokens EXCEPT ![t] = n] /\ n.at = "live"
            /\ n.user = req[r].user /\ n.pass = req[r].pass
            /\ n.late = (req[r].pass # users[req[r].user].pass)
      BY <1>4, <2>3, IssueTokensFacts
    <3>2. t \notin Stored /\ Stored' = Stored \cup {t} /\ tokens'[t] = n
          /\ \A s \in Stored : tokens'[s] = tokens[s]
      BY <3>1 DEF Stored, Issued, TypeOK
    <3>3. n.late \/ n.pass = users[n.user].pass
      BY <3>1
    <3>. QED  BY <2>1, <3>2, <3>3 DEF OldSessionsEnd
  <2>. QED  BY <2>2, <2>3
<1>5. ASSUME NEW r \in Requests, DeleteRefreshToken(r) PROVE OldSessionsEnd'
  <2>1. AfterDelete(req[r].token) \in {"find", "revoke"}
    BY DEF AfterDelete
  <2>2. \A s \in Requests : s # r => req'[s] = req[s]
    BY <1>5, <2>1, GotoTypes DEF DeleteRefreshToken
  <2>. QED  BY <1>5, <2>2, DeletedFacts, OldSessionsKept DEF DeleteRefreshToken
<1>6. ASSUME NEW r \in Requests, RevokeFamily(r) PROVE OldSessionsEnd'
  BY <1>6, FinishTypes, DeletedFacts, OldSessionsKept DEF RevokeFamily
<1>7. ASSUME NEW r \in Requests, FindUser(r) PROVE OldSessionsEnd'
  <2>1. \A s \in Requests : s # r => req'[s] = req[s]
    <3>1. CASE req[r].user \notin Here
      BY <1>7, <3>1, FindUserFacts, FinishTypes
    <3>2. CASE req[r].user \in Here
      <4>1. PICK q \in Request : req' = [req EXCEPT ![r] = q]
        BY <1>7, <3>2, FindUserFacts
      <4>. QED  BY <4>1, RequestFacts
    <3>. QED  BY <3>1, <3>2
  <2>. QED  BY <1>7, <2>1, OldSessionsMove DEF FindUser
<1>8. ASSUME NEW r \in Requests, UpdatePassword(r) PROVE OldSessionsEnd'
  <2>1. /\ req[r].at = "update" /\ req'[r].at = "revoke_all" /\ req'[r].user = req[r].user
        /\ \A s \in Requests : s # r => req'[s] = req[s]
    BY <1>8, GotoTypes DEF UpdatePassword
  <2>2. \A v \in Users : v # req[r].user => users'[v] = users[v]
    BY <1>8 DEF UpdatePassword, TypeOK
  <2>3. UNCHANGED <<tokens, cut>> /\ Stored' = Stored
    BY <1>8 DEF UpdatePassword, Stored
  <2>4. \A t \in Stored : tokens[t].user \in Users
    BY RowFacts DEF Here
  <2>. QED  BY <2>1, <2>2, <2>3, <2>4 DEF OldSessionsEnd
<1>9. ASSUME NEW r \in Requests, RevokeAll(r) PROVE OldSessionsEnd'
  <2>1. /\ Stored' = Stored \ SessionsOf(r)
        /\ \A t \in Stored' : tokens'[t] = tokens[t]
    BY <1>9, DeletedFacts DEF RevokeAll
  <2>2. \A t \in Stored' : tokens[t].user # req[r].user
    BY <2>1 DEF SessionsOf
  <2>3. \A s \in Requests : s # r => req'[s] = req[s]
    BY <1>9, FinishTypes DEF RevokeAll
  <2>. QED  BY <1>9, <2>1, <2>2, <2>3, OldSessionsKept DEF RevokeAll
<1>10. ASSUME NEW r \in Requests, Drop(r) PROVE OldSessionsEnd'
  <2>1. \A s \in Requests : s # r => req'[s] = req[s]
    BY <1>10, FinishTypes DEF Drop
  <2>2. Stored' = Stored /\ UNCHANGED <<users, tokens>> /\ cut \subseteq cut'
    BY <1>10 DEF Drop, Stored
  <2>3. req[r].at = "revoke_all" => req[r].user \in cut'
    BY <1>10 DEF Drop
  <2>. QED  BY <2>1, <2>2, <2>3, OldSessionsKept
<1>11. ASSUME NEW t \in TokenIds, Logout(t) PROVE OldSessionsEnd'
  BY <1>11, <1>b DEF Logout
<1>12. ASSUME NEW t \in TokenIds, ExpireToken(t) PROVE OldSessionsEnd'
  BY <1>12, ExpireTokenFacts, OldSessionsKept DEF ExpireToken
<1>13. ASSUME CleanUpExpired PROVE OldSessionsEnd'
  BY <1>13, <1>b DEF CleanUpExpired
<1>14. ASSUME Restore PROVE OldSessionsEnd'
  BY <1>14, RestoreFacts DEF OldSessionsEnd
<1>15. ASSUME \/ \E a \in Users \X BOOLEAN : ExpireAccess(a)
              \/ \E u \in Users, p \in Pats, scope \in {"read", "write"} : CreatePat(u, p, scope)
              \/ \E p \in Pats : DeletePat(p) \/ ExpirePat(p)
              \/ Backup
              \/ UNCHANGED vars
       PROVE  OldSessionsEnd'
  BY <1>15, <1>a DEF ExpireAccess, CreatePat, DeletePat, ExpirePat, Backup, vars
<1>. QED
  BY <1>1, <1>2, <1>3, <1>4, <1>5, <1>6, <1>7, <1>8, <1>9, <1>10, <1>11, <1>12, <1>13, <1>14,
     <1>15 DEF Next, RequestStep

-----------------------------------------------------------------------------
(* Administrators: a step that keeps the users and their is_admin, and lets *)
(* no request register as an ordinary user that did not see anybody, keeps  *)
(* what Founded says.                                                       *)
LEMMA FoundedKept ==
  ASSUME Founded, Here' = Here, UNCHANGED saved,
         \A u \in Here : users'[u].admin = users[u].admin,
         \A r \in Requests : req'[r].at = "insert" /\ ~req'[r].admin =>
            Here # {} \/ (req[r].at = "insert" /\ ~req[r].admin)
  PROVE  Founded'
  BY DEF Founded, SomeoneIsAdmin

(* One request moves, and does not come to the INSERT of a registration.    *)
LEMMA FoundedMove ==
  ASSUME Founded, NEW r \in Requests, req'[r].at # "insert",
         \A s \in Requests : s # r => req'[s] = req[s],
         Here' = Here, UNCHANGED saved,
         \A u \in Here : users'[u].admin = users[u].admin
  PROVE  Founded'
<1>1. \A s \in Requests : req'[s].at = "insert" /\ ~req'[s].admin =>
         Here # {} \/ (req[s].at = "insert" /\ ~req[s].admin)
  OBVIOUS
<1>. QED  BY <1>1, FoundedKept

(* Every step keeps the instance founded.                                   *)
LEMMA FoundedStep ==
  ASSUME TypeOK, Founded, [Next]_vars
  PROVE  Founded'
<1>a. ASSUME UNCHANGED <<users, req, saved>> PROVE Founded'
  BY <1>a, FoundedKept DEF Here
<1>b. ASSUME UNCHANGED <<users, saved>>, NEW r \in Requests, Finish(r) PROVE Founded'
  BY <1>b, FinishTypes, IdleFacts, FoundedMove DEF Here
<1>1. ASSUME NEW r \in Requests, NEW u \in Users, CountUsers(r, u) PROVE Founded'
  <2>1. PICK q \in Request : req' = [req EXCEPT ![r] = q] /\ q.admin = (Here = {})
    BY <1>1, CountUsersFacts
  <2>2. req'[r] = q /\ \A s \in Requests : s # r => req'[s] = req[s]
    BY <2>1, RequestFacts
  <2>3. ~req'[r].admin => Here # {}
    BY <2>1, <2>2
  <2>4. \A s \in Requests : req'[s].at = "insert" /\ ~req'[s].admin =>
          Here # {} \/ (req[s].at = "insert" /\ ~req[s].admin)
    BY <2>2, <2>3
  <2>. QED  BY <1>1, <2>4, FoundedKept DEF CountUsers, Here
<1>2. ASSUME NEW r \in Requests, NEW u \in Users, Login(r, u) \/ CheckPassword(r, u)
      PROVE  Founded'
  <2>1. PICK q \in Request : req' = [req EXCEPT ![r] = q] /\ q.at # "insert"
    BY <1>2, LoginFacts, CheckPasswordFacts
  <2>2. req'[r] = q /\ \A s \in Requests : s # r => req'[s] = req[s]
    BY <2>1, RequestFacts
  <2>3. UNCHANGED <<users, saved>>
    BY <1>2 DEF Login, CheckPassword
  <2>. QED  BY <2>1, <2>2, <2>3, FoundedMove DEF Here
<1>3. ASSUME NEW r \in Requests, NEW t \in TokenIds, FindRefreshToken(r, t) PROVE Founded'
  <2>1. PICK q \in Request : req' = [req EXCEPT ![r] = q] /\ q.at # "insert"
    BY <1>3, FindRefreshTokenFacts
  <2>. QED  BY <1>3, <2>1, RequestFacts, FoundedMove DEF FindRefreshToken, Here
<1>4. ASSUME NEW r \in Requests, CreateUser(r) PROVE Founded'
  <2>1. CASE req[r].user \in Here
    BY <1>4, <1>b, <2>1, CreateUserFacts DEF CreateUser
  <2>2. CASE req[r].user \notin Here
    <3> DEFINE u == req[r].user
               n == [at |-> "here", admin |-> req[r].admin, pass |-> 1]
    <3>1. u \in Users /\ users' = [users EXCEPT ![u] = n] /\ n.at = "here"
          /\ n.admin = req[r].admin
      BY <1>4, <2>2, CreateUserFacts
    <3>2. PICK q \in Request : req' = [req EXCEPT ![r] = q] /\ q.at = "issue"
      BY <1>4, <2>2, CreateUserFacts
    <3>3. /\ req'[r].at # "insert"
          /\ \A s \in Requests : s # r => req'[s] = req[s]
      BY <3>2, RequestFacts
    <3> HIDE DEF n
    <3>4. /\ Here' = Here \cup {u} /\ users'[u].admin = n.admin
          /\ \A v \in Here : users'[v] = users[v]
      BY <2>2, <3>1 DEF TypeOK, Here
    <3>5. SomeoneIsAdmin'
      <4>1. CASE req[r].admin
        BY <3>1, <3>4, <4>1 DEF SomeoneIsAdmin
      <4>2. CASE ~req[r].admin
        <5>1. PICK v \in Here : users[v].admin
          BY <1>4, <4>2 DEF CreateUser, Founded, SomeoneIsAdmin
        <5>. QED  BY <3>4, <5>1 DEF SomeoneIsAdmin
      <4>. QED  BY <4>1, <4>2
    <3>. QED  BY <1>4, <3>3, <3>4, <3>5 DEF CreateUser, Founded
  <2>. QED  BY <2>1, <2>2
<1>5. ASSUME NEW r \in Requests, DeleteRefreshToken(r) PROVE Founded'
  <2>1. AfterDelete(req[r].token) \in {"find", "revoke"}
    BY DEF AfterDelete
  <2>. QED  BY <1>5, <2>1, GotoTypes, FoundedMove DEF DeleteRefreshToken, Here
<1>6. ASSUME NEW r \in Requests, FindUser(r) PROVE Founded'
  <2>1. CASE req[r].user \notin Here
    BY <1>6, <1>b, <2>1, FindUserFacts DEF FindUser
  <2>2. CASE req[r].user \in Here
    <3>1. PICK q \in Request : req' = [req EXCEPT ![r] = q] /\ q.at = "issue"
      BY <1>6, <2>2, FindUserFacts
    <3>. QED  BY <1>6, <3>1, RequestFacts, FoundedMove DEF FindUser, Here
  <2>. QED  BY <2>1, <2>2
<1>7. ASSUME NEW r \in Requests, UpdatePassword(r) PROVE Founded'
  <2>1. /\ req'[r].at = "revoke_all" /\ \A s \in Requests : s # r => req'[s] = req[s]
    BY <1>7, GotoTypes DEF UpdatePassword
  <2>2. Here' = Here /\ \A v \in Here : users'[v].admin = users[v].admin
    <3>1. CASE UNCHANGED users
      BY <3>1 DEF Here
    <3>2. CASE ~ UNCHANGED users
      <4> DEFINE u == req[r].user
                 n == [users[u] EXCEPT !.pass = @ + 1]
      <4>1. u \in Here /\ users' = [users EXCEPT ![u] = n]
        BY <1>7, <3>2 DEF UpdatePassword
      <4>2. users[u] \in [at : {"here"}, admin : BOOLEAN, pass : Passwords]
        BY <4>1 DEF TypeOK, Here, User
      <4>3. n.at = users[u].at /\ n.admin = users[u].admin
        BY <4>2
      <4> HIDE DEF n
      <4>. QED  BY <4>1, <4>3 DEF TypeOK, Here
    <3>. QED  BY <3>1, <3>2
  <2>. QED  BY <1>7, <2>1, <2>2, FoundedMove DEF UpdatePassword
<1>8. ASSUME NEW r \in Requests, IssueTokens(r) \/ RevokeFamily(r) \/ RevokeAll(r) \/ Drop(r)
      PROVE  Founded'
  BY <1>8, <1>b DEF IssueTokens, RevokeFamily, RevokeAll, Drop
<1>9. ASSUME Backup PROVE Founded'
  <2>1. Here' = Here /\ saved' = users /\ UNCHANGED <<users, req>>
    BY <1>9 DEF Backup, Here
  <2>. QED  BY <2>1 DEF Founded, SomeoneIsAdmin, Here
<1>10. ASSUME Restore PROVE Founded'
  <2>1. /\ Here' = {u \in Users : saved[u].at = "here"}
        /\ \A u \in Here' : users'[u].admin = saved[u].admin
    BY <1>10, RestoreFacts
  <2>2. Here' # {} /\ UNCHANGED <<saved, req>>
    BY <1>10, <2>1 DEF Restore
  <2>3. PICK v \in Here' : saved[v].admin
    BY <2>1, <2>2 DEF Founded
  <2>4. SomeoneIsAdmin'
    BY <2>1, <2>3 DEF SomeoneIsAdmin
  <2>. QED  BY <2>2, <2>4 DEF Founded
<1>11. ASSUME \/ \E t \in TokenIds : Logout(t) \/ ExpireToken(t)
              \/ CleanUpExpired
              \/ \E a \in Users \X BOOLEAN : ExpireAccess(a)
              \/ \E u \in Users, p \in Pats, scope \in {"read", "write"} : CreatePat(u, p, scope)
              \/ \E p \in Pats : DeletePat(p) \/ ExpirePat(p)
              \/ UNCHANGED vars
       PROVE  Founded'
  BY <1>11, <1>a DEF Logout, ExpireToken, CleanUpExpired, ExpireAccess, CreatePat, DeletePat,
                     ExpirePat, vars
<1>. QED
  BY <1>1, <1>2, <1>3, <1>4, <1>5, <1>6, <1>7, <1>8, <1>9, <1>10, <1>11 DEF Next, RequestStep

-----------------------------------------------------------------------------
AccountsInv == TypeOK /\ SessionsInv /\ OldSessionsEnd /\ Founded

(* The invariant holds at the start.                                        *)
LEMMA InitInv == ASSUME Init PROVE AccountsInv
<1>1. /\ \A u \in Users : users[u].at = "none" /\ saved[u].at = "none"
      /\ \A t \in TokenIds : tokens[t].at = "unused"
      /\ \A r \in Requests : req[r].at = "idle" /\ req[r].family = NoToken /\ req[r].token = NoToken
      /\ dead = {}
  BY IdleFacts DEF Init, NotYet
<1>2. Here = {} /\ Stored = {} /\ Issued = {} /\ \A f : Family(f) = {} /\ Issuing(f) = {}
  BY <1>1 DEF Here, Stored, Issued, Family, Issuing
<1>3. SessionsInv
  BY <1>1, <1>2 DEF SessionsInv, Names, Followed, OneTokenPerFamily, RevokedFamilyIsOver
<1>4. OldSessionsEnd /\ Founded
  BY <1>1, <1>2 DEF OldSessionsEnd, Founded, SomeoneIsAdmin
<1>. QED  BY <1>3, <1>4, InitTypes DEF AccountsInv

(* And every step keeps it.                                                 *)
LEMMA StepInv == ASSUME AccountsInv, [Next]_vars PROVE AccountsInv'
<1>1. TypeOK /\ SessionsInv /\ Followed /\ OldSessionsEnd /\ Founded
  BY DEF AccountsInv, SessionsInv
<1>. QED  BY <1>1, TypeStep, SessionsStep, OldSessionsStep, FoundedStep DEF AccountsInv

(* Everything below follows from the inductive invariant.                   *)
THEOREM AccountsInvHolds == Spec => []AccountsInv
<1>1. Init => AccountsInv
  BY InitInv
<1>2. AccountsInv /\ [Next]_vars => AccountsInv'
  BY StepInv
<1>. QED  BY <1>1, <1>2, PTL DEF Spec

(* Requests, tokens and personal tokens refer to users that exist: the      *)
(* foreign keys, also across the restore of a backup.                       *)
THEOREM TypeCorrect == Spec => []TypeOK
<1>1. AccountsInv => TypeOK
  BY DEF AccountsInv
<1>. QED  BY <1>1, AccountsInvHolds, PTL

(* However many refreshes race, at most one token of a family exists or is  *)
(* about to: whoever deletes the row, and only he, stores the next one.     *)
THEOREM OneTokenPerFamilyHolds == Spec => []OneTokenPerFamily
<1>1. AccountsInv => OneTokenPerFamily
  BY DEF AccountsInv, SessionsInv
<1>. QED  BY <1>1, AccountsInvHolds, PTL

(* A family that was revoked while none of its tokens was being issued      *)
(* stays without tokens: no refresh can find one to go on with.             *)
THEOREM RevokedFamilyIsOverHolds == Spec => []RevokedFamilyIsOver
<1>1. AccountsInv => RevokedFamilyIsOver
  BY DEF AccountsInv, SessionsInv
<1>. QED  BY <1>1, AccountsInvHolds, PTL

(* The sessions that stood on an old password are gone when its change is   *)
(* through, whatever runs in between and however often it is changed.       *)
THEOREM OldSessionsEndHolds == Spec => []OldSessionsEnd
<1>1. AccountsInv => OldSessionsEnd
  BY DEF AccountsInv
<1>. QED  BY <1>1, AccountsInvHolds, PTL

(* Where there are users there is an administrator, whatever registrations  *)
(* race and whichever backup is restored.                                   *)
THEOREM SomeoneIsAdminHolds == Spec => []SomeoneIsAdmin
<1>1. AccountsInv => SomeoneIsAdmin
  BY DEF AccountsInv, Founded
<1>. QED  BY <1>1, AccountsInvHolds, PTL
=============================================================================
