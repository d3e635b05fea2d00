------------------------------ MODULE Accounts ------------------------------
(***************************************************************************)
(* Accounts and sessions: registration, login, the rotation of refresh      *)
(* tokens in families, logout, password changes, personal access tokens and *)
(* what the restore of a backup does to all of them. Each SQL statement is  *)
(* a step, and a request may be cut off between two of them.                *)
(***************************************************************************)
EXTENDS Integers

CONSTANTS
    Users,
    NoUser,
    Requests,   \* requests that may run at the same time
    Ops,        \* Ops[r]: what request r may do
    MaxTokens,  \* bound: refresh tokens ever issued
    Pats,       \* ids of personal access tokens
    MaxPass,    \* bound: passwords a user ever has
    MaxEvents,  \* bound: expiries, logouts, drops, backups, restores, actions on Pats
    Faults      \* subset of {"drop", "restore"}

AllOps == {"register", "login", "refresh", "change"}

ASSUME AccountsAssumption ==
    /\ NoUser \notin Users
    /\ Ops \in [Requests -> SUBSET AllOps]
    /\ MaxTokens \in Nat /\ MaxPass \in Nat \ {0} /\ MaxEvents \in Nat
    /\ Faults \subseteq {"drop", "restore"}

VARIABLES
    users,      \* the table users
    tokens,     \* refresh_tokens, by id; a family is named by its first token
    access,     \* access tokens that are valid: user and is_admin
    pats,       \* personal_access_tokens
    req,        \* req[r]: where request r stands
    saved,      \* the table users in the backup the administrator keeps
    events,     \* events that happened, of those MaxEvents bounds
    dead,       \* history: families revoked while none of their tokens was being issued
    cut         \* history: users whose password change was cut off half way

vars == <<users, tokens, access, pats, req, saved, events, dead, cut>>

-----------------------------------------------------------------------------
TokenIds == 1..MaxTokens
NoToken == 0

(* password_hash: the number of the password, or "!restored".               *)
Restored == 0
Passwords == 0..MaxPass

User == [at : {"none"}] \cup [at : {"here"}, admin : BOOLEAN, pass : Passwords]
NotYet == [at |-> "none"]

(* late: the request that stored it had checked a password that was changed *)
(* before it did.                                                           *)
Token == [at : {"unused", "gone"}]
         \cup [at : {"live", "expired"}, user : Users, family : TokenIds,
               pass : Passwords, late : BOOLEAN]
Gone == [at |-> "gone"]

Pat == [at : {"none", "gone"}] \cup [at : {"live", "expired"}, user : Users,
                                     scope : {"read", "write"}]

Request == [op : AllOps \cup {"none"},
            at : {"idle", "insert", "issue", "delete", "revoke", "find", "update",
                  "revoke_all"},
            user : Users \cup {NoUser}, admin : BOOLEAN, pass : Passwords,
            token : TokenIds \cup {NoToken}, family : TokenIds \cup {NoToken}]

Idle == [op |-> "none", at |-> "idle", user |-> NoUser, admin |-> FALSE,
         pass |-> Restored, token |-> NoToken, family |-> NoToken]

Here == {u \in Users : users[u].at = "here"}
Stored == {t \in TokenIds : tokens[t].at \in {"live", "expired"}}
Issued == {t \in TokenIds : tokens[t].at # "unused"}

(* The refresh that removed its token, and has not stored the next one.     *)
Issuing(f) == {r \in Requests : req[r].at \in {"find", "issue"} /\ req[r].family = f}

TypeOK ==
    /\ users \in [Users -> User] /\ saved \in [Users -> User]
    /\ tokens \in [TokenIds -> Token]
    /\ access \subseteq Users \X BOOLEAN
    /\ pats \in [Pats -> Pat]
    /\ req \in [Requests -> Request]
    /\ events \in 0..MaxEvents /\ dead \subseteq TokenIds /\ cut \subseteq Users
    /\ \A r \in Requests : req[r].at # "idle" => req[r].user \in Users
    /\ \A t \in Stored : tokens[t].user \in Here
    /\ \A p \in Pats : pats[p].at \in {"live", "expired"} => pats[p].user \in Here

Init ==
    /\ users = [u \in Users |-> NotYet]
    /\ tokens = [t \in TokenIds |-> [at |-> "unused"]]
    /\ access = {}
    /\ pats = [p \in Pats |-> [at |-> "none"]]
    /\ req = [r \in Requests |-> Idle]
    /\ saved = users
    /\ events = 0 /\ dead = {} /\ cut = {}

-----------------------------------------------------------------------------
(* Something of the world around the requests happens.                     *)
Event == events < MaxEvents /\ events' = events + 1

Finish(r) == req' = [req EXCEPT ![r] = Idle]
Goto(r, at) == req' = [req EXCEPT ![r].at = at]
May(r, op) == req[r] = Idle /\ op \in Ops[r]

(* DELETE FROM refresh_tokens WHERE ...                                     *)
Deleted(T) == tokens' = [t \in TokenIds |-> IF t \in T \cap Stored THEN Gone ELSE tokens[t]]

(* from_request_parts: an access token is believed until it expires; a      *)
(* personal access token must be in its table, and allows writes by scope.  *)
Authenticated(u) ==
    \/ \E admin \in BOOLEAN : <<u, admin>> \in access
    \/ \E p \in Pats : pats[p].at = "live" /\ pats[p].user = u /\ pats[p].scope = "write"

(* Registration: the first user becomes administrator.                      *)
CountUsers(r, u) ==
    /\ May(r, "register")
    /\ req' = [req EXCEPT ![r] = [Idle EXCEPT !.op = "register", !.at = "insert",
                                              !.user = u, !.admin = Here = {}]]
    /\ UNCHANGED <<users, tokens, access, pats, saved, events, dead, cut>>

(* A name or an address that is taken is a conflict.                        *)
CreateUser(r) ==
    /\ req[r].at = "insert"
    /\ LET u == req[r].user
       IN  IF u \in Here
           THEN Finish(r) /\ UNCHANGED users
           ELSE /\ users' = [users EXCEPT ![u] = [at |-> "here", admin |-> req[r].admin,
                                                  pass |-> 1]]
                /\ req' = [req EXCEPT ![r].at = "issue", ![r].pass = 1]
    /\ UNCHANGED <<tokens, access, pats, saved, events, dead, cut>>

(* A password is verified against the hash that was read.                   *)
Login(r, u) ==
    /\ May(r, "login")
    /\ u \in Here /\ users[u].pass # Restored
    /\ req' = [req EXCEPT ![r] = [Idle EXCEPT !.op = "login", !.at = "issue", !.user = u,
                                              !.admin = users[u].admin,
                                              !.pass = users[u].pass]]
    /\ UNCHANGED <<users, tokens, access, pats, saved, events, dead, cut>>

(* A refresh token begins a family of its own, or goes on with the one of   *)
(* the token that was exchanged for it. Its user must be there.             *)
IssueTokens(r) ==
    /\ req[r].at = "issue"
    /\ LET u == req[r].user
       IN  IF u \in Here
           THEN \E t \in TokenIds \ Issued :
                  /\ \A s \in TokenIds \ Issued : t <= s
                  /\ tokens' = [tokens EXCEPT ![t] =
                       [at |-> "live", user |-> u, pass |-> req[r].pass,
                        family |-> IF req[r].family = NoToken THEN t ELSE req[r].family,
                        late |-> req[r].pass # users[u].pass]]
                  /\ access' = access \cup {<<u, req[r].admin>>}
           ELSE UNCHANGED <<tokens, access>>
    /\ Finish(r)
    /\ UNCHANGED <<users, pats, saved, events, dead, cut>>

-----------------------------------------------------------------------------
(* Refresh: find the token, delete it, find its user, issue the next one.   *)
(* Clients may present a token again, after an answer that was lost.        *)
FindRefreshToken(r, t) ==
    /\ May(r, "refresh")
    /\ tokens[t].at = "live"
    /\ req' = [req EXCEPT ![r] = [Idle EXCEPT !.op = "refresh", !.at = "delete",
                                              !.user = tokens[t].user, !.token = t,
                                              !.pass = tokens[t].pass,
                                              !.family = tokens[t].family]]
    /\ UNCHANGED <<users, tokens, access, pats, saved, events, dead, cut>>

(* Whoever deletes the row goes on.                                         *)
BadAfterDelete(t) == "find"
AfterDelete(t) == IF t \in Stored THEN "find" ELSE "revoke"

DeleteRefreshToken(r) ==
    /\ req[r].at = "delete"
    /\ Deleted({req[r].token})
    /\ Goto(r, AfterDelete(req[r].token))
    /\ UNCHANGED <<users, access, pats, saved, events, dead, cut>>

Family(f) == {t \in Stored : tokens[t].family = f}
BadRevoked(r) == {req[r].token}
Revoked(r) == Family(req[r].family)

RevokeFamily(r) ==
    /\ req[r].at = "revoke"
    /\ Deleted(Revoked(r))
    /\ Finish(r)
    /\ dead' = IF Issuing(req[r].family) = {} THEN dead \cup {req[r].family} ELSE dead
    /\ UNCHANGED <<users, access, pats, saved, events, cut>>

FindUser(r) ==
    /\ req[r].at = "find"
    /\ LET u == req[r].user
       IN  IF u \in Here THEN req' = [req EXCEPT ![r].at = "issue", ![r].admin = users[u].admin]
                         ELSE Finish(r)
    /\ UNCHANGED <<users, tokens, access, pats, saved, events, dead, cut>>

Logout(t) ==
    /\ Event
    /\ t \in Stored /\ Authenticated(tokens[t].user)
    /\ Deleted({t})
    /\ UNCHANGED <<users, access, pats, req, saved, dead, cut>>

(* A token past its time stays in the table until the next clean-up.        *)
ExpireToken(t) ==
    /\ Event
    /\ tokens[t].at = "live"
    /\ tokens' = [tokens EXCEPT ![t].at = "expired"]
    /\ UNCHANGED <<users, access, pats, req, saved, dead, cut>>

(* The clean-up runs every hour, whether there is something to delete or not. *)
CleanUpExpired ==
    /\ Deleted({t \in TokenIds : tokens[t].at = "expired"})
    /\ UNCHANGED <<users, access, pats, req, saved, events, dead, cut>>

ExpireAccess(a) ==
    /\ Event
    /\ a \in access
    /\ access' = access \ {a}
    /\ UNCHANGED <<users, tokens, pats, req, saved, dead, cut>>

-----------------------------------------------------------------------------
(* Change of the password: verified against what is read, then written,     *)
(* then all sessions of the user are ended.                                 *)
CheckPassword(r, u) ==
    /\ May(r, "change")
    /\ Authenticated(u)
    /\ u \in Here /\ users[u].pass \in 1..MaxPass - 1
    /\ req' = [req EXCEPT ![r] = [Idle EXCEPT !.op = "change", !.at = "update", !.user = u,
                                              !.pass = users[u].pass]]
    /\ UNCHANGED <<users, tokens, access, pats, saved, events, dead, cut>>

(* Two changes of the same password both succeed; the later one stays.      *)
UpdatePassword(r) ==
    /\ req[r].at = "update"
    /\ LET u == req[r].user
       IN  IF u \in Here /\ users[u].pass < MaxPass
           THEN users' = [users EXCEPT ![u].pass = @ + 1]
           ELSE UNCHANGED users
    /\ Goto(r, "revoke_all")
    /\ UNCHANGED <<tokens, access, pats, saved, events, dead, cut>>

BadSessionsOf(r) == Family(req[r].family)
SessionsOf(r) == {t \in Stored : tokens[t].user = req[r].user}

RevokeAll(r) ==
    /\ req[r].at = "revoke_all"
    /\ Deleted(SessionsOf(r))
    /\ Finish(r)
    /\ UNCHANGED <<users, access, pats, saved, events, dead, cut>>

(* The client disconnects, or the process ends.                             *)
Drop(r) ==
    /\ Event
    /\ "drop" \in Faults
    /\ req[r] # Idle
    /\ Finish(r)
    /\ cut' = IF req[r].at = "revoke_all" THEN cut \cup {req[r].user} ELSE cut
    /\ UNCHANGED <<users, tokens, access, pats, saved, dead>>

-----------------------------------------------------------------------------
(* Personal access tokens are managed with an access token only.            *)
CreatePat(u, p, scope) ==
    /\ Event
    /\ \E admin \in BOOLEAN : <<u, admin>> \in access
    /\ u \in Here
    /\ pats[p].at = "none"
    /\ pats' = [pats EXCEPT ![p] = [at |-> "live", user |-> u, scope |-> scope]]
    /\ UNCHANGED <<users, tokens, access, req, saved, dead, cut>>

DeletePat(p) ==
    /\ Event
    /\ pats[p].at \in {"live", "expired"}
    /\ \E admin \in BOOLEAN : <<pats[p].user, admin>> \in access
    /\ pats' = [pats EXCEPT ![p] = [at |-> "gone"]]
    /\ UNCHANGED <<users, tokens, access, req, saved, dead, cut>>

ExpirePat(p) ==
    /\ Event
    /\ pats[p].at = "live"
    /\ pats' = [pats EXCEPT ![p].at = "expired"]
    /\ UNCHANGED <<users, tokens, access, req, saved, dead, cut>>

(* Backups and restores are the administrator's; is_admin is believed as    *)
(* the access token has it, and a personal access token never has it.       *)
Backup ==
    /\ Event
    /\ "restore" \in Faults
    /\ \E u \in Users : <<u, TRUE>> \in access
    /\ saved' = users
    /\ UNCHANGED <<users, tokens, access, pats, req, dead, cut>>

BadRestoredUser(u) ==
    IF saved[u].at = "here" THEN [at |-> "here", admin |-> FALSE, pass |-> Restored]
    ELSE NotYet
RestoredUser(u) ==
    IF saved[u].at = "here" THEN [at |-> "here", admin |-> saved[u].admin, pass |-> Restored]
    ELSE NotYet

(* Rows that refer to a user that is deleted go with it; passwords are not  *)
(* in the backup.                                                           *)
Cascade(t) == IF t \in Stored THEN Gone ELSE tokens[t]

Restore ==
    /\ Event
    /\ "restore" \in Faults
    /\ \E u \in Users : <<u, TRUE>> \in access
    /\ \E u \in Users : saved[u].at = "here"
    /\ users' = [u \in Users |-> RestoredUser(u)]
    /\ tokens' = [t \in TokenIds |-> Cascade(t)]
    /\ pats' = [p \in Pats |-> IF pats[p].at = "none" THEN pats[p] ELSE [at |-> "gone"]]
    /\ UNCHANGED <<access, req, saved, dead, cut>>

RequestStep(r) ==
    \/ \E u \in Users : CountUsers(r, u) \/ Login(r, u) \/ CheckPassword(r, u)
    \/ \E t \in TokenIds : FindRefreshToken(r, t)
    \/ CreateUser(r) \/ IssueTokens(r)
    \/ DeleteRefreshToken(r) \/ RevokeFamily(r) \/ FindUser(r)
    \/ UpdatePassword(r) \/ RevokeAll(r)
    \/ Drop(r)

Next ==
    \/ \E r \in Requests : RequestStep(r)
    \/ \E t \in TokenIds : Logout(t) \/ ExpireToken(t)
    \/ CleanUpExpired
    \/ \E a \in Users \X BOOLEAN : ExpireAccess(a)
    \/ \E u \in Users, p \in Pats, scope \in {"read", "write"} : CreatePat(u, p, scope)
    \/ \E p \in Pats : DeletePat(p) \/ ExpirePat(p)
    \/ Backup \/ Restore

Spec == Init /\ [][Next]_vars

-----------------------------------------------------------------------------
(* Of a family at most one token exists or is about to: however many        *)
(* refreshes with the same token run at once, one of them goes on           *)
(* (auth.rs:264).                                                           *)
OneTokenPerFamily ==
    \A f \in TokenIds :
        /\ \A s, t \in Family(f) : s = t
        /\ \A q, r \in Issuing(f) : q = r
        /\ Family(f) = {} \/ Issuing(f) = {}

(* A family that was revoked while none of its tokens was being issued is   *)
(* over: no refresh that is under way brings it back (user.rs:134).         *)
RevokedFamilyIsOver == \A f \in dead : Family(f) = {} /\ Issuing(f) = {}

(* After a change of the password the sessions that stood on the old one    *)
(* are gone, except those stored by requests that had checked it before the *)
(* change, as soon as the change is through; one that is cut off between    *)
(* its two statements leaves them (auth.rs:467).                            *)
OldSessionsEnd ==
    \A t \in Stored :
        LET u == tokens[t].user
        IN  \/ tokens[t].pass = users[u].pass \/ tokens[t].late
            \/ \E r \in Requests : req[r].at = "revoke_all" /\ req[r].user = u
            \/ u \in cut

(* There is an administrator as soon as there is a user, whatever           *)
(* registrations race and whichever backup is restored (auth.rs:116).       *)
SomeoneIsAdmin == Here # {} => \E u \in Here : users[u].admin
=============================================================================
