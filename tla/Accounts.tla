------------------------------ MODULE Accounts ------------------------------
(* The accounts of the platform and what speaks for them: the rows of      *)
(* `users`, the signed session cookies, the API tokens and the panel       *)
(* sockets, with the requests that change them.  A request is a row of     *)
(* steps with an await between them, D1 has no transactions, and any       *)
(* request may die between two steps.  Sources: routes/auth.ts, users.ts,  *)
(* lib/guard.ts, lib/cookies.ts, core/api_tokens.ts, do/hub.ts (panel      *)
(* sockets).                                                               *)
(*                                                                         *)
(* Abstractions: a password is not kept, a request that needs one either   *)
(* has it or is refused; the CSRF header is right; a cookie is its payload *)
(* and the key it is signed with; an account is never deleted.             *)
EXTENDS Naturals, FiniteSets

CONSTANTS Users,        \* usernames, each at most one account
          First,        \* the username the setup creates
          Tokens,       \* API tokens that can be issued
          Requests,     \* requests in progress at a time
          None,
          MaxTokens,    \* API_TOKEN_MAX_ACTIVE_PER_USER
          MaxRequests   \* bound of the model on requests started

ASSUME FirstIsUser == First \in Users
ASSUME Bounds == MaxTokens \in Nat \ {0} /\ MaxRequests \in Nat

VARIABLES account,   \* users: username -> row or None
          secret,    \* settings.session_secret, a number or None
          drawn,     \* secrets generated so far
          cookies,   \* session cookies in the browsers
          token,     \* api_tokens: token -> row or None
          panels,    \* open panel sockets
          req,       \* the request each slot serves
          started,   \* requests started
          struck,    \* history: credentials a change of the account ended
          halfdone,  \* history: a request died between disabling and the bump
          raced,     \* history: two changes of roles overlapped
          stray      \* history: a panel socket escaped its closing

vars == <<account, secret, drawn, cookies, token, panels, req, started,
          struck, halfdone, raced, stray>>
history == <<struck, halfdone, raced, stray>>

Roles == {"admin", "user"}
Row == [role : Roles, disabled : BOOLEAN, epoch : Nat]
Cookie == [user : Users, epoch : Nat, key : Nat]

TokenRow == [user : Users, epoch : Nat, active : BOOLEAN]

ASSUME NoneIsOther ==
  None \notin Users \cup Tokens \cup Nat \cup Roles \cup BOOLEAN \cup Row \cup TokenRow
ASSUME TokensAreOther == Tokens \cap Cookie = {}

NewRow(role) == [role |-> role, disabled |-> FALSE, epoch |-> 0]
Idle == [op |-> "none", pc |-> "idle"]

\* Nothing installed yet, or two administrators who are signed in.
Init ==
  /\ \/ account = [u \in Users |-> None] /\ secret = None /\ drawn = 0 /\ cookies = {}
     \/ /\ account = [u \in Users |-> NewRow("admin")] /\ secret = 1 /\ drawn = 1
        /\ cookies = [user : Users, epoch : {0}, key : {1}]
  /\ token = [t \in Tokens |-> None]
  /\ panels = {}
  /\ req = [r \in Requests |-> Idle]
  /\ started = 0
  /\ struck = {} /\ halfdone = FALSE /\ raced = FALSE /\ stray = FALSE

---------------------------------------------------------------------------
\* Who a credential speaks for (lib/guard.ts, core/api_tokens.ts).

Enabled(u) == account[u] # None /\ ~account[u].disabled

CookieAccepted(c) ==
  /\ c \in cookies
  /\ c.key = secret
  /\ Enabled(c.user)
  /\ c.epoch = account[c.user].epoch

TokenAccepted(t) ==
  /\ token[t] # None
  /\ token[t].active
  /\ Enabled(token[t].user)
  /\ token[t].epoch = account[token[t].user].epoch

Accepted(c) == IF c \in Tokens THEN TokenAccepted(c) ELSE CookieAccepted(c)
Owner(c) == IF c \in Tokens THEN token[c].user ELSE c.user

CredentialsOf(u) ==
  {c \in cookies : c.user = u} \cup {t \in Tokens : token[t] # None /\ token[t].user = u}

\* requireCsrf: an administrator, by cookie or by token.
AdminActs == \E c \in cookies \cup Tokens : Accepted(c) /\ account[Owner(c)].role = "admin"

---------------------------------------------------------------------------
\* Requests.

Free(r) == req[r].pc = "idle"
At(r, op, pc) == req[r].op \in op /\ req[r].pc = pc
To(r, pc) == req' = [req EXCEPT ![r].pc = pc]
Answer(r) == req' = [req EXCEPT ![r] = Idle]

Start(r, request) ==
  /\ Free(r) /\ started < MaxRequests
  /\ req' = [req EXCEPT ![r] = request]
  /\ started' = started + 1

\* POST /api/setup: nobody exists yet; the insert that follows the hashing
\* fails when another setup was faster (username is UNIQUE).
StartSetup(r) ==
  /\ \A u \in Users : account[u] = None
  /\ Start(r, [op |-> "setup", pc |-> "insert", user |-> First, role |-> "admin"])
  /\ UNCHANGED <<account, secret, drawn, cookies, token, panels, history>>

\* POST /api/users.
StartCreate(r, u) ==
  /\ AdminActs
  /\ account[u] = None
  /\ \E role \in Roles :
       Start(r, [op |-> "create", pc |-> "insert", user |-> u, role |-> role])
  /\ UNCHANGED <<account, secret, drawn, cookies, token, panels, history>>

InsertUser(r) ==
  /\ At(r, {"setup", "create"}, "insert")
  /\ IF account[req[r].user] # None
     THEN Answer(r) /\ UNCHANGED account
     ELSE /\ account' = [account EXCEPT ![req[r].user] = NewRow(req[r].role)]
          /\ IF req[r].op = "setup" THEN To(r, "rotate") ELSE Answer(r)
  /\ UNCHANGED <<secret, drawn, cookies, token, panels, started, history>>

RotateSecret(r) ==
  /\ At(r, {"setup"}, "rotate")
  /\ secret' = drawn + 1 /\ drawn' = drawn + 1
  /\ Answer(r)
  /\ UNCHANGED <<account, cookies, token, panels, started, history>>

\* POST /api/auth/login with the right password: the row is read before the
\* verification, the cookie is made of what was read.
SignIn(r, u) ==
  /\ Enabled(u)
  /\ Start(r, [op |-> "login", pc |-> "cookie", user |-> u, epoch |-> account[u].epoch])
  /\ UNCHANGED <<account, secret, drawn, cookies, token, panels, history>>

\* issueSessionCookie, getOrCreateSessionSecret: get, then upsert.
IssueCookie(r) ==
  /\ At(r, {"login", "change"}, "cookie") /\ secret # None
  /\ cookies' = cookies \cup {[user |-> req[r].user, epoch |-> req[r].epoch, key |-> secret]}
  /\ Answer(r)
  /\ UNCHANGED <<account, secret, drawn, token, panels, started, history>>

DrawSecret(r) ==
  /\ At(r, {"login"}, "cookie") /\ secret = None
  /\ drawn' = drawn + 1
  /\ req' = [req EXCEPT ![r] = [op |-> "login", pc |-> "keep", user |-> @.user,
                                epoch |-> @.epoch, key |-> drawn + 1]]
  /\ UNCHANGED <<account, secret, cookies, token, panels, started, history>>

KeepSecret(r) ==
  /\ At(r, {"login"}, "keep")
  /\ secret' = req[r].key
  /\ cookies' = cookies \cup {[user |-> req[r].user, epoch |-> req[r].epoch, key |-> req[r].key]}
  /\ Answer(r)
  /\ UNCHANGED <<account, drawn, token, panels, started, history>>

\* POST /api/auth/change-password (cookie only): the session, then the row the
\* old password is verified against.
StartChange(r, c) ==
  /\ CookieAccepted(c)
  /\ Start(r, [op |-> "change", pc |-> "verify", user |-> c.user])
  /\ UNCHANGED <<account, secret, drawn, cookies, token, panels, history>>

Verify(r) ==
  /\ At(r, {"change"}, "verify")
  /\ req' = [req EXCEPT ![r] = [op |-> "change", pc |-> "password", user |-> @.user,
                                epoch |-> account[@.user].epoch + 1]]
  /\ UNCHANGED <<account, secret, drawn, cookies, token, panels, started, history>>

\* POST /api/users/:userId/reset-password.
StartReset(r, u) ==
  /\ AdminActs
  /\ account[u] # None
  /\ Start(r, [op |-> "reset", pc |-> "password", user |-> u])
  /\ UNCHANGED <<account, secret, drawn, cookies, token, panels, history>>

\* updateUserPasswordAndBumpEpoch: one UPDATE, by id alone.
NewPassword(row) == [row EXCEPT !.epoch = @ + 1]

UpdatePassword(r) ==
  /\ At(r, {"change", "reset"}, "password")
  /\ LET u == req[r].user IN
       /\ account' = [account EXCEPT ![u] = NewPassword(@)]
       /\ struck' = struck \cup CredentialsOf(u)
  /\ To(r, "close")
  /\ UNCHANGED <<secret, drawn, cookies, token, panels, started, halfdone, raced, stray>>

\* PATCH /api/users/:userId with a role, a `disabled`, or both.
StartPatch(r, u) ==
  /\ AdminActs
  /\ \E role \in Roles \cup {None}, disabled \in BOOLEAN \cup {None} :
       /\ <<role, disabled>> # <<None, None>>
       /\ Start(r, [op |-> "patch", pc |-> "read", user |-> u,
                    role |-> role, disabled |-> disabled])
  /\ UNCHANGED <<account, secret, drawn, cookies, token, panels, history>>

\* getUserOr404
ReadTarget(r) ==
  /\ At(r, {"patch"}, "read")
  /\ IF account[req[r].user] = None
     THEN Answer(r)
     ELSE req' = [req EXCEPT ![r] = [op |-> "patch", pc |-> "guard", user |-> @.user,
                                     role |-> @.role, disabled |-> @.disabled,
                                     seen |-> account[@.user]]]
  /\ raced' = (raced \/ \E q \in Requests : At(q, {"patch"}, "guard") \/ At(q, {"patch"}, "write"))
  /\ UNCHANGED <<account, secret, drawn, cookies, token, panels, started,
                 struck, halfdone, stray>>

\* countActiveAdmins
ActiveAdmins(u) == {v \in Users \ {u} : Enabled(v) /\ account[v].role = "admin"}

Disabling(q) == q.disabled = TRUE /\ ~q.seen.disabled
Demoting(q) == q.role \notin {None, "admin"} /\ q.seen.role = "admin"

GuardLastAdmin(r) ==
  /\ At(r, {"patch"}, "guard")
  /\ LET q == req[r] IN
       IF /\ Demoting(q) \/ Disabling(q)
          /\ q.seen.role = "admin" /\ ~q.seen.disabled
          /\ ActiveAdmins(q.user) = {}
       THEN Answer(r)
       ELSE To(r, "write")
  /\ UNCHANGED <<account, secret, drawn, cookies, token, panels, started, history>>

\* Slip: the bump is part of the last-administrator block.
EndsSessionsOfAdmins(q) == Disabling(q) /\ q.seen.role = "admin"

\* Whether the change is followed by the bump and the closing.
EndsSessions(q) == Disabling(q)

\* updateUserRoleAndDisabled: only the columns that were given.
WriteUser(r) ==
  /\ At(r, {"patch"}, "write")
  /\ LET q == req[r] IN
       /\ account' = [account EXCEPT ![q.user].role = IF q.role = None THEN @ ELSE q.role,
                                     ![q.user].disabled = IF q.disabled = None THEN @ ELSE q.disabled]
       /\ struck' = IF Disabling(q) THEN struck \cup CredentialsOf(q.user) ELSE struck
       /\ IF EndsSessions(q) THEN To(r, "bump") ELSE Answer(r)
  /\ UNCHANGED <<secret, drawn, cookies, token, panels, started, halfdone, raced, stray>>

\* bumpUserSessionEpoch
Bump(r) ==
  /\ At(r, {"patch"}, "bump")
  /\ LET u == req[r].user IN
       /\ account' = [account EXCEPT ![u].epoch = @ + 1]
       /\ struck' = struck \cup CredentialsOf(u)
  /\ To(r, "close")
  /\ UNCHANGED <<secret, drawn, cookies, token, panels, started, halfdone, raced, stray>>

\* handleInternalClosePanelForUid
Closed(u) == {p \in panels : p.user = u}

\* closePanelForUid never throws: when the hub does not answer the sockets stay.
ClosePanels(r) ==
  /\ At(r, {"change", "reset", "patch"}, "close")
  /\ \/ panels' = panels \ Closed(req[r].user) /\ UNCHANGED stray
     \/ UNCHANGED panels /\ stray' = TRUE
  /\ IF req[r].op = "change" THEN To(r, "cookie") ELSE Answer(r)
  /\ UNCHANGED <<account, secret, drawn, cookies, token, started, struck, halfdone, raced>>

\* POST /api/auth/tokens (cookie only): the row is read again after the session.
StartMint(r, c) ==
  /\ CookieAccepted(c)
  /\ Start(r, [op |-> "mint", pc |-> "minter", user |-> c.user])
  /\ UNCHANGED <<account, secret, drawn, cookies, token, panels, history>>

ReadMinter(r) ==
  /\ At(r, {"mint"}, "minter")
  /\ req' = [req EXCEPT ![r] = [op |-> "mint", pc |-> "count", user |-> @.user,
                                epoch |-> account[@.user].epoch]]
  /\ UNCHANGED <<account, secret, drawn, cookies, token, panels, started, history>>

\* createToken: the count and the insert are two statements.
CountTokens(r) ==
  /\ At(r, {"mint"}, "count")
  /\ LET mine == {t \in Tokens : token[t] # None /\ token[t].user = req[r].user /\ token[t].active} IN
       IF Cardinality(mine) >= MaxTokens THEN Answer(r) ELSE To(r, "token")
  /\ UNCHANGED <<account, secret, drawn, cookies, token, panels, started, history>>

InsertToken(r) ==
  /\ At(r, {"mint"}, "token")
  /\ \E t \in Tokens :
       /\ token[t] = None
       /\ token' = [token EXCEPT ![t] = [user |-> req[r].user, epoch |-> req[r].epoch, active |-> TRUE]]
  /\ Answer(r)
  /\ UNCHANGED <<account, secret, drawn, cookies, panels, started, history>>

\* DELETE /api/auth/tokens/:tokenId, one's own only.
RevokeToken(c, t) ==
  /\ started < MaxRequests /\ started' = started + 1
  /\ CookieAccepted(c)
  /\ token[t] # None /\ token[t].user = c.user
  /\ token' = [token EXCEPT ![t].active = FALSE]
  /\ struck' = struck \cup {t}
  /\ UNCHANGED <<account, secret, drawn, cookies, panels, req, halfdone, raced, stray>>

\* handlePanelWsUpgrade: the session is checked against D1, then the socket accepted.
StartPanel(r, c) ==
  /\ CookieAccepted(c)
  /\ Start(r, [op |-> "panel", pc |-> "accept", user |-> c.user, epoch |-> c.epoch])
  /\ UNCHANGED <<account, secret, drawn, cookies, token, panels, history>>

AcceptPanel(r) ==
  /\ At(r, {"panel"}, "accept")
  /\ panels' = panels \cup {[user |-> req[r].user, epoch |-> req[r].epoch]}
  /\ stray' = (stray \/ account[req[r].user].epoch # req[r].epoch)
  /\ Answer(r)
  /\ UNCHANGED <<account, secret, drawn, cookies, token, started, struck, halfdone, raced>>

---------------------------------------------------------------------------
\* The environment.

\* The Worker is evicted, or D1 fails, between two steps of a request.
Die(r) ==
  /\ ~Free(r)
  /\ Answer(r)
  /\ halfdone' = (halfdone \/ req[r].pc = "bump")
  /\ stray' = (stray \/ req[r].pc = "close")
  /\ UNCHANGED <<account, secret, drawn, cookies, token, panels, started, struck, raced>>

\* Seven days for a cookie, its TTL for a token; a tab is closed.
CookieAges(c) ==
  /\ cookies' = cookies \ {c}
  /\ UNCHANGED <<account, secret, drawn, token, panels, req, started, history>>

TokenAges(t) ==
  /\ token[t] # None /\ token[t].active
  /\ token' = [token EXCEPT ![t].active = FALSE]
  /\ UNCHANGED <<account, secret, drawn, cookies, panels, req, started, history>>

PanelGone(p) ==
  /\ panels' = panels \ {p}
  /\ UNCHANGED <<account, secret, drawn, cookies, token, req, started, history>>

Next ==
  \/ \E r \in Requests :
       \/ StartSetup(r) \/ InsertUser(r) \/ RotateSecret(r)
       \/ IssueCookie(r) \/ DrawSecret(r) \/ KeepSecret(r)
       \/ Verify(r) \/ UpdatePassword(r) \/ ClosePanels(r)
       \/ ReadTarget(r) \/ GuardLastAdmin(r) \/ WriteUser(r) \/ Bump(r)
       \/ ReadMinter(r) \/ CountTokens(r) \/ InsertToken(r)
       \/ AcceptPanel(r) \/ Die(r)
       \/ \E u \in Users : StartCreate(r, u) \/ SignIn(r, u) \/ StartReset(r, u) \/ StartPatch(r, u)
       \/ \E c \in cookies : StartChange(r, c) \/ StartMint(r, c) \/ StartPanel(r, c)
  \/ \E c \in cookies : CookieAges(c)
  \/ \E c \in cookies, t \in Tokens : RevokeToken(c, t)
  \/ \E t \in Tokens : TokenAges(t)
  \/ \E p \in panels : PanelGone(p)

Spec == Init /\ [][Next]_vars

---------------------------------------------------------------------------
\* Properties.

\* The state of the accounts has its type: an account is absent or a row, one
\* signing key was drawn for every cookie, and no credential is ahead of the
\* epoch its account has reached (change-password computes it, not reads it).
TypeOK ==
  /\ \A u \in Users : account[u] = None \/ account[u] \in Row
  /\ secret \in 0..drawn \cup {None}
  /\ cookies \subseteq Cookie
  /\ \A c \in cookies : account[c.user] # None /\ c.epoch <= account[c.user].epoch /\ c.key <= drawn
  /\ \A t \in Tokens : token[t] # None => token[t].epoch <= account[token[t].user].epoch

\* routes/auth.ts, users.ts: a credential that existed when the password was
\* changed or reset, the account disabled, or the token revoked, is never
\* accepted again, whatever is enabled, issued or minted afterwards; except
\* while the disabling has not bumped the epoch yet, or if it died before.
RevokedIsOut ==
  \A c \in struck :
    \/ ~Accepted(c)
    \/ halfdone
    \/ \E r \in Requests : At(r, {"patch"}, "bump") /\ req[r].user = Owner(c)

\* PATCH /api/users: once somebody is installed an enabled administrator
\* remains, unless two changes of roles overlapped between guard and write.
AnAdminRemains ==
  (\E u \in Users : account[u] # None) /\ ~raced
    => \E u \in Users : Enabled(u) /\ account[u].role = "admin"

\* closePanelForUid: an open panel socket belongs to a session of the current
\* epoch of an enabled account, unless its closing is still to come, was lost,
\* or passed it while it was being accepted, or two changes of the account
\* overlapped: one that disables what it read as disabled closes nothing.
PanelsAreCurrent ==
  \A p \in panels :
    \/ p.epoch = account[p.user].epoch /\ Enabled(p.user)
    \/ stray \/ halfdone \/ raced
    \/ \E r \in Requests : req[r].pc \in {"bump", "close"} /\ req[r].user = p.user

\* Whoever was shut out stays out, panels included, and somebody can let people
\* in again (routes/auth.ts, users.ts); each with the exceptions named at its part.
AccountsSound == TypeOK /\ RevokedIsOut /\ AnAdminRemains /\ PanelsAreCurrent
=============================================================================
