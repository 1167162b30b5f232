--------------------------- MODULE AccessProofs ---------------------------
(* What holds of access control for any numbers of accounts, tokens,       *)
(* requests and slots: whoever was shut out stays out, an enabled          *)
(* administrator remains and no panel outlives its session; a signed       *)
(* request counts once and a register token makes one worker, for all      *)
(* times that TimesAssumption allows; and the wait after failed logins     *)
(* lets no more of them through than fit.                                  *)
EXTENDS MCAccess, TLAPS, NaturalsInduction, WellFoundedInduction, FiniteSetTheorems

(* The accounts *)

\* What a request is at each of its steps.
Requested ==
  {Idle}
    \cup [op : {"setup"}, pc : {"insert", "rotate"}, user : {First}, role : {"admin"}]
    \cup [op : {"create"}, pc : {"insert"}, user : Users, role : Roles]
    \cup [op : {"login"}, pc : {"cookie"}, user : Users, epoch : Nat]
    \cup [op : {"login"}, pc : {"keep"}, user : Users, epoch : Nat, key : Nat]
    \cup [op : {"change"}, pc : {"verify"}, user : Users]
    \cup [op : {"change"}, pc : {"password", "close", "cookie"}, user : Users, epoch : Nat]
    \cup [op : {"reset"}, pc : {"password", "close"}, user : Users]
    \cup [op : {"patch"}, pc : {"read"}, user : Users, role : Roles \cup {None},
          disabled : BOOLEAN \cup {None}]
    \cup [op : {"patch"}, pc : {"guard", "write", "bump", "close"}, user : Users,
          role : Roles \cup {None}, disabled : BOOLEAN \cup {None}, seen : Row]
    \cup [op : {"mint"}, pc : {"minter"}, user : Users]
    \cup [op : {"mint"}, pc : {"count", "token"}, user : Users, epoch : Nat]
    \cup [op : {"panel"}, pc : {"accept"}, user : Users, epoch : Nat]

\* The account is there, and has reached that epoch.
Reached(u, epoch) == account[u] # None /\ epoch <= account[u].epoch

AccountTypes ==
  /\ account \in [Users -> Row \cup {None}]
  /\ drawn \in Nat /\ secret \in 0..drawn \cup {None}
  /\ cookies \subseteq Cookie
  /\ token \in [Tokens -> TokenRow \cup {None}]
  /\ panels \subseteq [user : Users, epoch : Nat]
  /\ req \in [Requests -> Requested]
  /\ struck \subseteq Tokens \cup Cookie
  /\ halfdone \in BOOLEAN /\ raced \in BOOLEAN /\ stray \in BOOLEAN

\* No credential and no panel is ahead of its account.
Behind ==
  /\ \A c \in cookies : Reached(c.user, c.epoch) /\ c.key <= drawn
  /\ \A t \in Tokens : token[t] # None => Reached(token[t].user, token[t].epoch)
  /\ \A p \in panels : Reached(p.user, p.epoch)

\* Nor is a request, which has an account to act on.
Carries(q) == q.op \in {"login", "panel"} \/ q.pc \in {"count", "token"}
                \/ (q.op = "change" /\ q.pc \in {"close", "cookie"})
Grounded(q) ==
  /\ q.op \in {"reset", "change", "mint"} => account[q.user] # None
  /\ q.op = "patch" /\ q.pc # "read" => account[q.user] # None
  /\ Carries(q) => Reached(q.user, q.epoch)
  /\ q.op = "change" /\ q.pc = "password" => q.epoch <= account[q.user].epoch + 1
  /\ q.pc = "keep" => q.key <= drawn
  /\ q.op = "create" => \E u \in Users : account[u] # None

\* A change of a role that does not overlap another stands on what it read, and
\* past the guard it takes the rights of the last administrator from nobody.
Changing(q) == q.op = "patch" /\ q.pc \in {"guard", "write"}
Reducing(q) == (Demoting(q) \/ Disabling(q)) /\ q.seen.role = "admin" /\ ~q.seen.disabled
Stands(q) ==
  /\ q.seen.role = account[q.user].role /\ q.seen.disabled = account[q.user].disabled
  /\ q.pc = "write" /\ Reducing(q) => ActiveAdmins(q.user) # {}
Undisturbed ==
  ~raced =>
    /\ \A r, s \in Requests : Changing(req[r]) /\ Changing(req[s]) => r = s
    /\ \A r \in Requests : Changing(req[r]) => Stands(req[r])

\* What a change struck is behind its account, unless the bump is still to come.
Bumping(u) == \E r \in Requests : At(r, {"patch"}, "bump") /\ req[r].user = u
Struck(c) ==
  IF c \in Tokens
  THEN /\ token[c] # None
       /\ token[c].active =>
            token[c].epoch < account[token[c].user].epoch \/ halfdone \/ Bumping(token[c].user)
  ELSE /\ Reached(c.user, c.epoch)
       /\ c.epoch < account[c.user].epoch \/ halfdone \/ Bumping(c.user)

\* A panel about to be accepted for a disabled account is behind it, too.
Accepting(q) ==
  q.op = "panel" /\ q.epoch = account[q.user].epoch =>
    Enabled(q.user) \/ halfdone \/ raced \/ Bumping(q.user)

AccountsInv ==
  /\ AccountTypes /\ Behind
  /\ \A r \in Requests : Grounded(req[r]) /\ Accepting(req[r])
  /\ Undisturbed /\ AnAdminRemains
  /\ \A c \in struck : Struck(c)
  /\ PanelsAreCurrent

---------------------------------------------------------------------------
\* What a request is, and what a step makes of it.

LEMMA Shape ==
  ASSUME NEW q \in Requested
  PROVE  /\ q.pc = "idle" <=> q = Idle
         /\ q.op = "none" <=> q = Idle
         /\ q # Idle => q.user \in Users
         /\ q.op = "setup" => q.pc \in {"insert", "rotate"} /\ q.role = "admin"
         /\ q.op = "create" => q.pc = "insert" /\ q.role \in Roles
         /\ q.op = "login" => q.pc \in {"cookie", "keep"} /\ q.epoch \in Nat
         /\ q.op = "change" => /\ q.pc \in {"verify", "password", "close", "cookie"}
                               /\ q.pc # "verify" => q.epoch \in Nat
         /\ q.op = "reset" => q.pc \in {"password", "close"}
         /\ q.op = "mint" => /\ q.pc \in {"minter", "count", "token"}
                             /\ q.pc # "minter" => q.epoch \in Nat
         /\ q.op = "panel" => q.pc = "accept" /\ q.epoch \in Nat
PROOF BY FirstIsUser DEF Requested, Idle, Roles

LEMMA Patches ==
  ASSUME NEW q \in Requested, q.op = "patch"
  PROVE  /\ q.pc \in {"read", "guard", "write", "bump", "close"}
         /\ q.role \in Roles \cup {None} /\ q.disabled \in BOOLEAN \cup {None}
         /\ q.pc # "read" => q.seen \in Row
PROOF BY DEF Requested, Idle, Roles

LEMMA Keeps ==
  ASSUME NEW q \in Requested, q.pc = "keep"
  PROVE  q.op = "login" /\ q.key \in Nat
PROOF BY DEF Requested, Idle, Roles

\* A request that goes on is the same but for its step.
LEMMA Onward ==
  ASSUME NEW q \in Requested, NEW pc,
         \/ q.op = "setup" /\ pc = "rotate"
         \/ q.op = "change" /\ q.pc # "verify" /\ pc \in {"close", "cookie"}
         \/ q.op = "reset" /\ pc = "close"
         \/ q.op = "patch" /\ q.pc # "read" /\ pc \in {"write", "bump", "close"}
         \/ q.op = "mint" /\ q.pc = "count" /\ pc = "token"
  PROVE  LET n == [q EXCEPT !.pc = pc] IN
         /\ n \in Requested
         /\ n.pc = pc /\ n.op = q.op /\ n.user = q.user
         /\ q.op \in {"change", "mint"} => n.epoch = q.epoch
         /\ q.op = "patch" => n.role = q.role /\ n.disabled = q.disabled /\ n.seen = q.seen
PROOF BY DEF Requested, Idle, Roles

LEMMA OneRequest ==
  ASSUME AccountTypes, NEW r \in Requests, NEW q \in Requested,
         req' = [req EXCEPT ![r] = q]
  PROVE  /\ req' \in [Requests -> Requested]
         /\ req'[r] = q
         /\ \A s \in Requests : s # r => req'[s] = req[s]
PROOF BY DEF AccountTypes

---------------------------------------------------------------------------
\* The invariant says what the property says.

LEMMA InvGivesSound == ASSUME AccountsInv PROVE AccountsSound
<1> USE NoneIsOther DEF AccountsInv
<1>1. TypeOK
  BY DEF TypeOK, AccountTypes, Behind, Reached
<1>2. RevokedIsOut
  <2> SUFFICES ASSUME NEW c \in struck, Accepted(c), ~halfdone PROVE Bumping(Owner(c))
    BY DEF RevokedIsOut, Bumping
  <2>1. Struck(c) /\ c \in Tokens \cup Cookie
    BY DEF AccountTypes
  <2>2. CASE c \in Tokens
    BY <2>1, <2>2 DEF Struck, Accepted, Owner, TokenAccepted, AccountTypes, Enabled, TokenRow, Row
  <2>3. CASE c \notin Tokens
    BY <2>1, <2>3 DEF Struck, Accepted, Owner, CookieAccepted, AccountTypes, Enabled, Cookie, Row, Reached
  <2> QED
    BY <2>2, <2>3
<1> QED
  BY <1>1, <1>2 DEF AccountsSound

---------------------------------------------------------------------------
\* It holds at the start.

LEMMA InitGivesInv == ASSUME Init PROVE AccountsInv
<1> USE NoneIsOther DEF Init
<1>1. NewRow("admin") \in Row /\ NewRow("admin").epoch = 0
      /\ NewRow("admin").role = "admin" /\ ~NewRow("admin").disabled
  BY DEF NewRow, Row, Roles
<1>2. /\ account \in [Users -> Row \cup {None}]
      /\ req \in [Requests -> Requested] /\ \A r \in Requests : req[r] = Idle
  BY <1>1 DEF Requested
<1>3. AccountTypes /\ Behind
  <2>1. /\ cookies \subseteq Cookie
        /\ \A c \in cookies : Reached(c.user, c.epoch) /\ c.key <= drawn
    <3>1. \A c \in [user : Users, epoch : {0}, key : {1}] :
            c \in Cookie /\ c.user \in Users /\ c.epoch = 0 /\ c.key = 1
      BY DEF Cookie
    <3>2. CASE cookies = {}
      BY <3>2
    <3>3. CASE /\ account = [u \in Users |-> NewRow("admin")] /\ drawn = 1
               /\ cookies = [user : Users, epoch : {0}, key : {1}]
      BY <1>1, <3>1, <3>3 DEF Reached
    <3> QED
      BY <3>2, <3>3
  <2>2. token \in [Tokens -> TokenRow \cup {None}] /\ drawn \in Nat /\ secret \in 0..drawn \cup {None}
    OBVIOUS
  <2> QED
    BY <1>2, <2>1, <2>2 DEF AccountTypes, Behind
<1>4. \A r \in Requests : Grounded(req[r]) /\ Accepting(req[r]) /\ ~Changing(req[r])
  BY <1>2 DEF Grounded, Accepting, Changing, Carries, Idle
<1>5. AnAdminRemains
  BY <1>1, FirstIsUser DEF AnAdminRemains, Enabled
<1> QED
  BY <1>3, <1>4, <1>5 DEF AccountsInv, Undisturbed, PanelsAreCurrent

---------------------------------------------------------------------------
\* Steps that leave the accounts alone.

\* A credential expires or is revoked, a socket goes: there is only less.
LEMMA LessRemains ==
  ASSUME AccountsInv, UNCHANGED <<account, secret, drawn, req, halfdone, raced, stray>>,
         cookies' \subseteq cookies, panels' \subseteq panels,
         token' \in [Tokens -> TokenRow \cup {None}],
         \A t \in Tokens : \/ token'[t] = token[t]
                           \/ /\ token[t] # None
                              /\ token'[t] = [token[t] EXCEPT !.active = FALSE],
         \A c \in struck' : c \in struck \/ (c \in Tokens /\ token'[c] # None /\ ~token'[c].active)
  PROVE  AccountsInv'
<1> USE NoneIsOther DEF AccountsInv
<1>0. \A t \in Tokens :
        /\ token'[t] = None <=> token[t] = None
        /\ token[t] # None => /\ token'[t].user = token[t].user /\ token'[t].epoch = token[t].epoch
                              /\ token'[t].active => token[t].active
  <2>1. \A row \in TokenRow : /\ [row EXCEPT !.active = FALSE] \in TokenRow
                            /\ [row EXCEPT !.active = FALSE].user = row.user
                            /\ [row EXCEPT !.active = FALSE].epoch = row.epoch
                            /\ ~[row EXCEPT !.active = FALSE].active
    BY DEF TokenRow
  <2> SUFFICES ASSUME NEW t \in Tokens, token[t] # None, token'[t] = [token[t] EXCEPT !.active = FALSE]
               PROVE  /\ token'[t] # None
                      /\ token'[t].user = token[t].user /\ token'[t].epoch = token[t].epoch
                      /\ ~token'[t].active
    OBVIOUS
  <2>2. token[t] \in TokenRow
    BY DEF AccountTypes
  <2> QED
    BY <2>1, <2>2
<1>1. AccountTypes'
  BY DEF AccountTypes
<1>2. Behind'
  BY <1>0 DEF Behind, Reached
<1>3. \A r \in Requests : (Grounded(req[r]) /\ Accepting(req[r]))'
  BY DEF Grounded, Accepting, Carries, Reached, Enabled, Bumping, At
<1>4. Undisturbed' /\ AnAdminRemains'
  BY DEF Undisturbed, AnAdminRemains, Changing, Stands, Reducing, Demoting, Disabling,
         ActiveAdmins, Enabled
<1>5. ASSUME NEW c \in struck' PROVE Struck(c)'
  BY <1>0 DEF Struck, Reached, Bumping, At
<1>6. PanelsAreCurrent'
  BY DEF PanelsAreCurrent, Enabled
<1> QED
  BY <1>1, <1>2, <1>3, <1>4, <1>5, <1>6

\* A step of one request that leaves the accounts alone: what it must not do.
LEMMA AccountsStay ==
  ASSUME AccountsInv, NEW r \in Requests, NEW q \in Requested,
         req' = [req EXCEPT ![r] = q],
         UNCHANGED <<account, struck>>,
         drawn' \in Nat, drawn <= drawn', secret' \in 0..drawn' \cup {None},
         halfdone' \in BOOLEAN, raced' \in BOOLEAN, stray' \in BOOLEAN,
         halfdone => halfdone', raced => raced', stray => stray',
         \* a new credential speaks for what the account has reached,
         \A c \in cookies' : \/ c \in cookies
                             \/ c \in Cookie /\ Reached(c.user, c.epoch) /\ c.key <= drawn',
         \A t \in Tokens : \/ token'[t] = token[t]
                           \/ /\ token[t] = None /\ token'[t] \in TokenRow
                              /\ Reached(token'[t].user, token'[t].epoch),
         token' \in [Tokens -> TokenRow \cup {None}],
         \* so does a new panel, and it is of the current epoch or astray,
         \A p \in panels' : \/ p \in panels
                            \/ /\ p \in [user : Users, epoch : Nat] /\ Reached(p.user, p.epoch)
                               /\ \/ stray'
                                  \/ /\ p.epoch = account[p.user].epoch
                                     /\ Enabled(p.user) \/ halfdone \/ raced \/ Bumping(p.user),
         \* the request stands on what the accounts are,
         Grounded(q)', q.op = "panel" => Accepting(q)',
         Changing(q) =>
           \/ /\ q.pc = "guard" /\ q.seen = account[q.user] /\ q.user \in Users
              /\ raced' \/ \A s \in Requests : ~Changing(req[s])
           \/ /\ q.pc = "write" /\ Changing(req[r])
              /\ Stands(req[r]) => Stands(q),
         \* and it leaves no bump and no closing undone unnoticed
         req[r].op = "patch" /\ req[r].pc = "bump" => halfdone',
         req[r].pc = "bump" => req[r].op = "patch",
         req[r].pc = "close" => stray' \/ \A p \in panels' : p.user # req[r].user
  PROVE  AccountsInv'
<1> USE NoneIsOther DEF AccountsInv
<1>1. /\ req' \in [Requests -> Requested] /\ req'[r] = q
      /\ \A s \in Requests : s # r => req'[s] = req[s]
  BY OneRequest
<1>2. AccountTypes'
  BY <1>1 DEF AccountTypes
<1>3. Behind'
  BY DEF AccountTypes, Behind, Reached, Cookie
<1>4. \A u \in Users : Bumping(u) => halfdone' \/ Bumping(u)'
  <2> SUFFICES ASSUME NEW u \in Users, NEW s \in Requests,
                      At(s, {"patch"}, "bump"), req[s].user = u, ~halfdone'
               PROVE  At(s, {"patch"}, "bump")' /\ req'[s].user = u
    BY DEF Bumping
  <2> QED
    BY <1>1 DEF At
<1>5. ASSUME NEW s \in Requests PROVE Grounded(req[s])'
  <2>1. CASE s = r
    BY <1>1, <2>1
  <2>2. CASE s # r
    <3>1. req'[s] = req[s] /\ Grounded(req[s]) /\ req[s] \in Requested
      BY <1>1, <2>2 DEF AccountTypes
    <3>2. req[s].pc = "keep" => req[s].key \in Nat
      BY <3>1, Keeps
    <3> QED
      BY <3>1, <3>2 DEF Grounded, Carries, Reached, AccountTypes
  <2> QED
    BY <2>1, <2>2
<1>6. ASSUME NEW s \in Requests PROVE Accepting(req[s])'
  <2>1. CASE s = r
    BY <1>1, <2>1 DEF Accepting
  <2>2. CASE s # r
    <3>1. req'[s] = req[s] /\ Accepting(req[s]) /\ req[s] \in Requested
      BY <1>1, <2>2 DEF AccountTypes
    <3>2. req[s].op = "panel" => req[s].user \in Users
      BY <3>1, Shape DEF Idle
    <3> QED
      BY <3>1, <3>2, <1>4 DEF Accepting, Enabled
  <2> QED
    BY <2>1, <2>2
<1>7. Undisturbed'
  <2> SUFFICES ASSUME ~raced'
               PROVE  /\ \A s, t \in Requests : Changing(req[s])' /\ Changing(req[t])' => s = t
                      /\ \A s \in Requests : Changing(req[s])' => Stands(req[s])'
    BY DEF Undisturbed, Changing, Stands, Reducing, Demoting, Disabling
  <2>1. /\ \A s, t \in Requests : Changing(req[s]) /\ Changing(req[t]) => s = t
        /\ \A s \in Requests : Changing(req[s]) => Stands(req[s])
    BY DEF Undisturbed
  <2>2. \A s \in Requests : s # r => /\ Changing(req[s])' <=> Changing(req[s])
                                     /\ Stands(req[s])' <=> Stands(req[s])
    BY <1>1 DEF Changing, Stands, Reducing, Demoting, Disabling, ActiveAdmins, Enabled
  <2>3. /\ Changing(req[r])' <=> Changing(q)
        /\ Stands(req[r])' <=> Stands(q)
    BY <1>1 DEF Changing, Stands, Reducing, Demoting, Disabling, ActiveAdmins, Enabled
  <2>4. q.pc = "guard" /\ q.seen = account[q.user] => Stands(q)
    BY DEF Stands
  <2> QED
    BY <2>1, <2>2, <2>3, <2>4
<1>8. AnAdminRemains'
  BY DEF AnAdminRemains, Enabled
<1>9. ASSUME NEW c \in struck' PROVE Struck(c)'
  <2>1. Struck(c) /\ c \in Tokens \cup Cookie
    BY DEF AccountTypes
  <2>2. CASE c \in Tokens
    <3>1. token'[c] = token[c] /\ token[c] \in TokenRow /\ token[c].user \in Users
      BY <2>1, <2>2 DEF Struck, AccountTypes, TokenRow
    <3> QED
      BY <2>1, <2>2, <3>1, <1>4 DEF Struck
  <2>3. CASE c \notin Tokens
    <3>1. c.user \in Users
      BY <2>1, <2>3 DEF Cookie
    <3> QED
      BY <2>1, <2>3, <3>1, <1>4 DEF Struck, Reached
  <2> QED
    BY <2>2, <2>3
<1>10. PanelsAreCurrent'
  <2> SUFFICES ASSUME NEW p \in panels', ~stray', ~halfdone', ~raced',
                      ~(p.epoch = account[p.user].epoch /\ Enabled(p.user))
               PROVE  \E s \in Requests : req'[s].pc \in {"bump", "close"} /\ req'[s].user = p.user
    BY DEF PanelsAreCurrent, Enabled
  <2>1. p \in [user : Users, epoch : Nat] /\ p.user \in Users
    BY DEF AccountTypes
  <2>2. CASE p \notin panels
    <3>1. Bumping(p.user)
      BY <2>2
    <3> QED
      BY <3>1, <2>1, <1>4 DEF Bumping, At
  <2>3. CASE p \in panels
    <3>1. PICK s \in Requests : req[s].pc \in {"bump", "close"} /\ req[s].user = p.user
      BY <2>3 DEF PanelsAreCurrent
    <3>2. s # r
      BY <3>1
    <3> QED
      BY <3>1, <3>2, <1>1
  <2> QED
    BY <2>2, <2>3
<1> QED
  BY <1>2, <1>3, <1>5, <1>6, <1>7, <1>8, <1>9, <1>10

LEMMA IdleIsNothing ==
  ASSUME AccountsInv
  PROVE  /\ Idle \in Requested /\ Idle.op = "none" /\ Idle.pc = "idle"
         /\ Grounded(Idle)' /\ ~Changing(Idle)
PROOF BY DEF Idle, Requested, Grounded, Carries, Changing

\* What a step of a request is about: the request, as the invariant knows it.
LEMMA InHand ==
  ASSUME AccountsInv, NEW r \in Requests
  PROVE  /\ req[r] \in Requested /\ Grounded(req[r]) /\ Accepting(req[r])
         /\ req[r].pc = "idle" <=> req[r] = Idle
         /\ req[r].pc = "bump" => req[r].op = "patch"
         /\ req[r] # Idle => req[r].user \in Users
         /\ \A u \in Users : account[u] # None => account[u] \in Row /\ account[u].epoch \in Nat
<1>1. req[r] \in Requested
  BY DEF AccountsInv, AccountTypes
<1>2. req[r].pc = "bump" => req[r].op = "patch"
  BY <1>1 DEF Requested, Idle
<1> QED
  BY <1>1, <1>2, Shape DEF AccountsInv, AccountTypes, Row

\* Nothing but the request moves.
LEMMA OnlyTheRequest ==
  ASSUME AccountsInv, NEW r \in Requests, NEW q \in Requested,
         req' = [req EXCEPT ![r] = q],
         UNCHANGED <<account, secret, drawn, cookies, token, panels, history>>,
         Grounded(q)', q.op = "panel" => Accepting(q)', ~Changing(q),
         req[r].pc \notin {"bump", "close"}
  PROVE  AccountsInv'
<1>1. /\ drawn' \in Nat /\ drawn <= drawn' /\ secret' \in 0..drawn' \cup {None}
      /\ halfdone' \in BOOLEAN /\ raced' \in BOOLEAN /\ stray' \in BOOLEAN
      /\ token' \in [Tokens -> TokenRow \cup {None}]
  BY DEF AccountsInv, AccountTypes, history
<1> QED
  BY <1>1, AccountsStay DEF history

---------------------------------------------------------------------------
\* The requests that start.

LEMMA StartSetupKeeps ==
  ASSUME AccountsInv, NEW r \in Requests, StartSetup(r) PROVE AccountsInv'
<1> DEFINE q == [op |-> "setup", pc |-> "insert", user |-> First, role |-> "admin"]
<1>1. q \in Requested
  BY DEF Requested
<1>2. Grounded(q)' /\ ~Changing(q)
  BY DEF Grounded, Carries, Changing
<1> QED
  BY <1>1, <1>2, InHand, OnlyTheRequest DEF StartSetup, Start, Free

LEMMA StartCreateKeeps ==
  ASSUME AccountsInv, NEW r \in Requests, NEW u \in Users, StartCreate(r, u)
  PROVE  AccountsInv'
<1>1. PICK role \in Roles :
        Start(r, [op |-> "create", pc |-> "insert", user |-> u, role |-> role])
  BY DEF StartCreate
<1> DEFINE q == [op |-> "create", pc |-> "insert", user |-> u, role |-> role]
<1>2. q \in Requested
  BY DEF Requested
<1>3. \E v \in Users : account[v] # None
  BY DEF StartCreate, AdminActs, Accepted, CookieAccepted, TokenAccepted, Enabled,
         AccountsInv, AccountTypes, Cookie, TokenRow
<1>4. Grounded(q)' /\ ~Changing(q)
  BY <1>3 DEF Grounded, Carries, Changing, StartCreate
<1> QED
  BY <1>1, <1>2, <1>4, InHand, OnlyTheRequest DEF StartCreate, Start, Free

LEMMA SignInKeeps ==
  ASSUME AccountsInv, NEW r \in Requests, NEW u \in Users, SignIn(r, u)
  PROVE  AccountsInv'
<1> DEFINE q == [op |-> "login", pc |-> "cookie", user |-> u, epoch |-> account[u].epoch]
<1>1. account[u] # None /\ account[u].epoch \in Nat
  BY InHand DEF SignIn, Enabled
<1>2. q \in Requested
  BY <1>1 DEF Requested
<1>3. Grounded(q)' /\ ~Changing(q)
  BY <1>1 DEF Grounded, Carries, Changing, Reached, SignIn
<1> QED
  BY <1>2, <1>3, InHand, OnlyTheRequest DEF SignIn, Start, Free

LEMMA StartChangeKeeps ==
  ASSUME AccountsInv, NEW r \in Requests, NEW c \in cookies, StartChange(r, c)
  PROVE  AccountsInv'
<1> DEFINE q == [op |-> "change", pc |-> "verify", user |-> c.user]
<1>1. c.user \in Users /\ account[c.user] # None
  BY DEF AccountsInv, AccountTypes, Cookie, StartChange, CookieAccepted, Enabled
<1>2. q \in Requested
  BY <1>1 DEF Requested
<1>3. Grounded(q)' /\ ~Changing(q)
  BY <1>1 DEF Grounded, Carries, Changing, StartChange
<1> QED
  BY <1>2, <1>3, InHand, OnlyTheRequest DEF StartChange, Start, Free

LEMMA StartMintKeeps ==
  ASSUME AccountsInv, NEW r \in Requests, NEW c \in cookies, StartMint(r, c)
  PROVE  AccountsInv'
<1> DEFINE q == [op |-> "mint", pc |-> "minter", user |-> c.user]
<1>1. c.user \in Users /\ account[c.user] # None
  BY DEF AccountsInv, AccountTypes, Cookie, StartMint, CookieAccepted, Enabled
<1>2. q \in Requested
  BY <1>1 DEF Requested
<1>3. Grounded(q)' /\ ~Changing(q)
  BY <1>1 DEF Grounded, Carries, Changing, StartMint
<1> QED
  BY <1>2, <1>3, InHand, OnlyTheRequest DEF StartMint, Start, Free

LEMMA StartPanelKeeps ==
  ASSUME AccountsInv, NEW r \in Requests, NEW c \in cookies, StartPanel(r, c)
  PROVE  AccountsInv'
<1> DEFINE q == [op |-> "panel", pc |-> "accept", user |-> c.user, epoch |-> c.epoch]
<1>1. /\ c.user \in Users /\ c.epoch \in Nat /\ Enabled(c.user)
      /\ Reached(c.user, c.epoch)
  BY DEF AccountsInv, AccountTypes, Behind, Cookie, StartPanel, CookieAccepted
<1>2. q \in Requested
  BY <1>1 DEF Requested
<1>3. Grounded(q)' /\ Accepting(q)' /\ ~Changing(q)
  BY <1>1 DEF Grounded, Carries, Changing, Reached, Accepting, Enabled, StartPanel
<1> QED
  BY <1>2, <1>3, InHand, OnlyTheRequest DEF StartPanel, Start, Free

LEMMA StartResetKeeps ==
  ASSUME AccountsInv, NEW r \in Requests, NEW u \in Users, StartReset(r, u)
  PROVE  AccountsInv'
<1> DEFINE q == [op |-> "reset", pc |-> "password", user |-> u]
<1>1. q \in Requested
  BY DEF Requested
<1>2. Grounded(q)' /\ ~Changing(q)
  BY DEF Grounded, Carries, Changing, StartReset
<1> QED
  BY <1>1, <1>2, InHand, OnlyTheRequest DEF StartReset, Start, Free

LEMMA StartPatchKeeps ==
  ASSUME AccountsInv, NEW r \in Requests, NEW u \in Users, StartPatch(r, u)
  PROVE  AccountsInv'
<1>1. PICK role \in Roles \cup {None}, disabled \in BOOLEAN \cup {None} :
        Start(r, [op |-> "patch", pc |-> "read", user |-> u,
                  role |-> role, disabled |-> disabled])
  BY DEF StartPatch
<1> DEFINE q == [op |-> "patch", pc |-> "read", user |-> u, role |-> role, disabled |-> disabled]
<1>2. q \in Requested
  BY DEF Requested
<1>3. Grounded(q)' /\ ~Changing(q)
  BY DEF Grounded, Carries, Changing
<1> QED
  BY <1>1, <1>2, <1>3, InHand, OnlyTheRequest DEF StartPatch, Start, Free

---------------------------------------------------------------------------
\* The steps that read.

LEMMA VerifyKeeps ==
  ASSUME AccountsInv, NEW r \in Requests, Verify(r) PROVE AccountsInv'
<1>1. PICK u \in Users : u = req[r].user /\ account[u] # None /\ account[u].epoch \in Nat
  BY InHand DEF Verify, At, Grounded, Idle
<1>0. PICK e \in Nat : e = account[u].epoch + 1
  BY <1>1
<1>2. PICK q \in Requested : q = [op |-> "change", pc |-> "password", user |-> u, epoch |-> e]
  BY <1>1 DEF Requested
<1>3. Grounded(q)' /\ ~Changing(q)
  BY <1>0, <1>1, <1>2 DEF Grounded, Carries, Changing, Verify
<1>4. req' = [req EXCEPT ![r] = q]
  BY <1>0, <1>1, <1>2 DEF Verify
<1> QED
  BY <1>2, <1>3, <1>4, OnlyTheRequest DEF Verify, At

LEMMA ReadMinterKeeps ==
  ASSUME AccountsInv, NEW r \in Requests, ReadMinter(r) PROVE AccountsInv'
<1>1. PICK u \in Users : u = req[r].user /\ account[u] # None /\ account[u].epoch \in Nat
  BY InHand DEF ReadMinter, At, Grounded, Idle
<1>2. PICK q \in Requested :
        q = [op |-> "mint", pc |-> "count", user |-> u, epoch |-> account[u].epoch]
  BY <1>1 DEF Requested
<1>3. Grounded(q)' /\ ~Changing(q)
  BY <1>1, <1>2 DEF Grounded, Carries, Changing, Reached, ReadMinter
<1>4. req' = [req EXCEPT ![r] = q]
  BY <1>1, <1>2 DEF ReadMinter
<1> QED
  BY <1>2, <1>3, <1>4, OnlyTheRequest DEF ReadMinter, At

LEMMA CountTokensKeeps ==
  ASSUME AccountsInv, NEW r \in Requests, CountTokens(r) PROVE AccountsInv'
<1>1. CASE Answer(r)
  BY <1>1, IdleIsNothing, OnlyTheRequest DEF CountTokens, Answer, At
<1>2. CASE To(r, "token")
  <2>1. PICK q \in Requested :
          /\ q = [req[r] EXCEPT !.pc = "token"] /\ q.pc = "token" /\ q.op = "mint"
          /\ q.user = req[r].user /\ q.epoch = req[r].epoch
    <3> DEFINE n == [req[r] EXCEPT !.pc = "token"]
    <3>1. req[r] \in Requested /\ req[r].op = "mint" /\ req[r].pc = "count"
      BY InHand DEF CountTokens, At
    <3>2. n \in Requested /\ n.pc = "token" /\ n.op = "mint" /\ n.user = req[r].user
          /\ n.epoch = req[r].epoch
      BY <3>1, Onward
    <3> QED
      BY <3>2
  <2>2. Grounded(q)' /\ ~Changing(q)
    BY <2>1, InHand DEF Grounded, Carries, Changing, Reached, CountTokens, At
  <2>3. req' = [req EXCEPT ![r] = q]
    BY <1>2, <2>1 DEF To
  <2> QED
    BY <2>1, <2>2, <2>3, OnlyTheRequest DEF CountTokens, At
<1> QED
  BY <1>1, <1>2 DEF CountTokens

LEMMA ReadTargetKeeps ==
  ASSUME AccountsInv, NEW r \in Requests, ReadTarget(r) PROVE AccountsInv'
<1>1. /\ drawn' \in Nat /\ drawn <= drawn' /\ secret' \in 0..drawn' \cup {None}
      /\ halfdone' \in BOOLEAN /\ raced' \in BOOLEAN /\ stray' \in BOOLEAN
      /\ token' \in [Tokens -> TokenRow \cup {None}]
      /\ raced => raced'
  BY DEF AccountsInv, AccountTypes, ReadTarget
<1>0. /\ UNCHANGED <<account, secret, drawn, cookies, token, panels, started, struck,
                     halfdone, stray>>
      /\ req[r].op = "patch" /\ req[r].pc = "read"
  BY DEF ReadTarget, At
<1>2. CASE account[req[r].user] = None
  <2>1. req' = [req EXCEPT ![r] = Idle]
    BY <1>2 DEF ReadTarget, Answer
  <2> QED
    BY <1>0, <1>1, <2>1, IdleIsNothing, AccountsStay
<1>3. CASE account[req[r].user] # None
  <2>1. PICK p \in Requested : /\ p = req[r] /\ p.op = "patch" /\ p.pc = "read"
                               /\ p.user \in Users /\ account[p.user] \in Row
    BY <1>3, InHand DEF ReadTarget, At, Idle
  <2>2. PICK q \in Requested :
          q = [op |-> "patch", pc |-> "guard", user |-> p.user, role |-> p.role,
               disabled |-> p.disabled, seen |-> account[p.user]]
    BY <2>1, Patches DEF Requested
  <2>3. Grounded(q)'
    BY <1>3, <2>1, <2>2 DEF Grounded, Carries, ReadTarget
  <2>4. raced' \/ \A s \in Requests : ~Changing(req[s])
    BY DEF ReadTarget, Changing, At
  <2>5. req' = [req EXCEPT ![r] = q]
    BY <1>3, <2>1, <2>2 DEF ReadTarget
  <2> QED
    BY <1>0, <1>1, <2>1, <2>2, <2>3, <2>4, <2>5, AccountsStay
<1> QED
  BY <1>2, <1>3

LEMMA GuardLastAdminKeeps ==
  ASSUME AccountsInv, NEW r \in Requests, GuardLastAdmin(r) PROVE AccountsInv'
<1>1. /\ drawn' \in Nat /\ drawn <= drawn' /\ secret' \in 0..drawn' \cup {None}
      /\ halfdone' \in BOOLEAN /\ raced' \in BOOLEAN /\ stray' \in BOOLEAN
      /\ token' \in [Tokens -> TokenRow \cup {None}]
  BY DEF AccountsInv, AccountTypes, GuardLastAdmin, history
<1>2. CASE Answer(r)
  BY <1>2, IdleIsNothing, OnlyTheRequest DEF GuardLastAdmin, Answer, At
<1>3. CASE To(r, "write") /\ ~(Reducing(req[r]) /\ ActiveAdmins(req[r].user) = {})
  <2>1. PICK p \in Requested :
          p = req[r] /\ p.op = "patch" /\ p.pc = "guard" /\ Grounded(p)
    BY InHand DEF GuardLastAdmin, At
  <2>2. PICK q \in Requested :
          /\ q = [p EXCEPT !.pc = "write"] /\ q.pc = "write" /\ q.op = "patch"
          /\ q.user = p.user /\ q.role = p.role /\ q.disabled = p.disabled /\ q.seen = p.seen
    <3> DEFINE n == [p EXCEPT !.pc = "write"]
    <3>1. /\ n \in Requested /\ n.pc = "write" /\ n.op = "patch"
          /\ n.user = p.user /\ n.role = p.role /\ n.disabled = p.disabled /\ n.seen = p.seen
      BY <2>1, Onward
    <3> QED
      BY <3>1
  <2>3. Grounded(q)'
    BY <2>1, <2>2 DEF Grounded, Carries, GuardLastAdmin
  <2>4. Changing(p) /\ (Stands(p) => Stands(q))
    BY <1>3, <2>1, <2>2 DEF Changing, Stands, Reducing, Demoting, Disabling
  <2>5. req' = [req EXCEPT ![r] = q]
    BY <1>3, <2>1, <2>2 DEF To
  <2> QED
    BY <1>1, <2>1, <2>2, <2>3, <2>4, <2>5, AccountsStay DEF GuardLastAdmin, history
<1> QED
  BY <1>2, <1>3 DEF GuardLastAdmin, Reducing

---------------------------------------------------------------------------
\* The steps that issue credentials.

LEMMA RotateSecretKeeps ==
  ASSUME AccountsInv, NEW r \in Requests, RotateSecret(r) PROVE AccountsInv'
<1>1. /\ drawn' \in Nat /\ drawn <= drawn' /\ secret' \in 0..drawn' \cup {None}
      /\ halfdone' \in BOOLEAN /\ raced' \in BOOLEAN /\ stray' \in BOOLEAN
      /\ token' \in [Tokens -> TokenRow \cup {None}]
  BY DEF AccountsInv, AccountTypes, RotateSecret, history
<1> QED
  BY <1>1, IdleIsNothing, AccountsStay DEF RotateSecret, Answer, At, history

LEMMA IssueCookieKeeps ==
  ASSUME AccountsInv, NEW r \in Requests, IssueCookie(r) PROVE AccountsInv'
<1> DEFINE c == [user |-> req[r].user, epoch |-> req[r].epoch, key |-> secret]
<1>1. /\ drawn' \in Nat /\ drawn <= drawn' /\ secret' \in 0..drawn' \cup {None}
      /\ halfdone' \in BOOLEAN /\ raced' \in BOOLEAN /\ stray' \in BOOLEAN
      /\ token' \in [Tokens -> TokenRow \cup {None}]
      /\ secret \in Nat /\ secret <= drawn
  BY DEF AccountsInv, AccountTypes, IssueCookie, history
<1>2. req[r].user \in Users /\ req[r].epoch \in Nat /\ Reached(req[r].user, req[r].epoch)
  BY InHand, Shape DEF IssueCookie, At, Grounded, Carries, Idle
<1>3. c \in Cookie /\ Reached(c.user, c.epoch) /\ c.key <= drawn
  BY <1>1, <1>2 DEF Cookie
<1> QED
  BY <1>1, <1>3, IdleIsNothing, AccountsStay DEF IssueCookie, Answer, At, history

LEMMA DrawSecretKeeps ==
  ASSUME AccountsInv, NEW r \in Requests, DrawSecret(r) PROVE AccountsInv'
<1>1. /\ drawn' \in Nat /\ drawn <= drawn' /\ secret' \in 0..drawn' \cup {None}
      /\ halfdone' \in BOOLEAN /\ raced' \in BOOLEAN /\ stray' \in BOOLEAN
      /\ token' \in [Tokens -> TokenRow \cup {None}]
      /\ drawn' = drawn + 1 /\ drawn \in Nat
  BY DEF AccountsInv, AccountTypes, DrawSecret, history
<1>2. PICK p \in Requested : /\ p = req[r] /\ p.user \in Users /\ p.epoch \in Nat
                             /\ Reached(p.user, p.epoch) /\ p.pc = "cookie"
  BY InHand, Shape DEF DrawSecret, At, Grounded, Carries, Idle
<1>3. PICK q \in Requested : q = [op |-> "login", pc |-> "keep", user |-> p.user,
                                 epoch |-> p.epoch, key |-> drawn + 1]
  BY <1>1, <1>2 DEF Requested
<1>4. Grounded(q)' /\ ~Changing(q)
  BY <1>1, <1>2, <1>3 DEF Grounded, Carries, Changing, Reached, DrawSecret
<1>5. req' = [req EXCEPT ![r] = q]
  BY <1>2, <1>3 DEF DrawSecret
<1> QED
  BY <1>1, <1>2, <1>3, <1>4, <1>5, AccountsStay DEF DrawSecret, history

LEMMA KeepSecretKeeps ==
  ASSUME AccountsInv, NEW r \in Requests, KeepSecret(r) PROVE AccountsInv'
<1> DEFINE c == [user |-> req[r].user, epoch |-> req[r].epoch, key |-> req[r].key]
<1>1. req[r].key \in Nat /\ req[r].key <= drawn
  BY InHand, Keeps DEF KeepSecret, At, Grounded
<1>2. /\ drawn' \in Nat /\ drawn <= drawn' /\ secret' \in 0..drawn' \cup {None}
      /\ halfdone' \in BOOLEAN /\ raced' \in BOOLEAN /\ stray' \in BOOLEAN
      /\ token' \in [Tokens -> TokenRow \cup {None}]
  BY <1>1 DEF AccountsInv, AccountTypes, KeepSecret, history
<1>3. req[r].user \in Users /\ req[r].epoch \in Nat /\ Reached(req[r].user, req[r].epoch)
  BY InHand, Shape DEF KeepSecret, At, Grounded, Carries, Idle
<1>4. c \in Cookie /\ Reached(c.user, c.epoch) /\ c.key <= drawn
  BY <1>1, <1>3 DEF Cookie
<1> QED
  BY <1>2, <1>4, IdleIsNothing, AccountsStay DEF KeepSecret, Answer, At, history

LEMMA InsertTokenKeeps ==
  ASSUME AccountsInv, NEW r \in Requests, InsertToken(r) PROVE AccountsInv'
<1> DEFINE row == [user |-> req[r].user, epoch |-> req[r].epoch, active |-> TRUE]
<1>1. req[r].user \in Users /\ req[r].epoch \in Nat /\ Reached(req[r].user, req[r].epoch)
  BY InHand, Shape DEF InsertToken, At, Grounded, Carries, Idle
<1>2. row \in TokenRow /\ Reached(row.user, row.epoch)
  BY <1>1 DEF TokenRow
<1>3. PICK t \in Tokens : token[t] = None /\ token' = [token EXCEPT ![t] = row]
  BY DEF InsertToken
<1>4. /\ token' \in [Tokens -> TokenRow \cup {None}]
      /\ token'[t] = row /\ \A s \in Tokens : s # t => token'[s] = token[s]
  BY <1>2, <1>3 DEF AccountsInv, AccountTypes
<1>5. /\ drawn' \in Nat /\ drawn <= drawn' /\ secret' \in 0..drawn' \cup {None}
      /\ halfdone' \in BOOLEAN /\ raced' \in BOOLEAN /\ stray' \in BOOLEAN
  BY DEF AccountsInv, AccountTypes, InsertToken, history
<1>6. \A s \in Tokens : \/ token'[s] = token[s]
                        \/ /\ token[s] = None /\ token'[s] \in TokenRow
                           /\ Reached(token'[s].user, token'[s].epoch)
  BY <1>2, <1>3, <1>4
<1> QED
  BY <1>4, <1>5, <1>6, IdleIsNothing, AccountsStay DEF InsertToken, Answer, At, history

LEMMA AcceptPanelKeeps ==
  ASSUME AccountsInv, NEW r \in Requests, AcceptPanel(r) PROVE AccountsInv'
<1>1. PICK p \in [user : Users, epoch : Nat] :
        /\ p = [user |-> req[r].user, epoch |-> req[r].epoch]
        /\ Reached(p.user, p.epoch)
        /\ p.epoch = account[p.user].epoch =>
             Enabled(p.user) \/ halfdone \/ raced \/ Bumping(p.user)
  <2>1. /\ req[r].user \in Users /\ req[r].epoch \in Nat
        /\ Reached(req[r].user, req[r].epoch)
        /\ req[r].epoch = account[req[r].user].epoch =>
             Enabled(req[r].user) \/ halfdone \/ raced \/ Bumping(req[r].user)
    BY InHand, Shape DEF AcceptPanel, At, Grounded, Carries, Idle, Accepting
  <2>2. PICK u \in Users, e \in Nat : u = req[r].user /\ e = req[r].epoch
    BY <2>1
  <2> DEFINE n == [user |-> u, epoch |-> e]
  <2>3. n \in [user : Users, epoch : Nat] /\ n.user = u /\ n.epoch = e
    OBVIOUS
  <2> HIDE DEF n
  <2>4. /\ Reached(n.user, n.epoch)
        /\ n.epoch = account[n.user].epoch =>
             Enabled(n.user) \/ halfdone \/ raced \/ Bumping(n.user)
    BY <2>1, <2>2, <2>3
  <2> QED
    BY <2>2, <2>3, <2>4 DEF n
<1>2. /\ UNCHANGED <<account, secret, drawn, cookies, token, started, struck, halfdone, raced>>
      /\ panels' = panels \cup {p} /\ req[r].pc = "accept"
      /\ req' = [req EXCEPT ![r] = Idle]
  BY <1>1 DEF AcceptPanel, At, Answer
<1>3. /\ stray' \in BOOLEAN /\ (stray => stray')
      /\ p.epoch # account[p.user].epoch => stray'
  BY <1>1 DEF AcceptPanel
<1>4. /\ drawn' \in Nat /\ drawn <= drawn' /\ secret' \in 0..drawn' \cup {None}
      /\ halfdone' \in BOOLEAN /\ raced' \in BOOLEAN
      /\ token' \in [Tokens -> TokenRow \cup {None}]
  BY <1>2 DEF AccountsInv, AccountTypes
<1> QED
  BY <1>1, <1>2, <1>3, <1>4, IdleIsNothing, AccountsStay

---------------------------------------------------------------------------
\* The closing, and what the environment does.

LEMMA ClosePanelsKeeps ==
  ASSUME AccountsInv, NEW r \in Requests, ClosePanels(r) PROVE AccountsInv'
<1>1. /\ UNCHANGED <<account, secret, drawn, cookies, token, started, struck, halfdone, raced>>
      /\ req[r].pc = "close" /\ panels' \subseteq panels
      /\ stray' \in BOOLEAN /\ (stray => stray')
      /\ stray' \/ \A p \in panels' : p.user # req[r].user
  <2>1. CASE panels' = panels \ Closed(req[r].user) /\ UNCHANGED stray
    BY <2>1 DEF ClosePanels, At, Closed, AccountsInv, AccountTypes
  <2>2. CASE UNCHANGED panels /\ stray' = TRUE
    BY <2>2 DEF ClosePanels, At
  <2> QED
    BY <2>1, <2>2 DEF ClosePanels
<1>2. /\ drawn' \in Nat /\ drawn <= drawn' /\ secret' \in 0..drawn' \cup {None}
      /\ halfdone' \in BOOLEAN /\ raced' \in BOOLEAN
      /\ token' \in [Tokens -> TokenRow \cup {None}]
  BY <1>1 DEF AccountsInv, AccountTypes
<1>3. CASE Answer(r)
  <2>1. req' = [req EXCEPT ![r] = Idle]
    BY <1>3 DEF Answer
  <2> QED
    BY <1>1, <1>2, <2>1, IdleIsNothing, AccountsStay
<1>4. CASE To(r, "cookie") /\ req[r].op = "change"
  <2>1. PICK q \in Requested :
          /\ q = [req[r] EXCEPT !.pc = "cookie"] /\ q.pc = "cookie" /\ q.op = "change"
          /\ q.user = req[r].user /\ q.epoch = req[r].epoch
    <3> DEFINE n == [req[r] EXCEPT !.pc = "cookie"]
    <3>1. /\ n \in Requested /\ n.pc = "cookie" /\ n.op = "change"
          /\ n.user = req[r].user /\ n.epoch = req[r].epoch
      BY <1>1, <1>4, InHand, Onward
    <3> QED
      BY <3>1
  <2>2. Grounded(q)' /\ ~Changing(q)
    BY <1>1, <1>4, <2>1, InHand DEF Grounded, Carries, Changing, Reached
  <2>3. req' = [req EXCEPT ![r] = q]
    BY <1>4, <2>1 DEF To
  <2> QED
    BY <1>1, <1>2, <2>1, <2>2, <2>3, AccountsStay
<1> QED
  BY <1>3, <1>4 DEF ClosePanels

LEMMA DieKeeps ==
  ASSUME AccountsInv, NEW r \in Requests, Die(r) PROVE AccountsInv'
<1>1. /\ UNCHANGED <<account, secret, drawn, cookies, token, panels, started, struck, raced>>
      /\ req' = [req EXCEPT ![r] = Idle]
      /\ halfdone' \in BOOLEAN /\ stray' \in BOOLEAN
      /\ halfdone => halfdone'
      /\ stray => stray'
      /\ req[r].pc = "bump" => halfdone'
      /\ req[r].pc = "close" => stray'
  BY DEF Die, Answer, AccountsInv, AccountTypes
<1>2. /\ drawn' \in Nat /\ drawn <= drawn' /\ secret' \in 0..drawn' \cup {None}
      /\ raced' \in BOOLEAN /\ token' \in [Tokens -> TokenRow \cup {None}]
  BY <1>1 DEF AccountsInv, AccountTypes
<1> QED
  BY <1>1, <1>2, InHand, IdleIsNothing, AccountsStay

LEMMA CookieAgesKeeps ==
  ASSUME AccountsInv, NEW c \in cookies, CookieAges(c) PROVE AccountsInv'
<1>1. token' \in [Tokens -> TokenRow \cup {None}]
  BY DEF CookieAges, AccountsInv, AccountTypes
<1> QED
  BY <1>1, LessRemains DEF CookieAges, history

LEMMA PanelGoneKeeps ==
  ASSUME AccountsInv, NEW p \in panels, PanelGone(p) PROVE AccountsInv'
<1>1. token' \in [Tokens -> TokenRow \cup {None}]
  BY DEF PanelGone, AccountsInv, AccountTypes
<1> QED
  BY <1>1, LessRemains DEF PanelGone, history

\* A token that is no longer active, by its age or by its owner.
LEMMA Inactive ==
  ASSUME AccountsInv, NEW t \in Tokens, token[t] # None,
         token' = [token EXCEPT ![t].active = FALSE]
  PROVE  /\ token' \in [Tokens -> TokenRow \cup {None}]
         /\ token'[t] = [token[t] EXCEPT !.active = FALSE]
         /\ \A s \in Tokens : s # t => token'[s] = token[s]
         /\ token'[t] # None /\ ~token'[t].active
<1>1. token \in [Tokens -> TokenRow \cup {None}] /\ token[t] \in TokenRow
  BY DEF AccountsInv, AccountTypes
<1>2. PICK row \in TokenRow : row = [token[t] EXCEPT !.active = FALSE] /\ ~row.active
  BY <1>1 DEF TokenRow
<1>3. token' = [token EXCEPT ![t] = row]
  BY <1>1, <1>2
<1> QED
  BY <1>1, <1>2, <1>3, NoneIsOther

LEMMA TokenAgesKeeps ==
  ASSUME AccountsInv, NEW t \in Tokens, TokenAges(t) PROVE AccountsInv'
<1>1. /\ token[t] # None /\ token' = [token EXCEPT ![t].active = FALSE]
      /\ UNCHANGED <<account, secret, drawn, cookies, panels, req, struck, halfdone, raced, stray>>
  BY DEF TokenAges, history
<1> QED
  BY <1>1, Inactive, LessRemains

LEMMA RevokeTokenKeeps ==
  ASSUME AccountsInv, NEW c \in cookies, NEW t \in Tokens, RevokeToken(c, t)
  PROVE  AccountsInv'
<1>1. /\ token[t] # None /\ token' = [token EXCEPT ![t].active = FALSE]
      /\ UNCHANGED <<account, secret, drawn, cookies, panels, req, halfdone, raced, stray>>
      /\ struck' = struck \cup {t}
  BY DEF RevokeToken
<1>2. \A d \in struck' : d \in struck \/ (d \in Tokens /\ token'[d] # None /\ ~token'[d].active)
  BY <1>1, Inactive
<1> QED
  BY <1>1, <1>2, Inactive, LessRemains

---------------------------------------------------------------------------
\* Steps that write one account.

\* Request r, which is about account u, writes row there and becomes q.
Writes(r, q, u, row) ==
  /\ account' = [account EXCEPT ![u] = row]
  /\ account[u] # None => account[u].epoch <= row.epoch
  /\ req' = [req EXCEPT ![r] = q]
  /\ req[r].user = u /\ req[r].op # "panel" /\ req[r].pc # "close"
  /\ q = Idle \/ (q.user = u /\ q.op # "panel" /\ ~Changing(q))
  /\ UNCHANGED <<secret, drawn, cookies, token, panels, halfdone, raced, stray>>

\* What may be written: a first row; a later epoch, with the closing to come; a
\* change that will bump; or one that disables nobody, unless two overlapped.
Creates(u) == account[u] = None /\ struck' = struck
Renews(r, q, u, row) ==
  /\ account[u] # None /\ account[u].epoch < row.epoch
  /\ row.role = account[u].role /\ row.disabled = account[u].disabled
  /\ q # Idle /\ q.pc = "close"
WillBump(r, q, u, row) ==
  /\ account[u] # None /\ row.epoch = account[u].epoch
  /\ Changing(req[r]) /\ q.op = "patch" /\ q.pc = "bump" /\ q # Idle
Spares(r, u, row) ==
  /\ account[u] # None /\ row.epoch = account[u].epoch
  /\ Changing(req[r]) /\ struck' = struck
  /\ raced \/ (row.disabled => account[u].disabled)

LEMMA OneAccount ==
  ASSUME AccountsInv, NEW u \in Users, NEW row \in Row,
         account' = [account EXCEPT ![u] = row]
  PROVE  /\ account' \in [Users -> Row \cup {None}]
         /\ account'[u] = row /\ account'[u] # None
         /\ \A v \in Users : v # u => account'[v] = account[v]
         /\ \A v \in Users : account[v] # None => account'[v] # None
PROOF BY NoneIsOther DEF AccountsInv, AccountTypes

LEMMA WritesKeeps ==
  ASSUME AccountsInv, NEW r \in Requests, NEW q \in Requested, NEW u \in Users, NEW row \in Row,
         Writes(r, q, u, row), struck' \subseteq struck \cup CredentialsOf(u),
         Grounded(q)', AnAdminRemains',
         \/ Creates(u)
         \/ Renews(r, q, u, row)
         \/ WillBump(r, q, u, row)
         \/ Spares(r, u, row)
  PROVE  AccountsInv'
<1> USE NoneIsOther DEF AccountsInv
<1>1. /\ req' \in [Requests -> Requested] /\ req'[r] = q
      /\ \A s \in Requests : s # r => req'[s] = req[s]
  BY OneRequest DEF Writes
<1>2. /\ account' \in [Users -> Row \cup {None}]
      /\ account'[u] = row /\ account'[u] # None
      /\ \A v \in Users : v # u => account'[v] = account[v]
      /\ \A v \in Users : account[v] # None => account'[v] # None
  BY OneAccount DEF Writes
<1>3. /\ row.epoch \in Nat /\ row.disabled \in BOOLEAN
      /\ \A v \in Users : account[v] # None => account[v].epoch \in Nat
  BY DEF AccountTypes, Row
<1>4. \A v \in Users : /\ account[v] # None => account[v].epoch <= account'[v].epoch
                       /\ account'[v].epoch \in Nat \/ account'[v] = None
  BY <1>2, <1>3 DEF Writes
<1>5. \A v \in Users, e \in Nat : Reached(v, e) => Reached(v, e)'
  BY <1>2, <1>3, <1>4 DEF Reached
<1>6. /\ UNCHANGED <<secret, drawn, cookies, token, panels, halfdone, raced, stray>>
      /\ CredentialsOf(u) \subseteq Tokens \cup Cookie
  BY DEF Writes, CredentialsOf, AccountTypes
<1>7. AccountTypes'
  BY <1>1, <1>2, <1>6 DEF AccountTypes
<1>8. Behind'
  BY <1>5, <1>6 DEF AccountTypes, Behind, Cookie, TokenRow
<1>9. ASSUME NEW s \in Requests PROVE Grounded(req[s])'
  <2>1. CASE s = r
    BY <1>1, <2>1
  <2>2. CASE s # r
    <3>1. /\ req'[s] = req[s] /\ Grounded(req[s]) /\ req[s] \in Requested
          /\ req[s] # Idle => req[s].user \in Users
      BY <1>1, <2>2, Shape DEF AccountTypes
    <3>2. /\ Carries(req[s]) => req[s].epoch \in Nat
          /\ req[s].op = "change" /\ req[s].pc = "password" => req[s].epoch \in Nat
      BY <3>1, Shape DEF Carries, Requested, Idle
    <3>3. CASE req[s] = Idle
      BY <3>1, <3>3 DEF Grounded, Carries, Idle
    <3>4. CASE req[s] # Idle
      BY <1>2, <1>3, <1>4, <1>5, <1>6, <3>1, <3>2, <3>4 DEF Grounded, Carries
    <3> QED
      BY <3>3, <3>4
  <2> QED
    BY <2>1, <2>2
<1>10. ASSUME NEW v \in Users
       PROVE  /\ v # u /\ Bumping(v) => Bumping(v)'
              /\ v = u /\ WillBump(r, q, u, row) => Bumping(v)'
              /\ v = u /\ Spares(r, u, row) /\ Bumping(v) => Bumping(v)'
  BY <1>1 DEF Bumping, At, Writes, WillBump, Spares, Changing
<1>11. /\ Renews(r, q, u, row) => account[u].epoch < row.epoch
       /\ WillBump(r, q, u, row) \/ Spares(r, u, row) => row.epoch = account[u].epoch
  BY DEF Renews, WillBump, Spares
<1>12. ASSUME NEW s \in Requests PROVE Accepting(req[s])'
  <2>1. CASE ~(req'[s].op = "panel" /\ ~halfdone /\ ~raced)
    BY <1>6, <2>1 DEF Accepting
  <2>2. CASE req'[s].op = "panel" /\ ~halfdone /\ ~raced
    <3>1. s # r /\ req'[s] = req[s] /\ req[s].op = "panel"
      BY <1>1, <2>2 DEF Writes, Idle
    <3>2. PICK v \in Users, e \in Nat : /\ v = req[s].user /\ e = req[s].epoch /\ Reached(v, e)
                                        /\ e = account[v].epoch => Enabled(v) \/ Bumping(v)
      BY <2>2, <3>1, Shape DEF AccountTypes, Grounded, Carries, Accepting, Idle
    <3>3. ASSUME e = account'[v].epoch
          PROVE  (account'[v] # None /\ ~account'[v].disabled) \/ Bumping(v)'
      <4>1. CASE v # u
        BY <1>2, <1>10, <3>2, <3>3, <4>1 DEF Enabled
      <4>2. CASE v = u
        <5>1. account[u] # None /\ e <= account[u].epoch /\ row.epoch = e
          BY <1>2, <3>2, <3>3, <4>2 DEF Reached
        <5>2. ~Creates(u) /\ ~Renews(r, q, u, row)
          BY <1>3, <1>11, <5>1 DEF Creates
        <5>3. CASE WillBump(r, q, u, row)
          BY <1>10, <4>2, <5>3
        <5>4. CASE Spares(r, u, row)
          BY <1>2, <1>10, <2>2, <3>2, <4>2, <5>1, <5>4 DEF Spares, Enabled
        <5> QED
          BY <5>2, <5>3, <5>4
      <4> QED
        BY <4>1, <4>2
    <3> QED
      BY <3>1, <3>2, <3>3 DEF Accepting, Enabled, Bumping
  <2> QED
    BY <2>1, <2>2
<1>13. Undisturbed'
  <2> SUFFICES ASSUME ~raced
               PROVE  /\ \A s, t \in Requests : Changing(req[s])' /\ Changing(req[t])' => s = t
                      /\ \A s \in Requests : Changing(req[s])' => Stands(req[s])'
    BY <1>6 DEF Undisturbed, Changing, Stands, Reducing, Demoting, Disabling
  <2>1. /\ \A s, t \in Requests : Changing(req[s]) /\ Changing(req[t]) => s = t
        /\ \A s \in Requests : Changing(req[s]) => Stands(req[s]) /\ account[req[s].user] # None
    BY DEF Undisturbed, Grounded, Changing
  <2>2. \A s \in Requests : Changing(req[s])' => s # r /\ Changing(req[s])
    BY <1>1 DEF Changing, Writes, Idle
  <2>3. ASSUME NEW s \in Requests, Changing(req[s])' PROVE Stands(req[s])'
    <3>1. s # r /\ req'[s] = req[s] /\ Changing(req[s]) /\ Stands(req[s])
      BY <1>1, <2>1, <2>2, <2>3
    <3>2. ~WillBump(r, q, u, row) /\ ~Spares(r, u, row)
      BY <2>1, <3>1 DEF WillBump, Spares
    <3>3. PICK v \in Users : v = req[s].user
      BY <3>1, Shape DEF AccountTypes, Changing, Idle
    <3>4. /\ account[v] # None
          /\ account'[v].role = account[v].role /\ account'[v].disabled = account[v].disabled
      BY <1>2, <2>1, <3>1, <3>2, <3>3 DEF Creates, Renews
    <3>5. ActiveAdmins(v) \subseteq ActiveAdmins(v)'
      BY <1>2, <3>2 DEF Creates, Renews, ActiveAdmins, Enabled
    <3> QED
      BY <3>1, <3>3, <3>4, <3>5 DEF Stands, Reducing, Demoting, Disabling
  <2> QED
    BY <2>1, <2>2, <2>3
\* A credential of the account that is written is behind it, if it counts.
<1>14. ASSUME NEW v \in Users, v = u, NEW e \in Nat, Reached(v, e), ~halfdone,
              e < account[v].epoch \/ Bumping(v) \/ (~Creates(u) /\ ~Spares(r, u, row))
       PROVE  e < account'[v].epoch \/ Bumping(v)'
  <2>1. account[u] # None /\ e <= account[u].epoch /\ account'[v] = row
    BY <1>2, <1>14 DEF Reached
  <2>2. CASE Renews(r, q, u, row)
    BY <1>3, <1>11, <2>1, <2>2
  <2>3. CASE WillBump(r, q, u, row)
    BY <1>10, <1>14, <2>3
  <2>4. CASE Spares(r, u, row)
    BY <1>10, <1>11, <1>14, <2>1, <2>4
  <2> QED
    BY <2>1, <2>2, <2>3, <2>4 DEF Creates
<1>15. ASSUME NEW c \in struck' PROVE Struck(c)'
  <2>1. c \in Tokens \cup Cookie /\ (Creates(u) \/ Spares(r, u, row) => c \in struck)
    BY <1>6 DEF AccountTypes, Creates, Spares
  <2>2. c \in struck \/ c \in CredentialsOf(u)
    OBVIOUS
  <2>3. CASE c \in Tokens
    <3>1. token[c] # None
      BY <2>2, <2>3, TokensAreOther DEF Struck, CredentialsOf, AccountTypes
    <3>2. PICK v \in Users, e \in Nat : v = token[c].user /\ e = token[c].epoch /\ Reached(v, e)
      BY <2>3, <3>1 DEF AccountTypes, Behind, TokenRow
    <3>3. c \in struck =>
            (token[c].active => e < account[v].epoch \/ halfdone \/ Bumping(v))
      BY <2>3, <3>2 DEF Struck
    <3>4. token[c].active => e < account'[v].epoch \/ halfdone \/ Bumping(v)'
      <4>1. CASE v = u
        BY <1>14, <2>1, <3>2, <3>3, <4>1
      <4>2. CASE v # u
        BY <1>2, <1>10, <2>2, <2>3, <3>2, <3>3, <4>2, TokensAreOther DEF CredentialsOf, AccountTypes
      <4> QED
        BY <4>1, <4>2
    <3> QED
      BY <1>6, <2>3, <3>1, <3>2, <3>4 DEF Struck
  <2>4. CASE c \notin Tokens
    <3>1. PICK v \in Users, e \in Nat : v = c.user /\ e = c.epoch /\ Reached(v, e)
      BY <2>1, <2>2, <2>4 DEF AccountTypes, Behind, Cookie, CredentialsOf, Struck
    <3>2. c \in struck => e < account[v].epoch \/ halfdone \/ Bumping(v)
      BY <2>4, <3>1 DEF Struck
    <3>3. e < account'[v].epoch \/ halfdone \/ Bumping(v)'
      <4>1. CASE v = u
        BY <1>14, <2>1, <3>1, <3>2, <4>1
      <4>2. CASE v # u
        BY <1>2, <1>10, <2>2, <2>4, <3>1, <3>2, <4>2 DEF CredentialsOf
      <4> QED
        BY <4>1, <4>2
    <3> QED
      BY <1>5, <1>6, <2>4, <3>1, <3>3 DEF Struck
  <2> QED
    BY <2>3, <2>4
<1>16. PanelsAreCurrent'
  <2> SUFFICES ASSUME NEW p \in panels, ~stray, ~halfdone, ~raced,
                      ~(p.epoch = account'[p.user].epoch /\ Enabled(p.user)')
               PROVE  \E s \in Requests : req'[s].pc \in {"bump", "close"} /\ req'[s].user = p.user
    BY <1>6 DEF PanelsAreCurrent
  <2>1. PICK v \in Users, e \in Nat : v = p.user /\ e = p.epoch /\ Reached(v, e)
    BY DEF AccountTypes, Behind
  <2>2. \/ e = account[v].epoch /\ Enabled(v)
        \/ \E s \in Requests : req[s].pc \in {"bump", "close"} /\ req[s].user = v
    BY <2>1 DEF PanelsAreCurrent
  <2>3. CASE v = u /\ (Renews(r, q, u, row) \/ WillBump(r, q, u, row))
    <3>1. q.user = u /\ q.pc \in {"bump", "close"}
      BY <2>3 DEF Renews, WillBump, Writes
    <3> QED
      BY <1>1, <2>1, <2>3, <3>1
  <2>4. CASE v # u \/ Spares(r, u, row)
    <3>1. CASE \E s \in Requests : req[s].pc \in {"bump", "close"} /\ req[s].user = v
      <4>1. PICK s \in Requests : req[s].pc \in {"bump", "close"} /\ req[s].user = v
        BY <3>1
      <4>2. s # r
        BY <2>4, <4>1 DEF Writes, Spares, Changing
      <4> QED
        BY <1>1, <2>1, <4>1, <4>2
    <3>2. CASE e = account[v].epoch /\ Enabled(v)
      BY <1>2, <2>1, <2>4, <3>2 DEF Spares, Enabled
    <3> QED
      BY <2>2, <3>1, <3>2
  <2>5. CASE v = u /\ Creates(u)
    BY <2>1, <2>5 DEF Creates, Reached
  <2> QED
    BY <2>3, <2>4, <2>5
<1> QED
  BY <1>7, <1>8, <1>9, <1>12, <1>13, <1>15, <1>16

LEMMA InsertUserKeeps ==
  ASSUME AccountsInv, NEW r \in Requests, InsertUser(r) PROVE AccountsInv'
<1>1. PICK p \in Requested : /\ p = req[r] /\ p.pc = "insert" /\ p.op \in {"setup", "create"}
                             /\ p.user \in Users /\ p.role \in Roles
                             /\ p.op = "setup" => p.role = "admin"
                             /\ p.op = "create" => \E v \in Users : account[v] # None
  BY InHand, Shape DEF InsertUser, At, Idle, Roles, Grounded
<1>2. CASE account[p.user] # None
  <2>1. /\ req' = [req EXCEPT ![r] = Idle]
        /\ UNCHANGED <<account, secret, drawn, cookies, token, panels, history>>
    BY <1>1, <1>2 DEF InsertUser, Answer
  <2> QED
    BY <1>1, <2>1, IdleIsNothing, OnlyTheRequest
<1>3. CASE account[p.user] = None
  <2>1. PICK u \in Users, row \in Row : /\ u = p.user /\ row = NewRow(p.role)
                                        /\ row.role = p.role /\ ~row.disabled
    <3>1. NewRow(p.role) \in Row /\ NewRow(p.role).role = p.role /\ ~NewRow(p.role).disabled
      BY <1>1 DEF NewRow, Row
    <3> QED
      BY <1>1, <3>1
  <2>2. account' = [account EXCEPT ![u] = row]
    BY <1>1, <1>3, <2>1 DEF InsertUser
  <2>3. AnAdminRemains'
    <3>1. /\ account'[u] = row /\ account'[u] # None
          /\ \A v \in Users : v # u => account'[v] = account[v]
      BY <2>2, OneAccount
    <3>2. UNCHANGED raced
      BY DEF InsertUser, history
    <3>3. CASE p.op = "setup"
      BY <1>1, <2>1, <3>1, <3>3 DEF AnAdminRemains, Enabled
    <3>4. CASE p.op = "create"
      BY <1>1, <1>3, <2>1, <3>1, <3>2, <3>4 DEF AccountsInv, AnAdminRemains, Enabled
    <3> QED
      BY <1>1, <3>3, <3>4
  <2>4. PICK q \in Requested : /\ req' = [req EXCEPT ![r] = q] /\ Grounded(q)'
                               /\ q = Idle \/ (q.user = u /\ q.op # "panel" /\ ~Changing(q))
    <3>1. CASE p.op = "setup"
      <4>1. PICK q \in Requested : /\ q = [p EXCEPT !.pc = "rotate"] /\ q.pc = "rotate"
                                   /\ q.op = "setup" /\ q.user = u
        <5> DEFINE n == [p EXCEPT !.pc = "rotate"]
        <5>1. n \in Requested /\ n.pc = "rotate" /\ n.op = "setup" /\ n.user = p.user
          BY <3>1, Onward
        <5> QED
          BY <2>1, <5>1
      <4>2. req' = [req EXCEPT ![r] = q]
        BY <1>1, <1>3, <3>1, <4>1 DEF InsertUser, To
      <4>3. Grounded(q)' /\ ~Changing(q)
        BY <4>1 DEF Grounded, Carries, Changing
      <4> QED
        BY <4>1, <4>2, <4>3
    <3>2. CASE p.op = "create"
      <4>1. req' = [req EXCEPT ![r] = Idle]
        BY <1>1, <1>3, <3>2 DEF InsertUser, Answer
      <4> QED
        BY <4>1, IdleIsNothing
    <3> QED
      BY <1>1, <3>1, <3>2
  <2>5. Writes(r, q, u, row)
    BY <1>1, <1>3, <2>1, <2>2, <2>4 DEF Writes, InsertUser, history
  <2>6. Creates(u) /\ struck' \subseteq struck \cup CredentialsOf(u)
    BY <1>1, <1>3, <2>1 DEF Creates, InsertUser, history
  <2> QED
    BY <2>3, <2>4, <2>5, <2>6, WritesKeeps
<1> QED
  BY <1>2, <1>3

\* The password change, the reset and the bump raise the epoch and go to close.
LEMMA EpochRises ==
  ASSUME AccountsInv, NEW r \in Requests, NEW u \in Users, u = req[r].user,
         \/ req[r].op \in {"change", "reset"} /\ req[r].pc = "password"
         \/ req[r].op = "patch" /\ req[r].pc = "bump",
         account' = [account EXCEPT ![u] = NewPassword(account[u])],
         struck' = struck \cup CredentialsOf(u),
         To(r, "close"),
         UNCHANGED <<secret, drawn, cookies, token, panels, started, halfdone, raced, stray>>
  PROVE  AccountsInv'
<1>1. PICK p \in Requested :
        /\ p = req[r] /\ p.user = u /\ account[u] \in Row /\ Grounded(p) /\ p # Idle
        /\ account[u] # None
  BY InHand DEF Idle, Grounded
<1>2. PICK row \in Row : /\ row = NewPassword(account[u])
                         /\ row.role = account[u].role /\ row.disabled = account[u].disabled
                         /\ row.epoch = account[u].epoch + 1 /\ account[u].epoch \in Nat
  <2>1. \A w \in Row : LET n == NewPassword(w) IN
          n \in Row /\ n.role = w.role /\ n.disabled = w.disabled /\ n.epoch = w.epoch + 1
                    /\ w.epoch \in Nat
    BY DEF Row, NewPassword
  <2> QED
    BY <1>1, <2>1
<1>3. account' = [account EXCEPT ![u] = row]
  BY <1>1, <1>2
<1>4. /\ account'[u] = row /\ account'[u] # None
      /\ \A v \in Users : v # u => account'[v] = account[v]
  BY <1>3, OneAccount
<1>5. AnAdminRemains'
  BY <1>1, <1>2, <1>4 DEF AccountsInv, AnAdminRemains, Enabled
<1>6. PICK q \in Requested :
        /\ q = [p EXCEPT !.pc = "close"] /\ q.pc = "close" /\ q.op = p.op /\ q.user = u
        /\ q.op = "change" => q.epoch = p.epoch
        /\ q.op \in {"change", "reset", "patch"} /\ q # Idle
  <2> DEFINE n == [p EXCEPT !.pc = "close"]
  <2>1. /\ n \in Requested /\ n.pc = "close" /\ n.op = p.op /\ n.user = p.user
        /\ p.op = "change" => n.epoch = p.epoch
    BY <1>1, Onward
  <2> QED
    BY <1>1, <2>1 DEF Idle
<1>7. Grounded(q)'
  <2>1. q.op = "change" => q.epoch <= row.epoch
    BY <1>1, <1>2, <1>6 DEF Grounded
  <2> QED
    BY <1>4, <1>6, <2>1 DEF Grounded, Carries, Reached
<1>8. Writes(r, q, u, row)
  <2>1. req' = [req EXCEPT ![r] = q]
    BY <1>1, <1>6 DEF To
  <2>2. account[u].epoch <= row.epoch
    BY <1>2
  <2> QED
    BY <1>1, <1>3, <1>6, <2>1, <2>2 DEF Writes, Changing
<1>9. Renews(r, q, u, row)
  BY <1>1, <1>2, <1>6 DEF Renews
<1> QED
  BY <1>1, <1>5, <1>7, <1>8, <1>9, WritesKeeps

LEMMA UpdatePasswordKeeps ==
  ASSUME AccountsInv, NEW r \in Requests, UpdatePassword(r) PROVE AccountsInv'
<1>1. PICK u \in Users : u = req[r].user
  BY InHand DEF UpdatePassword, At, Idle
<1> QED
  BY <1>1, EpochRises DEF UpdatePassword, At

LEMMA BumpKeeps ==
  ASSUME AccountsInv, NEW r \in Requests, Bump(r) PROVE AccountsInv'
<1>1. PICK u \in Users : u = req[r].user
  BY InHand DEF Bump, At, Idle
<1>2. account' = [account EXCEPT ![u] = NewPassword(account[u])]
  BY <1>1 DEF Bump, NewPassword
<1> QED
  BY <1>1, <1>2, EpochRises DEF Bump, At

LEMMA WriteUserKeeps ==
  ASSUME AccountsInv, NEW r \in Requests, WriteUser(r) PROVE AccountsInv'
<1>1. PICK p \in Requested, u \in Users :
        /\ p = req[r] /\ p.user = u /\ account[u] \in Row /\ account[u] # None
        /\ p.op = "patch" /\ p.pc = "write"
        /\ p.role \in Roles \cup {None} /\ p.disabled \in BOOLEAN \cup {None} /\ p.seen \in Row
  BY InHand, Patches DEF WriteUser, At, Grounded, Idle
<1> DEFINE role == IF p.role = None THEN account[u].role ELSE p.role
           disabled == IF p.disabled = None THEN account[u].disabled ELSE p.disabled
<1>2. PICK row \in Row : /\ row = [account[u] EXCEPT !.role = role, !.disabled = disabled]
                         /\ row.role = role /\ row.disabled = disabled
                         /\ row.epoch = account[u].epoch
  <2>1. role \in Roles /\ disabled \in BOOLEAN
    BY <1>1, NoneIsOther DEF Row
  <2> DEFINE n == [account[u] EXCEPT !.role = role, !.disabled = disabled]
  <2>2. n \in Row /\ n.role = role /\ n.disabled = disabled /\ n.epoch = account[u].epoch
    <3> HIDE DEF role, disabled
    <3> QED
      BY <1>1, <2>1 DEF Row
  <2> HIDE DEF role, disabled
  <2> QED
    BY <2>2
<1> HIDE DEF role, disabled
<1>3. account' = [account EXCEPT ![u] = row]
  BY <1>1, <1>2 DEF WriteUser, AccountsInv, AccountTypes, role, disabled
<1>4. /\ account'[u] = row /\ account'[u] # None
      /\ \A v \in Users : v # u => account'[v] = account[v]
  BY <1>3, OneAccount
<1>5. /\ UNCHANGED <<secret, drawn, cookies, token, panels, halfdone, raced, stray>>
      /\ Disabling(p) => struck' = struck \cup CredentialsOf(u)
      /\ ~Disabling(p) => struck' = struck
      /\ struck' \subseteq struck \cup CredentialsOf(u)
  BY <1>1 DEF WriteUser
<1>6. Changing(p) /\ (~raced => Stands(p))
  BY <1>1 DEF Changing, AccountsInv, Undisturbed
<1>7. row.disabled => account[u].disabled \/ Disabling(p) \/ raced
  BY <1>1, <1>2, <1>6, NoneIsOther DEF disabled, Stands, Disabling, Row
<1>8. AnAdminRemains'
  <2> SUFFICES ASSUME ~raced
               PROVE  \E v \in Users : account'[v] # None /\ ~account'[v].disabled
                                       /\ account'[v].role = "admin"
    BY <1>5 DEF AnAdminRemains, Enabled
  <2>1. PICK a \in Users : Enabled(a) /\ account[a].role = "admin"
    BY <1>1 DEF AccountsInv, AnAdminRemains
  <2>2. CASE a # u
    BY <1>4, <2>1, <2>2 DEF Enabled
  <2>3. CASE a = u /\ Reducing(p)
    <3>1. PICK v \in Users : v # u /\ Enabled(v) /\ account[v].role = "admin"
      BY <1>1, <1>6, <2>3 DEF Stands, ActiveAdmins
    <3> QED
      BY <1>4, <3>1 DEF Enabled
  <2>4. CASE a = u /\ ~Reducing(p)
    <3>1. p.seen.role = "admin" /\ ~p.seen.disabled
      BY <1>1, <1>6, <2>1, <2>4 DEF Stands, Enabled
    <3>2. ~Demoting(p) /\ ~Disabling(p)
      BY <2>4, <3>1 DEF Reducing
    <3>3. row.role = "admin"
      BY <1>1, <1>2, <2>1, <2>4, <3>1, <3>2 DEF role, Demoting
    <3>4. ~row.disabled
      BY <1>7, <2>1, <2>4, <3>2 DEF Enabled
    <3> QED
      BY <1>4, <3>3, <3>4
  <2> QED
    BY <2>2, <2>3, <2>4
<1>9. CASE Disabling(p)
  <2>1. PICK q \in Requested :
          /\ q = [p EXCEPT !.pc = "bump"] /\ q.pc = "bump" /\ q.op = "patch" /\ q.user = u
          /\ q # Idle
    <3> DEFINE n == [p EXCEPT !.pc = "bump"]
    <3>1. n \in Requested /\ n.pc = "bump" /\ n.op = p.op /\ n.user = p.user
      BY <1>1, Onward
    <3> QED
      BY <1>1, <3>1 DEF Idle
  <2>2. req' = [req EXCEPT ![r] = q]
    BY <1>1, <1>9, <2>1 DEF WriteUser, EndsSessions, To
  <2>3. Grounded(q)'
    BY <1>4, <2>1 DEF Grounded, Carries
  <2>4. Writes(r, q, u, row)
    BY <1>1, <1>2, <1>3, <1>5, <2>1, <2>2 DEF Writes, Changing, Row
  <2>5. WillBump(r, q, u, row)
    BY <1>1, <1>2, <1>6, <2>1 DEF WillBump
  <2> QED
    BY <1>5, <1>8, <2>3, <2>4, <2>5, WritesKeeps
<1>10. CASE ~Disabling(p)
  <2>1. req' = [req EXCEPT ![r] = Idle]
    BY <1>1, <1>10 DEF WriteUser, EndsSessions, Answer
  <2>2. Writes(r, Idle, u, row)
    BY <1>1, <1>2, <1>3, <1>5, <2>1 DEF Writes, Row
  <2>3. Spares(r, u, row)
    BY <1>1, <1>2, <1>5, <1>6, <1>7, <1>10 DEF Spares
  <2> QED
    BY <1>5, <1>8, <2>2, <2>3, IdleIsNothing, WritesKeeps
<1> QED
  BY <1>9, <1>10

---------------------------------------------------------------------------
\* Every step keeps the invariant.

LEMMA NextKeeps == ASSUME AccountsInv, [Next]_vars PROVE AccountsInv'
<1>1. CASE UNCHANGED vars
  <2>1. UNCHANGED <<account, secret, drawn, cookies, token, panels, req, struck, halfdone, raced, stray>>
    BY <1>1 DEF vars
  <2>2. token' \in [Tokens -> TokenRow \cup {None}]
    BY <2>1 DEF AccountsInv, AccountTypes
  <2> QED
    BY <2>1, <2>2, LessRemains
<1>2. CASE Next
  <2>1. ASSUME NEW r \in Requests,
               \/ StartSetup(r) \/ InsertUser(r) \/ RotateSecret(r)
               \/ IssueCookie(r) \/ DrawSecret(r) \/ KeepSecret(r)
               \/ Verify(r) \/ UpdatePassword(r) \/ ClosePanels(r)
        PROVE  AccountsInv'
    BY <2>1, StartSetupKeeps, InsertUserKeeps, RotateSecretKeeps, IssueCookieKeeps,
       DrawSecretKeeps, KeepSecretKeeps, VerifyKeeps, UpdatePasswordKeeps, ClosePanelsKeeps
  <2>2. ASSUME NEW r \in Requests,
               \/ ReadTarget(r) \/ GuardLastAdmin(r) \/ WriteUser(r) \/ Bump(r)
               \/ ReadMinter(r) \/ CountTokens(r) \/ InsertToken(r)
               \/ AcceptPanel(r) \/ Die(r)
        PROVE  AccountsInv'
    BY <2>2, ReadTargetKeeps, GuardLastAdminKeeps, WriteUserKeeps, BumpKeeps, ReadMinterKeeps,
       CountTokensKeeps, InsertTokenKeeps, AcceptPanelKeeps, DieKeeps
  <2>3. ASSUME NEW r \in Requests, NEW u \in Users,
               StartCreate(r, u) \/ SignIn(r, u) \/ StartReset(r, u) \/ StartPatch(r, u)
        PROVE  AccountsInv'
    BY <2>3, StartCreateKeeps, SignInKeeps, StartResetKeeps, StartPatchKeeps
  <2>4. ASSUME NEW r \in Requests, NEW c \in cookies,
               StartChange(r, c) \/ StartMint(r, c) \/ StartPanel(r, c)
        PROVE  AccountsInv'
    BY <2>4, StartChangeKeeps, StartMintKeeps, StartPanelKeeps
  <2>5. ASSUME \/ \E c \in cookies : CookieAges(c)
               \/ \E c \in cookies, t \in Tokens : RevokeToken(c, t)
               \/ \E t \in Tokens : TokenAges(t)
               \/ \E p \in panels : PanelGone(p)
        PROVE  AccountsInv'
    BY <2>5, CookieAgesKeeps, RevokeTokenKeeps, TokenAgesKeeps, PanelGoneKeeps
  <2> QED
    BY <1>2, <2>1, <2>2, <2>3, <2>4, <2>5 DEF Next
<1> QED
  BY <1>1, <1>2

\* routes/auth.ts, users.ts: however the requests interleave and wherever they
\* die, no credential is ahead of its account; who was shut out stays out with
\* every credential, unless the disabling has yet to bump the epoch or died before
\* it (halfdone); an enabled administrator remains, unless two changes of roles
\* crossed (raced); and no panel outlives its session, unless a change died, two
\* of them crossed, or the closing was lost or passed the panel (stray).
THEOREM AccountsSoundHolds == Spec => []AccountsSound
<1>1. Init => AccountsInv
  BY InitGivesInv
<1>2. AccountsInv /\ [Next]_vars => AccountsInv'
  BY NextKeeps
<1>3. AccountsInv => AccountsSound
  BY InvGivesSound
<1> QED
  BY <1>1, <1>2, <1>3, PTL DEF Spec

----------------------------------------------------------------------------
(* The signed requests *)

Served == [pc : {"prune", "nonce", "claim", "worker"}, id : Sent \cup Invites, at : Nat]

Typing ==
  /\ now \in Nat /\ Skew <= now
  /\ signed \in [Sent -> Nat \cup {-1}]
  /\ nonces \subseteq [id : Sent, until : Nat]
  /\ serving \in [Requests -> {S!Free} \cup Served]
  /\ accepted \in [Sent -> {0, 1}]
  /\ used \subseteq Invites
  /\ workers \in [Invites -> {0, 1}]

\* A request is served within MaxStall of the clock it was weighed by.
InTime(s) == serving[s] # S!Free => serving[s].at <= now /\ now < serving[s].at + MaxStall

\* One that is weighed was signed, no further than the skew from that clock.
Weighed(s) ==
  serving[s].pc \in {"prune", "nonce"} =>
    LET m == serving[s].id IN
      /\ m \in Sent /\ signed[m] # -1
      /\ signed[m] - Skew <= serving[s].at /\ serving[s].at <= signed[m] + Skew

\* When no copy of m is being served any more.
Over(m) == signed[m] + Skew + MaxStall

\* One that was let through has its nonce there until no copy can follow.
Remembered(m) ==
  accepted[m] = 1 =>
    /\ signed[m] # -1
    /\ (\E n \in nonces : n.id = m /\ n.until >= Over(m)) \/ now >= Over(m)

\* A token that was not taken has no worker, now or soon; one that was has one
\* worker or one slot about to make it.
Making(s, i) == serving[s].pc = "worker" /\ serving[s].id = i
Claimed(s) == serving[s].pc \in {"claim", "worker"} => serving[s].id \in Invites
OneMaker ==
  /\ \A i \in Invites : i \notin used => workers[i] = 0
  /\ \A s \in Requests, i \in Invites : Making(s, i) => i \in used /\ workers[i] = 0
  /\ \A s, t \in Requests, i \in Invites : Making(s, i) /\ Making(t, i) => s = t

Nonces == /\ \A s \in Requests : InTime(s) /\ Weighed(s)
          /\ \A m \in Sent : Remembered(m)
Invited == (\A s \in Requests : Claimed(s)) /\ OneMaker

IInv == Typing /\ Nonces /\ Invited

LEMMA ServedShape ==
  ASSUME NEW r \in {S!Free} \cup Served
  PROVE  /\ r = S!Free <=> r.pc = "free"
         /\ r # S!Free => r \in Served
PROOF BY DEF S!Free, Served

LEMMA InitHolds == S!TimesAssumption /\ S!Init => IInv
<1> SUFFICES ASSUME S!TimesAssumption, S!Init PROVE IInv
  OBVIOUS
<1> USE DEF S!TimesAssumption, S!Init
<1>1. Typing
  BY DEF Typing
<1>2. \A s \in Requests : serving[s] = S!Free /\ serving[s].pc = "free"
  BY DEF S!Free
<1>3. Nonces
  BY <1>2 DEF Nonces, InTime, Weighed, Remembered
<1>4. Invited
  BY <1>2 DEF Invited, Claimed, OneMaker, Making
<1> QED
  BY <1>1, <1>3, <1>4 DEF IInv

\* What serving becomes when one slot is given r, seen from a slot.
LEMMA OneSlot ==
  ASSUME Typing, NEW s \in Requests, NEW r \in {S!Free} \cup Served,
         serving' = [serving EXCEPT ![s] = r]
  PROVE  /\ serving' \in [Requests -> {S!Free} \cup Served]
         /\ serving'[s] = r
         /\ \A t \in Requests : t # s => serving'[t] = serving[t]
PROOF BY DEF Typing

\* A slot that is freed has nothing left to say.
LEMMA Freeing ==
  ASSUME Typing, NEW s \in Requests, serving' = [serving EXCEPT ![s] = S!Free]
  PROVE  /\ serving' \in [Requests -> {S!Free} \cup Served]
         /\ serving'[s] = S!Free /\ serving'[s].pc = "free"
         /\ \A t \in Requests : t # s => serving'[t] = serving[t]
<1>1. S!Free \in {S!Free} \cup Served
  OBVIOUS
<1> QED
  BY <1>1, OneSlot DEF S!Free

LEMMA SignKeeps == ASSUME S!TimesAssumption, IInv, NEW m \in Sent, S!Sign(m) PROVE IInv'
<1> USE DEF S!TimesAssumption, IInv
<1>1. /\ signed[m] = -1 /\ \A k \in Sent : k # m => signed'[k] = signed[k]
      /\ signed' \in [Sent -> Nat \cup {-1}]
  BY DEF S!Sign, Typing
<1>2. Typing'
  BY <1>1 DEF S!Sign, Typing
<1>3. Nonces'
  BY <1>1 DEF S!Sign, Typing, Nonces, InTime, Weighed, Remembered, Over
<1>4. Invited'
  BY DEF S!Sign, Invited, Claimed, OneMaker, Making
<1> QED
  BY <1>2, <1>3, <1>4

LEMMA DeliverKeeps ==
  ASSUME S!TimesAssumption, IInv, NEW s \in Requests, NEW m \in Sent, S!Deliver(s, m) PROVE IInv'
<1> USE DEF S!TimesAssumption, IInv
<1> DEFINE r == [pc |-> "prune", id |-> m, at |-> now]
<1>1. r \in {S!Free} \cup Served
  BY DEF Typing, Served
<1>2. /\ serving' \in [Requests -> {S!Free} \cup Served]
      /\ serving'[s] = r
      /\ \A t \in Requests : t # s => serving'[t] = serving[t]
  BY <1>1, OneSlot DEF S!Deliver
<1>3. r.pc = "prune" /\ r.id = m /\ r.at = now
  OBVIOUS
<1>4. signed[m] # -1 /\ signed[m] - Skew <= now /\ now <= signed[m] + Skew
  BY DEF S!Deliver, S!InTime, Typing
<1> HIDE DEF r
<1>5. Typing'
  BY <1>2 DEF S!Deliver, Typing
<1>6. Nonces'
  <2>1. \A t \in Requests : InTime(t)' /\ Weighed(t)'
    BY <1>2, <1>3, <1>4 DEF S!Deliver, Typing, Nonces, InTime, Weighed
  <2>2. \A k \in Sent : Remembered(k)'
    BY DEF S!Deliver, Nonces, Remembered, Over
  <2> QED BY <2>1, <2>2 DEF Nonces
<1>7. Invited'
  BY <1>2, <1>3 DEF S!Deliver, Invited, Claimed, OneMaker, Making
<1> QED
  BY <1>5, <1>6, <1>7

LEMMA PruneKeeps == ASSUME S!TimesAssumption, IInv, NEW s \in Requests, S!Prune(s) PROVE IInv'
<1> USE DEF S!TimesAssumption, IInv
<1>1. serving[s] \in Served /\ serving[s].pc = "prune" /\ serving[s] # S!Free
  BY ServedShape DEF S!Prune, Typing, S!Free
<1> DEFINE r == [serving[s] EXCEPT !.pc = "nonce"]
<1>2. r \in Served /\ r # S!Free /\ r.pc = "nonce" /\ r.id = serving[s].id /\ r.at = serving[s].at
  BY <1>1 DEF Served, S!Free
<1>3. serving' = [serving EXCEPT ![s] = r]
  BY DEF S!Prune
<1> HIDE DEF r
<1>4. /\ serving' \in [Requests -> {S!Free} \cup Served]
      /\ serving'[s] = r
      /\ \A t \in Requests : t # s => serving'[t] = serving[t]
  BY <1>2, <1>3, OneSlot
<1>5. Typing'
  BY <1>4 DEF S!Prune, Typing
<1>6. Nonces'
  <2>1. \A t \in Requests : InTime(t)' /\ Weighed(t)'
    BY <1>1, <1>2, <1>4 DEF S!Prune, Typing, Nonces, InTime, Weighed
  <2>2. ASSUME NEW k \in Sent PROVE Remembered(k)'
    <3> SUFFICES ASSUME accepted[k] = 1
                 PROVE  (\E n \in nonces' : n.id = k /\ n.until >= Over(k)) \/ now >= Over(k)
      BY DEF S!Prune, Nonces, Remembered, Over
    <3>1. CASE now >= Over(k)
      BY <3>1
    <3>2. CASE ~(now >= Over(k))
      <4>1. PICK n \in nonces : n.id = k /\ n.until >= Over(k)
        BY <3>2 DEF Nonces, Remembered
      <4>2. serving[s].at <= now /\ serving[s].at \in Nat /\ n.until \in Nat
            /\ now \in Nat /\ Over(k) \in Int
        BY <1>1, <4>1 DEF Nonces, InTime, Typing, Over, Served
      <4>3. ~S!Expired(n, serving[s].at)
        BY <3>2, <4>1, <4>2 DEF S!Expired
      <4> QED BY <4>1, <4>3 DEF S!Prune
    <3> QED BY <3>1, <3>2
  <2> QED BY <2>1, <2>2 DEF Nonces
<1>7. Invited'
  BY <1>1, <1>2, <1>4 DEF S!Prune, Invited, Claimed, OneMaker, Making
<1> QED
  BY <1>5, <1>6, <1>7

\* The heart of it: the nonce outlives every copy, so one that finds none is
\* the first.
LEMMA FirstCopy ==
  ASSUME S!TimesAssumption, IInv, NEW s \in Requests, serving[s].pc = "nonce",
         ~(\E n \in nonces : n.id = serving[s].id)
  PROVE  accepted[serving[s].id] = 0
<1> DEFINE m == serving[s].id
<1> USE DEF S!TimesAssumption, IInv
<1>1. serving[s] \in Served /\ serving[s] # S!Free
  BY ServedShape DEF Typing, S!Free
<1>2. m \in Sent /\ serving[s].at <= signed[m] + Skew /\ signed[m] # -1
  BY DEF Nonces, Weighed
<1>3. now < serving[s].at + MaxStall
  BY <1>1 DEF Nonces, InTime
<1>4. now \in Nat /\ serving[s].at \in Nat /\ signed[m] \in Int
  BY <1>1, <1>2 DEF Typing, Served
<1>5. ~(now >= Over(m))
  BY <1>2, <1>3, <1>4 DEF Over
<1>6. accepted[m] # 1
  BY <1>2, <1>5 DEF Nonces, Remembered
<1> QED
  BY <1>2, <1>6 DEF Typing

LEMMA InsertNonceKeeps == ASSUME S!TimesAssumption, IInv, NEW s \in Requests, S!InsertNonce(s) PROVE IInv'
<1> USE DEF S!TimesAssumption, IInv
<1> DEFINE m == serving[s].id
           n == [id |-> m, until |-> serving[s].at + Ttl]
           Known == \E k \in nonces : k.id = m
<1>1. serving[s] \in Served /\ serving[s].pc = "nonce" /\ serving[s] # S!Free
  BY ServedShape DEF S!InsertNonce, Typing, S!Free
<1>2. /\ serving' \in [Requests -> {S!Free} \cup Served]
      /\ serving'[s] = S!Free /\ serving'[s].pc = "free"
      /\ \A t \in Requests : t # s => serving'[t] = serving[t]
  BY Freeing DEF S!InsertNonce
<1>3. /\ m \in Sent /\ signed[m] # -1
      /\ signed[m] - Skew <= serving[s].at /\ serving[s].at <= signed[m] + Skew
  BY <1>1 DEF Nonces, Weighed
<1>4. now \in Nat /\ serving[s].at \in Nat /\ signed[m] \in Int
  BY <1>1, <1>3 DEF Typing, Served
<1>5. n \in [id : Sent, until : Nat] /\ n.id = m /\ n.until = serving[s].at + Ttl
  BY <1>3, <1>4
<1>6. n.until >= Over(m)
  BY <1>3, <1>4, <1>5 DEF Over
<1>7. CASE Known
  <2>1. UNCHANGED <<now, signed, nonces, accepted, used, workers>>
    BY <1>7 DEF S!InsertNonce
  <2>2. Typing'
    BY <1>2, <2>1 DEF Typing
  <2>3. Nonces'
    BY <1>2, <2>1 DEF Nonces, InTime, Weighed, Remembered, Over
  <2>4. Invited'
    BY <1>2, <2>1 DEF Invited, Claimed, OneMaker, Making
  <2> QED BY <2>2, <2>3, <2>4
<1>8. CASE ~Known
  <2>1. /\ nonces' = nonces \cup {n} /\ accepted' = [accepted EXCEPT ![m] = @ + 1]
        /\ UNCHANGED <<now, signed, used, workers>>
    BY <1>8 DEF S!InsertNonce
  <2>2. accepted[m] = 0
    BY <1>1, <1>8, FirstCopy
  <2>3. /\ accepted' \in [Sent -> {0, 1}]
        /\ \A k \in Sent : k # m => accepted'[k] = accepted[k]
    BY <1>3, <2>1, <2>2 DEF Typing
  <2> HIDE DEF n, m
  <2>4. Typing'
    BY <1>2, <1>5, <2>1, <2>3 DEF Typing
  <2>5. \A t \in Requests : InTime(t)' /\ Weighed(t)'
    BY <1>2, <2>1 DEF Nonces, InTime, Weighed
  <2>6. \A k \in Sent : Remembered(k)'
    BY <1>3, <1>5, <1>6, <2>1, <2>3 DEF Nonces, Remembered, Over
  <2>7. Invited'
    BY <1>2, <2>1 DEF Invited, Claimed, OneMaker, Making
  <2> QED BY <2>4, <2>5, <2>6, <2>7 DEF Nonces
<1> QED
  BY <1>7, <1>8

LEMMA StartRegisterKeeps ==
  ASSUME S!TimesAssumption, IInv, NEW s \in Requests, NEW i \in Invites, S!StartRegister(s, i) PROVE IInv'
<1> USE DEF S!TimesAssumption, IInv
<1> DEFINE r == [pc |-> "claim", id |-> i, at |-> now]
<1>1. r \in {S!Free} \cup Served
  BY DEF Typing, Served
<1>2. /\ serving' \in [Requests -> {S!Free} \cup Served]
      /\ serving'[s] = r
      /\ \A t \in Requests : t # s => serving'[t] = serving[t]
  BY <1>1, OneSlot DEF S!StartRegister
<1>3. r.pc = "claim" /\ r.id = i /\ r.at = now
  OBVIOUS
<1> HIDE DEF r
<1>4. Typing'
  BY <1>2 DEF S!StartRegister, Typing
<1>5. Nonces'
  <2>1. \A t \in Requests : InTime(t)' /\ Weighed(t)'
    BY <1>2, <1>3 DEF S!StartRegister, Typing, Nonces, InTime, Weighed
  <2>2. \A k \in Sent : Remembered(k)'
    BY DEF S!StartRegister, Nonces, Remembered, Over
  <2> QED BY <2>1, <2>2 DEF Nonces
<1>6. Invited'
  BY <1>2, <1>3 DEF S!StartRegister, Invited, Claimed, OneMaker, Making
<1> QED
  BY <1>4, <1>5, <1>6

LEMMA ClaimTokenKeeps == ASSUME S!TimesAssumption, IInv, NEW s \in Requests, S!ClaimToken(s) PROVE IInv'
<1> USE DEF S!TimesAssumption, IInv
<1>1. serving[s] \in Served /\ serving[s].pc = "claim" /\ serving[s] # S!Free
  BY ServedShape DEF S!ClaimToken, Typing, S!Free
<1> DEFINE i == serving[s].id
           r == [serving[s] EXCEPT !.pc = "worker"]
<1>2. i \in Invites
  BY <1>1 DEF Invited, Claimed
<1>3. r \in Served /\ r # S!Free /\ r.pc = "worker" /\ r.id = i /\ r.at = serving[s].at
  BY <1>1 DEF Served, S!Free
<1>4. UNCHANGED <<now, signed, nonces, accepted, workers>> /\ used' = used \cup {i}
  BY DEF S!ClaimToken
<1>5. CASE i \in used
  <2>1. serving' = [serving EXCEPT ![s] = S!Free]
    BY <1>5 DEF S!ClaimToken, S!Claims
  <2>2. /\ serving' \in [Requests -> {S!Free} \cup Served]
        /\ serving'[s] = S!Free /\ serving'[s].pc = "free"
        /\ \A t \in Requests : t # s => serving'[t] = serving[t]
    BY <2>1, Freeing
  <2>3. Typing'
    BY <1>2, <1>4, <2>2 DEF Typing
  <2>4. Nonces'
    BY <1>4, <2>2 DEF Nonces, InTime, Weighed, Remembered, Over
  <2>5. Invited'
    BY <1>4, <2>2 DEF Invited, Claimed, OneMaker, Making
  <2> QED BY <2>3, <2>4, <2>5
<1>6. CASE i \notin used
  <2>1. serving' = [serving EXCEPT ![s] = r]
    BY <1>6 DEF S!ClaimToken, S!Claims
  <2> HIDE DEF r
  <2>2. /\ serving' \in [Requests -> {S!Free} \cup Served]
        /\ serving'[s] = r
        /\ \A t \in Requests : t # s => serving'[t] = serving[t]
    BY <1>3, <2>1, OneSlot
  <2> HIDE DEF i
  <2>3. Typing'
    BY <1>2, <1>4, <2>2 DEF Typing
  <2>4. Nonces'
    BY <1>1, <1>3, <1>4, <2>2 DEF Nonces, InTime, Weighed, Remembered, Over
  <2>5. Invited'
    <3>1. \A t \in Requests : ~Making(t, i)
      BY <1>6, <1>2 DEF Invited, OneMaker
    <3> QED
      BY <1>2, <1>3, <1>4, <1>6, <2>2, <3>1 DEF Invited, Claimed, OneMaker, Making
  <2> QED BY <2>3, <2>4, <2>5
<1> QED
  BY <1>5, <1>6

LEMMA InsertWorkerKeeps == ASSUME S!TimesAssumption, IInv, NEW s \in Requests, S!InsertWorker(s) PROVE IInv'
<1> USE DEF S!TimesAssumption, IInv
<1> DEFINE i == serving[s].id
<1>1. serving[s].pc = "worker" /\ i \in Invites
  BY DEF S!InsertWorker, Invited, Claimed
<1>2. Making(s, i) /\ i \in used /\ workers[i] = 0
  BY <1>1 DEF Making, Invited, OneMaker
<1>3. /\ serving' \in [Requests -> {S!Free} \cup Served]
      /\ serving'[s] = S!Free /\ serving'[s].pc = "free"
      /\ \A t \in Requests : t # s => serving'[t] = serving[t]
  BY Freeing DEF S!InsertWorker
<1>4. UNCHANGED <<now, signed, nonces, accepted, used>> /\ workers' = [workers EXCEPT ![i] = @ + 1]
  BY DEF S!InsertWorker
<1> HIDE DEF i
<1>5. /\ workers' \in [Invites -> {0, 1}]
      /\ \A j \in Invites : j # i => workers'[j] = workers[j]
  BY <1>1, <1>2, <1>4 DEF Typing
<1>6. Typing'
  BY <1>3, <1>4, <1>5 DEF Typing
<1>7. Nonces'
  BY <1>3, <1>4 DEF Nonces, InTime, Weighed, Remembered, Over
<1>8. Invited'
  BY <1>2, <1>3, <1>4, <1>5 DEF Invited, Claimed, OneMaker, Making
<1> QED
  BY <1>6, <1>7, <1>8

LEMMA SignedDieKeeps == ASSUME S!TimesAssumption, IInv, NEW s \in Requests, S!Die(s) PROVE IInv'
<1> USE DEF S!TimesAssumption, IInv
<1>1. /\ serving' \in [Requests -> {S!Free} \cup Served]
      /\ serving'[s] = S!Free /\ serving'[s].pc = "free"
      /\ \A t \in Requests : t # s => serving'[t] = serving[t]
  BY Freeing DEF S!Die
<1>2. UNCHANGED <<now, signed, nonces, accepted, used, workers>>
  BY DEF S!Die
<1>3. Typing'
  BY <1>1, <1>2 DEF Typing
<1>4. Nonces'
  BY <1>1, <1>2 DEF Nonces, InTime, Weighed, Remembered, Over
<1>5. Invited'
  BY <1>1, <1>2 DEF Invited, Claimed, OneMaker, Making
<1> QED
  BY <1>3, <1>4, <1>5

LEMMA TickKeeps == ASSUME S!TimesAssumption, IInv, S!Tick PROVE IInv'
<1> USE DEF S!TimesAssumption, IInv
<1>1. now' = now + 1 /\ UNCHANGED <<signed, nonces, serving, accepted, used, workers>>
  BY DEF S!Tick
<1>2. Typing'
  BY <1>1 DEF Typing
<1>3. \A s \in Requests : InTime(s)'
  <2> SUFFICES ASSUME NEW s \in Requests, serving[s] # S!Free
               PROVE  serving[s].at <= now + 1 /\ now + 1 < serving[s].at + MaxStall
    BY <1>1 DEF InTime
  <2>1. serving[s].at \in Nat /\ serving[s].at <= now
    BY DEF Nonces, InTime, Typing, Served
  <2> QED BY <2>1 DEF S!Tick, Typing
<1>4. \A s \in Requests : Weighed(s)'
  BY <1>1 DEF Nonces, Weighed
<1>5. \A m \in Sent : Remembered(m)'
  BY <1>1 DEF Nonces, Remembered, Over, Typing
<1>6. Invited'
  BY <1>1 DEF Invited, Claimed, OneMaker, Making
<1> QED
  BY <1>2, <1>3, <1>4, <1>5, <1>6 DEF Nonces

LEMMA StepKeeps == S!TimesAssumption /\ IInv /\ [S!Next]_S!vars => IInv'
<1> SUFFICES ASSUME S!TimesAssumption, IInv, [S!Next]_S!vars PROVE IInv'
  OBVIOUS
<1>1. CASE UNCHANGED S!vars
  BY <1>1 DEF S!vars, IInv, Typing, Nonces, InTime, Weighed, Remembered, Over, Invited, Claimed,
              OneMaker, Making
<1>2. CASE S!Next
  BY <1>2, SignKeeps, DeliverKeeps, PruneKeeps, InsertNonceKeeps, StartRegisterKeeps,
     ClaimTokenKeeps, InsertWorkerKeeps, SignedDieKeeps, TickKeeps DEF S!Next
<1> QED
  BY <1>1, <1>2

\* With a TTL of two skews and the longest request, no request signed by an agent
\* is let through twice, and no registration token makes two workers
\* (verifyAgentRequest, claimRegisterToken).
THEOREM SignedOnceHolds == S!Spec => []SignedOnce
<1> USE TimesFit
<1>1. S!Init => IInv
  BY InitHolds
<1>2. IInv /\ [S!Next]_S!vars => IInv'
  BY StepKeeps
<1>3. IInv => SignedOnce
  BY DEF IInv, Typing, SignedOnce, S!SignedOnce, S!AcceptedOnce, S!OneWorkerPerToken
<1> QED
  BY <1>1, <1>2, <1>3, PTL DEF S!Spec

----------------------------------------------------------------------------
(* The login backoff *)

LEMMA LoginCardinality == ASSUME NEW T PROVE B!Cardinality(T) = Cardinality(T)
BY DEF B!Cardinality, Cardinality

\* The powers of two up to the n-th.
DoublesTo(g, n) == g[0] = 1 /\ \A i \in Nat : i < n => g[i + 1] = 2 * g[i]

LEMMA LeastNat ==
    ASSUME NEW T \in SUBSET Nat, T # {}
    PROVE  \E n \in T : \A m \in T : n <= m
<1>1. PICK n \in T : \A m \in T : ~(<<m, n>> \in OpToRel(<, Nat))
    BY NatLessThanWellFounded, WFMin
<1>2. \A m \in T : n <= m
    <2> SUFFICES ASSUME NEW m \in T, m < n PROVE FALSE
        OBVIOUS
    <2>1. <<m, n>> \in OpToRel(<, Nat)
        BY DEF OpToRel
    <2> QED
        BY <1>1, <2>1
<1> QED
    BY <1>2

LEMMA DoublesExist == \A n \in Nat : \E g \in [Nat -> Nat] : DoublesTo(g, n)
<1> DEFINE P(n) == \E g \in [Nat -> Nat] : DoublesTo(g, n)
<1>1. P(0)
    <2> DEFINE g == [i \in Nat |-> 1]
    <2>1. g \in [Nat -> Nat] /\ DoublesTo(g, 0)
        BY DEF DoublesTo
    <2> QED
        BY <2>1
<1>2. ASSUME NEW n \in Nat, P(n) PROVE P(n + 1)
    <2>1. PICK g \in [Nat -> Nat] : DoublesTo(g, n)
        BY <1>2
    <2> DEFINE h == [g EXCEPT ![n + 1] = 2 * g[n]]
    <2>2. h \in [Nat -> Nat]
        OBVIOUS
    <2>3. DoublesTo(h, n + 1)
        BY <2>1 DEF DoublesTo
    <2> HIDE DEF h
    <2> QED
        BY <2>2, <2>3
<1> HIDE DEF P
<1>3. ASSUME NEW n \in Nat, ~P(n) PROVE FALSE
    <2> DEFINE T == {m \in Nat : ~P(m)}
    <2>1. T \in SUBSET Nat /\ T # {}
        BY <1>3
    <2> HIDE DEF T
    <2>2. PICK m \in T : \A k \in T : m <= k
        BY <2>1, LeastNat
    <2>3. m \in Nat /\ ~P(m) /\ m # 0
        BY <1>1, <2>2 DEF T
    <2>4. m - 1 \in Nat /\ m - 1 \notin T
        BY <2>2, <2>3
    <2>5. P((m - 1) + 1)
        BY <1>2, <2>4 DEF T
    <2> QED
        BY <2>3, <2>5
<1> QED
    BY <1>3 DEF P

LEMMA DoublesAgree ==
    ASSUME NEW g \in [Nat -> Nat], NEW h \in [Nat -> Nat], NEW n \in Nat, NEW k \in Nat, n <= k,
           DoublesTo(g, n), DoublesTo(h, k)
    PROVE  g[n] = h[n]
<1> DEFINE T == {m \in Nat : m <= n /\ g[m] # h[m]}
<1>1. CASE T = {}
    BY <1>1
<1>2. CASE T # {}
    <2>1. PICK m \in T : \A i \in T : m <= i
        <3> HIDE DEF T
        <3>1. T \in SUBSET Nat
            BY DEF T
        <3> QED
            BY <1>2, <3>1, LeastNat
    <2>2. m \in Nat /\ m <= n /\ g[m] # h[m] /\ m # 0
        BY <2>1 DEF DoublesTo
    <2>3. PICK i \in Nat : m = i + 1 /\ i < n /\ i < k
        <3>1. m - 1 \in Nat /\ m = (m - 1) + 1 /\ m - 1 < n /\ m - 1 < k
            BY <2>2
        <3> QED
            BY <3>1
    <2>4. g[i] = h[i]
        BY <2>1, <2>3
    <2> QED
        BY <2>2, <2>3, <2>4 DEF DoublesTo
<1> QED
    BY <1>1, <1>2

\* The waits double.
LEMMA DoubledIs ==
    /\ B!Doubled \in [Nat -> Nat]
    /\ B!Doubled[0] = 1
    /\ \A n \in Nat : B!Doubled[n + 1] = 2 * B!Doubled[n]
<1> DEFINE G == [n \in Nat |-> CHOOSE g \in [Nat -> Nat] : DoublesTo(g, n)]
           D == [n \in Nat |-> G[n][n]]
<1>1. \A n \in Nat : G[n] \in [Nat -> Nat] /\ DoublesTo(G[n], n)
    BY DoublesExist
<1> HIDE DEF G
<1>2. D \in [Nat -> Nat] /\ D[0] = 1
    BY <1>1 DEF DoublesTo
<1>3. \A n \in Nat : D[n + 1] = 2 * D[n]
    <2> SUFFICES ASSUME NEW n \in Nat PROVE G[n + 1][n + 1] = 2 * G[n][n]
        OBVIOUS
    <2>1. G[n] \in [Nat -> Nat] /\ G[n + 1] \in [Nat -> Nat]
        BY <1>1
    <2>2. G[n][n] = G[n + 1][n]
        <3>1. n + 1 \in Nat /\ n <= n + 1
            OBVIOUS
        <3>2. DoublesTo(G[n], n) /\ DoublesTo(G[n + 1], n + 1)
            BY <1>1, <3>1
        <3> QED
            BY <2>1, <3>1, <3>2, DoublesAgree
    <2>3. G[n + 1][n + 1] = 2 * G[n + 1][n]
        BY <1>1 DEF DoublesTo
    <2> QED
        BY <2>2, <2>3
<1> HIDE DEF D
<1>4. D = [n \in Nat |-> IF n = 0 THEN 1 ELSE 2 * D[n - 1]]
    <2>1. ASSUME NEW n \in Nat, n # 0 PROVE D[n] = 2 * D[n - 1]
        <3>1. n - 1 \in Nat /\ (n - 1) + 1 = n
            BY <2>1
        <3> QED
            BY <1>3, <3>1
    <2>2. D = [n \in Nat |-> D[n]]
        BY <1>2
    <2> QED
        BY <1>2, <2>1, <2>2
<1>5. B!Doubled = [n \in Nat |-> IF n = 0 THEN 1 ELSE 2 * B!Doubled[n - 1]]
    BY <1>4 DEF B!Doubled
<1>6. \A n \in Nat : B!Doubled[n] = IF n = 0 THEN 1 ELSE 2 * B!Doubled[n - 1]
    BY <1>5
<1> DEFINE E == {n \in Nat : B!Doubled[n] # D[n]}
<1>7. ASSUME E # {} PROVE FALSE
    <2>1. PICK m \in E : \A i \in E : m <= i
        <3> HIDE DEF E
        <3>1. E \in SUBSET Nat
            BY DEF E
        <3> QED
            BY <1>7, <3>1, LeastNat
    <2>2. m \in Nat /\ m # 0 /\ B!Doubled[m] # D[m]
        BY <1>2, <1>6, <2>1
    <2>3. m - 1 \in Nat /\ m - 1 \notin E
        BY <2>1, <2>2
    <2>4. D[m] = 2 * D[m - 1]
        BY <1>4, <2>2
    <2> QED
        BY <1>6, <2>2, <2>3, <2>4
<1>8. \A n \in Nat : B!Doubled[n] = D[n]
    BY <1>7
<1>9. B!Doubled = D
    BY <1>2, <1>5, <1>8
<1> QED
    BY <1>2, <1>3, <1>9

\* They grow, and faster than their number.
LEMMA DoubledGrows ==
    /\ \A n \in Nat : B!Doubled[n] >= n + 1
    /\ \A m, n \in Nat : m <= n => B!Doubled[m] <= B!Doubled[n]
<1> DEFINE D == B!Doubled
<1>0. /\ D \in [Nat -> Nat] /\ D[0] = 1
      /\ \A n \in Nat : D[n + 1] = 2 * D[n]
    BY DoubledIs
<1> HIDE DEF D
<1>1. \A n \in Nat : D[n] >= n + 1
    <2> DEFINE T == {n \in Nat : ~(D[n] >= n + 1)}
    <2>1. ASSUME T # {} PROVE FALSE
        <3>1. PICK m \in T : \A i \in T : m <= i
            <4> HIDE DEF T
            <4>1. T \in SUBSET Nat
                BY DEF T
            <4> QED
                BY <2>1, <4>1, LeastNat
        <3>2. m \in Nat /\ m # 0 /\ ~(D[m] >= m + 1)
            BY <1>0, <3>1
        <3>3. m - 1 \in Nat /\ (m - 1) + 1 = m /\ m - 1 \notin T
            BY <3>1, <3>2
        <3>4. D[m - 1] \in Nat /\ D[m - 1] >= m /\ D[m] = 2 * D[m - 1]
            BY <1>0, <3>3
        <3> QED
            BY <3>2, <3>4
    <2> QED
        BY <2>1
<1>2. ASSUME NEW m \in Nat, NEW n \in Nat, m <= n PROVE D[m] <= D[n]
    <2> DEFINE T == {i \in Nat : i >= m /\ ~(D[m] <= D[i])}
    <2>1. ASSUME T # {} PROVE FALSE
        <3>1. PICK k \in T : \A i \in T : k <= i
            <4> HIDE DEF T
            <4>1. T \in SUBSET Nat
                BY DEF T
            <4> QED
                BY <2>1, <4>1, LeastNat
        <3>2. k \in Nat /\ k > m /\ ~(D[m] <= D[k])
            BY <1>0, <3>1
        <3>3. k - 1 \in Nat /\ (k - 1) + 1 = k /\ k - 1 >= m /\ k - 1 \notin T
            BY <3>1, <3>2
        <3>4. D[k - 1] \in Nat /\ D[m] \in Nat /\ D[m] <= D[k - 1] /\ D[k] = 2 * D[k - 1]
            BY <1>0, <3>3
        <3> QED
            BY <3>2, <3>4
    <2> QED
        BY <1>2, <2>1
<1> QED
    BY <1>1, <1>2 DEF D

\* How long so many failures take, one after another, when each one comes as
\* soon as it may.
Takes(n) == IF n <= StartN THEN 0 ELSE B!Doubled[n - (StartN - 1)] - 2

LEMMA WaitGrows ==
    /\ \A n \in Nat : B!Wait(n) \in Nat
    /\ \A m, n \in Nat : m <= n => B!Wait(m) <= B!Wait(n)
<1>0. StartN \in Nat \ {0}
    BY LoginTimesFit DEF B!TimesAssumption
<1>1. \A n \in Nat : n >= StartN => n - (StartN - 1) \in Nat
    BY <1>0
<1>2. ASSUME NEW m \in Nat, NEW n \in Nat, m <= n PROVE B!Wait(m) <= B!Wait(n)
    <2>1. CASE m < StartN
        BY <1>0, <1>1, <2>1, DoubledIs DEF B!Wait
    <2>2. CASE m >= StartN
        <3>1. /\ m - (StartN - 1) \in Nat /\ n - (StartN - 1) \in Nat
              /\ m - (StartN - 1) <= n - (StartN - 1) /\ n >= StartN
            BY <1>0, <1>1, <1>2, <2>2
        <3> QED
            BY <1>0, <2>2, <3>1, DoubledGrows DEF B!Wait
    <2> QED
        BY <1>0, <2>1, <2>2
<1> QED
    BY <1>0, <1>1, <1>2, DoubledIs DEF B!Wait

\* One failure more takes as long as the wait it had to sit out.
LEMMA TakesMore ==
    ASSUME NEW n \in Nat
    PROVE  Takes(n) \in Int /\ Takes(n + 1) \in Int /\ Takes(n + 1) <= Takes(n) + B!Wait(n)
<1>0. StartN \in Nat \ {0}
    BY LoginTimesFit DEF B!TimesAssumption
<1>1. CASE n < StartN
    BY <1>0, <1>1 DEF Takes, B!Wait
<1>2. CASE n = StartN
    <2>1. /\ n - (StartN - 1) = 1 /\ (n + 1) - (StartN - 1) = 2
        BY <1>0, <1>2
    <2>2. B!Doubled[0 + 1] = 2 * B!Doubled[0] /\ B!Doubled[1 + 1] = 2 * B!Doubled[1]
        BY DoubledIs
    <2>3. B!Doubled[1] = 2 /\ B!Doubled[2] = 4
        BY <2>2, DoubledIs
    <2> QED
        BY <1>0, <1>2, <2>1, <2>3 DEF Takes, B!Wait
<1>3. CASE n > StartN
    <2>1. PICK i \in Nat : i = n - (StartN - 1) /\ i + 1 = (n + 1) - (StartN - 1)
        BY <1>0, <1>3
    <2>2. B!Doubled[i] \in Nat /\ B!Doubled[i + 1] = 2 * B!Doubled[i]
        BY DoubledIs
    <2> QED
        BY <1>0, <1>3, <2>1, <2>2 DEF Takes, B!Wait
<1> QED
    BY <1>0, <1>1, <1>2, <1>3

\* What fits into a window is within the budget.
LEMMA WindowHolds ==
    ASSUME NEW n \in Nat, Takes(n) <= Window
    PROVE  n <= B!Budget
<1> DEFINE K == {k \in 1..Window : B!Doubled[k + 1] - 2 <= Window}
<1>0. StartN \in Nat \ {0} /\ Window \in Nat
    BY LoginTimesFit DEF B!TimesAssumption
<1>1. IsFiniteSet(1..Window)
    BY <1>0, FS_Interval
<1>2. IsFiniteSet(K) /\ Cardinality(K) \in Nat
    BY <1>1, FS_Subset, FS_CardinalityType
<1>5. B!Budget = StartN + Cardinality(K)
    BY LoginCardinality DEF B!Budget
<1> HIDE DEF K
<1>3. CASE n <= StartN
    BY <1>0, <1>2, <1>3, <1>5
<1>4. CASE n > StartN
    <2>1. PICK i \in Nat : i = n - StartN /\ i >= 1 /\ i + 1 = n - (StartN - 1)
        BY <1>0, <1>4
    <2>2. B!Doubled[i + 1] - 2 <= Window
        BY <1>0, <1>4, <2>1 DEF Takes
    <2>3. B!Doubled[i + 1] \in Nat /\ B!Doubled[i + 1] >= (i + 1) + 1
        <3>1. i + 1 \in Nat
            OBVIOUS
        <3> QED
            BY <3>1, DoubledIs, DoubledGrows
    <2>4. i <= Window
        BY <1>0, <2>2, <2>3
    <2>5. ASSUME NEW k \in 1..i PROVE k \in K
        <3>1. k + 1 \in Nat /\ i + 1 \in Nat /\ k + 1 <= i + 1
            OBVIOUS
        <3>2. B!Doubled[k + 1] \in Nat /\ B!Doubled[k + 1] <= B!Doubled[i + 1]
            BY <3>1, DoubledIs, DoubledGrows
        <3> QED
            BY <1>0, <2>2, <2>3, <2>4, <3>2 DEF K
    <2>6. 1..i \in SUBSET K
        BY <2>5
    <2>7. Cardinality(1..i) = i
        <3>1. Cardinality(1..i) = IF 1 > i THEN 0 ELSE i - 1 + 1
            BY FS_Interval
        <3> QED
            BY <2>1, <3>1
    <2>8. i <= Cardinality(K)
        BY <1>2, <2>6, <2>7, FS_Subset
    <2> QED
        BY <1>0, <1>2, <1>5, <2>1, <2>8
<1> QED
    BY <1>0, <1>3, <1>4

LoginRows == [id : Nat, at : Nat, ok : BOOLEAN]

LoginTypes ==
    /\ clock \in Nat /\ recorded \in Nat /\ overlapped \in BOOLEAN
    /\ attempts \in SUBSET LoginRows /\ IsFiniteSet(attempts)
    /\ trying \in [Requests -> [at : Nat, ok : BOOLEAN] \cup {B!NotTrying}]

\* Nothing is recorded ahead of the clock or of the ids.
LoginsPast ==
    /\ \A r \in attempts : r.at <= clock /\ r.id <= recorded
    /\ \A s \in Requests : trying[s] # B!NotTrying => trying[s].at <= clock

\* Rows follow one another in time.
InOrder == \A r, q \in attempts : r.id <= q.id => r.at <= q.at

\* Whoever is past the backoff is alone, came after all that is recorded, and
\* would still be let through.
StillMay ==
    \A s \in Requests : trying[s] # B!NotTrying =>
        /\ \A q \in Requests : trying[q] # B!NotTrying => q = s
        /\ \A r \in attempts : r.at <= trying[s].at
        /\ B!MayTry(trying[s].at)

\* Failures in a row have taken their time.
Paced ==
    \A r, q \in attempts :
        /\ r.id <= q.id /\ q.at - r.at <= Window
        /\ \A x \in B!Run(r, q) : ~x.ok
        => q.at - r.at >= Takes(Cardinality(B!Run(r, q)))

LoginInv == LoginTypes /\ LoginsPast /\ (~overlapped => InOrder /\ StillMay /\ Paced)

\* A finite set of rows has a last one.
LEMMA LastRow ==
    ASSUME NEW T \in SUBSET attempts, T # {}, LoginTypes, LoginsPast
    PROVE  \E b \in T : \A r \in T : r.id <= b.id
<1> DEFINE N == {recorded - r.id : r \in T}
<1>1. \A r \in T : r.id \in Nat /\ r.id <= recorded
    BY DEF LoginTypes, LoginsPast, LoginRows
<1>2. N \in SUBSET Nat /\ N # {}
    BY <1>1 DEF LoginTypes
<1> HIDE DEF N
<1>3. PICK n \in N : \A m \in N : n <= m
    BY <1>2, LeastNat
<1>4. PICK b \in T : n = recorded - b.id
    BY <1>3 DEF N
<1>5. \A r \in T : recorded - b.id <= recorded - r.id
    BY <1>3, <1>4 DEF N
<1>6. \A r \in T : r.id <= b.id
    BY <1>1, <1>5 DEF LoginTypes
<1> QED
    BY <1>6

\* A failure recorded has waited for all that it follows in its run.
LEMMA NextPaced ==
    ASSUME LoginInv, ~overlapped, NEW s \in Requests, trying[s] # B!NotTrying, NEW r \in attempts,
           trying[s].at - r.at <= Window,
           \A y \in attempts : r.id <= y.id => ~y.ok
    PROVE  trying[s].at - r.at >= Takes(Cardinality({y \in attempts : r.id <= y.id}) + 1)
<1> DEFINE T == {y \in attempts : r.id <= y.id}
           t == trying[s].at
           F == B!Failures(t)
<1>0. /\ \A y \in attempts : y.id \in Nat /\ y.at \in Nat /\ y.ok \in BOOLEAN /\ y.at <= t
      /\ t \in Nat /\ Window \in Nat
      /\ B!MayTry(t) /\ InOrder /\ Paced
    BY LoginTimesFit DEF LoginInv, LoginTypes, StillMay, LoginRows, B!TimesAssumption
<1>1. IsFiniteSet(T) /\ Cardinality(T) \in Nat /\ r \in T
    BY <1>0, FS_Subset, FS_CardinalityType DEF LoginInv, LoginTypes
<1>2. T \in SUBSET F
    <2> SUFFICES ASSUME NEW y \in T, NEW q \in B!Recent(t), q.ok PROVE y \in B!Recent(t) /\ B!Newer(y, q)
        <3>1. \A y \in T : y \in B!Recent(t)
            <4> SUFFICES ASSUME NEW y \in T PROVE y.at >= t - Window
                BY DEF B!Recent
            <4>1. r.at <= y.at
                BY <1>0 DEF InOrder
            <4> QED
                BY <1>0, <4>1
        <3> QED
            BY <3>1 DEF B!Failures
    <2>1. y \in attempts /\ q \in attempts /\ r.id <= y.id
        BY DEF B!Recent
    <2>2. ~(r.id <= q.id)
        BY <2>1
    <2>3. q.id < y.id
        BY <1>0, <2>1, <2>2
    <2>4. q.at <= y.at /\ r.at <= y.at
        BY <1>0, <2>1, <2>3 DEF InOrder
    <2>5. B!Newer(y, q)
        BY <1>0, <2>1, <2>3, <2>4 DEF B!Newer
    <2>6. y \in B!Recent(t)
        BY <1>0, <2>1, <2>4 DEF B!Recent
    <2> QED
        BY <2>5, <2>6
<1>3. F \in SUBSET attempts /\ IsFiniteSet(F) /\ Cardinality(F) \in Nat
    <2>1. F \in SUBSET attempts
        BY DEF B!Failures, B!Recent
    <2> QED
        BY <2>1, FS_Subset, FS_CardinalityType DEF LoginInv, LoginTypes
<1>4. Cardinality(T) <= Cardinality(F)
    BY <1>2, <1>3, FS_Subset
<1>5. PICK b \in T : \A y \in T : y.id <= b.id
    <2>1. T \in SUBSET attempts /\ T # {}
        BY <1>1
    <2> QED
        BY <2>1, LastRow DEF LoginInv
<1>6. \A q \in F : ~B!Newer(q, b)
    <2> SUFFICES ASSUME NEW q \in F PROVE ~B!Newer(q, b)
        OBVIOUS
    <2>1. q \in attempts
        BY <1>3
    <2>2. q.id <= b.id
        BY <1>0, <1>5, <2>1
    <2>3. q.at <= b.at
        BY <1>0, <1>5, <2>1, <2>2 DEF InOrder
    <2> QED
        BY <1>0, <1>5, <2>1, <2>2, <2>3 DEF B!Newer
<1>7. t - b.at >= B!Wait(Cardinality(F))
    <2>1. B!Cardinality(F) = Cardinality(F)
        BY LoginCardinality
    <2>2. \A q \in F : (\A y \in F : ~B!Newer(y, q)) => t - q.at >= B!Wait(Cardinality(F))
        BY <1>0, <2>1 DEF B!MayTry
    <2> QED
        BY <1>2, <1>5, <1>6, <2>2
<1>8. B!Wait(Cardinality(T)) <= B!Wait(Cardinality(F)) /\ B!Wait(Cardinality(F)) \in Nat
      /\ B!Wait(Cardinality(T)) \in Nat
    BY <1>1, <1>3, <1>4, WaitGrows
<1>9. b.at - r.at >= Takes(Cardinality(T))
    <2>1. B!Run(r, b) = T
        BY <1>5 DEF B!Run
    <2>2. b \in attempts /\ r.id <= b.id /\ b.at - r.at <= Window
        BY <1>0, <1>5
    <2> QED
        BY <1>0, <2>1, <2>2 DEF Paced
<1>10. /\ Takes(Cardinality(T)) \in Int /\ Takes(Cardinality(T) + 1) \in Int
       /\ Takes(Cardinality(T) + 1) <= Takes(Cardinality(T)) + B!Wait(Cardinality(T))
    BY <1>1, TakesMore
<1>11. b.at \in Nat /\ r.at \in Nat
    BY <1>0, <1>5
<1> HIDE DEF T, F, t
<1>12. t - r.at >= Takes(Cardinality(T) + 1)
    BY <1>0, <1>7, <1>8, <1>9, <1>10, <1>11
<1> QED
    BY <1>12 DEF T, t

LEMMA TryPaces ==
    ASSUME LoginInv, NEW s \in Requests, NEW ok \in BOOLEAN, B!Try(s, ok)
    PROVE  LoginInv'
<1>1. LoginTypes'
    BY DEF LoginInv, LoginTypes, B!Try
<1>2. LoginsPast'
    BY DEF LoginInv, LoginTypes, LoginsPast, B!Try
<1>3. ASSUME ~overlapped' PROVE (InOrder /\ StillMay /\ Paced)'
    <2>1. ~overlapped /\ \A q \in Requests : trying[q] = B!NotTrying
        BY <1>3 DEF LoginInv, LoginTypes, B!Try
    <2>2. InOrder' /\ Paced'
        BY <2>1 DEF LoginInv, InOrder, Paced, B!Run, B!Try
    <2>3. \A q \in Requests : trying'[q] # B!NotTrying => q = s
        BY <2>1 DEF LoginInv, LoginTypes, B!Try
    <2>4. trying'[s].at = clock
        BY DEF LoginInv, LoginTypes, B!Try
    <2>5. B!MayTry(clock) /\ UNCHANGED attempts
        BY DEF B!Try
    <2>6. \A r \in attempts : r.at <= clock
        BY DEF LoginInv, LoginsPast
    <2>7. B!MayTry(trying[s].at)'
        BY <2>4, <2>5 DEF B!MayTry, B!Failures, B!Recent
    <2>8. StillMay'
        BY <2>3, <2>4, <2>5, <2>6, <2>7 DEF StillMay
    <2> QED
        BY <2>2, <2>8
<1> QED
    BY <1>1, <1>2, <1>3 DEF LoginInv

\* Whatever leaves the rows alone and starts no login.
LEMMA LoginsIdle ==
    ASSUME LoginInv, UNCHANGED <<attempts, recorded, overlapped>>, clock' \in Nat, clock <= clock',
           trying' \in [Requests -> [at : Nat, ok : BOOLEAN] \cup {B!NotTrying}],
           \A s \in Requests : trying'[s] \in {trying[s], B!NotTrying}
    PROVE  LoginInv'
<1>1. LoginTypes'
    BY DEF LoginInv, LoginTypes
<1>2. LoginsPast'
    <2>1. \A r \in attempts : r.at \in Nat
        BY DEF LoginInv, LoginTypes, LoginRows
    <2>2. \A s \in Requests : trying'[s] # B!NotTrying => trying[s] # B!NotTrying /\ trying'[s] = trying[s] /\ trying[s].at \in Nat
        BY DEF LoginInv, LoginTypes
    <2> QED
        BY <2>1, <2>2 DEF LoginInv, LoginTypes, LoginsPast
<1>3. ASSUME ~overlapped PROVE (InOrder /\ StillMay /\ Paced)'
    <2>1. InOrder' /\ Paced'
        BY <1>3 DEF LoginInv, InOrder, Paced, B!Run
    <2>2. ASSUME NEW s \in Requests, trying'[s] # B!NotTrying
          PROVE  /\ \A q \in Requests : trying'[q] # B!NotTrying => q = s
                 /\ \A r \in attempts' : r.at <= trying'[s].at
                 /\ B!MayTry(trying[s].at)'
        <3>1. trying[s] # B!NotTrying /\ trying'[s] = trying[s]
            BY <2>2
        <3>2. /\ \A q \in Requests : trying[q] # B!NotTrying => q = s
              /\ \A r \in attempts : r.at <= trying[s].at
              /\ B!MayTry(trying[s].at)
            BY <1>3, <3>1 DEF LoginInv, StillMay
        <3>3. B!MayTry(trying[s].at)'
            BY <3>1, <3>2 DEF B!MayTry, B!Failures, B!Recent
        <3> QED
            BY <3>1, <3>2, <3>3
    <2>3. StillMay'
        BY <2>2 DEF StillMay
    <2> QED
        BY <2>1, <2>3
<1> QED
    BY <1>1, <1>2, <1>3 DEF LoginInv

LEMMA RecordPaces ==
    ASSUME LoginInv, NEW s \in Requests, B!Record(s)
    PROVE  LoginInv'
<1> DEFINE row == [id |-> recorded + 1, at |-> trying[s].at, ok |-> trying[s].ok]
<1>0. /\ row \in LoginRows /\ row.id = recorded + 1 /\ row.at = trying[s].at
      /\ attempts' = {r \in attempts \cup {row} : r.at >= row.at - Retention}
      /\ recorded' = recorded + 1 /\ recorded \in Nat
      /\ trying' = [trying EXCEPT ![s] = B!NotTrying] /\ trying[s] # B!NotTrying
      /\ UNCHANGED <<clock, overlapped>>
      /\ \A r \in attempts : r.id \in Nat /\ r.at \in Nat /\ r.id <= recorded
    BY DEF LoginInv, LoginTypes, LoginsPast, LoginRows, B!Record
<1> HIDE DEF row
<1>1. LoginTypes'
    <2>1. IsFiniteSet(attempts \cup {row})
        BY FS_AddElement DEF LoginInv, LoginTypes
    <2>2. attempts' \in SUBSET (attempts \cup {row})
        BY <1>0
    <2>3. IsFiniteSet(attempts')
        BY <2>1, <2>2, FS_Subset
    <2> QED
        BY <1>0, <2>2, <2>3 DEF LoginInv, LoginTypes
<1>2. LoginsPast'
    BY <1>0 DEF LoginInv, LoginTypes, LoginsPast
<1>3. ASSUME ~overlapped PROVE (InOrder /\ StillMay /\ Paced)'
    <2>1. /\ InOrder /\ Paced
          /\ \A q \in Requests : trying[q] # B!NotTrying => q = s
          /\ \A r \in attempts : r.at <= row.at
        BY <1>0, <1>3 DEF LoginInv, StillMay
    <2>2. row.at \in Nat /\ Retention \in Nat /\ row \notin attempts
        BY <1>0, LoginTimesFit DEF LoginRows, B!TimesAssumption
    <2>3. InOrder'
        <3> SUFFICES ASSUME NEW r \in attempts', NEW q \in attempts', r.id <= q.id PROVE r.at <= q.at
            BY DEF InOrder
        <3>1. CASE q = row
            BY <1>0, <2>1, <2>2, <3>1
        <3>2. CASE q # row
            <4>1. q \in attempts /\ r # row
                BY <1>0, <3>2
            <4> QED
                BY <1>0, <2>1, <4>1 DEF InOrder
        <3> QED
            BY <3>1, <3>2
    <2>4. StillMay'
        <3>1. \A q \in Requests : trying'[q] = B!NotTrying
            BY <1>0, <2>1 DEF LoginInv, LoginTypes
        <3> QED
            BY <3>1 DEF StillMay
    <2>5. Paced'
        <3> SUFFICES ASSUME NEW r \in attempts', NEW q \in attempts', r.id <= q.id, q.at - r.at <= Window,
                            \A x \in B!Run(r, q)' : ~x.ok
                     PROVE  q.at - r.at >= Takes(Cardinality(B!Run(r, q)'))
            BY DEF Paced
        <3>1. CASE q # row
            <4>1. q \in attempts /\ r # row /\ r \in attempts
                BY <1>0, <3>1
            <4>2. ASSUME NEW y \in attempts, r.id <= y.id PROVE y \in attempts'
                <5>1. r.at <= y.at
                    BY <2>1, <4>1, <4>2 DEF InOrder
                <5> QED
                    BY <1>0, <2>2, <4>1, <5>1
            <4>3. B!Run(r, q)' = B!Run(r, q)
                BY <1>0, <4>1, <4>2 DEF B!Run
            <4> QED
                BY <2>1, <4>1, <4>3 DEF Paced
        <3>2. CASE q = row /\ r = row
            <4>1. B!Run(r, q)' = {row}
                BY <1>0, <2>2, <3>2 DEF B!Run
            <4>2. Cardinality({row}) = 1
                BY FS_Singleton
            <4>3. Takes(1) = 0
                BY LoginTimesFit DEF Takes, B!TimesAssumption
            <4> QED
                BY <2>2, <3>2, <4>1, <4>2, <4>3
        <3>3. CASE q = row /\ r # row
            <4> DEFINE T == {y \in attempts : r.id <= y.id}
            <4>1. r \in attempts
                BY <1>0, <3>3
            <4>2. ASSUME NEW y \in T PROVE y \in attempts'
                <5>1. r.at <= y.at
                    BY <2>1, <4>1 DEF InOrder
                <5> QED
                    BY <1>0, <2>2, <4>1, <5>1
            <4>3. B!Run(r, q)' = T \cup {row}
                BY <1>0, <2>2, <3>3, <4>1, <4>2 DEF B!Run
            <4>4. \A y \in attempts : r.id <= y.id => ~y.ok
                BY <4>3
            <4>5. IsFiniteSet(T) /\ Cardinality(T \cup {row}) = Cardinality(T) + 1
                <5>1. IsFiniteSet(T)
                    BY FS_Subset DEF LoginInv, LoginTypes
                <5> QED
                    BY <2>2, <5>1, FS_AddElement
            <4>6. row.at - r.at >= Takes(Cardinality(T) + 1)
                BY <1>0, <1>3, <3>3, <4>1, <4>4, NextPaced
            <4> QED
                BY <3>3, <4>3, <4>5, <4>6
        <3> QED
            BY <3>1, <3>2, <3>3
    <2> QED
        BY <2>3, <2>4, <2>5
<1> QED
    BY <1>0, <1>1, <1>2, <1>3 DEF LoginInv

LEMMA LoginsKeep == LoginInv /\ [B!Next]_(B!vars) => LoginInv'
<1> SUFFICES ASSUME LoginInv, [B!Next]_(B!vars) PROVE LoginInv'
    OBVIOUS
<1>0. /\ clock \in Nat
      /\ trying \in [Requests -> [at : Nat, ok : BOOLEAN] \cup {B!NotTrying}]
    BY DEF LoginInv, LoginTypes
<1>1. CASE \E s \in Requests, ok \in BOOLEAN : B!Try(s, ok)
    BY <1>1, TryPaces
<1>2. CASE \E s \in Requests : B!Record(s)
    BY <1>2, RecordPaces
<1>3. ASSUME NEW s \in Requests, B!Die(s) PROVE LoginInv'
    BY <1>0, <1>3, LoginsIdle DEF B!Die
<1>4. CASE B!Tick
    BY <1>0, <1>4, LoginsIdle DEF B!Tick
<1>5. CASE UNCHANGED B!vars
    BY <1>0, <1>5, LoginsIdle DEF B!vars
<1> QED
    BY <1>1, <1>2, <1>3, <1>4, <1>5 DEF B!Next

LEMMA LoginsSound == LoginInv => LockoutSound
<1> SUFFICES ASSUME LoginInv PROVE B!GuessBudget /\ B!LockoutBounded
    BY DEF LockoutSound, B!LockoutSound
<1>0. /\ \A r \in attempts : r.id \in Nat /\ r.at \in Nat /\ r.at <= clock
      /\ clock \in Nat /\ Window \in Nat
    BY LoginTimesFit DEF LoginInv, LoginTypes, LoginsPast, LoginRows, B!TimesAssumption
<1>1. B!GuessBudget
    <2> SUFFICES ASSUME ~overlapped, NEW r \in attempts, NEW q \in attempts, r.id <= q.id, q.at - r.at <= Window,
                        \A x \in B!Run(r, q) : ~x.ok
                 PROVE  Cardinality(B!Run(r, q)) <= B!Budget
        BY LoginCardinality DEF B!GuessBudget
    <2>1. B!Run(r, q) \in SUBSET attempts
        BY DEF B!Run
    <2>2. Cardinality(B!Run(r, q)) \in Nat
        BY <2>1, FS_Subset, FS_CardinalityType DEF LoginInv, LoginTypes
    <2>3. q.at - r.at >= Takes(Cardinality(B!Run(r, q)))
        BY DEF LoginInv, Paced
    <2>4. Takes(Cardinality(B!Run(r, q))) \in Int
        BY <2>2, TakesMore
    <2>5. Takes(Cardinality(B!Run(r, q))) <= Window
        BY <1>0, <2>3, <2>4
    <2> QED
        BY <2>2, <2>5, WindowHolds
<1>2. B!LockoutBounded
    <2>1. B!Failures(clock + Window + 1) = {}
        BY <1>0 DEF B!Failures, B!Recent
    <2> QED
        BY <2>1 DEF B!LockoutBounded, B!MayTry
<1> QED
    BY <1>1, <1>2

\* While logins come one at a time, one window lets no more passwords be tried
\* than the growing waits leave room for, for any window and any number of free
\* attempts; and whatever failed, the account can be tried again a window later.
THEOREM LockoutSoundHolds == B!Spec => []LockoutSound
<1>1. B!Init => LoginInv
    <2> SUFFICES ASSUME B!Init PROVE LoginInv
        OBVIOUS
    <2>1. LoginTypes
        BY FS_EmptySet DEF B!Init, LoginTypes
    <2>2. LoginsPast /\ InOrder /\ StillMay /\ Paced
        BY DEF B!Init, LoginsPast, InOrder, StillMay, Paced
    <2> QED
        BY <2>1, <2>2 DEF LoginInv
<1> QED
    BY <1>1, LoginsKeep, LoginsSound, PTL DEF B!Spec
============================================================================
