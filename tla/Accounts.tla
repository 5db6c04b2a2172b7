------------------------------ MODULE Accounts ------------------------------
(***************************************************************************)
(* Accounts, log-in with its lock, and refresh tokens: app/modules/auth    *)
(* and the member's password in app/modules/users.                         *)
(*                                                                         *)
(* A request reads the row it works on in one step and commits in another  *)
(* (app/api/dependencies/database.py).  Between the two it keeps what it   *)
(* read: the ORM writes back only the columns whose value it changed, and  *)
(* writes the value it computed from what it read.  A request that raises  *)
(* before it wrote anything changes nothing and is not a step.             *)
(*                                                                         *)
(* No handler sets User.deletedAt, so every account stays active; profile  *)
(* columns (name, phone) are left out.                                     *)
(***************************************************************************)
EXTENDS Naturals, FiniteSets

CONSTANTS
    Users,        \* pool of user ids (bounds the accounts ever made)
    Emails,       \* emails that sign up
    Identities,   \* (provider, providerUserId) pairs that log in
    Passwords,    \* passwords clients use
    Tokens,       \* pool of refresh tokens (bounds the tokens ever issued)
    Calls,        \* requests in progress at a time
    MaxFailures,  \* MAX_LOGIN_FAILURES
    MaxWrong,     \* bound on the wrong passwords ever tried on an account
    NoUser, NoToken, NoPassword

\* A row of user; a lock is in the future, or its time is over, or never was.
Account == [key : Emails \cup Identities, password : Passwords \cup {NoPassword},
            fails : Nat, lock : {"none", "ahead", "over"}]

\* family is the first token of the log-in a token descends from.
Token == [user : Users, family : Tokens, revoked : BOOLEAN, expired : BOOLEAN]

ASSUME AccountsAssumption ==
    /\ MaxFailures \in Nat \ {0}
    /\ MaxWrong \in Nat
    /\ NoPassword \notin Passwords
    /\ Emails \cap Identities = {}
    /\ NoUser \notin Account /\ NoToken \notin Token

VARIABLES
    users,    \* the user table
    tokens,   \* the refreshToken table
    calls     \* what each request in progress has read

\* What happened, for the properties; no handler reads these.
VARIABLES
    wrong,    \* wrong passwords committed for each account
    streak,   \* those since the last successful log-in
    raced,    \* accounts with a log-in decided on a row read before another log-in committed
    rotated,  \* tokens a refresh has replaced
    forked,   \* log-ins one of whose tokens was refreshed by two requests that overlapped
    out,      \* log-ins that a logout was answered for
    survived  \* log-ins kept active by a refresh that overlapped their last logout

rows == <<users, tokens, calls>>
chainHistory == <<rotated, forked, out, survived>>
authHistory == <<wrong, streak, raced, chainHistory>>
authVars == <<rows, authHistory>>

Idle == [op |-> "idle"]

\* stale: another request for the same row has committed since this one read it.
LoginCall ==
    [op : {"login"}, user : Users, read : Account, right : BOOLEAN, stale : BOOLEAN]
TokenCall == [op : {"refresh", "logout"}, token : Tokens, stale : BOOLEAN]
PasswordCall ==
    [op : {"password"}, user : Users, current : Passwords, new : Passwords, stale : BOOLEAN]

Call ==
    {Idle}
    \cup [op : {"signup"}, email : Emails, password : Passwords]
    \cup [op : {"social"}, identity : Identities, user : Users \cup {NoUser}]
    \cup LoginCall \cup TokenCall \cup PasswordCall

AuthTypeOK ==
    /\ users \in [Users -> Account \cup {NoUser}]
    /\ tokens \in [Tokens -> Token \cup {NoToken}]
    /\ calls \in [Calls -> Call]
    /\ wrong \in [Users -> Nat] /\ streak \in [Users -> Nat]
    /\ raced \subseteq Users
    /\ rotated \subseteq Tokens /\ forked \subseteq Tokens
    /\ out \subseteq Tokens /\ survived \subseteq Tokens

Accounts == {u \in Users : users[u] # NoUser}
Issued == {t \in Tokens : tokens[t] # NoToken}
AccountsOf(key) == {u \in Accounts : users[u].key = key}

AuthInit ==
    /\ users = [u \in Users |-> NoUser]
    /\ tokens = [t \in Tokens |-> NoToken]
    /\ calls = [c \in Calls |-> Idle]
    /\ wrong = [u \in Users |-> 0] /\ streak = [u \in Users |-> 0]
    /\ raced = {}
    /\ rotated = {} /\ forked = {} /\ out = {} /\ survived = {}

Start(c, call) == calls[c] = Idle /\ calls' = [calls EXCEPT ![c] = call]
Finish(c) == calls' = [calls EXCEPT ![c] = Idle]

\* The request ends, and those that read the same row before it are now stale.
FinishOver(c, overtaken) ==
    calls' = [d \in Calls |-> IF d = c THEN Idle
                             ELSE IF d \in overtaken THEN [calls[d] EXCEPT !.stale = TRUE]
                             ELSE calls[d]]

OverUser(c) ==
    FinishOver(c, {d \in Calls : calls[d].op = calls[c].op /\ calls[d].user = calls[c].user})
OverToken(c) ==
    FinishOver(c, {d \in Calls : /\ calls[d].op \in {"refresh", "logout"}
                                 /\ calls[d].token = calls[c].token})

(***************************************************************************)
(* The unique constraints of user: a local email, a provider identity.     *)
(***************************************************************************)
Insertable(u, key) == u \notin Accounts /\ AccountsOf(key) = {}

NewAccount(key, password) ==
    [key |-> key, password |-> password, fails |-> 0, lock |-> "none"]

\* A log-in's first token starts a family of its own.
IssueFirst(n, u) ==
    /\ n \notin Issued
    /\ tokens' = [tokens EXCEPT ![n] =
         [user |-> u, family |-> n, revoked |-> FALSE, expired |-> FALSE]]

SignupRead(c) ==
    \E e \in Emails, p \in Passwords :
        /\ AccountsOf(e) = {}
        /\ Start(c, [op |-> "signup", email |-> e, password |-> p])
        /\ UNCHANGED <<users, tokens, authHistory>>

SignupInsert(c) ==
    /\ calls[c].op = "signup"
    /\ \E u \in Users : /\ Insertable(u, calls[c].email)
                        /\ users' = [users EXCEPT ![u] = NewAccount(calls[c].email, calls[c].password)]
    /\ Finish(c)
    /\ UNCHANGED <<tokens, authHistory>>

\* The insert of a signup or of a first social log-in meets the row of another.
Conflict(c) ==
    /\ \/ calls[c].op = "signup" /\ AccountsOf(calls[c].email) # {}
       \/ calls[c].op = "social" /\ calls[c].user = NoUser /\ AccountsOf(calls[c].identity) # {}
    /\ Finish(c)
    /\ UNCHANGED <<users, tokens, authHistory>>

\* Mutant: the lock is looked at after the password.
LockableAlways(read) == TRUE

Lockable(read) == read.lock # "ahead"

\* A locked account answers 429 here, before the password is looked at.
LoginRead(c) ==
    \E u \in Accounts, p \in Passwords :
        /\ users[u].key \in Emails
        /\ Lockable(users[u])
        /\ p # users[u].password => wrong[u] < MaxWrong
        /\ Start(c, [op |-> "login", user |-> u, read |-> users[u],
                     right |-> p = users[u].password, stale |-> FALSE])
        /\ UNCHANGED <<users, tokens, authHistory>>

NoteRace(c) ==
    raced' = IF calls[c].stale THEN raced \cup {calls[c].user} ELSE raced

\* Mutant: the limit is off by one.
FailedTooEarly(row, read) ==
    IF read.fails + 2 >= MaxFailures
    THEN [row EXCEPT !.fails = 0, !.lock = "ahead"]
    ELSE [row EXCEPT !.fails = read.fails + 1]

\* The counter and the lock a wrong password leaves on a row read as read.
Failed(row, read) ==
    IF read.fails + 1 >= MaxFailures
    THEN [row EXCEPT !.fails = IF read.fails = 0 THEN row.fails ELSE 0, !.lock = "ahead"]
    ELSE [row EXCEPT !.fails = read.fails + 1]

LoginWrong(c) ==
    /\ calls[c].op = "login" /\ ~calls[c].right
    /\ LET u == calls[c].user IN
         /\ wrong[u] < MaxWrong
         /\ users' = [users EXCEPT ![u] = Failed(@, calls[c].read)]
         /\ wrong' = [wrong EXCEPT ![u] = @ + 1]
         /\ streak' = [streak EXCEPT ![u] = @ + 1]
    /\ NoteRace(c)
    /\ OverUser(c)
    /\ UNCHANGED <<tokens, chainHistory>>

\* Mutant: a log-in clears the lock but not the counter.
SucceededKeepsCount(row, read) ==
    [row EXCEPT !.lock = IF read.lock = "none" THEN @ ELSE "none"]

\* Columns already 0 and NULL when they were read are not written.
Succeeded(row, read) ==
    [row EXCEPT !.fails = IF read.fails = 0 THEN @ ELSE 0,
                !.lock = IF read.lock = "none" THEN @ ELSE "none"]

LoginRight(c) ==
    /\ calls[c].op = "login" /\ calls[c].right
    /\ LET u == calls[c].user IN
         /\ users' = [users EXCEPT ![u] = Succeeded(@, calls[c].read)]
         /\ \E n \in Tokens : IssueFirst(n, u)
         /\ streak' = [streak EXCEPT ![u] = 0]
    /\ NoteRace(c)
    /\ OverUser(c)
    /\ UNCHANGED <<wrong, chainHistory>>

SocialRead(c) ==
    \E i \in Identities :
        /\ Start(c, [op |-> "social", identity |-> i,
                     user |-> IF AccountsOf(i) = {} THEN NoUser
                              ELSE CHOOSE u \in AccountsOf(i) : TRUE])
        /\ UNCHANGED <<users, tokens, authHistory>>

SocialLogin(c) ==
    /\ calls[c].op = "social"
    /\ \E n \in Tokens :
         \/ /\ calls[c].user # NoUser
            /\ IssueFirst(n, calls[c].user)
            /\ UNCHANGED users
         \/ /\ calls[c].user = NoUser
            /\ \E u \in Users :
                 /\ Insertable(u, calls[c].identity)
                 /\ users' = [users EXCEPT ![u] = NewAccount(calls[c].identity, NoPassword)]
                 /\ IssueFirst(n, u)
    /\ Finish(c)
    /\ UNCHANGED authHistory

ActiveTokens == {t \in Issued : ~tokens[t].revoked}

\* Mutant: the token is looked up by its hash alone.
RefreshableByHash(t) == ~tokens[t].expired

Refreshable(t) == ~tokens[t].revoked /\ ~tokens[t].expired

RefreshRead(c) ==
    \E t \in Issued :
        /\ Refreshable(t)
        /\ Start(c, [op |-> "refresh", token |-> t, stale |-> FALSE])
        /\ UNCHANGED <<users, tokens, authHistory>>

\* Mutant: the repository adds the new token before the user has been loaded.
RotatedForNobody(t, n) ==
    [tokens EXCEPT ![t].revoked = TRUE,
                   ![n] = [user |-> NoUser, family |-> tokens[t].family,
                           revoked |-> FALSE, expired |-> FALSE]]

\* Mutant: the presented token is not revoked.
NotRotated(t, n) ==
    [tokens EXCEPT ![n] = [user |-> tokens[t].user, family |-> tokens[t].family,
                           revoked |-> FALSE, expired |-> FALSE]]

\* The UPDATE names the row by its id, so it also succeeds on a revoked token.
Rotated(t, n) ==
    [tokens EXCEPT ![t].revoked = TRUE,
                   ![n] = [user |-> tokens[t].user, family |-> tokens[t].family,
                           revoked |-> FALSE, expired |-> FALSE]]

\* An overtaken refresh forks the chain if another refresh has replaced the token
\* meanwhile; if only a logout has revoked it, the log-in survives that logout.
RefreshCommit(c) ==
    /\ calls[c].op = "refresh"
    /\ LET t == calls[c].token
           family == {tokens[t].family}
       IN  /\ \E n \in Tokens \ Issued : tokens' = Rotated(t, n)
           /\ rotated' = rotated \cup {t}
           /\ forked' = IF calls[c].stale /\ t \in rotated THEN forked \cup family ELSE forked
           /\ survived' = IF calls[c].stale /\ t \notin rotated
                          THEN survived \cup family ELSE survived
    /\ OverToken(c)
    /\ UNCHANGED <<users, wrong, streak, raced, out>>

\* Any member may present any token; one that is not active changes nothing.
LogoutRead(c) ==
    \E t \in ActiveTokens :
        /\ Start(c, [op |-> "logout", token |-> t, stale |-> FALSE])
        /\ UNCHANGED <<users, tokens, authHistory>>

\* A refresh that has replaced the token since it was read survives the logout.
LogoutCommit(c) ==
    /\ calls[c].op = "logout"
    /\ LET t == calls[c].token
           family == {tokens[t].family}
       IN  /\ tokens' = [tokens EXCEPT ![t].revoked = TRUE]
           /\ out' = out \cup family
           /\ survived' = IF calls[c].stale /\ t \in rotated
                          THEN survived \cup family ELSE survived \ family
    /\ OverToken(c)
    /\ UNCHANGED <<users, wrong, streak, raced, rotated, forked>>

\* A social account (no password) and a wrong current password are refused.
Verified(u, current) == users[u].password = current

PasswordRead(c) ==
    \E u \in Accounts, p, q \in Passwords :
        /\ Verified(u, p)
        /\ Start(c, [op |-> "password", user |-> u, current |-> p, new |-> q, stale |-> FALSE])
        /\ UNCHANGED <<users, tokens, authHistory>>

PasswordCommit(c) ==
    /\ calls[c].op = "password"
    /\ users' = [users EXCEPT ![calls[c].user].password = calls[c].new]
    /\ OverUser(c)
    /\ UNCHANGED <<tokens, authHistory>>

\* The process is killed, or the connection lost, before the commit.
CallLost(c) ==
    /\ calls[c] # Idle
    /\ Finish(c)
    /\ UNCHANGED <<users, tokens, authHistory>>

\* Time passes: fifteen minutes of a lock, the fourteen days of a token.
LockRunsOut ==
    \E u \in Accounts :
        /\ users[u].lock = "ahead"
        /\ users' = [users EXCEPT ![u].lock = "over"]
        /\ UNCHANGED <<tokens, calls, authHistory>>

TokenExpires ==
    \E t \in ActiveTokens :
        /\ ~tokens[t].expired
        /\ tokens' = [tokens EXCEPT ![t].expired = TRUE]
        /\ UNCHANGED <<users, calls, authHistory>>

AuthStep(c) ==
    \/ SignupRead(c) \/ SignupInsert(c) \/ Conflict(c)
    \/ LoginRead(c) \/ LoginWrong(c) \/ LoginRight(c)
    \/ SocialRead(c) \/ SocialLogin(c)
    \/ RefreshRead(c) \/ RefreshCommit(c)
    \/ LogoutRead(c) \/ LogoutCommit(c)
    \/ PasswordRead(c) \/ PasswordCommit(c)
    \/ CallLost(c)

AuthNext == (\E c \in Calls : AuthStep(c)) \/ LockRunsOut \/ TokenExpires

AuthSpec == AuthInit /\ [][AuthNext]_authVars

-----------------------------------------------------------------------------
(***************************************************************************)
(* Properties.                                                             *)
(***************************************************************************)

\* As long as the log-ins of an account did not overlap, loginFailCount counts
\* the failures in a row, and the account has been locked by exactly every
\* MaxFailures-th of them.
LockoutExact ==
    \A u \in Accounts \ raced :
        /\ users[u].fails = streak[u] % MaxFailures
        /\ users[u].lock = "none" <=> streak[u] < MaxFailures

\* Whatever overlaps, an account is locked only after MaxFailures wrong
\* passwords: racing log-ins may lose failures but never make some up.
LockNeedsFailures ==
    \A u \in Accounts : users[u].lock # "none" => wrong[u] >= MaxFailures

\* The token chain of one log-in has a single active token, the rotation's
\* point, unless two refreshes of one token overlapped.  A logout that overlaps
\* a refresh forks nothing: it leaves one active token at most.
OneActivePerLogin ==
    \A s, t \in ActiveTokens :
        tokens[s].family = tokens[t].family /\ s # t => tokens[s].family \in forked

\* After a logout nothing of that log-in is active, however many rotations,
\* expiries and lost answers came before or come after it.  Two kinds of log-in
\* are exempt, since the code does leave them active: a forked one, whose logout
\* revokes only the branch it presents, and one whose token a refresh had under
\* way at the logout: both read it active, so that whichever commits first, the
\* new token stays.  The second is so only until its next logout.
LogoutEndsLogin ==
    \A t \in ActiveTokens : tokens[t].family \in out => tokens[t].family \in forked \cup survived

\* A lock still ahead ends before its time only by a log-in that had read the
\* account with an earlier lock already over; a log-in that read no lock
\* leaves the one set meanwhile in place.
LockHolds ==
    [][\A u \in Accounts :
          users[u].lock = "ahead" /\ users'[u].lock = "none"
            => \E c \in Calls : /\ calls[c].op = "login" /\ calls[c].user = u /\ calls[c].stale
                                /\ calls[c].read.lock = "over"
                                /\ calls'[c] = Idle]_authVars
=============================================================================
