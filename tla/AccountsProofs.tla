---------------------------- MODULE AccountsProofs ----------------------------
(***************************************************************************)
(* Theorems about Accounts for any accounts, tokens, requests and limits.  *)
(***************************************************************************)
EXTENDS Accounts, Integers, TLAPS

\* What a request holds of the row it read is still so when no other request
\* for that row has committed since.
CallTrue(call) ==
    /\ call.op \in {"login", "password"} => call.user \in Accounts
    /\ call.op = "social" => call.user \in Accounts \cup {NoUser}
    /\ call.op \in {"refresh", "logout"} =>
         /\ call.token \in Issued
         /\ ~call.stale => ~tokens[call.token].revoked
    /\ call.op = "login" =>
         /\ call.read.lock # "ahead"
         /\ call.read.fails <= wrong[call.user]
         /\ ~call.stale => call.read.lock = users[call.user].lock

CountsTrue ==
    /\ \A u \in Accounts : users[u].fails <= wrong[u]
    /\ LockNeedsFailures

\* A chain that has not forked has one end: the token no refresh has replaced.
OneEnd ==
    \A s, t \in Issued \ rotated :
        tokens[s].family = tokens[t].family /\ s # t => tokens[s].family \in forked

FamiliesTrue ==
    /\ \A t \in Issued : tokens[t].family \in Issued
    /\ out \subseteq Issued /\ rotated \subseteq Issued
    /\ \A t \in rotated : tokens[t].revoked
    /\ OneEnd
    /\ LogoutEndsLogin

AuthInv ==
    /\ AuthTypeOK
    /\ \A c \in Calls : CallTrue(calls[c])
    /\ CountsTrue
    /\ FamiliesTrue

-----------------------------------------------------------------------------
(***************************************************************************)
(* The shape of rows and requests.                                         *)
(***************************************************************************)
LEMMA CallShape ==
  ASSUME NEW call \in Call
  PROVE  /\ call.op = "login" <=> call \in LoginCall
         /\ call.op \in {"refresh", "logout"} <=> call \in TokenCall
         /\ call.op = "password" <=> call \in PasswordCall
         /\ call.op = "signup" => call.email \in Emails /\ call.password \in Passwords
         /\ call.op = "social" => call.identity \in Identities
         /\ call.op = "idle" <=> call = Idle
  BY DEF Call, Idle, LoginCall, TokenCall, PasswordCall

LEMMA UserRowShape ==
  ASSUME AuthTypeOK
  PROVE  /\ \A u \in Accounts : users[u] \in Account
         /\ \A t \in Issued : tokens[t] \in Token
         /\ \A u \in Users : users[u] \in Account => u \in Accounts
         /\ \A t \in Tokens : tokens[t] \in Token => t \in Issued
  BY AccountsAssumption DEF AuthTypeOK, Accounts, Issued

\* A request that is overtaken differs only in being stale.
LEMMA OvertakenType ==
  ASSUME NEW call \in Call, call.op \in {"login", "refresh", "logout", "password"}
  PROVE  /\ [call EXCEPT !.stale = TRUE] \in Call
         /\ [call EXCEPT !.stale = TRUE].op = call.op
         /\ [call EXCEPT !.stale = TRUE].stale
         /\ call.op \in {"login", "password"} =>
              [call EXCEPT !.stale = TRUE].user = call.user
         /\ call.op = "login" => [call EXCEPT !.stale = TRUE].read = call.read
         /\ call.op \in {"refresh", "logout"} =>
              [call EXCEPT !.stale = TRUE].token = call.token
<1>1. CASE call \in LoginCall
  BY <1>1 DEF LoginCall, Call
<1>2. CASE call \in TokenCall
  BY <1>2 DEF TokenCall, Call
<1>3. CASE call \in PasswordCall
  BY <1>3 DEF PasswordCall, Call
<1>. QED  BY <1>1, <1>2, <1>3, CallShape

-----------------------------------------------------------------------------
(***************************************************************************)
(* The three parts of the invariant.  A request's part is disturbed only   *)
(* by a step that changes its row without marking it stale.                *)
(***************************************************************************)
LEMMA CallKept ==
  ASSUME AuthTypeOK, NEW call \in Call, CallTrue(call),
         Accounts \subseteq Accounts', Issued \subseteq Issued',
         \A u \in Users : wrong[u] <= wrong'[u] /\ wrong'[u] \in Nat,
         call.op = "login" /\ ~call.stale => users'[call.user].lock = users[call.user].lock,
         call.op \in {"refresh", "logout"} /\ ~call.stale =>
             tokens'[call.token].revoked = tokens[call.token].revoked
  PROVE  CallTrue(call)'
<1>1. CASE call.op = "login"
  <2>1. call.user \in Users /\ call.read.fails \in Nat
    BY <1>1, CallShape DEF LoginCall, Account
  <2>2. wrong[call.user] \in Nat
    BY <2>1 DEF AuthTypeOK
  <2>. QED  BY <1>1, <2>1, <2>2 DEF CallTrue
<1>2. CASE call.op # "login"
  BY <1>2 DEF CallTrue
<1>. QED  BY <1>1, <1>2

LEMMA IdleTrue == CallTrue(Idle) /\ CallTrue(Idle)' /\ Idle \in Call
  BY DEF CallTrue, Idle, Call

LEMMA CountsKept ==
  ASSUME CountsTrue, UNCHANGED <<users, wrong>>
  PROVE  CountsTrue'
  BY DEF CountsTrue, Accounts, LockNeedsFailures

LEMMA FamiliesKept ==
  ASSUME FamiliesTrue, UNCHANGED <<tokens, chainHistory>>
  PROVE  FamiliesTrue'
  BY DEF FamiliesTrue, chainHistory, Issued, ActiveTokens, OneEnd, LogoutEndsLogin

\* A step of one request that changes no table.
LEMMA CallLocalStep ==
  ASSUME AuthInv, NEW c \in Calls, NEW new \in Call,
         calls' = [calls EXCEPT ![c] = new], CallTrue(new),
         UNCHANGED <<users, tokens, authHistory>>
  PROVE  AuthInv'
<1>1. AuthTypeOK'
  BY DEF AuthInv, AuthTypeOK, authHistory, chainHistory
<1>2. ASSUME NEW d \in Calls
      PROVE  CallTrue(calls[d])'
  <2>1. calls'[d] \in Call /\ CallTrue(calls'[d])
    BY DEF AuthInv, AuthTypeOK
  <2>. QED  BY <2>1 DEF CallTrue, Accounts, Issued, authHistory
<1>. QED  BY <1>1, <1>2, CountsKept, FamiliesKept DEF AuthInv, authHistory

\* A new account is nobody's before and has neither failures nor a lock.
LEMMA InsertKeeps ==
  ASSUME AuthTypeOK, CountsTrue, NEW u \in Users, u \notin Accounts,
         NEW key \in Emails \cup Identities, NEW password \in Passwords \cup {NoPassword},
         users' = [users EXCEPT ![u] = NewAccount(key, password)],
         UNCHANGED wrong
  PROVE  /\ users' \in [Users -> Account \cup {NoUser}]
         /\ CountsTrue'
         /\ Accounts \subseteq Accounts'
         /\ u \in Accounts'
         /\ \A v \in Accounts : users'[v] = users[v]
<1>1. NewAccount(key, password) \in Account
  BY DEF NewAccount, Account
<1>2. users' \in [Users -> Account \cup {NoUser}]
  BY <1>1 DEF AuthTypeOK
<1>3. \A v \in Users : users'[v] = IF v = u THEN NewAccount(key, password) ELSE users[v]
  BY DEF AuthTypeOK
<1>4. Accounts' = Accounts \cup {u}
  BY <1>1, <1>3, AccountsAssumption DEF Accounts
<1>5. CountsTrue'
  <2>1. ASSUME NEW v \in Accounts'
        PROVE  users'[v].fails <= wrong[v] /\ (users'[v].lock # "none" => wrong[v] >= MaxFailures)
    <3>1. CASE v = u
      BY <1>3, <3>1 DEF NewAccount, AuthTypeOK
    <3>2. CASE v # u
      BY <1>3, <1>4, <3>2 DEF CountsTrue, LockNeedsFailures
    <3>. QED  BY <3>1, <3>2
  <2>. QED  BY <2>1 DEF CountsTrue, LockNeedsFailures
<1>. QED  BY <1>2, <1>3, <1>4, <1>5

\* A first token starts a family nobody had, so it joins no chain and no log-in
\* that was ended.
LEMMA IssueKeeps ==
  ASSUME AuthTypeOK, FamiliesTrue, NEW n \in Tokens, NEW u \in Users,
         IssueFirst(n, u), UNCHANGED chainHistory
  PROVE  /\ tokens' \in [Tokens -> Token \cup {NoToken}]
         /\ FamiliesTrue'
         /\ Issued \subseteq Issued'
         /\ \A t \in Issued : tokens'[t] = tokens[t]
<1> DEFINE first == [user |-> u, family |-> n, revoked |-> FALSE, expired |-> FALSE]
<1>1. first \in Token
  BY DEF Token
<1>2. /\ tokens' \in [Tokens -> Token \cup {NoToken}]
      /\ \A t \in Tokens : tokens'[t] = IF t = n THEN first ELSE tokens[t]
      /\ n \notin Issued
  BY <1>1 DEF IssueFirst, AuthTypeOK
<1>3. Issued' = Issued \cup {n}
  BY <1>1, <1>2, AccountsAssumption DEF Issued
<1>4. ActiveTokens' = ActiveTokens \cup {n}
  BY <1>2, <1>3 DEF ActiveTokens, Issued
<1>5. \A t \in Issued : tokens'[t] = tokens[t] /\ tokens[t].family # n
  BY <1>2 DEF FamiliesTrue, Issued
<1>6. tokens'[n].family = n
  BY <1>2
<1>7. FamiliesTrue'
  <2>1. \A t \in Issued' : tokens'[t].family \in Issued'
    BY <1>3, <1>5, <1>6 DEF FamiliesTrue
  <2>2. OneEnd'
    BY <1>3, <1>5, <1>6 DEF FamiliesTrue, OneEnd, chainHistory
  <2>3. LogoutEndsLogin'
    BY <1>2, <1>4, <1>5, <1>6 DEF FamiliesTrue, LogoutEndsLogin, ActiveTokens, chainHistory
  <2>4. rotated' \subseteq Issued' /\ \A t \in rotated' : tokens'[t].revoked
    BY <1>3, <1>5 DEF FamiliesTrue, chainHistory
  <2>. QED  BY <1>3, <2>1, <2>2, <2>3, <2>4 DEF FamiliesTrue, chainHistory
<1>. QED  BY <1>2, <1>3, <1>5, <1>7

-----------------------------------------------------------------------------
(***************************************************************************)
(* Requests that end over the others for their row.                        *)
(***************************************************************************)

\* What a step may do to the row of a request that it does not mark stale:
\* nothing the request holds on to.
RowKept(call) ==
    /\ call.op = "login" /\ ~call.stale => users'[call.user].lock = users[call.user].lock
    /\ call.op \in {"refresh", "logout"} /\ ~call.stale =>
         tokens'[call.token].revoked = tokens[call.token].revoked

TablesGrow ==
    /\ Accounts \subseteq Accounts' /\ Issued \subseteq Issued'
    /\ \A u \in Users : wrong[u] <= wrong'[u] /\ wrong'[u] \in Nat

LEMMA KeptCall ==
  ASSUME AuthInv, TablesGrow, NEW call \in Call, CallTrue(call), RowKept(call)
  PROVE  CallTrue(call)'
  BY CallKept DEF AuthInv, TablesGrow, RowKept

LEMMA FinishKeeps ==
  ASSUME AuthInv, NEW c \in Calls, Finish(c), TablesGrow,
         \A d \in Calls : RowKept(calls[d])
  PROVE  calls' \in [Calls -> Call] /\ \A d \in Calls : CallTrue(calls[d])'
<1>1. calls' \in [Calls -> Call]
  BY IdleTrue DEF Finish, AuthInv, AuthTypeOK
<1>2. ASSUME NEW d \in Calls
      PROVE  CallTrue(calls[d])'
  <2>1. calls'[d] = Idle \/ calls'[d] = calls[d]
    BY DEF Finish, AuthInv, AuthTypeOK
  <2>2. CASE calls'[d] = Idle
    BY <2>2 DEF CallTrue, Idle
  <2>3. CASE calls'[d] = calls[d]
    <3>1. calls[d] \in Call
      BY DEF AuthInv, AuthTypeOK
    <3>2. PICK call \in Call : call = calls'[d] /\ CallTrue(call) /\ RowKept(call)
      BY <2>3, <3>1 DEF AuthInv
    <3>3. CallTrue(call)'
      BY <3>2, KeptCall
    <3>. QED  BY <3>2, <3>3 DEF CallTrue
  <2>. QED  BY <2>1, <2>2, <2>3
<1>. QED  BY <1>1, <1>2

LEMMA StaleCall ==
  ASSUME NEW call \in Call, call.op \in {"login", "refresh", "logout", "password"},
         CallTrue(call)
  PROVE  /\ [call EXCEPT !.stale = TRUE] \in Call
         /\ CallTrue([call EXCEPT !.stale = TRUE])
         /\ RowKept([call EXCEPT !.stale = TRUE])
  BY OvertakenType DEF CallTrue, RowKept

LEMMA FinishOverKeeps ==
  ASSUME AuthInv, NEW c \in Calls, NEW overtaken, FinishOver(c, overtaken), TablesGrow,
         \A d \in overtaken : calls[d].op \in {"login", "refresh", "logout", "password"},
         \A d \in Calls \ (overtaken \cup {c}) : RowKept(calls[d])
  PROVE  calls' \in [Calls -> Call] /\ \A d \in Calls : CallTrue(calls[d])'
<1>1. ASSUME NEW d \in Calls
      PROVE  calls'[d] \in Call /\ CallTrue(calls[d])'
  <2>1. CASE d = c
    <3>1. calls'[d] = Idle
      BY <2>1 DEF FinishOver
    <3>. QED  BY <3>1, IdleTrue DEF CallTrue, Idle
  <2>2. CASE d # c
    <3>1. PICK call \in Call : call = calls'[d] /\ CallTrue(call) /\ RowKept(call)
      <4>1. calls[d] \in Call /\ CallTrue(calls[d])
        BY DEF AuthInv, AuthTypeOK
      <4>2. CASE d \in overtaken
        BY <2>2, <4>1, <4>2, StaleCall DEF FinishOver
      <4>3. CASE d \notin overtaken
        BY <2>2, <4>1, <4>3 DEF FinishOver
      <4>. QED  BY <4>2, <4>3
    <3>2. CallTrue(call)'
      BY <3>1, KeptCall
    <3>. QED  BY <3>1, <3>2 DEF CallTrue
  <2>. QED  BY <2>1, <2>2
<1>2. calls' \in [Calls -> Call]
  BY <1>1 DEF FinishOver
<1>. QED  BY <1>1, <1>2

-----------------------------------------------------------------------------
(***************************************************************************)
(* The actions.                                                            *)
(***************************************************************************)
LEMMA AuthInitInv == AuthInit => AuthInv
<1> SUFFICES ASSUME AuthInit
             PROVE  AuthInv
  OBVIOUS
<1>1. Accounts = {} /\ Issued = {}
  BY DEF AuthInit, Accounts, Issued
<1>2. AuthTypeOK
  BY IdleTrue DEF AuthInit, AuthTypeOK
<1>3. \A c \in Calls : CallTrue(calls[c])
  BY DEF AuthInit, CallTrue, Idle
<1>4. CountsTrue /\ FamiliesTrue
  BY <1>1 DEF AuthInit, CountsTrue, LockNeedsFailures, FamiliesTrue, OneEnd,
              LogoutEndsLogin, ActiveTokens
<1>. QED  BY <1>2, <1>3, <1>4 DEF AuthInv

LEMMA ReadInv ==
  ASSUME AuthInv, NEW c \in Calls,
         \/ SignupRead(c) \/ LoginRead(c) \/ SocialRead(c)
         \/ RefreshRead(c) \/ LogoutRead(c) \/ PasswordRead(c)
  PROVE  AuthInv'
<1>1. CASE SignupRead(c)
  <2>1. PICK e \in Emails, p \in Passwords :
          Start(c, [op |-> "signup", email |-> e, password |-> p])
    BY <1>1 DEF SignupRead
  <2>2. /\ [op |-> "signup", email |-> e, password |-> p] \in Call
        /\ CallTrue([op |-> "signup", email |-> e, password |-> p])
    BY DEF Call, CallTrue
  <2>. QED  BY <1>1, <2>1, <2>2, CallLocalStep DEF SignupRead, Start
<1>2. CASE LoginRead(c)
  <2>1. PICK u \in Accounts, p \in Passwords :
          /\ Lockable(users[u])
          /\ Start(c, [op |-> "login", user |-> u, read |-> users[u],
                       right |-> p = users[u].password, stale |-> FALSE])
    BY <1>2 DEF LoginRead
  <2> DEFINE new == [op |-> "login", user |-> u, read |-> users[u],
                     right |-> p = users[u].password, stale |-> FALSE]
  <2>2. u \in Users /\ users[u] \in Account
    BY UserRowShape DEF AuthInv, Accounts
  <2>3. new \in Call
    BY <2>2 DEF Call, LoginCall
  <2>4. CallTrue(new)
    BY <2>1 DEF CallTrue, Lockable, AuthInv, CountsTrue
  <2>. QED  BY <1>2, <2>1, <2>3, <2>4, CallLocalStep DEF LoginRead, Start
<1>3. CASE SocialRead(c)
  <2>1. PICK i \in Identities :
          Start(c, [op |-> "social", identity |-> i,
                    user |-> IF AccountsOf(i) = {} THEN NoUser
                             ELSE CHOOSE u \in AccountsOf(i) : TRUE])
    BY <1>3 DEF SocialRead
  <2> DEFINE found == IF AccountsOf(i) = {} THEN NoUser ELSE CHOOSE u \in AccountsOf(i) : TRUE
             new == [op |-> "social", identity |-> i, user |-> found]
  <2>2. found \in Accounts \cup {NoUser} /\ Accounts \subseteq Users
    BY DEF AccountsOf, Accounts
  <2>3. new \in Call /\ CallTrue(new)
    <3> HIDE DEF found
    <3>. QED  BY <2>2 DEF Call, CallTrue
  <2>. QED  BY <1>3, <2>1, <2>3, CallLocalStep DEF SocialRead, Start
<1>4. CASE RefreshRead(c) \/ LogoutRead(c)
  <2>1. PICK t \in Issued, op \in {"refresh", "logout"} :
          ~tokens[t].revoked /\ Start(c, [op |-> op, token |-> t, stale |-> FALSE])
    BY <1>4 DEF RefreshRead, LogoutRead, Refreshable, ActiveTokens
  <2>2. /\ [op |-> op, token |-> t, stale |-> FALSE] \in Call
        /\ CallTrue([op |-> op, token |-> t, stale |-> FALSE])
    BY <2>1 DEF Call, TokenCall, CallTrue, Issued
  <2>. QED  BY <1>4, <2>1, <2>2, CallLocalStep DEF RefreshRead, LogoutRead, Start
<1>5. CASE PasswordRead(c)
  <2>1. PICK u \in Accounts, p \in Passwords, q \in Passwords :
          Start(c, [op |-> "password", user |-> u, current |-> p, new |-> q, stale |-> FALSE])
    BY <1>5 DEF PasswordRead
  <2>2. /\ [op |-> "password", user |-> u, current |-> p, new |-> q, stale |-> FALSE] \in Call
        /\ CallTrue([op |-> "password", user |-> u, current |-> p, new |-> q, stale |-> FALSE])
    BY DEF Call, PasswordCall, CallTrue, Accounts
  <2>. QED  BY <1>5, <2>1, <2>2, CallLocalStep DEF PasswordRead, Start
<1>. QED  BY <1>1, <1>2, <1>3, <1>4, <1>5

LEMMA EndsInv ==
  ASSUME AuthInv, NEW c \in Calls, Conflict(c) \/ CallLost(c)
  PROVE  AuthInv'
  BY IdleTrue, CallLocalStep DEF Conflict, CallLost, Finish

LEMMA SignupInsertInv ==
  ASSUME AuthInv, NEW c \in Calls, SignupInsert(c)
  PROVE  AuthInv'
<1>1. PICK u \in Users :
        /\ Insertable(u, calls[c].email)
        /\ users' = [users EXCEPT ![u] = NewAccount(calls[c].email, calls[c].password)]
  BY DEF SignupInsert
<1>2. calls[c].email \in Emails /\ calls[c].password \in Passwords
  BY CallShape DEF SignupInsert, AuthInv, AuthTypeOK
<1>3. /\ users' \in [Users -> Account \cup {NoUser}]
      /\ CountsTrue'
      /\ Accounts \subseteq Accounts'
      /\ \A v \in Accounts : users'[v] = users[v]
  BY <1>1, <1>2, InsertKeeps DEF Insertable, SignupInsert, AuthInv, authHistory
<1>4. TablesGrow
  BY <1>3 DEF TablesGrow, SignupInsert, authHistory, AuthInv, AuthTypeOK, Issued
<1>5. \A d \in Calls : RowKept(calls[d])
  BY <1>3 DEF RowKept, SignupInsert, AuthInv, CallTrue
<1>6. calls' \in [Calls -> Call] /\ \A d \in Calls : CallTrue(calls[d])'
  BY <1>4, <1>5, FinishKeeps DEF SignupInsert
<1>7. FamiliesTrue'
  BY FamiliesKept DEF SignupInsert, authHistory, AuthInv
<1>. QED  BY <1>3, <1>6, <1>7 DEF AuthInv, AuthTypeOK, SignupInsert, authHistory, chainHistory

\* What a log-in leaves in the row of its user.
LEMMA LoginRow ==
  ASSUME AuthInv, NEW c \in Calls, calls[c].op = "login"
  PROVE  /\ calls[c].user \in Accounts /\ calls[c].user \in Users
         /\ Failed(users[calls[c].user], calls[c].read) \in Account
         /\ Failed(users[calls[c].user], calls[c].read).fails <= wrong[calls[c].user] + 1
         /\ Failed(users[calls[c].user], calls[c].read).lock # "none" =>
              wrong[calls[c].user] + 1 >= MaxFailures
         /\ Succeeded(users[calls[c].user], calls[c].read) \in Account
         /\ Succeeded(users[calls[c].user], calls[c].read).fails <= wrong[calls[c].user]
         /\ Succeeded(users[calls[c].user], calls[c].read).lock # "none" =>
              wrong[calls[c].user] >= MaxFailures
<1> DEFINE u == calls[c].user
           read == calls[c].read
           row == users[u]
<1>1. u \in Accounts /\ u \in Users /\ read \in Account /\ read.fails <= wrong[u]
  BY CallShape DEF AuthInv, AuthTypeOK, CallTrue, LoginCall
<1>2. row \in Account /\ row.fails <= wrong[u] /\ (row.lock # "none" => wrong[u] >= MaxFailures)
  BY <1>1, UserRowShape DEF AuthInv, CountsTrue, LockNeedsFailures
<1>3. wrong[u] \in Nat /\ MaxFailures \in Nat
  BY <1>1, AccountsAssumption DEF AuthInv, AuthTypeOK
<1> HIDE DEF u, read, row
<1>4. row.fails \in Nat /\ row.lock \in {"none", "ahead", "over"} /\ read.fails \in Nat
  BY <1>1, <1>2 DEF Account
<1>5. /\ Failed(row, read) \in Account
      /\ Failed(row, read).fails <= wrong[u] + 1
      /\ Failed(row, read).lock # "none" => wrong[u] + 1 >= MaxFailures
  <2>1. CASE read.fails + 1 >= MaxFailures
    <3> DEFINE fails == IF read.fails = 0 THEN row.fails ELSE 0
    <3>1. fails \in Nat /\ fails <= wrong[u] + 1 /\ wrong[u] + 1 >= MaxFailures
      BY <1>1, <1>2, <1>3, <1>4, <2>1
    <3>2. Failed(row, read) = [row EXCEPT !.fails = fails, !.lock = "ahead"]
      BY <2>1 DEF Failed
    <3> HIDE DEF fails
    <3>3. /\ Failed(row, read) \in Account
          /\ Failed(row, read).fails = fails
      BY <1>2, <3>1, <3>2 DEF Account
    <3>. QED  BY <3>1, <3>3
  <2>2. CASE ~(read.fails + 1 >= MaxFailures)
    <3>1. read.fails + 1 \in Nat /\ read.fails + 1 <= wrong[u] + 1
      BY <1>1, <1>3, <1>4
    <3>2. Failed(row, read) = [row EXCEPT !.fails = read.fails + 1]
      BY <2>2 DEF Failed
    <3>3. /\ Failed(row, read) \in Account
          /\ Failed(row, read).fails = read.fails + 1
          /\ Failed(row, read).lock = row.lock
      BY <1>2, <3>1, <3>2 DEF Account
    <3>. QED  BY <1>2, <1>3, <3>1, <3>3
  <2>. QED  BY <2>1, <2>2
<1>6. /\ Succeeded(row, read) \in Account
      /\ Succeeded(row, read).fails <= wrong[u]
      /\ Succeeded(row, read).lock # "none" => wrong[u] >= MaxFailures
  <2> DEFINE fails == IF read.fails = 0 THEN row.fails ELSE 0
             lock == IF read.lock = "none" THEN row.lock ELSE "none"
  <2>1. /\ fails \in Nat /\ fails <= wrong[u]
        /\ lock \in {"none", "ahead", "over"}
        /\ lock # "none" => wrong[u] >= MaxFailures
    BY <1>2, <1>3, <1>4
  <2>2. Succeeded(row, read) = [row EXCEPT !.fails = fails, !.lock = lock]
    BY DEF Succeeded
  <2> HIDE DEF fails, lock
  <2>3. /\ Succeeded(row, read) \in Account
        /\ Succeeded(row, read).fails = fails
        /\ Succeeded(row, read).lock = lock
    BY <1>2, <2>1, <2>2 DEF Account
  <2>. QED  BY <2>1, <2>3
<1>. QED  BY <1>1, <1>5, <1>6 DEF u, read, row

\* One account's counter and lock change, and the others' stay.
LEMMA CountsOfOne ==
  ASSUME AuthTypeOK, CountsTrue, NEW u \in Accounts, NEW new,
         \A v \in Users : users'[v] = IF v = u THEN new ELSE users[v],
         Accounts' = Accounts,
         \A v \in Users : wrong[v] <= wrong'[v] /\ wrong'[v] \in Nat,
         new.fails <= wrong'[u],
         new.lock # "none" => wrong'[u] >= MaxFailures
  PROVE  CountsTrue'
<1>1. ASSUME NEW v \in Accounts
      PROVE  users'[v].fails <= wrong'[v] /\ (users'[v].lock # "none" => wrong'[v] >= MaxFailures)
  <2>1. v \in Users
    BY DEF Accounts
  <2>2. CASE v = u
    BY <2>1, <2>2
  <2>3. CASE v # u
    <3>1. users'[v] = users[v] /\ users[v] \in Account
      BY <2>1, <2>3, UserRowShape
    <3>2. users[v].fails \in Nat /\ wrong[v] \in Nat /\ wrong'[v] \in Nat /\ MaxFailures \in Nat
      BY <2>1, <3>1, AccountsAssumption DEF Account, AuthTypeOK
    <3>. QED  BY <2>1, <3>1, <3>2 DEF CountsTrue, LockNeedsFailures
  <2>. QED  BY <2>2, <2>3
<1>. QED  BY <1>1 DEF CountsTrue, LockNeedsFailures

LEMMA LoginWrongInv ==
  ASSUME AuthInv, NEW c \in Calls, LoginWrong(c)
  PROVE  AuthInv'
<1> DEFINE u == calls[c].user
           new == Failed(users[u], calls[c].read)
<1>1. /\ u \in Accounts /\ u \in Users /\ new \in Account
      /\ new.fails <= wrong[u] + 1
      /\ new.lock # "none" => wrong[u] + 1 >= MaxFailures
  BY LoginRow DEF LoginWrong
<1>2. /\ users' = [users EXCEPT ![u] = new]
      /\ wrong' = [wrong EXCEPT ![u] = @ + 1]
      /\ streak' = [streak EXCEPT ![u] = @ + 1]
      /\ raced' \in {raced, raced \cup {u}}
  BY DEF LoginWrong, NoteRace
<1>3. OverUser(c) /\ UNCHANGED <<tokens, chainHistory>> /\ calls[c].op = "login"
  BY DEF LoginWrong
<1> HIDE DEF u, new
<1>4. /\ users' \in [Users -> Account \cup {NoUser}]
      /\ wrong' \in [Users -> Nat] /\ streak' \in [Users -> Nat] /\ raced' \subseteq Users
      /\ \A v \in Users : users'[v] = IF v = u THEN new ELSE users[v]
      /\ \A v \in Users : wrong'[v] = IF v = u THEN wrong[v] + 1 ELSE wrong[v]
  BY <1>1, <1>2 DEF AuthInv, AuthTypeOK
<1>5. Accounts' = Accounts
  BY <1>1, <1>4, AccountsAssumption DEF Accounts
<1>6. TablesGrow
  BY <1>3, <1>4, <1>5 DEF TablesGrow, Issued, AuthInv, AuthTypeOK
<1>7. CountsTrue'
  BY <1>1, <1>4, <1>5, <1>6, CountsOfOne DEF AuthInv, TablesGrow
<1> DEFINE overtaken == {d \in Calls : calls[d].op = calls[c].op /\ calls[d].user = calls[c].user}
<1>8. \A d \in Calls \ (overtaken \cup {c}) : RowKept(calls[d])
  BY <1>3, <1>4 DEF RowKept, AuthInv, CallTrue, Accounts, u
<1>9. calls' \in [Calls -> Call] /\ \A d \in Calls : CallTrue(calls[d])'
  <2>1. FinishOver(c, overtaken) /\ \A d \in overtaken : calls[d].op = "login"
    BY <1>3 DEF OverUser
  <2> HIDE DEF overtaken
  <2>. QED  BY <1>6, <1>8, <2>1, FinishOverKeeps
<1>10. FamiliesTrue'
  BY <1>3, FamiliesKept DEF AuthInv
<1>. QED  BY <1>3, <1>4, <1>7, <1>9, <1>10 DEF AuthInv, AuthTypeOK, chainHistory

LEMMA LoginRightInv ==
  ASSUME AuthInv, NEW c \in Calls, LoginRight(c)
  PROVE  AuthInv'
<1> DEFINE u == calls[c].user
           new == Succeeded(users[u], calls[c].read)
<1>1. /\ u \in Accounts /\ u \in Users /\ new \in Account
      /\ new.fails <= wrong[u]
      /\ new.lock # "none" => wrong[u] >= MaxFailures
  BY LoginRow DEF LoginRight
<1>2. /\ users' = [users EXCEPT ![u] = new]
      /\ \E n \in Tokens : IssueFirst(n, u)
      /\ streak' = [streak EXCEPT ![u] = 0]
      /\ raced' \in {raced, raced \cup {u}}
  BY DEF LoginRight, NoteRace
<1>3. OverUser(c) /\ UNCHANGED <<wrong, chainHistory>> /\ calls[c].op = "login"
  BY DEF LoginRight
<1> HIDE DEF u, new
<1>4. /\ users' \in [Users -> Account \cup {NoUser}]
      /\ streak' \in [Users -> Nat] /\ raced' \subseteq Users
      /\ \A v \in Users : users'[v] = IF v = u THEN new ELSE users[v]
  BY <1>1, <1>2 DEF AuthInv, AuthTypeOK
<1>5. Accounts' = Accounts
  BY <1>1, <1>4, AccountsAssumption DEF Accounts
<1>6. /\ tokens' \in [Tokens -> Token \cup {NoToken}]
      /\ FamiliesTrue'
      /\ Issued \subseteq Issued'
      /\ \A t \in Issued : tokens'[t] = tokens[t]
  BY <1>1, <1>2, <1>3, IssueKeeps DEF AuthInv
<1>7. TablesGrow
  BY <1>3, <1>5, <1>6 DEF TablesGrow, AuthInv, AuthTypeOK
<1>8. CountsTrue'
  BY <1>1, <1>3, <1>4, <1>5, <1>7, CountsOfOne DEF AuthInv, TablesGrow
<1> DEFINE overtaken == {d \in Calls : calls[d].op = calls[c].op /\ calls[d].user = calls[c].user}
<1>9. \A d \in Calls \ (overtaken \cup {c}) : RowKept(calls[d])
  BY <1>3, <1>4, <1>6 DEF RowKept, AuthInv, CallTrue, Accounts, u
<1>10. calls' \in [Calls -> Call] /\ \A d \in Calls : CallTrue(calls[d])'
  <2>1. FinishOver(c, overtaken) /\ \A d \in overtaken : calls[d].op = "login"
    BY <1>3 DEF OverUser
  <2> HIDE DEF overtaken
  <2>. QED  BY <1>7, <1>9, <2>1, FinishOverKeeps
<1>. QED  BY <1>3, <1>4, <1>6, <1>8, <1>10 DEF AuthInv, AuthTypeOK, chainHistory

LEMMA SocialLoginInv ==
  ASSUME AuthInv, NEW c \in Calls, SocialLogin(c)
  PROVE  AuthInv'
<1>1. calls[c].identity \in Identities /\ UNCHANGED authHistory /\ Finish(c)
  BY CallShape DEF SocialLogin, AuthInv, AuthTypeOK
<1>2. PICK n \in Tokens, u \in Users :
        /\ IssueFirst(n, u)
        /\ \/ UNCHANGED users
           \/ /\ Insertable(u, calls[c].identity)
              /\ users' = [users EXCEPT ![u] = NewAccount(calls[c].identity, NoPassword)]
  <2>1. calls[c].user # NoUser => calls[c].user \in Users
    BY DEF SocialLogin, AuthInv, CallTrue, Accounts
  <2>. QED  BY <2>1 DEF SocialLogin
<1>3. /\ tokens' \in [Tokens -> Token \cup {NoToken}]
      /\ FamiliesTrue'
      /\ Issued \subseteq Issued'
      /\ \A t \in Issued : tokens'[t] = tokens[t]
  BY <1>1, <1>2, IssueKeeps DEF AuthInv, authHistory
<1>4. /\ users' \in [Users -> Account \cup {NoUser}]
      /\ CountsTrue'
      /\ Accounts \subseteq Accounts'
      /\ \A v \in Accounts : users'[v] = users[v]
  <2>1. CASE UNCHANGED users
    BY <1>1, <2>1, CountsKept DEF AuthInv, AuthTypeOK, Accounts, authHistory
  <2>2. CASE ~UNCHANGED users
    BY <1>1, <1>2, <2>2, InsertKeeps DEF Insertable, AuthInv, authHistory
  <2>. QED  BY <2>1, <2>2
<1>5. TablesGrow
  BY <1>1, <1>3, <1>4 DEF TablesGrow, authHistory, AuthInv, AuthTypeOK
<1>6. \A d \in Calls : RowKept(calls[d])
  BY <1>3, <1>4 DEF RowKept, AuthInv, CallTrue
<1>7. calls' \in [Calls -> Call] /\ \A d \in Calls : CallTrue(calls[d])'
  BY <1>1, <1>5, <1>6, FinishKeeps
<1>. QED  BY <1>1, <1>3, <1>4, <1>7 DEF AuthInv, AuthTypeOK, authHistory, chainHistory

\* Rotation moves a chain's end to a new token, unless another refresh has moved
\* it before; it revives a log-in only when a logout has revoked the end meanwhile.
LEMMA RefreshCommitInv ==
  ASSUME AuthInv, NEW c \in Calls, RefreshCommit(c)
  PROVE  AuthInv'
<1> DEFINE t == calls[c].token
           f == tokens[t].family
<1>1. /\ t \in Issued /\ t \in Tokens /\ calls[c].op = "refresh"
      /\ ~calls[c].stale => ~tokens[t].revoked
  BY DEF RefreshCommit, AuthInv, CallTrue, Issued
<1>2. PICK n \in Tokens \ Issued : tokens' = Rotated(t, n)
  BY DEF RefreshCommit
<1>3. /\ UNCHANGED <<users, wrong, streak, raced, out>>
      /\ OverToken(c)
      /\ rotated' = rotated \cup {t}
      /\ forked' = IF calls[c].stale /\ t \in rotated THEN forked \cup {f} ELSE forked
      /\ survived' = IF calls[c].stale /\ t \notin rotated THEN survived \cup {f} ELSE survived
  BY DEF RefreshCommit
<1>4. tokens[t] \in Token /\ f \in Issued /\ f \in Tokens /\ tokens[t].user \in Users
  BY <1>1, UserRowShape DEF AuthInv, FamiliesTrue, Token, Issued
<1> HIDE DEF t, f
<1> DEFINE next == [user |-> tokens[t].user, family |-> f, revoked |-> FALSE, expired |-> FALSE]
<1>5. next \in Token /\ [tokens[t] EXCEPT !.revoked = TRUE] \in Token
  BY <1>4 DEF Token
<1>6. \A s \in Tokens : tokens'[s] = IF s = n THEN next
                                     ELSE IF s = t THEN [tokens[t] EXCEPT !.revoked = TRUE]
                                     ELSE tokens[s]
  BY <1>1, <1>2 DEF Rotated, AuthInv, AuthTypeOK, f
<1>7. /\ tokens' \in [Tokens -> Token \cup {NoToken}]
      /\ rotated' \subseteq Tokens /\ forked' \subseteq Tokens /\ survived' \subseteq Tokens
  <2>1. tokens' = [s \in Tokens |-> tokens'[s]]
    BY <1>2 DEF Rotated, AuthInv, AuthTypeOK
  <2>2. \A s \in Tokens : tokens'[s] \in Token \cup {NoToken}
    BY <1>5, <1>6 DEF AuthInv, AuthTypeOK
  <2>. QED  BY <1>1, <1>3, <1>4, <2>1, <2>2 DEF AuthInv, AuthTypeOK
<1>8. Issued' = Issued \cup {n}
  BY <1>1, <1>2, <1>5, <1>6, AccountsAssumption DEF Issued
<1>9. /\ tokens'[n].family = f /\ n # t
      /\ \A s \in Issued : tokens'[s].family = tokens[s].family
  <2>1. [tokens[t] EXCEPT !.revoked = TRUE].family = tokens[t].family
    BY <1>4 DEF Token
  <2>2. \A s \in Issued : s \in Tokens /\ s # n
    BY DEF Issued
  <2>3. tokens'[n].family = f
    BY <1>6
  <2>. QED  BY <1>1, <1>6, <2>1, <2>2, <2>3
<1>10. [tokens[t] EXCEPT !.revoked = TRUE].revoked
  BY <1>4 DEF Token
<1>11. \A s \in ActiveTokens' : s = n \/ s \in ActiveTokens
  BY <1>6, <1>8, <1>10 DEF ActiveTokens, Issued
<1>12. rotated' \subseteq Issued' /\ \A s \in rotated' : tokens'[s].revoked
  BY <1>1, <1>2, <1>3, <1>6, <1>8, <1>10 DEF AuthInv, FamiliesTrue, Issued
<1>13. forked \subseteq forked' /\ survived \subseteq survived'
  BY <1>3
<1>14. \A s \in Issued \ rotated' : tokens[s].family = f => f \in forked'
  <2>1. CASE t \in rotated
    BY <1>1, <1>3, <2>1 DEF AuthInv, FamiliesTrue
  <2>2. CASE t \notin rotated
    BY <1>1, <1>3, <2>2 DEF AuthInv, FamiliesTrue, OneEnd, f
  <2>. QED  BY <2>1, <2>2
<1>15. f \in out => f \in forked' \cup survived'
  <2>1. CASE calls[c].stale
    BY <1>3, <2>1
  <2>2. CASE ~calls[c].stale
    BY <1>1, <1>13, <2>2 DEF ActiveTokens, AuthInv, FamiliesTrue, LogoutEndsLogin, f
  <2>. QED  BY <2>1, <2>2
<1>16. FamiliesTrue'
  <2>1. \A s \in Issued' : tokens'[s].family \in Issued'
    BY <1>4, <1>8, <1>9 DEF AuthInv, FamiliesTrue
  <2>2. OneEnd'
    BY <1>3, <1>8, <1>9, <1>13, <1>14 DEF AuthInv, FamiliesTrue, OneEnd
  <2>3. LogoutEndsLogin'
    BY <1>3, <1>9, <1>11, <1>13, <1>15 DEF AuthInv, FamiliesTrue, LogoutEndsLogin, ActiveTokens
  <2>. QED  BY <1>3, <1>8, <1>12, <2>1, <2>2, <2>3 DEF AuthInv, FamiliesTrue
<1>17. TablesGrow
  BY <1>3, <1>8 DEF TablesGrow, Accounts, AuthInv, AuthTypeOK
<1> DEFINE overtaken == {d \in Calls : /\ calls[d].op \in {"refresh", "logout"}
                                       /\ calls[d].token = calls[c].token}
<1>18. \A d \in Calls \ (overtaken \cup {c}) : RowKept(calls[d])
  BY <1>2, <1>3, <1>6 DEF RowKept, AuthInv, CallTrue, Issued, t
<1>19. calls' \in [Calls -> Call] /\ \A d \in Calls : CallTrue(calls[d])'
  <2>1. FinishOver(c, overtaken) /\ \A d \in overtaken : calls[d].op \in {"refresh", "logout"}
    BY <1>3 DEF OverToken
  <2> HIDE DEF overtaken
  <2>. QED  BY <1>17, <1>18, <2>1, FinishOverKeeps
<1>20. CountsTrue'
  BY <1>3, CountsKept DEF AuthInv
<1>. QED  BY <1>3, <1>7, <1>16, <1>19, <1>20 DEF AuthInv, AuthTypeOK

\* A logout that found its token still the end of its chain ends the chain: every
\* other token of it has been replaced, and so is revoked.
LEMMA LogoutCommitInv ==
  ASSUME AuthInv, NEW c \in Calls, LogoutCommit(c)
  PROVE  AuthInv'
<1> DEFINE t == calls[c].token
           f == tokens[t].family
<1>1. /\ t \in Issued /\ t \in Tokens /\ calls[c].op = "logout"
      /\ ~calls[c].stale => ~tokens[t].revoked
  BY DEF LogoutCommit, AuthInv, CallTrue, Issued
<1>2. /\ UNCHANGED <<users, wrong, streak, raced, rotated, forked>>
      /\ OverToken(c)
      /\ tokens' = [tokens EXCEPT ![t].revoked = TRUE]
      /\ out' = out \cup {f}
      /\ survived' = IF calls[c].stale /\ t \in rotated THEN survived \cup {f} ELSE survived \ {f}
  BY DEF LogoutCommit
<1>3. tokens[t] \in Token /\ f \in Issued /\ Issued \subseteq Tokens
  BY <1>1, UserRowShape DEF AuthInv, FamiliesTrue, Issued
<1> HIDE DEF t, f
<1>4. [tokens[t] EXCEPT !.revoked = TRUE] \in Token
  BY <1>3 DEF Token
<1>5. \A s \in Tokens : tokens'[s] = IF s = t THEN [tokens[t] EXCEPT !.revoked = TRUE]
                                     ELSE tokens[s]
  BY <1>1, <1>2 DEF AuthInv, AuthTypeOK
<1>6. /\ tokens' \in [Tokens -> Token \cup {NoToken}]
      /\ out' \subseteq Tokens /\ survived' \subseteq Tokens
  <2>1. tokens' = [s \in Tokens |-> tokens'[s]]
    BY <1>2 DEF AuthInv, AuthTypeOK
  <2>2. \A s \in Tokens : tokens'[s] \in Token \cup {NoToken}
    BY <1>4, <1>5 DEF AuthInv, AuthTypeOK
  <2>. QED  BY <1>2, <1>3, <2>1, <2>2 DEF AuthInv, AuthTypeOK
<1>7. Issued' = Issued
  BY <1>1, <1>4, <1>5, AccountsAssumption DEF Issued
<1>8. \A s \in Issued : tokens'[s].family = tokens[s].family
  <2>1. [tokens[t] EXCEPT !.revoked = TRUE].family = f
    BY <1>3 DEF Token, f
  <2>. QED  BY <1>5, <2>1 DEF Issued, f
<1>9. \A s \in ActiveTokens' : s \in ActiveTokens /\ s # t
  <2>1. [tokens[t] EXCEPT !.revoked = TRUE].revoked
    BY <1>3 DEF Token
  <2>. QED  BY <1>5, <1>7, <2>1 DEF ActiveTokens, Issued
<1>10. \A s \in ActiveTokens : s # t /\ tokens[s].family = f => f \in forked \cup survived'
  <2>1. CASE t \in rotated
    BY <1>1, <1>2, <2>1 DEF AuthInv, FamiliesTrue
  <2>2. CASE t \notin rotated
    BY <1>1, <2>2 DEF ActiveTokens, AuthInv, FamiliesTrue, OneEnd, f
  <2>. QED  BY <2>1, <2>2
<1>11. FamiliesTrue'
  <2>1. \A s \in Issued' : tokens'[s].family \in Issued'
    BY <1>7, <1>8 DEF AuthInv, FamiliesTrue
  <2>2. OneEnd'
    BY <1>2, <1>7, <1>8 DEF AuthInv, FamiliesTrue, OneEnd
  <2>3. LogoutEndsLogin'
    BY <1>2, <1>8, <1>9, <1>10 DEF AuthInv, FamiliesTrue, LogoutEndsLogin, ActiveTokens
  <2>4. \A s \in rotated' : tokens'[s].revoked
    BY <1>2, <1>3, <1>5 DEF AuthInv, FamiliesTrue, Token
  <2>. QED  BY <1>2, <1>3, <1>7, <2>1, <2>2, <2>3, <2>4 DEF AuthInv, FamiliesTrue
<1>12. TablesGrow
  BY <1>2, <1>7 DEF TablesGrow, Accounts, AuthInv, AuthTypeOK
<1> DEFINE overtaken == {d \in Calls : /\ calls[d].op \in {"refresh", "logout"}
                                       /\ calls[d].token = calls[c].token}
<1>13. \A d \in Calls \ (overtaken \cup {c}) : RowKept(calls[d])
  BY <1>2, <1>5 DEF RowKept, AuthInv, CallTrue, Issued, t
<1>14. calls' \in [Calls -> Call] /\ \A d \in Calls : CallTrue(calls[d])'
  <2>1. FinishOver(c, overtaken) /\ \A d \in overtaken : calls[d].op \in {"refresh", "logout"}
    BY <1>2 DEF OverToken
  <2> HIDE DEF overtaken
  <2>. QED  BY <1>12, <1>13, <2>1, FinishOverKeeps
<1>15. CountsTrue'
  BY <1>2, CountsKept DEF AuthInv
<1>. QED  BY <1>2, <1>6, <1>11, <1>14, <1>15 DEF AuthInv, AuthTypeOK

LEMMA PasswordCommitInv ==
  ASSUME AuthInv, NEW c \in Calls, PasswordCommit(c)
  PROVE  AuthInv'
<1> DEFINE u == calls[c].user
           new == [users[u] EXCEPT !.password = calls[c].new]
<1>1. /\ users' = [users EXCEPT ![u] = new]
      /\ OverUser(c) /\ UNCHANGED <<tokens, authHistory>> /\ calls[c].op = "password"
  BY DEF PasswordCommit
<1>2. u \in Accounts /\ u \in Users /\ users[u] \in Account /\ calls[c].new \in Passwords
  BY <1>1, CallShape, UserRowShape DEF AuthInv, AuthTypeOK, CallTrue, PasswordCall
<1>3. new \in Account /\ new.fails = users[u].fails /\ new.lock = users[u].lock
  BY <1>2 DEF Account
<1> HIDE DEF u, new
<1>4. /\ users' \in [Users -> Account \cup {NoUser}]
      /\ \A v \in Users : users'[v] = IF v = u THEN new ELSE users[v]
  BY <1>1, <1>2, <1>3 DEF AuthInv, AuthTypeOK
<1>5. Accounts' = Accounts
  BY <1>2, <1>3, <1>4, AccountsAssumption DEF Accounts
<1>6. /\ \A v \in Accounts : users'[v].fails = users[v].fails /\ users'[v].lock = users[v].lock
      /\ TablesGrow
  BY <1>1, <1>3, <1>4, <1>5 DEF Accounts, TablesGrow, Issued, authHistory, AuthInv, AuthTypeOK
<1>7. CountsTrue'
  BY <1>1, <1>5, <1>6 DEF CountsTrue, LockNeedsFailures, AuthInv, authHistory
<1> DEFINE overtaken == {d \in Calls : calls[d].op = calls[c].op /\ calls[d].user = calls[c].user}
<1>8. \A d \in Calls \ (overtaken \cup {c}) : RowKept(calls[d])
  BY <1>1, <1>6 DEF RowKept, AuthInv, CallTrue
<1>9. calls' \in [Calls -> Call] /\ \A d \in Calls : CallTrue(calls[d])'
  <2>1. FinishOver(c, overtaken) /\ \A d \in overtaken : calls[d].op = "password"
    BY <1>1 DEF OverUser
  <2> HIDE DEF overtaken
  <2>. QED  BY <1>6, <1>8, <2>1, FinishOverKeeps
<1>10. FamiliesTrue'
  BY <1>1, FamiliesKept DEF AuthInv, authHistory
<1>. QED  BY <1>1, <1>4, <1>7, <1>9, <1>10 DEF AuthInv, AuthTypeOK, authHistory, chainHistory

LEMMA CallsStay ==
  ASSUME AuthInv, UNCHANGED calls, TablesGrow, \A d \in Calls : RowKept(calls[d])
  PROVE  \A d \in Calls : CallTrue(calls[d])'
<1> SUFFICES ASSUME NEW d \in Calls
             PROVE  CallTrue(calls[d])'
  OBVIOUS
<1>1. PICK call \in Call : call = calls'[d] /\ CallTrue(call) /\ RowKept(call)
  BY DEF AuthInv, AuthTypeOK
<1>2. CallTrue(call)'
  BY <1>1, KeptCall
<1>. QED  BY <1>1, <1>2 DEF CallTrue

\* Time ends a lock no log-in holds on to: none reads an account while locked.
LEMMA LockRunsOutInv ==
  ASSUME AuthInv, LockRunsOut
  PROVE  AuthInv'
<1>1. PICK u \in Accounts :
        /\ users[u].lock = "ahead"
        /\ users' = [users EXCEPT ![u].lock = "over"]
        /\ UNCHANGED <<tokens, calls, authHistory>>
  BY DEF LockRunsOut
<1> DEFINE new == [users[u] EXCEPT !.lock = "over"]
<1>2. users[u] \in Account /\ u \in Users
  BY UserRowShape DEF AuthInv, Accounts
<1>3. new \in Account /\ new.fails = users[u].fails /\ new.lock = "over"
  BY <1>2 DEF Account
<1>4. users' = [users EXCEPT ![u] = new]
  BY <1>1
<1> HIDE DEF new
<1>5. /\ users' \in [Users -> Account \cup {NoUser}]
      /\ \A v \in Users : users'[v] = IF v = u THEN new ELSE users[v]
  BY <1>2, <1>3, <1>4 DEF AuthInv, AuthTypeOK
<1>6. Accounts' = Accounts
  BY <1>2, <1>3, <1>5, AccountsAssumption DEF Accounts
<1>7. TablesGrow
  BY <1>1, <1>6 DEF TablesGrow, Issued, authHistory, AuthInv, AuthTypeOK
<1>8. CountsTrue'
  BY <1>1, <1>3, <1>5, <1>6 DEF CountsTrue, LockNeedsFailures, AuthInv, authHistory, Accounts
<1>9. \A d \in Calls : RowKept(calls[d])
  BY <1>1, <1>5 DEF RowKept, AuthInv, CallTrue, Accounts
<1>10. FamiliesTrue'
  BY <1>1, FamiliesKept DEF AuthInv, authHistory
<1>. QED
  BY <1>1, <1>5, <1>7, <1>8, <1>9, <1>10, CallsStay DEF AuthInv, AuthTypeOK, authHistory, chainHistory

LEMMA TokenExpiresInv ==
  ASSUME AuthInv, TokenExpires
  PROVE  AuthInv'
<1>1. PICK t \in ActiveTokens :
        /\ tokens' = [tokens EXCEPT ![t].expired = TRUE]
        /\ UNCHANGED <<users, calls, authHistory>>
  BY DEF TokenExpires
<1> DEFINE new == [tokens[t] EXCEPT !.expired = TRUE]
<1>2. tokens[t] \in Token /\ t \in Tokens
  BY UserRowShape DEF AuthInv, ActiveTokens, Issued
<1>3. new \in Token /\ new.family = tokens[t].family /\ new.revoked = tokens[t].revoked
  BY <1>2 DEF Token
<1>4. tokens' = [tokens EXCEPT ![t] = new]
  BY <1>1
<1> HIDE DEF new
<1>5. /\ tokens' \in [Tokens -> Token \cup {NoToken}]
      /\ \A s \in Tokens : tokens'[s] = IF s = t THEN new ELSE tokens[s]
  BY <1>2, <1>3, <1>4 DEF AuthInv, AuthTypeOK
<1>6. Issued' = Issued
  BY <1>2, <1>3, <1>5, AccountsAssumption DEF Issued
<1>7. \A s \in Issued : /\ tokens'[s].family = tokens[s].family
                        /\ tokens'[s].revoked = tokens[s].revoked
  BY <1>3, <1>5 DEF Issued
<1>8. ActiveTokens' = ActiveTokens
  BY <1>6, <1>7 DEF ActiveTokens
<1>9. FamiliesTrue'
  BY <1>1, <1>6, <1>7, <1>8 DEF FamiliesTrue, OneEnd, LogoutEndsLogin, ActiveTokens,
                               AuthInv, authHistory, chainHistory
<1>10. TablesGrow
  BY <1>1, <1>6 DEF TablesGrow, Accounts, authHistory, AuthInv, AuthTypeOK
<1>11. \A d \in Calls : RowKept(calls[d])
  BY <1>1, <1>7 DEF RowKept, AuthInv, CallTrue
<1>12. CountsTrue'
  BY <1>1, CountsKept DEF AuthInv, authHistory
<1>. QED
  BY <1>1, <1>5, <1>9, <1>10, <1>11, <1>12, CallsStay DEF AuthInv, AuthTypeOK, authHistory, chainHistory

LEMMA AuthNextInv == AuthInv /\ [AuthNext]_authVars => AuthInv'
<1> SUFFICES ASSUME AuthInv, [AuthNext]_authVars
             PROVE  AuthInv'
  OBVIOUS
<1>1. ASSUME NEW c \in Calls, AuthStep(c)
      PROVE  AuthInv'
  BY <1>1, ReadInv, EndsInv, SignupInsertInv, LoginWrongInv, LoginRightInv, SocialLoginInv,
     RefreshCommitInv, LogoutCommitInv, PasswordCommitInv DEF AuthStep
<1>2. CASE UNCHANGED authVars
  <2>1. UNCHANGED <<users, tokens, calls, wrong, streak, raced, chainHistory>>
    BY <1>2 DEF authVars, rows, authHistory
  <2>2. TablesGrow /\ \A d \in Calls : RowKept(calls[d])
    BY <2>1 DEF TablesGrow, RowKept, Accounts, Issued, AuthInv, AuthTypeOK
  <2>. QED  BY <2>1, <2>2, CallsStay, CountsKept, FamiliesKept DEF AuthInv, AuthTypeOK, chainHistory
<1>. QED  BY <1>1, <1>2, LockRunsOutInv, TokenExpiresInv DEF AuthNext

-----------------------------------------------------------------------------
(***************************************************************************)
(* The theorems.                                                           *)
(***************************************************************************)

\* The inductive invariant of accounts, log-ins and token chains.
THEOREM AuthCorrect == AuthSpec => []AuthInv
  BY AuthInitInv, AuthNextInv, PTL DEF AuthSpec

\* Every reachable state of the accounts is well typed: no token of nobody.
THEOREM AuthTypeCorrect == AuthSpec => []AuthTypeOK
  BY AuthCorrect, PTL DEF AuthInv

\* Racing log-ins lock no account that has not earned it.
THEOREM LockIsEarned == AuthSpec => []LockNeedsFailures
  BY AuthCorrect, PTL DEF AuthInv, CountsTrue

\* A chain of refresh tokens forks only when one token is refreshed twice at once:
\* an active token is none that a refresh has replaced.
THEOREM ChainHasOneEnd == AuthSpec => []OneActivePerLogin
<1>1. AuthInv => OneActivePerLogin
  BY DEF AuthInv, FamiliesTrue, OneEnd, OneActivePerLogin, ActiveTokens
<1>. QED  BY <1>1, AuthCorrect, PTL

\* After a logout a log-in is active only if two refreshes of one of its tokens had
\* overlapped, or if a refresh overlapped that very logout.
THEOREM LogoutIsFinal == AuthSpec => []LogoutEndsLogin
  BY AuthCorrect, PTL DEF AuthInv, FamiliesTrue

\* Only a log-in that decided on a row read before lifts a lock still ahead.
THEOREM LockIsKept == AuthSpec => LockHolds
<1> DEFINE Holds ==
      \A u \in Accounts :
          users[u].lock = "ahead" /\ users'[u].lock = "none"
            => \E c \in Calls : /\ calls[c].op = "login" /\ calls[c].user = u /\ calls[c].stale
                                /\ calls[c].read.lock = "over"
                                /\ calls'[c] = Idle
<1>1. AuthInv /\ [AuthNext]_authVars => [Holds]_authVars
  <2> SUFFICES ASSUME AuthInv, AuthNext, NEW u \in Accounts,
                      users[u].lock = "ahead", users'[u].lock = "none"
               PROVE  \E c \in Calls : /\ calls[c].op = "login" /\ calls[c].user = u
                                       /\ calls[c].stale /\ calls[c].read.lock = "over"
                                       /\ calls'[c] = Idle
    OBVIOUS
  <2>1. u \in Users /\ users[u] \in Account
    BY UserRowShape DEF AuthInv, Accounts
  <2>2. ASSUME NEW c \in Calls, LoginRight(c)
        PROVE  calls[c].user = u /\ calls[c].stale /\ calls[c].read.lock = "over" /\ calls'[c] = Idle
    <3>1. /\ users' = [users EXCEPT ![calls[c].user] =
                         Succeeded(users[calls[c].user], calls[c].read)]
          /\ OverUser(c)
      BY <2>2 DEF LoginRight
    <3>2. calls[c].user = u
      BY <2>1, <3>1 DEF AuthInv, AuthTypeOK
    <3>3. Succeeded(users[u], calls[c].read).lock = "none"
      BY <2>1, <3>1, <3>2 DEF AuthInv, AuthTypeOK
    <3>4. calls[c].read.lock # "none"
      BY <2>1, <3>3 DEF Succeeded, Account
    <3>5. /\ calls[c].read.lock \in {"none", "ahead", "over"}
          /\ calls[c].stale \in BOOLEAN
      BY <2>2, CallShape DEF LoginRight, LoginCall, Account, AuthInv, AuthTypeOK
    <3>6. calls[c].read.lock # "ahead" /\ (~calls[c].stale => calls[c].read.lock = users[u].lock)
      BY <2>2, <3>2 DEF LoginRight, AuthInv, CallTrue
    <3>7. calls'[c] = Idle
      BY <3>1 DEF OverUser, FinishOver
    <3>. QED  BY <3>2, <3>4, <3>5, <3>6, <3>7
  <2>3. ASSUME NEW c \in Calls, LoginWrong(c)
        PROVE  FALSE
    <3>1. users' = [users EXCEPT ![calls[c].user] =
                         Failed(users[calls[c].user], calls[c].read)]
      BY <2>3 DEF LoginWrong
    <3>2. calls[c].user = u /\ users'[u] = Failed(users[u], calls[c].read)
      BY <2>1, <3>1 DEF AuthInv, AuthTypeOK
    <3>. QED  BY <2>1, <3>2 DEF Failed, Account
  <2>4. ASSUME NEW c \in Calls, PasswordCommit(c)
        PROVE  FALSE
    BY <2>1, <2>4 DEF PasswordCommit, AuthInv, AuthTypeOK, Account
  <2>5. ASSUME NEW c \in Calls, SignupInsert(c) \/ SocialLogin(c)
        PROVE  FALSE
    <3>1. users'[u] = users[u]
      BY <2>1, <2>5 DEF SignupInsert, SocialLogin, Insertable, AuthInv, AuthTypeOK
    <3>. QED  BY <3>1
  <2>6. CASE LockRunsOut
    BY <2>1, <2>6 DEF LockRunsOut, AuthInv, AuthTypeOK, Account, Accounts
  <2>7. CASE UNCHANGED users
    BY <2>7
  <2>8. \/ UNCHANGED users \/ LockRunsOut
        \/ \E c \in Calls : \/ LoginRight(c) \/ LoginWrong(c) \/ PasswordCommit(c)
                            \/ SignupInsert(c) \/ SocialLogin(c)
    BY DEF AuthNext, AuthStep, SignupRead, Conflict, LoginRead, SocialRead, RefreshRead,
           RefreshCommit, LogoutRead, LogoutCommit, PasswordRead, CallLost, TokenExpires
  <2>9. \A c \in Calls : LoginRight(c) => calls[c].op = "login"
    BY DEF LoginRight
  <2>. QED  BY <2>2, <2>3, <2>4, <2>5, <2>6, <2>7, <2>8, <2>9
<1>. QED  BY <1>1, AuthCorrect, PTL DEF AuthSpec, LockHolds

-----------------------------------------------------------------------------
(***************************************************************************)
(* The exact lockout.  Remainders by a limit that is not known take a few  *)
(* facts about division that the provers do not have.                      *)
(***************************************************************************)
LEMMA DivisionHolds ==
  ASSUME NEW n \in Nat, NEW m \in Nat \ {0}
  PROVE  /\ n % m \in 0..(m - 1)
         /\ n \div m \in Int
         /\ n = (m * (n \div m)) + (n % m)
  OBVIOUS

LEMMA SmallMultiple ==
  ASSUME NEW k \in Int, NEW m \in Nat \ {0}, m * k < m, -m < m * k
  PROVE  k = 0
<1>1. CASE k >= 1
  <2>1. m * k >= m
    BY <1>1
  <2>. QED  BY <2>1
<1>2. CASE k <= -1
  <2>1. m * k <= -m
    BY <1>2
  <2>. QED  BY <2>1
<1>. QED  BY <1>1, <1>2

LEMMA RemainderUnique ==
  ASSUME NEW n \in Nat, NEW m \in Nat \ {0}, NEW q \in Int, NEW r \in 0..(m - 1),
         n = (m * q) + r
  PROVE  n % m = r
<1> DEFINE p == n \div m
           t == n % m
<1>1. p \in Int /\ t \in 0..(m - 1) /\ n = (m * p) + t
  BY DivisionHolds
<1> HIDE DEF p, t
<1>2. m * (q - p) = t - r
  <2>1. m * (q - p) = (m * q) - (m * p)
    BY <1>1
  <2>. QED  BY <1>1, <2>1
<1>3. q - p = 0
  BY <1>1, <1>2, SmallMultiple
<1>4. q = p
  BY <1>1, <1>3
<1>. QED  BY <1>1, <1>4 DEF t

\* Counting one on adds one to the remainder, or starts it again.
LEMMA NextRemainder ==
  ASSUME NEW n \in Nat, NEW m \in Nat \ {0}
  PROVE  (n + 1) % m = IF (n % m) + 1 = m THEN 0 ELSE (n % m) + 1
<1> DEFINE p == n \div m
           t == n % m
<1>1. p \in Int /\ t \in 0..(m - 1) /\ n = (m * p) + t
  BY DivisionHolds
<1> HIDE DEF p, t
<1>2. CASE t + 1 = m
  <2>1. /\ n + 1 = (m * (p + 1)) + 0
        /\ n + 1 \in Nat /\ p + 1 \in Int /\ 0 \in 0..(m - 1)
    BY <1>1, <1>2
  <2>2. (n + 1) % m = 0
    BY <2>1, RemainderUnique
  <2>. QED  BY <1>2, <2>2 DEF t
<1>3. CASE t + 1 # m
  <2>1. /\ n + 1 = (m * p) + (t + 1)
        /\ n + 1 \in Nat /\ t + 1 \in 0..(m - 1)
    BY <1>1, <1>3
  <2>2. (n + 1) % m = t + 1
    BY <1>1, <2>1, RemainderUnique
  <2>. QED  BY <1>3, <2>2 DEF t
<1>. QED  BY <1>2, <1>3

LEMMA SmallRemainder ==
  ASSUME NEW n \in Nat, NEW m \in Nat \ {0}, n < m
  PROVE  n % m = n
  OBVIOUS

\* A log-in that no other has overtaken read the counter as it still is.
ReadExact(call) ==
    call.op = "login" /\ ~call.stale => call.read.fails = users[call.user].fails

\* LockoutExact is inductive with the log-ins that hold the counter, and with
\* the ids that no account has: an account begins without failures.
ExactInv ==
    /\ LockoutExact
    /\ \A u \in Users \ Accounts : streak[u] = 0
    /\ \A c \in Calls : ReadExact(calls[c])

\* No log-in still holds what it read except those that were not overtaken.
LEMMA OverReads ==
  ASSUME AuthInv, NEW c \in Calls, NEW overtaken, FinishOver(c, overtaken),
         \A d \in overtaken : calls[d].op \in {"login", "refresh", "logout", "password"},
         NEW d \in Calls, calls'[d].op = "login", ~calls'[d].stale
  PROVE  d \notin overtaken /\ d # c /\ calls'[d] = calls[d]
<1>1. d # c
  BY DEF FinishOver, Idle
<1>2. calls[d] \in Call
  BY DEF AuthInv, AuthTypeOK
<1>3. d \notin overtaken
  BY <1>1, <1>2, OvertakenType DEF FinishOver
<1>. QED  BY <1>1, <1>3 DEF FinishOver

\* A step that leaves counters alone and neither sets nor clears a lock.
LEMMA LockoutKept ==
  ASSUME AuthInv, ExactInv, UNCHANGED <<streak, raced>>, Accounts' = Accounts,
         \A u \in Accounts : /\ users'[u].fails = users[u].fails
                             /\ users'[u].lock = "none" <=> users[u].lock = "none",
         \A d \in Calls : calls'[d].op = "login" /\ ~calls'[d].stale => calls'[d] = calls[d]
  PROVE  ExactInv'
<1>1. LockoutExact'
  BY DEF ExactInv, LockoutExact
<1>2. \A u \in Users \ Accounts' : streak'[u] = 0
  BY DEF ExactInv
<1>3. ASSUME NEW d \in Calls
      PROVE  ReadExact(calls[d])'
  BY DEF ExactInv, ReadExact, AuthInv, CallTrue
<1>. QED  BY <1>1, <1>2, <1>3 DEF ExactInv

\* A step that adds one account.
LEMMA ExactInsert ==
  ASSUME AuthInv, ExactInv, NEW c \in Calls, Finish(c), UNCHANGED <<streak, raced>>,
         NEW u \in Users, u \notin Accounts,
         NEW key \in Emails \cup Identities, NEW password \in Passwords \cup {NoPassword},
         users' = [users EXCEPT ![u] = NewAccount(key, password)]
  PROVE  ExactInv'
<1>1. NewAccount(key, password) \in Account
  BY DEF NewAccount, Account
<1>2. \A v \in Users : users'[v] = IF v = u THEN NewAccount(key, password) ELSE users[v]
  BY DEF AuthInv, AuthTypeOK
<1>3. Accounts' = Accounts \cup {u} /\ Accounts \subseteq Users
  BY <1>1, <1>2, AccountsAssumption DEF Accounts
<1>4. streak[u] = 0 /\ 0 % MaxFailures = 0 /\ 0 < MaxFailures
  BY SmallRemainder, AccountsAssumption DEF ExactInv
<1>5. LockoutExact'
  <2>1. ASSUME NEW v \in Accounts' \ raced'
        PROVE  /\ users'[v].fails = streak'[v] % MaxFailures
               /\ users'[v].lock = "none" <=> streak'[v] < MaxFailures
    <3>1. CASE v = u
      BY <1>2, <1>4, <3>1 DEF NewAccount
    <3>2. CASE v # u
      BY <1>2, <1>3, <3>2 DEF ExactInv, LockoutExact
    <3>. QED  BY <3>1, <3>2
  <2>. QED  BY <2>1 DEF LockoutExact
<1>6. \A v \in Users \ Accounts' : streak'[v] = 0
  BY <1>3 DEF ExactInv
<1>7. ASSUME NEW d \in Calls
      PROVE  ReadExact(calls[d])'
  <2>1. calls'[d] = Idle \/ calls'[d] = calls[d]
    BY DEF Finish, AuthInv, AuthTypeOK
  <2>. QED  BY <1>2, <1>3, <2>1 DEF ExactInv, ReadExact, Idle, AuthInv, CallTrue
<1>. QED  BY <1>5, <1>6, <1>7 DEF ExactInv

\* A log-in leaves the row of one account, and overtakes the others for it.
LEMMA ExactLogin ==
  ASSUME AuthInv, ExactInv, NEW c \in Calls, calls[c].op = "login", OverUser(c), NoteRace(c),
         NEW new \in Account, users' = [users EXCEPT ![calls[c].user] = new],
         NEW k \in Nat, streak' = [streak EXCEPT ![calls[c].user] = k],
         ~calls[c].stale /\ calls[c].user \notin raced =>
            /\ new.fails = k % MaxFailures
            /\ new.lock = "none" <=> k < MaxFailures
  PROVE  ExactInv'
<1> DEFINE u == calls[c].user
           overtaken == {d \in Calls : calls[d].op = calls[c].op /\ calls[d].user = u}
<1>1. u \in Accounts /\ u \in Users
  BY DEF AuthInv, CallTrue, Accounts
<1>2. /\ \A v \in Users : users'[v] = IF v = u THEN new ELSE users[v]
      /\ \A v \in Users : streak'[v] = IF v = u THEN k ELSE streak[v]
      /\ raced' = IF calls[c].stale THEN raced \cup {u} ELSE raced
  BY <1>1 DEF AuthInv, AuthTypeOK, NoteRace
<1>3. Accounts' = Accounts /\ Accounts \subseteq Users
  BY <1>1, <1>2, AccountsAssumption DEF Accounts
<1>4. FinishOver(c, overtaken)
  BY DEF OverUser
<1>5. LockoutExact'
  <2>1. ASSUME NEW v \in Accounts' \ raced'
        PROVE  /\ users'[v].fails = streak'[v] % MaxFailures
               /\ users'[v].lock = "none" <=> streak'[v] < MaxFailures
    <3>1. CASE v = u
      BY <1>1, <1>2, <3>1
    <3>2. CASE v # u
      BY <1>2, <1>3, <3>2 DEF ExactInv, LockoutExact
    <3>. QED  BY <3>1, <3>2
  <2>. QED  BY <2>1 DEF LockoutExact
<1>6. \A v \in Users \ Accounts' : streak'[v] = 0
  BY <1>1, <1>2, <1>3 DEF ExactInv
<1>7. ASSUME NEW d \in Calls
      PROVE  ReadExact(calls[d])'
  <2>1. SUFFICES ASSUME calls'[d].op = "login", ~calls'[d].stale
                 PROVE  calls'[d].read.fails = users'[calls'[d].user].fails
    BY DEF ReadExact
  <2>2. \A e \in overtaken : calls[e].op = "login"
    OBVIOUS
  <2>3. d \notin overtaken /\ calls'[d] = calls[d]
    <3>. HIDE DEF overtaken
    <3>. QED  BY <1>4, <2>1, <2>2, OverReads
  <2>4. calls[d].user # u /\ calls[d].user \in Accounts
    BY <2>1, <2>3 DEF AuthInv, CallTrue
  <2>. QED  BY <1>2, <1>3, <2>1, <2>3, <2>4 DEF ExactInv, ReadExact
<1>. QED  BY <1>5, <1>6, <1>7 DEF ExactInv

\* What a log-in that was not overtaken has in hand: the account's own counts.
LEMMA FreshLogin ==
  ASSUME AuthInv, ExactInv, NEW c \in Calls, calls[c].op = "login", ~calls[c].stale,
         calls[c].user \notin raced
  PROVE  /\ users[calls[c].user] \in Account
         /\ calls[c].read.fails = users[calls[c].user].fails
         /\ calls[c].read.lock = users[calls[c].user].lock
         /\ streak[calls[c].user] \in Nat
         /\ users[calls[c].user].fails = streak[calls[c].user] % MaxFailures
         /\ users[calls[c].user].lock = "none" <=> streak[calls[c].user] < MaxFailures
<1>1. calls[c].user \in Accounts /\ calls[c].user \in Users
  BY DEF AuthInv, CallTrue, Accounts
<1>. QED
  BY <1>1, UserRowShape DEF AuthInv, CallTrue, ExactInv, ReadExact, LockoutExact, AuthTypeOK

LEMMA LoginWrongExact ==
  ASSUME AuthInv, ExactInv, NEW c \in Calls, LoginWrong(c)
  PROVE  ExactInv'
<1> DEFINE u == calls[c].user
           row == users[u]
           read == calls[c].read
           new == Failed(row, read)
           k == streak[u] + 1
<1>1. new \in Account /\ u \in Users
  BY LoginRow DEF LoginWrong
<1>2. k \in Nat
  BY <1>1 DEF AuthInv, AuthTypeOK
<1>3. /\ users' = [users EXCEPT ![u] = new] /\ streak' = [streak EXCEPT ![u] = k]
      /\ OverUser(c) /\ NoteRace(c) /\ calls[c].op = "login"
  BY DEF LoginWrong
<1>4. ASSUME ~calls[c].stale, u \notin raced
      PROVE  new.fails = k % MaxFailures /\ (new.lock = "none" <=> k < MaxFailures)
  <2>1. /\ row \in Account /\ read.fails = row.fails /\ streak[u] \in Nat
        /\ row.fails = streak[u] % MaxFailures
        /\ row.lock = "none" <=> streak[u] < MaxFailures
    BY <1>3, <1>4, FreshLogin
  <2>2. MaxFailures \in Nat \ {0}
    BY AccountsAssumption
  <2>3. /\ row.fails \in 0..(MaxFailures - 1)
        /\ k % MaxFailures = IF row.fails + 1 = MaxFailures THEN 0 ELSE row.fails + 1
        /\ streak[u] < MaxFailures => streak[u] = row.fails
    <3>1. PICK n \in Nat : n = streak[u]
      BY <2>1
    <3>2. row.fails = n % MaxFailures /\ k = n + 1
      BY <2>1, <3>1
    <3> HIDE DEF row, k
    <3>3. row.fails \in 0..(MaxFailures - 1)
      BY <2>2, <3>2, DivisionHolds
    <3>4. k % MaxFailures = IF row.fails + 1 = MaxFailures THEN 0 ELSE row.fails + 1
      BY <2>2, <3>2, NextRemainder
    <3>5. n < MaxFailures => n = row.fails
      BY <2>2, <3>2, SmallRemainder
    <3>. QED  BY <3>1, <3>3, <3>4, <3>5
  <2>4. CASE row.fails + 1 = MaxFailures
    <3>1. new.lock = "ahead" /\ new.fails = 0
      <4>1. read.fails + 1 >= MaxFailures
        BY <2>1, <2>2, <2>4
      <4>2. new = [row EXCEPT !.fails = IF read.fails = 0 THEN row.fails ELSE 0, !.lock = "ahead"]
        BY <4>1 DEF Failed
      <4>. QED  BY <2>1, <4>2 DEF Account
    <3>2. ~(k < MaxFailures)
      BY <2>1, <2>2, <2>3, <2>4
    <3>. QED  BY <2>3, <2>4, <3>1, <3>2
  <2>5. CASE row.fails + 1 # MaxFailures
    <3>1. new.lock = row.lock /\ new.fails = row.fails + 1
      <4>1. ~(read.fails + 1 >= MaxFailures)
        BY <2>1, <2>2, <2>3, <2>5
      <4>2. new = [row EXCEPT !.fails = read.fails + 1]
        BY <4>1 DEF Failed
      <4>. QED  BY <2>1, <4>2 DEF Account
    <3>2. k < MaxFailures <=> streak[u] < MaxFailures
      BY <2>1, <2>2, <2>3, <2>5
    <3>. QED  BY <2>1, <2>3, <2>5, <3>1, <3>2
  <2>. QED  BY <2>4, <2>5
<1> HIDE DEF new, k
<1>. QED  BY <1>1, <1>2, <1>3, <1>4, ExactLogin

LEMMA LoginRightExact ==
  ASSUME AuthInv, ExactInv, NEW c \in Calls, LoginRight(c)
  PROVE  ExactInv'
<1> DEFINE u == calls[c].user
           row == users[u]
           read == calls[c].read
           new == Succeeded(row, read)
<1>1. new \in Account
  BY LoginRow DEF LoginRight
<1>2. /\ users' = [users EXCEPT ![u] = new] /\ streak' = [streak EXCEPT ![u] = 0]
      /\ OverUser(c) /\ NoteRace(c) /\ calls[c].op = "login"
  BY DEF LoginRight
<1>3. 0 % MaxFailures = 0 /\ 0 < MaxFailures
  BY SmallRemainder, AccountsAssumption
<1>4. ASSUME ~calls[c].stale, u \notin raced
      PROVE  new.fails = 0 /\ new.lock = "none"
  <2>1. row \in Account /\ read.fails = row.fails /\ read.lock = row.lock
    BY <1>2, <1>4, FreshLogin
  <2>. QED  BY <2>1 DEF Succeeded, Account
<1> HIDE DEF new
<1>. QED  BY <1>1, <1>2, <1>3, <1>4, ExactLogin

\* The steps that touch no counter and no lock: readers, tokens, passwords.
LEMMA LockoutOthers ==
  ASSUME AuthInv, ExactInv, NEW c \in Calls,
         \/ SignupRead(c) \/ Conflict(c) \/ SocialRead(c) \/ RefreshRead(c) \/ RefreshCommit(c)
         \/ LogoutRead(c) \/ LogoutCommit(c) \/ PasswordRead(c) \/ CallLost(c)
  PROVE  ExactInv'
<1>1. UNCHANGED <<users, streak, raced>>
  BY DEF SignupRead, Conflict, SocialRead, RefreshRead, RefreshCommit, LogoutRead, LogoutCommit,
         PasswordRead, CallLost, authHistory
<1>2. ASSUME NEW d \in Calls, calls'[d].op = "login", ~calls'[d].stale
      PROVE  calls'[d] = calls[d]
  <2>1. CASE OverToken(c)
    <3> DEFINE overtaken == {e \in Calls : /\ calls[e].op \in {"refresh", "logout"}
                                           /\ calls[e].token = calls[c].token}
    <3>1. FinishOver(c, overtaken) /\ \A e \in overtaken : calls[e].op \in {"refresh", "logout"}
      BY <2>1 DEF OverToken
    <3> HIDE DEF overtaken
    <3>. QED  BY <1>2, <3>1, OverReads
  <2>2. CASE ~OverToken(c)
    <3>1. PICK new : calls' = [calls EXCEPT ![c] = new] /\ new.op # "login"
      BY <2>2 DEF SignupRead, Conflict, SocialRead, RefreshRead, RefreshCommit, LogoutRead,
                  LogoutCommit, PasswordRead, CallLost, Start, Finish, Idle
    <3>. QED  BY <1>2, <3>1 DEF AuthInv, AuthTypeOK
  <2>. QED  BY <2>1, <2>2
<1>3. Accounts' = Accounts
  BY <1>1 DEF Accounts
<1>. QED  BY <1>1, <1>2, <1>3, LockoutKept

LEMMA LoginReadExact ==
  ASSUME AuthInv, ExactInv, NEW c \in Calls, LoginRead(c)
  PROVE  ExactInv'
<1>1. PICK u \in Accounts, right \in BOOLEAN :
        calls' = [calls EXCEPT ![c] = [op |-> "login", user |-> u, read |-> users[u],
                                       right |-> right, stale |-> FALSE]]
  BY DEF LoginRead, Start
<1>2. UNCHANGED <<users, streak, raced>>
  BY DEF LoginRead, authHistory
<1>3. LockoutExact' /\ \A v \in Users \ Accounts' : streak'[v] = 0
  BY <1>2 DEF ExactInv, LockoutExact, Accounts
<1>4. ASSUME NEW d \in Calls
      PROVE  ReadExact(calls[d])'
  BY <1>1, <1>2 DEF ExactInv, ReadExact, AuthInv, AuthTypeOK
<1>. QED  BY <1>3, <1>4 DEF ExactInv

LEMMA InsertsExact ==
  ASSUME AuthInv, ExactInv, NEW c \in Calls, SignupInsert(c) \/ SocialLogin(c)
  PROVE  ExactInv'
<1>1. Finish(c) /\ UNCHANGED <<streak, raced>>
  BY DEF SignupInsert, SocialLogin, authHistory
<1>2. CASE UNCHANGED users
  <2>1. \A d \in Calls : calls'[d] = Idle \/ calls'[d] = calls[d]
    BY <1>1 DEF Finish, AuthInv, AuthTypeOK
  <2>. QED  BY <1>1, <1>2, <2>1, LockoutKept DEF Accounts, Idle
<1>3. CASE ~UNCHANGED users
  <2>1. PICK u \in Users, key \in Emails \cup Identities,
             password \in Passwords \cup {NoPassword} :
          u \notin Accounts /\ users' = [users EXCEPT ![u] = NewAccount(key, password)]
    <3>1. /\ calls[c].op = "signup" => calls[c].email \in Emails /\ calls[c].password \in Passwords
          /\ calls[c].op = "social" => calls[c].identity \in Identities
      BY CallShape DEF AuthInv, AuthTypeOK
    <3>. QED  BY <1>3, <3>1 DEF SignupInsert, SocialLogin, Insertable
  <2>. QED  BY <1>1, <2>1, ExactInsert
<1>. QED  BY <1>2, <1>3

LEMMA PasswordCommitExact ==
  ASSUME AuthInv, ExactInv, NEW c \in Calls, PasswordCommit(c)
  PROVE  ExactInv'
<1> DEFINE u == calls[c].user
           new == [users[u] EXCEPT !.password = calls[c].new]
           overtaken == {d \in Calls : calls[d].op = calls[c].op /\ calls[d].user = u}
<1>1. /\ users' = [users EXCEPT ![u] = new] /\ calls[c].op = "password"
      /\ FinishOver(c, overtaken) /\ UNCHANGED <<streak, raced>>
  BY DEF PasswordCommit, OverUser, authHistory
<1>2. u \in Accounts /\ u \in Users /\ users[u] \in Account /\ calls[c].new \in Passwords
  BY <1>1, UserRowShape, CallShape DEF AuthInv, AuthTypeOK, CallTrue, Accounts, PasswordCall
<1>3. new \in Account /\ new.fails = users[u].fails /\ new.lock = users[u].lock
  BY <1>2 DEF Account
<1>4. \A e \in overtaken : calls[e].op = "password"
  BY <1>1
<1> HIDE DEF new, overtaken
<1>5. \A v \in Users : users'[v] = IF v = u THEN new ELSE users[v]
  BY <1>1, <1>2 DEF AuthInv, AuthTypeOK
<1>6. Accounts' = Accounts /\ Accounts \subseteq Users
  BY <1>2, <1>3, <1>5, AccountsAssumption DEF Accounts
<1>7. \A d \in Calls : calls'[d].op = "login" /\ ~calls'[d].stale => calls'[d] = calls[d]
  BY <1>1, <1>4, OverReads
<1>. QED  BY <1>1, <1>3, <1>5, <1>6, <1>7, LockoutKept

LEMMA TimeExact ==
  ASSUME AuthInv, ExactInv, LockRunsOut \/ TokenExpires
  PROVE  ExactInv'
<1>1. UNCHANGED <<calls, streak, raced>>
  BY DEF LockRunsOut, TokenExpires, authHistory
<1>2. CASE LockRunsOut
  <2>1. PICK u \in Accounts :
          users[u].lock = "ahead" /\ users' = [users EXCEPT ![u].lock = "over"]
    BY <1>2 DEF LockRunsOut
  <2> DEFINE new == [users[u] EXCEPT !.lock = "over"]
  <2>2. users[u] \in Account /\ u \in Users
    BY UserRowShape DEF AuthInv, Accounts
  <2>3. new \in Account /\ new.fails = users[u].fails /\ new.lock = "over"
    BY <2>2 DEF Account
  <2>4. users' = [users EXCEPT ![u] = new]
    BY <2>1
  <2> HIDE DEF new
  <2>5. \A v \in Users : users'[v] = IF v = u THEN new ELSE users[v]
    BY <2>2, <2>4 DEF AuthInv, AuthTypeOK
  <2>6. Accounts' = Accounts /\ Accounts \subseteq Users
    BY <2>2, <2>3, <2>5, AccountsAssumption DEF Accounts
  <2>. QED  BY <1>1, <2>1, <2>3, <2>5, <2>6, LockoutKept
<1>3. CASE TokenExpires
  <2>1. UNCHANGED users /\ Accounts' = Accounts
    BY <1>3 DEF TokenExpires, Accounts
  <2>. QED  BY <1>1, <2>1, LockoutKept
<1>. QED  BY <1>2, <1>3

LEMMA ExactNext == AuthInv /\ ExactInv /\ [AuthNext]_authVars => ExactInv'
<1> SUFFICES ASSUME AuthInv, ExactInv, [AuthNext]_authVars
             PROVE  ExactInv'
  OBVIOUS
<1>1. ASSUME NEW c \in Calls, AuthStep(c)
      PROVE  ExactInv'
  BY <1>1, LockoutOthers, LoginReadExact, LoginWrongExact, LoginRightExact, InsertsExact,
     PasswordCommitExact DEF AuthStep
<1>2. CASE UNCHANGED authVars
  BY <1>2, LockoutKept DEF authVars, rows, authHistory, Accounts
<1>. QED  BY <1>1, <1>2, TimeExact DEF AuthNext

LEMMA ExactInit == AuthInit => ExactInv
  BY DEF AuthInit, ExactInv, LockoutExact, ReadExact, Accounts, Idle

\* An account whose log-ins never overlapped is locked by exactly every
\* MaxFailures-th failure in a row, whatever the limit is.
THEOREM LockIsExact == AuthSpec => []LockoutExact
<1>1. AuthInit => AuthInv /\ ExactInv
  BY AuthInitInv, ExactInit
<1>2. AuthInv /\ ExactInv /\ [AuthNext]_authVars => (AuthInv /\ ExactInv)'
  BY AuthNextInv, ExactNext
<1>3. ExactInv => LockoutExact
  BY DEF ExactInv
<1>. QED  BY <1>1, <1>2, <1>3, PTL DEF AuthSpec
=============================================================================
