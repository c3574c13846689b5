------------------------------ MODULE Sessions ------------------------------
(***************************************************************************)
(* Signing in, and the refresh tokens that keep a session alive: users of  *)
(* the marketplace by a code sent to their phone, ticket providers and     *)
(* administrators by their password.  The three applications refresh and   *)
(* log out with the same code on tables of their own.                      *)
(*                                                                         *)
(* No step here is in a transaction but the one that stores a code: a      *)
(* request finds a row, changes it in a statement of its own, whatever the *)
(* row has become, and goes on.                                            *)
(***************************************************************************)
EXTENDS Naturals, FiniteSets

CONSTANTS
  Phones,      \* phone numbers
  Providers,   \* ticket providers, which are accounts of the API as well
  Admins,      \* administrators
  Devices,     \* fingerprints of the clients
  Requests,    \* concurrent requests
  MaxUsers,    \* most user rows
  MaxCodes,    \* most auth_code rows
  MaxTokens,   \* most refresh tokens
  MaxDisturbances, \* bound of what expires and of the requests that fail
  None         \* no phone, no provider, no device, no account

ASSUME SessionsAssumption ==
  /\ IsFiniteSet(Requests)
  /\ MaxUsers \in Nat
  /\ MaxCodes \in Nat
  /\ MaxTokens \in Nat
  /\ MaxDisturbances \in Nat
  /\ (Providers \cup Admins) \cap Nat = {}
  /\ None \notin Phones \cup Providers \cup Admins \cup Devices \cup Nat

VARIABLES
  userRows,  \* the last id of the user table
  user,      \* the user rows
  codeRows,  \* the last id of the auth_code table
  code,      \* the auth_code rows
  tokenRows, \* how many refresh tokens there have been
  token,     \* the refresh_token rows of the three applications
  request,   \* the requests, and what they have found
  raced,     \* history: sessions with a token that two requests, or one and a logout, held
  ended,     \* history: sessions logged out, or lost by a request that failed
  disturbances \* how many codes and tokens have expired, and requests failed

tableVars == <<userRows, user, codeRows, code, tokenRows, token>>
historyVars == <<raced, ended>>
vars == <<tableVars, request, historyVars, disturbances>>

UserIds == 1..MaxUsers
CodeIds == 1..MaxCodes
TokenIds == 1..MaxTokens

UserRow == [phone : Phones \cup {None}, provider : Providers \cup {None}]
UserTable == [UserIds -> UserRow]
NoUser == [phone |-> None, provider |-> None]

AuthCodeRow == [user : UserIds \cup {0}, used : BOOLEAN, expired : BOOLEAN]
AuthCodeTable == [CodeIds -> AuthCodeRow]
NoCode == [user |-> 0, used |-> FALSE, expired |-> FALSE]

\* The owners of refresh tokens, by application.
Account == UserIds \cup Providers \cup Admins

\* A refresh token.  History: the token it was exchanged for, 0 for a sign-in,
\* the first token of its session, and the code of a sign-in.
RefreshTokenRow ==
  [status : {"none", "live", "deleted"}, account : Account \cup {None},
   fingerprint : Devices \cup {None}, expired : BOOLEAN,
   parent : TokenIds \cup {0}, session : TokenIds \cup {0}, code : CodeIds \cup {0}]
RefreshTokenTable == [TokenIds -> RefreshTokenRow]
NoToken == [status |-> "none", account |-> None, fingerprint |-> None, expired |-> FALSE,
            parent |-> 0, session |-> 0, code |-> 0]

\* The bodies of the requests: headers and addresses left out.  A code is named
\* by its row, which stands for the phone number and the digits.
SendAuthCodeDto == [phone : Phones, provider : Providers]
VerifyAuthCodeDto == [code : CodeIds, fingerprint : Devices]
RefreshTokensDto == [token : TokenIds, fingerprint : Devices]
LoginDto == [account : Providers \cup Admins, fingerprint : Devices]

Step == {"idle", "send", "use", "signIn", "refresh", "found", "exchange"}
Request == [step : Step, phone : Phones \cup {None}, provider : Providers \cup {None},
            account : Account \cup {None}, fingerprint : Devices \cup {None},
            code : CodeIds \cup {0}, token : TokenIds \cup {0}]
Idle == [step |-> "idle", phone |-> None, provider |-> None, account |-> None,
         fingerprint |-> None, code |-> 0, token |-> 0]

TypeOK ==
  /\ userRows \in 0..MaxUsers
  /\ user \in UserTable
  /\ codeRows \in 0..MaxCodes
  /\ code \in AuthCodeTable
  /\ tokenRows \in 0..MaxTokens
  /\ token \in RefreshTokenTable
  /\ request \in [Requests -> Request]
  /\ raced \subseteq TokenIds
  /\ ended \subseteq TokenIds
  /\ disturbances \in 0..MaxDisturbances

Init ==
  /\ userRows = 0
  /\ user = [u \in UserIds |-> NoUser]
  /\ codeRows = 0
  /\ code = [c \in CodeIds |-> NoCode]
  /\ tokenRows = 0
  /\ token = [t \in TokenIds |-> NoToken]
  /\ request = [w \in Requests |-> Idle]
  /\ raced = {}
  /\ ended = {}
  /\ disturbances = 0

Disturbance == disturbances < MaxDisturbances /\ disturbances' = disturbances + 1

Begin(w, step) == /\ request[w] = Idle
                  /\ request' = [request EXCEPT ![w] = step]
Continue(w, step) == request' = [request EXCEPT ![w].step = step]
End(w) == request' = [request EXCEPT ![w] = Idle]

-----------------------------------------------------------------------------
(* POST /auth/send-auth-code                                                *)

\* UserService.findByPhoneNumber: of the users with the phone, one of each
\* ticket provider at most, the database returns any.
UsersOf(phone) == {u \in UserIds : user[u].phone = phone}

Mutant_FindUser_OfProvider(w, dto) ==
  LET found == {u \in UsersOf(dto.phone) : user[u].provider = dto.provider}
      send == [Idle EXCEPT !.step = "send", !.phone = dto.phone, !.provider = dto.provider] IN
  /\ \/ \E u \in found : Begin(w, [send EXCEPT !.account = u])
     \/ found = {} /\ Begin(w, send)
  /\ UNCHANGED <<tableVars, historyVars, disturbances>>

\* The user is read on a connection of its own, before the rows are written.
FindUser(w, dto) ==
  LET send == [Idle EXCEPT !.step = "send", !.phone = dto.phone, !.provider = dto.provider] IN
  /\ \/ \E u \in UsersOf(dto.phone) : Begin(w, [send EXCEPT !.account = u])
     \/ UsersOf(dto.phone) = {} /\ Begin(w, send)
  /\ UNCHANGED <<tableVars, historyVars, disturbances>>

\* The unique index of the table: the ticket provider and the phone number.
IsNewUser(row) == \A u \in UserIds : user[u] # row

NewUser(w) ==
  LET row == [phone |-> request[w].phone, provider |-> request[w].provider] IN
  /\ userRows < MaxUsers
  /\ IsNewUser(row)
  /\ userRows' = userRows + 1
  /\ user' = [user EXCEPT ![userRows + 1] = row]

Mutant_CreateAuthCode_NewUserForgotten(w) ==
  /\ request[w].step = "send"
  /\ codeRows < MaxCodes
  /\ IF request[w].account = None THEN NewUser(w) ELSE UNCHANGED <<userRows, user>>
  /\ codeRows' = codeRows + 1
  /\ code' = [code EXCEPT ![codeRows + 1] =
                [user |-> request[w].account, used |-> FALSE, expired |-> FALSE]]
  /\ End(w)
  /\ UNCHANGED <<tokenRows, token, historyVars, disturbances>>

\* AuthService.sendAuthCode: the code, and the user unless there is one, in a
\* transaction; the message with the code is sent in the same transaction.
CreateAuthCode(w) ==
  /\ request[w].step = "send"
  /\ codeRows < MaxCodes
  /\ IF request[w].account = None THEN NewUser(w) ELSE UNCHANGED <<userRows, user>>
  /\ codeRows' = codeRows + 1
  /\ code' = [code EXCEPT ![codeRows + 1] =
                [user |-> IF request[w].account = None THEN userRows + 1 ELSE request[w].account,
                 used |-> FALSE, expired |-> FALSE]]
  /\ End(w)
  /\ UNCHANGED <<tokenRows, token, historyVars, disturbances>>

-----------------------------------------------------------------------------
(* POST /auth/verify-auth-code                                              *)

Mutant_FindAuthCode_OfAnyUser(w, dto) ==
  LET c == dto.code IN
  /\ c \in 1..codeRows
  /\ ~code[c].used
  /\ ~code[c].expired
  /\ \E u \in UsersOf(user[code[c].user].phone) :
       Begin(w, [Idle EXCEPT !.step = "use", !.account = u,
                             !.fingerprint = dto.fingerprint, !.code = c])
  /\ UNCHANGED <<tableVars, historyVars, disturbances>>

\* AuthCodeRepository.findAuthCode: an unused code of the phone, that was sent
\* to the user found for the phone.
FindAuthCode(w, dto) ==
  LET c == dto.code IN
  /\ c \in 1..codeRows
  /\ ~code[c].used
  /\ ~code[c].expired
  /\ \E u \in UsersOf(user[code[c].user].phone) :
       /\ code[c].user = u
       /\ Begin(w, [Idle EXCEPT !.step = "use", !.account = u,
                                !.fingerprint = dto.fingerprint, !.code = c])
  /\ UNCHANGED <<tableVars, historyVars, disturbances>>

Mutant_UseAuthCode_NotStored(w) ==
  /\ request[w].step = "use"
  /\ Continue(w, "signIn")
  /\ UNCHANGED <<tableVars, historyVars, disturbances>>

\* AuthService.useAuthCode: by id alone.
UseAuthCode(w) ==
  /\ request[w].step = "use"
  /\ code' = [code EXCEPT ![request[w].code].used = TRUE]
  /\ Continue(w, "signIn")
  /\ UNCHANGED <<userRows, user, codeRows, tokenRows, token, historyVars, disturbances>>

-----------------------------------------------------------------------------
(* POST /auth/login of the providers' API and of the administration         *)

\* LocalStrategy: the e-mail and the password match.
Login(w, dto) ==
  /\ Begin(w, [Idle EXCEPT !.step = "signIn", !.account = dto.account,
                           !.fingerprint = dto.fingerprint])
  /\ UNCHANGED <<tableVars, historyVars, disturbances>>

-----------------------------------------------------------------------------
(* POST /auth/refresh-tokens                                                *)

\* RefreshTokenValidator.
AcceptRefresh(w, dto) ==
  /\ token[dto.token].status = "live"
  /\ token[dto.token].fingerprint = dto.fingerprint
  /\ ~token[dto.token].expired
  /\ Begin(w, [Idle EXCEPT !.step = "refresh", !.fingerprint = dto.fingerprint,
                           !.token = dto.token])
  /\ UNCHANGED <<tableVars, historyVars, disturbances>>

Holders(t) == {w \in Requests : request[w].step \in {"found", "exchange"} /\ request[w].token = t}

\* AuthService.refreshTokens: the token is looked up again, or the request is refused.
FindToken(w) ==
  LET t == request[w].token IN
  /\ request[w].step = "refresh"
  /\ token[t].status = "live"
  /\ request' = [request EXCEPT ![w].step = "found", ![w].account = token[t].account]
  /\ raced' = IF Holders(t) = {} THEN raced ELSE raced \cup {token[t].session}
  /\ UNCHANGED <<tableVars, ended, disturbances>>

RefuseRefresh(w) ==
  /\ request[w].step = "refresh"
  /\ token[request[w].token].status # "live"
  /\ End(w)
  /\ UNCHANGED <<tableVars, historyVars, disturbances>>

Mutant_DeleteToken_NotAwaited(w) ==
  /\ request[w].step = "found"
  /\ Continue(w, "exchange")
  /\ UNCHANGED <<tableVars, historyVars, disturbances>>

\* UserRefreshTokenService.deleteByToken: nobody asks whether there was a row left.
DeleteToken(w) ==
  /\ request[w].step = "found"
  /\ token' = [token EXCEPT ![request[w].token].status = "deleted"]
  /\ Continue(w, "exchange")
  /\ UNCHANGED <<userRows, user, codeRows, code, tokenRows, historyVars, disturbances>>

\* createRefreshToken of the repositories, for a sign-in and for a refresh.
CreateRefreshToken(w) ==
  LET t == request[w].token  new == tokenRows + 1 IN
  /\ request[w].step \in {"signIn", "exchange"}
  /\ tokenRows < MaxTokens
  /\ tokenRows' = new
  /\ token' = [token EXCEPT ![new] =
       [status |-> "live", account |-> request[w].account,
        fingerprint |-> request[w].fingerprint, expired |-> FALSE,
        parent |-> t, session |-> IF t = 0 THEN new ELSE token[t].session,
        code |-> request[w].code]]
  /\ End(w)
  /\ UNCHANGED <<userRows, user, codeRows, code, historyVars, disturbances>>

-----------------------------------------------------------------------------
(* POST /auth/logout                                                        *)

\* One statement: the token of the cookie is deleted.
Logout(w, t) ==
  /\ request[w] = Idle
  /\ token[t].status = "live"
  /\ token' = [token EXCEPT ![t].status = "deleted"]
  /\ ended' = ended \cup {token[t].session}
  /\ raced' = IF Holders(t) = {} THEN raced ELSE raced \cup {token[t].session}
  /\ UNCHANGED <<userRows, user, codeRows, code, tokenRows, request, disturbances>>

-----------------------------------------------------------------------------
(* The three applications, each on the table of its own accounts.           *)

TokensOf(accounts) == {t \in TokenIds : token[t].account \in accounts}
UserRefreshTokens == TokensOf(UserIds)
TicketProviderRefreshTokens == TokensOf(Providers)
AdminRefreshTokens == TokensOf(Admins)

\* A refresh of a token of the table, as the marketplace makes it, and a sign-in
\* of one of the accounts.
Refresh(w, table) ==
  /\ request[w].token \in table
  /\ FindToken(w) \/ RefuseRefresh(w) \/ DeleteToken(w) \/ CreateRefreshToken(w)

SignIn(w, accounts) ==
  /\ request[w].step = "signIn"
  /\ request[w].account \in accounts
  /\ CreateRefreshToken(w)

\* The same of the other two.
ProviderRefresh(w) == Refresh(w, TicketProviderRefreshTokens)

AdminRefresh(w) == Refresh(w, AdminRefreshTokens)

\* validateUser and login of the administration.
AdminLogin(w, dto) == dto.account \in Admins /\ Login(w, dto)

UserAuthController(w) ==
  \/ \E dto \in SendAuthCodeDto : FindUser(w, dto)
  \/ CreateAuthCode(w)
  \/ \E dto \in VerifyAuthCodeDto : FindAuthCode(w, dto)
  \/ UseAuthCode(w) \/ SignIn(w, UserIds)
  \/ \E dto \in RefreshTokensDto : dto.token \in UserRefreshTokens /\ AcceptRefresh(w, dto)
  \/ Refresh(w, UserRefreshTokens)
  \/ \E t \in UserRefreshTokens : Logout(w, t)

ProviderAuthController(w) ==
  \/ \E dto \in LoginDto : dto.account \in Providers /\ Login(w, dto)
  \/ SignIn(w, Providers)
  \/ \E dto \in RefreshTokensDto :
       dto.token \in TicketProviderRefreshTokens /\ AcceptRefresh(w, dto)
  \/ ProviderRefresh(w)
  \/ \E t \in TicketProviderRefreshTokens : Logout(w, t)

AdminAuthController(w) ==
  \/ \E dto \in LoginDto : AdminLogin(w, dto)
  \/ SignIn(w, Admins)
  \/ \E dto \in RefreshTokensDto : dto.token \in AdminRefreshTokens /\ AcceptRefresh(w, dto)
  \/ AdminRefresh(w)
  \/ \E t \in AdminRefreshTokens : Logout(w, t)

-----------------------------------------------------------------------------
(* What else happens.                                                       *)

\* A request fails, or the process it runs in stops.  What it has written stays.
FailRequest(w) ==
  /\ request[w].step # "idle"
  /\ Disturbance
  /\ ended' = IF request[w].step = "exchange"
              THEN ended \cup {token[request[w].token].session} ELSE ended
  /\ End(w)
  /\ UNCHANGED <<tableVars, raced>>

CodeExpires(c) ==
  /\ Disturbance
  /\ c \in 1..codeRows
  /\ ~code[c].expired
  /\ code' = [code EXCEPT ![c].expired = TRUE]
  /\ UNCHANGED <<userRows, user, codeRows, tokenRows, token, request, historyVars>>

TokenExpires(t) ==
  /\ Disturbance
  /\ token[t].status = "live"
  /\ ~token[t].expired
  /\ token' = [token EXCEPT ![t].expired = TRUE]
  /\ UNCHANGED <<userRows, user, codeRows, code, tokenRows, request, historyVars>>

Next ==
  \/ \E w \in Requests : \/ UserAuthController(w) \/ ProviderAuthController(w)
                         \/ AdminAuthController(w) \/ FailRequest(w)
  \/ \E t \in TokenIds : TokenExpires(t)
  \/ \E c \in CodeIds : CodeExpires(c)

Spec == Init /\ [][Next]_vars

-----------------------------------------------------------------------------
(* Properties                                                               *)

Tokens == 1..tokenRows
Using(c) == {w \in Requests : request[w].step \in {"use", "signIn"} /\ request[w].code = c}

\* An auth code is found unused and marked as used in two statements, and a
\* refresh token is found and deleted in two: each is good for as many sessions,
\* or successors, as there are requests that found it in time, and no more.
SignInsBoundedByConcurrency ==
  /\ \A c \in CodeIds :
       Cardinality({t \in Tokens : token[t].code = c}) + Cardinality(Using(c))
         <= Cardinality(Requests)
  /\ \A t \in TokenIds :
       Cardinality({s \in Tokens : token[s].parent = t}) + Cardinality(Holders(t))
         <= Cardinality(Requests)

\* As long as no two requests hold the same token of a session, the session has
\* one live token, or a refresh between the old token and the new one; it has
\* none when it was logged out, or when the refresh failed in between.  A
\* logged out session does not come back.
OneTokenPerSession ==
  \A s \in {token[t].session : t \in Tokens} \ raced :
    Cardinality({t \in Tokens : token[t].session = s /\ token[t].status = "live"})
    + Cardinality({w \in Requests : /\ request[w].step = "exchange"
                                    /\ token[request[w].token].session = s})
    = IF s \in ended THEN 0 ELSE 1

\* However often its token is exchanged, a session stays with the account that
\* signed in, on the device that signed in; a code signs in the user it was sent to.
SessionKeepsItsOwner ==
  \A t \in Tokens :
    /\ token[t].account = token[token[t].session].account
    /\ token[t].fingerprint = token[token[t].session].fingerprint
    /\ token[t].code # 0 => token[t].account = code[token[t].code].user

\* Signing in looks a user up by the phone number alone, and creates none where
\* there is one: of the users created that way, those who share a phone number
\* were created by concurrent requests, for different ticket providers.
UsersOfPhoneBounded ==
  \A phone \in Phones :
    /\ Cardinality(UsersOf(phone)) +
         Cardinality({w \in Requests : /\ request[w].step = "send"
                                       /\ request[w].phone = phone
                                       /\ request[w].account = None})
         <= Cardinality(Requests)
    /\ \A u, v \in UsersOf(phone) : user[u].provider = user[v].provider => u = v
=============================================================================
