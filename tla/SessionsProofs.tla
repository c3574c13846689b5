--------------------------- MODULE SessionsProofs ----------------------------
(***************************************************************************)
(* Proofs about Sessions: the type invariant, who a session belongs to,    *)
(* and how many sign-ins, successors and users requests at work can add.   *)
(***************************************************************************)
EXTENDS Sessions, FiniteSetTheorems, TLAPS

\* The steps of a request, whichever application it is made to.
RequestStep(w) ==
  \/ \E dto \in SendAuthCodeDto : FindUser(w, dto)
  \/ CreateAuthCode(w)
  \/ \E dto \in VerifyAuthCodeDto : FindAuthCode(w, dto)
  \/ UseAuthCode(w)
  \/ \E dto \in LoginDto : Login(w, dto)
  \/ \E dto \in RefreshTokensDto : AcceptRefresh(w, dto)
  \/ FindToken(w) \/ RefuseRefresh(w) \/ DeleteToken(w)
  \/ CreateRefreshToken(w)
  \/ \E t \in TokenIds : Logout(w, t)
  \/ FailRequest(w)

Expiry == (\E t \in TokenIds : TokenExpires(t)) \/ (\E c \in CodeIds : CodeExpires(c))

LEMMA NextSteps == Next => (\E w \in Requests : RequestStep(w)) \/ Expiry
  BY DEF Next, RequestStep, Expiry, UserAuthController, ProviderAuthController,
         AdminAuthController, SignIn, Refresh, ProviderRefresh, AdminRefresh, AdminLogin,
         UserRefreshTokens, TicketProviderRefreshTokens,
         AdminRefreshTokens, TokensOf

-----------------------------------------------------------------------------
(* The invariant.                                                           *)

\* The rows that have been created, and only they, have been filled in.
UsersAreWhole ==
  \A u \in UserIds :
    IF u <= userRows THEN user[u].phone \in Phones /\ user[u].provider \in Providers
                     ELSE user[u] = NoUser

CodesAreWhole ==
  \A c \in CodeIds : IF c <= codeRows THEN code[c].user \in 1..userRows ELSE code[c] = NoCode

\* A token belongs to its session, which is the token it began with.
WholeToken(t) ==
  /\ token[t].status \in {"live", "deleted"}
  /\ token[t].account \in Account
  /\ token[t].fingerprint \in Devices
  /\ token[t].session \in 1..tokenRows
  /\ token[token[t].session].session = token[t].session
  /\ token[token[t].session].account = token[t].account
  /\ token[token[t].session].fingerprint = token[t].fingerprint
  /\ token[t].parent # 0 =>
       token[t].parent \in 1..tokenRows /\ token[token[t].parent].status = "deleted"
  /\ token[t].code # 0 =>
       /\ token[t].code \in 1..codeRows
       /\ code[token[t].code].used
       /\ token[t].account = code[token[t].code].user

TokensAreWhole == \A t \in TokenIds : IF t <= tokenRows THEN WholeToken(t) ELSE token[t] = NoToken

\* What a request has found stays true of the rows, except of their status.
WholeRequest(q) ==
  /\ q \in Request
  /\ q.step = "send" =>
       /\ q.phone \in Phones /\ q.provider \in Providers
       /\ q.account # None => q.account \in 1..userRows
  /\ q.step \in {"use", "signIn"} =>
       q.account \in Account /\ q.fingerprint \in Devices /\ q.token = 0
  /\ q.step = "use" => q.code # 0
  /\ q.step \in {"use", "signIn"} /\ q.code # 0 =>
       /\ q.code \in 1..codeRows
       /\ q.account = code[q.code].user
       /\ q.step = "signIn" => code[q.code].used
  /\ q.step \in {"refresh", "found", "exchange"} =>
       /\ q.token \in 1..tokenRows
       /\ q.code = 0
       /\ q.fingerprint = token[q.token].fingerprint
  /\ q.step \in {"found", "exchange"} => q.account = token[q.token].account
  /\ q.step = "exchange" => token[q.token].status = "deleted"

RequestsAreWhole == \A w \in Requests : WholeRequest(request[w])

TypeInv ==
  /\ TypeOK
  /\ UsersAreWhole
  /\ CodesAreWhole
  /\ TokensAreWhole
  /\ RequestsAreWhole

LEMMA IdFacts ==
  ASSUME TypeOK
  PROVE  /\ userRows \in Nat /\ codeRows \in Nat /\ tokenRows \in Nat
         /\ 1..userRows \subseteq UserIds
         /\ 1..codeRows \subseteq CodeIds
         /\ 1..tokenRows \subseteq TokenIds
  BY SessionsAssumption DEF TypeOK, UserIds, CodeIds, TokenIds

LEMMA NoneIsNoId == None \notin UserIds /\ None \notin Account /\ 0 \notin TokenIds
  BY SessionsAssumption DEF UserIds, Account, TokenIds

LEMMA IdleWhole == WholeRequest(Idle)
  BY DEF WholeRequest, Idle, Request, Step

LEMMA TypeInit == Init => TypeInv
<1> SUFFICES ASSUME Init PROVE TypeInv
  OBVIOUS
<1>1. TypeOK
  BY SessionsAssumption
  DEF Init, TypeOK, UserTable, UserRow, NoUser, AuthCodeTable, AuthCodeRow, NoCode,
      RefreshTokenTable, RefreshTokenRow, NoToken, Request, Idle, Step
<1>2. UsersAreWhole /\ CodesAreWhole /\ TokensAreWhole
  BY DEF Init, UsersAreWhole, CodesAreWhole, TokensAreWhole, UserIds, CodeIds, TokenIds
<1>3. RequestsAreWhole
  BY IdleWhole DEF Init, RequestsAreWhole
<1> QED
  BY <1>1, <1>2, <1>3 DEF TypeInv

\* What a step leaves of the rows that are there.
Grows ==
  /\ userRows' \in Nat /\ userRows <= userRows'
  /\ codeRows' \in Nat /\ codeRows <= codeRows'
  /\ tokenRows' \in Nat /\ tokenRows <= tokenRows'
  /\ \A u \in 1..userRows : user'[u] = user[u]
  /\ \A c \in 1..codeRows : code'[c].user = code[c].user /\ (code[c].used => code'[c].used)
  /\ \A t \in 1..tokenRows :
       /\ token'[t].account = token[t].account
       /\ token'[t].fingerprint = token[t].fingerprint
       /\ token'[t].session = token[t].session
       /\ token'[t].parent = token[t].parent
       /\ token'[t].code = token[t].code
       /\ token[t].status = "deleted" => token'[t].status = "deleted"
       /\ token[t].status \in {"live", "deleted"} => token'[t].status \in {"live", "deleted"}

LEMMA WholeStays ==
  ASSUME TypeOK, Grows, NEW q, WholeRequest(q)
  PROVE  WholeRequest(q)'
<1>1. 1..userRows \subseteq 1..userRows' /\ 1..codeRows \subseteq 1..codeRows'
      /\ 1..tokenRows \subseteq 1..tokenRows'
  BY IdFacts DEF Grows
<1> QED
  BY <1>1 DEF WholeRequest, Grows

LEMMA RequestWhole ==
  ASSUME TypeInv, Grows, NEW w \in Requests, NEW q, request' = [request EXCEPT ![w] = q],
         WholeRequest(q)'
  PROVE  request' \in [Requests -> Request] /\ RequestsAreWhole'
<1>1. q \in Request
  BY DEF WholeRequest
<1>2. request \in [Requests -> Request]
  BY DEF TypeInv, TypeOK
<1>3. request' \in [Requests -> Request]
  BY <1>1, <1>2
<1>4. ASSUME NEW v \in Requests
      PROVE  WholeRequest(request[v])'
  <2>1. PICK r : r = request'[v]
    OBVIOUS
  <2>2. CASE v = w
    BY <1>2, <2>1, <2>2 DEF WholeRequest
  <2>3. CASE v # w
    <3>1. r = request[v]
      BY <1>2, <2>1, <2>3
    <3>2. WholeRequest(r)
      BY <3>1 DEF TypeInv, RequestsAreWhole
    <3>3. WholeRequest(r)'
      BY <3>2, WholeStays DEF TypeInv
    <3> QED
      BY <2>1, <3>3 DEF WholeRequest
  <2> QED
    BY <2>2, <2>3
<1> QED
  BY <1>3, <1>4 DEF RequestsAreWhole

-----------------------------------------------------------------------------
(* The type invariant, step by step.                                        *)

\* A step that writes no row.
LEMMA OnlyRequests ==
  ASSUME TypeInv, UNCHANGED tableVars, NEW w \in Requests, NEW q,
         request' = [request EXCEPT ![w] = q], WholeRequest(q),
         raced' \subseteq TokenIds, ended' \subseteq TokenIds,
         disturbances' \in 0..MaxDisturbances
  PROVE  Grows /\ TypeInv'
<1>1. Grows
  BY IdFacts DEF Grows, tableVars, TypeInv
<1>2. WholeRequest(q)'
  BY <1>1, WholeStays DEF TypeInv
<1>3. request' \in [Requests -> Request] /\ RequestsAreWhole'
  BY <1>1, <1>2, RequestWhole
<1>4. TypeOK'
  BY <1>3 DEF TypeInv, TypeOK, tableVars
<1>5. UsersAreWhole' /\ CodesAreWhole' /\ TokensAreWhole'
  BY DEF TypeInv, tableVars, UsersAreWhole, CodesAreWhole, TokensAreWhole, WholeToken
<1> QED
  BY <1>1, <1>3, <1>4, <1>5 DEF TypeInv

LEMMA TypeFindUser ==
  ASSUME TypeInv, NEW w \in Requests, NEW dto \in SendAuthCodeDto, FindUser(w, dto)
  PROVE  Grows /\ TypeInv'
<1> DEFINE send == [Idle EXCEPT !.step = "send", !.phone = dto.phone, !.provider = dto.provider]
<1>1. PICK q : /\ request' = [request EXCEPT ![w] = q]
               /\ \/ \E u \in UsersOf(dto.phone) : q = [send EXCEPT !.account = u]
                  \/ q = send
  BY DEF FindUser, Begin
<1>2. dto.phone \in Phones /\ dto.provider \in Providers
  BY DEF SendAuthCodeDto
<1>3. ASSUME NEW u \in UsersOf(dto.phone)
      PROVE  u \in UserIds /\ u \in 1..userRows
  BY <1>2, SessionsAssumption DEF UsersOf, TypeInv, UsersAreWhole, NoUser, UserIds, TypeOK
<1>4. WholeRequest(q)
  BY <1>1, <1>2, <1>3 DEF WholeRequest, Request, Step, Idle, Account
<1>5. UNCHANGED <<tableVars, raced, ended, disturbances>>
  BY DEF FindUser, historyVars
<1> QED
  BY <1>1, <1>4, <1>5, OnlyRequests DEF TypeInv, TypeOK

LEMMA TypeFindAuthCode ==
  ASSUME TypeInv, NEW w \in Requests, NEW dto \in VerifyAuthCodeDto, FindAuthCode(w, dto)
  PROVE  Grows /\ TypeInv'
<1>1. PICK u \in UserIds :
        /\ dto.code \in 1..codeRows /\ code[dto.code].user = u
        /\ request' = [request EXCEPT ![w] =
             [Idle EXCEPT !.step = "use", !.account = u,
                          !.fingerprint = dto.fingerprint, !.code = dto.code]]
  BY DEF FindAuthCode, Begin, UsersOf
<1>2. PICK q : q = [Idle EXCEPT !.step = "use", !.account = u,
                                !.fingerprint = dto.fingerprint, !.code = dto.code]
  OBVIOUS
<1>3. dto.fingerprint \in Devices /\ dto.code \in CodeIds /\ 0 \notin CodeIds
  BY DEF VerifyAuthCodeDto, CodeIds
<1>4. WholeRequest(q)
  BY <1>1, <1>2, <1>3 DEF WholeRequest, Request, Step, Idle, Account
<1>5. UNCHANGED <<tableVars, raced, ended, disturbances>>
  BY DEF FindAuthCode, historyVars
<1> QED
  BY <1>1, <1>2, <1>4, <1>5, OnlyRequests DEF TypeInv, TypeOK

LEMMA TypeLogin ==
  ASSUME TypeInv, NEW w \in Requests, NEW dto \in LoginDto, Login(w, dto)
  PROVE  Grows /\ TypeInv'
<1>1. PICK q : q = [Idle EXCEPT !.step = "signIn", !.account = dto.account,
                                !.fingerprint = dto.fingerprint]
  OBVIOUS
<1>2. WholeRequest(q)
  BY <1>1 DEF WholeRequest, Request, Step, Idle, Account, LoginDto
<1>3. request' = [request EXCEPT ![w] = q] /\ UNCHANGED <<tableVars, raced, ended, disturbances>>
  BY <1>1 DEF Login, Begin, historyVars
<1> QED
  BY <1>2, <1>3, OnlyRequests DEF TypeInv, TypeOK

LEMMA TypeAcceptRefresh ==
  ASSUME TypeInv, NEW w \in Requests, NEW dto \in RefreshTokensDto, AcceptRefresh(w, dto)
  PROVE  Grows /\ TypeInv'
<1>1. PICK q : q = [Idle EXCEPT !.step = "refresh", !.fingerprint = dto.fingerprint,
                                !.token = dto.token]
  OBVIOUS
<1>2. dto.token \in TokenIds /\ dto.fingerprint \in Devices
  BY DEF RefreshTokensDto
<1>3. token[dto.token].status = "live" /\ token[dto.token].fingerprint = dto.fingerprint
  BY DEF AcceptRefresh
<1>4. dto.token \in 1..tokenRows
  <2>1. dto.token <= tokenRows
    BY <1>2, <1>3 DEF TypeInv, TokensAreWhole, NoToken
  <2> QED
    BY <1>2, <2>1, IdFacts DEF TokenIds, TypeInv
<1>5. WholeRequest(q)
  BY <1>1, <1>2, <1>3, <1>4 DEF WholeRequest, Request, Step, Idle
<1>6. request' = [request EXCEPT ![w] = q] /\ UNCHANGED <<tableVars, raced, ended, disturbances>>
  BY <1>1 DEF AcceptRefresh, Begin, historyVars
<1> QED
  BY <1>5, <1>6, OnlyRequests DEF TypeInv, TypeOK

LEMMA TypeFindToken ==
  ASSUME TypeInv, NEW w \in Requests, FindToken(w)
  PROVE  Grows /\ TypeInv'
<1> DEFINE r == request[w]
<1>1. PICK q : q = [r EXCEPT !.step = "found", !.account = token[r.token].account]
  OBVIOUS
<1>2. r \in Request /\ WholeRequest(r) /\ r.step = "refresh"
  BY DEF TypeInv, TypeOK, RequestsAreWhole, FindToken
<1>3. r.token \in 1..tokenRows /\ r.token \in TokenIds
  BY <1>2, IdFacts DEF WholeRequest, TypeInv
<1>4. WholeToken(r.token)
  BY <1>3 DEF TypeInv, TokensAreWhole
<1>5. WholeRequest(q)
  BY <1>1, <1>2, <1>3, <1>4 DEF WholeRequest, WholeToken, Request, Step
<1>6. request' = [request EXCEPT ![w] = q]
  BY <1>1 DEF FindToken, TypeInv, TypeOK, Request
<1>7. raced' \subseteq TokenIds
  BY <1>4, IdFacts DEF FindToken, WholeToken, TypeInv, TypeOK
<1>8. UNCHANGED <<tableVars, ended, disturbances>>
  BY DEF FindToken
<1> QED
  BY <1>5, <1>6, <1>7, <1>8, OnlyRequests DEF TypeInv, TypeOK

LEMMA TypeRefuseRefresh ==
  ASSUME TypeInv, NEW w \in Requests, RefuseRefresh(w)
  PROVE  Grows /\ TypeInv'
<1>1. request' = [request EXCEPT ![w] = Idle] /\ UNCHANGED <<tableVars, raced, ended, disturbances>>
  BY DEF RefuseRefresh, End, historyVars
<1> QED
  BY <1>1, IdleWhole, OnlyRequests DEF TypeInv, TypeOK

LEMMA TypeFailRequest ==
  ASSUME TypeInv, NEW w \in Requests, FailRequest(w)
  PROVE  Grows /\ TypeInv'
<1>1. request' = [request EXCEPT ![w] = Idle] /\ UNCHANGED <<tableVars, raced>>
  BY DEF FailRequest, End
<1>2. disturbances' \in 0..MaxDisturbances
  BY SessionsAssumption DEF FailRequest, Disturbance, TypeInv, TypeOK
<1>3. ended' \subseteq TokenIds
  <2>1. CASE request[w].step = "exchange"
    <3>1. WholeRequest(request[w])
      BY DEF TypeInv, RequestsAreWhole
    <3>2. request[w].token \in 1..tokenRows /\ request[w].token \in TokenIds
      BY <2>1, <3>1, IdFacts DEF WholeRequest, TypeInv
    <3>3. token[request[w].token].session \in TokenIds
      BY <3>2, IdFacts DEF TypeInv, TokensAreWhole, WholeToken
    <3> QED
      BY <3>3 DEF FailRequest, TypeInv, TypeOK
  <2>2. CASE request[w].step # "exchange"
    BY <2>2 DEF FailRequest, TypeInv, TypeOK
  <2> QED
    BY <2>1, <2>2
<1> QED
  BY <1>1, <1>2, <1>3, IdleWhole, OnlyRequests DEF TypeInv, TypeOK

\* A step that writes rows of users and codes, or of tokens; the rest is named.
LEMMA RowsStay ==
  ASSUME TypeInv, UNCHANGED <<userRows, user, codeRows>>,
         \A c \in CodeIds : /\ code'[c].user = code[c].user
                            /\ code[c].used => code'[c].used
                            /\ c > codeRows => code'[c] = code[c]
  PROVE  UsersAreWhole' /\ CodesAreWhole'
<1>1. UsersAreWhole'
  BY DEF TypeInv, UsersAreWhole
<1>2. codeRows \in Nat /\ CodesAreWhole
  BY IdFacts DEF TypeInv
<1>3. ASSUME NEW c \in CodeIds
      PROVE  IF c <= codeRows' THEN code'[c].user \in 1..userRows' ELSE code'[c] = NoCode
  <2>1. c <= codeRows \/ c > codeRows
    BY <1>2 DEF CodeIds
  <2>2. CASE c <= codeRows
    BY <2>2, <1>2, <1>3 DEF CodesAreWhole
  <2>3. CASE c > codeRows
    <3>1. ~(c <= codeRows)
      BY <2>3, <1>2 DEF CodeIds
    <3> QED
      BY <3>1, <2>3, <1>2, <1>3 DEF CodesAreWhole
  <2> QED
    BY <2>1, <2>2, <2>3
<1> QED
  BY <1>1, <1>3 DEF CodesAreWhole

LEMMA TypeUseAuthCode ==
  ASSUME TypeInv, NEW w \in Requests, UseAuthCode(w)
  PROVE  Grows /\ TypeInv'
<1> DEFINE r == request[w]
<1>1. r \in Request /\ WholeRequest(r) /\ r.step = "use"
  BY DEF TypeInv, TypeOK, RequestsAreWhole, UseAuthCode
<1>2. r.code \in 1..codeRows /\ r.code \in CodeIds
  BY <1>1, IdFacts DEF WholeRequest, TypeInv
<1>3. code \in AuthCodeTable /\ code' = [code EXCEPT ![r.code].used = TRUE]
  BY DEF UseAuthCode, TypeInv, TypeOK
<1>4. code' \in AuthCodeTable
  BY <1>2, <1>3 DEF AuthCodeTable, AuthCodeRow
<1>5. \A c \in CodeIds : /\ code'[c].user = code[c].user
                         /\ code[c].used => code'[c].used
                         /\ c > codeRows => code'[c] = code[c]
  <2>1. \A c \in CodeIds : c > codeRows => c # r.code
    BY <1>2, IdFacts DEF CodeIds, TypeInv
  <2> QED
    BY <1>2, <1>3, <2>1 DEF AuthCodeTable, AuthCodeRow
<1>6. UNCHANGED <<userRows, user, codeRows, tokenRows, token, raced, ended, disturbances>>
  BY DEF UseAuthCode, historyVars
<1>7. Grows
  BY <1>5, <1>6, IdFacts DEF Grows, TypeInv
<1>8. PICK q : q = [r EXCEPT !.step = "signIn"]
  OBVIOUS
<1>9. code'[r.code].used
  BY <1>2, <1>3 DEF AuthCodeTable, AuthCodeRow
<1>10. q \in Request
  BY <1>1, <1>8 DEF Request, Step
<1>11. WholeRequest(q)'
  BY <1>1, <1>2, <1>5, <1>6, <1>8, <1>9, <1>10 DEF WholeRequest, Request
<1>12. request' = [request EXCEPT ![w] = q]
  BY <1>8 DEF UseAuthCode, Continue
<1>13. request' \in [Requests -> Request] /\ RequestsAreWhole'
  BY <1>7, <1>11, <1>12, RequestWhole
<1>14. TypeOK'
  BY <1>4, <1>6, <1>13 DEF TypeInv, TypeOK
<1>15. UsersAreWhole' /\ CodesAreWhole'
  BY <1>5, <1>6, RowsStay
<1>16. TokensAreWhole'
  <2>1. ASSUME NEW t \in TokenIds, t <= tokenRows
        PROVE  WholeToken(t)'
    <3>1. WholeToken(t)
      BY <2>1 DEF TypeInv, TokensAreWhole
    <3>2. token[t].code # 0 => token[t].code \in CodeIds
      BY <3>1, IdFacts DEF WholeToken, TypeInv
    <3> QED
      BY <3>1, <3>2, <1>5, <1>6 DEF WholeToken
  <2> QED
    BY <2>1, <1>6 DEF TypeInv, TokensAreWhole
<1> QED
  BY <1>7, <1>13, <1>14, <1>15, <1>16 DEF TypeInv

LEMMA TypeCreateAuthCode ==
  ASSUME TypeInv, NEW w \in Requests, CreateAuthCode(w)
  PROVE  Grows /\ TypeInv'
<1> DEFINE r == request[w]
           u == IF r.account = None THEN userRows + 1 ELSE r.account
           row == [user |-> u, used |-> FALSE, expired |-> FALSE]
           new == [phone |-> r.phone, provider |-> r.provider]
<1>1. r \in Request /\ WholeRequest(r) /\ r.step = "send"
  BY DEF TypeInv, TypeOK, RequestsAreWhole, CreateAuthCode
<1>2. r.phone \in Phones /\ r.provider \in Providers
  BY <1>1 DEF WholeRequest
<1>3. /\ codeRows < MaxCodes
      /\ codeRows' = codeRows + 1
      /\ code' = [code EXCEPT ![codeRows + 1] = row]
      /\ request' = [request EXCEPT ![w] = Idle]
      /\ UNCHANGED <<tokenRows, token, raced, ended, disturbances>>
  BY DEF CreateAuthCode, End, historyVars
<1>4. codeRows + 1 \in CodeIds /\ codeRows \in Nat /\ codeRows' \in 0..MaxCodes
  BY <1>3, SessionsAssumption, IdFacts DEF TypeInv, CodeIds
<1>5. /\ userRows' \in 0..MaxUsers /\ userRows <= userRows'
      /\ user' \in UserTable
      /\ u \in 1..userRows'
      /\ \A i \in 1..userRows : user'[i] = user[i]
      /\ UsersAreWhole'
  <2>1. userRows \in Nat /\ user \in UserTable /\ UsersAreWhole
    BY IdFacts DEF TypeInv, TypeOK
  <2>2. CASE r.account = None
    <3>1. /\ userRows < MaxUsers /\ userRows' = userRows + 1
          /\ user' = [user EXCEPT ![userRows + 1] = new]
      BY <2>2 DEF CreateAuthCode, NewUser
    <3>2. userRows + 1 \in UserIds /\ userRows' \in 0..MaxUsers
      BY <2>1, <3>1, SessionsAssumption DEF UserIds
    <3>3. new \in UserRow /\ new.phone \in Phones /\ new.provider \in Providers
      BY <1>2 DEF UserRow
    <3>4. user' \in UserTable
      BY <2>1, <3>1, <3>2, <3>3 DEF UserTable
    <3>5. \A i \in UserIds : user'[i] = IF i = userRows + 1 THEN new ELSE user[i]
      BY <2>1, <3>1, <3>2 DEF UserTable
    <3>6. UsersAreWhole'
      BY <2>1, <3>1, <3>3, <3>5 DEF UsersAreWhole, UserIds
    <3>7. \A i \in 1..userRows : i \in UserIds /\ i # userRows + 1
      BY <2>1, IdFacts DEF TypeInv
    <3> QED
      BY <2>1, <2>2, <3>1, <3>2, <3>4, <3>5, <3>6, <3>7
  <2>3. CASE r.account # None
    <3>1. UNCHANGED <<userRows, user>>
      BY <2>3 DEF CreateAuthCode
    <3>2. u \in 1..userRows
      BY <1>1, <2>3 DEF WholeRequest
    <3>3. UsersAreWhole'
      BY <2>1, <3>1 DEF UsersAreWhole
    <3>4. userRows \in 0..MaxUsers
      BY DEF TypeInv, TypeOK
    <3> QED
      BY <2>1, <3>1, <3>2, <3>3, <3>4
  <2> QED
    BY <2>2, <2>3
<1>6. u \in UserIds
  BY <1>5, SessionsAssumption DEF UserIds
<1>7. code \in AuthCodeTable
  BY DEF TypeInv, TypeOK
<1>8. row \in AuthCodeRow
  BY <1>6 DEF AuthCodeRow
<1> HIDE DEF u
<1>9. code' \in AuthCodeTable
  BY <1>3, <1>4, <1>7, <1>8 DEF AuthCodeTable
<1>10. \A c \in CodeIds : code'[c] = IF c = codeRows + 1 THEN row ELSE code[c]
  BY <1>3, <1>4, <1>7 DEF AuthCodeTable
<1>11. \A c \in 1..codeRows : c \in CodeIds /\ code'[c] = code[c]
  BY <1>4, <1>10, IdFacts DEF TypeInv
<1>12. Grows
  BY <1>3, <1>4, <1>5, <1>11, IdFacts DEF Grows, TypeInv
<1>13. CodesAreWhole'
  <2>1. ASSUME NEW c \in CodeIds
        PROVE  IF c <= codeRows' THEN code'[c].user \in 1..userRows' ELSE code'[c] = NoCode
    <3>1. CASE c = codeRows + 1
      BY <3>1, <1>3, <1>4, <1>5, <1>10
    <3>2. CASE c <= codeRows
      <4>1. code[c].user \in 1..userRows
        BY <3>2 DEF TypeInv, CodesAreWhole
      <4>2. code[c].user \in 1..userRows'
        BY <4>1, <1>12, IdFacts DEF Grows, TypeInv
      <4>3. c <= codeRows' /\ c # codeRows + 1
        BY <3>2, <1>3, <1>4 DEF CodeIds
      <4> QED
        BY <4>2, <4>3, <1>10
    <3>3. CASE c > codeRows + 1
      <4>1. ~(c <= codeRows) /\ ~(c <= codeRows') /\ c # codeRows + 1
        BY <3>3, <1>3, <1>4 DEF CodeIds
      <4> QED
        BY <4>1, <1>10 DEF TypeInv, CodesAreWhole
    <3> QED
      BY <3>1, <3>2, <3>3, <1>4 DEF CodeIds
  <2> QED
    BY <2>1 DEF CodesAreWhole
<1>14. TokensAreWhole'
  <2>1. ASSUME NEW t \in TokenIds, t <= tokenRows
        PROVE  WholeToken(t)'
    <3>1. WholeToken(t)
      BY <2>1 DEF TypeInv, TokensAreWhole
    <3>2. token[t].code # 0 =>
            token[t].code \in 1..codeRows' /\ code'[token[t].code] = code[token[t].code]
      BY <3>1, <1>3, <1>4, <1>11 DEF WholeToken
    <3> QED
      BY <3>1, <3>2, <1>3 DEF WholeToken
  <2> QED
    BY <2>1, <1>3 DEF TypeInv, TokensAreWhole
<1>15. WholeRequest(Idle)'
  BY DEF WholeRequest, Idle, Request, Step
<1>16. request' \in [Requests -> Request] /\ RequestsAreWhole'
  BY <1>3, <1>12, <1>15, RequestWhole
<1>17. TypeOK'
  BY <1>3, <1>4, <1>5, <1>9, <1>16 DEF TypeInv, TypeOK
<1> QED
  BY <1>5, <1>12, <1>13, <1>14, <1>16, <1>17 DEF TypeInv

\* A step that changes tokens only.
LEMMA OnlyTokens ==
  ASSUME TypeInv, UNCHANGED <<userRows, user, codeRows, code>>, Grows,
         request' \in [Requests -> Request], RequestsAreWhole',
         tokenRows' \in 0..MaxTokens, token' \in RefreshTokenTable, TokensAreWhole',
         raced' \subseteq TokenIds, ended' \subseteq TokenIds,
         disturbances' \in 0..MaxDisturbances
  PROVE  TypeInv'
<1>1. TypeOK'
  BY DEF TypeInv, TypeOK
<1>2. UsersAreWhole' /\ CodesAreWhole'
  BY DEF TypeInv, UsersAreWhole, CodesAreWhole
<1> QED
  BY <1>1, <1>2 DEF TypeInv

\* A token is deleted, or expires.
LEMMA OneToken ==
  ASSUME TypeInv, UNCHANGED <<userRows, user, codeRows, code, tokenRows>>,
         NEW t \in 1..tokenRows, NEW row \in RefreshTokenRow,
         token' = [token EXCEPT ![t] = row],
         row.status = "deleted" \/ row.status = token[t].status,
         row.account = token[t].account, row.fingerprint = token[t].fingerprint,
         row.parent = token[t].parent, row.session = token[t].session,
         row.code = token[t].code
  PROVE  /\ Grows
         /\ token' \in RefreshTokenTable
         /\ TokensAreWhole'
<1>1. t \in TokenIds /\ token \in RefreshTokenTable /\ 1..tokenRows \subseteq TokenIds
  BY IdFacts DEF TypeInv, TypeOK
<1>2. \A i \in TokenIds : token'[i] = IF i = t THEN row ELSE token[i]
  BY <1>1 DEF RefreshTokenTable
<1>3. token' \in RefreshTokenTable
  BY <1>1 DEF RefreshTokenTable
<1>4. \A i \in TokenIds :
        /\ token'[i].account = token[i].account
        /\ token'[i].fingerprint = token[i].fingerprint
        /\ token'[i].session = token[i].session
        /\ token'[i].parent = token[i].parent
        /\ token'[i].code = token[i].code
        /\ token[i].status = "deleted" => token'[i].status = "deleted"
        /\ token[i].status \in {"live", "deleted"} => token'[i].status \in {"live", "deleted"}
  BY <1>2
<1>5. Grows
  BY <1>1, <1>4, IdFacts DEF Grows, TypeInv
<1>6. ASSUME NEW i \in TokenIds, i <= tokenRows
      PROVE  WholeToken(i)'
  <2>1. WholeToken(i)
    BY <1>6 DEF TypeInv, TokensAreWhole
  <2>2. token[i].session \in TokenIds /\ (token[i].parent # 0 => token[i].parent \in TokenIds)
    BY <1>1, <2>1 DEF WholeToken
  <2> QED
    BY <1>4, <2>1, <2>2 DEF WholeToken
<1>7. ASSUME NEW i \in TokenIds, ~(i <= tokenRows)
      PROVE  token'[i] = NoToken
  <2>1. i # t
    BY <1>7, IdFacts DEF TypeInv
  <2> QED
    BY <1>2, <1>7, <2>1 DEF TypeInv, TokensAreWhole
<1> QED
  BY <1>3, <1>5, <1>6, <1>7 DEF TokensAreWhole

LEMMA TypeDeleteToken ==
  ASSUME TypeInv, NEW w \in Requests, DeleteToken(w)
  PROVE  Grows /\ TypeInv'
<1> DEFINE r == request[w]
<1>1. r \in Request /\ WholeRequest(r) /\ r.step = "found"
  BY DEF TypeInv, TypeOK, RequestsAreWhole, DeleteToken
<1>2. r.token \in 1..tokenRows /\ r.token \in TokenIds
  BY <1>1, IdFacts DEF WholeRequest, TypeInv
<1>3. PICK row : row = [token[r.token] EXCEPT !.status = "deleted"]
  OBVIOUS
<1>4. token[r.token] \in RefreshTokenRow
  BY <1>2 DEF TypeInv, TypeOK, RefreshTokenTable
<1>5. row \in RefreshTokenRow
  BY <1>3, <1>4 DEF RefreshTokenRow
<1>6. /\ token' = [token EXCEPT ![r.token] = row]
      /\ UNCHANGED <<userRows, user, codeRows, code, tokenRows, raced, ended, disturbances>>
  BY <1>3 DEF DeleteToken, historyVars
<1>7. /\ row.status = "deleted" /\ row.account = token[r.token].account
      /\ row.fingerprint = token[r.token].fingerprint /\ row.parent = token[r.token].parent
      /\ row.session = token[r.token].session /\ row.code = token[r.token].code
  BY <1>3, <1>4 DEF RefreshTokenRow
<1>8. Grows /\ token' \in RefreshTokenTable /\ TokensAreWhole'
  BY <1>2, <1>5, <1>6, <1>7, OneToken
<1>9. PICK q : q = [r EXCEPT !.step = "exchange"]
  OBVIOUS
<1>10. q \in Request
  BY <1>1, <1>9 DEF Request, Step
<1>11. token'[r.token].status = "deleted"
  BY <1>2, <1>6, <1>7 DEF TypeInv, TypeOK, RefreshTokenTable
<1>12. WholeRequest(q)'
  <2>1. /\ q.step = "exchange" /\ q.token = r.token /\ q.code = r.code
        /\ q.account = r.account /\ q.fingerprint = r.fingerprint
    BY <1>1, <1>9 DEF Request
  <2>2. r.code = 0 /\ r.account = token[r.token].account
        /\ r.fingerprint = token[r.token].fingerprint
    BY <1>1 DEF WholeRequest
  <2>3. /\ token'[r.token].account = token[r.token].account
        /\ token'[r.token].fingerprint = token[r.token].fingerprint
    BY <1>2, <1>8 DEF Grows
  <2>4. r.token \in 1..tokenRows'
    BY <1>2, <1>6
  <2> HIDE DEF r
  <2> QED
    BY <1>10, <1>11, <2>1, <2>2, <2>3, <2>4 DEF WholeRequest
<1>13. request' = [request EXCEPT ![w] = q]
  BY <1>9 DEF DeleteToken, Continue
<1>14. request' \in [Requests -> Request] /\ RequestsAreWhole'
  BY <1>8, <1>12, <1>13, RequestWhole
<1>15. tokenRows' \in 0..MaxTokens /\ raced' \subseteq TokenIds /\ ended' \subseteq TokenIds
       /\ disturbances' \in 0..MaxDisturbances
  BY <1>6 DEF TypeInv, TypeOK
<1> QED
  BY <1>6, <1>8, <1>14, <1>15, OnlyTokens

LEMMA TypeLogout ==
  ASSUME TypeInv, NEW w \in Requests, NEW t \in TokenIds, Logout(w, t)
  PROVE  Grows /\ TypeInv'
<1>1. t \in 1..tokenRows
  <2>1. t <= tokenRows
    BY DEF TypeInv, TokensAreWhole, NoToken, Logout
  <2> QED
    BY <2>1, IdFacts DEF TokenIds, TypeInv
<1>2. WholeToken(t)
  BY <1>1, IdFacts DEF TypeInv, TokensAreWhole
<1>3. PICK row : row = [token[t] EXCEPT !.status = "deleted"]
  OBVIOUS
<1>4. token[t] \in RefreshTokenRow
  BY DEF TypeInv, TypeOK, RefreshTokenTable
<1>5. row \in RefreshTokenRow
  BY <1>3, <1>4 DEF RefreshTokenRow
<1>6. /\ token' = [token EXCEPT ![t] = row]
      /\ UNCHANGED <<userRows, user, codeRows, code, tokenRows, request, disturbances>>
  BY <1>3 DEF Logout
<1>7. /\ row.status = "deleted" /\ row.account = token[t].account
      /\ row.fingerprint = token[t].fingerprint /\ row.parent = token[t].parent
      /\ row.session = token[t].session /\ row.code = token[t].code
  BY <1>3, <1>4 DEF RefreshTokenRow
<1>8. Grows /\ token' \in RefreshTokenTable /\ TokensAreWhole'
  BY <1>1, <1>5, <1>6, <1>7, OneToken
<1>9. WholeRequest(request[w])
  BY DEF TypeInv, RequestsAreWhole
<1>10. PICK q : q = request[w]
  OBVIOUS
<1>11. WholeRequest(q)'
  BY <1>8, <1>9, <1>10, WholeStays DEF TypeInv
<1>12. request' = [request EXCEPT ![w] = q]
  BY <1>6, <1>10 DEF TypeInv, TypeOK
<1>13. request' \in [Requests -> Request] /\ RequestsAreWhole'
  BY <1>8, <1>11, <1>12, RequestWhole
<1>14. token[t].session \in TokenIds
  BY <1>2, IdFacts DEF WholeToken, TypeInv
<1>15. tokenRows' \in 0..MaxTokens /\ raced' \subseteq TokenIds /\ ended' \subseteq TokenIds
       /\ disturbances' \in 0..MaxDisturbances
  BY <1>6, <1>14 DEF TypeInv, TypeOK, Logout
<1> QED
  BY <1>6, <1>8, <1>13, <1>15, OnlyTokens

LEMMA TypeCreateRefreshToken ==
  ASSUME TypeInv, NEW w \in Requests, CreateRefreshToken(w)
  PROVE  Grows /\ TypeInv'
<1>0. PICK new : new = tokenRows + 1
  OBVIOUS
<1>1. PICK r : r = request[w]
  OBVIOUS
<1>2. r \in Request /\ WholeRequest(r) /\ r.step \in {"signIn", "exchange"}
  BY <1>1 DEF TypeInv, TypeOK, RequestsAreWhole, CreateRefreshToken
<1>3. PICK row : row = [status |-> "live", account |-> r.account,
                        fingerprint |-> r.fingerprint, expired |-> FALSE, parent |-> r.token,
                        session |-> IF r.token = 0 THEN new ELSE token[r.token].session,
                        code |-> r.code]
  OBVIOUS
<1>4. /\ tokenRows < MaxTokens /\ tokenRows' = new
      /\ token' = [token EXCEPT ![new] = row]
      /\ request' = [request EXCEPT ![w] = Idle]
      /\ UNCHANGED <<userRows, user, codeRows, code, raced, ended, disturbances>>
  BY <1>0, <1>1, <1>3 DEF CreateRefreshToken, End, historyVars
<1>5. /\ tokenRows \in Nat /\ new \in TokenIds /\ tokenRows' \in 0..MaxTokens
      /\ new \in 1..tokenRows' /\ new \notin 1..tokenRows
      /\ 1..tokenRows \subseteq TokenIds /\ 1..tokenRows \subseteq 1..tokenRows'
  BY <1>0, <1>4, SessionsAssumption, IdFacts DEF TypeInv, TokenIds
<1>6. token \in RefreshTokenTable
  BY DEF TypeInv, TypeOK
<1>7. \A i \in TokenIds : token'[i] = IF i = new THEN row ELSE token[i]
  BY <1>4, <1>5, <1>6 DEF RefreshTokenTable
<1>8. \A i \in 1..tokenRows : i \in TokenIds /\ i # new /\ token'[i] = token[i]
  BY <1>5, <1>7
<1>9. Grows
  BY <1>4, <1>5, <1>8, IdFacts DEF Grows, TypeInv
<1>10. /\ row.status = "live" /\ row.account = r.account /\ row.fingerprint = r.fingerprint
       /\ row.expired = FALSE /\ row.parent = r.token /\ row.code = r.code
       /\ row.session = IF r.token = 0 THEN new ELSE token[r.token].session
  BY <1>3
<1>11. ASSUME r.step = "signIn"
       PROVE  row \in RefreshTokenRow /\ WholeToken(new)'
  <2>1. /\ r.account \in Account /\ r.fingerprint \in Devices /\ r.token = 0
        /\ r.code # 0 => /\ r.code \in 1..codeRows
                         /\ r.account = code[r.code].user /\ code[r.code].used
    BY <1>2, <1>11 DEF WholeRequest
  <2>2. row \in RefreshTokenRow
    BY <1>2, <1>3, <1>5, <2>1 DEF RefreshTokenRow, Request
  <2>3. WholeToken(new)'
    <3>1. token'[new] = row /\ row.session = new
      BY <1>5, <1>7, <1>10, <2>1
    <3> QED
      BY <1>4, <1>5, <1>10, <2>1, <3>1 DEF WholeToken
  <2> QED
    BY <2>2, <2>3
<1>12. ASSUME r.step = "exchange"
       PROVE  row \in RefreshTokenRow /\ WholeToken(new)'
  <2>1. /\ r.token \in 1..tokenRows /\ r.code = 0
        /\ r.fingerprint = token[r.token].fingerprint
        /\ r.account = token[r.token].account
        /\ token[r.token].status = "deleted"
    BY <1>2, <1>12 DEF WholeRequest
  <2>2. WholeToken(r.token) /\ r.token # 0
    BY <2>1, <1>5 DEF TypeInv, TokensAreWhole
  <2>3. token[r.token].session \in 1..tokenRows
    BY <2>2 DEF WholeToken
  <2>4. row \in RefreshTokenRow
    BY <1>2, <1>3, <1>5, <2>1, <2>2, <2>3 DEF RefreshTokenRow, Request, WholeToken
  <2>5. WholeToken(new)'
    <3>1. token'[new] = row /\ row.session = token[r.token].session
      BY <1>5, <1>7, <1>10, <2>2
    <3>2. token'[r.token] = token[r.token]
          /\ token'[row.session] = token[token[r.token].session]
      BY <1>8, <2>1, <2>3, <3>1
    <3>3. r.token \in 1..tokenRows' /\ row.session \in 1..tokenRows'
      BY <1>5, <2>1, <2>3, <3>1
    <3> QED
      BY <1>10, <2>1, <2>2, <3>1, <3>2, <3>3 DEF WholeToken
  <2> QED
    BY <2>4, <2>5
<1>13. row \in RefreshTokenRow /\ WholeToken(new)'
  BY <1>2, <1>11, <1>12
<1>14. token' \in RefreshTokenTable
  BY <1>4, <1>5, <1>6, <1>13 DEF RefreshTokenTable
<1>15. TokensAreWhole'
  <2>1. ASSUME NEW i \in TokenIds, i <= tokenRows
        PROVE  WholeToken(i)'
    <3>1. WholeToken(i) /\ i \in 1..tokenRows
      BY <2>1, <1>5 DEF TypeInv, TokensAreWhole, TokenIds
    <3>2. token[i].session \in 1..tokenRows
          /\ (token[i].parent # 0 => token[i].parent \in 1..tokenRows)
      BY <3>1 DEF WholeToken
    <3>3. token'[i] = token[i] /\ token'[token[i].session] = token[token[i].session]
          /\ (token[i].parent # 0 => token'[token[i].parent] = token[token[i].parent])
      BY <1>8, <3>1, <3>2
    <3> QED
      BY <1>4, <1>5, <3>1, <3>2, <3>3 DEF WholeToken
  <2>2. ASSUME NEW i \in TokenIds, ~(i <= tokenRows')
        PROVE  token'[i] = NoToken
    <3>1. ~(i <= tokenRows) /\ i # new
      BY <2>2, <1>0, <1>4, <1>5 DEF TokenIds
    <3> QED
      BY <3>1, <1>7, <2>2 DEF TypeInv, TokensAreWhole
  <2>3. \A i \in TokenIds : i <= tokenRows' => i <= tokenRows \/ i = new
    BY <1>0, <1>4, <1>5 DEF TokenIds
  <2> QED
    BY <1>13, <2>1, <2>2, <2>3 DEF TokensAreWhole
<1>16. WholeRequest(Idle)'
  BY DEF WholeRequest, Idle, Request, Step
<1>17. request' \in [Requests -> Request] /\ RequestsAreWhole'
  BY <1>4, <1>9, <1>16, RequestWhole
<1>18. raced' \subseteq TokenIds /\ ended' \subseteq TokenIds
       /\ disturbances' \in 0..MaxDisturbances
  BY <1>4 DEF TypeInv, TypeOK
<1> QED
  BY <1>4, <1>5, <1>9, <1>14, <1>15, <1>17, <1>18, OnlyTokens

LEMMA TypeTokenExpires ==
  ASSUME TypeInv, NEW t \in TokenIds, TokenExpires(t)
  PROVE  Grows /\ TypeInv'
<1>1. t \in 1..tokenRows
  <2>1. t <= tokenRows
    BY DEF TypeInv, TokensAreWhole, NoToken, TokenExpires
  <2> QED
    BY <2>1, IdFacts DEF TokenIds, TypeInv
<1>2. PICK row : row = [token[t] EXCEPT !.expired = TRUE]
  OBVIOUS
<1>3. token[t] \in RefreshTokenRow
  BY DEF TypeInv, TypeOK, RefreshTokenTable
<1>4. row \in RefreshTokenRow
  BY <1>2, <1>3 DEF RefreshTokenRow
<1>5. /\ token' = [token EXCEPT ![t] = row]
      /\ UNCHANGED <<userRows, user, codeRows, code, tokenRows, request, raced, ended>>
  BY <1>2 DEF TokenExpires, historyVars
<1>6. /\ row.status = token[t].status /\ row.account = token[t].account
      /\ row.fingerprint = token[t].fingerprint /\ row.parent = token[t].parent
      /\ row.session = token[t].session /\ row.code = token[t].code
  BY <1>2, <1>3 DEF RefreshTokenRow
<1>7. Grows /\ token' \in RefreshTokenTable /\ TokensAreWhole'
  BY <1>1, <1>4, <1>5, <1>6, OneToken
<1>8. request' \in [Requests -> Request] /\ RequestsAreWhole'
  <2>1. ASSUME NEW v \in Requests
        PROVE  WholeRequest(request[v])'
    <3>1. PICK q : q = request[v]
      OBVIOUS
    <3>2. WholeRequest(q)'
      BY <1>7, <3>1, WholeStays DEF TypeInv, RequestsAreWhole
    <3> QED
      BY <1>5, <3>1, <3>2 DEF WholeRequest
  <2> QED
    BY <1>5, <2>1 DEF TypeInv, TypeOK, RequestsAreWhole
<1>9. /\ tokenRows' \in 0..MaxTokens /\ raced' \subseteq TokenIds /\ ended' \subseteq TokenIds
      /\ disturbances' \in 0..MaxDisturbances
  BY <1>5, SessionsAssumption DEF TypeInv, TypeOK, TokenExpires, Disturbance
<1> QED
  BY <1>5, <1>7, <1>8, <1>9, OnlyTokens

LEMMA TypeCodeExpires ==
  ASSUME TypeInv, NEW c \in CodeIds, CodeExpires(c)
  PROVE  Grows /\ TypeInv'
<1>1. /\ code' = [code EXCEPT ![c].expired = TRUE] /\ c \in 1..codeRows
      /\ UNCHANGED <<userRows, user, codeRows, tokenRows, token, request, raced, ended>>
  BY DEF CodeExpires, historyVars
<1>2. code \in AuthCodeTable
  BY DEF TypeInv, TypeOK
<1>3. code' \in AuthCodeTable
  BY <1>1, <1>2 DEF AuthCodeTable, AuthCodeRow
<1>4. \A i \in CodeIds : /\ code'[i].user = code[i].user
                         /\ code'[i].used = code[i].used
                         /\ i > codeRows => code'[i] = code[i]
  <2>1. \A i \in CodeIds : i > codeRows => i # c
    BY <1>1, IdFacts DEF CodeIds, TypeInv
  <2> QED
    BY <1>1, <1>2, <2>1 DEF AuthCodeTable, AuthCodeRow
<1>5. Grows
  BY <1>1, <1>4, IdFacts DEF Grows, TypeInv
<1>6. UsersAreWhole' /\ CodesAreWhole'
  BY <1>1, <1>4, RowsStay
<1>7. TokensAreWhole'
  <2>1. ASSUME NEW t \in TokenIds, t <= tokenRows
        PROVE  WholeToken(t)'
    <3>1. WholeToken(t)
      BY <2>1 DEF TypeInv, TokensAreWhole
    <3>2. token[t].code # 0 => token[t].code \in CodeIds
      BY <3>1, IdFacts DEF WholeToken, TypeInv
    <3> QED
      BY <3>1, <3>2, <1>1, <1>4 DEF WholeToken
  <2> QED
    BY <2>1, <1>1 DEF TypeInv, TokensAreWhole
<1>8. RequestsAreWhole'
  <2>1. ASSUME NEW v \in Requests
        PROVE  WholeRequest(request[v])'
    <3>1. PICK q : q = request[v]
      OBVIOUS
    <3>2. WholeRequest(q)'
      BY <1>5, <3>1, WholeStays DEF TypeInv, RequestsAreWhole
    <3> QED
      BY <1>1, <3>1, <3>2 DEF WholeRequest
  <2> QED
    BY <2>1 DEF RequestsAreWhole
<1>9. disturbances' \in 0..MaxDisturbances
  BY SessionsAssumption DEF TypeInv, TypeOK, CodeExpires, Disturbance
<1>10. TypeOK'
  BY <1>1, <1>3, <1>9 DEF TypeInv, TypeOK
<1> QED
  BY <1>5, <1>6, <1>7, <1>8, <1>10 DEF TypeInv

LEMMA TypeRequestStep ==
  ASSUME TypeInv, NEW w \in Requests, RequestStep(w)
  PROVE  Grows /\ TypeInv'
BY TypeFindUser, TypeCreateAuthCode, TypeFindAuthCode, TypeUseAuthCode, TypeLogin,
   TypeAcceptRefresh, TypeFindToken, TypeRefuseRefresh, TypeDeleteToken,
   TypeCreateRefreshToken, TypeLogout, TypeFailRequest DEF RequestStep

LEMMA TypeStuttering ==
  ASSUME TypeInv, UNCHANGED vars
  PROVE  TypeInv'
BY DEF TypeInv, vars, tableVars, historyVars, TypeOK, UsersAreWhole, CodesAreWhole,
       TokensAreWhole, WholeToken, RequestsAreWhole, WholeRequest

LEMMA TypeNext ==
  ASSUME TypeInv, [Next]_vars
  PROVE  TypeInv'
<1>1. ASSUME NEW w \in Requests, RequestStep(w)
      PROVE  TypeInv'
  BY <1>1, TypeRequestStep
<1>2. CASE Expiry
  BY <1>2, TypeTokenExpires, TypeCodeExpires DEF Expiry
<1> QED
  BY <1>1, <1>2, TypeStuttering, NextSteps

\* Every value of the type invariant, for every value of the constants: rows
\* and requests are whole (sign-in, refresh and logout of the three applications).
THEOREM TypeCorrect == Spec => []TypeOK
<1>1. Init => TypeInv
  BY TypeInit
<1>2. TypeInv /\ [Next]_vars => TypeInv'
  BY TypeNext
<1>3. TypeInv => TypeOK
  BY DEF TypeInv
<1> QED
  BY <1>1, <1>2, <1>3, PTL DEF Spec

LEMMA OwnerKept ==
  ASSUME TypeInv
  PROVE  SessionKeepsItsOwner
<1> SUFFICES ASSUME NEW t \in Tokens
             PROVE  /\ token[t].account = token[token[t].session].account
                    /\ token[t].fingerprint = token[token[t].session].fingerprint
                    /\ token[t].code # 0 => token[t].account = code[token[t].code].user
  BY DEF SessionKeepsItsOwner
<1>1. t \in TokenIds /\ t <= tokenRows
  BY IdFacts DEF Tokens, TypeInv
<1>2. WholeToken(t)
  BY <1>1 DEF TypeInv, TokensAreWhole
<1> QED
  BY <1>2 DEF WholeToken

\* A session stays with the account and the device that signed in (createRefreshToken
\* copies them from the token that was found), and a code signs in who it was sent to.
THEOREM OwnerOfSession == Spec => []SessionKeepsItsOwner
<1>1. Init => TypeInv
  BY TypeInit
<1>2. TypeInv /\ [Next]_vars => TypeInv'
  BY TypeNext
<1>3. TypeInv => SessionKeepsItsOwner
  BY OwnerKept
<1> QED
  BY <1>1, <1>2, <1>3, PTL DEF Spec

-----------------------------------------------------------------------------
(* What requests at work can add.                                           *)

Uses(q, c) == q.step \in {"use", "signIn"} /\ q.code = c
Holds(q, t) == q.step \in {"found", "exchange"} /\ q.token = t
Creates(q, phone) == q.step = "send" /\ q.phone = phone /\ q.account = None

\* What a request is about to add, it has been about to add before, unless
\* nothing of the kind was there when it looked.
Effect(w, q) ==
  /\ request' = [request EXCEPT ![w] = q]
  /\ \A c \in CodeIds : Uses(q, c) => Uses(request[w], c) \/ ~code[c].used
  /\ \A t \in TokenIds : Holds(q, t) => Holds(request[w], t) \/ token[t].status = "live"
  /\ \A p \in Phones : Creates(q, p) => Creates(request[w], p) \/ UsersOf(p) = {}
  /\ CreateRefreshToken(w) \/ tokenRows' = tokenRows
  /\ CreateAuthCode(w) \/ UNCHANGED <<userRows, user>>

LEMMA EffectOfBegin ==
  ASSUME TypeInv, NEW w \in Requests,
         \/ \E dto \in SendAuthCodeDto : FindUser(w, dto)
         \/ \E dto \in VerifyAuthCodeDto : FindAuthCode(w, dto)
         \/ \E dto \in LoginDto : Login(w, dto)
         \/ \E dto \in RefreshTokensDto : AcceptRefresh(w, dto)
  PROVE  \E q : Effect(w, q)
<1>1. ASSUME NEW dto \in SendAuthCodeDto, FindUser(w, dto)
      PROVE  \E q : Effect(w, q)
  <2> DEFINE send == [Idle EXCEPT !.step = "send", !.phone = dto.phone, !.provider = dto.provider]
  <2>1. PICK q : /\ request' = [request EXCEPT ![w] = q]
                 /\ \/ \E u \in UsersOf(dto.phone) : q = [send EXCEPT !.account = u]
                    \/ UsersOf(dto.phone) = {} /\ q = send
    BY <1>1 DEF FindUser, Begin
  <2>2. q.step = "send" /\ q.phone = dto.phone
    BY <2>1 DEF Idle
  <2>3. q.account = None => UsersOf(dto.phone) = {}
    BY <2>1, NoneIsNoId DEF Idle, UsersOf
  <2>4. UNCHANGED tableVars
    BY <1>1 DEF FindUser
  <2>5. \A p \in Phones : Creates(q, p) => UsersOf(p) = {}
    BY <2>2, <2>3 DEF Creates
  <2>6. request' = [request EXCEPT ![w] = q]
    BY <2>1
  <2> HIDE DEF send
  <2>7. Effect(w, q)
    BY <2>2, <2>4, <2>5, <2>6 DEF Effect, Uses, Holds, tableVars
  <2> QED
    BY <2>7
<1>2. ASSUME NEW dto \in VerifyAuthCodeDto, FindAuthCode(w, dto)
      PROVE  \E q : Effect(w, q)
  <2>1. PICK q : /\ request' = [request EXCEPT ![w] = q]
                 /\ q.step = "use" /\ q.code = dto.code /\ ~code[dto.code].used
    BY <1>2 DEF FindAuthCode, Begin, Idle
  <2>2. UNCHANGED tableVars
    BY <1>2 DEF FindAuthCode
  <2> QED
    BY <2>1, <2>2 DEF Effect, Uses, Holds, Creates, tableVars
<1>3. ASSUME NEW dto \in LoginDto, Login(w, dto)
      PROVE  \E q : Effect(w, q)
  <2>0. PICK q : q = [Idle EXCEPT !.step = "signIn", !.account = dto.account,
                                  !.fingerprint = dto.fingerprint]
    OBVIOUS
  <2>1. /\ request' = [request EXCEPT ![w] = q]
        /\ q.step = "signIn" /\ q.code = 0
    BY <1>3, <2>0 DEF Login, Begin, Idle
  <2>2. UNCHANGED tableVars
    BY <1>3 DEF Login
  <2>3. \A c \in CodeIds : q.code # c
    BY <2>1 DEF CodeIds
  <2> QED
    BY <2>1, <2>2, <2>3 DEF Effect, Uses, Holds, Creates, tableVars
<1>4. ASSUME NEW dto \in RefreshTokensDto, AcceptRefresh(w, dto)
      PROVE  \E q : Effect(w, q)
  <2>0. PICK q : q = [Idle EXCEPT !.step = "refresh", !.fingerprint = dto.fingerprint,
                                  !.token = dto.token]
    OBVIOUS
  <2>1. request' = [request EXCEPT ![w] = q] /\ q.step = "refresh"
    BY <1>4, <2>0 DEF AcceptRefresh, Begin, Idle
  <2>2. UNCHANGED tableVars
    BY <1>4 DEF AcceptRefresh
  <2> QED
    BY <2>1, <2>2 DEF Effect, Uses, Holds, Creates, tableVars
<1> QED
  BY <1>1, <1>2, <1>3, <1>4

LEMMA EffectOfStep ==
  ASSUME TypeInv, NEW w \in Requests, RequestStep(w)
  PROVE  \E q : Effect(w, q)
<1>1. request[w] \in Request /\ request \in [Requests -> Request]
  BY DEF TypeInv, TypeOK
<1>2. CASE UseAuthCode(w)
  <2>1. PICK q : q = [request[w] EXCEPT !.step = "signIn"]
    OBVIOUS
  <2>2. request' = [request EXCEPT ![w] = q] /\ request[w].step = "use"
    BY <1>2, <2>1 DEF UseAuthCode, Continue
  <2>3. q.step = "signIn" /\ q.code = request[w].code
    BY <1>1, <2>1 DEF Request
  <2>4. tokenRows' = tokenRows /\ UNCHANGED <<userRows, user>>
    BY <1>2 DEF UseAuthCode
  <2> QED
    BY <2>2, <2>3, <2>4 DEF Effect, Uses, Holds, Creates
<1>3. CASE FindToken(w)
  <2>1. PICK q : q = [request[w] EXCEPT !.step = "found",
                                        !.account = token[request[w].token].account]
    OBVIOUS
  <2>2. request' = [request EXCEPT ![w] = q] /\ token[request[w].token].status = "live"
    BY <1>1, <1>3, <2>1 DEF FindToken, Request
  <2>3. q.step = "found" /\ q.token = request[w].token
    BY <1>1, <2>1 DEF Request
  <2>4. tokenRows' = tokenRows /\ UNCHANGED <<userRows, user>>
    BY <1>3 DEF FindToken, tableVars
  <2> QED
    BY <2>2, <2>3, <2>4 DEF Effect, Uses, Holds, Creates
<1>4. CASE DeleteToken(w)
  <2>1. PICK q : q = [request[w] EXCEPT !.step = "exchange"]
    OBVIOUS
  <2>2. request' = [request EXCEPT ![w] = q] /\ request[w].step = "found"
    BY <1>4, <2>1 DEF DeleteToken, Continue
  <2>3. q.step = "exchange" /\ q.token = request[w].token
    BY <1>1, <2>1 DEF Request
  <2>4. tokenRows' = tokenRows /\ UNCHANGED <<userRows, user>>
    BY <1>4 DEF DeleteToken
  <2> QED
    BY <2>2, <2>3, <2>4 DEF Effect, Uses, Holds, Creates
<1>5. CASE CreateAuthCode(w) \/ RefuseRefresh(w) \/ CreateRefreshToken(w) \/ FailRequest(w)
  <2>1. request' = [request EXCEPT ![w] = Idle]
    BY <1>5 DEF CreateAuthCode, RefuseRefresh, CreateRefreshToken, FailRequest, End
  <2>2. CreateRefreshToken(w) \/ tokenRows' = tokenRows
    BY <1>5 DEF CreateAuthCode, RefuseRefresh, FailRequest, tableVars
  <2>3. CreateAuthCode(w) \/ UNCHANGED <<userRows, user>>
    BY <1>5 DEF CreateRefreshToken, RefuseRefresh, FailRequest, tableVars
  <2>4. Idle.step = "idle"
    BY DEF Idle
  <2> QED
    BY <2>1, <2>2, <2>3, <2>4 DEF Effect, Uses, Holds, Creates
<1>6. ASSUME NEW t \in TokenIds, Logout(w, t)
      PROVE  \E q : Effect(w, q)
  <2>1. request' = [request EXCEPT ![w] = request[w]]
    BY <1>1, <1>6 DEF Logout
  <2>2. tokenRows' = tokenRows /\ UNCHANGED <<userRows, user>>
    BY <1>6 DEF Logout
  <2> QED
    BY <2>1, <2>2 DEF Effect
<1> QED
  BY <1>2, <1>3, <1>4, <1>5, <1>6, EffectOfBegin DEF RequestStep

\* Rows S there are, requests H about to add one: what is added was to be added,
\* or there is nothing yet.
LEMMA BoundStep ==
  ASSUME NEW S, NEW H, NEW S2, NEW H2, IsFiniteSet(S), H \subseteq Requests, H2 \subseteq Requests,
         Cardinality(S) + Cardinality(H) <= Cardinality(Requests),
         \/ S2 \subseteq S /\ H2 \subseteq H
         \/ S2 = {}
         \/ \E x : \E w \in H : S2 \subseteq S \cup {x} /\ H2 \subseteq H \ {w}
  PROVE  Cardinality(S2) + Cardinality(H2) <= Cardinality(Requests)
<1>1. IsFiniteSet(Requests) /\ IsFiniteSet(H) /\ IsFiniteSet(H2)
  BY SessionsAssumption, FS_Subset
<1>2. /\ Cardinality(Requests) \in Nat /\ Cardinality(S) \in Nat
      /\ Cardinality(H) \in Nat /\ Cardinality(H2) \in Nat
      /\ Cardinality(H2) <= Cardinality(Requests)
  BY <1>1, FS_CardinalityType, FS_Subset
<1>3. CASE S2 \subseteq S /\ H2 \subseteq H
  <2>1. /\ Cardinality(S2) <= Cardinality(S) /\ Cardinality(H2) <= Cardinality(H)
        /\ IsFiniteSet(S2)
    BY <1>1, <1>3, FS_Subset
  <2>2. Cardinality(S2) \in Nat
    BY <2>1, FS_CardinalityType
  <2> QED
    BY <1>2, <2>1, <2>2
<1>4. CASE S2 = {}
  <2>1. Cardinality(S2) = 0
    BY <1>4, FS_EmptySet
  <2> QED
    BY <1>2, <2>1
<1>5. ASSUME NEW x, NEW w \in H, S2 \subseteq S \cup {x}, H2 \subseteq H \ {w}
      PROVE  Cardinality(S2) + Cardinality(H2) <= Cardinality(Requests)
  <2>1. IsFiniteSet(S \cup {x}) /\ Cardinality(S \cup {x}) <= Cardinality(S) + 1
    <3>1. /\ IsFiniteSet(S \cup {x})
          /\ \/ Cardinality(S \cup {x}) = Cardinality(S)
             \/ Cardinality(S \cup {x}) = Cardinality(S) + 1
      BY FS_AddElement
    <3> QED
      BY <3>1, <1>2
  <2>2. IsFiniteSet(S2) /\ Cardinality(S2) <= Cardinality(S \cup {x})
    BY <1>5, <2>1, FS_Subset
  <2>3. IsFiniteSet(H \ {w}) /\ Cardinality(H \ {w}) = Cardinality(H) - 1
    BY <1>1, FS_RemoveElement
  <2>4. Cardinality(H2) <= Cardinality(H \ {w})
    BY <1>5, <2>3, FS_Subset
  <2>5. Cardinality(S2) \in Nat /\ Cardinality(S \cup {x}) \in Nat
    BY <2>1, <2>2, FS_CardinalityType
  <2> QED
    BY <1>2, <2>1, <2>2, <2>3, <2>4, <2>5
<1> QED
  BY <1>3, <1>4, <1>5

SignedIn(c) == {t \in Tokens : token[t].code = c}
Successors(t) == {s \in Tokens : token[s].parent = t}
Creating(phone) == {w \in Requests : /\ request[w].step = "send"
                                     /\ request[w].phone = phone
                                     /\ request[w].account = None}

LEMMA FiniteTokens ==
  ASSUME TypeInv
  PROVE  /\ IsFiniteSet(Tokens)
         /\ \A S : S \subseteq Tokens => IsFiniteSet(S)
<1>1. IsFiniteSet(Tokens)
  BY IdFacts, FS_Interval DEF Tokens, TypeInv
<1> QED
  BY <1>1, FS_Subset

\* Who is about to add something after a step.
LEMMA RequestsOf ==
  ASSUME TypeInv, NEW w \in Requests, NEW q, request' = [request EXCEPT ![w] = q]
  PROVE  /\ \A c : Using(c)' = (Using(c) \ {w}) \cup (IF Uses(q, c) THEN {w} ELSE {})
         /\ \A t : Holders(t)' = (Holders(t) \ {w}) \cup (IF Holds(q, t) THEN {w} ELSE {})
         /\ \A p : Creating(p)' = (Creating(p) \ {w}) \cup (IF Creates(q, p) THEN {w} ELSE {})
<1>1. \A v \in Requests : request'[v] = IF v = w THEN q ELSE request[v]
  BY DEF TypeInv, TypeOK
<1>2. \A c : Using(c)' = (Using(c) \ {w}) \cup (IF Uses(q, c) THEN {w} ELSE {})
  BY <1>1 DEF Using, Uses
<1>3. \A t : Holders(t)' = (Holders(t) \ {w}) \cup (IF Holds(q, t) THEN {w} ELSE {})
  BY <1>1 DEF Holders, Holds
<1>4. \A p : Creating(p)' = (Creating(p) \ {w}) \cup (IF Creates(q, p) THEN {w} ELSE {})
  BY <1>1 DEF Creating, Creates
<1> QED
  BY <1>2, <1>3, <1>4

\* The tokens there are after a step that creates none.
LEMMA NoNewTokens ==
  ASSUME TypeInv, Grows, tokenRows' = tokenRows
  PROVE  /\ Tokens' = Tokens
         /\ \A c : SignedIn(c)' = SignedIn(c)
         /\ \A t : Successors(t)' = Successors(t)
BY DEF Grows, Tokens, SignedIn, Successors

\* The token a step creates.
LEMMA NewToken ==
  ASSUME TypeInv, NEW w \in Requests, CreateRefreshToken(w), NEW new, new = tokenRows + 1
  PROVE  /\ Tokens' = Tokens \cup {new} /\ new \notin Tokens /\ new \in TokenIds
         /\ \A t \in Tokens : token'[t] = token[t]
         /\ token'[new].status = "live"
         /\ token'[new].code = request[w].code
         /\ token'[new].parent = request[w].token
         /\ token'[new].session =
              IF request[w].token = 0 THEN new ELSE token[request[w].token].session
         /\ request' = [request EXCEPT ![w] = Idle]
<1>1. tokenRows \in Nat /\ token \in RefreshTokenTable /\ 1..tokenRows \subseteq TokenIds
  BY IdFacts DEF TypeInv, TypeOK
<1>2. tokenRows < MaxTokens /\ tokenRows' = new
  BY DEF CreateRefreshToken
<1>3. Tokens' = Tokens \cup {new} /\ new \notin Tokens /\ new \in TokenIds
  BY <1>1, <1>2, SessionsAssumption DEF Tokens, TokenIds
<1>4. /\ token' = [token EXCEPT ![new] =
           [status |-> "live", account |-> request[w].account,
            fingerprint |-> request[w].fingerprint, expired |-> FALSE,
            parent |-> request[w].token,
            session |-> IF request[w].token = 0 THEN new ELSE token[request[w].token].session,
            code |-> request[w].code]]
      /\ request' = [request EXCEPT ![w] = Idle]
  BY DEF CreateRefreshToken, End
<1>5. \A t \in Tokens : t \in TokenIds /\ t # new
  BY <1>1, <1>3 DEF Tokens
<1> QED
  BY <1>1, <1>3, <1>4, <1>5 DEF RefreshTokenTable

LEMMA IdleAddsNothing ==
  ASSUME NEW i
  PROVE  ~Uses(Idle, i) /\ ~Holds(Idle, i) /\ ~Creates(Idle, i)
BY DEF Uses, Holds, Creates, Idle

SignInsInv ==
  /\ \A c \in CodeIds :
       Cardinality(SignedIn(c)) + Cardinality(Using(c)) <= Cardinality(Requests)
  /\ \A t \in TokenIds :
       Cardinality(Successors(t)) + Cardinality(Holders(t)) <= Cardinality(Requests)

LEMMA SignInsOfStep ==
  ASSUME TypeInv, SignInsInv, NEW w \in Requests, RequestStep(w)
  PROVE  SignInsInv'
<1>1. Grows
  BY TypeRequestStep
<1>2. PICK q : Effect(w, q)
  BY EffectOfStep
<1>3. request' = [request EXCEPT ![w] = q]
  BY <1>2 DEF Effect
<1>4. WholeRequest(request[w])
  BY DEF TypeInv, RequestsAreWhole
<1>5. PICK new : new = tokenRows + 1
  OBVIOUS
<1>6. ASSUME NEW c \in CodeIds
      PROVE  (Cardinality(SignedIn(c)) + Cardinality(Using(c)))' <= Cardinality(Requests)
  <2>1. /\ IsFiniteSet(SignedIn(c)) /\ Using(c) \subseteq Requests /\ Using(c)' \subseteq Requests
        /\ Cardinality(SignedIn(c)) + Cardinality(Using(c)) <= Cardinality(Requests)
    BY FiniteTokens DEF SignInsInv, SignedIn, Using
  <2>2. CASE CreateRefreshToken(w)
    <3>1. /\ Using(c)' = Using(c) \ {w}
          /\ SignedIn(c)' = SignedIn(c) \cup (IF request[w].code = c THEN {new} ELSE {})
      <4>1. /\ Tokens' = Tokens \cup {new} /\ new \notin Tokens
            /\ \A t \in Tokens : token'[t] = token[t]
            /\ token'[new].code = request[w].code
            /\ request' = [request EXCEPT ![w] = Idle]
        BY <1>5, <2>2, NewToken
      <4>2. Using(c)' = Using(c) \ {w}
        <5>1. Using(c)' = (Using(c) \ {w}) \cup (IF Uses(Idle, c) THEN {w} ELSE {})
          BY <4>1, RequestsOf
        <5>2. ~Uses(Idle, c)
          BY IdleAddsNothing
        <5> QED
          BY <5>1, <5>2
      <4> QED
        BY <4>1, <4>2 DEF SignedIn
    <3>2. request[w].code = c => w \in Using(c)
      BY <1>4, <2>2 DEF WholeRequest, CreateRefreshToken, Using, CodeIds
    <3> QED
      BY <2>1, <3>1, <3>2, BoundStep
  <2>3. CASE tokenRows' = tokenRows
    <3>1. SignedIn(c)' = SignedIn(c)
      BY <1>1, <2>3, NoNewTokens
    <3>2. CASE Using(c)' \subseteq Using(c)
      BY <2>1, <3>1, <3>2, BoundStep
    <3>3. CASE ~code[c].used
      <4>1. ASSUME NEW t \in Tokens
            PROVE  token[t].code # c
        <5>1. WholeToken(t)
          BY IdFacts DEF TypeInv, TokensAreWhole, Tokens
        <5> QED
          BY <3>3, <5>1 DEF WholeToken, CodeIds
      <4>2. SignedIn(c) = {}
        BY <4>1 DEF SignedIn
      <4> QED
        BY <2>1, <3>1, <4>2, BoundStep
    <3>4. Uses(q, c) => Uses(request[w], c) \/ ~code[c].used
      BY <1>2 DEF Effect
    <3>5. Uses(request[w], c) => w \in Using(c)
      BY DEF Uses, Using
    <3>6. Using(c)' = (Using(c) \ {w}) \cup (IF Uses(q, c) THEN {w} ELSE {})
      BY <1>3, RequestsOf
    <3> QED
      BY <3>2, <3>3, <3>4, <3>5, <3>6
  <2> QED
    BY <1>2, <2>2, <2>3 DEF Effect
<1>7. ASSUME NEW t \in TokenIds
      PROVE  (Cardinality(Successors(t)) + Cardinality(Holders(t)))' <= Cardinality(Requests)
  <2>1. /\ IsFiniteSet(Successors(t))
        /\ Holders(t) \subseteq Requests /\ Holders(t)' \subseteq Requests
        /\ Cardinality(Successors(t)) + Cardinality(Holders(t)) <= Cardinality(Requests)
    BY FiniteTokens DEF SignInsInv, Successors, Holders
  <2>2. CASE CreateRefreshToken(w)
    <3>1. /\ Holders(t)' = Holders(t) \ {w}
          /\ Successors(t)' = Successors(t) \cup (IF request[w].token = t THEN {new} ELSE {})
      <4>1. /\ Tokens' = Tokens \cup {new} /\ new \notin Tokens
            /\ \A i \in Tokens : token'[i] = token[i]
            /\ token'[new].parent = request[w].token
            /\ request' = [request EXCEPT ![w] = Idle]
        BY <1>5, <2>2, NewToken
      <4>2. Holders(t)' = Holders(t) \ {w}
        <5>1. Holders(t)' = (Holders(t) \ {w}) \cup (IF Holds(Idle, t) THEN {w} ELSE {})
          BY <4>1, RequestsOf
        <5>2. ~Holds(Idle, t)
          BY IdleAddsNothing
        <5> QED
          BY <5>1, <5>2
      <4> QED
        BY <4>1, <4>2 DEF Successors
    <3>2. request[w].token = t => w \in Holders(t)
      BY <1>4, <2>2 DEF WholeRequest, CreateRefreshToken, Holders, TokenIds
    <3> QED
      BY <2>1, <3>1, <3>2, BoundStep
  <2>3. CASE tokenRows' = tokenRows
    <3>1. Successors(t)' = Successors(t)
      BY <1>1, <2>3, NoNewTokens
    <3>2. CASE Holders(t)' \subseteq Holders(t)
      BY <2>1, <3>1, <3>2, BoundStep
    <3>3. CASE token[t].status = "live"
      <4>1. ASSUME NEW s \in Tokens
            PROVE  token[s].parent # t
        <5>1. WholeToken(s)
          BY IdFacts DEF TypeInv, TokensAreWhole, Tokens
        <5> QED
          BY <3>3, <5>1 DEF WholeToken, TokenIds
      <4>2. Successors(t) = {}
        BY <4>1 DEF Successors
      <4> QED
        BY <2>1, <3>1, <4>2, BoundStep
    <3>4. Holds(q, t) => Holds(request[w], t) \/ token[t].status = "live"
      BY <1>2 DEF Effect
    <3>5. Holds(request[w], t) => w \in Holders(t)
      BY DEF Holds, Holders
    <3>6. Holders(t)' = (Holders(t) \ {w}) \cup (IF Holds(q, t) THEN {w} ELSE {})
      BY <1>3, RequestsOf
    <3> QED
      BY <3>2, <3>3, <3>4, <3>5, <3>6
  <2> QED
    BY <1>2, <2>2, <2>3 DEF Effect
<1> QED
  BY <1>6, <1>7 DEF SignInsInv

LEMMA WhatExpires ==
  ASSUME TypeInv, Expiry
  PROVE  /\ Grows
         /\ UNCHANGED <<userRows, user, tokenRows, request, raced, ended>>
         /\ \A t \in TokenIds : token'[t].status = token[t].status
<1>1. Grows
  BY TypeTokenExpires, TypeCodeExpires DEF Expiry
<1>2. UNCHANGED <<userRows, user, tokenRows, request, raced, ended>>
  BY DEF Expiry, TokenExpires, CodeExpires, historyVars
<1>3. \A t \in TokenIds : token'[t].status = token[t].status
  <2>1. ASSUME NEW t \in TokenIds, TokenExpires(t), NEW i \in TokenIds
        PROVE  token'[i].status = token[i].status
    <3>1. token' = [token EXCEPT ![t].expired = TRUE] /\ token \in RefreshTokenTable
      BY <2>1 DEF TokenExpires, TypeInv, TypeOK
    <3> QED
      BY <3>1 DEF RefreshTokenTable, RefreshTokenRow
  <2>2. ASSUME NEW c \in CodeIds, CodeExpires(c)
        PROVE  token' = token
    BY <2>2 DEF CodeExpires
  <2> QED
    BY <2>1, <2>2 DEF Expiry
<1> QED
  BY <1>1, <1>2, <1>3

LEMMA SignInsNext ==
  ASSUME TypeInv, SignInsInv, [Next]_vars
  PROVE  SignInsInv'
<1>1. ASSUME NEW w \in Requests, RequestStep(w)
      PROVE  SignInsInv'
  BY <1>1, SignInsOfStep
<1>2. CASE Expiry
  <2>1. Grows /\ tokenRows' = tokenRows /\ request' = request
    BY <1>2, WhatExpires
  <2>2. /\ \A c : SignedIn(c)' = SignedIn(c)
        /\ \A t : Successors(t)' = Successors(t)
    BY <2>1, NoNewTokens
  <2>3. /\ \A c : Using(c)' = Using(c)
        /\ \A t : Holders(t)' = Holders(t)
    BY <2>1 DEF Using, Holders
  <2> QED
    BY <2>2, <2>3 DEF SignInsInv
<1>3. CASE UNCHANGED vars
  BY <1>3 DEF vars, tableVars, SignInsInv, SignedIn, Successors, Tokens, Using, Holders
<1> QED
  BY <1>1, <1>2, <1>3, NextSteps

LEMMA SignInsInit == Init => SignInsInv
<1> SUFFICES ASSUME Init PROVE SignInsInv
  OBVIOUS
<1>1. Tokens = {}
  BY DEF Init, Tokens
<1>2. /\ \A c : SignedIn(c) = {} /\ Using(c) = {}
      /\ \A t : Successors(t) = {} /\ Holders(t) = {}
  BY <1>1 DEF Init, SignedIn, Successors, Using, Holders, Idle
<1>3. Cardinality({}) = 0 /\ Cardinality(Requests) \in Nat
  BY SessionsAssumption, FS_EmptySet, FS_CardinalityType
<1>4. /\ \A c \in CodeIds : Cardinality(SignedIn(c)) = 0 /\ Cardinality(Using(c)) = 0
      /\ \A t \in TokenIds : Cardinality(Successors(t)) = 0 /\ Cardinality(Holders(t)) = 0
  BY <1>2, <1>3
<1> QED
  BY <1>3, <1>4 DEF SignInsInv

\* An auth code signs in, and a refresh token is exchanged, at most as often as there
\* are requests at a time: findAuthCode and useAuthCode, and findOne and deleteByToken,
\* are statements of their own.
THEOREM SignInsOfOneCode == Spec => []SignInsBoundedByConcurrency
<1>1. Init => TypeInv /\ SignInsInv
  BY TypeInit, SignInsInit
<1>2. TypeInv /\ SignInsInv /\ [Next]_vars => (TypeInv /\ SignInsInv)'
  BY TypeNext, SignInsNext
<1>3. SignInsInv => SignInsBoundedByConcurrency
  BY DEF SignInsInv, SignInsBoundedByConcurrency, SignedIn, Successors
<1> QED
  BY <1>1, <1>2, <1>3, PTL DEF Spec

-----------------------------------------------------------------------------
(* The users of a phone number.                                             *)

LEMMA NewUserRow ==
  ASSUME TypeInv, NEW w \in Requests, CreateAuthCode(w), request[w].account = None
  PROVE  /\ request[w].phone \in Phones /\ request[w].provider \in Providers
         /\ \A u \in UserIds : \/ user[u].phone # request[w].phone
                               \/ user[u].provider # request[w].provider
         /\ \A u \in UserIds :
              user'[u] = IF u = userRows + 1
                         THEN [phone |-> request[w].phone, provider |-> request[w].provider]
                         ELSE user[u]
<1>1. WholeRequest(request[w]) /\ request[w].step = "send"
  BY DEF TypeInv, RequestsAreWhole, CreateAuthCode
<1>2. request[w].phone \in Phones /\ request[w].provider \in Providers
  BY <1>1 DEF WholeRequest
<1>3. NewUser(w)
  BY DEF CreateAuthCode
<1>4. user \in UserTable
  BY DEF TypeInv, TypeOK
<1>5. \A u \in UserIds : user[u] = [phone |-> user[u].phone, provider |-> user[u].provider]
  BY <1>4 DEF UserTable, UserRow
<1>6. \A u \in UserIds :
        user[u] # [phone |-> request[w].phone, provider |-> request[w].provider]
  BY <1>3 DEF NewUser, IsNewUser
<1>7. \A u \in UserIds :
        user'[u] = IF u = userRows + 1
                   THEN [phone |-> request[w].phone, provider |-> request[w].provider]
                   ELSE user[u]
  BY <1>3, <1>4 DEF NewUser, UserTable
<1>8. \A u \in UserIds :
        user[u].phone # request[w].phone \/ user[u].provider # request[w].provider
  BY <1>5, <1>6
<1> QED
  BY <1>2, <1>7, <1>8

PhonesInv ==
  \A phone \in Phones :
    /\ IsFiniteSet(UsersOf(phone))
    /\ Cardinality(UsersOf(phone)) + Cardinality(Creating(phone)) <= Cardinality(Requests)
    /\ \A u, v \in UsersOf(phone) : user[u].provider = user[v].provider => u = v

LEMMA PhonesOfStep ==
  ASSUME TypeInv, PhonesInv, NEW w \in Requests, RequestStep(w), NEW phone \in Phones
  PROVE  /\ Cardinality(UsersOf(phone)') + Cardinality(Creating(phone)') <= Cardinality(Requests)
         /\ \A u, v \in UsersOf(phone)' : user'[u].provider = user'[v].provider => u = v
<1>1. PICK q : Effect(w, q)
  BY EffectOfStep
<1>2. /\ IsFiniteSet(UsersOf(phone))
      /\ Creating(phone) \subseteq Requests /\ Creating(phone)' \subseteq Requests
      /\ Cardinality(UsersOf(phone)) + Cardinality(Creating(phone)) <= Cardinality(Requests)
      /\ \A u, v \in UsersOf(phone) : user[u].provider = user[v].provider => u = v
  BY DEF PhonesInv, Creating
<1>3. CASE UNCHANGED <<userRows, user>>
  <2>1. UsersOf(phone)' = UsersOf(phone)
    BY <1>3 DEF UsersOf
  <2>2. Creating(phone)' = (Creating(phone) \ {w}) \cup (IF Creates(q, phone) THEN {w} ELSE {})
    BY <1>1, RequestsOf DEF Effect
  <2>3. Creates(q, phone) => Creates(request[w], phone) \/ UsersOf(phone) = {}
    BY <1>1 DEF Effect
  <2>4. Creates(request[w], phone) => w \in Creating(phone)
    BY DEF Creates, Creating
  <2>5. \/ UsersOf(phone)' \subseteq UsersOf(phone) /\ Creating(phone)' \subseteq Creating(phone)
        \/ UsersOf(phone)' = {}
    BY <2>1, <2>2, <2>3, <2>4
  <2>6. Cardinality(UsersOf(phone)') + Cardinality(Creating(phone)') <= Cardinality(Requests)
    BY <1>2, <2>5, BoundStep
  <2> QED
    BY <1>2, <1>3, <2>1, <2>6
<1>4. CASE CreateAuthCode(w) /\ request[w].account = None
  <2>1. PICK new : new = userRows + 1
    OBVIOUS
  <2>2. /\ \A u \in UserIds : \/ user[u].phone # request[w].phone
                              \/ user[u].provider # request[w].provider
        /\ \A u \in UserIds :
             user'[u] = IF u = new
                        THEN [phone |-> request[w].phone, provider |-> request[w].provider]
                        ELSE user[u]
    BY <1>4, <2>1, NewUserRow
  <2>3. request' = [request EXCEPT ![w] = Idle] /\ request[w].step = "send"
    BY <1>4 DEF CreateAuthCode, End
  <2>4. Creating(phone)' = Creating(phone) \ {w}
    <3>1. Creating(phone)' = (Creating(phone) \ {w}) \cup (IF Creates(Idle, phone) THEN {w} ELSE {})
      BY <2>3, RequestsOf
    <3>2. ~Creates(Idle, phone)
      BY IdleAddsNothing
    <3> QED
      BY <3>1, <3>2
  <2>5. UsersOf(phone)' \subseteq UsersOf(phone) \cup (IF request[w].phone = phone THEN {new} ELSE {})
    BY <2>2 DEF UsersOf
  <2>6. request[w].phone = phone => w \in Creating(phone)
    BY <1>4, <2>3 DEF Creating
  <2>7. Cardinality(UsersOf(phone)') + Cardinality(Creating(phone)') <= Cardinality(Requests)
    <3>1. CASE request[w].phone = phone
      <4>1. UsersOf(phone)' \subseteq UsersOf(phone) \cup {new}
        BY <2>5, <3>1
      <4>2. \E x : \E i \in Creating(phone) : /\ UsersOf(phone)' \subseteq UsersOf(phone) \cup {x}
                                             /\ Creating(phone)' \subseteq Creating(phone) \ {i}
        BY <2>4, <2>6, <3>1, <4>1
      <4> QED
        BY <1>2, <4>2, BoundStep
    <3>2. CASE request[w].phone # phone
      <4>1. UsersOf(phone)' \subseteq UsersOf(phone) /\ Creating(phone)' \subseteq Creating(phone)
        BY <2>4, <2>5, <3>2
      <4> QED
        BY <1>2, <4>1, BoundStep
    <3> QED
      BY <3>1, <3>2
  <2>8. ASSUME NEW u \in UsersOf(phone)', NEW v \in UsersOf(phone)',
               user'[u].provider = user'[v].provider
        PROVE  u = v
    <3>1. /\ u \in UserIds /\ v \in UserIds
          /\ user'[u].phone = phone /\ user'[v].phone = phone
      BY <2>8 DEF UsersOf
    <3>2. CASE u # new /\ v # new
      <4>1. u \in UsersOf(phone) /\ v \in UsersOf(phone) /\ user[u].provider = user[v].provider
        BY <2>2, <2>8, <3>1, <3>2 DEF UsersOf
      <4> QED
        BY <1>2, <4>1
    <3>3. CASE u = new /\ v # new
      BY <2>2, <2>8, <3>1, <3>3
    <3>4. CASE v = new /\ u # new
      BY <2>2, <2>8, <3>1, <3>4
    <3> QED
      BY <3>2, <3>3, <3>4
  <2> QED
    BY <2>7, <2>8
<1>5. CreateAuthCode(w) /\ request[w].account # None => UNCHANGED <<userRows, user>>
  BY DEF CreateAuthCode
<1> QED
  BY <1>1, <1>3, <1>4, <1>5 DEF Effect

LEMMA PhonesNext ==
  ASSUME TypeInv, PhonesInv, [Next]_vars
  PROVE  PhonesInv'
<1>1. ASSUME NEW phone \in Phones
      PROVE  IsFiniteSet(UsersOf(phone)')
  <2>1. IsFiniteSet(UserIds)
    <3>1. 1 \in Int /\ MaxUsers \in Int
      BY SessionsAssumption
    <3> HIDE DEF SessionsAssumption
    <3>2. IsFiniteSet(1..MaxUsers)
      BY <3>1, FS_Interval
    <3> QED
      BY <3>2 DEF UserIds
  <2>2. PICK S : S = UsersOf(phone)'
    OBVIOUS
  <2>3. S \subseteq UserIds
    BY <2>2 DEF UsersOf
  <2>4. IsFiniteSet(S)
    BY <2>1, <2>3, FS_Subset
  <2> QED
    BY <2>2, <2>4
<1>2. ASSUME NEW w \in Requests, RequestStep(w)
      PROVE  PhonesInv'
  BY <1>1, <1>2, PhonesOfStep DEF PhonesInv
<1>3. CASE Expiry
  <2>1. user' = user /\ request' = request
    BY <1>3, WhatExpires
  <2> QED
    BY <2>1 DEF PhonesInv, UsersOf, Creating
<1>4. CASE UNCHANGED vars
  BY <1>4 DEF vars, tableVars, PhonesInv, UsersOf, Creating
<1> QED
  BY <1>2, <1>3, <1>4, NextSteps

LEMMA PhonesInit == Init => PhonesInv
<1> SUFFICES ASSUME Init PROVE PhonesInv
  OBVIOUS
<1>1. Cardinality({}) = 0 /\ IsFiniteSet({}) /\ Cardinality(Requests) \in Nat
  BY SessionsAssumption, FS_EmptySet, FS_CardinalityType
<1>2. ASSUME NEW phone \in Phones
      PROVE  UsersOf(phone) = {} /\ Creating(phone) = {}
  <2>1. phone # None
    BY SessionsAssumption
  <2> QED
    BY <2>1 DEF Init, UsersOf, Creating, NoUser, Idle
<1> QED
  BY <1>1, <1>2 DEF PhonesInv

\* sendAuthCode looks for the phone number alone before it creates a user: who shares
\* a number was created by requests that looked together, for different providers.
THEOREM UsersOfPhone == Spec => []UsersOfPhoneBounded
<1>1. Init => TypeInv /\ PhonesInv
  BY TypeInit, PhonesInit
<1>2. TypeInv /\ PhonesInv /\ [Next]_vars => (TypeInv /\ PhonesInv)'
  BY TypeNext, PhonesNext
<1>3. PhonesInv => UsersOfPhoneBounded
  BY DEF PhonesInv, UsersOfPhoneBounded, Creating
<1> QED
  BY <1>1, <1>2, <1>3, PTL DEF Spec

-----------------------------------------------------------------------------
(* The one token of a session.                                              *)

SessionIds == {token[t].session : t \in Tokens}
LiveOf(s) == {t \in Tokens : token[t].session = s /\ token[t].status = "live"}
Exchanging(s) == {w \in Requests : /\ request[w].step = "exchange"
                                   /\ token[request[w].token].session = s}

\* Who has found a token that nobody else holds can count on it.
FoundIsLive ==
  \A w \in Requests :
    request[w].step = "found" /\ token[request[w].token].session \notin raced
      => token[request[w].token].status = "live"
OneHolder ==
  \A t \in Tokens : token[t].session \notin raced =>
    \A v, w \in Requests : Holds(request[v], t) /\ Holds(request[w], t) => v = w

\* OneTokenPerSession, session by session.
One(s) == Cardinality(LiveOf(s)) + Cardinality(Exchanging(s)) = IF s \in ended THEN 0 ELSE 1

OneInv ==
  /\ \A s \in SessionIds \ raced : One(s)
  /\ ended \subseteq Tokens
  /\ FoundIsLive
  /\ OneHolder

LEMMA FiniteSession ==
  ASSUME TypeInv, NEW s
  PROVE  /\ IsFiniteSet(LiveOf(s)) /\ IsFiniteSet(Exchanging(s))
         /\ Cardinality(LiveOf(s)) \in Nat /\ Cardinality(Exchanging(s)) \in Nat
<1>1. LiveOf(s) \subseteq Tokens /\ Exchanging(s) \subseteq Requests
  BY DEF LiveOf, Exchanging
<1>2. IsFiniteSet(LiveOf(s)) /\ IsFiniteSet(Exchanging(s))
  BY <1>1, FiniteTokens, SessionsAssumption, FS_Subset
<1> QED
  BY <1>2, FS_CardinalityType

\* The tokens that requests refer to are there.
LEMMA TokenOfRequest ==
  ASSUME TypeInv, NEW w \in Requests, request[w].step \in {"refresh", "found", "exchange"}
  PROVE  /\ request[w].token \in Tokens /\ request[w].token \in TokenIds
         /\ WholeToken(request[w].token)
         /\ token[request[w].token].session \in SessionIds
         /\ token[request[w].token].session \in Tokens
<1>1. WholeRequest(request[w])
  BY DEF TypeInv, RequestsAreWhole
<1>2. request[w].token \in Tokens /\ request[w].token \in TokenIds
  BY <1>1, IdFacts DEF WholeRequest, Tokens, TypeInv
<1>3. WholeToken(request[w].token)
  BY <1>2 DEF TypeInv, TokensAreWhole, Tokens
<1> QED
  BY <1>2, <1>3 DEF SessionIds, WholeToken, Tokens

\* What makes no token live or dead, and takes none between the old and the new.
Quiet ==
  /\ tokenRows' = tokenRows
  /\ \A t \in TokenIds : token'[t].status = token[t].status
  /\ \A v \in Requests :
       /\ request'[v].step = "found" => request'[v] = request[v]
       /\ "exchange" \in {request[v].step, request'[v].step} => request'[v] = request[v]
  /\ UNCHANGED <<raced, ended>>

\* The tokens of a session after a step that creates none.
LEMMA SessionStays ==
  ASSUME TypeInv, Grows, tokenRows' = tokenRows
  PROVE  /\ Tokens' = Tokens /\ SessionIds' = SessionIds
         /\ \A t \in Tokens : t \in TokenIds /\ token'[t].session = token[t].session
<1>1. Tokens' = Tokens
  BY DEF Tokens
<1>2. \A t \in Tokens : t \in TokenIds /\ token'[t].session = token[t].session
  BY IdFacts DEF Grows, Tokens, TypeInv
<1> QED
  BY <1>1, <1>2 DEF SessionIds

LEMMA OneOfQuiet ==
  ASSUME TypeInv, Grows, TypeInv', OneInv, Quiet
  PROVE  OneInv'
<1>1. /\ Tokens' = Tokens /\ SessionIds' = SessionIds
      /\ \A t \in Tokens : /\ token'[t].session = token[t].session
                           /\ token'[t].status = token[t].status
  BY SessionStays DEF Quiet
<1>2. ASSUME NEW v \in Requests, request'[v].step \in {"found", "exchange"}
      PROVE  /\ request'[v] = request[v]
             /\ request[v].token \in Tokens
  <2>1. request'[v] = request[v]
    BY <1>2 DEF Quiet
  <2> QED
    BY <1>2, <2>1, TokenOfRequest
<1>3. ASSUME NEW s
      PROVE  LiveOf(s)' = LiveOf(s) /\ Exchanging(s)' = Exchanging(s)
  <2>1. LiveOf(s)' = LiveOf(s)
    BY <1>1 DEF LiveOf
  <2>2. ASSUME NEW v \in Requests, request[v].step = "exchange"
        PROVE  request'[v] = request[v] /\ request[v].token \in Tokens
    BY <2>2, TokenOfRequest DEF Quiet
  <2> QED
    BY <1>1, <1>2, <2>1, <2>2 DEF Exchanging
<1>4. \A s \in SessionIds' \ raced' : One(s)'
  BY <1>1, <1>3 DEF OneInv, One, Quiet
<1>5. ended' \subseteq Tokens'
  BY <1>1 DEF OneInv, Quiet
<1>6. FoundIsLive'
  BY <1>1, <1>2 DEF OneInv, FoundIsLive, Quiet
<1>7. OneHolder'
  BY <1>1, <1>2 DEF OneInv, OneHolder, Holds, Quiet
<1> QED
  BY <1>4, <1>5, <1>6, <1>7 DEF OneInv

LEMMA OneOfFindToken ==
  ASSUME TypeInv, Grows, OneInv, NEW w \in Requests, FindToken(w)
  PROVE  OneInv'
<1>1. /\ UNCHANGED <<tableVars, ended>> /\ raced \subseteq raced'
      /\ request[w].step = "refresh" /\ token[request[w].token].status = "live"
      /\ Holders(request[w].token) # {} => token[request[w].token].session \in raced'
  BY DEF FindToken
<1>2. /\ request'[w].step = "found" /\ request'[w].token = request[w].token
      /\ \A v \in Requests : v # w => request'[v] = request[v]
  BY DEF FindToken, TypeInv, TypeOK, Request
<1>3. Tokens' = Tokens /\ SessionIds' = SessionIds /\ token' = token /\ ended' = ended
  BY <1>1 DEF tableVars, Tokens, SessionIds
<1>4. ASSUME NEW s
      PROVE  LiveOf(s)' = LiveOf(s) /\ Exchanging(s)' = Exchanging(s)
  BY <1>1, <1>2, <1>3 DEF LiveOf, Exchanging
<1>5. \A s \in SessionIds' \ raced' : One(s)'
  BY <1>1, <1>3, <1>4 DEF OneInv, One
<1>6. FoundIsLive'
  BY <1>1, <1>2, <1>3 DEF OneInv, FoundIsLive
<1>7. OneHolder'
  <2>1. ASSUME NEW v \in Requests, Holds(request[v], request[w].token)
        PROVE  token[request[w].token].session \in raced'
    BY <1>1, <2>1 DEF Holds, Holders
  <2>2. \A v \in Requests, t \in Tokens :
          Holds(request[v], t)' => Holds(request[v], t) \/ (v = w /\ t = request[w].token)
    BY <1>2 DEF Holds
  <2> QED
    BY <1>1, <1>3, <2>1, <2>2 DEF OneInv, OneHolder
<1> QED
  BY <1>3, <1>5, <1>6, <1>7 DEF OneInv

LEMMA OneOfDeleteToken ==
  ASSUME TypeInv, Grows, OneInv, NEW w \in Requests, DeleteToken(w)
  PROVE  OneInv'
<1>1. PICK t : t = request[w].token
  OBVIOUS
<1>2. /\ request[w].step = "found" /\ tokenRows' = tokenRows /\ UNCHANGED <<raced, ended>>
      /\ token' = [token EXCEPT ![t].status = "deleted"]
  BY <1>1 DEF DeleteToken, historyVars
<1>3. /\ request'[w].step = "exchange" /\ request'[w].token = t
      /\ \A v \in Requests : v # w => request'[v] = request[v]
  BY <1>1 DEF DeleteToken, Continue, TypeInv, TypeOK, Request
<1>4. t \in Tokens /\ t \in TokenIds
  BY <1>1, <1>2, TokenOfRequest
<1>5. /\ Tokens' = Tokens /\ SessionIds' = SessionIds
      /\ \A i \in Tokens : i \in TokenIds /\ token'[i].session = token[i].session
  BY <1>2, SessionStays
<1>6. /\ token'[t].status = "deleted"
      /\ \A i \in Tokens : i # t => token'[i].status = token[i].status
  BY <1>2, <1>4, <1>5 DEF TypeInv, TypeOK, RefreshTokenTable, RefreshTokenRow
<1>7. \A v \in Requests : \A i : Holds(request[v], i)' <=> Holds(request[v], i)
  BY <1>1, <1>2, <1>3 DEF Holds
<1>8. OneHolder'
  BY <1>2, <1>5, <1>7 DEF OneInv, OneHolder
<1>9. FoundIsLive'
  <2>1. ASSUME NEW v \in Requests, request'[v].step = "found",
               token'[request'[v].token].session \notin raced
        PROVE  token'[request'[v].token].status = "live"
    <3>1. v # w /\ request'[v] = request[v] /\ request[v].step = "found"
      BY <1>3, <2>1
    <3>2. request[v].token \in Tokens
      BY <3>1, TokenOfRequest
    <3>3. token[request[v].token].session \notin raced
      BY <1>5, <2>1, <3>1, <3>2
    <3>4. token[request[v].token].status = "live"
      BY <3>1, <3>3 DEF OneInv, FoundIsLive
    <3>5. request[v].token # t
      BY <1>1, <1>2, <1>4, <3>1, <3>3 DEF OneInv, OneHolder, Holds
    <3> QED
      BY <1>6, <3>1, <3>2, <3>4, <3>5
  <2> QED
    BY <1>2, <2>1 DEF FoundIsLive
<1>10. ASSUME NEW s \in SessionIds \ raced
       PROVE  One(s)'
  <2>1. One(s)
    BY DEF OneInv
  <2>2. CASE token[t].session # s
    <3>1. LiveOf(s)' = LiveOf(s)
      BY <1>4, <1>5, <1>6, <2>2 DEF LiveOf
    <3>2. Exchanging(s)' = Exchanging(s)
      <4>1. \A v \in Requests : request[v].step = "exchange" => request[v].token \in Tokens
        BY TokenOfRequest
      <4> QED
        BY <1>2, <1>3, <1>4, <1>5, <2>2, <4>1 DEF Exchanging
    <3> QED
      BY <1>2, <2>1, <3>1, <3>2 DEF One
  <2>3. CASE token[t].session = s
    <3>1. t \in LiveOf(s)
      BY <1>1, <1>2, <1>4, <2>3 DEF LiveOf, OneInv, FoundIsLive
    <3>2. w \notin Exchanging(s)
      BY <1>2 DEF Exchanging
    <3>3. LiveOf(s)' = LiveOf(s) \ {t}
      BY <1>4, <1>5, <1>6, <2>3 DEF LiveOf
    <3>4. Exchanging(s)' = Exchanging(s) \cup {w}
      <4>1. \A v \in Requests : request[v].step = "exchange" => request[v].token \in Tokens
        BY TokenOfRequest
      <4> QED
        BY <1>2, <1>3, <1>4, <1>5, <2>3, <4>1 DEF Exchanging
    <3>5. PICK live, exch : live = LiveOf(s) /\ exch = Exchanging(s)
      OBVIOUS
    <3>6. /\ IsFiniteSet(live) /\ IsFiniteSet(exch)
          /\ Cardinality(live) \in Nat /\ Cardinality(exch) \in Nat
      BY <3>5, FiniteSession
    <3>7. Cardinality(live \ {t}) = Cardinality(live) - 1
      BY <3>1, <3>5, <3>6, FS_RemoveElement
    <3>8. Cardinality(exch \cup {w}) = Cardinality(exch) + 1
      BY <3>2, <3>5, <3>6, FS_AddElement
    <3>9. Cardinality(live \ {t}) + Cardinality(exch \cup {w})
            = Cardinality(live) + Cardinality(exch)
      BY <3>6, <3>7, <3>8
    <3> QED
      BY <1>2, <2>1, <3>3, <3>4, <3>5, <3>9 DEF One
  <2> QED
    BY <2>2, <2>3
<1> QED
  BY <1>2, <1>5, <1>8, <1>9, <1>10 DEF OneInv

LEMMA OneOfLogout ==
  ASSUME TypeInv, Grows, OneInv, NEW w \in Requests, NEW t \in TokenIds, Logout(w, t)
  PROVE  OneInv'
<1>1. PICK o : o = token[t].session
  OBVIOUS
<1>2. /\ token[t].status = "live" /\ tokenRows' = tokenRows /\ request' = request
      /\ ended' = ended \cup {o} /\ raced \subseteq raced'
      /\ Holders(t) # {} => o \in raced'
      /\ token' = [token EXCEPT ![t].status = "deleted"]
  BY <1>1 DEF Logout
<1>3. t \in Tokens
  BY <1>2, IdFacts DEF TypeInv, TokensAreWhole, NoToken, Tokens, TokenIds
<1>4. o \in Tokens
  BY <1>1, <1>3 DEF TypeInv, TokensAreWhole, WholeToken, Tokens, TokenIds
<1>5. /\ Tokens' = Tokens /\ SessionIds' = SessionIds
      /\ \A i \in Tokens : i \in TokenIds /\ token'[i].session = token[i].session
  BY <1>2, SessionStays
<1>6. /\ token'[t].status = "deleted"
      /\ \A i \in Tokens : i # t => token'[i].status = token[i].status
  BY <1>2, <1>5 DEF TypeInv, TypeOK, RefreshTokenTable, RefreshTokenRow
<1>7. OneHolder'
  BY <1>2, <1>5 DEF OneInv, OneHolder
<1>8. FoundIsLive'
  <2>1. ASSUME NEW v \in Requests, request[v].step = "found",
               token'[request[v].token].session \notin raced'
        PROVE  token'[request[v].token].status = "live"
    <3>1. request[v].token \in Tokens
      BY <2>1, TokenOfRequest
    <3>2. token[request[v].token].session \notin raced'
      BY <1>5, <2>1, <3>1
    <3>3. token[request[v].token].status = "live"
      BY <1>2, <2>1, <3>2 DEF OneInv, FoundIsLive
    <3>4. request[v].token = t => v \in Holders(t)
      BY <2>1 DEF Holders
    <3>5. request[v].token # t
      BY <1>1, <1>2, <3>2, <3>4
    <3> QED
      BY <1>6, <3>1, <3>3, <3>5
  <2> QED
    BY <1>2, <2>1 DEF FoundIsLive
<1>9. ASSUME NEW s
      PROVE  Exchanging(s)' = Exchanging(s)
  <2>1. \A v \in Requests : request[v].step = "exchange" => request[v].token \in Tokens
    BY TokenOfRequest
  <2> QED
    BY <1>2, <1>5, <2>1 DEF Exchanging
<1>10. ASSUME NEW s \in SessionIds \ raced'
       PROVE  One(s)'
  <2>1. One(s)
    BY <1>2 DEF OneInv
  <2>2. CASE o # s
    <3>1. LiveOf(s)' = LiveOf(s)
      BY <1>1, <1>5, <1>6, <2>2 DEF LiveOf
    <3> QED
      BY <1>2, <1>9, <2>1, <2>2, <3>1 DEF One
  <2>3. CASE o = s
    <3>1. t \in LiveOf(s)
      BY <1>1, <1>2, <1>3, <2>3 DEF LiveOf
    <3>2. LiveOf(s)' = LiveOf(s) \ {t}
      BY <1>1, <1>3, <1>5, <1>6, <2>3 DEF LiveOf
    <3>3. PICK live, exch : live = LiveOf(s) /\ exch = Exchanging(s)
      OBVIOUS
    <3>4. /\ IsFiniteSet(live) /\ IsFiniteSet(exch)
          /\ Cardinality(live) \in Nat /\ Cardinality(exch) \in Nat
      BY <3>3, FiniteSession
    <3>5. IsFiniteSet(live \ {t}) /\ Cardinality(live \ {t}) = Cardinality(live) - 1
      BY <3>1, <3>3, <3>4, FS_RemoveElement
    <3>6. Cardinality(live \ {t}) \in Nat
      BY <3>5, FS_CardinalityType
    <3>7. Cardinality(live) + Cardinality(exch) = IF s \in ended THEN 0 ELSE 1
      BY <2>1, <3>3 DEF One
    <3>8. Cardinality(live \ {t}) + Cardinality(exch) = 0
      BY <3>4, <3>5, <3>6, <3>7
    <3> QED
      BY <1>2, <1>9, <2>3, <3>2, <3>3, <3>8 DEF One
  <2> QED
    BY <2>2, <2>3
<1>11. ended' \subseteq Tokens'
  BY <1>2, <1>4, <1>5 DEF OneInv
<1> QED
  BY <1>5, <1>7, <1>8, <1>10, <1>11 DEF OneInv

LEMMA OneOfFailRequest ==
  ASSUME TypeInv, Grows, TypeInv', OneInv, NEW w \in Requests, FailRequest(w)
  PROVE  OneInv'
<1>1. /\ UNCHANGED <<tableVars, raced>>
      /\ request' = [request EXCEPT ![w] = Idle] /\ request \in [Requests -> Request]
  BY DEF FailRequest, End, TypeInv, TypeOK
<1>2. tokenRows' = tokenRows /\ token' = token
  BY <1>1 DEF tableVars
<1>3. request'[w].step = "idle" /\ \A v \in Requests : v # w => request'[v] = request[v]
  BY <1>1 DEF Idle
<1>4. CASE request[w].step # "exchange"
  <2>1. ended' = ended
    BY <1>4 DEF FailRequest
  <2>2. Quiet
    BY <1>1, <1>2, <1>3, <1>4, <2>1 DEF Quiet
  <2> QED
    BY <2>2, OneOfQuiet
<1>5. CASE request[w].step = "exchange"
  <2>1. PICK o : o = token[request[w].token].session
    OBVIOUS
  <2>2. ended' = ended \cup {o}
    BY <1>5, <2>1 DEF FailRequest
  <2>3. o \in Tokens
    BY <1>5, <2>1, TokenOfRequest
  <2>4. Tokens' = Tokens /\ SessionIds' = SessionIds
    BY <1>2 DEF Tokens, SessionIds
  <2>5. \A s : LiveOf(s)' = LiveOf(s)
    BY <1>2, <2>4 DEF LiveOf
  <2>6. \A s : Exchanging(s)' = Exchanging(s) \ {w}
    BY <1>2, <1>3 DEF Exchanging
  <2>7. FoundIsLive'
    BY <1>1, <1>2, <1>3 DEF OneInv, FoundIsLive
  <2>8. OneHolder'
    BY <1>1, <1>2, <1>3, <2>4 DEF OneInv, OneHolder, Holds
  <2>9. ASSUME NEW s \in SessionIds \ raced
        PROVE  One(s)'
    <3>1. One(s)
      BY DEF OneInv
    <3>2. CASE o # s
      <4>1. w \notin Exchanging(s)
        BY <2>1, <3>2 DEF Exchanging
      <4>2. Exchanging(s)' = Exchanging(s)
        BY <2>6, <4>1
      <4> QED
        BY <2>2, <2>5, <3>1, <3>2, <4>2 DEF One
    <3>3. CASE o = s
      <4>1. w \in Exchanging(s)
        BY <1>5, <2>1, <3>3 DEF Exchanging
      <4>2. PICK live, exch : live = LiveOf(s) /\ exch = Exchanging(s)
        OBVIOUS
      <4>3. /\ IsFiniteSet(live) /\ IsFiniteSet(exch)
            /\ Cardinality(live) \in Nat /\ Cardinality(exch) \in Nat
        BY <4>2, FiniteSession
      <4>4. IsFiniteSet(exch \ {w}) /\ Cardinality(exch \ {w}) = Cardinality(exch) - 1
        BY <4>1, <4>2, <4>3, FS_RemoveElement
      <4>5. Cardinality(exch \ {w}) \in Nat
        BY <4>4, FS_CardinalityType
      <4>6. Cardinality(live) + Cardinality(exch) = IF s \in ended THEN 0 ELSE 1
        BY <3>1, <4>2 DEF One
      <4>7. Cardinality(live) + Cardinality(exch \ {w}) = 0
        BY <4>3, <4>4, <4>5, <4>6
      <4> QED
        BY <2>2, <2>5, <2>6, <3>3, <4>2, <4>7 DEF One
    <3> QED
      BY <3>2, <3>3
  <2>10. ended' \subseteq Tokens' /\ raced' = raced
    BY <1>1, <2>2, <2>3, <2>4 DEF OneInv
  <2> QED
    BY <2>4, <2>7, <2>8, <2>9, <2>10 DEF OneInv
<1> QED
  BY <1>4, <1>5

LEMMA OneOfCreateRefreshToken ==
  ASSUME TypeInv, OneInv, NEW w \in Requests, CreateRefreshToken(w)
  PROVE  OneInv'
<1>1. PICK new, t : new = tokenRows + 1 /\ t = request[w].token
  OBVIOUS
<1>2. /\ Tokens' = Tokens \cup {new} /\ new \notin Tokens /\ new \in TokenIds
      /\ \A i \in Tokens : token'[i] = token[i]
      /\ token'[new].status = "live"
      /\ token'[new].session = IF t = 0 THEN new ELSE token[t].session
      /\ request' = [request EXCEPT ![w] = Idle]
  BY <1>1, NewToken
<1>3. request[w].step \in {"signIn", "exchange"} /\ UNCHANGED <<raced, ended>>
  BY DEF CreateRefreshToken, historyVars
<1>4. request'[w].step = "idle" /\ \A v \in Requests : v # w => request'[v] = request[v]
  BY <1>2 DEF Idle, TypeInv, TypeOK
<1>5. \A v \in Requests : request[v].step \in {"found", "exchange"} => request[v].token \in Tokens
  BY TokenOfRequest
<1>6. \A i \in Tokens : token[i].session \in Tokens
  BY IdFacts DEF TypeInv, TokensAreWhole, WholeToken, Tokens, TokenIds
<1>7. FoundIsLive'
  BY <1>2, <1>3, <1>4, <1>5 DEF OneInv, FoundIsLive
<1>8. OneHolder'
  <2>1. \A v \in Requests : \A i : Holds(request[v], i)' => Holds(request[v], i) /\ i \in Tokens
    BY <1>4, <1>5 DEF Holds
  <2> QED
    BY <1>2, <1>3, <2>1 DEF OneInv, OneHolder
<1>9. ended' \subseteq Tokens'
  BY <1>2, <1>3 DEF OneInv
<1>10. ASSUME NEW s \in SessionIds \ raced, s # token'[new].session,
              w \notin Exchanging(s)
       PROVE  One(s)'
  <2>1. LiveOf(s)' = LiveOf(s)
    BY <1>2, <1>10 DEF LiveOf
  <2>2. Exchanging(s)' = Exchanging(s)
    BY <1>2, <1>4, <1>5, <1>10 DEF Exchanging
  <2> QED
    BY <1>3, <2>1, <2>2 DEF One, OneInv
<1>11. ASSUME request[w].step = "signIn"
       PROVE  \A s \in SessionIds' \ raced' : One(s)'
  <2>1. WholeRequest(request[w])
    BY DEF TypeInv, RequestsAreWhole
  <2>2. t = 0 /\ token'[new].session = new
    BY <1>1, <1>2, <1>11, <2>1 DEF WholeRequest
  <2>3. SessionIds' = SessionIds \cup {new} /\ new \notin SessionIds
    BY <1>2, <1>6, <2>2 DEF SessionIds
  <2>4. One(new)'
    <3>1. LiveOf(new)' = {new}
      BY <1>2, <1>6, <2>2 DEF LiveOf
    <3>2. Exchanging(new)' = {}
      BY <1>2, <1>4, <1>5, <1>6 DEF Exchanging
    <3>3. new \notin ended'
      BY <1>2, <1>3 DEF OneInv
    <3>4. Cardinality({new}) = 1 /\ Cardinality({}) = 0
      BY FS_Singleton, FS_EmptySet
    <3>5. Cardinality(LiveOf(new)') = 1 /\ Cardinality(Exchanging(new)') = 0
      BY <3>1, <3>2, <3>4
    <3> QED
      BY <3>3, <3>5 DEF One
  <2>5. ASSUME NEW s \in SessionIds \ raced
        PROVE  One(s)'
    <3>1. w \notin Exchanging(s)
      BY <1>11 DEF Exchanging
    <3> QED
      BY <1>10, <2>2, <2>3, <3>1
  <2> QED
    BY <1>3, <2>3, <2>4, <2>5
<1>12. ASSUME request[w].step = "exchange"
       PROVE  \A s \in SessionIds' \ raced' : One(s)'
  <2>1. t \in Tokens /\ t # 0 /\ token[t].session \in SessionIds
    BY <1>1, <1>12, TokenOfRequest DEF Tokens
  <2>2. token'[new].session = token[t].session
    BY <1>2, <2>1
  <2>3. SessionIds' = SessionIds
    BY <1>2, <2>1, <2>2 DEF SessionIds
  <2>4. ASSUME NEW s \in SessionIds \ raced, s = token[t].session
        PROVE  One(s)'
    <3>1. w \in Exchanging(s)
      BY <1>1, <1>12, <2>4 DEF Exchanging
    <3>2. LiveOf(s)' = LiveOf(s) \cup {new} /\ new \notin LiveOf(s)
      BY <1>2, <2>2, <2>4 DEF LiveOf
    <3>3. Exchanging(s)' = Exchanging(s) \ {w}
      BY <1>2, <1>4, <1>5 DEF Exchanging
    <3>4. PICK live, exch : live = LiveOf(s) /\ exch = Exchanging(s)
      OBVIOUS
    <3>5. /\ IsFiniteSet(live) /\ IsFiniteSet(exch)
          /\ Cardinality(live) \in Nat /\ Cardinality(exch) \in Nat
      BY <3>4, FiniteSession
    <3>6. Cardinality(live \cup {new}) = Cardinality(live) + 1
      BY <3>2, <3>4, <3>5, FS_AddElement
    <3>7. Cardinality(exch \ {w}) = Cardinality(exch) - 1
      BY <3>1, <3>4, <3>5, FS_RemoveElement
    <3>8. Cardinality(live \cup {new}) + Cardinality(exch \ {w})
            = Cardinality(live) + Cardinality(exch)
      BY <3>5, <3>6, <3>7
    <3>9. One(s)
      BY <2>4 DEF OneInv
    <3> QED
      BY <1>3, <3>2, <3>3, <3>4, <3>8, <3>9 DEF One
  <2>5. ASSUME NEW s \in SessionIds \ raced, s # token[t].session
        PROVE  One(s)'
    <3>1. w \notin Exchanging(s)
      BY <1>1, <2>5 DEF Exchanging
    <3> QED
      BY <1>10, <2>2, <2>5, <3>1
  <2> QED
    BY <1>3, <2>3, <2>4, <2>5
<1>13. \A s \in SessionIds' \ raced' : One(s)'
  BY <1>3, <1>11, <1>12
<1> QED
  BY <1>7, <1>8, <1>9, <1>13 DEF OneInv

\* The steps that find no token, exchange none and delete none.
LEMMA QuietSteps ==
  ASSUME TypeInv, NEW w \in Requests,
         \/ \E dto \in SendAuthCodeDto : FindUser(w, dto)
         \/ CreateAuthCode(w)
         \/ \E dto \in VerifyAuthCodeDto : FindAuthCode(w, dto)
         \/ UseAuthCode(w)
         \/ \E dto \in LoginDto : Login(w, dto)
         \/ \E dto \in RefreshTokensDto : AcceptRefresh(w, dto)
         \/ RefuseRefresh(w)
  PROVE  Quiet
<1>1. UNCHANGED <<tokenRows, token, raced, ended>>
  BY DEF FindUser, CreateAuthCode, FindAuthCode, UseAuthCode, Login, AcceptRefresh,
         RefuseRefresh, tableVars, historyVars
<1>2. request[w] \in Request /\ request \in [Requests -> Request]
  BY DEF TypeInv, TypeOK
<1>3. /\ request[w].step \notin {"found", "exchange"}
      /\ request'[w].step \notin {"found", "exchange"}
      /\ \A v \in Requests : v # w => request'[v] = request[v]
  <2>1. ASSUME NEW dto \in SendAuthCodeDto, FindUser(w, dto)
        PROVE  /\ request[w] = Idle /\ request'[w].step = "send"
               /\ \A v \in Requests : v # w => request'[v] = request[v]
    <3> DEFINE send == [Idle EXCEPT !.step = "send", !.phone = dto.phone,
                                    !.provider = dto.provider]
    <3>1. PICK q : /\ request[w] = Idle /\ request' = [request EXCEPT ![w] = q]
                   /\ \/ \E u \in UsersOf(dto.phone) : q = [send EXCEPT !.account = u]
                      \/ q = send
      BY <2>1 DEF FindUser, Begin
    <3>2. q.step = "send"
      BY <3>1 DEF Idle
    <3> QED
      BY <1>2, <3>1, <3>2
  <2>2. ASSUME NEW dto \in VerifyAuthCodeDto, FindAuthCode(w, dto)
        PROVE  /\ request[w] = Idle /\ request'[w].step = "use"
               /\ \A v \in Requests : v # w => request'[v] = request[v]
    BY <1>2, <2>2 DEF FindAuthCode, Begin, Idle
  <2>3. ASSUME NEW dto \in LoginDto, Login(w, dto)
        PROVE  /\ request[w] = Idle /\ request'[w].step = "signIn"
               /\ \A v \in Requests : v # w => request'[v] = request[v]
    BY <1>2, <2>3 DEF Login, Begin, Idle
  <2>4. ASSUME NEW dto \in RefreshTokensDto, AcceptRefresh(w, dto)
        PROVE  /\ request[w] = Idle /\ request'[w].step = "refresh"
               /\ \A v \in Requests : v # w => request'[v] = request[v]
    BY <1>2, <2>4 DEF AcceptRefresh, Begin, Idle
  <2>5. CASE CreateAuthCode(w) \/ RefuseRefresh(w)
    <3>1. request' = [request EXCEPT ![w] = Idle] /\ request[w].step \in {"send", "refresh"}
      BY <2>5 DEF CreateAuthCode, RefuseRefresh, End
    <3>2. Idle.step = "idle"
      BY DEF Idle
    <3> QED
      BY <1>2, <3>1, <3>2
  <2>6. CASE UseAuthCode(w)
    BY <1>2, <2>6 DEF UseAuthCode, Continue, Request
  <2>7. Idle.step = "idle"
    BY DEF Idle
  <2> QED
    BY <2>1, <2>2, <2>3, <2>4, <2>5, <2>6, <2>7
<1> QED
  BY <1>1, <1>3 DEF Quiet

LEMMA OneNext ==
  ASSUME TypeInv, OneInv, [Next]_vars
  PROVE  OneInv'
<1>1. TypeInv'
  BY TypeNext
<1>2. ASSUME NEW w \in Requests, RequestStep(w)
      PROVE  OneInv'
  <2>1. Grows
    BY <1>2, TypeRequestStep
  <2>2. CASE \/ FindToken(w) \/ DeleteToken(w) \/ CreateRefreshToken(w) \/ FailRequest(w)
             \/ \E t \in TokenIds : Logout(w, t)
    BY <1>1, <2>1, <2>2, OneOfFindToken, OneOfDeleteToken, OneOfCreateRefreshToken,
       OneOfFailRequest, OneOfLogout
  <2> QED
    BY <1>1, <1>2, <2>1, <2>2, QuietSteps, OneOfQuiet DEF RequestStep
<1>3. CASE Expiry
  <2>1. Grows /\ Quiet
    BY <1>3, WhatExpires DEF Quiet
  <2> QED
    BY <1>1, <2>1, OneOfQuiet
<1>4. CASE UNCHANGED vars
  <2>1. UNCHANGED <<tokenRows, token, request, raced, ended>>
    BY <1>4 DEF vars, tableVars, historyVars
  <2>2. Grows
    BY <1>4, IdFacts DEF Grows, TypeInv, vars, tableVars
  <2> QED
    BY <1>1, <2>1, <2>2, OneOfQuiet DEF Quiet
<1> QED
  BY <1>2, <1>3, <1>4, NextSteps

LEMMA OneInit == Init => OneInv
<1> SUFFICES ASSUME Init PROVE OneInv
  OBVIOUS
<1>1. Tokens = {} /\ SessionIds = {} /\ ended = {}
  BY DEF Init, Tokens, SessionIds
<1>2. \A w \in Requests : request[w].step = "idle"
  BY DEF Init, Idle
<1> QED
  BY <1>1, <1>2 DEF OneInv, FoundIsLive, OneHolder

\* Refreshing deletes the old token and then creates the new one: as long as no two
\* requests have found the same token, a session has one of the two, or neither when
\* it has been logged out or the refresh has failed between the statements.
THEOREM TokenOfSession == Spec => []OneTokenPerSession
<1>1. Init => TypeInv /\ OneInv
  BY TypeInit, OneInit
<1>2. TypeInv /\ OneInv /\ [Next]_vars => (TypeInv /\ OneInv)'
  BY TypeNext, OneNext
<1>3. OneInv => OneTokenPerSession
  BY DEF OneInv, OneTokenPerSession, One, SessionIds, LiveOf, Exchanging
<1> QED
  BY <1>1, <1>2, <1>3, PTL DEF Spec
=============================================================================
