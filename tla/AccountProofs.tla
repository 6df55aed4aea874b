--------------------------- MODULE AccountProofs ----------------------------
(***************************************************************************)
(* The properties of Accounts, for any number of users, requests, rows and *)
(* failing calls.  A type invariant with what a request at each of its     *)
(* steps holds comes first; each property then has an invariant of its     *)
(* own, which counts the requests that are on their way to a write.        *)
(***************************************************************************)
EXTENDS Accounts, FiniteSetTheorems, TLAPS

-----------------------------------------------------------------------------
(* What a request holds *)

SessionsOf(q) ==
    /\ q.pc \in {"countWrong", "resetPin"} => q.op \in {"pinLogin", "verifyPin"}
    /\ q.pc = "dropSessions" => q.op \in {"login", "pinLogin", "biometricLogin", "reset"}
    /\ q.pc \in {"createSession", "findDevice"} =>
         q.op \in {"login", "pinLogin", "biometricLogin"}
    /\ q.pc \in {"findSession", "saveSession"} => q.id \in SessionId
    /\ q.pc = "markChallenge" => q.op = "biometricLogin"
    /\ q.op = "biometricLogin" /\ q.pc \in {"markChallenge", "dropSessions", "createSession"}
         => q.id \in ChallengeId
    /\ q.pc \in {"findDevice", "takeDevice", "insertDevice"} => q.device \in Devices
    /\ q.pc \in {"takeDevice", "dropDevice"} => q.id \in TokenId
    /\ q.pc = "dropDevice" => q.op \in {"register", "removeDevice"}
    /\ q.pc = "dropDevice" /\ q.op = "register" => q.device \in Devices

ProfileOf(q) ==
    /\ q.pc \in {"findEmail", "insertUser"} => q.op \in {"signUp", "createUser"}
    /\ q.pc \in {"loadUser", "saveUser"} =>
         q.op \in {"reset", "updatePassword", "updateUser", "withdraw"}
    /\ q.pc = "markUsed" => q.op \in {"signUp", "reset"}
    /\ q.pc = "markUsed" /\ q.op = "reset" => q.user \in Users
    /\ q.op \in {"signUp", "reset"} => q.id \in VerificationId
    /\ q.pc = "saveUser" => q.row.state # "NONE"
    /\ q.pc \in {"loadSecurity", "saveSecurity"} => q.op \in {"updatePin", "setBiometric"}
    /\ q.pc = "saveSecurity" => q.sec.exists /\ (q.op = "updatePin" => q.sec.failed = 0)
    /\ q.pc \in {"findConsent", "writeConsent", "commitConsent"} => q.n \in 1..Len(Consents)

WithoutUser == {"idle", "insertVerification", "findEmail", "insertUser", "markUsed"}

RequestOK(q) ==
    /\ q.pc \notin WithoutUser => q.user \in Users
    /\ SessionsOf(q) /\ ProfileOf(q)

RequestsOK ==
    /\ req \in [Requests -> Request]
    /\ \A r \in Requests : RequestOK(req[r])
    /\ \A r \in Requests : ~Idle(r) => Op(r) \in ops

TypeInv == TypeOK /\ RequestsOK

-----------------------------------------------------------------------------
(* Types *)

LEMMA IdleRequestTyped ==
    IdleRequest \in Request /\ RequestOK(IdleRequest) /\ IdleRequest.pc = "idle"
<1>1. 0 \in 0..Len(Consents)
  BY AccountAssumption
<1>2. IdleRequest \in Request
  BY <1>1 DEF IdleRequest, Request, NoUserRow, NoSecurity, UserRow, SecurityRow, RequestPc,
              Id, NoId
<1> QED
  BY <1>2 DEF IdleRequest, RequestOK, SessionsOf, ProfileOf, WithoutUser

LEMMA MovedTyped ==
    ASSUME NEW q \in Request, NEW pc \in RequestPc
    PROVE  LET m == [q EXCEPT !.pc = pc] IN
           /\ m \in Request /\ m.pc = pc /\ m.op = q.op /\ m.user = q.user /\ m.id = q.id
           /\ m.email = q.email /\ m.secret = q.secret /\ m.device = q.device
           /\ m.row = q.row /\ m.sec = q.sec /\ m.n = q.n /\ m.given = q.given
           /\ m.empty = q.empty
BY DEF Request

LEMMA BegunTyped ==
    ASSUME NEW op \in AllOps, NEW pc \in RequestPc, NEW u \in Users \cup {NoUser}
    PROVE  LET b == Begun(op, pc, u) IN
           /\ b \in Request /\ b.op = op /\ b.pc = pc /\ b.user = u /\ b.id = NoId
           /\ b.device = NoDevice /\ b.n = 0 /\ b.email = NoEmail
BY IdleRequestTyped DEF Begun, IdleRequest, Request

(* One slot changes, and what the request holds there is as it should be.  *)
LEMMA RequestStep ==
    ASSUME TypeInv, NEW r \in Requests, NEW q \in Request, RequestOK(q),
           q.pc # "idle" => q.op \in ops,
           req' = [req EXCEPT ![r] = q], ops' = ops
    PROVE  RequestsOK'
<1>1. req' \in [Requests -> Request]
  BY DEF TypeInv, RequestsOK
<1>2. \A x \in Requests : req'[x] = IF x = r THEN q ELSE req[x]
  BY DEF TypeInv, RequestsOK
<1> HIDE DEF RequestOK
<1>3. \A x \in Requests : RequestOK(req'[x])
  BY <1>2 DEF TypeInv, RequestsOK
<1>4. \A x \in Requests : ~(req'[x].pc = "idle") => req'[x].op \in ops'
  BY <1>2 DEF TypeInv, RequestsOK, Idle, Op
<1> QED
  BY <1>1, <1>3, <1>4 DEF RequestsOK, Idle, Op, RequestOK, SessionsOf, ProfileOf

LEMMA FinishedStep ==
    ASSUME TypeInv, NEW r \in Requests, req' = Finished(r), ops' = ops
    PROVE  RequestsOK'
<1>1. req' = [req EXCEPT ![r] = IdleRequest]
  BY DEF Finished
<1> QED
  BY <1>1, RequestStep, IdleRequestTyped

LEMMA MovedStep ==
    ASSUME TypeInv, NEW r \in Requests, NEW pc \in RequestPc, pc # "idle", ~Idle(r),
           RequestOK([req[r] EXCEPT !.pc = pc]), req' = Moved(r, pc), ops' = ops
    PROVE  RequestsOK'
<1> DEFINE m == [req[r] EXCEPT !.pc = pc]
<1>1. req' = [req EXCEPT ![r] = m]
  BY DEF Moved, TypeInv, RequestsOK, Request
<1>2. m \in Request /\ m.op = req[r].op
  BY MovedTyped DEF TypeInv, RequestsOK
<1>3. m.op \in ops
  BY <1>2 DEF TypeInv, RequestsOK, Op
<1> HIDE DEF m
<1> QED
  BY <1>1, <1>2, <1>3, RequestStep DEF m

LEMMA OpsKnown == ops \in Scenarios => ops \subseteq AllOps
BY AccountAssumption

LEMMA SessionRequestTyped ==
    ASSUME TypeInv, NEW r \in Requests, SessionRequest(r)
    PROVE  RequestsOK'
<1> USE DEF RequestOK, SessionsOf, ProfileOf, WithoutUser, Begun
<1>i. IdleRequest \in Request
  BY IdleRequestTyped
<1>j. /\ NoId \in Id /\ 0 \in 0..Len(Consents)
      /\ ChallengeId \cup SessionId \cup TokenId \cup VerificationId \subseteq Id
  BY AccountAssumption DEF Id
<1>t. TypeOK
  BY DEF TypeInv
<1>1. ASSUME NEW e \in Emails, NEW p \in Secrets, NEW d \in Devices \cup {NoDevice},
             StartLogin(r, e, p, d)
      PROVE  RequestsOK'
  <2>1. PICK u \in Users :
          req' = [req EXCEPT ![r] = [Begun("login", "dropSessions", u) EXCEPT !.device = d]]
    BY <1>1 DEF StartLogin, UsersLike
  <2>2. "login" \in ops /\ ops' = ops
    BY <1>1 DEF StartLogin, May, Guarded, UsersLike
  <2> DEFINE q == [Begun("login", "dropSessions", u) EXCEPT !.device = d]
  <2>3. /\ q \in Request /\ q.op = "login" /\ q.pc = "dropSessions" /\ q.user = u
        /\ q.device = d
    BY <1>i, <1>j, <2>2 DEF Request, IdleRequest, AllOps, RequestPc
  <2> HIDE DEF q
  <2>4. RequestOK(q)
    BY <1>j, <2>2, <2>3
  <2> QED
    BY <2>1, <2>2, <2>3, <2>4, RequestStep DEF q
<1>2. ASSUME NEW e \in Emails, NEW p \in Secrets,
             StartPinLogin(r, e, p)
      PROVE  RequestsOK'
  <2>1. PICK u \in Users, pc \in {"resetPin", "countWrong"} :
          req' = [req EXCEPT ![r] = Begun("pinLogin", pc, u)]
    BY <1>2 DEF StartPinLogin, UsersLike, AfterPin
  <2>2. "pinLogin" \in ops /\ ops' = ops
    BY <1>2 DEF StartPinLogin, May, Guarded
  <2> DEFINE q == Begun("pinLogin", pc, u)
  <2>3. q \in Request /\ q.op = "pinLogin" /\ q.pc = pc /\ q.user = u
    BY <1>i, <1>j DEF Request, IdleRequest, AllOps, RequestPc
  <2> HIDE DEF q
  <2>4. RequestOK(q)
    BY <1>j, <2>3
  <2> QED
    BY <2>1, <2>2, <2>3, <2>4, RequestStep DEF q
<1>3. ASSUME NEW u \in Users,
             StartRefresh(r, u)
      PROVE  RequestsOK'
  <2>1. PICK s \in SessionId :
          req' = [req EXCEPT ![r] = [Begun("refresh", "findSession", u) EXCEPT !.id = s]]
    BY <1>3 DEF StartRefresh, LiveSessions
  <2>2. "refresh" \in ops /\ ops' = ops
    BY <1>3 DEF StartRefresh, May, Guarded, LiveSessions
  <2> DEFINE q == [Begun("refresh", "findSession", u) EXCEPT !.id = s]
  <2>3. /\ q \in Request /\ q.op = "refresh" /\ q.pc = "findSession" /\ q.user = u
        /\ q.id = s
    BY <1>i, <1>j, <2>2 DEF Request, IdleRequest, AllOps, RequestPc
  <2> HIDE DEF q
  <2>4. RequestOK(q)
    BY <1>j, <2>2, <2>3
  <2> QED
    BY <2>1, <2>2, <2>3, <2>4, RequestStep DEF q
<1>4. ASSUME NEW u \in Users, NEW p \in Secrets,
             StartVerifyPin(r, u, p)
      PROVE  RequestsOK'
  <2>1. PICK pc \in {"resetPin", "countWrong"} :
          req' = [req EXCEPT ![r] = Begun("verifyPin", pc, u)]
    BY <1>4 DEF StartVerifyPin, AfterPin
  <2>2. "verifyPin" \in ops /\ ops' = ops
    BY <1>4 DEF StartVerifyPin, May, Guarded
  <2> DEFINE q == Begun("verifyPin", pc, u)
  <2>3. q \in Request /\ q.op = "verifyPin" /\ q.pc = pc /\ q.user = u
    BY <1>i, <1>j DEF Request, IdleRequest, AllOps, RequestPc
  <2> HIDE DEF q
  <2>4. RequestOK(q)
    BY <1>j, <2>3
  <2> QED
    BY <2>1, <2>2, <2>3, <2>4, RequestStep DEF q
<1>5. ASSUME NEW e \in Emails,
             StartChallenge(r, e)
      PROVE  RequestsOK'
  <2>1. PICK u \in Users :
          req' = [req EXCEPT ![r] = Begun("challenge", "insertChallenge", u)]
    BY <1>5 DEF StartChallenge, UsersLike
  <2>2. "challenge" \in ops /\ ops' = ops
    BY <1>5 DEF StartChallenge, May, Guarded, UsersLike
  <2> DEFINE q == Begun("challenge", "insertChallenge", u)
  <2>3. /\ q \in Request /\ q.op = "challenge" /\ q.pc = "insertChallenge" /\ q.user = u
    BY <1>i, <1>j, <2>2 DEF Request, IdleRequest, AllOps, RequestPc
  <2> HIDE DEF q
  <2>4. RequestOK(q)
    BY <1>j, <2>2, <2>3
  <2> QED
    BY <2>1, <2>2, <2>3, <2>4, RequestStep DEF q
<1>6. ASSUME NEW c \in ChallengeId,
             StartBiometricLogin(r, c)
      PROVE  RequestsOK'
  <2>1. req' = [req EXCEPT ![r] = [Begun("biometricLogin", "markChallenge", challenge[c].user) EXCEPT !.id = c]]
    BY <1>6 DEF StartBiometricLogin
  <2>2. "biometricLogin" \in ops /\ ops' = ops /\ challenge[c].user \in Users
    BY <1>6, <1>t DEF StartBiometricLogin, May, Guarded, TypeOK, ChallengeRow
  <2> DEFINE q == [Begun("biometricLogin", "markChallenge", challenge[c].user) EXCEPT !.id = c]
  <2>3. /\ q \in Request /\ q.op = "biometricLogin" /\ q.pc = "markChallenge" /\ q.user = challenge[c].user
        /\ q.id = c
    BY <1>i, <1>j, <2>2 DEF Request, IdleRequest, AllOps, RequestPc
  <2> HIDE DEF q
  <2>4. RequestOK(q)
    BY <1>j, <2>2, <2>3
  <2> QED
    BY <2>1, <2>2, <2>3, <2>4, RequestStep DEF q
<1>7. ASSUME NEW u \in Users, NEW d \in Devices, StartRegister(r, u, d)
      PROVE  RequestsOK'
  <2>0. "register" \in ops /\ ops' = ops
    BY <1>7 DEF StartRegister, Guarded, May
  <2>1. CASE req' = [req EXCEPT ![r] = [Begun("register", "insertDevice", u)
                                          EXCEPT !.device = d]]
    <3> DEFINE q == [Begun("register", "insertDevice", u) EXCEPT !.device = d]
    <3>1. /\ q \in Request /\ q.op = "register" /\ q.pc = "insertDevice" /\ q.user = u
          /\ q.device = d
      BY <1>i, <1>j DEF Request, IdleRequest, AllOps, RequestPc
    <3> HIDE DEF q
    <3>2. RequestOK(q)
      BY <1>j, <3>1
    <3> QED
      BY <2>0, <2>1, <3>1, <3>2, RequestStep DEF q
  <2>2. ASSUME NEW t \in TokenId,
               req' = [req EXCEPT ![r] = [Begun("register", "dropDevice", u)
                                            EXCEPT !.device = d, !.id = t]]
        PROVE  RequestsOK'
    <3> DEFINE q == [Begun("register", "dropDevice", u) EXCEPT !.device = d, !.id = t]
    <3>1. /\ q \in Request /\ q.op = "register" /\ q.pc = "dropDevice" /\ q.user = u
          /\ q.device = d /\ q.id = t
      BY <1>i, <1>j DEF Request, IdleRequest, AllOps, RequestPc
    <3> HIDE DEF q
    <3>2. RequestOK(q)
      BY <1>j, <3>1
    <3> QED
      BY <2>0, <2>2, <3>1, <3>2, RequestStep DEF q
  <2> QED
    BY <1>7, <2>1, <2>2 DEF StartRegister, RowsOfDevice
<1>8. ASSUME NEW u \in Users, NEW t \in TokenId,
             StartRemoveDevice(r, u, t)
      PROVE  RequestsOK'
  <2>1. req' = [req EXCEPT ![r] = [Begun("removeDevice", "dropDevice", u) EXCEPT !.id = t]]
    BY <1>8 DEF StartRemoveDevice
  <2>2. "removeDevice" \in ops /\ ops' = ops
    BY <1>8 DEF StartRemoveDevice, May, Guarded
  <2> DEFINE q == [Begun("removeDevice", "dropDevice", u) EXCEPT !.id = t]
  <2>3. /\ q \in Request /\ q.op = "removeDevice" /\ q.pc = "dropDevice" /\ q.user = u
        /\ q.id = t
    BY <1>i, <1>j, <2>2 DEF Request, IdleRequest, AllOps, RequestPc
  <2> HIDE DEF q
  <2>4. RequestOK(q)
    BY <1>j, <2>2, <2>3
  <2> QED
    BY <2>1, <2>2, <2>3, <2>4, RequestStep DEF q
<1> QED
  BY <1>1, <1>2, <1>3, <1>4, <1>5, <1>6, <1>7, <1>8 DEF SessionRequest

LEMMA SomeConsents ==
    /\ Len(Consents) \in Nat /\ 1 \in 1..Len(Consents)
    /\ \A i \in 1..Len(Consents) : i \in 0..Len(Consents)
BY AccountAssumption

LEMMA ProfileRequestTyped ==
    ASSUME TypeInv, NEW r \in Requests, ProfileRequest(r)
    PROVE  RequestsOK'
<1> USE DEF RequestOK, SessionsOf, ProfileOf, WithoutUser, Begun
<1>i. IdleRequest \in Request
  BY IdleRequestTyped
<1>j. /\ NoId \in Id /\ 0 \in 0..Len(Consents)
      /\ ChallengeId \cup SessionId \cup TokenId \cup VerificationId \subseteq Id
  BY AccountAssumption DEF Id
<1>c. /\ Len(Consents) \in Nat /\ 1 \in 1..Len(Consents)
      /\ \A i \in 1..Len(Consents) : i \in 0..Len(Consents)
  BY SomeConsents
<1>1. ASSUME NEW e \in Emails, NEW purpose \in Purpose,
             StartSend(r, e, purpose)
      PROVE  RequestsOK'
  <2>1. PICK g \in BOOLEAN :
          req' = [req EXCEPT ![r] = [Begun("send", "insertVerification", NoUser) EXCEPT !.email = e, !.given = g]]
    BY <1>1 DEF StartSend
  <2>2. "send" \in ops /\ ops' = ops
    BY <1>1 DEF StartSend, May, Guarded
  <2> DEFINE q == [Begun("send", "insertVerification", NoUser) EXCEPT !.email = e, !.given = g]
  <2>3. q \in Request /\ q.op = "send" /\ q.pc = "insertVerification"
    BY <1>i, <1>j DEF Request, IdleRequest, AllOps, RequestPc
  <2> HIDE DEF q
  <2>4. RequestOK(q)
    BY <1>j, <2>3
  <2> QED
    BY <2>1, <2>2, <2>3, <2>4, RequestStep DEF q
<1>2. ASSUME NEW v \in VerificationId, NEW e \in Emails, NEW p \in Secrets,
             StartSignUp(r, v, e, p)
      PROVE  RequestsOK'
  <2>1. req' = [req EXCEPT ![r] = [Begun("signUp", "findEmail", NoUser) EXCEPT !.id = v, !.email = e, !.secret = p]]
    BY <1>2 DEF StartSignUp
  <2>2. "signUp" \in ops /\ ops' = ops
    BY <1>2 DEF StartSignUp, May, Guarded
  <2> DEFINE q == [Begun("signUp", "findEmail", NoUser) EXCEPT !.id = v, !.email = e, !.secret = p]
  <2>3. q \in Request /\ q.op = "signUp" /\ q.pc = "findEmail" /\ q.id = v
    BY <1>i, <1>j DEF Request, IdleRequest, AllOps, RequestPc
  <2> HIDE DEF q
  <2>4. RequestOK(q)
    BY <1>j, <2>3
  <2> QED
    BY <2>1, <2>2, <2>3, <2>4, RequestStep DEF q
<1>3. ASSUME NEW e \in Emails, NEW p \in Secrets,
             StartCreateUser(r, e, p)
      PROVE  RequestsOK'
  <2>1. req' = [req EXCEPT ![r] = [Begun("createUser", "findEmail", NoUser) EXCEPT !.email = e, !.secret = p]]
    BY <1>3 DEF StartCreateUser
  <2>2. "createUser" \in ops /\ ops' = ops
    BY <1>3 DEF StartCreateUser, May, Guarded
  <2> DEFINE q == [Begun("createUser", "findEmail", NoUser) EXCEPT !.email = e, !.secret = p]
  <2>3. /\ q \in Request /\ q.op = "createUser" /\ q.pc = "findEmail" /\ q.user = NoUser
    BY <1>i, <1>j, <2>2 DEF Request, IdleRequest, AllOps, RequestPc
  <2> HIDE DEF q
  <2>4. RequestOK(q)
    BY <1>j, <2>2, <2>3
  <2> QED
    BY <2>1, <2>2, <2>3, <2>4, RequestStep DEF q
<1>4. ASSUME NEW v \in VerificationId, NEW p \in Secrets,
             StartReset(r, v, p)
      PROVE  RequestsOK'
  <2>1. PICK u \in Users :
          req' = [req EXCEPT ![r] = [Begun("reset", "loadUser", u) EXCEPT !.id = v, !.secret = p]]
    BY <1>4 DEF StartReset, UsersLike
  <2>2. "reset" \in ops /\ ops' = ops
    BY <1>4 DEF StartReset, May, Guarded, UsersLike
  <2> DEFINE q == [Begun("reset", "loadUser", u) EXCEPT !.id = v, !.secret = p]
  <2>3. /\ q \in Request /\ q.op = "reset" /\ q.pc = "loadUser" /\ q.user = u
        /\ q.id = v
    BY <1>i, <1>j, <2>2 DEF Request, IdleRequest, AllOps, RequestPc
  <2> HIDE DEF q
  <2>4. RequestOK(q)
    BY <1>j, <2>2, <2>3
  <2> QED
    BY <2>1, <2>2, <2>3, <2>4, RequestStep DEF q
<1>5. ASSUME NEW u \in Users, NEW p \in Secrets,
             StartUpdatePassword(r, u, p)
      PROVE  RequestsOK'
  <2>1. req' = [req EXCEPT ![r] = [Begun("updatePassword", "loadUser", u) EXCEPT !.secret = p]]
    BY <1>5 DEF StartUpdatePassword
  <2>2. "updatePassword" \in ops /\ ops' = ops
    BY <1>5 DEF StartUpdatePassword, May, Guarded
  <2> DEFINE q == [Begun("updatePassword", "loadUser", u) EXCEPT !.secret = p]
  <2>3. /\ q \in Request /\ q.op = "updatePassword" /\ q.pc = "loadUser" /\ q.user = u
    BY <1>i, <1>j, <2>2 DEF Request, IdleRequest, AllOps, RequestPc
  <2> HIDE DEF q
  <2>4. RequestOK(q)
    BY <1>j, <2>2, <2>3
  <2> QED
    BY <2>1, <2>2, <2>3, <2>4, RequestStep DEF q
<1>6. ASSUME NEW u \in Users, NEW p \in Secrets,
             StartUpdatePin(r, u, p)
      PROVE  RequestsOK'
  <2>1. req' = [req EXCEPT ![r] = [Begun("updatePin", "loadSecurity", u) EXCEPT !.secret = p]]
    BY <1>6 DEF StartUpdatePin
  <2>2. "updatePin" \in ops /\ ops' = ops
    BY <1>6 DEF StartUpdatePin, May, Guarded
  <2> DEFINE q == [Begun("updatePin", "loadSecurity", u) EXCEPT !.secret = p]
  <2>3. /\ q \in Request /\ q.op = "updatePin" /\ q.pc = "loadSecurity" /\ q.user = u
    BY <1>i, <1>j, <2>2 DEF Request, IdleRequest, AllOps, RequestPc
  <2> HIDE DEF q
  <2>4. RequestOK(q)
    BY <1>j, <2>2, <2>3
  <2> QED
    BY <2>1, <2>2, <2>3, <2>4, RequestStep DEF q
<1>7. ASSUME NEW u \in Users, NEW e \in Emails \cup {NoEmail},
             StartUpdateUser(r, u, e)
      PROVE  RequestsOK'
  <2>1. req' = [req EXCEPT ![r] = [Begun("updateUser", "loadUser", u) EXCEPT !.email = e]]
    BY <1>7 DEF StartUpdateUser
  <2>2. "updateUser" \in ops /\ ops' = ops
    BY <1>7 DEF StartUpdateUser, May, Guarded
  <2> DEFINE q == [Begun("updateUser", "loadUser", u) EXCEPT !.email = e]
  <2>3. /\ q \in Request /\ q.op = "updateUser" /\ q.pc = "loadUser" /\ q.user = u
    BY <1>i, <1>j, <2>2 DEF Request, IdleRequest, AllOps, RequestPc
  <2> HIDE DEF q
  <2>4. RequestOK(q)
    BY <1>j, <2>2, <2>3
  <2> QED
    BY <2>1, <2>2, <2>3, <2>4, RequestStep DEF q
<1>8. ASSUME NEW u \in Users,
             StartWithdraw(r, u)
      PROVE  RequestsOK'
  <2>1. req' = [req EXCEPT ![r] = Begun("withdraw", "loadUser", u)]
    BY <1>8 DEF StartWithdraw
  <2>2. "withdraw" \in ops /\ ops' = ops
    BY <1>8 DEF StartWithdraw, May, Guarded
  <2> DEFINE q == Begun("withdraw", "loadUser", u)
  <2>3. /\ q \in Request /\ q.op = "withdraw" /\ q.pc = "loadUser" /\ q.user = u
    BY <1>i, <1>j, <2>2 DEF Request, IdleRequest, AllOps, RequestPc
  <2> HIDE DEF q
  <2>4. RequestOK(q)
    BY <1>j, <2>2, <2>3
  <2> QED
    BY <2>1, <2>2, <2>3, <2>4, RequestStep DEF q
<1>9. ASSUME NEW u \in Users, NEW b \in BOOLEAN,
             StartSetBiometric(r, u, b)
      PROVE  RequestsOK'
  <2>1. req' = [req EXCEPT ![r] = [Begun("setBiometric", "loadSecurity", u) EXCEPT !.given = b]]
    BY <1>9 DEF StartSetBiometric
  <2>2. "setBiometric" \in ops /\ ops' = ops
    BY <1>9 DEF StartSetBiometric, May, Guarded
  <2> DEFINE q == [Begun("setBiometric", "loadSecurity", u) EXCEPT !.given = b]
  <2>3. q \in Request /\ q.op = "setBiometric" /\ q.pc = "loadSecurity" /\ q.user = u
    BY <1>i, <1>j DEF Request, IdleRequest, AllOps, RequestPc
  <2> HIDE DEF q
  <2>4. RequestOK(q)
    BY <1>j, <2>3
  <2> QED
    BY <2>1, <2>2, <2>3, <2>4, RequestStep DEF q
<1>10. ASSUME NEW u \in Users, NEW b \in BOOLEAN,
             StartSettings(r, u, b)
      PROVE  RequestsOK'
  <2>1. req' = [req EXCEPT ![r] = [Begun("settings", "saveSettings", u) EXCEPT !.given = b]]
    BY <1>10 DEF StartSettings
  <2>2. "settings" \in ops /\ ops' = ops
    BY <1>10 DEF StartSettings, May, Guarded
  <2> DEFINE q == [Begun("settings", "saveSettings", u) EXCEPT !.given = b]
  <2>3. /\ q \in Request /\ q.op = "settings" /\ q.pc = "saveSettings" /\ q.user = u
    BY <1>i, <1>j, <2>2 DEF Request, IdleRequest, AllOps, RequestPc
  <2> HIDE DEF q
  <2>4. RequestOK(q)
    BY <1>j, <2>2, <2>3
  <2> QED
    BY <2>1, <2>2, <2>3, <2>4, RequestStep DEF q
<1>11. ASSUME NEW u \in Users,
             StartGetConsents(r, u)
      PROVE  RequestsOK'
  <2>1. req' = [req EXCEPT ![r] = [Begun("getConsents", "findConsent", u) EXCEPT !.n = 1]]
    BY <1>11 DEF StartGetConsents
  <2>2. "getConsents" \in ops /\ ops' = ops
    BY <1>11 DEF StartGetConsents, May, Guarded
  <2> DEFINE q == [Begun("getConsents", "findConsent", u) EXCEPT !.n = 1]
  <2>3. q \in Request /\ q.op = "getConsents" /\ q.pc = "findConsent" /\ q.user = u /\ q.n = 1
    BY <1>i, <1>j, <1>c DEF Request, IdleRequest, AllOps, RequestPc
  <2> HIDE DEF q
  <2>4. RequestOK(q)
    BY <1>j, <1>c, <2>3
  <2> QED
    BY <2>1, <2>2, <2>3, <2>4, RequestStep DEF q
<1>12. ASSUME NEW u \in Users, NEW i \in 1..Len(Consents), NEW b \in BOOLEAN,
             StartUpdateConsent(r, u, i, b)
      PROVE  RequestsOK'
  <2>1. PICK g \in BOOLEAN :
          req' = [req EXCEPT ![r] = [Begun("updateConsent", "commitConsent", u) EXCEPT !.n = i, !.given = b, !.empty = g]]
    BY <1>12 DEF StartUpdateConsent, HasConsents
  <2>2. "updateConsent" \in ops /\ ops' = ops
    BY <1>12 DEF StartUpdateConsent, May, Guarded
  <2> DEFINE q == [Begun("updateConsent", "commitConsent", u) EXCEPT !.n = i, !.given = b, !.empty = g]
  <2> DEFINE o == [Begun("updateConsent", "commitConsent", u) EXCEPT !.given = b, !.empty = g]
  <2>o. o \in Request /\ o.op = "updateConsent" /\ o.pc = "commitConsent" /\ o.user = u
    BY <1>i, <1>j DEF Request, IdleRequest, AllOps, RequestPc
  <2>e. q = [o EXCEPT !.n = i]
    BY DEF IdleRequest
  <2>3. q \in Request /\ q.op = "updateConsent" /\ q.pc = "commitConsent" /\ q.user = u /\ q.n = i
    <3>1. i \in 0..Len(Consents)
      BY <1>c
    <3> HIDE DEF o, q
    <3> QED
      BY <2>o, <2>e, <3>1 DEF Request
  <2> HIDE DEF q
  <2>4. RequestOK(q)
    BY <1>j, <1>c, <2>3
  <2> QED
    BY <2>1, <2>2, <2>3, <2>4, RequestStep DEF q
<1> QED
  BY <1>1, <1>2, <1>3, <1>4, <1>5, <1>6, <1>7, <1>8, <1>9, <1>10, <1>11, <1>12
  DEF ProfileRequest

LEMMA SessionStepTyped ==
    ASSUME TypeInv, NEW r \in Requests, SessionStep(r)
    PROVE  RequestsOK'
<1> USE DEF At, Op
<1> DEFINE m(pc) == [req[r] EXCEPT !.pc = pc]
<1>1. req[r] \in Request /\ RequestOK(req[r])
  BY DEF TypeInv, RequestsOK
<1>2. ASSUME NEW pc \in RequestPc
      PROVE  /\ m(pc) \in Request /\ m(pc).pc = pc /\ m(pc).op = req[r].op
             /\ m(pc).user = req[r].user /\ m(pc).id = req[r].id
             /\ m(pc).device = req[r].device
  BY <1>1, MovedTyped
<1> HIDE DEF m
<1>3. CASE \/ CountWrong(r) \/ SaveSession(r) \/ InsertChallenge(r) \/ TakeDevice(r)
           \/ InsertDevice(r)
  BY <1>3, FinishedStep DEF CountWrong, SaveSession, InsertChallenge, TakeDevice, InsertDevice
<1>4. ASSUME NEW pc \in RequestPc \ WithoutUser, req' = Moved(r, pc), ops' = ops, ~Idle(r),
             req[r].user \in Users, SessionsOf(m(pc)), ProfileOf(m(pc))
      PROVE  RequestsOK'
  <2>1. RequestOK(m(pc)) /\ pc # "idle"
    BY <1>2, <1>4 DEF RequestOK, WithoutUser
  <2> QED
    BY <1>4, <2>1, MovedStep DEF m
<1>5. req[r].pc \notin WithoutUser => ~Idle(r) /\ req[r].user \in Users
  BY <1>1 DEF RequestOK, WithoutUser, Idle
<1>6. CASE ResetPin(r)
  <2>1. CASE Op(r) = "pinLogin"
    <3>1. SessionsOf(m("dropSessions")) /\ ProfileOf(m("dropSessions"))
      BY <1>1, <1>2, <2>1 DEF RequestOK, SessionsOf, ProfileOf, RequestPc
    <3> QED
      BY <1>4, <1>5, <1>6, <2>1, <3>1 DEF ResetPin, WithoutUser, RequestPc
  <2> QED
    BY <1>6, <2>1, FinishedStep DEF ResetPin
<1>7. CASE DropSessions(r)
  <2>1. CASE Op(r) # "reset"
    <3>1. SessionsOf(m("createSession")) /\ ProfileOf(m("createSession"))
      BY <1>1, <1>2, <1>7, <2>1 DEF RequestOK, SessionsOf, ProfileOf, RequestPc, DropSessions
    <3> QED
      BY <1>4, <1>5, <1>7, <2>1, <3>1 DEF DropSessions, WithoutUser, RequestPc
  <2> QED
    BY <1>7, <2>1, FinishedStep DEF DropSessions
<1>8. CASE CreateSession(r)
  <2>1. CASE req[r].device # NoDevice
    <3>0. req[r].device \in Devices
      BY <1>1, <2>1 DEF Request
    <3>1. SessionsOf(m("findDevice")) /\ ProfileOf(m("findDevice"))
      BY <1>1, <1>2, <1>8, <3>0
      DEF RequestOK, SessionsOf, ProfileOf, RequestPc, CreateSession
    <3> QED
      BY <1>4, <1>5, <1>8, <2>1, <3>1 DEF CreateSession, WithoutUser, RequestPc
  <2> QED
    BY <1>8, <2>1, FinishedStep DEF CreateSession
<1>9. CASE FindSession(r)
  <2>1. SessionsOf(m("saveSession")) /\ ProfileOf(m("saveSession"))
    BY <1>1, <1>2, <1>9 DEF RequestOK, SessionsOf, ProfileOf, RequestPc, FindSession
  <2> QED
    BY <1>4, <1>5, <1>9, <2>1, FinishedStep DEF FindSession, WithoutUser, RequestPc
<1>10. CASE MarkChallenge(r)
  <2>1. SessionsOf(m("dropSessions")) /\ ProfileOf(m("dropSessions"))
    BY <1>1, <1>2, <1>10 DEF RequestOK, SessionsOf, ProfileOf, RequestPc, MarkChallenge
  <2> QED
    BY <1>4, <1>5, <1>10, <2>1 DEF MarkChallenge, WithoutUser, RequestPc
<1>11. CASE FindDevice(r)
  <2>1. CASE req' = Moved(r, "insertDevice")
    <3>1. SessionsOf(m("insertDevice")) /\ ProfileOf(m("insertDevice"))
      BY <1>1, <1>2, <1>11 DEF RequestOK, SessionsOf, ProfileOf, RequestPc, FindDevice
    <3> QED
      BY <1>4, <1>5, <1>11, <2>1, <3>1 DEF FindDevice, WithoutUser, RequestPc
  <2>2. ASSUME NEW t \in TokenId, req' = [req EXCEPT ![r].pc = "takeDevice", ![r].id = t]
        PROVE  RequestsOK'
    <3> DEFINE q == [req[r] EXCEPT !.pc = "takeDevice", !.id = t]
    <3>1. req' = [req EXCEPT ![r] = q]
      BY <2>2 DEF TypeInv, RequestsOK, Request
    <3>2. q \in Request /\ q.pc = "takeDevice" /\ q.id = t /\ q.op = req[r].op
          /\ q.user = req[r].user /\ q.device = req[r].device
      <4>1. t \in Id
        BY DEF Id
      <4> QED
        BY <1>1, <4>1 DEF Request, RequestPc
    <3>3. req[r].op \in ops /\ ops' = ops
      BY <1>11 DEF FindDevice, TypeInv, RequestsOK, Idle
    <3> HIDE DEF q
    <3>4. RequestOK(q)
      BY <1>1, <1>11, <3>2 DEF RequestOK, SessionsOf, ProfileOf, FindDevice, WithoutUser
    <3> QED
      BY <3>1, <3>2, <3>3, <3>4, RequestStep
  <2> QED
    BY <1>11, <2>1, <2>2 DEF FindDevice, RowsOfDevice
<1>12. CASE DropDevice(r)
  <2>1. CASE Op(r) = "register"
    <3>1. SessionsOf(m("insertDevice")) /\ ProfileOf(m("insertDevice"))
      BY <1>1, <1>2, <1>12, <2>1 DEF RequestOK, SessionsOf, ProfileOf, RequestPc, DropDevice
    <3> QED
      BY <1>4, <1>5, <1>12, <2>1, <3>1 DEF DropDevice, WithoutUser, RequestPc
  <2> QED
    BY <1>12, <2>1, FinishedStep DEF DropDevice
<1> QED
  BY <1>3, <1>6, <1>7, <1>8, <1>9, <1>10, <1>11, <1>12 DEF SessionStep

LEMMA ChangedTyped ==
    ASSUME NEW r \in Requests, req[r] \in Request, NEW row \in UserRow, row.state = "ACTIVE"
    PROVE  Changed(r, row) \in UserRow /\ Changed(r, row).state # "NONE"
BY DEF Changed, Op, UserRow, Request

LEMMA ProfileStepTyped ==
    ASSUME TypeInv, NEW r \in Requests, ProfileStep(r)
    PROVE  RequestsOK'
<1> USE DEF At, Op, UserOf
<1> DEFINE m(pc) == [req[r] EXCEPT !.pc = pc]
<1>1. req[r] \in Request /\ RequestOK(req[r]) /\ (~Idle(r) => req[r].op \in ops)
  BY DEF TypeInv, RequestsOK
<1>2. ASSUME NEW pc \in RequestPc
      PROVE  /\ m(pc) \in Request /\ m(pc).pc = pc /\ m(pc).op = req[r].op
             /\ m(pc).user = req[r].user /\ m(pc).id = req[r].id
             /\ m(pc).device = req[r].device
  BY <1>1, MovedTyped
<1> HIDE DEF m
<1>3. CASE \/ InsertVerification(r) \/ InsertUserFails(r) \/ SaveUserFails(r)
           \/ SaveSecurity(r) \/ SaveSettings(r) \/ WriteConsentFails(r)
           \/ CommitConsent(r) \/ RollBackConsent(r)
  BY <1>3, FinishedStep
  DEF InsertVerification, InsertUserFails, SaveUserFails, SaveSecurity, SaveSettings,
      WriteConsentFails, CommitConsent, RollBackConsent
<1>4. ASSUME NEW pc \in RequestPc \ {"idle"}, req' = Moved(r, pc), ops' = ops, ~Idle(r),
             RequestOK(m(pc))
      PROVE  RequestsOK'
  BY <1>4, MovedStep DEF m
<1>5. CASE FindEmail(r)
  <2>1. RequestOK(m("insertUser"))
    BY <1>1, <1>2, <1>5
    DEF RequestOK, SessionsOf, ProfileOf, RequestPc, FindEmail, WithoutUser
  <2> QED
    BY <1>4, <1>5, <2>1, FinishedStep DEF FindEmail, RequestPc, Idle
<1>6. CASE InsertUser(r)
  <2>1. CASE Op(r) = "signUp"
    <3>1. RequestOK(m("markUsed"))
      BY <1>1, <1>2, <2>1 DEF RequestOK, SessionsOf, ProfileOf, RequestPc, WithoutUser
    <3> QED
      BY <1>4, <1>6, <2>1, <3>1 DEF InsertUser, RequestPc, Idle
  <2> QED
    BY <1>6, <2>1, FinishedStep DEF InsertUser
<1>7. CASE SaveUser(r)
  <2>1. CASE Op(r) = "reset"
    <3>1. RequestOK(m("markUsed"))
      BY <1>1, <1>2, <1>7, <2>1
      DEF RequestOK, SessionsOf, ProfileOf, RequestPc, WithoutUser, SaveUser
    <3> QED
      BY <1>4, <1>7, <2>1, <3>1 DEF SaveUser, RequestPc, Idle
  <2> QED
    BY <1>7, <2>1, FinishedStep DEF SaveUser
<1>8. CASE MarkUsed(r)
  <2>1. CASE Op(r) = "reset"
    <3>1. RequestOK(m("dropSessions"))
      BY <1>1, <1>2, <1>8, <2>1
      DEF RequestOK, SessionsOf, ProfileOf, RequestPc, WithoutUser, MarkUsed
    <3> QED
      BY <1>4, <1>8, <2>1, <3>1 DEF MarkUsed, RequestPc, Idle
  <2> QED
    BY <1>8, <2>1, FinishedStep DEF MarkUsed
<1>9. CASE LoadUser(r)
  <2>1. CASE Active(UserOf(r))
    <3> DEFINE row == Changed(r, user[UserOf(r)])
    <3> DEFINE q == [req[r] EXCEPT !.pc = "saveUser", !.row = row]
    <3>1. req' = [req EXCEPT ![r] = q] /\ ops' = ops /\ req[r].op \in ops
      BY <1>1, <1>9, <2>1 DEF LoadUser, TypeInv, RequestsOK, Request, Idle
    <3>2. UserOf(r) \in Users /\ user[UserOf(r)] \in UserRow
      BY <1>1, <1>9 DEF LoadUser, RequestOK, WithoutUser, TypeInv, TypeOK
    <3>3. row \in UserRow /\ row.state # "NONE"
      BY <1>1, <2>1, <3>2, ChangedTyped DEF Active
    <3> HIDE DEF row
    <3>4. /\ q \in Request /\ q.pc = "saveUser" /\ q.row = row /\ q.op = req[r].op
          /\ q.id = req[r].id /\ q.user = req[r].user
      BY <1>1, <3>3 DEF Request, RequestPc
    <3> HIDE DEF q
    <3>5. RequestOK(q)
      BY <1>1, <1>9, <3>3, <3>4 DEF RequestOK, SessionsOf, ProfileOf, LoadUser, WithoutUser
    <3> QED
      BY <3>1, <3>4, <3>5, RequestStep
  <2> QED
    BY <1>9, <2>1, FinishedStep DEF LoadUser
<1>10. CASE LoadSecurity(r)
  <2>1. CASE security[UserOf(r)].exists
    <3> DEFINE row == IF Op(r) = "updatePin"
                      THEN [security[UserOf(r)] EXCEPT !.pin = req[r].secret, !.failed = 0]
                      ELSE [security[UserOf(r)] EXCEPT !.biometric = req[r].given]
    <3> DEFINE q == [req[r] EXCEPT !.pc = "saveSecurity", !.sec = row]
    <3>1. req' = [req EXCEPT ![r] = q] /\ ops' = ops /\ req[r].op \in ops
      BY <1>1, <1>10, <2>1 DEF LoadSecurity, TypeInv, RequestsOK, Request, Idle
    <3>2. UserOf(r) \in Users /\ security[UserOf(r)] \in SecurityRow
      BY <1>1, <1>10 DEF LoadSecurity, RequestOK, WithoutUser, TypeInv, TypeOK
    <3>3. row \in SecurityRow /\ row.exists /\ (Op(r) = "updatePin" => row.failed = 0)
      BY <1>1, <2>1, <3>2 DEF SecurityRow, Request
    <3> HIDE DEF row
    <3>4. /\ q \in Request /\ q.pc = "saveSecurity" /\ q.sec = row /\ q.op = req[r].op
          /\ q.id = req[r].id /\ q.user = req[r].user
      BY <1>1, <3>3 DEF Request, RequestPc
    <3> HIDE DEF q
    <3>5. RequestOK(q)
      BY <1>1, <1>10, <3>3, <3>4
      DEF RequestOK, SessionsOf, ProfileOf, LoadSecurity, WithoutUser
    <3> QED
      BY <3>1, <3>4, <3>5, RequestStep
  <2> QED
    BY <1>10, <2>1, FinishedStep DEF LoadSecurity
<1>11. CASE FindConsent(r)
  <2> DEFINE e == ~Exists(UserOf(r), TypeAt(r))
  <2> DEFINE q == [req[r] EXCEPT !.pc = "writeConsent", !.empty = e]
  <2>1. req' = [req EXCEPT ![r] = q] /\ ops' = ops /\ req[r].op \in ops
    BY <1>1, <1>11 DEF FindConsent, TypeInv, RequestsOK, Request, Idle
  <2>2. e \in BOOLEAN
    BY DEF Exists
  <2> HIDE DEF e
  <2>3. /\ q \in Request /\ q.pc = "writeConsent" /\ q.op = req[r].op
        /\ q.id = req[r].id /\ q.user = req[r].user /\ q.n = req[r].n
    BY <1>1, <2>2 DEF Request, RequestPc
  <2> HIDE DEF q
  <2>4. RequestOK(q)
    BY <1>1, <1>11, <2>3 DEF RequestOK, SessionsOf, ProfileOf, FindConsent, WithoutUser
  <2> QED
    BY <2>1, <2>3, <2>4, RequestStep
<1>12. CASE WriteConsent(r)
  <2>1. CASE req[r].n # Len(Consents)
    <3> DEFINE k == req[r].n + 1
    <3> DEFINE q == [req[r] EXCEPT !.pc = "findConsent", !.n = k, !.empty = FALSE]
    <3>1. req' = [req EXCEPT ![r] = q] /\ ops' = ops /\ req[r].op \in ops
      BY <1>1, <1>12, <2>1
      DEF WriteConsent, NextConsent, TypeInv, RequestsOK, Request, Idle
    <3>2. k \in 0..Len(Consents) /\ k \in 1..Len(Consents)
      BY <1>1, <1>12, <2>1, SomeConsents DEF WriteConsent, RequestOK, ProfileOf
    <3> HIDE DEF k
    <3>3. /\ q \in Request /\ q.pc = "findConsent" /\ q.op = req[r].op
          /\ q.id = req[r].id /\ q.user = req[r].user /\ q.n = k
      BY <1>1, <3>2 DEF Request, RequestPc
    <3> HIDE DEF q
    <3>4. RequestOK(q)
      BY <1>1, <1>12, <3>2, <3>3 DEF RequestOK, SessionsOf, ProfileOf, WriteConsent, WithoutUser
    <3> QED
      BY <3>1, <3>3, <3>4, RequestStep
  <2> QED
    BY <1>12, <2>1, FinishedStep DEF WriteConsent, NextConsent
<1> QED
  BY <1>3, <1>5, <1>6, <1>7, <1>8, <1>9, <1>10, <1>11, <1>12 DEF ProfileStep

-----------------------------------------------------------------------------
(* Tables *)

TablesOK ==
    /\ user \in [Users -> UserRow]
    /\ security \in [Users -> SecurityRow]
    /\ settings \in [Users -> SettingsRow]
    /\ consent \in [Users -> [ConsentTypes -> ConsentState]]
    /\ session \in [SessionId -> SessionRow]
    /\ verification \in [VerificationId -> VerificationRow]
    /\ challenge \in [ChallengeId -> ChallengeRow]
    /\ token \in [TokenId -> TokenRow]
    /\ ops \in Scenarios
    /\ uses \in [VerificationId -> Nat]
    /\ opened \in [ChallengeId -> Nat]
    /\ faults \in Nat

LEMMA RequestsWriteNothing ==
    ASSUME NEW r \in Requests, SessionRequest(r) \/ ProfileRequest(r)
    PROVE  UNCHANGED <<tables, history, ops, faults>>
<1>1. CASE SessionRequest(r)
  BY <1>1
  DEF SessionRequest, StartLogin, StartPinLogin, StartRefresh, StartVerifyPin,
      StartChallenge, StartBiometricLogin, StartRegister, StartRemoveDevice
<1>2. CASE ProfileRequest(r)
  BY <1>2
  DEF ProfileRequest, StartSend, StartSignUp, StartCreateUser, StartReset,
      StartUpdatePassword, StartUpdatePin, StartUpdateUser, StartWithdraw,
      StartSetBiometric, StartSettings, StartGetConsents, StartUpdateConsent
<1> QED
  BY <1>1, <1>2

LEMMA NewRowsTyped ==
    /\ NoUserRow \in UserRow /\ NoSecurity \in SecurityRow /\ NoSettings \in SettingsRow
    /\ NewSettings \in SettingsRow /\ NoSession \in SessionRow
    /\ NoVerification \in VerificationRow /\ NoChallenge \in ChallengeRow
    /\ NoToken \in TokenRow
    /\ \A e \in Emails \cup {NoEmail}, p \in Secrets \cup {NoSecret} : NewUser(e, p) \in UserRow
    /\ \A p \in Secrets \cup {NoSecret} : NewSecurity(p) \in SecurityRow
    /\ \A e \in Emails \cup {NoEmail}, g \in Purpose : NewVerification(e, g) \in VerificationRow
BY DEF NoUserRow, UserRow, NoSecurity, SecurityRow, NoSettings, NewSettings, SettingsRow,
       NoSession, SessionRow, NoVerification, VerificationRow, Purpose, NoChallenge,
       ChallengeRow, NoToken, TokenRow, NewUser, NewSecurity, NewVerification

LEMMA SessionTablesTyped ==
    ASSUME TypeInv, NEW r \in Requests, SessionStep(r)
    PROVE  TablesOK'
<1> USE DEF TablesOK, At, Op, UserOf, tables, history
<1>1. req[r] \in Request /\ RequestOK(req[r])
  BY DEF TypeInv, RequestsOK
<1>2. TablesOK
  BY DEF TypeInv, TypeOK
<1>3. CASE FindSession(r) \/ FindDevice(r)
  BY <1>2, <1>3 DEF FindSession, FindDevice
<1>4. CASE CountWrong(r) \/ ResetPin(r)
  <2>1. UserOf(r) \in Users
    BY <1>1, <1>4 DEF CountWrong, ResetPin, RequestOK, WithoutUser
  <2>2. security' \in [Users -> SecurityRow]
    <3>1. security[UserOf(r)].failed \in Nat /\ security[UserOf(r)].failed + 1 \in Nat
      BY <1>2, <2>1 DEF SecurityRow
    <3>2. ASSUME NEW k \in Nat
          PROVE  [security[UserOf(r)] EXCEPT !.failed = k] \in SecurityRow
      BY <1>2, <2>1 DEF SecurityRow
    <3>3. CASE CountWrong(r)
      BY <1>2, <2>1, <3>1, <3>2, <3>3 DEF CountWrong
    <3>4. CASE ResetPin(r)
      BY <1>2, <2>1, <3>2, <3>4 DEF ResetPin
    <3> QED
      BY <1>4, <3>3, <3>4
  <2> QED
    BY <1>2, <1>4, <2>2 DEF CountWrong, ResetPin
<1>5. CASE DropSessions(r)
  <2>1. session' \in [SessionId -> SessionRow]
    BY <1>2, <1>5 DEF DropSessions, SessionRow
  <2> QED
    BY <1>2, <1>5, <2>1 DEF DropSessions
<1>6. CASE CreateSession(r)
  <2>1. UserOf(r) \in Users /\ (Op(r) = "biometricLogin" => req[r].id \in ChallengeId)
    BY <1>1, <1>6 DEF CreateSession, RequestOK, SessionsOf, WithoutUser
  <2>2. session' \in [SessionId -> SessionRow]
    BY <1>2, <1>6, <2>1 DEF CreateSession, SessionRow, Lowest
  <2>3. opened' \in [ChallengeId -> Nat]
    BY <1>2, <1>6, <2>1 DEF CreateSession
  <2> QED
    BY <1>2, <1>6, <2>2, <2>3 DEF CreateSession
<1>7. CASE SaveSession(r)
  <2>1. session' \in [SessionId -> SessionRow]
    BY <1>1, <1>2, <1>7 DEF SaveSession, SessionRow, RequestOK, SessionsOf
  <2> QED
    BY <1>2, <1>7, <2>1 DEF SaveSession
<1>8. CASE InsertChallenge(r) \/ MarkChallenge(r)
  <2>1. /\ req[r].user \in Users
        /\ req[r].pc = "markChallenge" => req[r].id \in ChallengeId
    BY <1>1, <1>8
    DEF InsertChallenge, MarkChallenge, RequestOK, SessionsOf, WithoutUser
  <2>2. challenge' \in [ChallengeId -> ChallengeRow]
    <3>1. CASE InsertChallenge(r)
      BY <1>2, <2>1, <3>1 DEF InsertChallenge, ChallengeRow, Lowest
    <3>2. CASE MarkChallenge(r)
      BY <1>2, <2>1, <3>2 DEF MarkChallenge, ChallengeRow
    <3> QED
      BY <1>8, <3>1, <3>2
  <2> QED
    BY <1>2, <1>8, <2>2 DEF InsertChallenge, MarkChallenge
<1>9. CASE TakeDevice(r) \/ DropDevice(r) \/ InsertDevice(r)
  <2>1. /\ req[r].user \in Users
        /\ req[r].pc # "insertDevice" => req[r].id \in TokenId
        /\ req[r].pc = "insertDevice" => req[r].device \in Devices
    BY <1>1, <1>9
    DEF TakeDevice, DropDevice, InsertDevice, RequestOK, SessionsOf, WithoutUser
  <2>2. token' \in [TokenId -> TokenRow]
    <3>1. CASE TakeDevice(r)
      <4>1. token' = [token EXCEPT ![req[r].id] =
                        [token[req[r].id] EXCEPT !.user = UserOf(r), !.active = TRUE]]
        BY <1>2, <2>1, <3>1 DEF TakeDevice, TokenRow
      <4> QED
        BY <1>2, <2>1, <3>1, <4>1 DEF TakeDevice, TokenRow
    <3>2. CASE DropDevice(r)
      BY <1>2, <2>1, <3>2 DEF DropDevice, TokenRow
    <3>3. CASE InsertDevice(r)
      BY <1>2, <2>1, <3>3 DEF InsertDevice, TokenRow, Lowest
    <3> QED
      BY <1>9, <3>1, <3>2, <3>3
  <2> QED
    BY <1>2, <1>9, <2>2 DEF TakeDevice, DropDevice, InsertDevice
<1> QED
  BY <1>3, <1>4, <1>5, <1>6, <1>7, <1>8, <1>9 DEF SessionStep

LEMMA ProfileTablesTyped ==
    ASSUME TypeInv, NEW r \in Requests, ProfileStep(r)
    PROVE  TablesOK'
<1> USE DEF TablesOK, At, Op, UserOf, tables, history
<1>1. req[r] \in Request /\ RequestOK(req[r])
  BY DEF TypeInv, RequestsOK
<1>2. TablesOK
  BY DEF TypeInv, TypeOK
<1>3. CASE \/ FindEmail(r) \/ InsertUserFails(r) \/ LoadUser(r) \/ SaveUserFails(r)
           \/ LoadSecurity(r) \/ FindConsent(r) \/ WriteConsentFails(r) \/ RollBackConsent(r)
  BY <1>2, <1>3
  DEF FindEmail, InsertUserFails, LoadUser, SaveUserFails, LoadSecurity, FindConsent,
      WriteConsentFails, RollBackConsent
<1>4. CASE InsertVerification(r)
  <2>1. verification' \in [VerificationId -> VerificationRow]
    BY <1>1, <1>2, <1>4, NewRowsTyped DEF InsertVerification, Lowest, Request, Purpose
  <2> QED
    BY <1>2, <1>4, <2>1 DEF InsertVerification
<1>5. CASE InsertUser(r)
  <2>1. Op(r) = "signUp" => req[r].id \in VerificationId
    BY <1>1 DEF RequestOK, ProfileOf
  <2>2. user' \in [Users -> UserRow] /\ settings' \in [Users -> SettingsRow]
    BY <1>1, <1>2, <1>5, NewRowsTyped DEF InsertUser, Request
  <2>3. security' \in [Users -> SecurityRow]
    BY <1>1, <1>2, <1>5, NewRowsTyped DEF InsertUser, Request, PinOf
  <2>4. uses' \in [VerificationId -> Nat]
    BY <1>2, <1>5, <2>1 DEF InsertUser
  <2> QED
    BY <1>2, <1>5, <2>2, <2>3, <2>4 DEF InsertUser
<1>6. CASE MarkUsed(r)
  <2>1. verification' \in [VerificationId -> VerificationRow]
    BY <1>1, <1>2, <1>6 DEF MarkUsed, RequestOK, ProfileOf, VerificationRow
  <2> QED
    BY <1>2, <1>6, <2>1 DEF MarkUsed
<1>7. CASE SaveUser(r)
  <2>1. user' \in [Users -> UserRow]
    BY <1>1, <1>2, <1>7 DEF SaveUser, Request, RequestOK, WithoutUser
  <2>2. uses' \in [VerificationId -> Nat]
    BY <1>1, <1>2, <1>7 DEF SaveUser, RequestOK, ProfileOf
  <2> QED
    BY <1>2, <1>7, <2>1, <2>2 DEF SaveUser
<1>8. CASE SaveSecurity(r)
  <2>1. security' \in [Users -> SecurityRow]
    BY <1>1, <1>2, <1>8 DEF SaveSecurity, Request, RequestOK, WithoutUser
  <2> QED
    BY <1>2, <1>8, <2>1 DEF SaveSecurity
<1>9. CASE SaveSettings(r)
  <2>1. settings' \in [Users -> SettingsRow]
    BY <1>1, <1>2, <1>9 DEF SaveSettings, Request, RequestOK, WithoutUser, SettingsRow
  <2> QED
    BY <1>2, <1>9, <2>1 DEF SaveSettings
<1>10. ASSUME WriteConsent(r) \/ CommitConsent(r)
       PROVE  req[r].user \in Users /\ TypeAt(r) \in ConsentTypes
  BY <1>1, <1>10
  DEF WriteConsent, CommitConsent, RequestOK, ProfileOf, WithoutUser, TypeAt, ConsentTypes
<1>11. CASE WriteConsent(r)
  <2>1. consent' \in [Users -> [ConsentTypes -> ConsentState]]
    BY <1>2, <1>10, <1>11 DEF WriteConsent, ConsentState
  <2> QED
    BY <1>2, <1>11, <2>1 DEF WriteConsent
<1>12. CASE CommitConsent(r)
  <2>1. Defaulted(r) \in [ConsentTypes -> ConsentState]
    BY <1>2, <1>10, <1>12 DEF Defaulted, ConsentState
  <2>2. consent' \in [Users -> [ConsentTypes -> ConsentState]]
    BY <1>2, <1>10, <1>12, <2>1 DEF CommitConsent, ConsentState
  <2>3. settings' \in [Users -> SettingsRow]
    BY <1>2, <1>10, <1>12 DEF CommitConsent, SettingsRow
  <2> QED
    BY <1>2, <1>12, <2>2, <2>3 DEF CommitConsent
<1> QED
  BY <1>3, <1>4, <1>5, <1>6, <1>7, <1>8, <1>9, <1>11, <1>12 DEF ProfileStep

(* The steps of no request: rows expire, and a logout ends the tokens of a *)
(* device.                                                                 *)
Elsewhere ==
    \/ \E d \in Devices : Logout(d)
    \/ \E v \in VerificationId : ExpireVerification(v)
    \/ \E c \in ChallengeId : ExpireChallenge(c)

LEMMA ElsewhereTyped ==
    ASSUME TypeInv, Elsewhere
    PROVE  TypeInv'
<1> USE DEF TypeInv, TypeOK, RequestsOK, history
<1>0. req' = req /\ ops' = ops
  BY DEF Elsewhere, Logout, ExpireVerification, ExpireChallenge
<1>1. RequestsOK'
  BY <1>0 DEF Idle, Op, RequestOK, SessionsOf, ProfileOf
<1>2. ASSUME NEW d \in Devices, Logout(d)
      PROVE  TypeOK'
  <2>1. token' \in [TokenId -> TokenRow]
    BY <1>2 DEF Logout, TokenRow
  <2> QED
    BY <1>2, <2>1 DEF Logout
<1>3. ASSUME NEW v \in VerificationId, ExpireVerification(v)
      PROVE  TypeOK'
  <2>1. verification' \in [VerificationId -> VerificationRow]
    BY <1>3 DEF ExpireVerification, VerificationRow
  <2> QED
    BY <1>3, <2>1 DEF ExpireVerification
<1>4. ASSUME NEW c \in ChallengeId, ExpireChallenge(c)
      PROVE  TypeOK'
  <2>1. challenge' \in [ChallengeId -> ChallengeRow]
    BY <1>4 DEF ExpireChallenge, ChallengeRow
  <2> QED
    BY <1>4, <2>1 DEF ExpireChallenge
<1> HIDE DEF TypeOK, RequestsOK
<1> QED
  BY <1>1, <1>2, <1>3, <1>4 DEF Elsewhere

LEMMA AbortTyped ==
    ASSUME TypeInv, NEW r \in Requests, Abort(r)
    PROVE  TypeInv'
<1>1. RequestsOK'
  BY FinishedStep DEF Abort
<1>2. TablesOK'
  BY DEF Abort, TypeInv, TypeOK, TablesOK, tables, history
<1> QED
  BY <1>1, <1>2 DEF TypeInv, TypeOK, TablesOK, RequestsOK

LEMMA InitTyped == Init => TypeInv
<1> SUFFICES ASSUME Init
             PROVE  TypeInv
  OBVIOUS
<1>1. TablesOK
  <2>1. PICK registered \in SUBSET Users, address \in [Users -> Emails], p \in Secrets :
          /\ \A u, v \in registered : address[u] = address[v] => u = v
          /\ user = [u \in Users |-> IF u \in registered THEN NewUser(address[u], p)
                                                         ELSE NoUserRow]
          /\ security = [u \in Users |-> IF u \in registered THEN NewSecurity(p)
                                                             ELSE NoSecurity]
          /\ settings = [u \in Users |-> IF u \in registered THEN NewSettings ELSE NoSettings]
    BY DEF Init
  <2>2. /\ user \in [Users -> UserRow] /\ security \in [Users -> SecurityRow]
        /\ settings \in [Users -> SettingsRow]
    BY <2>1, NewRowsTyped
  <2>3. /\ session \in [SessionId -> SessionRow] /\ challenge \in [ChallengeId -> ChallengeRow]
        /\ verification \in [VerificationId -> VerificationRow]
        /\ token \in [TokenId -> TokenRow]
    BY NewRowsTyped DEF Init
  <2>4. consent \in [Users -> [ConsentTypes -> ConsentState]]
    BY DEF Init, ConsentState
  <2> QED
    BY <2>2, <2>3, <2>4 DEF TablesOK, Init
<1>2. RequestsOK
  BY IdleRequestTyped DEF Init, RequestsOK, Idle
<1> QED
  BY <1>1, <1>2 DEF TypeInv, TypeOK, TablesOK, RequestsOK

LEMMA NextTyped == TypeInv /\ [Next]_vars => TypeInv'
<1> SUFFICES ASSUME TypeInv, [Next]_vars
             PROVE  TypeInv'
  OBVIOUS
<1>1. ASSUME NEW r \in Requests, SessionRequest(r) \/ ProfileRequest(r)
      PROVE  TypeInv'
  <2>1. RequestsOK'
    BY <1>1, SessionRequestTyped, ProfileRequestTyped
  <2>2. UNCHANGED <<tables, history, ops, faults>>
    BY <1>1, RequestsWriteNothing
  <2> QED
    BY <2>1, <2>2 DEF TypeInv, TypeOK, RequestsOK, tables, history
<1>2. ASSUME NEW r \in Requests, SessionStep(r) \/ ProfileStep(r)
      PROVE  TypeInv'
  <2>1. RequestsOK' /\ TablesOK'
    BY <1>2, SessionStepTyped, ProfileStepTyped, SessionTablesTyped, ProfileTablesTyped
  <2> QED
    BY <2>1 DEF TypeInv, TypeOK, TablesOK, RequestsOK
<1>3. CASE UNCHANGED vars
  BY <1>3 DEF TypeInv, TypeOK, RequestsOK, vars, tables, history, Idle, Op,
     RequestOK, SessionsOf, ProfileOf
<1> QED
  BY <1>1, <1>2, <1>3, AbortTyped, ElsewhereTyped DEF Next, Elsewhere

(* Every table and every request of a behaviour of Accounts has the shape  *)
(* that its handlers rely on: a request that is about to save a row knows  *)
(* its user, its row and its number.                                       *)
THEOREM AccountTypes == Spec => []TypeOK
<1>1. Spec => []TypeInv
  BY InitTyped, NextTyped, PTL DEF Spec
<1> QED
  BY <1>1, PTL DEF TypeInv

-----------------------------------------------------------------------------
(* Where a step leads *)

OnlySlot(r) == \A x \in Requests \ {r} : req'[x] = req[x]

(* A step of a request changes its own slot only, and takes it to one of   *)
(* few places.                                                             *)
LeadsTo(r) ==
    /\ OnlySlot(r) /\ ops' = ops /\ faults' = faults
    /\ req[r].pc # "idle"
    /\ req'[r].pc \notin {"countWrong", "resetPin", "findSession", "insertChallenge",
                          "markChallenge", "insertVerification", "findEmail", "loadUser",
                          "loadSecurity", "saveSettings", "commitConsent", "dropDevice"}
    /\ req'[r].pc = "dropSessions" => ResetPin(r) \/ MarkChallenge(r) \/ MarkUsed(r)
    /\ req'[r].pc = "createSession" => DropSessions(r)
    /\ req'[r].pc = "saveSession" => FindSession(r)
    /\ req'[r].pc = "findDevice" => CreateSession(r)
    /\ req'[r].pc = "takeDevice" => FindDevice(r)
    /\ req'[r].pc = "insertDevice" => FindDevice(r) \/ DropDevice(r)
    /\ req'[r].pc \notin {"idle", "takeDevice"} => req'[r].id = req[r].id
    /\ req'[r].pc # "idle" =>
         /\ req'[r].op = req[r].op /\ req'[r].user = req[r].user
         /\ req'[r].device = req[r].device

ProfileLeadsTo(r) ==
    /\ req'[r].pc = "insertUser" => FindEmail(r)
    /\ req'[r].pc = "markUsed" => InsertUser(r) \/ SaveUser(r)
    /\ req'[r].pc = "saveUser" => LoadUser(r)
    /\ req'[r].pc = "saveSecurity" => LoadSecurity(r)
    /\ req'[r].pc = "findConsent" => WriteConsent(r)
    /\ req'[r].pc = "writeConsent" => FindConsent(r)

LEMMA StepLeadsTo ==
    ASSUME TypeInv, NEW r \in Requests, SessionStep(r) \/ ProfileStep(r)
    PROVE  LeadsTo(r) /\ ProfileLeadsTo(r)
<1> USE DEF LeadsTo, ProfileLeadsTo, OnlySlot, At, Op, UserOf
<1>1. req \in [Requests -> Request] /\ req[r] \in Request
  BY DEF TypeInv, RequestsOK
<1>2. ASSUME req' = Finished(r)
      PROVE  req'[r].pc = "idle" /\ OnlySlot(r)
  BY <1>1, <1>2, IdleRequestTyped DEF Finished
<1>3. ASSUME NEW pc \in RequestPc, req' = Moved(r, pc)
      PROVE  /\ OnlySlot(r) /\ req'[r].pc = pc /\ req'[r].id = req[r].id
             /\ req'[r].op = req[r].op /\ req'[r].user = req[r].user
             /\ req'[r].device = req[r].device
  BY <1>1, <1>3 DEF Moved, Request
<1>4. CASE \/ CountWrong(r) \/ SaveSession(r) \/ InsertChallenge(r) \/ TakeDevice(r)
           \/ InsertDevice(r) \/ InsertVerification(r) \/ InsertUserFails(r)
           \/ SaveUserFails(r) \/ SaveSecurity(r) \/ SaveSettings(r)
           \/ WriteConsentFails(r) \/ CommitConsent(r) \/ RollBackConsent(r)
  BY <1>2, <1>4
  DEF CountWrong, SaveSession, InsertChallenge, TakeDevice, InsertDevice,
      InsertVerification, InsertUserFails, SaveUserFails, SaveSecurity, SaveSettings,
      WriteConsentFails, CommitConsent, RollBackConsent
<1>5. CASE ResetPin(r)
  BY <1>2, <1>3, <1>5 DEF ResetPin, RequestPc
<1>6. CASE DropSessions(r)
  BY <1>2, <1>3, <1>6 DEF DropSessions, RequestPc
<1>7. CASE CreateSession(r)
  BY <1>2, <1>3, <1>7 DEF CreateSession, RequestPc
<1>8. CASE FindSession(r)
  BY <1>2, <1>3, <1>8 DEF FindSession, RequestPc
<1>9. CASE MarkChallenge(r)
  BY <1>2, <1>3, <1>9 DEF MarkChallenge, RequestPc
<1>10. CASE DropDevice(r)
  BY <1>2, <1>3, <1>10 DEF DropDevice, RequestPc
<1>11. CASE FindEmail(r)
  BY <1>2, <1>3, <1>11 DEF FindEmail, RequestPc
<1>12. CASE InsertUser(r)
  BY <1>2, <1>3, <1>12 DEF InsertUser, RequestPc
<1>13. CASE MarkUsed(r)
  BY <1>2, <1>3, <1>13 DEF MarkUsed, RequestPc
<1>14. CASE SaveUser(r)
  BY <1>2, <1>3, <1>14 DEF SaveUser, RequestPc
<1>15. CASE FindDevice(r)
  BY <1>1, <1>3, <1>15 DEF FindDevice, RequestPc, Request
<1>16. CASE LoadUser(r)
  <2>1. CASE Active(UserOf(r))
    BY <1>1, <1>16, <2>1 DEF LoadUser, Request
  <2> QED
    BY <1>2, <1>16, <2>1 DEF LoadUser
<1>17. CASE LoadSecurity(r)
  <2>1. CASE security[UserOf(r)].exists
    BY <1>1, <1>17, <2>1 DEF LoadSecurity, Request
  <2> QED
    BY <1>2, <1>17, <2>1 DEF LoadSecurity
<1>18. CASE FindConsent(r)
  BY <1>1, <1>18 DEF FindConsent, Request
<1>19. CASE WriteConsent(r)
  <2>1. CASE req[r].n # Len(Consents)
    BY <1>1, <1>19, <2>1 DEF WriteConsent, NextConsent, Request
  <2> QED
    BY <1>2, <1>19, <2>1 DEF WriteConsent, NextConsent
<1> QED
  BY <1>4, <1>5, <1>6, <1>7, <1>8, <1>9, <1>10, <1>11, <1>12, <1>13, <1>14, <1>15, <1>16,
     <1>17, <1>18, <1>19
  DEF SessionStep, ProfileStep

(* The place of a request decides which step it takes.                     *)
LEMMA StepAt ==
    ASSUME NEW r \in Requests, SessionStep(r) \/ ProfileStep(r)
    PROVE  /\ req[r].pc = "countWrong" => CountWrong(r)
           /\ req[r].pc = "dropSessions" => DropSessions(r)
           /\ req[r].pc = "createSession" => CreateSession(r)
           /\ req[r].pc = "saveSession" => SaveSession(r)
           /\ req[r].pc = "takeDevice" => TakeDevice(r)
           /\ req[r].pc = "dropDevice" => DropDevice(r)
           /\ req[r].pc = "insertDevice" => InsertDevice(r)
           /\ req[r].pc = "markUsed" => MarkUsed(r)
           /\ req[r].pc = "findConsent" => FindConsent(r)
           /\ req[r].pc = "writeConsent" => WriteConsent(r) \/ WriteConsentFails(r)
<1>1. CASE SessionStep(r)
  BY <1>1
  DEF SessionStep, CountWrong, ResetPin, DropSessions, CreateSession, FindSession,
      SaveSession, InsertChallenge, MarkChallenge, FindDevice, TakeDevice, DropDevice,
      InsertDevice, At
<1>2. CASE ProfileStep(r)
  BY <1>2
  DEF ProfileStep, InsertVerification, FindEmail, InsertUser, InsertUserFails, MarkUsed,
      LoadUser, SaveUser, SaveUserFails, LoadSecurity, SaveSecurity, SaveSettings,
      FindConsent, WriteConsent, WriteConsentFails, CommitConsent, RollBackConsent, At
<1> QED
  BY <1>1, <1>2

(* The tables that a step writes                                           *)
LEMMA StepWrites ==
    ASSUME NEW r \in Requests, SessionStep(r) \/ ProfileStep(r)
    PROVE  /\ user' # user => InsertUser(r) \/ SaveUser(r)
           /\ security' # security =>
                CountWrong(r) \/ ResetPin(r) \/ InsertUser(r) \/ SaveSecurity(r)
           /\ settings' # settings => InsertUser(r) \/ SaveSettings(r) \/ CommitConsent(r)
           /\ consent' # consent => WriteConsent(r) \/ CommitConsent(r)
           /\ session' # session => DropSessions(r) \/ CreateSession(r) \/ SaveSession(r)
           /\ verification' # verification => InsertVerification(r) \/ MarkUsed(r)
           /\ challenge' # challenge => InsertChallenge(r) \/ MarkChallenge(r)
           /\ token' # token => TakeDevice(r) \/ DropDevice(r) \/ InsertDevice(r)
           /\ uses' # uses => InsertUser(r) \/ SaveUser(r)
           /\ opened' # opened => CreateSession(r)
<1>1. CASE SessionStep(r)
  BY <1>1
  DEF SessionStep, CountWrong, ResetPin, DropSessions, CreateSession, FindSession,
      SaveSession, InsertChallenge, MarkChallenge, FindDevice, TakeDevice, DropDevice,
      InsertDevice, tables, history
<1>2. CASE ProfileStep(r)
  BY <1>2
  DEF ProfileStep, InsertVerification, FindEmail, InsertUser, InsertUserFails, MarkUsed,
      LoadUser, SaveUser, SaveUserFails, LoadSecurity, SaveSecurity, SaveSettings,
      FindConsent, WriteConsent, WriteConsentFails, CommitConsent, RollBackConsent, tables,
      history
<1> QED
  BY <1>1, <1>2

(* A request begins in a free slot, with what its handler has checked.     *)
Begins(r) ==
    /\ OnlySlot(r) /\ req[r].pc = "idle"
    /\ req'[r].pc \in {"dropSessions", "resetPin", "countWrong", "findSession",
                       "insertChallenge", "markChallenge", "insertDevice", "dropDevice",
                       "insertVerification", "findEmail", "loadUser", "loadSecurity",
                       "saveSettings", "findConsent", "commitConsent"}
    /\ req'[r].pc = "countWrong" => security[req'[r].user].failed < PinMax
    /\ req'[r].pc = "findSession" => req'[r].id \in LiveSessions(req'[r].user)
    /\ req'[r].pc = "dropDevice" /\ req'[r].op = "register" =>
         token[req'[r].id].device = req'[r].device
    /\ req'[r].op = "biometricLogin" =>
         req'[r].pc = "markChallenge" /\ ~challenge[req'[r].id].used
    /\ req'[r].op \in {"signUp", "reset"} =>
         req'[r].pc \in {"findEmail", "loadUser"} /\ Unused(req'[r].id)
    /\ req'[r].pc = "findConsent" => req'[r].n = 1

LEMMA RequestBegins ==
    ASSUME TypeInv, NEW r \in Requests, SessionRequest(r) \/ ProfileRequest(r)
    PROVE  Begins(r)
<1> USE DEF Begins, OnlySlot, May, Guarded, Idle, Begun
<1>1. req \in [Requests -> Request]
  BY DEF TypeInv, RequestsOK
<1>2. ASSUME NEW e \in Emails, NEW p \in Secrets, NEW d \in Devices \cup {NoDevice}, StartLogin(r, e, p, d)
      PROVE  Begins(r)
  BY <1>1, <1>2 DEF StartLogin, IdleRequest
<1>3. ASSUME NEW e \in Emails, NEW p \in Secrets, StartPinLogin(r, e, p)
      PROVE  Begins(r)
  <2>1. PICK u \in Users, pc \in {"resetPin", "countWrong"} :
          security[u].failed < PinMax /\ req' = [req EXCEPT ![r] = Begun("pinLogin", pc, u)]
    BY <1>3 DEF StartPinLogin, PinUsable, AfterPin, UsersLike
  <2>2. req[r].pc = "idle"
    BY <1>3 DEF StartPinLogin
  <2> QED
    BY <1>1, <2>1, <2>2 DEF IdleRequest
<1>4. ASSUME NEW u \in Users, StartRefresh(r, u)
      PROVE  Begins(r)
  BY <1>1, <1>4 DEF StartRefresh, IdleRequest
<1>5. ASSUME NEW u \in Users, NEW p \in Secrets, StartVerifyPin(r, u, p)
      PROVE  Begins(r)
  <2>1. PICK pc \in {"resetPin", "countWrong"} :
          security[u].failed < PinMax /\ req' = [req EXCEPT ![r] = Begun("verifyPin", pc, u)]
    BY <1>5 DEF StartVerifyPin, PinUsable, AfterPin
  <2>2. req[r].pc = "idle"
    BY <1>5 DEF StartVerifyPin
  <2> QED
    BY <1>1, <2>1, <2>2 DEF IdleRequest
<1>6. ASSUME NEW e \in Emails, StartChallenge(r, e)
      PROVE  Begins(r)
  BY <1>1, <1>6 DEF StartChallenge, IdleRequest
<1>7. ASSUME NEW c \in ChallengeId, StartBiometricLogin(r, c)
      PROVE  Begins(r)
  BY <1>1, <1>7 DEF StartBiometricLogin, IdleRequest
<1>8. ASSUME NEW u \in Users, NEW d \in Devices, StartRegister(r, u, d)
      PROVE  Begins(r)
  <2>1. req[r].pc = "idle"
    BY <1>8 DEF StartRegister
  <2>2. CASE req' = [req EXCEPT ![r] = [Begun("register", "insertDevice", u)
                                          EXCEPT !.device = d]]
    BY <1>1, <2>1, <2>2 DEF IdleRequest
  <2>3. ASSUME NEW t \in RowsOfDevice(d),
               req' = [req EXCEPT ![r] = [Begun("register", "dropDevice", u)
                                            EXCEPT !.device = d, !.id = t]]
        PROVE  Begins(r)
    <3>1. token[t].device = d
      BY DEF RowsOfDevice
    <3> QED
      BY <1>1, <2>1, <2>3, <3>1 DEF IdleRequest
  <2> QED
    BY <1>8, <2>2, <2>3 DEF StartRegister
<1>9. ASSUME NEW u \in Users, NEW t \in TokenId, StartRemoveDevice(r, u, t)
      PROVE  Begins(r)
  BY <1>1, <1>9 DEF StartRemoveDevice, IdleRequest
<1>10. CASE SessionRequest(r)
  BY <1>2, <1>3, <1>4, <1>5, <1>6, <1>7, <1>8, <1>9, <1>10 DEF SessionRequest
<1>11. ASSUME NEW e \in Emails, NEW purpose \in Purpose, StartSend(r, e, purpose)
      PROVE  Begins(r)
  BY <1>1, <1>11 DEF StartSend, IdleRequest
<1>12. ASSUME NEW e \in Emails, NEW p \in Secrets, StartCreateUser(r, e, p)
      PROVE  Begins(r)
  BY <1>1, <1>12 DEF StartCreateUser, IdleRequest
<1>13. ASSUME NEW v \in VerificationId, NEW e \in Emails, NEW p \in Secrets, StartSignUp(r, v, e, p)
      PROVE  Begins(r)
  BY <1>1, <1>13 DEF StartSignUp, IdleRequest
<1>14. ASSUME NEW v \in VerificationId, NEW p \in Secrets, StartReset(r, v, p)
      PROVE  Begins(r)
  BY <1>1, <1>14 DEF StartReset, IdleRequest
<1>15. ASSUME NEW u \in Users, NEW p \in Secrets, StartUpdatePassword(r, u, p)
      PROVE  Begins(r)
  BY <1>1, <1>15 DEF StartUpdatePassword, IdleRequest
<1>16. ASSUME NEW u \in Users, NEW p \in Secrets, StartUpdatePin(r, u, p)
      PROVE  Begins(r)
  BY <1>1, <1>16 DEF StartUpdatePin, IdleRequest
<1>17. ASSUME NEW u \in Users, NEW e \in Emails \cup {NoEmail}, StartUpdateUser(r, u, e)
      PROVE  Begins(r)
  BY <1>1, <1>17 DEF StartUpdateUser, IdleRequest
<1>18. ASSUME NEW u \in Users, StartWithdraw(r, u)
      PROVE  Begins(r)
  BY <1>1, <1>18 DEF StartWithdraw, IdleRequest
<1>19. ASSUME NEW u \in Users, StartGetConsents(r, u)
      PROVE  Begins(r)
  BY <1>1, <1>19 DEF StartGetConsents, IdleRequest
<1>20. ASSUME NEW u \in Users, NEW b \in BOOLEAN, StartSetBiometric(r, u, b)
      PROVE  Begins(r)
  BY <1>1, <1>20 DEF StartSetBiometric, IdleRequest
<1>21. ASSUME NEW u \in Users, NEW b \in BOOLEAN, StartSettings(r, u, b)
      PROVE  Begins(r)
  BY <1>1, <1>21 DEF StartSettings, IdleRequest
<1>22. ASSUME NEW u \in Users, NEW b \in BOOLEAN, NEW i \in 1..Len(Consents), StartUpdateConsent(r, u, i, b)
      PROVE  Begins(r)
  BY <1>1, <1>22 DEF StartUpdateConsent, IdleRequest
<1>23. CASE ProfileRequest(r)
  BY <1>11, <1>12, <1>13, <1>14, <1>15, <1>16, <1>17, <1>18, <1>19, <1>20, <1>21, <1>22,
     <1>23
  DEF ProfileRequest
<1> QED
  BY <1>10, <1>23

(* A request that fails leaves its slot, and is counted.                   *)
LEMMA AbortEnds ==
    ASSUME TypeInv, NEW r \in Requests, Abort(r)
    PROVE  /\ OnlySlot(r) /\ req'[r].pc = "idle" /\ req'[r].op = "none"
           /\ UNCHANGED <<tables, history, ops>> /\ faults' = faults + 1
           /\ faults \in Nat
BY IdleRequestTyped DEF Abort, Finished, OnlySlot, TypeInv, TypeOK, RequestsOK, IdleRequest

-----------------------------------------------------------------------------
(* Counting requests *)

LEMMA RequestsFinite == IsFiniteSet(Requests) /\ Cardinality(Requests) \in Nat
BY AccountAssumption, FS_CardinalityType

LEMMA CountOf ==
    ASSUME NEW A \in SUBSET Requests
    PROVE  /\ IsFiniteSet(A) /\ Cardinality(A) \in Nat
           /\ Cardinality(A) <= Cardinality(Requests)
BY RequestsFinite, FS_Subset, FS_CardinalityType

(* Two sets that differ in r only                                          *)
LEMMA CountChange ==
    ASSUME NEW A \in SUBSET Requests, NEW B \in SUBSET Requests, NEW r,
           A \ {r} = B \ {r}
    PROVE  /\ r \in A /\ r \in B => Cardinality(B) = Cardinality(A)
           /\ r \in A /\ r \notin B => Cardinality(B) = Cardinality(A) - 1
           /\ r \notin A /\ r \in B => Cardinality(B) = Cardinality(A) + 1
           /\ r \notin A /\ r \notin B => Cardinality(B) = Cardinality(A)
           /\ Cardinality(A) \in Nat /\ Cardinality(B) \in Nat
<1>1. IsFiniteSet(A) /\ IsFiniteSet(B) /\ Cardinality(A) \in Nat /\ Cardinality(B) \in Nat
  BY CountOf
<1>2. /\ Cardinality(A \ {r}) = IF r \in A THEN Cardinality(A) - 1 ELSE Cardinality(A)
      /\ Cardinality(B \ {r}) = IF r \in B THEN Cardinality(B) - 1 ELSE Cardinality(B)
  BY <1>1, FS_RemoveElement
<1>3. Cardinality(A \ {r}) = Cardinality(B \ {r})
  OBVIOUS
<1> QED
  BY <1>1, <1>2, <1>3

(* A set without r leaves room for one request more.                       *)
LEMMA CountRoom ==
    ASSUME NEW A \in SUBSET Requests, NEW r \in Requests, r \notin A
    PROVE  Cardinality(A) + 1 <= Cardinality(Requests)
<1>1. A \cup {r} \in SUBSET Requests /\ IsFiniteSet(A)
  BY CountOf
<1>2. Cardinality(A \cup {r}) = Cardinality(A) + 1
  BY <1>1, FS_AddElement
<1> QED
  BY <1>1, <1>2, CountOf

LEMMA CountApart ==
    ASSUME NEW A \in SUBSET Requests, NEW B \in SUBSET Requests, A \cap B = {}
    PROVE  Cardinality(A) + Cardinality(B) = Cardinality(A \cup B)
<1>1. IsFiniteSet(A) /\ IsFiniteSet(B) /\ Cardinality(A) \in Nat /\ Cardinality(B) \in Nat
  BY CountOf
<1>2. Cardinality(A \cup B) = Cardinality(A) + Cardinality(B) - Cardinality(A \cap B)
  BY <1>1, FS_Union
<1>3. Cardinality(A \cap B) = 0
  BY FS_EmptySet
<1> QED
  BY <1>1, <1>2, <1>3

-----------------------------------------------------------------------------
(* Accounts stay consistent *)

SavedKnown ==
    \A r \in Requests : req[r].pc = "saveUser" => user[req[r].user].state # "NONE"

ConsistentInv == AccountsConsistent /\ SavedKnown

LEMMA InsertUserKeeps ==
    ASSUME TypeInv, ConsistentInv, NEW r \in Requests, InsertUser(r)
    PROVE  ConsistentInv'
<1>1. PICK u \in Users :
        /\ user[u].state = "NONE" /\ EmailFree(req[r].email, u)
        /\ user' = [user EXCEPT ![u] = NewUser(req[r].email, req[r].secret)]
        /\ security' = [security EXCEPT ![u] = NewSecurity(PinOf(r))]
        /\ settings' = [settings EXCEPT ![u] = NewSettings]
  BY DEF InsertUser
<1>2. \A v \in Users :
        /\ user'[v] = IF v = u THEN NewUser(req[r].email, req[r].secret) ELSE user[v]
        /\ v # u => security'[v] = security[v] /\ settings'[v] = settings[v]
  BY <1>1 DEF TypeInv, TypeOK
<1>3. /\ security'[u].exists /\ settings'[u].exists /\ user'[u].email = req[r].email
      /\ user'[u].state # "NONE"
  BY <1>1, <1>2 DEF TypeInv, TypeOK, NewSecurity, NewSettings, NewUser
<1>4. \A v \in Users \ {u} : user[v].email # req[r].email
  BY <1>1 DEF EmailFree
<1>5. AccountsConsistent'
  BY <1>2, <1>3, <1>4 DEF ConsistentInv, AccountsConsistent
<1>6. SavedKnown'
  <2> SUFFICES ASSUME NEW x \in Requests, req'[x].pc = "saveUser"
               PROVE  user'[req'[x].user].state # "NONE"
    BY DEF SavedKnown
  <2>1. LeadsTo(r) /\ ProfileLeadsTo(r)
    BY StepLeadsTo DEF ProfileStep
  <2>2. x # r
    BY <2>1 DEF ProfileLeadsTo, LoadUser, InsertUser, At
  <2>3. req'[x] = req[x] /\ req[x].user \in Users
    BY <2>1, <2>2 DEF LeadsTo, OnlySlot, TypeInv, RequestsOK, RequestOK, WithoutUser
  <2> QED
    BY <1>2, <1>3, <2>3 DEF ConsistentInv, SavedKnown
<1> QED
  BY <1>5, <1>6 DEF ConsistentInv

LEMMA SaveUserKeeps ==
    ASSUME TypeInv, ConsistentInv, NEW r \in Requests, SaveUser(r)
    PROVE  ConsistentInv'
<1> USE DEF At, UserOf
<1>1. /\ req[r].user \in Users /\ EmailFree(req[r].row.email, req[r].user)
      /\ user[req[r].user].state # "NONE" /\ req[r].row.state # "NONE"
  BY DEF SaveUser, TypeInv, RequestsOK, RequestOK, ProfileOf, WithoutUser, ConsistentInv,
         SavedKnown
<1>2. \A v \in Users : user'[v] = IF v = req[r].user THEN req[r].row ELSE user[v]
  BY DEF SaveUser, TypeInv, TypeOK
<1>3. UNCHANGED <<security, settings>>
  BY DEF SaveUser
<1>4. AccountsConsistent'
  BY <1>1, <1>2, <1>3 DEF ConsistentInv, AccountsConsistent, EmailFree
<1>5. SavedKnown'
  <2> SUFFICES ASSUME NEW x \in Requests, req'[x].pc = "saveUser"
               PROVE  user'[req'[x].user].state # "NONE"
    BY DEF SavedKnown
  <2>1. LeadsTo(r) /\ ProfileLeadsTo(r)
    BY StepLeadsTo DEF ProfileStep
  <2>2. x # r
    BY <2>1 DEF ProfileLeadsTo, LoadUser, SaveUser
  <2>3. req'[x] = req[x] /\ req[x].user \in Users
    BY <2>1, <2>2 DEF LeadsTo, OnlySlot, TypeInv, RequestsOK, RequestOK, WithoutUser
  <2> QED
    BY <1>1, <1>2, <2>3 DEF ConsistentInv, SavedKnown
<1> QED
  BY <1>4, <1>5 DEF ConsistentInv

(* The other writers of security and settings rows keep the rows.          *)
LEMMA RowsStay ==
    ASSUME TypeInv, NEW r \in Requests, SessionStep(r) \/ ProfileStep(r),
           ~InsertUser(r), NEW u \in Users
    PROVE  /\ security[u].exists => security'[u].exists
           /\ settings[u].exists => settings'[u].exists
<1> USE DEF At, UserOf
<1>1. security \in [Users -> SecurityRow] /\ settings \in [Users -> SettingsRow]
  BY DEF TypeInv, TypeOK
<1>2. CASE CountWrong(r) \/ ResetPin(r)
  BY <1>1, <1>2 DEF CountWrong, ResetPin, SecurityRow
<1>3. CASE SaveSecurity(r)
  <2>1. req[r].sec.exists
    BY <1>3 DEF SaveSecurity, TypeInv, RequestsOK, RequestOK, ProfileOf
  <2> QED
    BY <1>1, <1>3, <2>1 DEF SaveSecurity
<1>4. CASE SaveSettings(r) \/ CommitConsent(r)
  BY <1>1, <1>4 DEF SaveSettings, CommitConsent, SettingsRow
<1>5. /\ ~(CountWrong(r) \/ ResetPin(r) \/ SaveSecurity(r)) => security' = security
      /\ ~(SaveSettings(r) \/ CommitConsent(r)) => settings' = settings
  BY StepWrites
<1>6. /\ CountWrong(r) \/ ResetPin(r) \/ SaveSecurity(r) => settings' = settings
      /\ SaveSettings(r) => security' = security
      /\ CommitConsent(r) => security' = security
  BY DEF CountWrong, ResetPin, SaveSecurity, SaveSettings, CommitConsent
<1> QED
  BY <1>2, <1>3, <1>4, <1>5, <1>6

LEMMA ConsistentStep == TypeInv /\ ConsistentInv /\ [Next]_vars => ConsistentInv'
<1> SUFFICES ASSUME TypeInv, ConsistentInv, [Next]_vars
             PROVE  ConsistentInv'
  OBVIOUS
<1> USE DEF ConsistentInv
<1>1. ASSUME UNCHANGED <<user, security, settings>>, NEW r \in Requests, OnlySlot(r),
             req'[r].pc # "saveUser" \/ LoadUser(r)
      PROVE  ConsistentInv'
  <2>1. AccountsConsistent'
    BY <1>1 DEF AccountsConsistent
  <2>2. SavedKnown'
    <3>1. CASE LoadUser(r)
      <4>1. req'[r].pc = "saveUser" => Active(req[r].user) /\ req'[r].user = req[r].user
        BY <3>1, IdleRequestTyped
        DEF LoadUser, Finished, UserOf, TypeInv, RequestsOK, Request, Active
      <4> QED
        BY <1>1, <4>1 DEF SavedKnown, OnlySlot, Active
    <3> QED
      BY <1>1, <3>1 DEF SavedKnown, OnlySlot
  <2> QED
    BY <2>1, <2>2
<1>2. ASSUME NEW r \in Requests, SessionRequest(r) \/ ProfileRequest(r)
      PROVE  ConsistentInv'
  BY <1>1, <1>2, RequestBegins, RequestsWriteNothing DEF Begins, tables
<1>3. ASSUME NEW r \in Requests, SessionStep(r) \/ ProfileStep(r)
      PROVE  ConsistentInv'
  <2>1. LeadsTo(r) /\ ProfileLeadsTo(r)
    BY <1>3, StepLeadsTo
  <2>2. CASE ~InsertUser(r) /\ ~SaveUser(r)
    <3>1. user' = user
      BY <1>3, <2>2, StepWrites
    <3>2. AccountsConsistent'
      <4> HIDE DEF ConsistentInv
      <4>1. \A u \in Users : /\ security[u].exists => security'[u].exists
                             /\ settings[u].exists => settings'[u].exists
        BY <1>3, <2>2, RowsStay
      <4> QED
        BY <3>1, <4>1 DEF AccountsConsistent, ConsistentInv
    <3>3. CASE LoadUser(r)
      BY <1>1, <2>1, <3>3 DEF LoadUser, tables, LeadsTo
    <3>4. CASE ~LoadUser(r)
      <4>1. req'[r].pc # "saveUser"
        BY <2>1, <3>4 DEF ProfileLeadsTo
      <4> QED
        BY <2>1, <3>1, <3>2, <4>1 DEF SavedKnown, LeadsTo, OnlySlot
    <3> QED
      BY <3>3, <3>4
  <2> QED
    BY <1>3, <2>2, InsertUserKeeps, SaveUserKeeps
<1>4. ASSUME NEW r \in Requests, Abort(r)
      PROVE  ConsistentInv'
  BY <1>1, <1>4, AbortEnds DEF tables
<1>5. CASE Elsewhere \/ UNCHANGED vars
  BY <1>5 DEF Elsewhere, Logout, ExpireVerification, ExpireChallenge, vars, tables,
     AccountsConsistent, SavedKnown
<1> QED
  BY <1>2, <1>3, <1>4, <1>5 DEF Next, Elsewhere

LEMMA ConsistentInit == Init => ConsistentInv
<1> SUFFICES ASSUME Init
             PROVE  ConsistentInv
  OBVIOUS
<1>1. PICK registered \in SUBSET Users, address \in [Users -> Emails], p \in Secrets :
        /\ \A u, v \in registered : address[u] = address[v] => u = v
        /\ user = [u \in Users |-> IF u \in registered THEN NewUser(address[u], p)
                                                       ELSE NoUserRow]
        /\ security = [u \in Users |-> IF u \in registered THEN NewSecurity(p)
                                                           ELSE NoSecurity]
        /\ settings = [u \in Users |-> IF u \in registered THEN NewSettings ELSE NoSettings]
  BY DEF Init
<1>2. AccountsConsistent
  BY <1>1 DEF AccountsConsistent, NewUser, NoUserRow, NewSecurity, NewSettings
<1>3. SavedKnown
  BY IdleRequestTyped DEF Init, SavedKnown
<1> QED
  BY <1>2, <1>3 DEF ConsistentInv

(* No two accounts ever have one address, and none is without its security *)
(* or settings row, however sign-ups, changes of address, withdrawals and  *)
(* failures of any number of requests overlap.                             *)
THEOREM AccountsStayConsistent == Spec => []AccountsConsistent
<1>1. Spec => []TypeInv
  BY InitTyped, NextTyped, PTL DEF Spec
<1>2. Spec => []ConsistentInv
  BY <1>1, ConsistentInit, ConsistentStep, PTL DEF Spec
<1> QED
  BY <1>2, PTL DEF ConsistentInv

-----------------------------------------------------------------------------
(* Verifications *)

(* Requests that found v unused and have not used it yet, and requests     *)
(* that have used it and have not marked it yet.                           *)
Holders(v) ==
    {r \in Requests : /\ req[r].op \in {"signUp", "reset"} /\ req[r].id = v
                      /\ req[r].pc \in {"findEmail", "insertUser", "loadUser", "saveUser"}}
Markers(v) ==
    {r \in Requests : req[r].op \in {"signUp", "reset"} /\ req[r].id = v
                      /\ req[r].pc = "markUsed"}

VerificationInv ==
    \A v \in VerificationId :
      /\ ~verification[v].exists =>
           ~verification[v].used /\ Holders(v) = {} /\ Markers(v) = {}
      /\ ~verification[v].used => uses[v] <= Cardinality(Markers(v)) + faults
      /\ uses[v] + Cardinality(Holders(v)) <= Cardinality(Requests) + faults

LEMMA UsesOf ==
    ASSUME TypeInv, NEW r \in Requests, SessionStep(r) \/ ProfileStep(r),
           NEW v \in VerificationId
    PROVE  uses'[v] = IF /\ InsertUser(r) \/ SaveUser(r)
                         /\ req[r].op \in {"signUp", "reset"} /\ req[r].id = v
                      THEN uses[v] + 1 ELSE uses[v]
<1>1. uses \in [VerificationId -> Nat] /\ RequestOK(req[r])
  BY DEF TypeInv, TypeOK, RequestsOK
<1>2. CASE InsertUser(r)
  BY <1>1, <1>2 DEF InsertUser, RequestOK, ProfileOf, At, Op
<1>3. CASE SaveUser(r)
  BY <1>1, <1>3 DEF SaveUser, RequestOK, ProfileOf, At, Op
<1> QED
  BY <1>2, <1>3, StepWrites

LEMMA VerificationOf ==
    ASSUME TypeInv, VerificationInv, NEW r \in Requests, SessionStep(r) \/ ProfileStep(r),
           NEW v \in VerificationId
    PROVE  /\ verification[v].exists => verification'[v].exists
           /\ verification'[v].used <=>
                verification[v].used \/ (MarkUsed(r) /\ req[r].id = v)
<1>1. verification \in [VerificationId -> VerificationRow] /\ RequestOK(req[r])
  BY DEF TypeInv, TypeOK, RequestsOK
<1>2. CASE InsertVerification(r)
  <2>1. ~MarkUsed(r)
    BY <1>2 DEF InsertVerification, MarkUsed, At
  <2>2. PICK w \in VerificationId : ~verification[w].exists /\
          verification' = [verification EXCEPT ![w] =
             NewVerification(req[r].email, IF req[r].given THEN "SIGNUP" ELSE "RESET_PW")]
    BY <1>2 DEF InsertVerification, Lowest
  <2>3. ~verification[w].used
    BY <2>2 DEF VerificationInv
  <2> QED
    BY <1>1, <2>1, <2>2, <2>3 DEF NewVerification
<1>3. CASE MarkUsed(r)
  BY <1>1, <1>3 DEF MarkUsed, VerificationRow, RequestOK, ProfileOf, At
<1> QED
  BY <1>2, <1>3, StepWrites

LEMMA HoldersMove ==
    ASSUME NEW r \in Requests, OnlySlot(r), NEW v
    PROVE  /\ Holders(v) \ {r} = Holders(v)' \ {r} /\ Markers(v) \ {r} = Markers(v)' \ {r}
           /\ Holders(v) \in SUBSET Requests /\ Holders(v)' \in SUBSET Requests
           /\ Markers(v) \in SUBSET Requests /\ Markers(v)' \in SUBSET Requests
BY DEF OnlySlot, Holders, Markers

(* An unused verification leaves room for one more holder.                 *)
LEMMA HoldersRoom ==
    ASSUME TypeInv, VerificationInv, NEW v \in VerificationId, ~verification[v].used,
           NEW r \in Requests, r \notin Holders(v), r \notin Markers(v)
    PROVE  uses[v] + Cardinality(Holders(v)) + 1 <= Cardinality(Requests) + faults
<1>1. Holders(v) \in SUBSET Requests /\ Markers(v) \in SUBSET Requests
      /\ Holders(v) \cap Markers(v) = {}
  BY DEF Holders, Markers
<1>2. Cardinality(Holders(v) \cup Markers(v)) + 1 <= Cardinality(Requests)
  BY <1>1, CountRoom
<1>3. Cardinality(Holders(v)) + Cardinality(Markers(v)) = Cardinality(Holders(v) \cup Markers(v))
  BY <1>1, CountApart
<1>4. uses[v] <= Cardinality(Markers(v)) + faults
  BY DEF VerificationInv
<1>5. /\ uses[v] \in Nat /\ faults \in Nat /\ Cardinality(Requests) \in Nat
      /\ Cardinality(Holders(v)) \in Nat /\ Cardinality(Markers(v)) \in Nat
  BY <1>1, CountOf, RequestsFinite DEF TypeInv, TypeOK
<1> QED
  BY <1>2, <1>3, <1>4, <1>5

LEMMA VerificationBegins ==
    ASSUME TypeInv, VerificationInv, NEW r \in Requests, Begins(r),
           UNCHANGED <<verification, uses, faults>>
    PROVE  VerificationInv'
<1> SUFFICES ASSUME NEW v \in VerificationId
             PROVE  /\ ~verification[v].exists =>
                         ~verification[v].used /\ Holders(v)' = {} /\ Markers(v)' = {}
                    /\ ~verification[v].used => uses[v] <= Cardinality(Markers(v)') + faults
                    /\ uses[v] + Cardinality(Holders(v)') <= Cardinality(Requests) + faults
  BY DEF VerificationInv
<1>1. OnlySlot(r) /\ r \notin Holders(v) /\ r \notin Markers(v) /\ r \notin Markers(v)'
  BY DEF Begins, Holders, Markers
<1>2. r \in Holders(v)' => verification[v].exists /\ ~verification[v].used
  BY DEF Begins, Holders, Unused
<1>3. Markers(v)' = Markers(v) /\ (r \notin Holders(v)' => Holders(v)' = Holders(v))
  BY <1>1, HoldersMove
<1>4. /\ uses[v] \in Nat /\ faults \in Nat /\ Cardinality(Requests) \in Nat
      /\ Cardinality(Holders(v)) \in Nat
  BY <1>1, HoldersMove, CountOf, RequestsFinite DEF TypeInv, TypeOK
<1>5. r \in Holders(v)' => Cardinality(Holders(v)') = Cardinality(Holders(v)) + 1
  <2> SUFFICES ASSUME r \in Holders(v)'
               PROVE  Cardinality(Holders(v)') = Cardinality(Holders(v)) + 1
    OBVIOUS
  <2>1. /\ Holders(v) \ {r} = Holders(v)' \ {r}
        /\ Holders(v) \in SUBSET Requests /\ Holders(v)' \in SUBSET Requests
    BY <1>1, HoldersMove
  <2> HIDE DEF Holders
  <2> QED
    BY <1>1, <2>1, CountChange
<1>6. r \in Holders(v)' =>
        uses[v] + Cardinality(Holders(v)) + 1 <= Cardinality(Requests) + faults
  BY <1>1, <1>2, HoldersRoom
<1>7. uses[v] + Cardinality(Holders(v)') <= Cardinality(Requests) + faults
  <2>1. CASE r \in Holders(v)'
    BY <1>4, <1>5, <1>6, <2>1
  <2>2. CASE r \notin Holders(v)'
    BY <1>3, <2>2 DEF VerificationInv
  <2> QED
    BY <2>1, <2>2
<1> QED
  BY <1>2, <1>3, <1>7 DEF VerificationInv

LEMMA VerificationStep ==
    ASSUME TypeInv, VerificationInv, NEW r \in Requests, SessionStep(r) \/ ProfileStep(r)
    PROVE  VerificationInv'
<1> SUFFICES ASSUME NEW v \in VerificationId
             PROVE  /\ ~verification'[v].exists =>
                         ~verification'[v].used /\ Holders(v)' = {} /\ Markers(v)' = {}
                    /\ ~verification'[v].used =>
                         uses'[v] <= Cardinality(Markers(v)') + faults'
                    /\ uses'[v] + Cardinality(Holders(v)') <= Cardinality(Requests) + faults'
  BY DEF VerificationInv
<1>1. LeadsTo(r) /\ ProfileLeadsTo(r) /\ RequestOK(req[r]) /\ faults' = faults
  BY StepLeadsTo DEF TypeInv, RequestsOK, LeadsTo
<1>2. r \in Holders(v)' => r \in Holders(v)
  BY <1>1 DEF Holders, LeadsTo, ProfileLeadsTo, FindEmail, LoadUser, At
<1>3. r \in Markers(v)' => r \in Holders(v) /\ (InsertUser(r) \/ SaveUser(r))
  BY <1>1 DEF Holders, Markers, LeadsTo, ProfileLeadsTo, InsertUser, SaveUser, At
<1>4. r \in Markers(v) => MarkUsed(r) /\ verification'[v].used
  <2>1. r \in Markers(v) => MarkUsed(r) /\ req[r].id = v
    BY StepAt DEF Markers
  <2> QED
    BY <2>1, VerificationOf
<1>5. /\ Holders(v) \ {r} = Holders(v)' \ {r} /\ Markers(v) \ {r} = Markers(v)' \ {r}
      /\ Holders(v) \in SUBSET Requests /\ Holders(v)' \in SUBSET Requests
      /\ Markers(v) \in SUBSET Requests /\ Markers(v)' \in SUBSET Requests
  BY <1>1, HoldersMove DEF LeadsTo
<1>6. /\ uses[v] \in Nat /\ faults \in Nat /\ Cardinality(Requests) \in Nat
      /\ Cardinality(Holders(v)) \in Nat /\ Cardinality(Holders(v)') \in Nat
      /\ Cardinality(Markers(v)) \in Nat /\ Cardinality(Markers(v)') \in Nat
  BY <1>5, CountOf, RequestsFinite DEF TypeInv, TypeOK
<1>7. ~verification'[v].exists =>
        ~verification'[v].used /\ Holders(v)' = {} /\ Markers(v)' = {}
  <2> SUFFICES ASSUME ~verification'[v].exists
               PROVE  ~verification'[v].used /\ Holders(v)' = {} /\ Markers(v)' = {}
    OBVIOUS
  <2>1. ~verification[v].exists /\ ~verification[v].used /\ Holders(v) = {} /\ Markers(v) = {}
    BY VerificationOf DEF VerificationInv
  <2>2. ~(MarkUsed(r) /\ req[r].id = v)
    BY <1>1, <2>1 DEF MarkUsed, Markers, At, RequestOK, ProfileOf
  <2> QED
    BY <1>2, <1>3, <1>5, <2>1, <2>2, VerificationOf
<1>8. CASE /\ InsertUser(r) \/ SaveUser(r)
           /\ req[r].op \in {"signUp", "reset"} /\ req[r].id = v
  <2>1. uses'[v] = uses[v] + 1
    BY <1>8, UsesOf
  <2>2. r \in Holders(v) /\ r \notin Markers(v)
    BY <1>8 DEF Holders, Markers, InsertUser, SaveUser, At
  <2>3. r \notin Holders(v)' /\ r \in Markers(v)'
    <3>1. req'[r].pc = "markUsed"
      BY <1>1, <1>8
      DEF InsertUser, SaveUser, Moved, RequestOK, ProfileOf, At, Op, TypeInv, RequestsOK,
          Request
    <3> QED
      BY <1>1, <1>8, <3>1 DEF Holders, Markers, LeadsTo
  <2>4. /\ Cardinality(Holders(v)') = Cardinality(Holders(v)) - 1
        /\ Cardinality(Markers(v)') = Cardinality(Markers(v)) + 1
    BY <1>5, <2>2, <2>3, CountChange
  <2>5. verification'[v].used <=> verification[v].used
    BY <1>8, VerificationOf DEF InsertUser, SaveUser, MarkUsed, At
  <2>6. /\ ~verification[v].used => uses[v] <= Cardinality(Markers(v)) + faults
        /\ uses[v] + Cardinality(Holders(v)) <= Cardinality(Requests) + faults
    BY DEF VerificationInv
  <2>7. uses'[v] + Cardinality(Holders(v)') <= Cardinality(Requests) + faults'
    BY <1>1, <1>6, <2>1, <2>4, <2>6
  <2>8. ~verification'[v].used => uses'[v] <= Cardinality(Markers(v)') + faults'
    BY <1>1, <1>6, <2>1, <2>4, <2>5, <2>6
  <2> QED
    BY <1>7, <2>7, <2>8
<1>9. CASE ~(/\ InsertUser(r) \/ SaveUser(r)
             /\ req[r].op \in {"signUp", "reset"} /\ req[r].id = v)
  <2>1. uses'[v] = uses[v]
    BY <1>9, UsesOf
  <2>2. r \notin Markers(v)'
    BY <1>3, <1>9 DEF Holders
  <2>3. Holders(v)' \subseteq Holders(v)
    BY <1>2, <1>5
  <2>4. Cardinality(Holders(v)') <= Cardinality(Holders(v))
    BY <1>5, <2>3, CountOf, FS_Subset
  <2>5. uses'[v] + Cardinality(Holders(v)') <= Cardinality(Requests) + faults'
    BY <1>1, <1>6, <2>1, <2>4 DEF VerificationInv
  <2>6. ~verification'[v].used => ~verification[v].used /\ Markers(v)' = Markers(v)
    <3>1. ~verification'[v].used => ~verification[v].used
      BY VerificationOf
    <3>2. ~verification'[v].used => r \notin Markers(v)
      BY <1>4
    <3>3. r \notin Markers(v) => Markers(v)' = Markers(v)
      BY <1>5, <2>2
    <3> QED
      BY <3>1, <3>2, <3>3
  <2> QED
    BY <1>1, <1>7, <2>1, <2>5, <2>6 DEF VerificationInv
<1> QED
  BY <1>8, <1>9

LEMMA VerificationAborts ==
    ASSUME TypeInv, VerificationInv, NEW r \in Requests, Abort(r)
    PROVE  VerificationInv'
<1> SUFFICES ASSUME NEW v \in VerificationId
             PROVE  /\ ~verification[v].exists =>
                         ~verification[v].used /\ Holders(v)' = {} /\ Markers(v)' = {}
                    /\ ~verification[v].used =>
                         uses[v] <= Cardinality(Markers(v)') + (faults + 1)
                    /\ uses[v] + Cardinality(Holders(v)') <= Cardinality(Requests) + (faults + 1)
  BY AbortEnds DEF VerificationInv, tables, history
<1>1. OnlySlot(r) /\ r \notin Holders(v)' /\ r \notin Markers(v)'
  BY AbortEnds DEF Holders, Markers
<1>2. /\ Holders(v) \ {r} = Holders(v)' \ {r} /\ Markers(v) \ {r} = Markers(v)' \ {r}
      /\ Holders(v) \in SUBSET Requests /\ Holders(v)' \in SUBSET Requests
      /\ Markers(v) \in SUBSET Requests /\ Markers(v)' \in SUBSET Requests
  BY <1>1, HoldersMove
<1>3. Cardinality(Holders(v)') <= Cardinality(Holders(v))
      /\ Cardinality(Markers(v)) <= Cardinality(Markers(v)') + 1
  <2>1. Cardinality(Holders(v)') <= Cardinality(Holders(v))
    BY <1>1, <1>2, CountChange
  <2>2. Cardinality(Markers(v)) <= Cardinality(Markers(v)') + 1
    BY <1>1, <1>2, CountChange
  <2> QED
    BY <2>1, <2>2
<1>4. /\ uses[v] \in Nat /\ faults \in Nat /\ Cardinality(Requests) \in Nat
      /\ Cardinality(Holders(v)) \in Nat /\ Cardinality(Holders(v)') \in Nat
      /\ Cardinality(Markers(v)) \in Nat /\ Cardinality(Markers(v)') \in Nat
  BY <1>2, CountOf, RequestsFinite DEF TypeInv, TypeOK
<1>5. uses[v] + Cardinality(Holders(v)') <= Cardinality(Requests) + (faults + 1)
  BY <1>3, <1>4 DEF VerificationInv
<1>6. ~verification[v].used => uses[v] <= Cardinality(Markers(v)') + (faults + 1)
  BY <1>3, <1>4 DEF VerificationInv
<1>7. ~verification[v].exists =>
        ~verification[v].used /\ Holders(v)' = {} /\ Markers(v)' = {}
  BY <1>1, <1>2 DEF VerificationInv
<1> QED
  BY <1>5, <1>6, <1>7

LEMMA VerificationNext == TypeInv /\ VerificationInv /\ [Next]_vars => VerificationInv'
<1> SUFFICES ASSUME TypeInv, VerificationInv, [Next]_vars
             PROVE  VerificationInv'
  OBVIOUS
<1>1. ASSUME NEW r \in Requests, SessionRequest(r) \/ ProfileRequest(r)
      PROVE  VerificationInv'
  BY <1>1, RequestBegins, RequestsWriteNothing, VerificationBegins DEF tables, history
<1>2. ASSUME NEW v \in VerificationId, ExpireVerification(v)
      PROVE  VerificationInv'
  <2>1. /\ req' = req /\ uses' = uses /\ faults' = faults
        /\ \A w \in VerificationId : /\ verification'[w].exists = verification[w].exists
                                     /\ verification'[w].used = verification[w].used
    BY <1>2 DEF ExpireVerification, TypeInv, TypeOK, VerificationRow, history
  <2> QED
    BY <2>1 DEF VerificationInv, Holders, Markers
<1>3. ASSUME UNCHANGED <<req, uses, faults, verification>>
      PROVE  VerificationInv'
  BY <1>3 DEF VerificationInv, Holders, Markers
<1>4. CASE \/ \E d \in Devices : Logout(d)
           \/ \E c \in ChallengeId : ExpireChallenge(c)
           \/ UNCHANGED vars
  BY <1>3, <1>4 DEF Logout, ExpireChallenge, vars, tables, history
<1> QED
  BY <1>1, <1>2, <1>4, VerificationStep, VerificationAborts DEF Next

LEMMA VerificationInit == Init => VerificationInv
<1> SUFFICES ASSUME Init, NEW v \in VerificationId
             PROVE  /\ ~verification[v].exists =>
                         ~verification[v].used /\ Holders(v) = {} /\ Markers(v) = {}
                    /\ ~verification[v].used => uses[v] <= Cardinality(Markers(v)) + faults
                    /\ uses[v] + Cardinality(Holders(v)) <= Cardinality(Requests) + faults
  BY DEF VerificationInv
<1>1. /\ ~verification[v].used /\ Holders(v) = {} /\ Markers(v) = {}
      /\ uses[v] = 0 /\ faults = 0
  BY IdleRequestTyped DEF Init, NoVerification, Holders, Markers
<1>2. Cardinality({}) = 0 /\ Cardinality(Requests) \in Nat
  BY FS_EmptySet, RequestsFinite
<1> QED
  BY <1>1, <1>2

(* However many requests present one verification at once, the accounts    *)
(* created and passwords changed by it are at most as many as requests     *)
(* that can be in progress together, plus the failed calls.                *)
THEOREM VerificationUses == Spec => []VerificationUsesBounded
<1>1. Spec => []TypeInv
  BY InitTyped, NextTyped, PTL DEF Spec
<1>2. Spec => []VerificationInv
  BY <1>1, VerificationInit, VerificationNext, PTL DEF Spec
<1>3. TypeInv /\ VerificationInv => VerificationUsesBounded
  <2> SUFFICES ASSUME TypeInv, VerificationInv, NEW v \in VerificationId
               PROVE  uses[v] <= Cardinality(Requests) + faults
    BY DEF VerificationUsesBounded
  <2>1. /\ Cardinality(Holders(v)) \in Nat /\ uses[v] \in Nat /\ faults \in Nat
        /\ Cardinality(Requests) \in Nat
    BY CountOf, RequestsFinite DEF Holders, TypeInv, TypeOK
  <2> QED
    BY <2>1 DEF VerificationInv
<1> QED
  BY <1>1, <1>2, <1>3, PTL

-----------------------------------------------------------------------------
(* Challenges *)

Openers(c) ==
    {r \in Requests : /\ req[r].op = "biometricLogin" /\ req[r].id = c
                      /\ req[r].pc \in {"markChallenge", "dropSessions", "createSession"}}

ChallengeInv ==
    \A c \in ChallengeId :
      /\ ~challenge[c].used =>
           opened[c] = 0 /\ \A r \in Openers(c) : req[r].pc = "markChallenge"
      /\ opened[c] + Cardinality(Openers(c)) <= Cardinality(Requests)

LEMMA OpenersMove ==
    ASSUME NEW r \in Requests, OnlySlot(r), NEW c
    PROVE  /\ Openers(c) \ {r} = Openers(c)' \ {r}
           /\ Openers(c) \in SUBSET Requests /\ Openers(c)' \in SUBSET Requests
BY DEF OnlySlot, Openers

(* What a step of request r makes of challenge c.                          *)
LEMMA ChallengeOf ==
    ASSUME TypeInv, NEW r \in Requests, SessionStep(r) \/ ProfileStep(r),
           NEW c \in ChallengeId
    PROVE  /\ challenge'[c].used <=>
                challenge[c].used \/ (MarkChallenge(r) /\ req[r].id = c)
           /\ opened'[c] = IF CreateSession(r) /\ r \in Openers(c)
                           THEN opened[c] + 1 ELSE opened[c]
<1>1. /\ challenge \in [ChallengeId -> ChallengeRow] /\ opened \in [ChallengeId -> Nat]
      /\ RequestOK(req[r])
  BY DEF TypeInv, TypeOK, RequestsOK
<1>2. challenge'[c].used <=> challenge[c].used \/ (MarkChallenge(r) /\ req[r].id = c)
  <2>1. CASE MarkChallenge(r)
    BY <1>1, <2>1 DEF MarkChallenge, ChallengeRow, RequestOK, SessionsOf, At
  <2>2. CASE InsertChallenge(r)
    BY <1>1, <2>2 DEF InsertChallenge, MarkChallenge, ChallengeRow, At, Lowest
  <2> QED
    BY <2>1, <2>2, StepWrites
<1>3. opened'[c] = IF CreateSession(r) /\ r \in Openers(c) THEN opened[c] + 1 ELSE opened[c]
  <2>1. CASE CreateSession(r)
    BY <1>1, <2>1 DEF CreateSession, Openers, At, Op, RequestOK, SessionsOf
  <2> QED
    BY <2>1, StepWrites
<1> QED
  BY <1>2, <1>3

LEMMA ChallengeStep ==
    ASSUME TypeInv, ChallengeInv, NEW r \in Requests, SessionStep(r) \/ ProfileStep(r)
    PROVE  ChallengeInv'
<1> SUFFICES ASSUME NEW c \in ChallengeId
             PROVE  /\ ~challenge'[c].used =>
                         /\ opened'[c] = 0
                         /\ \A x \in Openers(c)' : req'[x].pc = "markChallenge"
                    /\ opened'[c] + Cardinality(Openers(c)') <= Cardinality(Requests)
  BY DEF ChallengeInv
<1>1. LeadsTo(r) /\ OnlySlot(r)
  BY StepLeadsTo DEF LeadsTo
<1>2. r \in Openers(c)' => r \in Openers(c) /\ ~CreateSession(r)
  BY <1>1
  DEF Openers, LeadsTo, ResetPin, MarkChallenge, MarkUsed, DropSessions, CreateSession, At,
      TypeInv, RequestsOK, RequestOK, SessionsOf, ProfileOf
<1>3. /\ Openers(c) \ {r} = Openers(c)' \ {r}
      /\ Openers(c) \in SUBSET Requests /\ Openers(c)' \in SUBSET Requests
  BY <1>1, OpenersMove
<1>4. /\ Cardinality(Openers(c)) \in Nat /\ Cardinality(Openers(c)') \in Nat
      /\ opened[c] \in Nat /\ Cardinality(Requests) \in Nat
  BY <1>3, CountOf, RequestsFinite DEF TypeInv, TypeOK
<1>5. opened'[c] + Cardinality(Openers(c)') <= Cardinality(Requests)
  <2>1. opened[c] + Cardinality(Openers(c)) <= Cardinality(Requests)
    BY DEF ChallengeInv
  <2>2. CASE CreateSession(r) /\ r \in Openers(c)
    <3>1. opened'[c] = opened[c] + 1
      BY <2>2, ChallengeOf
    <3>2. r \notin Openers(c)'
      BY <1>2, <2>2
    <3>3. Cardinality(Openers(c)') = Cardinality(Openers(c)) - 1
      BY <1>3, <2>2, <3>2, CountChange
    <3> QED
      BY <1>4, <2>1, <3>1, <3>3
  <2>3. CASE ~(CreateSession(r) /\ r \in Openers(c))
    <3>1. opened'[c] = opened[c]
      BY <2>3, ChallengeOf
    <3>2. Openers(c)' \subseteq Openers(c)
      BY <1>2, <1>3
    <3>3. Cardinality(Openers(c)') <= Cardinality(Openers(c))
      BY <1>3, <3>2, CountOf, FS_Subset
    <3> QED
      BY <1>4, <2>1, <3>1, <3>3
  <2> QED
    BY <2>2, <2>3
<1>6. ASSUME ~challenge'[c].used
      PROVE  opened'[c] = 0 /\ \A x \in Openers(c)' : req'[x].pc = "markChallenge"
  <2>1. ~challenge[c].used /\ ~(MarkChallenge(r) /\ req[r].id = c)
    BY <1>6, ChallengeOf
  <2>2. opened[c] = 0 /\ \A x \in Openers(c) : req[x].pc = "markChallenge"
    BY <2>1 DEF ChallengeInv
  <2>3. r \notin Openers(c)'
    BY <1>1, <1>2, <2>1, <2>2
    DEF Openers, LeadsTo, ResetPin, MarkChallenge, MarkUsed, DropSessions, At
  <2>4. \A x \in Openers(c)' : req'[x].pc = "markChallenge"
    BY <1>1, <1>3, <2>2, <2>3 DEF OnlySlot
  <2>5. ~(CreateSession(r) /\ r \in Openers(c))
    BY <2>2 DEF CreateSession, At
  <2> QED
    BY <2>2, <2>4, <2>5, ChallengeOf
<1> QED
  BY <1>5, <1>6

LEMMA ChallengeBegins ==
    ASSUME TypeInv, ChallengeInv, NEW r \in Requests, Begins(r),
           UNCHANGED <<challenge, opened>>
    PROVE  ChallengeInv'
<1> SUFFICES ASSUME NEW c \in ChallengeId
             PROVE  /\ ~challenge[c].used =>
                         /\ opened[c] = 0
                         /\ \A x \in Openers(c)' : req'[x].pc = "markChallenge"
                    /\ opened[c] + Cardinality(Openers(c)') <= Cardinality(Requests)
  BY DEF ChallengeInv
<1>1. OnlySlot(r) /\ r \notin Openers(c)
  BY DEF Begins, Openers
<1>2. r \in Openers(c)' => req'[r].pc = "markChallenge" /\ ~challenge[c].used
  BY DEF Begins, Openers
<1>3. /\ Openers(c) \ {r} = Openers(c)' \ {r}
      /\ Openers(c) \in SUBSET Requests /\ Openers(c)' \in SUBSET Requests
  BY <1>1, OpenersMove
<1>4. ~challenge[c].used => \A x \in Openers(c)' : req'[x].pc = "markChallenge"
  BY <1>1, <1>2, <1>3 DEF ChallengeInv, OnlySlot
<1>5. CASE r \in Openers(c)'
  <2>1. opened[c] = 0
    BY <1>2, <1>5 DEF ChallengeInv
  <2>2. Cardinality(Openers(c)') <= Cardinality(Requests) /\ Cardinality(Openers(c)') \in Nat
    BY <1>3, CountOf
  <2> QED
    BY <1>4, <2>1, <2>2, RequestsFinite
<1>6. CASE r \notin Openers(c)'
  <2>1. Openers(c)' = Openers(c)
    BY <1>1, <1>3, <1>6
  <2> QED
    BY <1>4, <2>1 DEF ChallengeInv
<1> QED
  BY <1>5, <1>6

LEMMA ChallengeAborts ==
    ASSUME TypeInv, ChallengeInv, NEW r \in Requests, Abort(r)
    PROVE  ChallengeInv'
<1> SUFFICES ASSUME NEW c \in ChallengeId
             PROVE  /\ ~challenge[c].used =>
                         /\ opened[c] = 0
                         /\ \A x \in Openers(c)' : req'[x].pc = "markChallenge"
                    /\ opened[c] + Cardinality(Openers(c)') <= Cardinality(Requests)
  BY AbortEnds DEF ChallengeInv, tables, history
<1>1. OnlySlot(r) /\ r \notin Openers(c)'
  BY AbortEnds DEF Openers
<1>2. /\ Openers(c) \ {r} = Openers(c)' \ {r}
      /\ Openers(c) \in SUBSET Requests /\ Openers(c)' \in SUBSET Requests
  BY <1>1, OpenersMove
<1>3. /\ Cardinality(Openers(c)) \in Nat /\ Cardinality(Openers(c)') \in Nat
      /\ opened[c] \in Nat /\ Cardinality(Requests) \in Nat
  BY <1>2, CountOf, RequestsFinite DEF TypeInv, TypeOK
<1>4. Cardinality(Openers(c)') <= Cardinality(Openers(c))
  BY <1>1, <1>2, <1>3, CountChange
<1>5. ~challenge[c].used => \A x \in Openers(c)' : req'[x].pc = "markChallenge"
  BY <1>1, <1>2 DEF ChallengeInv, OnlySlot
<1>6. opened[c] + Cardinality(Openers(c)') <= Cardinality(Requests)
  BY <1>3, <1>4 DEF ChallengeInv
<1> QED
  BY <1>5, <1>6 DEF ChallengeInv

LEMMA ChallengeNext == TypeInv /\ ChallengeInv /\ [Next]_vars => ChallengeInv'
<1> SUFFICES ASSUME TypeInv, ChallengeInv, [Next]_vars
             PROVE  ChallengeInv'
  OBVIOUS
<1>1. ASSUME NEW r \in Requests, SessionRequest(r) \/ ProfileRequest(r)
      PROVE  ChallengeInv'
  BY <1>1, RequestBegins, RequestsWriteNothing, ChallengeBegins DEF tables, history
<1>2. ASSUME NEW c \in ChallengeId, ExpireChallenge(c)
      PROVE  ChallengeInv'
  <2>1. /\ req' = req /\ opened' = opened
        /\ \A x \in ChallengeId : challenge'[x].used = challenge[x].used
    BY <1>2 DEF ExpireChallenge, TypeInv, TypeOK, ChallengeRow, history
  <2> QED
    BY <2>1 DEF ChallengeInv, Openers
<1>3. ASSUME UNCHANGED <<req, opened, challenge>>
      PROVE  ChallengeInv'
  BY <1>3 DEF ChallengeInv, Openers
<1>4. CASE \/ \E d \in Devices : Logout(d)
           \/ \E v \in VerificationId : ExpireVerification(v)
           \/ UNCHANGED vars
  BY <1>3, <1>4 DEF Logout, ExpireVerification, vars, tables, history
<1> QED
  BY <1>1, <1>2, <1>4, ChallengeStep, ChallengeAborts DEF Next

LEMMA ChallengeInit == Init => ChallengeInv
<1> SUFFICES ASSUME Init, NEW c \in ChallengeId
             PROVE  /\ opened[c] = 0 /\ \A r \in Openers(c) : req[r].pc = "markChallenge"
                    /\ opened[c] + Cardinality(Openers(c)) <= Cardinality(Requests)
  BY DEF ChallengeInv
<1>1. opened[c] = 0 /\ Openers(c) = {}
  BY IdleRequestTyped DEF Init, Openers
<1>2. Cardinality({}) = 0 /\ Cardinality(Requests) \in Nat
  BY FS_EmptySet, RequestsFinite
<1> QED
  BY <1>1, <1>2

(* A challenge opens at most as many sessions as requests can be in        *)
(* progress together, whatever fails: it is marked before a session is     *)
(* opened with it.                                                         *)
THEOREM ChallengeUses == Spec => []ChallengeUsesBounded
<1>1. Spec => []TypeInv
  BY InitTyped, NextTyped, PTL DEF Spec
<1>2. Spec => []ChallengeInv
  BY <1>1, ChallengeInit, ChallengeNext, PTL DEF Spec
<1>3. TypeInv /\ ChallengeInv => ChallengeUsesBounded
  <2> SUFFICES ASSUME TypeInv, ChallengeInv, NEW c \in ChallengeId
               PROVE  opened[c] <= Cardinality(Requests)
    BY DEF ChallengeUsesBounded
  <2>1. /\ Cardinality(Openers(c)) \in Nat /\ opened[c] \in Nat
        /\ Cardinality(Requests) \in Nat
    BY CountOf, RequestsFinite DEF Openers, TypeInv, TypeOK
  <2> QED
    BY <2>1 DEF ChallengeInv
<1> QED
  BY <1>1, <1>2, <1>3, PTL

-----------------------------------------------------------------------------
(* Sessions *)

Refreshes(r) == req[r].pc \in {"findSession", "saveSession"}

(* Requests that are about to add a session to those of u.                 *)
Pending(u) ==
    {r \in Requests : /\ req[r].user = u
                      /\ \/ req[r].pc = "createSession"
                         \/ req[r].pc = "saveSession" /\ session[req[r].id].state # "LIVE"}

SessionInv ==
    /\ \A r \in Requests : Refreshes(r) =>
         session[req[r].id].user = req[r].user /\ session[req[r].id].state # "NONE"
    /\ \A u \in Users : Cardinality(LiveSessions(u)) + Cardinality(Pending(u))
                           <= Cardinality(Requests)

Creates(u) == \E r \in Requests : req[r].pc = "createSession" /\ req[r].user = u

LoginInv ==
    faults = 0 /\ "reset" \notin ops =>
        \A u \in Users : (\E s \in SessionId : session[s].user = u)
                           => LiveSessions(u) # {} \/ Creates(u)

LEMMA LiveSessionsFinite ==
    ASSUME NEW L \in SUBSET SessionId
    PROVE  IsFiniteSet(L) /\ Cardinality(L) \in Nat
<1>1. IsFiniteSet(SessionId)
  BY AccountAssumption, FS_Interval DEF SessionId
<1> QED
  BY <1>1, FS_Subset, FS_CardinalityType

(* Sessions and pending requests: either none is added, or one session for *)
(* one request, or all sessions are dropped.                               *)
LEMMA SumBounded ==
    ASSUME NEW L \in SUBSET SessionId, NEW M \in SUBSET SessionId,
           NEW P \in SUBSET Requests, NEW Q \in SUBSET Requests,
           Cardinality(L) + Cardinality(P) <= Cardinality(Requests),
           \/ M \subseteq L /\ Q \subseteq P
           \/ \E s, r : M \subseteq L \cup {s} /\ r \in P /\ Q \subseteq P \ {r}
           \/ M = {}
    PROVE  Cardinality(M) + Cardinality(Q) <= Cardinality(Requests)
<1>1. /\ IsFiniteSet(L) /\ Cardinality(L) \in Nat /\ Cardinality(M) \in Nat
      /\ IsFiniteSet(P) /\ Cardinality(P) \in Nat /\ Cardinality(Q) \in Nat
      /\ Cardinality(Requests) \in Nat /\ Cardinality(Q) <= Cardinality(Requests)
  BY LiveSessionsFinite, CountOf, RequestsFinite
<1>2. CASE M \subseteq L /\ Q \subseteq P
  <2>1. Cardinality(M) <= Cardinality(L) /\ Cardinality(Q) <= Cardinality(P)
    BY <1>1, <1>2, FS_Subset
  <2> QED
    BY <1>1, <2>1
<1>3. ASSUME NEW s, NEW r, M \subseteq L \cup {s}, r \in P, Q \subseteq P \ {r}
      PROVE  Cardinality(M) + Cardinality(Q) <= Cardinality(Requests)
  <2>1. /\ IsFiniteSet(L \cup {s}) /\ Cardinality(L \cup {s}) \in Nat
        /\ Cardinality(L \cup {s}) <= Cardinality(L) + 1
    <3>1. /\ IsFiniteSet(L \cup {s})
          /\ Cardinality(L \cup {s}) = IF s \in L THEN Cardinality(L) ELSE Cardinality(L) + 1
      BY <1>1, FS_AddElement
    <3> QED
      BY <1>1, <3>1
  <2>2. IsFiniteSet(P \ {r}) /\ Cardinality(P \ {r}) = Cardinality(P) - 1
    BY <1>1, <1>3, FS_RemoveElement
  <2>3. Cardinality(M) <= Cardinality(L \cup {s})
    BY <1>3, <2>1, FS_Subset
  <2>4. Cardinality(Q) <= Cardinality(P \ {r})
    BY <1>3, <2>2, FS_Subset
  <2> QED
    BY <1>1, <2>1, <2>2, <2>3, <2>4
<1>4. CASE M = {}
  BY <1>1, <1>4, FS_EmptySet
<1> QED
  BY <1>2, <1>3, <1>4

LEMMA SessionSetsTyped ==
    ASSUME NEW u
    PROVE  /\ LiveSessions(u) \in SUBSET SessionId /\ LiveSessions(u)' \in SUBSET SessionId
           /\ Pending(u) \in SUBSET Requests /\ Pending(u)' \in SUBSET Requests
BY DEF LiveSessions, Pending

(* A row keeps its user once it exists.                                    *)
LEMMA SessionsStay ==
    ASSUME TypeInv, NEW r \in Requests, SessionStep(r) \/ ProfileStep(r),
           NEW s \in SessionId, session[s].state # "NONE"
    PROVE  session'[s].state # "NONE" /\ session'[s].user = session[s].user
<1>1. session \in [SessionId -> SessionRow]
  BY DEF TypeInv, TypeOK
<1>2. CASE DropSessions(r)
  BY <1>1, <1>2 DEF DropSessions, SessionRow
<1>3. CASE CreateSession(r)
  BY <1>1, <1>3 DEF CreateSession, Lowest
<1>4. CASE SaveSession(r)
  BY <1>1, <1>4 DEF SaveSession, SessionRow
<1> QED
  BY <1>2, <1>3, <1>4, StepWrites

RefreshesOwn ==
    \A r \in Requests : Refreshes(r) =>
        session[req[r].id].user = req[r].user /\ session[req[r].id].state # "NONE"

LEMMA RefreshersStep ==
    ASSUME TypeInv, RefreshesOwn, NEW r \in Requests, SessionStep(r) \/ ProfileStep(r)
    PROVE  RefreshesOwn'
<1> SUFFICES ASSUME NEW x \in Requests, Refreshes(x)'
             PROVE  session'[req'[x].id].user = req'[x].user
                    /\ session'[req'[x].id].state # "NONE"
  BY DEF RefreshesOwn
<1>1. LeadsTo(r)
  BY StepLeadsTo
<1>2. /\ Refreshes(x) /\ req'[x].id = req[x].id /\ req'[x].user = req[x].user
  <2>1. CASE x = r
    BY <1>1, <2>1 DEF LeadsTo, Refreshes, FindSession, At
  <2>2. CASE x # r
    BY <1>1, <2>2 DEF LeadsTo, OnlySlot, Refreshes
  <2> QED
    BY <2>1, <2>2
<1>3. req[x].id \in SessionId
  BY <1>2 DEF Refreshes, TypeInv, RequestsOK, RequestOK, SessionsOf
<1> QED
  BY <1>2, <1>3, SessionsStay DEF RefreshesOwn

LEMMA DropSessionsBounded ==
    ASSUME TypeInv, SessionInv, NEW r \in Requests, DropSessions(r), NEW u \in Users
    PROVE  Cardinality(LiveSessions(u)') + Cardinality(Pending(u)') <= Cardinality(Requests)
<1>1. OnlySlot(r) /\ req'[r].pc \in {"createSession", "idle"}
      /\ (req'[r].pc = "createSession" => req'[r].user = req[r].user)
  <2>1. LeadsTo(r)
    BY StepLeadsTo DEF SessionStep
  <2>2. req'[r].pc \in {"createSession", "idle"}
    BY IdleRequestTyped
    DEF DropSessions, Finished, Moved, TypeInv, RequestsOK, Request
  <2> QED
    BY <2>1, <2>2 DEF LeadsTo
<1>2. session \in [SessionId -> SessionRow]
  BY DEF TypeInv, TypeOK
<1>3. \A s \in SessionId :
        /\ session'[s].user = session[s].user
        /\ session[s].user # req[r].user => session'[s] = session[s]
        /\ session[s].user = req[r].user => session'[s].state # "LIVE"
  BY <1>2 DEF DropSessions, LiveSessions, SessionRow, UserOf
<1>4. CASE u = req[r].user
  <2>1. LiveSessions(u)' = {}
    BY <1>3, <1>4 DEF LiveSessions
  <2> QED
    BY <2>1, SumBounded, SessionSetsTyped DEF SessionInv
<1>5. CASE u # req[r].user
  <2>1. LiveSessions(u)' \subseteq LiveSessions(u)
    BY <1>3, <1>5 DEF LiveSessions
  <2>2. ASSUME NEW x \in Pending(u)'
        PROVE  x \in Pending(u)
    <3>1. x \in Requests /\ req'[x].user = u /\ x # r /\ req'[x] = req[x]
      BY <1>1, <1>5, <2>2 DEF Pending, OnlySlot
    <3>2. req[x].pc = "saveSession" =>
            req[x].id \in SessionId /\ session[req[x].id].user = u
      BY <3>1
      DEF SessionInv, Refreshes, TypeInv, RequestsOK, RequestOK, SessionsOf
    <3> QED
      BY <1>3, <1>5, <2>2, <3>1, <3>2 DEF Pending
  <2> QED
    BY <2>1, <2>2, SumBounded, SessionSetsTyped DEF SessionInv
<1> QED
  BY <1>4, <1>5

LEMMA CreateSessionBounded ==
    ASSUME TypeInv, SessionInv, NEW r \in Requests, CreateSession(r), NEW u \in Users
    PROVE  Cardinality(LiveSessions(u)') + Cardinality(Pending(u)') <= Cardinality(Requests)
<1>1. OnlySlot(r) /\ req'[r].pc \in {"findDevice", "idle"} /\ req[r].pc = "createSession"
  <2>1. LeadsTo(r)
    BY StepLeadsTo DEF SessionStep
  <2>2. req'[r].pc \in {"findDevice", "idle"}
    BY IdleRequestTyped
    DEF CreateSession, Finished, Moved, TypeInv, RequestsOK, Request
  <2> QED
    BY <2>1, <2>2 DEF LeadsTo, CreateSession, At
<1>2. PICK s \in SessionId : session[s].state = "NONE" /\
        session' = [session EXCEPT ![s] = [state |-> "LIVE", user |-> req[r].user]]
  BY DEF CreateSession, Lowest, UserOf
<1>3. \A t \in SessionId : session'[t] = IF t = s THEN [state |-> "LIVE", user |-> req[r].user]
                                                 ELSE session[t]
  BY <1>2 DEF TypeInv, TypeOK
<1>4. ASSUME NEW x \in Pending(u)'
      PROVE  x \in Pending(u) /\ x # r
  <2>1. x \in Requests /\ req'[x].user = u /\ x # r /\ req'[x] = req[x]
    BY <1>1, <1>4 DEF Pending, OnlySlot
  <2>2. req[x].pc = "saveSession" =>
          req[x].id \in SessionId /\ session[req[x].id].state # "NONE"
    BY <2>1
    DEF SessionInv, Refreshes, TypeInv, RequestsOK, RequestOK, SessionsOf
  <2> QED
    BY <1>2, <1>3, <1>4, <2>1, <2>2 DEF Pending
<1>5. CASE u = req[r].user
  <2>1. LiveSessions(u)' \subseteq LiveSessions(u) \cup {s} /\ r \in Pending(u)
    BY <1>1, <1>3, <1>5 DEF LiveSessions, Pending
  <2>2. \E t, x : /\ LiveSessions(u)' \subseteq LiveSessions(u) \cup {t}
                 /\ x \in Pending(u) /\ Pending(u)' \subseteq Pending(u) \ {x}
    <3>1. Pending(u)' \subseteq Pending(u) \ {r}
      BY <1>4
    <3> QED
      BY <2>1, <3>1
  <2> QED
    BY <2>2, SumBounded, SessionSetsTyped DEF SessionInv
<1>6. CASE u # req[r].user
  <2>1. LiveSessions(u)' \subseteq LiveSessions(u)
    BY <1>3, <1>6 DEF LiveSessions
  <2> QED
    BY <1>4, <2>1, SumBounded, SessionSetsTyped DEF SessionInv
<1> QED
  BY <1>5, <1>6

LEMMA SaveSessionBounded ==
    ASSUME TypeInv, SessionInv, NEW r \in Requests, SaveSession(r), NEW u \in Users
    PROVE  Cardinality(LiveSessions(u)') + Cardinality(Pending(u)') <= Cardinality(Requests)
<1> DEFINE s == req[r].id
<1>1. OnlySlot(r) /\ req'[r].pc = "idle" /\ req[r].pc = "saveSession"
  BY IdleRequestTyped DEF SaveSession, Finished, TypeInv, RequestsOK, OnlySlot, At
<1>2. s \in SessionId /\ session[s].user = req[r].user
  BY <1>1 DEF SessionInv, Refreshes, TypeInv, RequestsOK, RequestOK, SessionsOf
<1>3. \A t \in SessionId : /\ session'[t].user = session[t].user
                           /\ session'[t].state = IF t = s THEN "LIVE" ELSE session[t].state
  BY <1>2 DEF SaveSession, TypeInv, TypeOK, SessionRow
<1>4. ASSUME NEW x \in Pending(u)'
      PROVE  x \in Pending(u) /\ x # r
  <2>1. x \in Requests /\ req'[x].user = u /\ x # r /\ req'[x] = req[x]
    BY <1>1, <1>4 DEF Pending, OnlySlot
  <2>2. req[x].pc = "saveSession" => req[x].id \in SessionId
    BY <2>1 DEF TypeInv, RequestsOK, RequestOK, SessionsOf
  <2> QED
    BY <1>3, <1>4, <2>1, <2>2 DEF Pending
<1>5. CASE u = req[r].user /\ session[s].state # "LIVE"
  <2>1. LiveSessions(u)' \subseteq LiveSessions(u) \cup {s} /\ r \in Pending(u)
    BY <1>1, <1>3, <1>5 DEF LiveSessions, Pending
  <2>2. \E t, x : /\ LiveSessions(u)' \subseteq LiveSessions(u) \cup {t}
                 /\ x \in Pending(u) /\ Pending(u)' \subseteq Pending(u) \ {x}
    <3>1. Pending(u)' \subseteq Pending(u) \ {r}
      BY <1>4
    <3> QED
      BY <2>1, <3>1
  <2> QED
    BY <2>2, SumBounded, SessionSetsTyped DEF SessionInv
<1>6. CASE u # req[r].user \/ session[s].state = "LIVE"
  <2>1. LiveSessions(u)' \subseteq LiveSessions(u)
    BY <1>2, <1>3, <1>6 DEF LiveSessions
  <2> QED
    BY <1>4, <2>1, SumBounded, SessionSetsTyped DEF SessionInv
<1> QED
  BY <1>5, <1>6

(* Other steps add nothing to what is live or pending.                     *)
LEMMA SessionsUnwritten ==
    ASSUME TypeInv, SessionInv, NEW r \in Requests, OnlySlot(r), session' = session,
           req'[r].pc # "createSession",
           req'[r].pc = "saveSession" => session[req'[r].id].state = "LIVE", NEW u \in Users
    PROVE  Cardinality(LiveSessions(u)') + Cardinality(Pending(u)') <= Cardinality(Requests)
<1>1. LiveSessions(u)' \subseteq LiveSessions(u)
  BY DEF LiveSessions
<1>2. Pending(u)' \subseteq Pending(u)
  BY DEF Pending, OnlySlot
<1> QED
  BY <1>1, <1>2, SumBounded, SessionSetsTyped DEF SessionInv

LEMMA SessionNext == TypeInv /\ SessionInv /\ [Next]_vars => SessionInv'
<1> SUFFICES ASSUME TypeInv, SessionInv, [Next]_vars
             PROVE  SessionInv'
  OBVIOUS
<1>1. RefreshesOwn
  BY DEF SessionInv, RefreshesOwn
<1>2. ASSUME NEW r \in Requests, SessionRequest(r) \/ ProfileRequest(r)
      PROVE  SessionInv'
  <2>1. Begins(r) /\ session' = session
    BY <1>2, RequestBegins, RequestsWriteNothing DEF tables
  <2>2. RefreshesOwn'
    BY <1>1, <2>1 DEF Begins, OnlySlot, RefreshesOwn, Refreshes, LiveSessions
  <2>3. \A u \in Users : Cardinality(LiveSessions(u)') + Cardinality(Pending(u)')
                         <= Cardinality(Requests)
    BY <2>1, SessionsUnwritten DEF Begins
  <2> QED
    BY <2>2, <2>3 DEF SessionInv, RefreshesOwn
<1>3. ASSUME NEW r \in Requests, SessionStep(r) \/ ProfileStep(r)
      PROVE  SessionInv'
  <2>1. RefreshesOwn'
    BY <1>1, <1>3, RefreshersStep
  <2>2. ASSUME NEW u \in Users, ~DropSessions(r), ~CreateSession(r), ~SaveSession(r)
        PROVE  Cardinality(LiveSessions(u)') + Cardinality(Pending(u)') <= Cardinality(Requests)
    <3>1. LeadsTo(r) /\ session' = session
      BY <1>3, <2>2, StepLeadsTo, StepWrites
    <3>2. req'[r].pc = "saveSession" => session[req'[r].id].state = "LIVE"
      BY <3>1, IdleRequestTyped
      DEF LeadsTo, FindSession, Finished, TypeInv, RequestsOK, Request
    <3> QED
      BY <2>2, <3>1, <3>2, SessionsUnwritten DEF LeadsTo
  <2>3. \A u \in Users : Cardinality(LiveSessions(u)') + Cardinality(Pending(u)')
                         <= Cardinality(Requests)
    BY <2>2, DropSessionsBounded, CreateSessionBounded, SaveSessionBounded
  <2> QED
    BY <2>1, <2>3 DEF SessionInv, RefreshesOwn
<1>4. ASSUME NEW r \in Requests, Abort(r)
      PROVE  SessionInv'
  <2>1. OnlySlot(r) /\ session' = session /\ req'[r].pc = "idle"
    BY <1>4, AbortEnds DEF tables
  <2>2. RefreshesOwn'
    BY <1>1, <2>1 DEF OnlySlot, RefreshesOwn, Refreshes
  <2>3. \A u \in Users : Cardinality(LiveSessions(u)') + Cardinality(Pending(u)')
                         <= Cardinality(Requests)
    BY <2>1, SessionsUnwritten
  <2> QED
    BY <2>2, <2>3 DEF SessionInv, RefreshesOwn
<1>5. CASE Elsewhere \/ UNCHANGED vars
  <2>1. req' = req /\ session' = session
    BY <1>5 DEF Elsewhere, Logout, ExpireVerification, ExpireChallenge, vars, tables
  <2> QED
    BY <2>1 DEF SessionInv, Refreshes, LiveSessions, Pending
<1> QED
  BY <1>2, <1>3, <1>4, <1>5 DEF Next, Elsewhere

LEMMA SessionInit == Init => SessionInv
<1> SUFFICES ASSUME Init
             PROVE  SessionInv
  OBVIOUS
<1>1. \A r \in Requests : ~Refreshes(r)
  BY IdleRequestTyped DEF Init, Refreshes
<1>2. \A u \in Users : LiveSessions(u) = {} /\ Pending(u) = {}
  BY IdleRequestTyped DEF Init, LiveSessions, Pending, NoSession
<1>3. Cardinality({}) = 0 /\ Cardinality(Requests) \in Nat
  BY FS_EmptySet, RequestsFinite
<1>4. \A u \in Users : Cardinality(LiveSessions(u)) + Cardinality(Pending(u))
                       <= Cardinality(Requests)
  <2> SUFFICES ASSUME NEW u \in Users
               PROVE  Cardinality(LiveSessions(u)) + Cardinality(Pending(u))
                        <= Cardinality(Requests)
    OBVIOUS
  <2>1. Cardinality(LiveSessions(u)) = 0 /\ Cardinality(Pending(u)) = 0
    BY <1>2, <1>3
  <2> QED
    BY <1>3, <2>1
<1> QED
  BY <1>1, <1>4 DEF SessionInv

(* Logins and refreshes that overlap never leave a user with more sessions *)
(* than requests can be in progress together.                              *)
THEOREM SessionsAreBounded == Spec => []SessionsBounded
<1>1. Spec => []TypeInv
  BY InitTyped, NextTyped, PTL DEF Spec
<1>2. Spec => []SessionInv
  BY <1>1, SessionInit, SessionNext, PTL DEF Spec
<1>3. SessionInv => SessionsBounded
  <2> SUFFICES ASSUME SessionInv, NEW u \in Users
               PROVE  Cardinality(LiveSessions(u)) <= Cardinality(Requests)
    BY DEF SessionsBounded
  <2>1. /\ Cardinality(LiveSessions(u)) \in Nat /\ Cardinality(Pending(u)) \in Nat
        /\ Cardinality(Requests) \in Nat
    BY SessionSetsTyped, LiveSessionsFinite, CountOf, RequestsFinite
  <2> QED
    BY <2>1 DEF SessionInv
<1> QED
  BY <1>2, <1>3, PTL

LEMMA LoginStep ==
    ASSUME TypeInv, LoginInv, NEW r \in Requests, SessionStep(r) \/ ProfileStep(r)
    PROVE  LoginInv'
<1>1. LeadsTo(r) /\ (~Idle(r) => req[r].op \in ops) /\ session \in [SessionId -> SessionRow]
  BY StepLeadsTo DEF TypeInv, TypeOK, RequestsOK, Op
<1> SUFFICES ASSUME faults = 0, "reset" \notin ops, NEW u \in Users,
                    \E s \in SessionId : session'[s].user = u
             PROVE  LiveSessions(u)' # {} \/ Creates(u)'
  BY <1>1 DEF LoginInv, LeadsTo
<1>2. CASE DropSessions(r)
  <2>1. req'[r].pc = "createSession" /\ req'[r].user = req[r].user
    <3>1. req[r].op # "reset"
      BY <1>1, <1>2 DEF DropSessions, Idle, At
    <3> QED
      BY <1>1, <1>2, <3>1
      DEF DropSessions, Moved, Op, LeadsTo, TypeInv, RequestsOK, Request
  <2>2. CASE u = req[r].user
    BY <2>1, <2>2 DEF Creates
  <2>3. CASE u # req[r].user
    <3>1. \A s \in SessionId : session'[s].user = session[s].user
      BY <1>1, <1>2 DEF DropSessions, SessionRow
    <3>2. \A s \in LiveSessions(u) : session'[s] = session[s]
      BY <1>1, <1>2, <2>3 DEF DropSessions, LiveSessions, UserOf
    <3>3. Creates(u) => Creates(u)'
      BY <1>1, <1>2 DEF Creates, LeadsTo, OnlySlot, DropSessions, At
    <3> QED
      BY <3>1, <3>2, <3>3 DEF LoginInv, LiveSessions
  <2> QED
    BY <2>2, <2>3
<1>3. CASE CreateSession(r)
  <2>1. PICK s \in SessionId : session'[s] = [state |-> "LIVE", user |-> req[r].user]
          /\ \A t \in SessionId \ {s} : session'[t] = session[t]
          /\ session[s].state = "NONE"
    BY <1>1, <1>3 DEF CreateSession, Lowest, UserOf
  <2>2. CASE u = req[r].user
    BY <2>1, <2>2 DEF LiveSessions
  <2>3. CASE u # req[r].user
    <3>1. \E t \in SessionId : session[t].user = u
      BY <2>1, <2>3
    <3>2. LiveSessions(u) \subseteq LiveSessions(u)'
      BY <2>1 DEF LiveSessions
    <3>3. Creates(u) => Creates(u)'
      BY <1>1, <2>3 DEF Creates, LeadsTo, OnlySlot
    <3> QED
      BY <3>1, <3>2, <3>3 DEF LoginInv
  <2> QED
    BY <2>2, <2>3
<1>4. CASE SaveSession(r)
  <2>1. req[r].id \in SessionId /\ req[r].pc = "saveSession"
    BY <1>4 DEF SaveSession, TypeInv, RequestsOK, RequestOK, SessionsOf, At
  <2>2. \A s \in SessionId : /\ session'[s].user = session[s].user
                             /\ session[s].state = "LIVE" => session'[s].state = "LIVE"
    BY <1>1, <1>4, <2>1 DEF SaveSession, SessionRow
  <2>3. Creates(u) => Creates(u)'
    BY <1>1, <2>1 DEF Creates, LeadsTo, OnlySlot
  <2> QED
    BY <2>2, <2>3 DEF LoginInv, LiveSessions
<1>5. CASE ~DropSessions(r) /\ ~CreateSession(r) /\ ~SaveSession(r)
  <2>1. session' = session
    BY <1>5, StepWrites
  <2>2. req[r].pc # "createSession"
    BY <1>5, StepAt
  <2>3. Creates(u) => Creates(u)'
    BY <1>1, <2>2 DEF Creates, LeadsTo, OnlySlot
  <2> QED
    BY <2>1, <2>3 DEF LoginInv, LiveSessions
<1> QED
  BY <1>2, <1>3, <1>4, <1>5

LEMMA LoginNext == TypeInv /\ LoginInv /\ [Next]_vars => LoginInv'
<1> SUFFICES ASSUME TypeInv, LoginInv, [Next]_vars
             PROVE  LoginInv'
  OBVIOUS
<1>1. ASSUME NEW r \in Requests, SessionRequest(r) \/ ProfileRequest(r)
      PROVE  LoginInv'
  <2>1. Begins(r) /\ UNCHANGED <<session, faults, ops>>
    BY <1>1, RequestBegins, RequestsWriteNothing DEF tables
  <2>2. \A u \in Users : Creates(u) => Creates(u)'
    BY <2>1 DEF Begins, OnlySlot, Creates
  <2> QED
    BY <2>1, <2>2 DEF LoginInv, LiveSessions
<1>2. ASSUME NEW r \in Requests, Abort(r)
      PROVE  LoginInv'
  BY <1>2, AbortEnds DEF LoginInv
<1>3. CASE Elsewhere \/ UNCHANGED vars
  <2>1. UNCHANGED <<req, session, faults, ops>>
    BY <1>3 DEF Elsewhere, Logout, ExpireVerification, ExpireChallenge, vars, tables
  <2> QED
    BY <2>1 DEF LoginInv, LiveSessions, Creates
<1> QED
  BY <1>1, <1>2, <1>3, LoginStep DEF Next, Elsewhere

(* Once the requests in progress are answered, a user who has logged in    *)
(* has a session, if no call failed and nobody reset a password: of        *)
(* overlapping logins, an insert is the last to write.                     *)
THEOREM LoginsKeepSessions == Spec => []LoginKeepsSession
<1>1. Spec => []TypeInv
  BY InitTyped, NextTyped, PTL DEF Spec
<1>2. Init => LoginInv
  <2> SUFFICES ASSUME Init, NEW u \in Users, NEW s \in SessionId
               PROVE  session[s].user # u
    BY DEF LoginInv
  <2> QED
    BY AccountAssumption DEF Init, NoSession
<1>3. Spec => []LoginInv
  BY <1>1, <1>2, LoginNext, PTL DEF Spec
<1>4. LoginInv => LoginKeepsSession
  BY DEF LoginInv, LoginKeepsSession, Quiet, Idle, Creates
<1> QED
  BY <1>3, <1>4, PTL

-----------------------------------------------------------------------------
(* The lock after wrong PINs *)

Counters(u) == {r \in Requests : req[r].pc = "countWrong" /\ req[r].user = u}

LockoutInv ==
    "setBiometric" \notin ops =>
        \A u \in Users : security[u].failed + Cardinality(Counters(u))
                           <= PinMax + Cardinality(Requests) - 1

LEMMA LockoutTyped ==
    ASSUME TypeInv, NEW u \in Users
    PROVE  /\ security[u].failed \in Nat /\ PinMax \in Nat /\ PinMax >= 1
           /\ Cardinality(Requests) \in Nat /\ Cardinality(Counters(u)) \in Nat
           /\ Counters(u) \in SUBSET Requests
<1>1. security[u] \in SecurityRow /\ PinMax \in Nat \ {0}
  BY AccountAssumption DEF TypeInv, TypeOK
<1>2. Counters(u) \in SUBSET Requests
  BY DEF Counters
<1> QED
  BY <1>1, <1>2, CountOf, RequestsFinite DEF SecurityRow

LEMMA CountersMove ==
    ASSUME NEW r \in Requests, OnlySlot(r), NEW u
    PROVE  /\ Counters(u) \ {r} = Counters(u)' \ {r}
           /\ Counters(u) \in SUBSET Requests /\ Counters(u)' \in SUBSET Requests
BY DEF OnlySlot, Counters

(* A step may only count one of the wrong PINs that were found, or reset.  *)
LEMMA FailedOf ==
    ASSUME TypeInv, NEW r \in Requests, SessionStep(r) \/ ProfileStep(r),
           "setBiometric" \notin ops, NEW u \in Users
    PROVE  \/ security'[u].failed = 0 /\ ~CountWrong(r)
           \/ security'[u].failed = security[u].failed /\ r \notin Counters(u)
           \/ security'[u].failed = security[u].failed + 1 /\ r \in Counters(u)
<1> USE DEF At, UserOf
<1>1. /\ security \in [Users -> SecurityRow] /\ RequestOK(req[r])
      /\ ~Idle(r) => req[r].op \in ops
  BY DEF TypeInv, TypeOK, RequestsOK, Op
<1>2. CASE CountWrong(r)
  BY <1>1, <1>2 DEF CountWrong, Counters, SecurityRow
<1>3. CASE ResetPin(r)
  BY <1>1, <1>3 DEF ResetPin, Counters, SecurityRow, CountWrong
<1>4. CASE InsertUser(r)
  BY <1>1, <1>4 DEF InsertUser, Counters, NewSecurity, CountWrong
<1>5. CASE SaveSecurity(r)
  <2>1. req[r].op = "updatePin" /\ req[r].sec.failed = 0
    BY <1>1, <1>5 DEF SaveSecurity, RequestOK, ProfileOf, Idle
  <2> QED
    BY <1>1, <1>5, <2>1 DEF SaveSecurity, Counters, CountWrong
<1>6. CASE ~CountWrong(r) /\ ~ResetPin(r) /\ ~InsertUser(r) /\ ~SaveSecurity(r)
  BY <1>6, StepWrites, StepAt DEF Counters
<1> QED
  BY <1>2, <1>3, <1>4, <1>5, <1>6

LEMMA LockoutStep ==
    ASSUME TypeInv, LockoutInv, NEW r \in Requests, SessionStep(r) \/ ProfileStep(r)
    PROVE  LockoutInv'
<1>1. LeadsTo(r)
  BY StepLeadsTo
<1> SUFFICES ASSUME "setBiometric" \notin ops, NEW u \in Users
             PROVE  security'[u].failed + Cardinality(Counters(u)')
                      <= PinMax + Cardinality(Requests) - 1
  BY <1>1 DEF LockoutInv, LeadsTo
<1>2. r \notin Counters(u)'
  BY <1>1 DEF LeadsTo, Counters
<1>3. /\ Counters(u) \ {r} = Counters(u)' \ {r}
      /\ Counters(u) \in SUBSET Requests /\ Counters(u)' \in SUBSET Requests
  BY <1>1, CountersMove DEF LeadsTo
<1>4. security[u].failed + Cardinality(Counters(u)) <= PinMax + Cardinality(Requests) - 1
  BY DEF LockoutInv
<1>5. Cardinality(Counters(u)') + 1 <= Cardinality(Requests) /\ Cardinality(Counters(u)') \in Nat
  BY <1>2, <1>3, CountRoom, CountOf
<1>6. CASE security'[u].failed = 0
  BY <1>5, <1>6, LockoutTyped
<1>7. CASE security'[u].failed = security[u].failed /\ r \notin Counters(u)
  <2>1. Cardinality(Counters(u)') = Cardinality(Counters(u))
    BY <1>2, <1>3, <1>7, CountChange
  <2> QED
    BY <1>4, <1>7, <2>1
<1>8. CASE security'[u].failed = security[u].failed + 1 /\ r \in Counters(u)
  <2>1. Cardinality(Counters(u)') = Cardinality(Counters(u)) - 1
    BY <1>2, <1>3, <1>8, CountChange
  <2> QED
    BY <1>4, <1>8, <2>1, LockoutTyped
<1> QED
  BY <1>6, <1>7, <1>8, FailedOf

LEMMA LockoutBegins ==
    ASSUME TypeInv, LockoutInv, NEW r \in Requests, Begins(r), UNCHANGED <<security, ops>>
    PROVE  LockoutInv'
<1> SUFFICES ASSUME "setBiometric" \notin ops, NEW u \in Users
             PROVE  security[u].failed + Cardinality(Counters(u)')
                      <= PinMax + Cardinality(Requests) - 1
  BY DEF LockoutInv
<1>1. OnlySlot(r) /\ r \notin Counters(u)
  BY DEF Begins, Counters
<1>2. /\ Counters(u) \ {r} = Counters(u)' \ {r}
      /\ Counters(u) \in SUBSET Requests /\ Counters(u)' \in SUBSET Requests
  BY <1>1, CountersMove
<1>3. CASE r \in Counters(u)'
  <2>1. security[u].failed < PinMax
    BY <1>3 DEF Begins, Counters
  <2>2. Cardinality(Counters(u)') <= Cardinality(Requests) /\ Cardinality(Counters(u)') \in Nat
    BY <1>2, CountOf
  <2> QED
    BY <2>1, <2>2, LockoutTyped
<1>4. CASE r \notin Counters(u)'
  <2>1. Counters(u)' = Counters(u)
    BY <1>1, <1>2, <1>4
  <2> QED
    BY <2>1 DEF LockoutInv
<1> QED
  BY <1>3, <1>4

LEMMA LockoutAborts ==
    ASSUME TypeInv, LockoutInv, NEW r \in Requests, Abort(r)
    PROVE  LockoutInv'
<1> SUFFICES ASSUME "setBiometric" \notin ops, NEW u \in Users
             PROVE  security[u].failed + Cardinality(Counters(u)')
                      <= PinMax + Cardinality(Requests) - 1
  BY AbortEnds DEF LockoutInv, tables
<1>1. OnlySlot(r) /\ r \notin Counters(u)'
  BY AbortEnds DEF Counters
<1>2. /\ Counters(u) \ {r} = Counters(u)' \ {r}
      /\ Counters(u) \in SUBSET Requests /\ Counters(u)' \in SUBSET Requests
  BY <1>1, CountersMove
<1>3. Cardinality(Counters(u)') <= Cardinality(Counters(u)) /\ Cardinality(Counters(u)') \in Nat
  BY <1>1, <1>2, CountChange
<1> QED
  BY <1>3, LockoutTyped DEF LockoutInv

LEMMA LockoutNext == TypeInv /\ LockoutInv /\ [Next]_vars => LockoutInv'
<1> SUFFICES ASSUME TypeInv, LockoutInv, [Next]_vars
             PROVE  LockoutInv'
  OBVIOUS
<1>1. ASSUME NEW r \in Requests, SessionRequest(r) \/ ProfileRequest(r)
      PROVE  LockoutInv'
  BY <1>1, RequestBegins, RequestsWriteNothing, LockoutBegins DEF tables
<1>2. CASE Elsewhere \/ UNCHANGED vars
  <2>1. UNCHANGED <<req, security, ops>>
    BY <1>2 DEF Elsewhere, Logout, ExpireVerification, ExpireChallenge, vars, tables
  <2> QED
    BY <2>1 DEF LockoutInv, Counters
<1> QED
  BY <1>1, <1>2, LockoutStep, LockoutAborts DEF Next, Elsewhere

LEMMA LockoutInit == Init => LockoutInv
<1> SUFFICES ASSUME Init, NEW u \in Users
             PROVE  security[u].failed + Cardinality(Counters(u))
                      <= PinMax + Cardinality(Requests) - 1
  BY DEF LockoutInv
<1>1. security[u].failed = 0
  BY DEF Init, NewSecurity, NoSecurity
<1>2. Counters(u) = {} /\ Cardinality({}) = 0
  BY IdleRequestTyped, FS_EmptySet DEF Init, Counters
<1>3. TypeInv
  BY InitTyped
<1> QED
  BY <1>1, <1>2, <1>3, LockoutTyped

(* Wrong PINs of one user exceed the limit by less than the number of      *)
(* requests in progress, as long as nobody writes an older count back with *)
(* his biometric setting.                                                  *)
THEOREM LockoutHolds == Spec => []LockoutBounded
<1>1. Spec => []TypeInv
  BY InitTyped, NextTyped, PTL DEF Spec
<1>2. Spec => []LockoutInv
  BY <1>1, LockoutInit, LockoutNext, PTL DEF Spec
<1>3. TypeInv /\ LockoutInv => LockoutBounded
  <2> SUFFICES ASSUME TypeInv, LockoutInv, "setBiometric" \notin ops, NEW u \in Users
               PROVE  security[u].failed <= PinMax + Cardinality(Requests) - 1
    BY DEF LockoutBounded
  <2>1. security[u].failed + Cardinality(Counters(u)) <= PinMax + Cardinality(Requests) - 1
    BY DEF LockoutInv
  <2> QED
    BY <2>1, LockoutTyped
<1> QED
  BY <1>1, <1>2, <1>3, PTL

-----------------------------------------------------------------------------
(* Default consents *)

Fills(r) == req[r].pc \in {"findConsent", "writeConsent"}

(* The next insert of r will not meet a row.                               *)
GoesOn(r) ==
    /\ Fills(r)
    /\ req[r].pc = "writeConsent" => ~(req[r].empty /\ Exists(UserOf(r), TypeAt(r)))

Complete(u) == \A i \in 1..Len(Consents) : Exists(u, Consents[i])

ConsentInv ==
    /\ \A r \in Requests : Fills(r) =>
         \A i \in 1..Len(Consents) : i < req[r].n => Exists(UserOf(r), Consents[i])
    /\ faults = 0 =>
         \A u \in Users : HasConsents(u) =>
           Complete(u) \/ \E r \in Requests : GoesOn(r) /\ UserOf(r) = u

LEMMA ConsentsTyped ==
    ASSUME TypeInv
    PROVE  /\ consent \in [Users -> [ConsentTypes -> ConsentState]]
           /\ \A i \in 1..Len(Consents) : Consents[i] \in ConsentTypes
           /\ \A r \in Requests : Fills(r) \/ req[r].pc = "commitConsent" =>
                UserOf(r) \in Users /\ TypeAt(r) \in ConsentTypes /\ req[r].n \in 1..Len(Consents)
           /\ Len(Consents) \in Nat /\ req \in [Requests -> Request]
<1>1. /\ consent \in [Users -> [ConsentTypes -> ConsentState]]
      /\ \A r \in Requests : RequestOK(req[r])
      /\ req \in [Requests -> Request]
  BY DEF TypeInv, TypeOK, RequestsOK
<1>2. \A i \in 1..Len(Consents) : Consents[i] \in ConsentTypes
  BY DEF ConsentTypes
<1>3. Len(Consents) \in Nat
  BY AccountAssumption
<1> QED
  BY <1>1, <1>2, <1>3 DEF RequestOK, ProfileOf, WithoutUser, Fills, UserOf, TypeAt

(* A row of a consent is never deleted.                                    *)
LEMMA ConsentsStay ==
    ASSUME TypeInv, NEW r \in Requests, SessionStep(r) \/ ProfileStep(r),
           NEW u \in Users, NEW t \in ConsentTypes, Exists(u, t)
    PROVE  Exists(u, t)'
<1> USE ConsentsTyped DEF Exists
<1>1. CASE WriteConsent(r)
  BY <1>1 DEF WriteConsent, At, Fills
<1>2. CASE CommitConsent(r)
  BY <1>2 DEF CommitConsent, Defaulted, At
<1> QED
  BY <1>1, <1>2, StepWrites

LEMMA FillingStep ==
    ASSUME TypeInv, ConsentInv, NEW r \in Requests, SessionStep(r) \/ ProfileStep(r),
           NEW x \in Requests, Fills(x)', NEW i \in 1..Len(Consents), i < req'[x].n
    PROVE  Exists(UserOf(x), Consents[i])'
<1>1. LeadsTo(r) /\ ProfileLeadsTo(r)
  BY StepLeadsTo
<1>2. CASE x # r
  <2>1. req'[x] = req[x] /\ Fills(x) /\ UserOf(x)' = UserOf(x)
    BY <1>1, <1>2 DEF LeadsTo, OnlySlot, Fills, UserOf
  <2> QED
    BY <2>1, ConsentsTyped, ConsentsStay DEF ConsentInv
<1>3. CASE x = r /\ FindConsent(r)
  <2>1. Fills(r) /\ req'[r].n = req[r].n /\ UserOf(r)' = UserOf(r)
    BY <1>3, ConsentsTyped DEF FindConsent, At, Fills, UserOf, Request
  <2> QED
    BY <1>3, <2>1, ConsentsTyped, ConsentsStay DEF ConsentInv
<1>4. CASE x = r /\ WriteConsent(r)
  <2>1. Fills(r) /\ req[r].n \in 1..Len(Consents) /\ UserOf(r) \in Users
    BY <1>4, ConsentsTyped DEF WriteConsent, At, Fills
  <2>2. CASE req[r].n = Len(Consents)
    BY <1>4, <2>2, IdleRequestTyped, ConsentsTyped
    DEF WriteConsent, NextConsent, Finished, Fills
  <2>3. CASE req[r].n # Len(Consents)
    <3>1. req'[r].n = req[r].n + 1 /\ UserOf(r)' = UserOf(r)
      BY <1>4, <2>3, ConsentsTyped DEF WriteConsent, NextConsent, UserOf, Request
    <3>2. CASE i < req[r].n
      BY <1>4, <2>1, <3>1, <3>2, ConsentsTyped, ConsentsStay DEF ConsentInv
    <3>3. CASE i = req[r].n
      <4>1. consent'[UserOf(r)][Consents[i]] = "NO"
        BY <1>4, <2>1, <3>3, ConsentsTyped DEF WriteConsent, TypeAt
      <4> QED
        BY <1>4, <3>1, <4>1 DEF Exists
    <3>4. i < req[r].n \/ i = req[r].n
      BY <1>4, <2>1, <3>1
    <3> QED
      BY <3>2, <3>3, <3>4
  <2> QED
    BY <2>2, <2>3
<1>5. x = r => FindConsent(r) \/ WriteConsent(r)
  BY <1>1 DEF ProfileLeadsTo, Fills
<1> QED
  BY <1>2, <1>3, <1>4, <1>5

(* After a default is written, the request goes on to the next or the      *)
(* defaults are complete.                                                  *)
LEMMA WrittenGoesOn ==
    ASSUME TypeInv, ConsentInv, NEW r \in Requests, WriteConsent(r),
           NEW u, u = UserOf(r)
    PROVE  Complete(u)' \/ (GoesOn(r)' /\ UserOf(r)' = u)
<1>1. Fills(r) /\ req[r].n \in 1..Len(Consents) /\ u \in Users
  BY ConsentsTyped DEF WriteConsent, At, Fills
<1>2. CASE req[r].n # Len(Consents)
  <2>1. req'[r].pc = "findConsent" /\ req'[r].user = req[r].user
    BY <1>2, ConsentsTyped DEF WriteConsent, NextConsent, Request
  <2> QED
    BY <2>1 DEF GoesOn, Fills, UserOf
<1>3. CASE req[r].n = Len(Consents)
  <2>1. ASSUME NEW i \in 1..Len(Consents)
        PROVE  consent'[u][Consents[i]] # "NONE"
    <3>1. CASE i < req[r].n
      <4>1. Exists(u, Consents[i])
        BY <1>1, <3>1 DEF ConsentInv
      <4> QED
        BY <1>1, <4>1, ConsentsTyped DEF WriteConsent, Exists
    <3>2. CASE i = req[r].n
      BY <1>1, <3>2, ConsentsTyped DEF WriteConsent, TypeAt
    <3>3. i < req[r].n \/ i = req[r].n
      BY <1>1, <1>3
    <3> QED
      BY <3>1, <3>2, <3>3
  <2> QED
    BY <2>1 DEF Complete, Exists
<1> QED
  BY <1>2, <1>3

(* What CommitConsent writes for its user                                  *)
LEMMA CommittedConsents ==
    ASSUME TypeInv, NEW r \in Requests, CommitConsent(r), NEW u \in Users
    PROVE  Complete(u)' \/ \A t \in ConsentTypes : Exists(u, t)' <=> Exists(u, t)
<1>1. UserOf(r) \in Users /\ TypeAt(r) \in ConsentTypes
  BY ConsentsTyped DEF CommitConsent, At
<1>2. CASE UserOf(r) = u /\ req[r].empty
  BY <1>1, <1>2, ConsentsTyped DEF CommitConsent, Defaulted, Complete, Exists
<1>3. CASE UserOf(r) = u /\ ~req[r].empty
  BY <1>1, <1>3, ConsentsTyped DEF CommitConsent, Defaulted, Exists
<1>4. CASE UserOf(r) # u
  BY <1>1, <1>4, ConsentsTyped DEF CommitConsent, Exists
<1> QED
  BY <1>2, <1>3, <1>4

(* As long as nothing fails, a request that would meet a row has lost      *)
(* against one that goes on.                                               *)
LEMMA ConsentStep ==
    ASSUME TypeInv, ConsentInv, NEW r \in Requests, SessionStep(r) \/ ProfileStep(r)
    PROVE  ConsentInv'
<1>1. LeadsTo(r) /\ ProfileLeadsTo(r)
  BY StepLeadsTo
<1>2. ASSUME NEW x \in Requests, Fills(x)', NEW i \in 1..Len(Consents), i < req'[x].n
      PROVE  Exists(UserOf(x), Consents[i])'
  BY <1>2, FillingStep
<1>3. ASSUME faults = 0, NEW u \in Users, HasConsents(u)'
      PROVE  Complete(u)' \/ \E x \in Requests : GoesOn(x)' /\ UserOf(x)' = u
  <2>1. CASE WriteConsent(r) /\ UserOf(r) = u
    BY <2>1, WrittenGoesOn
  <2>2. CASE CommitConsent(r) /\ Complete(u)'
    BY <2>2
  <2>3. CASE ~(WriteConsent(r) /\ UserOf(r) = u) /\ ~(CommitConsent(r) /\ Complete(u)')
    <3>1. \A t \in ConsentTypes : Exists(u, t)' <=> Exists(u, t)
      <4>1. CASE WriteConsent(r)
        BY <2>3, <4>1, ConsentsTyped DEF WriteConsent, Exists
      <4>2. CASE CommitConsent(r)
        BY <2>3, <4>2, CommittedConsents
      <4>3. CASE ~WriteConsent(r) /\ ~CommitConsent(r)
        BY <4>3, StepWrites DEF Exists
      <4> QED
        BY <4>1, <4>2, <4>3
    <3>2. HasConsents(u)
      BY <1>3, <3>1 DEF HasConsents
    <3>3. CASE Complete(u)
      BY <3>1, <3>3, ConsentsTyped DEF Complete
    <3>4. ASSUME NEW x \in Requests, GoesOn(x), UserOf(x) = u
          PROVE  GoesOn(x)' /\ UserOf(x)' = u
      <4>1. TypeAt(x) \in ConsentTypes
        BY <3>4, ConsentsTyped DEF GoesOn
      <4>2. CASE x # r
        <5>1. req'[x] = req[x] /\ Fills(x)'
          BY <1>1, <3>4, <4>2 DEF LeadsTo, OnlySlot, GoesOn, Fills
        <5>2. UserOf(x)' = u /\ TypeAt(x)' = TypeAt(x)
          BY <3>4, <5>1 DEF UserOf, TypeAt
        <5>3. Exists(UserOf(x), TypeAt(x))' => Exists(UserOf(x), TypeAt(x))
          BY <3>1, <3>4, <4>1, <5>2 DEF Exists
        <5> QED
          BY <3>4, <5>1, <5>2, <5>3 DEF GoesOn
      <4>3. CASE x = r /\ req[r].pc = "findConsent"
        <5>1. FindConsent(r)
          BY <4>3, StepAt
        <5>2. /\ req'[r].pc = "writeConsent" /\ req'[r].empty = ~Exists(u, TypeAt(r))
              /\ UserOf(r)' = u /\ TypeAt(r)' = TypeAt(r)
          BY <3>4, <4>3, <5>1, ConsentsTyped DEF FindConsent, UserOf, TypeAt, Request
        <5>3. req'[r].empty => ~Exists(UserOf(r), TypeAt(r))'
          BY <3>1, <4>1, <4>3, <5>2 DEF Exists
        <5> QED
          BY <4>3, <5>2, <5>3 DEF GoesOn, Fills
      <4>4. CASE x = r /\ req[r].pc = "writeConsent"
        <5>1. WriteConsent(r) \/ WriteConsentFails(r)
          BY <4>4, StepAt
        <5> QED
          BY <2>3, <3>4, <4>4, <5>1 DEF WriteConsentFails, GoesOn
      <4> QED
        BY <3>4, <4>2, <4>3, <4>4 DEF GoesOn, Fills
    <3> QED
      BY <1>3, <3>2, <3>3, <3>4 DEF ConsentInv
  <2> QED
    BY <2>1, <2>2, <2>3
<1>4. faults' = faults
  BY <1>1 DEF LeadsTo
<1> QED
  BY <1>2, <1>3, <1>4 DEF ConsentInv

LEMMA ConsentBegins ==
    ASSUME TypeInv, ConsentInv, NEW r \in Requests, Begins(r),
           UNCHANGED <<consent, faults>>
    PROVE  ConsentInv'
<1>1. \A x \in Requests : x # r => req'[x] = req[x]
  BY DEF Begins, OnlySlot
<1>2. \A u, t : Exists(u, t)' <=> Exists(u, t)
  BY DEF Exists
<1>3. ASSUME NEW x \in Requests, Fills(x)', NEW i \in 1..Len(Consents), i < req'[x].n
      PROVE  Exists(UserOf(x), Consents[i])'
  <2>1. CASE x = r
    <3>1. req'[r].n = 1
      BY <1>3, <2>1 DEF Begins, Fills
    <3> QED
      BY <1>3, <2>1, <3>1
  <2>2. CASE x # r
    BY <1>1, <1>3, <2>2 DEF ConsentInv, Fills, UserOf, Exists
  <2> QED
    BY <2>1, <2>2
<1>4. ASSUME NEW u \in Users, HasConsents(u)', faults = 0
      PROVE  Complete(u)' \/ \E x \in Requests : GoesOn(x)' /\ UserOf(x)' = u
  <2>1. HasConsents(u)
    BY <1>4 DEF HasConsents, Exists
  <2>2. CASE Complete(u)
    BY <2>2 DEF Complete, Exists
  <2>3. ASSUME NEW x \in Requests, GoesOn(x), UserOf(x) = u
        PROVE  GoesOn(x)' /\ UserOf(x)' = u
    <3>1. req'[x] = req[x]
      BY <1>1, <2>3 DEF Begins, GoesOn, Fills
    <3> QED
      BY <2>3, <3>1 DEF GoesOn, Fills, UserOf, TypeAt, Exists
  <2> QED
    BY <1>4, <2>1, <2>2, <2>3 DEF ConsentInv
<1> QED
  BY <1>3, <1>4 DEF ConsentInv

LEMMA ConsentAborts ==
    ASSUME TypeInv, ConsentInv, NEW r \in Requests, Abort(r)
    PROVE  ConsentInv'
<1>1. OnlySlot(r) /\ req'[r].pc = "idle" /\ consent' = consent /\ faults' # 0
  BY AbortEnds DEF tables
<1>2. ASSUME NEW x \in Requests, Fills(x)', NEW i \in 1..Len(Consents), i < req'[x].n
      PROVE  Exists(UserOf(x), Consents[i])'
  <2>1. req'[x] = req[x]
    BY <1>1, <1>2 DEF OnlySlot, Fills
  <2> QED
    BY <1>1, <1>2, <2>1 DEF ConsentInv, Fills, UserOf, Exists
<1> QED
  BY <1>1, <1>2 DEF ConsentInv

LEMMA ConsentNext == TypeInv /\ ConsentInv /\ [Next]_vars => ConsentInv'
<1> SUFFICES ASSUME TypeInv, ConsentInv, [Next]_vars
             PROVE  ConsentInv'
  OBVIOUS
<1>1. ASSUME NEW r \in Requests, SessionRequest(r) \/ ProfileRequest(r)
      PROVE  ConsentInv'
  BY <1>1, RequestBegins, RequestsWriteNothing, ConsentBegins DEF tables
<1>2. CASE Elsewhere \/ UNCHANGED vars
  <2>1. UNCHANGED <<req, consent, faults>>
    BY <1>2 DEF Elsewhere, Logout, ExpireVerification, ExpireChallenge, vars, tables
  <2> QED
    BY <2>1
    DEF ConsentInv, Fills, GoesOn, Complete, HasConsents, Exists, UserOf, TypeAt
<1> QED
  BY <1>1, <1>2, ConsentStep, ConsentAborts DEF Next, Elsewhere

LEMMA ConsentInit == Init => ConsentInv
<1> SUFFICES ASSUME Init
             PROVE  ConsentInv
  OBVIOUS
<1>1. \A r \in Requests : ~Fills(r)
  BY IdleRequestTyped DEF Init, Fills
<1>2. \A u \in Users : ~HasConsents(u)
  BY DEF Init, HasConsents, Exists
<1> QED
  BY <1>1, <1>2 DEF ConsentInv

(* Without failing calls, requests that insert the default consents of one *)
(* user together (ensureDefaultConsents) leave all of them: the unique     *)
(* index stops a request only where another is ahead of it.                *)
THEOREM ConsentsAreComplete == Spec => []ConsentsComplete
<1>1. Spec => []TypeInv
  BY InitTyped, NextTyped, PTL DEF Spec
<1>2. Spec => []ConsentInv
  BY <1>1, ConsentInit, ConsentNext, PTL DEF Spec
<1>3. ConsentInv => ConsentsComplete
  <2> SUFFICES ASSUME ConsentInv, Quiet, faults = 0, NEW u \in Users, HasConsents(u),
                      NEW t \in ConsentTypes
               PROVE  Exists(u, t)
    BY DEF ConsentsComplete
  <2>1. Complete(u)
    BY DEF ConsentInv, Quiet, Idle, GoesOn, Fills
  <2>2. PICK i \in 1..Len(Consents) : t = Consents[i]
    BY DEF ConsentTypes
  <2> QED
    BY <2>1, <2>2 DEF Complete
<1> QED
  BY <1>1, <1>2, <1>3, PTL

-----------------------------------------------------------------------------
(* Device tokens *)

Takes(r) ==
    req[r].pc = "takeDevice" \/ (req[r].pc = "dropDevice" /\ req[r].op = "register")

Reachable(d) ==
    \/ \E t \in RowsOfDevice(d) : token[t].active
    \/ \E r \in Requests : req[r].pc = "insertDevice" /\ req[r].device = d

DeviceInv ==
    /\ \A r \in Requests : Takes(r) => token[req[r].id].device = req[r].device
    /\ faults = 0 /\ {"logout", "removeDevice"} \cap ops = {} =>
         \A d \in Devices : RowsOfDevice(d) # {} => Reachable(d)

LEMMA DevicesTyped ==
    ASSUME TypeInv
    PROVE  /\ token \in [TokenId -> TokenRow] /\ NoDevice \notin Devices
           /\ req \in [Requests -> Request]
           /\ \A r \in Requests :
                /\ Takes(r) \/ req[r].pc = "insertDevice" => req[r].device \in Devices
                /\ Takes(r) \/ req[r].pc = "dropDevice" => req[r].id \in TokenId
                /\ req[r].pc = "dropDevice" => Op(r) \in {"register", "removeDevice"} \cap ops
<1>1. /\ token \in [TokenId -> TokenRow] /\ req \in [Requests -> Request]
      /\ \A r \in Requests : RequestOK(req[r]) /\ (~Idle(r) => Op(r) \in ops)
  BY DEF TypeInv, TypeOK, RequestsOK
<1>2. NoDevice \notin Devices
  BY AccountAssumption
<1> QED
  BY <1>1, <1>2 DEF RequestOK, SessionsOf, Takes, Idle, Op

(* A row keeps its device.                                                 *)
LEMMA DeviceKept ==
    ASSUME TypeInv, NEW r \in Requests, SessionStep(r) \/ ProfileStep(r),
           NEW t \in TokenId, token[t].device \in Devices
    PROVE  token'[t].device = token[t].device
<1> USE DevicesTyped DEF TokenRow
<1>1. CASE TakeDevice(r)
  BY <1>1 DEF TakeDevice
<1>2. CASE DropDevice(r)
  BY <1>2 DEF DropDevice
<1>3. CASE InsertDevice(r)
  <2>1. PICK i \in Lowest({i \in TokenId : token[i].device = NoDevice}) :
          token' = [token EXCEPT ![i] = [device |-> req[r].device, user |-> UserOf(r),
                                         active |-> TRUE]]
    BY <1>3 DEF InsertDevice
  <2>2. i # t
    BY <2>1 DEF Lowest
  <2> QED
    BY <2>1, <2>2
<1> QED
  BY <1>1, <1>2, <1>3, StepWrites

LEMMA TakingStep ==
    ASSUME TypeInv, DeviceInv, NEW r \in Requests, SessionStep(r) \/ ProfileStep(r),
           NEW x \in Requests, Takes(x)'
    PROVE  token'[req'[x].id].device = req'[x].device
<1>1. LeadsTo(r)
  BY StepLeadsTo
<1>2. CASE x # r
  <2>1. req'[x] = req[x] /\ Takes(x)
    BY <1>1, <1>2 DEF LeadsTo, OnlySlot, Takes
  <2>2. token[req[x].id].device = req[x].device /\ req[x].device \in Devices
    BY <2>1, DevicesTyped DEF DeviceInv
  <2> QED
    BY <2>1, <2>2, DevicesTyped, DeviceKept
<1>3. CASE x = r
  <2>1. req'[r].pc \in {"takeDevice", "dropDevice"}
    BY <1>3 DEF Takes
  <2>2. CASE FindDevice(r)
    <3>1. PICK t \in RowsOfDevice(req[r].device) :
            req' = [req EXCEPT ![r].pc = "takeDevice", ![r].id = t]
      <4>1. req' # Moved(r, "insertDevice")
        BY <2>1, DevicesTyped DEF Moved, Request
      <4> QED
        BY <2>2, <4>1 DEF FindDevice
    <3>2. req'[r].id = t /\ req'[r].device = req[r].device
      BY <3>1, DevicesTyped DEF Request
    <3>3. token' = token /\ token[t].device = req[r].device
      BY <2>2, <3>1 DEF FindDevice, tables, RowsOfDevice
    <3> QED
      BY <1>3, <3>2, <3>3
  <2> QED
    BY <1>1, <2>1, <2>2 DEF LeadsTo
<1> QED
  BY <1>2, <1>3

(* A step of a request leaves a device reachable, if nobody removes it.    *)
LEMMA ReachableStep ==
    ASSUME TypeInv, DeviceInv, NEW r \in Requests, SessionStep(r) \/ ProfileStep(r),
           faults = 0, {"logout", "removeDevice"} \cap ops = {},
           NEW d \in Devices, RowsOfDevice(d)' # {}
    PROVE  Reachable(d)'
<1>1. LeadsTo(r)
  BY StepLeadsTo
<1>2. CASE TakeDevice(r) /\ req[r].device = d
  <2>1. Takes(r) /\ req[r].id \in TokenId /\ token[req[r].id].device = d
    BY <1>2, DevicesTyped DEF TakeDevice, At, Takes, DeviceInv
  <2>2. token'[req[r].id].device = d /\ token'[req[r].id].active
    BY <1>2, <2>1, DevicesTyped DEF TakeDevice, TokenRow
  <2>3. req[r].id \in RowsOfDevice(d)'
    BY <2>1, <2>2 DEF RowsOfDevice
  <2> QED
    BY <2>2, <2>3 DEF Reachable
<1>3. CASE InsertDevice(r) /\ req[r].device = d
  <2>1. PICK t \in Lowest({i \in TokenId : token[i].device = NoDevice}) :
          token' = [token EXCEPT ![t] = [device |-> req[r].device, user |-> UserOf(r),
                                         active |-> TRUE]]
    BY <1>3 DEF InsertDevice
  <2>2. t \in TokenId
    BY DEF Lowest
  <2>3. token'[t].device = d /\ token'[t].active
    BY <1>3, <2>1, <2>2, DevicesTyped
  <2>4. t \in RowsOfDevice(d)'
    BY <2>2, <2>3 DEF RowsOfDevice
  <2> QED
    BY <2>3, <2>4 DEF Reachable
<1>4. CASE DropDevice(r) /\ req[r].device = d
  <2>1. Op(r) = "register"
    BY <1>4, DevicesTyped DEF DropDevice, At
  <2>2. req'[r].pc = "insertDevice" /\ req'[r].device = d
    BY <1>4, <2>1, DevicesTyped DEF DropDevice, Moved, Request
  <2> QED
    BY <2>2 DEF Reachable
<1>5. CASE /\ req[r].device # d
           /\ TakeDevice(r) \/ DropDevice(r) \/ InsertDevice(r)
  <2>1. ASSUME NEW t \in TokenId
        PROVE  /\ token'[t].device = d => token[t].device = d
               /\ token[t].device = d => token'[t] = token[t]
    <3>1. CASE TakeDevice(r)
      <4>1. req[r].id \in TokenId /\ token[req[r].id].device # d
        BY <1>5, <3>1, DevicesTyped DEF TakeDevice, At, Takes, DeviceInv
      <4> QED
        BY <3>1, <4>1, DevicesTyped DEF TakeDevice, TokenRow
    <3>2. CASE DropDevice(r)
      <4>1. Takes(r) /\ req[r].id \in TokenId
        BY <3>2, DevicesTyped DEF DropDevice, At, Takes, Op
      <4>2. token[req[r].id].device # d
        BY <1>5, <4>1 DEF DeviceInv
      <4> QED
        BY <3>2, <4>1, <4>2, DevicesTyped DEF DropDevice, TokenRow
    <3>3. CASE InsertDevice(r)
      <4>1. PICK i \in Lowest({i \in TokenId : token[i].device = NoDevice}) :
              token' = [token EXCEPT ![i] = [device |-> req[r].device, user |-> UserOf(r),
                                             active |-> TRUE]]
        BY <3>3 DEF InsertDevice
      <4>2. i \in TokenId /\ token[i].device = NoDevice
        BY DEF Lowest
      <4> QED
        BY <1>5, <4>1, <4>2, DevicesTyped
    <3> QED
      BY <1>5, <3>1, <3>2, <3>3
  <2>2. RowsOfDevice(d) # {}
    BY <2>1 DEF RowsOfDevice
  <2>3. Reachable(d)
    BY <2>2 DEF DeviceInv
  <2>4. CASE \E t \in RowsOfDevice(d) : token[t].active
    BY <2>1, <2>4 DEF RowsOfDevice, Reachable
  <2>5. ASSUME NEW x \in Requests, req[x].pc = "insertDevice", req[x].device = d
        PROVE  Reachable(d)'
    <3>1. req'[x] = req[x]
      BY <1>1, <1>5, <2>5 DEF LeadsTo, OnlySlot
    <3> QED
      BY <2>5, <3>1 DEF Reachable
  <2> QED
    BY <2>3, <2>4, <2>5 DEF Reachable
<1>6. CASE ~TakeDevice(r) /\ ~DropDevice(r) /\ ~InsertDevice(r)
  <2>1. token' = token
    BY <1>6, StepWrites
  <2>2. Reachable(d)
    BY <2>1 DEF DeviceInv, RowsOfDevice
  <2>3. CASE \E t \in RowsOfDevice(d) : token[t].active
    BY <2>1, <2>3 DEF RowsOfDevice, Reachable
  <2>4. ASSUME NEW x \in Requests, req[x].pc = "insertDevice", req[x].device = d
        PROVE  Reachable(d)'
    <3>1. req'[x] = req[x]
      BY <1>1, <1>6, <2>4, StepAt DEF LeadsTo, OnlySlot
    <3> QED
      BY <2>4, <3>1 DEF Reachable
  <2> QED
    BY <2>2, <2>3, <2>4 DEF Reachable
<1> QED
  BY <1>2, <1>3, <1>4, <1>5, <1>6

LEMMA DeviceStep ==
    ASSUME TypeInv, DeviceInv, NEW r \in Requests, SessionStep(r) \/ ProfileStep(r)
    PROVE  DeviceInv'
<1>1. faults' = faults /\ ops' = ops
  BY StepLeadsTo DEF LeadsTo
<1> QED
  BY <1>1, TakingStep, ReachableStep DEF DeviceInv

LEMMA DeviceBegins ==
    ASSUME TypeInv, DeviceInv, NEW r \in Requests, Begins(r),
           UNCHANGED <<token, ops, faults>>
    PROVE  DeviceInv'
<1>1. \A x \in Requests : x # r => req'[x] = req[x]
  BY DEF Begins, OnlySlot
<1>2. \A d : RowsOfDevice(d)' = RowsOfDevice(d)
  BY DEF RowsOfDevice
<1>3. ASSUME NEW x \in Requests, Takes(x)'
      PROVE  token'[req'[x].id].device = req'[x].device
  BY <1>1, <1>3 DEF Begins, Takes, DeviceInv
<1>4. ASSUME NEW d \in Devices, Reachable(d)
      PROVE  Reachable(d)'
  BY <1>1, <1>2, <1>4 DEF Reachable, Begins
<1> QED
  BY <1>2, <1>3, <1>4 DEF DeviceInv

LEMMA DeviceAborts ==
    ASSUME TypeInv, DeviceInv, NEW r \in Requests, Abort(r)
    PROVE  DeviceInv'
<1>1. OnlySlot(r) /\ req'[r].pc = "idle" /\ token' = token /\ faults' # 0
  BY AbortEnds DEF tables
<1> QED
  BY <1>1 DEF DeviceInv, OnlySlot, Takes

LEMMA DeviceElsewhere ==
    ASSUME TypeInv, DeviceInv, Elsewhere \/ UNCHANGED vars
    PROVE  DeviceInv'
<1>1. ASSUME NEW d \in Devices, Logout(d)
      PROVE  DeviceInv'
  <2>1. UNCHANGED <<req, ops>> /\ "logout" \in ops
    BY <1>1 DEF Logout
  <2>2. \A t \in TokenId : token'[t].device = token[t].device
    BY <1>1, DevicesTyped DEF Logout, TokenRow
  <2> QED
    BY <2>1, <2>2, DevicesTyped DEF DeviceInv, Takes
<1>2. CASE UNCHANGED <<req, token, ops, faults>>
  BY <1>2 DEF DeviceInv, Takes, Reachable, RowsOfDevice
<1> QED
  BY <1>1, <1>2 DEF Elsewhere, ExpireVerification, ExpireChallenge, vars, tables

LEMMA DeviceNext == TypeInv /\ DeviceInv /\ [Next]_vars => DeviceInv'
<1> SUFFICES ASSUME TypeInv, DeviceInv, [Next]_vars
             PROVE  DeviceInv'
  OBVIOUS
<1>1. ASSUME NEW r \in Requests, SessionRequest(r) \/ ProfileRequest(r)
      PROVE  DeviceInv'
  BY <1>1, RequestBegins, RequestsWriteNothing, DeviceBegins DEF tables
<1> QED
  BY <1>1, DeviceStep, DeviceAborts, DeviceElsewhere DEF Next, Elsewhere

LEMMA DeviceInit == Init => DeviceInv
<1> SUFFICES ASSUME Init
             PROVE  DeviceInv
  OBVIOUS
<1>1. \A r \in Requests : ~Takes(r)
  BY IdleRequestTyped DEF Init, Takes
<1>2. \A d \in Devices : RowsOfDevice(d) = {}
  BY AccountAssumption DEF Init, RowsOfDevice, NoToken
<1> QED
  BY <1>1, <1>2 DEF DeviceInv

(* Without failing calls, a device that was registered has an active row   *)
(* whenever no request is in progress, until somebody logs out or removes  *)
(* it: a registration that deactivates a row inserts another, and a login  *)
(* activates the row it finds.                                             *)
THEOREM DevicesStayReachable == Spec => []DeviceStaysReachable
<1>1. Spec => []TypeInv
  BY InitTyped, NextTyped, PTL DEF Spec
<1>2. Spec => []DeviceInv
  BY <1>1, DeviceInit, DeviceNext, PTL DEF Spec
<1>3. DeviceInv => DeviceStaysReachable
  BY DEF DeviceInv, DeviceStaysReachable, Quiet, Idle, Reachable
<1> QED
  BY <1>1, <1>2, <1>3, PTL

=============================================================================
