------------------------------ MODULE Sessions ------------------------------
(***************************************************************************)
(* The requests that open, refresh and end sessions, count wrong PINs and  *)
(* register devices.  The reads before a handler's first write are one     *)
(* step; from then on every await is a step.  A request that its guards    *)
(* refuse has no step, unless it has written something.                    *)
(***************************************************************************)
EXTENDS AccountStore

(* POST /auth/login, with or without a device                              *)
StartLogin(r, e, p, d) ==
    /\ May(r, "login")
    /\ \E u \in UsersLike(e) :
         /\ user[u].password = p
         /\ req' = [req EXCEPT ![r] = [Begun("login", "dropSessions", u) EXCEPT !.device = d]]
    /\ UNCHANGED <<tables, history, ops, faults>>

(* A PIN is set, and not locked.                                           *)
Mut_PinUsable(u) == security[u].exists /\ security[u].pin # NoSecret
PinUsable(u) ==
    /\ security[u].exists /\ security[u].pin # NoSecret
    /\ security[u].failed < PinMax

AfterPin(u, p) == IF security[u].pin = p THEN "resetPin" ELSE "countWrong"

(* POST /auth/login/pin                                                    *)
StartPinLogin(r, e, p) ==
    /\ May(r, "pinLogin")
    /\ \E u \in UsersLike(e) :
         /\ PinUsable(u)
         /\ req' = [req EXCEPT ![r] = Begun("pinLogin", AfterPin(u, p), u)]
    /\ UNCHANGED <<tables, history, ops, faults>>

(* POST /users/me/pin/verify, and the PIN of a locked document             *)
StartVerifyPin(r, u, p) ==
    /\ Guarded(r, "verifyPin", u) /\ PinUsable(u)
    /\ req' = [req EXCEPT ![r] = Begun("verifyPin", AfterPin(u, p), u)]
    /\ UNCHANGED <<tables, history, ops, faults>>

CountWrong(r) ==
    /\ At(r, "countWrong")
    /\ security' = [security EXCEPT ![UserOf(r)].failed = @ + 1]
    /\ req' = Finished(r)
    /\ UNCHANGED <<user, settings, consent, session, verification, challenge, token,
                   history, ops, faults>>

ResetPin(r) ==
    /\ At(r, "resetPin")
    /\ security' = [security EXCEPT ![UserOf(r)].failed = 0]
    /\ req' = IF Op(r) = "pinLogin" THEN Moved(r, "dropSessions") ELSE Finished(r)
    /\ UNCHANGED <<user, settings, consent, session, verification, challenge, token,
                   history, ops, faults>>

(* deleteByUserId and createToken are two statements.                      *)
Mut_DropSessions(r) ==
    /\ At(r, "dropSessions")
    /\ req' = IF Op(r) = "reset" THEN Finished(r) ELSE Moved(r, "createSession")
    /\ UNCHANGED <<tables, history, ops, faults>>
DropSessions(r) ==
    /\ At(r, "dropSessions")
    /\ session' = [s \in SessionId |-> IF s \in LiveSessions(UserOf(r))
                                       THEN [session[s] EXCEPT !.state = "GONE"]
                                       ELSE session[s]]
    /\ req' = IF Op(r) = "reset" THEN Finished(r) ELSE Moved(r, "createSession")
    /\ UNCHANGED <<user, security, settings, consent, verification, challenge, token,
                   history, ops, faults>>

CreateSession(r) ==
    /\ At(r, "createSession")
    /\ \E s \in Lowest({i \in SessionId : session[i].state = "NONE"}) :
         session' = [session EXCEPT ![s] = [state |-> "LIVE", user |-> UserOf(r)]]
    /\ opened' = IF Op(r) = "biometricLogin" THEN [opened EXCEPT ![req[r].id] = @ + 1]
                                             ELSE opened
    /\ req' = IF req[r].device = NoDevice THEN Finished(r) ELSE Moved(r, "findDevice")
    /\ UNCHANGED <<user, security, settings, consent, verification, challenge, token,
                   uses, ops, faults>>

-----------------------------------------------------------------------------
(* The guard's refresh of an expired access token *)

StartRefresh(r, u) ==
    /\ Guarded(r, "refresh", u)
    /\ \E s \in LiveSessions(u) :
         req' = [req EXCEPT ![r] = [Begun("refresh", "findSession", u) EXCEPT !.id = s]]
    /\ UNCHANGED <<tables, history, ops, faults>>

(* updateToken finds the row again; without it nothing is written.         *)
FindSession(r) ==
    /\ At(r, "findSession")
    /\ req' = IF session[req[r].id].state = "LIVE" THEN Moved(r, "saveSession")
                                                    ELSE Finished(r)
    /\ UNCHANGED <<tables, history, ops, faults>>

(* save inserts a row that is gone by then.                                *)
Mut_SaveSession(r) ==
    /\ At(r, "saveSession")
    /\ session' = [s \in SessionId |-> IF s \in LiveSessions(UserOf(r)) \ {req[r].id}
                                       THEN [session[s] EXCEPT !.state = "GONE"]
                                       ELSE session[s]]
    /\ req' = Finished(r)
    /\ UNCHANGED <<user, security, settings, consent, verification, challenge, token,
                   history, ops, faults>>
SaveSession(r) ==
    /\ At(r, "saveSession")
    /\ session' = [session EXCEPT ![req[r].id].state = "LIVE"]
    /\ req' = Finished(r)
    /\ UNCHANGED <<user, security, settings, consent, verification, challenge, token,
                   history, ops, faults>>

-----------------------------------------------------------------------------
(* POST /auth/biometric/challenge and /auth/biometric/verify *)

StartChallenge(r, e) ==
    /\ May(r, "challenge")
    /\ \E u \in UsersLike(e) :
         /\ security[u].biometric
         /\ req' = [req EXCEPT ![r] = Begun("challenge", "insertChallenge", u)]
    /\ UNCHANGED <<tables, history, ops, faults>>

InsertChallenge(r) ==
    /\ At(r, "insertChallenge")
    /\ \E c \in Lowest({i \in ChallengeId : challenge[i].user = NoUser}) :
         challenge' = [challenge EXCEPT ![c].user = UserOf(r)]
    /\ req' = Finished(r)
    /\ UNCHANGED <<user, security, settings, consent, session, verification, token,
                   history, ops, faults>>

(* The signature verifies; a wrong one has no step.                        *)
StartBiometricLogin(r, c) ==
    /\ May(r, "biometricLogin")
    /\ challenge[c].user # NoUser /\ ~challenge[c].used /\ ~challenge[c].expired
    /\ security[challenge[c].user].biometric
    /\ req' = [req EXCEPT ![r] = [Begun("biometricLogin", "markChallenge", challenge[c].user)
                                    EXCEPT !.id = c]]
    /\ UNCHANGED <<tables, history, ops, faults>>

Mut_MarkChallenge(r) ==
    /\ At(r, "markChallenge")
    /\ req' = Moved(r, "dropSessions")
    /\ UNCHANGED <<tables, history, ops, faults>>
MarkChallenge(r) ==
    /\ At(r, "markChallenge")
    /\ challenge' = [challenge EXCEPT ![req[r].id].used = TRUE]
    /\ req' = Moved(r, "dropSessions")
    /\ UNCHANGED <<user, security, settings, consent, session, verification, token,
                   history, ops, faults>>

-----------------------------------------------------------------------------
(* Device tokens.  No index keeps an FCM token unique: a login gives the   *)
(* row it finds first to the user, a registration deactivates the row it   *)
(* finds first and inserts another.                                        *)

FindDevice(r) ==
    /\ At(r, "findDevice")
    /\ \/ /\ RowsOfDevice(req[r].device) = {}
          /\ req' = Moved(r, "insertDevice")
       \/ \E t \in RowsOfDevice(req[r].device) :
            req' = [req EXCEPT ![r].pc = "takeDevice", ![r].id = t]
    /\ UNCHANGED <<tables, history, ops, faults>>

TakeDevice(r) ==
    /\ At(r, "takeDevice")
    /\ token' = [token EXCEPT ![req[r].id].user = UserOf(r), ![req[r].id].active = TRUE]
    /\ req' = Finished(r)
    /\ UNCHANGED <<user, security, settings, consent, session, verification, challenge,
                   history, ops, faults>>

(* POST /notifications/device-tokens                                       *)
StartRegister(r, u, d) ==
    /\ Guarded(r, "register", u)
    /\ \/ /\ RowsOfDevice(d) = {}
          /\ req' = [req EXCEPT ![r] = [Begun("register", "insertDevice", u)
                                          EXCEPT !.device = d]]
       \/ \E t \in RowsOfDevice(d) :
            /\ ~(token[t].user = u /\ token[t].active)
            /\ req' = [req EXCEPT ![r] = [Begun("register", "dropDevice", u)
                                            EXCEPT !.device = d, !.id = t]]
    /\ UNCHANGED <<tables, history, ops, faults>>

(* DELETE /notifications/device-tokens/:tokenId                            *)
StartRemoveDevice(r, u, t) ==
    /\ Guarded(r, "removeDevice", u)
    /\ token[t].user = u /\ token[t].active
    /\ req' = [req EXCEPT ![r] = [Begun("removeDevice", "dropDevice", u) EXCEPT !.id = t]]
    /\ UNCHANGED <<tables, history, ops, faults>>

Mut_DropDevice(r) ==
    /\ At(r, "dropDevice")
    /\ token' = [token EXCEPT ![req[r].id].active = FALSE]
    /\ req' = Finished(r)
    /\ UNCHANGED <<user, security, settings, consent, session, verification, challenge,
                   history, ops, faults>>
DropDevice(r) ==
    /\ At(r, "dropDevice")
    /\ token' = [token EXCEPT ![req[r].id].active = FALSE]
    /\ req' = IF Op(r) = "register" THEN Moved(r, "insertDevice") ELSE Finished(r)
    /\ UNCHANGED <<user, security, settings, consent, session, verification, challenge,
                   history, ops, faults>>

InsertDevice(r) ==
    /\ At(r, "insertDevice")
    /\ \E t \in Lowest({i \in TokenId : token[i].device = NoDevice}) :
         token' = [token EXCEPT ![t] = [device |-> req[r].device, user |-> UserOf(r),
                                        active |-> TRUE]]
    /\ req' = Finished(r)
    /\ UNCHANGED <<user, security, settings, consent, session, verification, challenge,
                   history, ops, faults>>

(* POST /auth/logout: one statement for all rows of the device.  The       *)
(* session stays; only the cookie is cleared.                              *)
Logout(d) ==
    /\ "logout" \in ops
    /\ token' = [t \in TokenId |-> IF t \in RowsOfDevice(d)
                                   THEN [token[t] EXCEPT !.active = FALSE] ELSE token[t]]
    /\ UNCHANGED <<user, security, settings, consent, session, verification, challenge,
                   history, req, ops, faults>>

-----------------------------------------------------------------------------
SessionRequest(r) ==
    \/ \E e \in Emails, p \in Secrets :
         \/ \E d \in Devices \cup {NoDevice} : StartLogin(r, e, p, d)
         \/ StartPinLogin(r, e, p)
    \/ \E u \in Users : StartRefresh(r, u) \/ \E p \in Secrets : StartVerifyPin(r, u, p)
    \/ \E e \in Emails : StartChallenge(r, e)
    \/ \E c \in ChallengeId : StartBiometricLogin(r, c)
    \/ \E u \in Users, d \in Devices : StartRegister(r, u, d)
    \/ \E u \in Users, t \in TokenId : StartRemoveDevice(r, u, t)

SessionStep(r) ==
    \/ CountWrong(r) \/ ResetPin(r)
    \/ DropSessions(r) \/ CreateSession(r)
    \/ FindSession(r) \/ SaveSession(r)
    \/ InsertChallenge(r) \/ MarkChallenge(r)
    \/ FindDevice(r) \/ TakeDevice(r) \/ DropDevice(r) \/ InsertDevice(r)
=============================================================================
