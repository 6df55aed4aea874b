------------------------------ MODULE Profiles ------------------------------
(***************************************************************************)
(* The requests that create and change accounts: e-mail verification,      *)
(* sign-up, passwords, PINs, the user row, settings and consents.          *)
(*                                                                         *)
(* createUser and updateUserConsent run in a transaction: what they write  *)
(* appears in one step.  Elsewhere a row is found in one step and saved in *)
(* a later one, with every column as it was found or set.                  *)
(***************************************************************************)
EXTENDS AccountStore

(* POST /auth/email-verification/send                                      *)
StartSend(r, e, purpose) ==
    /\ May(r, "send")
    /\ (purpose = "SIGNUP") <=> (UsersLike(e) = {})
    /\ req' = [req EXCEPT ![r] = [Begun("send", "insertVerification", NoUser)
                                    EXCEPT !.email = e, !.given = (purpose = "SIGNUP")]]
    /\ UNCHANGED <<tables, history, ops, faults>>

(* The row stays whether or not the mail is sent.                          *)
InsertVerification(r) ==
    /\ At(r, "insertVerification")
    /\ \E v \in Lowest({i \in VerificationId : ~verification[i].exists}) :
         verification' = [verification EXCEPT ![v] =
             NewVerification(req[r].email, IF req[r].given THEN "SIGNUP" ELSE "RESET_PW")]
    /\ req' = Finished(r)
    /\ UNCHANGED <<user, security, settings, consent, session, challenge, token,
                   history, ops, faults>>

(* POST /auth/signup: the verification must be unused; its address, its    *)
(* purpose and its expiry are not looked at.                               *)
Unused(v) == verification[v].exists /\ ~verification[v].used

StartSignUp(r, v, e, p) ==
    /\ May(r, "signUp") /\ Unused(v)
    /\ req' = [req EXCEPT ![r] = [Begun("signUp", "findEmail", NoUser)
                                    EXCEPT !.id = v, !.email = e, !.secret = p]]
    /\ UNCHANGED <<tables, history, ops, faults>>

(* POST /users: the same transaction, without verification and PIN.        *)
StartCreateUser(r, e, p) ==
    /\ May(r, "createUser") /\ \E u \in Users : Active(u)
    /\ req' = [req EXCEPT ![r] = [Begun("createUser", "findEmail", NoUser)
                                    EXCEPT !.email = e, !.secret = p]]
    /\ UNCHANGED <<tables, history, ops, faults>>

FindEmail(r) ==
    /\ At(r, "findEmail")
    /\ req' = IF UsersWith(req[r].email) = {} THEN Moved(r, "insertUser") ELSE Finished(r)
    /\ UNCHANGED <<tables, history, ops, faults>>

(* One transaction: the user, his security and his settings.  A violation  *)
(* of the unique index rolls it back.                                      *)
PinOf(r) == IF Op(r) = "signUp" THEN req[r].secret ELSE NoSecret

InsertUser(r) ==
    /\ At(r, "insertUser")
    /\ \E u \in Users :
         /\ user[u].state = "NONE"
         /\ EmailFree(req[r].email, u)
         /\ user' = [user EXCEPT ![u] = NewUser(req[r].email, req[r].secret)]
         /\ security' = [security EXCEPT ![u] = NewSecurity(PinOf(r))]
         /\ settings' = [settings EXCEPT ![u] = NewSettings]
    /\ uses' = IF Op(r) = "signUp" THEN [uses EXCEPT ![req[r].id] = @ + 1] ELSE uses
    /\ req' = IF Op(r) = "signUp" THEN Moved(r, "markUsed") ELSE Finished(r)
    /\ UNCHANGED <<consent, session, verification, challenge, token, opened, ops, faults>>

InsertUserFails(r) ==
    /\ At(r, "insertUser")
    /\ ~EmailFree(req[r].email, NoUser)
    /\ req' = Finished(r)
    /\ UNCHANGED <<tables, history, ops, faults>>

(* markAsUsed, after what the verification was for.                        *)
Mut_MarkUsed(r) ==
    /\ At(r, "markUsed")
    /\ req' = IF Op(r) = "reset" THEN Moved(r, "dropSessions") ELSE Finished(r)
    /\ UNCHANGED <<tables, history, ops, faults>>
MarkUsed(r) ==
    /\ At(r, "markUsed")
    /\ verification' = [verification EXCEPT ![req[r].id].used = TRUE]
    /\ req' = IF Op(r) = "reset" THEN Moved(r, "dropSessions") ELSE Finished(r)
    /\ UNCHANGED <<user, security, settings, consent, session, challenge, token,
                   history, ops, faults>>

-----------------------------------------------------------------------------
(* Updates of the user row *)

(* POST /auth/password/reset                                               *)
StartReset(r, v, p) ==
    /\ May(r, "reset")
    /\ Unused(v) /\ ~verification[v].expired /\ verification[v].purpose = "RESET_PW"
    /\ \E u \in UsersLike(verification[v].email) :
         req' = [req EXCEPT ![r] = [Begun("reset", "loadUser", u)
                                      EXCEPT !.id = v, !.secret = p]]
    /\ UNCHANGED <<tables, history, ops, faults>>

(* POST /auth/password/update: the new password differs from the current.  *)
StartUpdatePassword(r, u, p) ==
    /\ Guarded(r, "updatePassword", u) /\ user[u].password # p
    /\ req' = [req EXCEPT ![r] = [Begun("updatePassword", "loadUser", u)
                                    EXCEPT !.secret = p]]
    /\ UNCHANGED <<tables, history, ops, faults>>

(* PATCH /users/:id with an address, and PATCH /users/me/nickname without. *)
StartUpdateUser(r, u, e) ==
    /\ Guarded(r, "updateUser", u)
    /\ e # NoEmail => UsersWith(e) \subseteq {u}
    /\ req' = [req EXCEPT ![r] = [Begun("updateUser", "loadUser", u) EXCEPT !.email = e]]
    /\ UNCHANGED <<tables, history, ops, faults>>

(* DELETE /users/:id                                                       *)
StartWithdraw(r, u) ==
    /\ Guarded(r, "withdraw", u)
    /\ req' = [req EXCEPT ![r] = Begun("withdraw", "loadUser", u)]
    /\ UNCHANGED <<tables, history, ops, faults>>

(* Object.assign on the row that was found                                 *)
Changed(r, row) ==
    CASE Op(r) \in {"reset", "updatePassword"} -> [row EXCEPT !.password = req[r].secret]
      [] Op(r) = "withdraw" -> [row EXCEPT !.state = "WITHDRAWN"]
      [] OTHER -> [row EXCEPT !.email = IF req[r].email = NoEmail THEN @ ELSE req[r].email]

LoadUser(r) ==
    /\ At(r, "loadUser")
    /\ req' = IF Active(UserOf(r))
              THEN [req EXCEPT ![r].pc = "saveUser", ![r].row = Changed(r, user[UserOf(r)])]
              ELSE Finished(r)
    /\ UNCHANGED <<tables, history, ops, faults>>

SaveUser(r) ==
    /\ At(r, "saveUser")
    /\ EmailFree(req[r].row.email, UserOf(r))
    /\ user' = [user EXCEPT ![UserOf(r)] = req[r].row]
    /\ uses' = IF Op(r) = "reset" THEN [uses EXCEPT ![req[r].id] = @ + 1] ELSE uses
    /\ req' = IF Op(r) = "reset" THEN Moved(r, "markUsed") ELSE Finished(r)
    /\ UNCHANGED <<security, settings, consent, session, verification, challenge, token,
                   opened, ops, faults>>

SaveUserFails(r) ==
    /\ At(r, "saveUser")
    /\ ~EmailFree(req[r].row.email, UserOf(r))
    /\ req' = Finished(r)
    /\ UNCHANGED <<tables, history, ops, faults>>

-----------------------------------------------------------------------------
(* Updates of user_security and user_settings *)

(* PATCH /users/me/pin: the current PIN is right; the lock is not looked   *)
(* at.  updateSecurity then finds the row once more.                       *)
StartUpdatePin(r, u, p) ==
    /\ Guarded(r, "updatePin", u)
    /\ security[u].exists /\ security[u].pin # NoSecret
    /\ req' = [req EXCEPT ![r] = [Begun("updatePin", "loadSecurity", u) EXCEPT !.secret = p]]
    /\ UNCHANGED <<tables, history, ops, faults>>

(* POST /auth/biometric/enable, on or off                                  *)
StartSetBiometric(r, u, on) ==
    /\ Guarded(r, "setBiometric", u)
    /\ req' = [req EXCEPT ![r] = [Begun("setBiometric", "loadSecurity", u)
                                    EXCEPT !.given = on]]
    /\ UNCHANGED <<tables, history, ops, faults>>

LoadSecurity(r) ==
    /\ At(r, "loadSecurity")
    /\ LET row == security[UserOf(r)] IN
         req' = IF row.exists
                THEN [req EXCEPT ![r].pc = "saveSecurity",
                        ![r].sec = IF Op(r) = "updatePin"
                                   THEN [row EXCEPT !.pin = req[r].secret, !.failed = 0]
                                   ELSE [row EXCEPT !.biometric = req[r].given]]
                ELSE Finished(r)
    /\ UNCHANGED <<tables, history, ops, faults>>

SaveSecurity(r) ==
    /\ At(r, "saveSecurity")
    /\ security' = [security EXCEPT ![UserOf(r)] = req[r].sec]
    /\ req' = Finished(r)
    /\ UNCHANGED <<user, settings, consent, session, verification, challenge, token,
                   history, ops, faults>>

(* PATCH /users/me/settings: push is on or off in what is saved, whether   *)
(* the request set it or found it so.                                      *)
StartSettings(r, u, push) ==
    /\ Guarded(r, "settings", u) /\ settings[u].exists
    /\ req' = [req EXCEPT ![r] = [Begun("settings", "saveSettings", u)
                                    EXCEPT !.given = push]]
    /\ UNCHANGED <<tables, history, ops, faults>>

SaveSettings(r) ==
    /\ At(r, "saveSettings")
    /\ settings' = [settings EXCEPT ![UserOf(r)].push = req[r].given]
    /\ req' = Finished(r)
    /\ UNCHANGED <<user, security, consent, session, verification, challenge, token,
                   history, ops, faults>>

-----------------------------------------------------------------------------
(* Consents *)

Exists(u, t) == consent[u][t] # "NONE"
HasConsents(u) == \E t \in ConsentTypes : Exists(u, t)

(* GET /users/me/consents: ensureDefaultConsents inserts or resets one     *)
(* type after the other, outside a transaction, when it has found none.    *)
StartGetConsents(r, u) ==
    /\ Guarded(r, "getConsents", u) /\ ~HasConsents(u)
    /\ req' = [req EXCEPT ![r] = [Begun("getConsents", "findConsent", u) EXCEPT !.n = 1]]
    /\ UNCHANGED <<tables, history, ops, faults>>

TypeAt(r) == Consents[req[r].n]

FindConsent(r) ==
    /\ At(r, "findConsent")
    /\ req' = [req EXCEPT ![r].pc = "writeConsent", ![r].empty = ~Exists(UserOf(r), TypeAt(r))]
    /\ UNCHANGED <<tables, history, ops, faults>>

Mut_NextConsent(r) ==
    IF req[r].n > Len(Consents) THEN Finished(r)
    ELSE [req EXCEPT ![r].pc = "findConsent", ![r].n = @ + 1, ![r].empty = FALSE]
Mut_NextConsentEarly(r) ==
    IF req[r].n + 1 = Len(Consents) THEN Finished(r)
    ELSE [req EXCEPT ![r].pc = "findConsent", ![r].n = @ + 1, ![r].empty = FALSE]
NextConsent(r) ==
    IF req[r].n = Len(Consents) THEN Finished(r)
    ELSE [req EXCEPT ![r].pc = "findConsent", ![r].n = @ + 1, ![r].empty = FALSE]

WriteConsent(r) ==
    /\ At(r, "writeConsent")
    /\ ~(req[r].empty /\ Exists(UserOf(r), TypeAt(r)))
    /\ consent' = [consent EXCEPT ![UserOf(r)][TypeAt(r)] = "NO"]
    /\ req' = NextConsent(r)
    /\ UNCHANGED <<user, security, settings, session, verification, challenge, token,
                   history, ops, faults>>

(* The unique index on user and type makes a second insert fail.           *)
WriteConsentFails(r) ==
    /\ At(r, "writeConsent")
    /\ req[r].empty /\ Exists(UserOf(r), TypeAt(r))
    /\ req' = Finished(r)
    /\ UNCHANGED <<tables, history, ops, faults>>

(* PATCH /users/me/consents/:consentType, in a transaction                 *)
StartUpdateConsent(r, u, i, agreed) ==
    /\ Guarded(r, "updateConsent", u)
    /\ Consents[i] \in Required => agreed
    /\ req' = [req EXCEPT ![r] = [Begun("updateConsent", "commitConsent", u)
                                    EXCEPT !.n = i, !.given = agreed,
                                           !.empty = ~HasConsents(u)]]
    /\ UNCHANGED <<tables, history, ops, faults>>

(* What the transaction sees: the defaults if it had to write them.        *)
Defaulted(r) ==
    IF req[r].empty THEN [t \in ConsentTypes |-> "NO"] ELSE consent[UserOf(r)]

CommitConsent(r) ==
    /\ At(r, "commitConsent")
    /\ Defaulted(r)[TypeAt(r)] # "NONE"
    /\ consent' = [consent EXCEPT ![UserOf(r)] =
                     [Defaulted(r) EXCEPT ![TypeAt(r)] = IF req[r].given THEN "YES" ELSE "NO"]]
    /\ settings' = IF TypeAt(r) = "MARKETING" /\ ~req[r].given
                   THEN [settings EXCEPT ![UserOf(r)].push = FALSE] ELSE settings
    /\ req' = Finished(r)
    /\ UNCHANGED <<user, security, session, verification, challenge, token, history, ops,
                   faults>>

(* The type is missing, or the insert of a default meets a row that        *)
(* another request has inserted since the transaction looked for it.       *)
RollBackConsent(r) ==
    /\ At(r, "commitConsent")
    /\ \/ Defaulted(r)[TypeAt(r)] = "NONE"
       \/ req[r].empty /\ HasConsents(UserOf(r))
    /\ req' = Finished(r)
    /\ UNCHANGED <<tables, history, ops, faults>>

-----------------------------------------------------------------------------
ProfileRequest(r) ==
    \/ \E e \in Emails : \E purpose \in Purpose : StartSend(r, e, purpose)
    \/ \E e \in Emails, p \in Secrets :
         StartCreateUser(r, e, p) \/ \E v \in VerificationId : StartSignUp(r, v, e, p)
    \/ \E v \in VerificationId, p \in Secrets : StartReset(r, v, p)
    \/ \E u \in Users, p \in Secrets : StartUpdatePassword(r, u, p) \/ StartUpdatePin(r, u, p)
    \/ \E u \in Users, e \in Emails \cup {NoEmail} : StartUpdateUser(r, u, e)
    \/ \E u \in Users : StartWithdraw(r, u) \/ StartGetConsents(r, u)
    \/ \E u \in Users, b \in BOOLEAN :
         \/ StartSetBiometric(r, u, b) \/ StartSettings(r, u, b)
         \/ \E i \in 1..Len(Consents) : StartUpdateConsent(r, u, i, b)

ProfileStep(r) ==
    \/ InsertVerification(r) \/ FindEmail(r) \/ InsertUser(r) \/ InsertUserFails(r)
    \/ MarkUsed(r) \/ LoadUser(r) \/ SaveUser(r) \/ SaveUserFails(r)
    \/ LoadSecurity(r) \/ SaveSecurity(r) \/ SaveSettings(r)
    \/ FindConsent(r) \/ WriteConsent(r) \/ WriteConsentFails(r)
    \/ CommitConsent(r) \/ RollBackConsent(r)
=============================================================================
