---------------------------- MODULE AccountStore ----------------------------
(***************************************************************************)
(* What auth.service.ts, users.service.ts and notifications.service.ts     *)
(* share about accounts: the tables users, user_security, user_settings,   *)
(* user_consents, auth_tokens, email_verifications, biometric_challenges   *)
(* and device_tokens.                                                      *)
(*                                                                         *)
(* A hash stands for what was hashed, a signature is right or wrong, and   *)
(* the columns of a row that no handler decides upon are left out; saving  *)
(* one of them still writes the others back.                               *)
(***************************************************************************)
EXTENDS Naturals, Sequences, FiniteSets

CONSTANTS
    Users, NoUser,
    Emails, NoEmail,
    Within,              \* Within[e]: the addresses that contain e, as ILIKE '%e%' finds them
    Secrets, NoSecret,   \* passwords and PINs
    Devices, NoDevice,   \* FCM tokens
    Consents,            \* DEFAULT_USER_CONSENTS: consent types, in order
    Required,            \* the types that are required
    PinMax,              \* PIN_MAX_FAILED_ATTEMPTS
    Requests,            \* slots for HTTP requests that are in progress together
    Scenarios,           \* the sets of operations of which a behaviour uses one
    MaxVerifications, MaxChallenges, MaxSessions, MaxTokens,   \* bounds on rows
    MaxFaults            \* bound: awaited calls that fail

AllOps == {"send", "signUp", "createUser", "reset", "updatePassword", "updateUser",
           "withdraw", "login", "pinLogin", "refresh", "challenge", "biometricLogin",
           "verifyPin", "updatePin", "setBiometric", "settings", "getConsents",
           "updateConsent", "register", "removeDevice", "logout"}

ConsentTypes == {Consents[i] : i \in 1..Len(Consents)}

ASSUME AccountAssumption ==
    /\ NoUser \notin Users /\ NoEmail \notin Emails
    /\ NoSecret \notin Secrets /\ NoDevice \notin Devices
    /\ Within \in [Emails -> SUBSET Emails] /\ \A e \in Emails : e \in Within[e]
    /\ Consents \in Seq(STRING) /\ Consents # <<>> /\ Required \subseteq ConsentTypes
    /\ IsFiniteSet(Requests)
    /\ Scenarios \subseteq SUBSET AllOps
    /\ PinMax \in Nat \ {0}
    /\ MaxVerifications \in Nat /\ MaxChallenges \in Nat
    /\ MaxSessions \in Nat /\ MaxTokens \in Nat /\ MaxFaults \in Nat

NoId == 0
VerificationId == 1..MaxVerifications
ChallengeId == 1..MaxChallenges
SessionId == 1..MaxSessions
TokenId == 1..MaxTokens
Id == VerificationId \cup ChallengeId \cup SessionId \cup TokenId \cup {NoId}

VARIABLES
    user,          \* user[u]: the users row
    security,      \* security[u]: the user_security row
    settings,      \* settings[u]: the user_settings row
    consent,       \* consent[u][t]: the user_consents row of a type
    session,       \* session[s]: the auth_tokens row
    verification,  \* verification[v]: the email_verifications row
    challenge,     \* challenge[c]: the biometric_challenges row
    token,         \* token[t]: the device_tokens row
    req,           \* req[r]: the request in slot r
    ops,           \* the operations that this behaviour uses
    uses,          \* uses[v]: accounts created and passwords changed by verification v
    opened,        \* opened[c]: sessions opened by challenge c
    faults         \* failed calls so far

tables == <<user, security, settings, consent, session, verification, challenge, token>>
history == <<uses, opened>>
vars == <<tables, history, req, ops, faults>>

-----------------------------------------------------------------------------
(* Rows *)

UserRow ==
    [state : {"NONE", "ACTIVE", "WITHDRAWN"}, email : Emails \cup {NoEmail},
     password : Secrets \cup {NoSecret}]
SecurityRow ==
    [exists : BOOLEAN, pin : Secrets \cup {NoSecret}, failed : Nat, biometric : BOOLEAN]
SettingsRow == [exists : BOOLEAN, push : BOOLEAN]
ConsentState == {"NONE", "NO", "YES"}
SessionRow == [state : {"NONE", "LIVE", "GONE"}, user : Users \cup {NoUser}]
Purpose == {"SIGNUP", "RESET_PW"}
VerificationRow ==
    [exists : BOOLEAN, email : Emails \cup {NoEmail}, purpose : Purpose,
     used : BOOLEAN, expired : BOOLEAN]
ChallengeRow == [user : Users \cup {NoUser}, used : BOOLEAN, expired : BOOLEAN]
TokenRow ==
    [device : Devices \cup {NoDevice}, user : Users \cup {NoUser}, active : BOOLEAN]

NoUserRow == [state |-> "NONE", email |-> NoEmail, password |-> NoSecret]
NoSecurity == [exists |-> FALSE, pin |-> NoSecret, failed |-> 0, biometric |-> FALSE]
NoSettings == [exists |-> FALSE, push |-> FALSE]
NoSession == [state |-> "NONE", user |-> NoUser]
NoVerification ==
    [exists |-> FALSE, email |-> NoEmail, purpose |-> "SIGNUP", used |-> FALSE,
     expired |-> FALSE]
NoChallenge == [user |-> NoUser, used |-> FALSE, expired |-> FALSE]
NoToken == [device |-> NoDevice, user |-> NoUser, active |-> FALSE]

NewUser(e, p) == [state |-> "ACTIVE", email |-> e, password |-> p]
NewSecurity(p) == [exists |-> TRUE, pin |-> p, failed |-> 0, biometric |-> FALSE]
NewSettings == [exists |-> TRUE, push |-> TRUE]
NewVerification(e, purpose) ==
    [exists |-> TRUE, email |-> e, purpose |-> purpose, used |-> FALSE, expired |-> FALSE]

(* The id that the next insert into a table gets.                          *)
Lowest(ids) == {i \in ids : \A j \in ids : i <= j}

-----------------------------------------------------------------------------
(* Queries *)

Active(u) == user[u].state = "ACTIVE"

(* getUsers({ email }): a match of part of the address, in no order.       *)
UsersLike(e) == {u \in Users : Active(u) /\ user[u].email \in Within[e]}

(* findByEmail: the address itself.                                        *)
UsersWith(e) == {u \in Users : Active(u) /\ user[u].email = e}

(* The unique index on users.email, which withdrawn users keep.            *)
Mut_EmailFree(e, u) == \A v \in Users \ {u} : Active(v) => user[v].email # e
EmailFree(e, u) == \A v \in Users \ {u} : user[v].email # e

LiveSessions(u) == {s \in SessionId : session[s].state = "LIVE" /\ session[s].user = u}
RowsOfDevice(d) == {t \in TokenId : token[t].device = d}

-----------------------------------------------------------------------------
(* Requests *)

RequestPc ==
    {"idle", "countWrong", "resetPin", "dropSessions", "createSession", "findSession",
     "saveSession", "insertChallenge", "markChallenge", "findDevice", "takeDevice",
     "dropDevice", "insertDevice", "insertVerification", "findEmail", "insertUser",
     "markUsed", "loadUser", "saveUser", "loadSecurity", "saveSecurity", "saveSettings",
     "findConsent", "writeConsent", "commitConsent"}

Request ==
    [op : AllOps \cup {"none"}, pc : RequestPc, user : Users \cup {NoUser}, id : Id,
     email : Emails \cup {NoEmail}, secret : Secrets \cup {NoSecret},
     device : Devices \cup {NoDevice}, row : UserRow, sec : SecurityRow,
     n : 0..Len(Consents), given : BOOLEAN, empty : BOOLEAN]

IdleRequest ==
    [op |-> "none", pc |-> "idle", user |-> NoUser, id |-> NoId, email |-> NoEmail,
     secret |-> NoSecret, device |-> NoDevice, row |-> NoUserRow, sec |-> NoSecurity,
     n |-> 0, given |-> FALSE, empty |-> FALSE]

Idle(r) == req[r].pc = "idle"
At(r, pc) == req[r].pc = pc
Op(r) == req[r].op
UserOf(r) == req[r].user

(* A request of this behaviour that slot r may take.                       *)
May(r, op) == op \in ops /\ Idle(r)

(* What a request holds, once it has got as far as pc.                     *)
Begun(op, pc, u) == [IdleRequest EXCEPT !.op = op, !.pc = pc, !.user = u]

(* The guard of the other endpoints (JwtAuthGuard): the user of the token  *)
(* exists.  Its refresh of an expired token is a request of its own.       *)
Guarded(r, op, u) == May(r, op) /\ Active(u)

Finished(r) == [req EXCEPT ![r] = IdleRequest]
Moved(r, pc) == [req EXCEPT ![r].pc = pc]
=============================================================================
