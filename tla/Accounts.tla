------------------------------ MODULE Accounts ------------------------------
(***************************************************************************)
(* Accounts and their sessions: the requests of both modules over the same *)
(* tables, with expiring codes and with failing calls.  A behaviour uses   *)
(* the operations of one scenario.                                         *)
(***************************************************************************)
EXTENDS Sessions, Profiles

(* Some users have signed up, each with an address of his own and the same *)
(* password and PIN, and none has asked for anything yet.                  *)
Init ==
    /\ ops \in Scenarios
    /\ \E registered \in SUBSET Users, address \in [Users -> Emails], p \in Secrets :
         /\ \A u, v \in registered : address[u] = address[v] => u = v
         /\ user = [u \in Users |-> IF u \in registered THEN NewUser(address[u], p)
                                                        ELSE NoUserRow]
         /\ security = [u \in Users |-> IF u \in registered THEN NewSecurity(p)
                                                            ELSE NoSecurity]
         /\ settings = [u \in Users |-> IF u \in registered THEN NewSettings ELSE NoSettings]
    /\ consent = [u \in Users |-> [t \in ConsentTypes |-> "NONE"]]
    /\ session = [s \in SessionId |-> NoSession]
    /\ verification = [v \in VerificationId |-> NoVerification]
    /\ challenge = [c \in ChallengeId |-> NoChallenge]
    /\ token = [t \in TokenId |-> NoToken]
    /\ req = [r \in Requests |-> IdleRequest]
    /\ uses = [v \in VerificationId |-> 0]
    /\ opened = [c \in ChallengeId |-> 0]
    /\ faults = 0

(* Five minutes pass after a code or a challenge was made.                 *)
ExpireVerification(v) ==
    /\ verification[v].exists
    /\ verification' = [verification EXCEPT ![v].expired = TRUE]
    /\ UNCHANGED <<user, security, settings, consent, session, challenge, token, history,
                   req, ops, faults>>
ExpireChallenge(c) ==
    /\ challenge[c].user # NoUser
    /\ challenge' = [challenge EXCEPT ![c].expired = TRUE]
    /\ UNCHANGED <<user, security, settings, consent, session, verification, token, history,
                   req, ops, faults>>

(* A call throws, or the server restarts, before the next write.           *)
Abort(r) ==
    /\ ~Idle(r) /\ faults < MaxFaults
    /\ faults' = faults + 1
    /\ req' = Finished(r)
    /\ UNCHANGED <<tables, history, ops>>

Next ==
    \/ \E r \in Requests : SessionRequest(r) \/ SessionStep(r)
    \/ \E r \in Requests : ProfileRequest(r) \/ ProfileStep(r) \/ Abort(r)
    \/ \E d \in Devices : Logout(d)
    \/ \E v \in VerificationId : ExpireVerification(v)
    \/ \E c \in ChallengeId : ExpireChallenge(c)

Spec == Init /\ [][Next]_vars

-----------------------------------------------------------------------------
(* Invariants *)

TypeOK ==
    /\ user \in [Users -> UserRow]
    /\ security \in [Users -> SecurityRow]
    /\ settings \in [Users -> SettingsRow]
    /\ consent \in [Users -> [ConsentTypes -> ConsentState]]
    /\ session \in [SessionId -> SessionRow]
    /\ verification \in [VerificationId -> VerificationRow]
    /\ challenge \in [ChallengeId -> ChallengeRow]
    /\ token \in [TokenId -> TokenRow]
    /\ req \in [Requests -> Request]
    /\ ops \in Scenarios
    /\ uses \in [VerificationId -> Nat]
    /\ opened \in [ChallengeId -> Nat]
    /\ faults \in Nat

Quiet == \A r \in Requests : Idle(r)

(* A user row always has its security and its settings row, and no two     *)
(* users ever have one address, withdrawn users included: sign-ups of one  *)
(* address and changes to it overlap, each having found the address free.  *)
AccountsConsistent ==
    /\ \A u \in Users : user[u].state # "NONE" => security[u].exists /\ settings[u].exists
    /\ \A u, v \in Users :
         user[u].state # "NONE" /\ user[v].state # "NONE" /\ u # v
           => user[u].email # user[v].email

(* One verification creates accounts or changes passwords at most as often *)
(* as requests can be in progress together, plus once for every request    *)
(* that fails before it marks the verification: the check and the mark are *)
(* far apart, but no request that starts after a mark gets through.        *)
VerificationUsesBounded ==
    \A v \in VerificationId : uses[v] <= Cardinality(Requests) + faults

(* The same for biometric challenges, which are marked before they are     *)
(* used, so that failures add nothing.                                     *)
ChallengeUsesBounded ==
    \A c \in ChallengeId : opened[c] <= Cardinality(Requests)

(* A user never has more sessions than requests can be in progress         *)
(* together: each login deletes before it inserts, and a refresh inserts   *)
(* a row again only if it had found it before.                             *)
SessionsBounded ==
    \A u \in Users : Cardinality(LiveSessions(u)) <= Cardinality(Requests)

(* Overlapping logins and refreshes never leave a user who has logged in   *)
(* without a session: of the deletions and insertions of two logins, an    *)
(* insertion is the last.                                                  *)
LoginKeepsSession ==
    Quiet /\ faults = 0 /\ "reset" \notin ops =>
        \A u \in Users : (\E s \in SessionId : session[s].user = u) => LiveSessions(u) # {}

(* Wrong PINs in parallel pass the limit by at most the other requests in  *)
(* progress: no request that starts at the limit is let in.  It needs that *)
(* nobody sets biometrics meanwhile, which writes an older count back.     *)
LockoutBounded ==
    "setBiometric" \notin ops =>
        \A u \in Users : security[u].failed <= PinMax + Cardinality(Requests) - 1

(* Default consents are all there or none: two requests that insert them   *)
(* at once may each fail at a row of the other, but not both.  A call that *)
(* fails leaves some of them for good.                                     *)
ConsentsComplete ==
    Quiet /\ faults = 0 =>
        \A u \in Users : HasConsents(u) => \A t \in ConsentTypes : Exists(u, t)

(* A device that was registered stays reachable until somebody logs out or *)
(* removes it, although registrations deactivate what they find first.     *)
DeviceStaysReachable ==
    Quiet /\ faults = 0 /\ {"logout", "removeDevice"} \cap ops = {} =>
        \A d \in Devices : RowsOfDevice(d) # {} => \E t \in RowsOfDevice(d) : token[t].active

=============================================================================
