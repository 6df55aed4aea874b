----------------------------- MODULE MCAccounts -----------------------------
(* Constants of the TLC runs of Accounts.                                  *)
EXTENDS Accounts, TLC

CONSTANT Short   \* an address that is part of every other

AddressesWith == [e \in Emails |-> IF e = Short THEN Emails ELSE {e}]

ConsentOrder == <<"TERMS", "MARKETING">>
RequiredTypes == {"TERMS"}

(* Each set is a group of requests that write the same tables.             *)
AccountScenarios ==
    {{"login", "refresh"}, {"send", "reset"}, {"pinLogin"}, {"verifyPin", "updatePin"},
     {"setBiometric", "challenge", "biometricLogin"},
     {"send", "signUp", "createUser"},
     {"updatePassword", "updateUser", "withdraw"},
     {"settings", "getConsents", "updateConsent"},
     {"login", "register"}, {"register", "removeDevice", "logout"}}

Symmetry == Permutations(Requests) \cup Permutations(Users) \cup Permutations(Secrets)
=============================================================================
