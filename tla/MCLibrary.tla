----------------------------- MODULE MCLibrary ------------------------------
(* Constants of the TLC runs of Library.                                   *)
EXTENDS Library, TLC

CONSTANTS C1, C2, I1, R1, T1   \* members of Receipts, Images, Requests and Threads

Day(y, m, d) == [year |-> y, month |-> m, day |-> d]
Bill(amount, category, date, store) ==
    [amount |-> amount, category |-> category, date |-> date, store |-> store]

(* A leap day, the last day of a year, no category, and one long ago.      *)
AllBills ==
    {Bill(10, 1, Day(2024, 2, 29), "s1"), Bill(20, 2, Day(2024, 12, 31), "s2"),
     Bill(5, NoCategory, Day(2024, 12, 31), "s1"), Bill(7, 1, Day(2023, 3, 1), "s1")}
Recent == {Day(2024, 2, 29), Day(2024, 12, 31)}
TheYears == {2023, 2024}

(* Two categories, a card for each, a free card, and one without a fee.    *)
CategoryNames == <<"food", "fuel">>
CardFees == [food |-> 10, fuel |-> 5, both |-> 20, unknown |-> -1]
CardTags == [food |-> {"food"}, fuel |-> {"fuel"}, both |-> {"food", "fuel"}, unknown |-> {}]
AllCards == DOMAIN CardFees

Empty == [c \in Receipts |-> NoReceiptRow]
OneGiven == {[Empty EXCEPT ![C1] = NewReceipt(b, i)] :
                b \in {Bill(10, 1, Day(2024, 2, 29), "s1")}, i \in {I1, NoImage}}
TwoGiven == {[Empty EXCEPT ![C1] = NewReceipt(b, I1), ![C2] = NewReceipt(e, NoImage)] :
                b \in AllBills, e \in AllBills}

TwoBills == {Bill(10, 1, Day(2024, 2, 29), "s1"), Bill(20, 2, Day(2024, 12, 31), "s2")}

Scenario(ops, slots, threads, max, given, bills) ==
    [ops |-> ops, slots |-> slots, threads |-> threads, max |-> max, given |-> given,
     bills |-> bills]

(* Requests of documents, of receipts, two and one at a time; jobs of one  *)
(* and of two threads.                                                     *)
LibraryScenarios ==
    {Scenario(ops, Requests, {}, 3, {Empty}, {}) :
        ops \in {{"create", "deleteDoc"}, {"edit", "favorite", "deleteDoc"},
                 {"addTag", "removeTag", "deleteDoc"}}}
    \cup {Scenario({"create", "unlock", "lock", "list", "read", "download"}, {R1}, {}, 3,
                   {Empty}, {}),
          Scenario(ReceiptOps, Requests, {}, 2, OneGiven, TwoBills),
          Scenario(ReceiptOps \cup {"deleteDoc"}, {R1}, {}, 2, OneGiven, AllBills),
          Scenario({"remove"}, {R1}, {}, 1, TwoGiven, {}),
          Scenario({"add", "requestAi"}, {R1}, {T1}, 3, OneGiven, TwoBills),
          Scenario({"requestAi"}, {R1}, Threads, 3, OneGiven, {})}
LockScenario == {Scenario({"lock", "favorite"}, Requests, {}, 2, {Empty}, {})}
=============================================================================
