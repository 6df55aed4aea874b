------------------------------- MODULE Reports ------------------------------
(***************************************************************************)
(* The queries over the receipts that are kept: the reports                *)
(* (reports.service.ts, reports.repository.ts) and the pages of the list.  *)
(* Amounts of groups that a query does not return are filled up with zero. *)
(***************************************************************************)
EXTENDS CardJobs

CONSTANTS Stores, Years, PageSizes

Date(c) == receipt[c].bill.date
In(y) == {c \in KeptReceipts : Date(c).year = y}
InMonth(y, m) == {c \in In(y) : Date(c).month = m}

-----------------------------------------------------------------------------
(* The calendar *)

LeapYear(y) == (y % 4 = 0 /\ y % 100 # 0) \/ y % 400 = 0

(* new Date(year, month, 0).getDate()                                      *)
Mut_LastDay(y, m) == IF m = 2 THEN 28 ELSE IF m \in {4, 6, 9, 11} THEN 30 ELSE 31
LastDay(y, m) ==
    IF m = 2 THEN IF LeapYear(y) THEN 29 ELSE 28
    ELSE IF m \in {4, 6, 9, 11} THEN 30 ELSE 31

(* EXTRACT(DOW): 0 is Sunday.  Counted from 1 January of the year 1, a     *)
(* Monday.                                                                 *)
DaysBefore(y) == 365 * (y - 1) + (y - 1) \div 4 - (y - 1) \div 100 + (y - 1) \div 400
DayOfYear(d) ==
    SumOf([m \in 1..(d.month - 1) |-> LastDay(d.year, m)]) + d.day
Weekday(d) == (DaysBefore(d.year) + DayOfYear(d)) % 7

(* An amount is at least 0 (createReceiptRequest.dto.ts) and stored without *)
(* decimals, a date is one of the calendar, a category is a foreign key or *)
(* null (receipt.entity.ts); a page has at least one row                   *)
(* (getReceiptsQuery.dto.ts).                                              *)
ASSUME ReportAssumption ==
    /\ IsFiniteSet(Stores) /\ PageSizes \subseteq Nat \ {0}
    /\ \A b \in Bills :
         /\ b.amount \in Nat /\ b.store \in Stores
         /\ b.category \in Categories \cup {NoCategory}
         /\ b.date.year \in Nat /\ b.date.month \in 1..12 /\ b.date.day \in 1..31
         /\ b.date.month \in {4, 6, 9, 11} => b.date.day # 31
         /\ b.date.month = 2 => b.date.day \in 1..28 \/ (b.date.day = 29 /\ LeapYear(b.date.year))

-----------------------------------------------------------------------------
(* Reports *)

MonthlySpend(y) == [m \in 1..12 |-> Total(InMonth(y, m))]
DailySpend(y, m) ==
    [d \in 1..LastDay(y, m) |-> Total({c \in InMonth(y, m) : Date(c).day = d})]
WeekdaySummary(y) == [w \in 0..6 |-> Total({c \in In(y) : Weekday(Date(c)) = w})]
ThisMonthSummary(y, m) == Total(InMonth(y, m))

(* The LEFT JOIN keeps the receipts without category as a group.           *)
GroupsIn(y) == {receipt[c].bill.category : c \in In(y)}
CategorySummary(y) ==
    [k \in GroupsIn(y) |-> Total({c \in In(y) : receipt[c].bill.category = k})]

(* toFixed(1) of a percentage, in tenths.                                  *)
Percentage(amount, total) ==
    IF total = 0 THEN 0 ELSE (2000 * amount + total) \div (2 * total)

StoreTotal(y, s) == Total({c \in In(y) : receipt[c].bill.store = s})
TopStores(y, limit) ==
    LET visited == {receipt[c].bill.store : c \in In(y)}
        sorted == InOrder(visited, {p \in visited \X visited :
                                        StoreTotal(y, p[1]) > StoreTotal(y, p[2])})
    IN  SubSeq(sorted, 1, MinOf(limit, Cardinality(visited)))

-----------------------------------------------------------------------------
(* Lists *)

(* findList: a date, else a year, perhaps with a month, else a range.      *)
Matches(c, query) ==
    CASE query.kind = "date"  -> Date(c) = query.date
      [] query.kind = "year"  -> Date(c).year = query.year
      [] query.kind = "month" -> Date(c).year = query.year /\ Date(c).month = query.month
      [] query.kind = "all"   -> TRUE

Queries ==
    {[kind |-> "all"]} \cup {[kind |-> "year", year |-> y] : y \in Years}
        \cup {[kind |-> "date", date |-> b.date] : b \in Bills}
        \cup {[kind |-> "month", year |-> b.date.year, month |-> b.date.month] : b \in Bills}

Found(query) == {c \in KeptReceipts : Matches(c, query)}

(* applySort; receipts that compare equal come in an order that the        *)
(* database chooses, here the same for all pages.                          *)
SortBefore(sort, a, b) ==
    LET x == receipt[a].bill  y == receipt[b].bill
    IN  IF sort = "amountAsc" THEN x.amount < y.amount ELSE x.amount > y.amount
Sorted(query, sort) ==
    InOrder(Found(query), {p \in Found(query) \X Found(query) : SortBefore(sort, p[1], p[2])})

(* skip((page - 1) * size).take(size)                                      *)
Mut_Skipped(page, size) == page * size
Skipped(page, size) == (page - 1) * size
Page(rows, page, size) ==
    LET from == Skipped(page, size) + 1
    IN  SubSeq(rows, from, MinOf(from + size - 1, Len(rows)))

TotalPages(count, size) == IF count = 0 THEN 0 ELSE (count + size - 1) \div size

(* getDocuments answers whether a page follows.                            *)
HasNext(total, page, limit) == total > page * limit
=============================================================================
