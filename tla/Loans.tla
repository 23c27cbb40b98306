-------------------------------- MODULE Loans --------------------------------
(***************************************************************************)
(* Loans between countries: "loan offer", "loan accept" and "loan repay"   *)
(* (loan.rs), and the market loop's search for loans past their due date   *)
(* (check_trade of marketup.rs), on the rows of loans.rs.                  *)
(*                                                                         *)
(* As in module Market, every database call is a step, all of them run     *)
(* under the shared lock, and a put writes the whole row from a copy made  *)
(* earlier.  A treasury is a whole number of dollars while a loan's        *)
(* amounts are floating-point: money is counted in half dollars here, so   *)
(* that the truncation of "as i32" shows.                                  *)
(***************************************************************************)
EXTENDS Naturals, Integers, FiniteSets, FiniteSetsExt, Functions

CONSTANTS Players,      \* countries, each with a session that plays
          NoLoan,       \* no such row
          MaxUid,       \* bound on "loan offer" commands
          Amounts,      \* amounts that may be lent, in half dollars
          Payments,     \* amounts that may be repaid, in half dollars
          Rates,        \* interest, as multiples of the amount per day
          Terms,        \* days until a loan is due
          StartMoney,   \* treasury at the beginning, in half dollars
          MaxDays,      \* bound on the days that pass
          MaxRepays,    \* bound on "loan repay" commands
          MaxFaults     \* bound on failing database calls

ASSUME LoansAssumption ==
    /\ IsFiniteSet(Players)
    /\ NoLoan \notin Players
    /\ MaxUid \in Nat \ {0}
    /\ Amounts \subseteq Nat \ {0}
    /\ Payments \subseteq Nat \ {0}
    /\ Rates \subseteq Nat
    /\ Terms \subseteq Nat \ {0}
    /\ StartMoney \in Nat /\ StartMoney % 2 = 0
    /\ MaxDays \in Nat /\ MaxRepays \in Nat /\ MaxFaults \in Nat

Uids == 1..MaxUid

VARIABLES
    money,          \* the rows of the countries
    loans,          \* the rows of loans
    day,            \* days since the beginning
    overlapped,     \* history: whether a command began while another ran
    handed, lapses, \* history: how often the borrower of a loan was credited its
                    \* amount, and how often the put that ends an accept failed
    reused,         \* history: the numbers given to two loans
    pc,             \* the next database call of each player's command
    uid, loan,      \* the loan a command works on, and its copy of the row
    debit, credit,  \* copies of the treasuries money leaves and goes to
    pay,            \* the payment of a "loan repay"
    overdue,        \* the loans check_trade has yet to mark, as it read them
    offers, repays, faults    \* bounds: commands begun, database calls failed

rows    == <<money, loans>>
copies  == <<uid, loan, debit, credit, pay>>
bounds  == <<offers, repays, faults>>
dealt   == <<handed, lapses, reused>>
vars == <<rows, day, overlapped, dealt, pc, copies, overdue, bounds>>

Status == {"Offered", "Active", "Paid", "Defaulted"}
Loan == [loaner: Players, loanee: Players, amount: Amounts, paid: Nat,
         rate: Rates, status: Status, created: Nat, due: Nat]

ASSUME NoLoanAssumption == NoLoan \notin Loan

Dollars(x) == 2 * (x \div 2)      \* x as i32, in half dollars

TypeOK ==
    /\ money \in [Players -> Int]
    /\ loans \in [Uids -> Loan \cup {NoLoan}]
    /\ day \in Nat
    /\ overlapped \in BOOLEAN
    /\ handed \in [Uids -> Nat] /\ lapses \in [Uids -> Nat]
    /\ reused \subseteq Uids
    /\ pc \in [Players -> {"idle", "uid", "offer",
                           "loaner", "loanee", "debit", "credit", "sign",
                           "borrower", "lender", "pay", "receive", "settle"}]
    /\ uid \in [Players -> Uids]
    /\ loan \in [Players -> Loan \cup {NoLoan}]
    /\ debit \in [Players -> Int] /\ credit \in [Players -> Int]
    /\ pay \in [Players -> Nat]
    /\ overdue \subseteq [uid: Uids, loan: Loan]
    /\ offers \in Nat /\ repays \in Nat /\ faults \in Nat

Init ==
    /\ money = [p \in Players |-> StartMoney]
    /\ loans = [u \in Uids |-> NoLoan]
    /\ day = 0
    /\ overlapped = FALSE
    /\ handed = [u \in Uids |-> 0] /\ lapses = [u \in Uids |-> 0]
    /\ reused = {}
    /\ pc = [p \in Players |-> "idle"]
    /\ uid = [p \in Players |-> 1]
    /\ loan = [p \in Players |-> NoLoan]
    /\ debit = [p \in Players |-> 0] /\ credit = [p \in Players |-> 0]
    /\ pay = [p \in Players |-> 0]
    /\ overdue = {}
    /\ offers = 0 /\ repays = 0 /\ faults = 0

Resting == overdue = {} /\ \A p \in Players : pc[p] = "idle"
Begin(p) == pc[p] = "idle" /\ overlapped' = (overlapped \/ ~Resting)
GoTo(p, c) == pc' = [pc EXCEPT ![p] = c]
Set(f, p, v) == [f EXCEPT ![p] = v]

\* A put succeeds, or fails and leaves the row as it is.
Put(f, p, v, next) ==
    \/ next = Set(f, p, v) /\ UNCHANGED faults
    \/ faults < MaxFaults /\ faults' = faults + 1 /\ next = f

Failed == faults' # faults
OneMore(f, u) == [f EXCEPT ![u] = @ + 1]

\* total_owed: with simple interest while the loan is active.
Total(l, now) == l.amount * (1 + l.rate * (now - l.created))
TotalOwed(l, now) ==
    Max({0, (IF l.status = "Active" THEN Total(l, now) ELSE l.amount) - l.paid})

-----------------------------------------------------------------------------
(* Faulty variants of the definitions below.  Nothing in the specification *)
(* uses them: each stands for a mistake that a property must catch.        *)

\* "repay" that does not cap the payment at what is owed.
PaymentUncapped(p) == pay[p]

\* "accept" that does not look at the status.
MayAcceptAgain(p, l) == l # NoLoan /\ l.loanee = p

\* "repay" that credits the payment rounded up.
ReceiveRoundedUp(p) ==
    /\ pc[p] = "receive"
    /\ Put(money, loan[p].loaner, credit[p] + 2 * ((pay[p] + 1) \div 2), money')
    /\ GoTo(p, "settle")
    /\ UNCHANGED <<dealt, loans, day, overlapped, copies, overdue, offers, repays>>

-----------------------------------------------------------------------------
(* "loan offer": cmd_offer()                                               *)

\* The lender must have the money now; it is not set aside.
OfferLoan(p, d, amount, rate, term) ==
    /\ Begin(p)
    /\ d # p
    /\ money[p] >= amount
    /\ offers < MaxUid /\ offers' = offers + 1
    /\ loan' = Set(loan, p,
                   [loaner |-> p, loanee |-> d, amount |-> amount, paid |-> 0,
                    rate |-> rate, status |-> "Offered", created |-> day,
                    due |-> day + term])
    /\ GoTo(p, "uid")
    /\ UNCHANGED <<dealt, rows, day, uid, debit, credit, pay, overdue, repays, faults>>

\* next_uid: one more than the largest number in use.
NextUid == 1 + Max({0} \cup {u \in Uids : loans[u] # NoLoan})

OfferUid(p) ==
    /\ pc[p] = "uid"
    /\ uid' = Set(uid, p, NextUid)
    /\ GoTo(p, "offer")
    /\ UNCHANGED <<dealt, rows, day, overlapped, loan, debit, credit, pay, overdue, bounds>>

OfferPut(p) ==
    /\ pc[p] = "offer"
    /\ Put(loans, uid[p], loan[p], loans')
    /\ reused' = reused \cup {u \in {uid[p]} : loans[u] # NoLoan}
    /\ GoTo(p, "idle")
    /\ UNCHANGED <<handed, lapses, money, day, overlapped, copies, overdue, offers, repays>>

-----------------------------------------------------------------------------
(* "loan accept": cmd_accept()                                             *)

MayAccept(p, l) == l # NoLoan /\ l.loanee = p /\ l.status = "Offered"

AcceptLoan(p, u) ==
    /\ Begin(p)
    /\ IF MayAccept(p, loans[u])
         THEN uid' = Set(uid, p, u) /\ loan' = Set(loan, p, loans[u]) /\ GoTo(p, "loaner")
         ELSE UNCHANGED <<uid, loan, pc>>
    /\ UNCHANGED <<dealt, rows, day, debit, credit, pay, overdue, bounds>>

AcceptLoaner(p) ==
    /\ pc[p] = "loaner"
    /\ debit' = Set(debit, p, money[loan[p].loaner])
    /\ GoTo(p, "loanee")
    /\ UNCHANGED <<dealt, rows, day, overlapped, uid, loan, credit, pay, overdue, bounds>>

\* A lender who has no longer the money: nothing happens.
AcceptLoanee(p) ==
    /\ pc[p] = "loanee"
    /\ credit' = Set(credit, p, money[p])
    /\ GoTo(p, IF debit[p] < loan[p].amount THEN "idle" ELSE "debit")
    /\ UNCHANGED <<dealt, rows, day, overlapped, uid, loan, debit, pay, overdue, bounds>>

\* The three puts are all tried, whatever becomes of the earlier ones.
AcceptDebit(p) ==
    /\ pc[p] = "debit"
    /\ Put(money, loan[p].loaner, debit[p] - Dollars(loan[p].amount), money')
    /\ GoTo(p, "credit")
    /\ UNCHANGED <<dealt, loans, day, overlapped, copies, overdue, offers, repays>>

AcceptCredit(p) ==
    /\ pc[p] = "credit"
    /\ Put(money, p, credit[p] + Dollars(loan[p].amount), money')
    /\ handed' = IF Failed THEN handed ELSE OneMore(handed, uid[p])
    /\ GoTo(p, "sign")
    /\ UNCHANGED <<lapses, reused, loans, day, overlapped, copies, overdue, offers, repays>>

AcceptSign(p) ==
    /\ pc[p] = "sign"
    /\ Put(loans, uid[p], [loan[p] EXCEPT !.status = "Active"], loans')
    /\ lapses' = IF Failed THEN OneMore(lapses, uid[p]) ELSE lapses
    /\ GoTo(p, "idle")
    /\ UNCHANGED <<handed, reused, money, day, overlapped, copies, overdue, offers, repays>>

-----------------------------------------------------------------------------
(* "loan repay": cmd_repay()                                               *)

RepayLoan(p, u, amount) ==
    /\ Begin(p)
    /\ repays < MaxRepays /\ repays' = repays + 1
    /\ loans[u] # NoLoan /\ loans[u].loanee = p /\ loans[u].status = "Active"
    /\ uid' = Set(uid, p, u)
    /\ loan' = Set(loan, p, loans[u])
    /\ pay' = Set(pay, p, amount)
    /\ GoTo(p, "borrower")
    /\ UNCHANGED <<dealt, rows, day, debit, credit, overdue, offers, faults>>

RepayBorrower(p) ==
    /\ pc[p] = "borrower"
    /\ debit' = Set(debit, p, money[p])
    /\ GoTo(p, IF money[p] < pay[p] THEN "idle" ELSE "lender")
    /\ UNCHANGED <<dealt, rows, day, overlapped, uid, loan, credit, pay, overdue, bounds>>

Payment(p) == Min({pay[p], TotalOwed(loan[p], day)})

\* The loan is paid when nothing is owed after the payment.
Repaid(l, amount) ==
    LET after == [l EXCEPT !.paid = @ + amount] IN
    IF TotalOwed(after, day) = 0 THEN [after EXCEPT !.status = "Paid"] ELSE after

RepayLender(p) ==
    /\ pc[p] = "lender"
    /\ credit' = Set(credit, p, money[loan[p].loaner])
    /\ pay' = Set(pay, p, Payment(p))
    /\ loan' = Set(loan, p, Repaid(loan[p], Payment(p)))
    /\ GoTo(p, "pay")
    /\ UNCHANGED <<dealt, rows, day, overlapped, uid, debit, overdue, bounds>>

RepayPay(p) ==
    /\ pc[p] = "pay"
    /\ Put(money, p, debit[p] - Dollars(pay[p]), money')
    /\ GoTo(p, "receive")
    /\ UNCHANGED <<dealt, loans, day, overlapped, copies, overdue, offers, repays>>

RepayReceive(p) ==
    /\ pc[p] = "receive"
    /\ Put(money, loan[p].loaner, credit[p] + Dollars(pay[p]), money')
    /\ GoTo(p, "settle")
    /\ UNCHANGED <<dealt, loans, day, overlapped, copies, overdue, offers, repays>>

RepaySettle(p) ==
    /\ pc[p] = "settle"
    /\ Put(loans, uid[p], loan[p], loans')
    /\ GoTo(p, "idle")
    /\ UNCHANGED <<dealt, money, day, overlapped, copies, overdue, offers, repays>>

\* A read that fails ends the command where it is.
ReadFails(p) ==
    /\ pc[p] \in {"uid", "loaner", "loanee", "borrower", "lender"}
    /\ faults < MaxFaults
    /\ faults' = faults + 1
    /\ GoTo(p, "idle")
    /\ UNCHANGED <<dealt, rows, day, overlapped, copies, overdue, offers, repays>>

-----------------------------------------------------------------------------
(* The market loop: check_trade()                                          *)

FindOverdue ==
    /\ overdue = {} /\ overlapped' = (overlapped \/ ~Resting)
    /\ overdue' = {[uid |-> u, loan |-> loans[u]] :
                     u \in {v \in Uids : /\ loans[v] # NoLoan
                                         /\ loans[v].status = "Active"
                                         /\ day > loans[v].due}}
    /\ overdue' # {}
    /\ UNCHANGED <<dealt, rows, day, pc, copies, bounds>>

MarkDefaulted ==
    /\ \E o \in overdue :
        /\ \A q \in overdue : o.uid <= q.uid
        /\ Put(loans, o.uid, [o.loan EXCEPT !.status = "Defaulted"], loans')
        /\ overdue' = overdue \ {o}
    /\ UNCHANGED <<dealt, money, day, overlapped, pc, copies, offers, repays>>

-----------------------------------------------------------------------------
NextDay ==
    /\ day < MaxDays
    /\ day' = day + 1
    /\ UNCHANGED <<dealt, rows, overlapped, pc, copies, overdue, bounds>>

Command(p) ==
    \/ \E d \in Players, a \in Amounts, r \in Rates, t \in Terms : OfferLoan(p, d, a, r, t)
    \/ OfferUid(p) \/ OfferPut(p)
    \/ \E u \in Uids : AcceptLoan(p, u)
    \/ AcceptLoaner(p) \/ AcceptLoanee(p)
    \/ AcceptDebit(p) \/ AcceptCredit(p) \/ AcceptSign(p)
    \/ \E u \in Uids, a \in Payments : RepayLoan(p, u, a)
    \/ RepayBorrower(p) \/ RepayLender(p)
    \/ RepayPay(p) \/ RepayReceive(p) \/ RepaySettle(p)
    \/ ReadFails(p)

Next == (\E p \in Players : Command(p)) \/ FindOverdue \/ MarkDefaulted \/ NextDay

Spec == Init /\ [][Next]_vars

-----------------------------------------------------------------------------
(* Properties *)

\* No treasury is overdrawn by a loan or its repayment, however commands
\* interleave and whichever database calls fail.
NoOverdraft == \A p \in Players : money[p] >= 0

\* Whatever overlaps with a repayment, nobody repays more than the principal
\* and the interest until now.
NeverOverpaid ==
    \A u \in Uids : loans[u] # NoLoan => loans[u].paid <= Total(loans[u], day)

\* However loan commands overlap, checks on copies keep both bounds: no
\* treasury is overdrawn and no loan overpaid.
WithinBounds == NoOverdraft /\ NeverOverpaid

\* With one command at a time, loans and repayments only move money from
\* one country to another, as long as the puts succeed.
MoneyConserved ==
    /\ TypeOK
    /\ Resting /\ ~overlapped /\ faults = 0 =>
         SumFunction(money) = StartMoney * Cardinality(Players)

\* Whatever overlaps, a loan goes from offered to active, and from there to
\* paid or defaulted, and is never on offer again, unless its number is given
\* to two loans: a repayment and a default that cross may undo each other, but
\* with one command at a time paid and defaulted are for good.
Lifecycle ==
    [][\A u \in Uids :
        (overlapped => u \notin reused') /\ loans[u] # NoLoan =>
            /\ loans'[u] # NoLoan
            /\ \/ loans'[u].status = loans[u].status
               \/ <<loans[u].status, loans'[u].status>> \in
                    {<<"Offered", "Active">>, <<"Active", "Paid">>,
                     <<"Active", "Defaulted">>}
               \/ /\ overlapped
                  /\ loans[u].status \in {"Paid", "Defaulted"}
                  /\ loans'[u].status # "Offered"]_loans

\* The amount of a loan is handed over once: the loan is no longer on offer, or
\* its accept is about to say so.  Whenever that last put fails the loan stays
\* on offer after its amount was handed over, and it may be handed over once
\* more; but for these, whatever overlaps and whichever other calls fail, it is
\* not, unless its number is given to two loans.
Concluded(u) ==
    \/ loans[u] # NoLoan /\ loans[u].status # "Offered"
    \/ \E p \in Players : pc[p] = "sign" /\ uid[p] = u

HandedOver ==
    \A u \in Uids \ reused :
        handed[u] <= lapses[u] + (IF Concluded(u) THEN 1 ELSE 0)
=============================================================================
