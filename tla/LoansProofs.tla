---------------------------- MODULE LoansProofs -----------------------------
(***************************************************************************)
(* Proofs about module Loans, for any number of players, loans, amounts,   *)
(* rates and terms, and however many database calls fail.                  *)
(***************************************************************************)
EXTENDS Loans, SetLemmas

-----------------------------------------------------------------------------
(* Arithmetic *)

LEMMA Product == \A a, b \in Nat : a * b \in Nat
OBVIOUS

LEMMA ProductGrows ==
    ASSUME NEW a \in Nat, NEW b \in Nat, NEW c \in Nat, b <= c
    PROVE  a * b <= a * c
<1>1. a * (c - b) \in Nat
  BY Product
<1>2. a * c = a * b + a * (c - b)
  OBVIOUS
<1>3. a * b \in Nat
  BY Product
<1> QED
  BY <1>1, <1>2, <1>3

\* Truncation to whole dollars never makes a payment larger.
LEMMA DollarsTruncate ==
    ASSUME NEW n \in Nat
    PROVE  Dollars(n) \in Nat /\ Dollars(n) <= n
<1>1. n \div 2 \in Int /\ n \div 2 >= 0 /\ 2 * (n \div 2) <= n
  OBVIOUS
<1> QED
  BY <1>1 DEF Dollars

-----------------------------------------------------------------------------
(* Loans *)

LEMMA LoanFields ==
    ASSUME NEW l \in Loan
    PROVE  /\ l.loaner \in Players /\ l.loanee \in Players
           /\ l.amount \in Nat /\ l.paid \in Nat /\ l.rate \in Nat
           /\ l.created \in Nat
<1>1. l.amount \in Amounts /\ l.rate \in Rates
  BY DEF Loan
<1>2. Amounts \subseteq Nat /\ Rates \subseteq Nat
  BY LoansAssumption
<1>3. l.amount \in Nat
  BY <1>1, <1>2
<1>4. l.rate \in Nat
  BY <1>1, <1>2
<1>5. l.loaner \in Players /\ l.loanee \in Players /\ l.paid \in Nat /\ l.created \in Nat
  BY DEF Loan
<1> QED
  BY <1>3, <1>4, <1>5

\* The principal with its interest is a natural number that grows by the day.
LEMMA TotalGrows ==
    ASSUME NEW l \in Loan, NEW d \in Nat, l.created <= d
    PROVE  Total(l, d) \in Nat /\ Total(l, d) <= Total(l, d + 1)
<1> DEFINE n == d - l.created
           interest(k) == l.rate * k
<1>1. l.amount \in Nat /\ l.rate \in Nat /\ l.created \in Nat
  BY LoanFields
<1>2. n \in Nat /\ (d + 1) - l.created = n + 1
  BY <1>1
<1>3. Total(l, d) = l.amount * (1 + interest(n))
      /\ Total(l, d + 1) = l.amount * (1 + interest(n + 1))
  BY <1>2 DEF Total
<1> HIDE DEF n
<1>4. interest(n) \in Nat /\ interest(n + 1) \in Nat /\ interest(n) <= interest(n + 1)
  BY <1>1, <1>2, Product, ProductGrows
<1> HIDE DEF interest
<1>5. 1 + interest(n) \in Nat /\ 1 + interest(n + 1) \in Nat
      /\ 1 + interest(n) <= 1 + interest(n + 1)
  BY <1>4
<1>6. l.amount * (1 + interest(n)) \in Nat
      /\ l.amount * (1 + interest(n)) <= l.amount * (1 + interest(n + 1))
  BY <1>1, <1>5, Product, ProductGrows
<1> QED
  BY <1>3, <1>6

\* A loan in order: it is no younger than today and not overpaid.
Sound(l, d) == l \in Loan /\ l.created <= d /\ l.paid <= Total(l, d)

LEMMA SoundTomorrow ==
    ASSUME NEW l, NEW d \in Nat, Sound(l, d)
    PROVE  Sound(l, d + 1)
<1>1. l \in Loan /\ l.created \in Nat /\ l.paid \in Nat
  BY LoanFields DEF Sound
<1>2. Total(l, d) \in Nat /\ Total(l, d) <= Total(l, d + 1)
  BY <1>1, TotalGrows DEF Sound
<1>3. d + 1 \in Nat /\ d + 1 - l.created \in Nat
  BY <1>1 DEF Sound
<1>4. Total(l, d + 1) \in Nat
  BY <1>1, <1>3, TotalGrows DEF Sound
<1> QED
  BY <1>1, <1>2, <1>4 DEF Sound

\* A new status leaves a loan in order.
LEMMA SoundStatus ==
    ASSUME NEW l, NEW d \in Nat, Sound(l, d), NEW s \in Status
    PROVE  Sound([l EXCEPT !.status = s], d)
BY DEF Sound, Total, Loan, Status

\* So does a payment of no more than what is owed.
LEMMA SoundPayment ==
    ASSUME NEW l, NEW d \in Nat, Sound(l, d), l.status = "Active",
           NEW n \in Nat
    PROVE  /\ Min({n, TotalOwed(l, d)}) \in Nat
           /\ Min({n, TotalOwed(l, d)}) <= n
           /\ Sound([l EXCEPT !.paid = @ + Min({n, TotalOwed(l, d)})], d)
<1> DEFINE amount == Min({n, TotalOwed(l, d)})
<1>1. l \in Loan /\ l.paid \in Nat /\ Total(l, d) \in Nat
  BY LoanFields, TotalGrows DEF Sound
<1>2. TotalOwed(l, d) = Max({0, Total(l, d) - l.paid})
  BY DEF TotalOwed
<1>3. Total(l, d) - l.paid \in Nat
  BY <1>1 DEF Sound
<1>4. TotalOwed(l, d) = Total(l, d) - l.paid
  <2> DEFINE m == Total(l, d) - l.paid
  <2>1. m \in Nat /\ TotalOwed(l, d) = Max({0, m})
    BY <1>2, <1>3
  <2> HIDE DEF m
  <2>2. Max({0, m}) \in {0, m} /\ Max({0, m}) >= m
    BY <2>1, MaxOfTwo
  <2>3. Max({0, m}) = m
    BY <2>1, <2>2
  <2> QED
    BY <2>1, <2>3 DEF m
<1>5. amount \in Nat /\ amount <= n /\ amount <= Total(l, d) - l.paid
  BY <1>3, <1>4, MinOfTwo
<1> HIDE DEF amount
<1>6. [l EXCEPT !.paid = @ + amount] \in Loan
  BY <1>1, <1>5 DEF Loan
<1>7. /\ [l EXCEPT !.paid = @ + amount].paid = l.paid + amount
      /\ [l EXCEPT !.paid = @ + amount].created = l.created
      /\ Total([l EXCEPT !.paid = @ + amount], d) = Total(l, d)
  BY <1>1 DEF Loan, Total
<1>8. Sound([l EXCEPT !.paid = @ + amount], d)
  BY <1>1, <1>5, <1>6, <1>7 DEF Sound
<1> QED
  BY <1>5, <1>8 DEF amount

-----------------------------------------------------------------------------
(***************************************************************************)
(* The inductive invariant.  Rows and copies of rows are in order whenever *)
(* they were read; what a command will write is computed from copies that  *)
(* passed its checks.                                                      *)
(***************************************************************************)
Calls == {"idle", "uid", "offer", "loaner", "loanee", "debit", "credit", "sign",
          "borrower", "lender", "pay", "receive", "settle"}

Types ==
    /\ money \in [Players -> Int]
    /\ loans \in [Uids -> Loan \cup {NoLoan}]
    /\ day \in Nat
    /\ pc \in [Players -> Calls]
    /\ loan \in [Players -> Loan \cup {NoLoan}]
    /\ debit \in [Players -> Int] /\ credit \in [Players -> Int]
    /\ pay \in [Players -> Nat]

RowsSound == \A u \in Uids : loans[u] # NoLoan => Sound(loans[u], day)

OverdueSound == \A o \in overdue : Sound(o.loan, day)

Copied(p) ==
    /\ pc[p] # "idle" => Sound(loan[p], day)
    /\ pc[p] = "debit" => debit[p] >= loan[p].amount
    /\ pc[p] \in {"debit", "credit", "pay", "receive"} => credit[p] >= 0
    /\ pc[p] \in {"borrower", "lender"} => loan[p].status = "Active"
    /\ pc[p] \in {"lender", "pay"} => debit[p] >= pay[p]

Inv ==
    /\ Types
    /\ NoOverdraft
    /\ RowsSound
    /\ OverdueSound
    /\ \A p \in Players : Copied(p)

LEMMA InvInit == Init => Inv
<1> SUFFICES ASSUME Init PROVE Inv
  OBVIOUS
<1>1. StartMoney \in Nat
  BY LoansAssumption
<1>2. Types
  BY <1>1 DEF Init, Types, Calls
<1> QED
  BY <1>1, <1>2 DEF Init, Inv, NoOverdraft, RowsSound, OverdueSound, Copied

\* A command changes its own copies only.
LocalTo(p) ==
    \A q \in Players \ {p} :
        /\ pc'[q] = pc[q] /\ loan'[q] = loan[q] /\ debit'[q] = debit[q]
        /\ credit'[q] = credit[q] /\ pay'[q] = pay[q]

LEMMA CopiedByOthers ==
    ASSUME Inv, NEW p \in Players, LocalTo(p), Copied(p)', day' = day
    PROVE  \A q \in Players : Copied(q)'
<1> SUFFICES ASSUME NEW q \in Players, q # p
             PROVE  Copied(q)'
  OBVIOUS
<1> QED
  BY DEF Inv, LocalTo, Copied

\* A step that reads rows into the copies of p, or fails.
ReadsFor(p) ==
    /\ UNCHANGED <<money, loans, day, overdue>>
    /\ LocalTo(p)
    /\ pc' \in [Players -> Calls]
    /\ loan' \in [Players -> Loan \cup {NoLoan}]
    /\ debit' \in [Players -> Int] /\ credit' \in [Players -> Int]
    /\ pay' \in [Players -> Nat]

LEMMA InvReads ==
    ASSUME Inv, NEW p \in Players, ReadsFor(p), Copied(p)'
    PROVE  Inv'
<1>1. Types'
  BY DEF Inv, Types, ReadsFor
<1>2. \A q \in Players : Copied(q)'
  BY CopiedByOthers DEF ReadsFor
<1> QED
  BY <1>1, <1>2 DEF Inv, ReadsFor, NoOverdraft, RowsSound, OverdueSound

LEMMA InvOfferLoan ==
    ASSUME Inv, NEW p \in Players, NEW d \in Players, NEW a \in Amounts,
           NEW r \in Rates, NEW t \in Terms, OfferLoan(p, d, a, r, t)
    PROVE  Inv'
<1> DEFINE l == [loaner |-> p, loanee |-> d, amount |-> a, paid |-> 0, rate |-> r,
                 status |-> "Offered", created |-> day, due |-> day + t]
<1>1. day \in Nat /\ t \in Nat /\ a \in Nat /\ r \in Nat
  BY LoansAssumption DEF Inv, Types
<1>2. l \in Loan
  BY <1>1 DEF Loan, Status
<1>3. Total(l, day) \in Nat
  BY <1>1, <1>2, TotalGrows
<1>4. Sound(l, day)
  BY <1>1, <1>2, <1>3 DEF Sound
<1>5. /\ loan' = [loan EXCEPT ![p] = l] /\ pc' = [pc EXCEPT ![p] = "uid"]
      /\ UNCHANGED <<money, loans, day, overdue, debit, credit, pay>>
  BY DEF OfferLoan, Set, GoTo, rows
<1> HIDE DEF l
<1>6. ReadsFor(p)
  BY <1>2, <1>5 DEF Inv, Types, Calls, ReadsFor, LocalTo
<1>7. Copied(p)'
  BY <1>4, <1>5 DEF Inv, Types, Copied
<1> QED
  BY <1>6, <1>7, InvReads

LEMMA InvOfferUid ==
    ASSUME Inv, NEW p \in Players, OfferUid(p)
    PROVE  Inv'
<1>1. ReadsFor(p)
  BY DEF Inv, Types, Calls, OfferUid, ReadsFor, LocalTo, GoTo, rows
<1>2. Copied(p)'
  BY DEF Inv, Types, OfferUid, Copied, GoTo, rows
<1> QED
  BY <1>1, <1>2, InvReads

LEMMA InvAcceptLoan ==
    ASSUME Inv, NEW p \in Players, NEW u \in Uids, AcceptLoan(p, u)
    PROVE  Inv'
<1>1. CASE UNCHANGED <<uid, loan, pc>>
  BY <1>1 DEF AcceptLoan, Inv, Types, NoOverdraft, RowsSound, OverdueSound, Copied, rows
<1>2. CASE MayAccept(p, loans[u]) /\ loan' = Set(loan, p, loans[u]) /\ GoTo(p, "loaner")
  <2>1. ReadsFor(p)
    BY <1>2 DEF Inv, Types, Calls, AcceptLoan, ReadsFor, LocalTo, Set, GoTo, rows
  <2>2. Sound(loans[u], day)
    BY <1>2 DEF Inv, RowsSound, MayAccept
  <2>3. Copied(p)'
    BY <1>2, <2>2 DEF Inv, Types, AcceptLoan, Copied, Set, GoTo, rows
  <2> QED
    BY <2>1, <2>3, InvReads
<1> QED
  BY <1>1, <1>2 DEF AcceptLoan

LEMMA InvAcceptLoaner ==
    ASSUME Inv, NEW p \in Players, AcceptLoaner(p)
    PROVE  Inv'
<1>1. loan[p].loaner \in Players
  BY LoanFields DEF Inv, Copied, AcceptLoaner, Sound
<1>2. ReadsFor(p)
  BY <1>1 DEF Inv, Types, Calls, AcceptLoaner, ReadsFor, LocalTo, Set, GoTo, rows
<1>3. Copied(p)'
  BY DEF Inv, Types, AcceptLoaner, Copied, Set, GoTo, rows
<1> QED
  BY <1>2, <1>3, InvReads

LEMMA InvAcceptLoanee ==
    ASSUME Inv, NEW p \in Players, AcceptLoanee(p)
    PROVE  Inv'
<1>1. loan[p].amount \in Nat /\ debit[p] \in Int /\ Sound(loan[p], day)
  BY LoanFields DEF Inv, Types, Copied, AcceptLoanee, Sound
<1>2. ReadsFor(p)
  BY DEF Inv, Types, Calls, AcceptLoanee, ReadsFor, LocalTo, Set, GoTo, rows
<1>3. /\ pc'[p] \in {"idle", "debit"} /\ (pc'[p] = "debit" => debit[p] >= loan[p].amount)
      /\ credit'[p] = money[p] /\ UNCHANGED <<loan, debit, day>>
  BY <1>1 DEF Inv, Types, AcceptLoanee, Set, GoTo, rows
<1>4. Copied(p)'
  BY <1>1, <1>3 DEF Inv, NoOverdraft, Copied
<1> QED
  BY <1>2, <1>4, InvReads

LEMMA InvRepayLoan ==
    ASSUME Inv, NEW p \in Players, NEW u \in Uids, NEW a \in Payments, RepayLoan(p, u, a)
    PROVE  Inv'
<1>1. a \in Nat
  BY LoansAssumption
<1>2. Sound(loans[u], day) /\ loans[u].status = "Active"
  BY DEF Inv, RowsSound, RepayLoan
<1>3. ReadsFor(p)
  BY <1>1 DEF Inv, Types, Calls, RepayLoan, ReadsFor, LocalTo, Set, GoTo, rows
<1>4. Copied(p)'
  BY <1>2 DEF Inv, Types, RepayLoan, Copied, Set, GoTo, rows
<1> QED
  BY <1>3, <1>4, InvReads

LEMMA InvRepayBorrower ==
    ASSUME Inv, NEW p \in Players, RepayBorrower(p)
    PROVE  Inv'
<1>1. ReadsFor(p)
  BY DEF Inv, Types, Calls, RepayBorrower, ReadsFor, LocalTo, Set, GoTo, rows
<1>2. Copied(p)'
  BY DEF Inv, Types, RepayBorrower, Copied, Set, GoTo, rows
<1> QED
  BY <1>1, <1>2, InvReads

LEMMA InvRepayLender ==
    ASSUME Inv, NEW p \in Players, RepayLender(p)
    PROVE  Inv'
<1> DEFINE n == Payment(p)
           after == [loan[p] EXCEPT !.paid = @ + n]
<1>1. /\ Sound(loan[p], day) /\ loan[p].status = "Active" /\ day \in Nat
      /\ pay[p] \in Nat /\ debit[p] \in Int /\ debit[p] >= pay[p]
  BY DEF Inv, Types, Copied, RepayLender
<1>2. n \in Nat /\ n <= pay[p] /\ Sound(after, day)
  BY <1>1, SoundPayment DEF Payment
<1>3. Sound(Repaid(loan[p], n), day)
  <2>1. Sound([after EXCEPT !.status = "Paid"], day)
    BY <1>1, <1>2, SoundStatus DEF Status
  <2> QED
    BY <1>2, <2>1 DEF Repaid
<1>4. loan[p].loaner \in Players
  BY <1>1, LoanFields DEF Sound
<1>5. /\ loan' = [loan EXCEPT ![p] = Repaid(loan[p], n)]
      /\ pay' = [pay EXCEPT ![p] = n]
      /\ credit' = [credit EXCEPT ![p] = money[loan[p].loaner]]
      /\ pc' = [pc EXCEPT ![p] = "pay"]
      /\ UNCHANGED <<money, loans, day, overdue, debit>>
  BY DEF RepayLender, Set, GoTo, rows
<1> HIDE DEF n
<1>6. ReadsFor(p)
  BY <1>2, <1>3, <1>4, <1>5 DEF Inv, Types, Calls, ReadsFor, LocalTo, Sound
<1>7. debit[p] >= n
  BY <1>1, <1>2
<1>8. Copied(p)'
  BY <1>3, <1>4, <1>5, <1>7 DEF Inv, Types, NoOverdraft, Copied
<1> QED
  BY <1>6, <1>8, InvReads

LEMMA InvReadFails ==
    ASSUME Inv, NEW p \in Players, ReadFails(p)
    PROVE  Inv'
<1>1. ReadsFor(p)
  BY DEF Inv, Types, Calls, ReadFails, ReadsFor, LocalTo, GoTo, rows, copies
<1>2. Copied(p)'
  BY DEF Inv, Types, ReadFails, Copied, GoTo, copies
<1> QED
  BY <1>1, <1>2, InvReads

-----------------------------------------------------------------------------
(* The puts *)

\* A put leaves the copies alone; what it writes is in order, or nothing is
\* written.
PutsFor(p) ==
    /\ UNCHANGED <<day, loan, debit, credit, pay, overdue>>
    /\ \E c \in Calls : pc' = [pc EXCEPT ![p] = c]

Writes(f, g, v) == g = f \/ \E k : g = [f EXCEPT ![k] = v]

LEMMA InvPuts ==
    ASSUME Inv, NEW p \in Players, PutsFor(p), Copied(p)',
           NEW m \in Nat, Writes(money, money', m),
           NEW l, Sound(l, day), Writes(loans, loans', l)
    PROVE  Inv'
<1>1. l \in Loan
  BY DEF Sound
<1>2. Types'
  BY <1>1 DEF Inv, Types, PutsFor, Writes
<1>3. NoOverdraft'
  BY DEF Inv, Types, Writes, NoOverdraft
<1>4. RowsSound' /\ OverdueSound'
  BY DEF Inv, Types, Writes, PutsFor, RowsSound, OverdueSound
<1>5. \A q \in Players : Copied(q)'
  BY CopiedByOthers DEF Inv, Types, PutsFor, LocalTo
<1> QED
  BY <1>2, <1>3, <1>4, <1>5 DEF Inv

LEMMA InvOfferPut ==
    ASSUME Inv, NEW p \in Players, OfferPut(p)
    PROVE  Inv'
<1>1. Sound(loan[p], day) /\ Writes(loans, loans', loan[p]) /\ Writes(money, money', 0)
  BY DEF OfferPut, Put, Set, Writes, Inv, Copied
<1>2. PutsFor(p)
  BY DEF OfferPut, GoTo, PutsFor, copies, Calls
<1>3. Copied(p)'
  BY DEF Inv, Types, OfferPut, Copied, GoTo
<1> QED
  BY <1>1, <1>2, <1>3, InvPuts

LEMMA InvAcceptDebit ==
    ASSUME Inv, NEW p \in Players, AcceptDebit(p)
    PROVE  Inv'
<1> DEFINE m == debit[p] - Dollars(loan[p].amount)
<1>1. /\ Sound(loan[p], day) /\ loan[p].amount \in Nat
      /\ debit[p] \in Int /\ debit[p] >= loan[p].amount
  BY LoanFields DEF Inv, Types, Copied, AcceptDebit, Sound
<1>2. m \in Nat
  BY <1>1, DollarsTruncate
<1>3. Writes(money, money', m) /\ Writes(loans, loans', loan[p])
  BY DEF AcceptDebit, Put, Set, Writes
<1>4. PutsFor(p)
  BY DEF AcceptDebit, GoTo, PutsFor, copies, Calls
<1>5. Copied(p)'
  BY <1>4 DEF Inv, Types, AcceptDebit, Copied, GoTo, PutsFor
<1> QED
  BY <1>1, <1>2, <1>3, <1>4, <1>5, InvPuts

LEMMA InvAcceptCredit ==
    ASSUME Inv, NEW p \in Players, AcceptCredit(p)
    PROVE  Inv'
<1> DEFINE m == credit[p] + Dollars(loan[p].amount)
<1>1. /\ Sound(loan[p], day) /\ loan[p].amount \in Nat
      /\ credit[p] \in Int /\ credit[p] >= 0
  BY LoanFields DEF Inv, Types, Copied, AcceptCredit, Sound
<1>2. m \in Nat
  BY <1>1, DollarsTruncate
<1>3. Writes(money, money', m) /\ Writes(loans, loans', loan[p])
  BY DEF AcceptCredit, Put, Set, Writes
<1>4. PutsFor(p)
  BY DEF AcceptCredit, GoTo, PutsFor, copies, Calls
<1>5. Copied(p)'
  BY <1>4 DEF Inv, Types, AcceptCredit, Copied, GoTo, PutsFor
<1> QED
  BY <1>1, <1>2, <1>3, <1>4, <1>5, InvPuts

LEMMA InvAcceptSign ==
    ASSUME Inv, NEW p \in Players, AcceptSign(p)
    PROVE  Inv'
<1> DEFINE l == [loan[p] EXCEPT !.status = "Active"]
<1>1. Sound(loan[p], day) /\ day \in Nat
  BY DEF Inv, Types, Copied, AcceptSign
<1>2. Sound(l, day)
  BY <1>1, SoundStatus DEF Status
<1>3. Writes(loans, loans', l) /\ Writes(money, money', 0)
  BY DEF AcceptSign, Put, Set, Writes
<1>4. PutsFor(p)
  BY DEF AcceptSign, GoTo, PutsFor, copies, Calls
<1>5. Copied(p)'
  BY <1>4 DEF Inv, Types, AcceptSign, Copied, GoTo, PutsFor
<1> QED
  BY <1>2, <1>3, <1>4, <1>5, InvPuts

LEMMA InvRepayPay ==
    ASSUME Inv, NEW p \in Players, RepayPay(p)
    PROVE  Inv'
<1> DEFINE m == debit[p] - Dollars(pay[p])
<1>1. /\ Sound(loan[p], day) /\ pay[p] \in Nat
      /\ debit[p] \in Int /\ debit[p] >= pay[p]
  BY DEF Inv, Types, Copied, RepayPay
<1>2. m \in Nat
  BY <1>1, DollarsTruncate
<1>3. Writes(money, money', m) /\ Writes(loans, loans', loan[p])
  BY DEF RepayPay, Put, Set, Writes
<1>4. PutsFor(p)
  BY DEF RepayPay, GoTo, PutsFor, copies, Calls
<1>5. Copied(p)'
  BY <1>4 DEF Inv, Types, RepayPay, Copied, GoTo, PutsFor
<1> QED
  BY <1>1, <1>2, <1>3, <1>4, <1>5, InvPuts

LEMMA InvRepayReceive ==
    ASSUME Inv, NEW p \in Players, RepayReceive(p)
    PROVE  Inv'
<1> DEFINE m == credit[p] + Dollars(pay[p])
<1>1. /\ Sound(loan[p], day) /\ pay[p] \in Nat
      /\ credit[p] \in Int /\ credit[p] >= 0
  BY DEF Inv, Types, Copied, RepayReceive
<1>2. m \in Nat
  BY <1>1, DollarsTruncate
<1>3. Writes(money, money', m) /\ Writes(loans, loans', loan[p])
  BY DEF RepayReceive, Put, Set, Writes
<1>4. PutsFor(p)
  BY DEF RepayReceive, GoTo, PutsFor, copies, Calls
<1>5. Copied(p)'
  BY <1>4 DEF Inv, Types, RepayReceive, Copied, GoTo, PutsFor
<1> QED
  BY <1>1, <1>2, <1>3, <1>4, <1>5, InvPuts

LEMMA InvRepaySettle ==
    ASSUME Inv, NEW p \in Players, RepaySettle(p)
    PROVE  Inv'
<1>1. Sound(loan[p], day) /\ Writes(loans, loans', loan[p]) /\ Writes(money, money', 0)
  BY DEF RepaySettle, Put, Set, Writes, Inv, Copied
<1>2. PutsFor(p)
  BY DEF RepaySettle, GoTo, PutsFor, copies, Calls
<1>3. Copied(p)'
  BY DEF Inv, Types, RepaySettle, Copied, GoTo
<1> QED
  BY <1>1, <1>2, <1>3, InvPuts

-----------------------------------------------------------------------------
(* The market loop, the days, and the whole *)

LEMMA InvFindOverdue ==
    ASSUME Inv, FindOverdue
    PROVE  Inv'
<1>1. OverdueSound'
  BY DEF FindOverdue, Inv, RowsSound, OverdueSound
<1> QED
  BY <1>1 DEF FindOverdue, rows, copies, Inv, Types, NoOverdraft, RowsSound, Copied

LEMMA InvMarkDefaulted ==
    ASSUME Inv, MarkDefaulted
    PROVE  Inv'
<1>1. PICK o \in overdue :
        /\ Put(loans, o.uid, [o.loan EXCEPT !.status = "Defaulted"], loans')
        /\ overdue' = overdue \ {o}
  BY DEF MarkDefaulted
<1> DEFINE l == [o.loan EXCEPT !.status = "Defaulted"]
<1>2. Sound(l, day)
  BY SoundStatus DEF Inv, Types, OverdueSound, Status
<1>3. l \in Loan
  BY <1>2 DEF Sound
<1>4. Writes(loans, loans', l)
  BY <1>1 DEF Put, Set, Writes
<1> HIDE DEF l
<1>5. UNCHANGED <<money, day, pc, loan, debit, credit, pay>>
  BY DEF MarkDefaulted, copies
<1>6. loans' \in [Uids -> Loan \cup {NoLoan}]
  BY <1>3, <1>4 DEF Inv, Types, Writes
<1>7. RowsSound'
  BY <1>2, <1>4, <1>5 DEF Inv, Types, Writes, RowsSound
<1>8. OverdueSound'
  BY <1>1, <1>5 DEF Inv, OverdueSound
<1> QED
  BY <1>5, <1>6, <1>7, <1>8 DEF Inv, Types, NoOverdraft, Copied

LEMMA InvNextDay ==
    ASSUME Inv, NextDay
    PROVE  Inv'
<1>1. day \in Nat /\ day' = day + 1
      /\ UNCHANGED <<money, loans, overdue, pc, loan, debit, credit, pay>>
  BY DEF NextDay, rows, copies, Inv, Types
<1>2. \A l : Sound(l, day) => Sound(l, day')
  BY <1>1, SoundTomorrow
<1>3. RowsSound' /\ OverdueSound'
  BY <1>1, <1>2 DEF Inv, RowsSound, OverdueSound
<1>4. \A p \in Players : Copied(p)'
  BY <1>1, <1>2 DEF Inv, Copied
<1> QED
  BY <1>1, <1>3, <1>4 DEF Inv, Types, NoOverdraft

LEMMA InvStep == Inv /\ [Next]_vars => Inv'
<1> SUFFICES ASSUME Inv, [Next]_vars PROVE Inv'
  OBVIOUS
<1>1. CASE UNCHANGED vars
  BY <1>1 DEF vars, rows, copies, Inv, Types, NoOverdraft, RowsSound, OverdueSound, Copied
<1>2. ASSUME NEW p \in Players, Command(p)
      PROVE  Inv'
  BY <1>2, InvOfferLoan, InvOfferUid, InvOfferPut, InvAcceptLoan, InvAcceptLoaner,
     InvAcceptLoanee, InvAcceptDebit, InvAcceptCredit, InvAcceptSign, InvRepayLoan,
     InvRepayBorrower, InvRepayLender, InvRepayPay, InvRepayReceive, InvRepaySettle,
     InvReadFails
  DEF Command
<1> QED
  BY <1>1, <1>2, InvFindOverdue, InvMarkDefaulted, InvNextDay DEF Next

LEMMA Invariant == Spec => []Inv
BY InvInit, InvStep, PTL DEF Spec

\* Loans and repayments overdraw no treasury, however the commands
\* interleave and whichever database calls fail.
THEOREM NoTreasuryIsOverdrawn == Spec => []NoOverdraft
BY Invariant, PTL DEF Inv

\* No more is paid of a loan than its principal and the interest until now,
\* whatever stale copy of the loan a command or the market loop writes.
THEOREM NothingIsOverpaid == Spec => []NeverOverpaid
<1>1. Inv => NeverOverpaid
  BY DEF Inv, RowsSound, Sound, NeverOverpaid
<1> QED
  BY <1>1, Invariant, PTL

\* Treasuries and payments stay within bounds.
THEOREM LoansStayWithinBounds == Spec => []WithinBounds
<1>1. NoOverdraft /\ NeverOverpaid => WithinBounds
  BY DEF WithinBounds
<1> QED
  BY <1>1, NoTreasuryIsOverdrawn, NothingIsOverpaid, PTL

-----------------------------------------------------------------------------
(***************************************************************************)
(* The states of a loan.  As long as nothing overlaps, one command or the  *)
(* market loop is at work, and the row it read is still in the state in    *)
(* which it read it.                                                       *)
(***************************************************************************)
\* The number of a new loan is not in use.
LEMMA NextUidIsNew ==
    NextUid \in Nat /\ \A u \in Uids : loans[u] # NoLoan => u # NextUid
<1> DEFINE used == {0} \cup {u \in Uids : loans[u] # NoLoan}
<1>1. MaxUid \in Nat /\ used \subseteq 0..MaxUid /\ used # {}
  BY LoansAssumption DEF Uids
<1>2. NextUid = 1 + Max(used)
  BY DEF NextUid
<1>3. \A u \in Uids : loans[u] # NoLoan => u \in used
  OBVIOUS
<1>4. \A u \in used : u \in Nat
  BY LoansAssumption DEF Uids
<1> HIDE DEF used
<1>5. Max(used) \in used /\ \A y \in used : y <= Max(used)
  BY <1>1, GreatestExists
<1>6. Max(used) \in Nat
  BY <1>4, <1>5
<1>7. NextUid \in Nat
  BY <1>2, <1>6
<1>8. ASSUME NEW u \in Uids, loans[u] # NoLoan
      PROVE  u # NextUid
  <2>1. u \in Nat /\ u <= Max(used)
    BY <1>3, <1>4, <1>5, <1>8
  <2> QED
    BY <1>2, <1>6, <2>1
<1> QED
  BY <1>7, <1>8

Busy(p) == pc[p] # "idle"

OneAtWork ==
    /\ \A p, q \in Players : Busy(p) /\ Busy(q) => p = q
    /\ overdue # {} => \A p \in Players : ~Busy(p)

IsIn(u, s) == u \in Uids /\ loans[u] # NoLoan /\ loans[u].status = s

\* The row a command works on, by where the command is.
RowUnmoved(p) ==
    /\ pc[p] = "offer" /\ uid[p] \in Uids => loans[uid[p]] = NoLoan
    /\ pc[p] \in {"loaner", "loanee", "debit", "credit", "sign"} => IsIn(uid[p], "Offered")
    /\ pc[p] \in {"borrower", "lender", "pay", "receive", "settle"} => IsIn(uid[p], "Active")
    /\ pc[p] \in {"pay", "receive", "settle"} => loan[p].status \in {"Active", "Paid"}

OverdueUnmoved ==
    /\ \A o \in overdue : IsIn(o.uid, "Active")
    /\ \A o, q \in overdue : o.uid = q.uid => o = q

Order ==
    /\ overlapped \in BOOLEAN
    /\ uid \in [Players -> Nat]
    /\ ~overlapped => /\ OneAtWork
                      /\ \A p \in Players : RowUnmoved(p)
                      /\ OverdueUnmoved

LEMMA OrderInit == Init => Order
<1> SUFFICES ASSUME Init PROVE Order
  OBVIOUS
<1>1. overlapped \in BOOLEAN /\ uid \in [Players -> Nat] /\ overdue = {}
  BY DEF Init
<1>2. \A p \in Players : pc[p] = "idle"
  BY DEF Init
<1> QED
  BY <1>1, <1>2 DEF Order, OneAtWork, Busy, RowUnmoved, OverdueUnmoved

\* A step of the only command at work: the others rest before and after it.
LEMMA OrderByOne ==
    ASSUME Inv, Order, NEW p \in Players, NEW c \in Calls, pc' = [pc EXCEPT ![p] = c],
           overlapped' \in BOOLEAN, uid' \in [Players -> Nat], overdue' = overdue,
           ~overlapped' => /\ ~overlapped
                           /\ overdue = {}
                           /\ \A q \in Players \ {p} : ~Busy(q)
                           /\ RowUnmoved(p)'
    PROVE  Order'
<1> SUFFICES ASSUME ~overlapped'
             PROVE  OneAtWork' /\ (\A q \in Players : RowUnmoved(q)') /\ OverdueUnmoved'
  BY DEF Order
<1>1. overdue' = {} /\ RowUnmoved(p)' /\ \A q \in Players \ {p} : pc'[q] = "idle"
  BY DEF Inv, Types, Busy
<1>2. OneAtWork'
  BY <1>1 DEF OneAtWork, Busy
<1>3. \A q \in Players : RowUnmoved(q)'
  <2> SUFFICES ASSUME NEW q \in Players, q # p PROVE RowUnmoved(q)'
    BY <1>1
  <2>1. pc'[q] = "idle"
    BY <1>1
  <2> QED
    BY <2>1 DEF RowUnmoved
<1>4. OverdueUnmoved'
  BY <1>1 DEF OverdueUnmoved
<1> QED
  BY <1>2, <1>3, <1>4

\* A command that begins without overlap finds everybody at rest.
LEMMA OrderBegins ==
    ASSUME Inv, Order, NEW p \in Players, Begin(p), ~overlapped'
    PROVE  ~overlapped /\ overdue = {} /\ \A q \in Players : ~Busy(q)
BY DEF Begin, Resting, Busy, Order

\* A command that goes on without overlap is the only one.
LEMMA OrderGoesOn ==
    ASSUME Inv, Order, NEW p \in Players, Busy(p), UNCHANGED overlapped, ~overlapped'
    PROVE  ~overlapped /\ overdue = {} /\ RowUnmoved(p) /\ \A q \in Players \ {p} : ~Busy(q)
BY DEF Order, OneAtWork

LEMMA OrderOfferLoan ==
    ASSUME Inv, Order, NEW p \in Players, NEW d \in Players, NEW a \in Amounts,
           NEW r \in Rates, NEW t \in Terms, OfferLoan(p, d, a, r, t)
    PROVE  Order'
<1>1. Begin(p) /\ pc' = [pc EXCEPT ![p] = "uid"] /\ UNCHANGED <<uid, overdue>>
  BY DEF OfferLoan, GoTo
<1>2. overlapped' \in BOOLEAN
  BY <1>1 DEF Begin, Order, Resting
<1>3. RowUnmoved(p)'
  BY <1>1 DEF Inv, Types, RowUnmoved
<1>4. "uid" \in Calls /\ uid' \in [Players -> Nat]
  BY <1>1 DEF Calls, Order
<1> QED
  BY <1>1, <1>2, <1>3, <1>4, OrderBegins, OrderByOne

LEMMA OrderAcceptLoan ==
    ASSUME Inv, Order, NEW p \in Players, NEW u \in Uids, AcceptLoan(p, u)
    PROVE  Order'
<1>1. Begin(p) /\ UNCHANGED <<loans, overdue>>
  BY DEF AcceptLoan, rows
<1>2. overlapped' \in BOOLEAN
  BY <1>1 DEF Begin, Order, Resting
<1>3. CASE UNCHANGED <<uid, loan, pc>>
  <2>1. ~overlapped' => ~overlapped
    BY <1>1, OrderBegins
  <2> QED
    BY <1>1, <1>2, <1>3, <2>1 DEF Order, OneAtWork, Busy, RowUnmoved, OverdueUnmoved, IsIn
<1>4. CASE /\ MayAccept(p, loans[u]) /\ uid' = Set(uid, p, u) /\ GoTo(p, "loaner")
  <2>1. pc' = [pc EXCEPT ![p] = "loaner"] /\ uid' = [uid EXCEPT ![p] = u]
    BY <1>4 DEF GoTo, Set
  <2>2. u \in Nat /\ "loaner" \in Calls
    BY LoansAssumption DEF Uids, Calls
  <2>3. uid' \in [Players -> Nat] /\ uid'[p] = u
    BY <2>1, <2>2 DEF Order
  <2>4. pc'[p] = "loaner"
    BY <2>1 DEF Inv, Types
  <2>5. RowUnmoved(p)'
    BY <1>1, <1>4, <2>3, <2>4 DEF MayAccept, RowUnmoved, IsIn
  <2> QED
    BY <1>1, <1>2, <2>1, <2>2, <2>3, <2>5, OrderBegins, OrderByOne
<1> QED
  BY <1>3, <1>4 DEF AcceptLoan

LEMMA OrderRepayLoan ==
    ASSUME Inv, Order, NEW p \in Players, NEW u \in Uids, NEW a \in Payments,
           RepayLoan(p, u, a)
    PROVE  Order'
<1>1. Begin(p) /\ UNCHANGED <<loans, overdue>>
  BY DEF RepayLoan, rows
<1>2. overlapped' \in BOOLEAN
  BY <1>1 DEF Begin, Order, Resting
<1>3. pc' = [pc EXCEPT ![p] = "borrower"] /\ uid' = [uid EXCEPT ![p] = u]
  BY DEF RepayLoan, GoTo, Set
<1>4. u \in Nat /\ "borrower" \in Calls
  BY LoansAssumption DEF Uids, Calls
<1>5. uid' \in [Players -> Nat] /\ uid'[p] = u
  BY <1>3, <1>4 DEF Order
<1>6. pc'[p] = "borrower"
  BY <1>3 DEF Inv, Types
<1>7. RowUnmoved(p)'
  BY <1>1, <1>5, <1>6 DEF RepayLoan, RowUnmoved, IsIn
<1> QED
  BY <1>1, <1>2, <1>3, <1>4, <1>5, <1>7, OrderBegins, OrderByOne
LEMMA OrderOfferUid ==
    ASSUME Inv, Order, NEW p \in Players, OfferUid(p)
    PROVE  Order'
<1>1. /\ Busy(p) /\ uid' = [uid EXCEPT ![p] = NextUid] /\ pc' = [pc EXCEPT ![p] = "offer"]
      /\ UNCHANGED <<loans, overdue, overlapped>>
  BY DEF OfferUid, Busy, Set, GoTo, rows
<1>2. uid' \in [Players -> Nat] /\ uid'[p] = NextUid /\ pc'[p] = "offer" /\ "offer" \in Calls
  BY <1>1, NextUidIsNew DEF Order, Inv, Types, Calls
<1>3. RowUnmoved(p)'
  BY <1>1, <1>2, NextUidIsNew DEF RowUnmoved
<1> QED
  BY <1>1, <1>2, <1>3, OrderGoesOn, OrderByOne DEF Order

\* A step that only reads, or changes treasuries only, to a call of the same kind.
Onward(p, c) ==
    /\ Busy(p) /\ pc' = [pc EXCEPT ![p] = c]
    /\ UNCHANGED <<uid, loan, loans, overdue, overlapped>>
    /\ \/ c = "idle"
       \/ <<pc[p], c>> \in {<<"loaner", "loanee">>, <<"loanee", "debit">>,
                            <<"debit", "credit">>, <<"credit", "sign">>,
                            <<"borrower", "lender">>, <<"pay", "receive">>,
                            <<"receive", "settle">>}

LEMMA OrderOnward ==
    ASSUME Inv, Order, NEW p \in Players, NEW c \in Calls, Onward(p, c)
    PROVE  Order'
<1>1. pc'[p] = c /\ pc' = [pc EXCEPT ![p] = c]
  BY DEF Inv, Types, Onward
<1>2. RowUnmoved(p) => RowUnmoved(p)'
  BY <1>1 DEF Onward, RowUnmoved, IsIn
<1> QED
  BY <1>1, <1>2, OrderGoesOn, OrderByOne DEF Order, Onward

LEMMA OrderSteps ==
    ASSUME Inv, Order, NEW p \in Players,
           \/ AcceptLoaner(p) \/ AcceptLoanee(p) \/ AcceptDebit(p) \/ AcceptCredit(p)
           \/ RepayBorrower(p) \/ RepayPay(p) \/ RepayReceive(p) \/ ReadFails(p)
    PROVE  Order'
<1>1. CASE AcceptLoaner(p)
  BY <1>1, OrderOnward DEF AcceptLoaner, Onward, Busy, GoTo, Calls, rows
<1>2. CASE AcceptLoanee(p)
  BY <1>2, OrderOnward DEF AcceptLoanee, Onward, Busy, GoTo, Calls, rows
<1>3. CASE AcceptDebit(p)
  BY <1>3, OrderOnward DEF AcceptDebit, Onward, Busy, GoTo, Calls, copies
<1>4. CASE AcceptCredit(p)
  BY <1>4, OrderOnward DEF AcceptCredit, Onward, Busy, GoTo, Calls, copies
<1>5. CASE RepayBorrower(p)
  BY <1>5, OrderOnward DEF RepayBorrower, Onward, Busy, GoTo, Calls, rows
<1>6. CASE RepayPay(p)
  BY <1>6, OrderOnward DEF RepayPay, Onward, Busy, GoTo, Calls, copies
<1>7. CASE RepayReceive(p)
  BY <1>7, OrderOnward DEF RepayReceive, Onward, Busy, GoTo, Calls, copies
<1>8. CASE ReadFails(p)
  BY <1>8, OrderOnward DEF ReadFails, Onward, Busy, GoTo, Calls, rows, copies
<1> QED
  BY <1>1, <1>2, <1>3, <1>4, <1>5, <1>6, <1>7, <1>8

LEMMA OrderRepayLender ==
    ASSUME Inv, Order, NEW p \in Players, RepayLender(p)
    PROVE  Order'
<1>1. /\ Busy(p) /\ pc[p] = "lender" /\ loan' = [loan EXCEPT ![p] = Repaid(loan[p], Payment(p))]
      /\ pc' = [pc EXCEPT ![p] = "pay"] /\ UNCHANGED <<uid, loans, overdue, overlapped>>
  BY DEF RepayLender, Busy, Set, GoTo, rows
<1>2. loan[p] \in Loan /\ loan[p].status = "Active"
  BY <1>1 DEF Inv, Copied, Sound
<1>3. Repaid(loan[p], Payment(p)).status \in {"Active", "Paid"}
  BY <1>2 DEF Repaid, Loan
<1>4. pc'[p] = "pay" /\ loan'[p].status \in {"Active", "Paid"} /\ "pay" \in Calls
  BY <1>1, <1>3 DEF Inv, Types, Calls
<1>5. RowUnmoved(p) => RowUnmoved(p)'
  BY <1>1, <1>4 DEF RowUnmoved, IsIn
<1> QED
  BY <1>1, <1>4, <1>5, OrderGoesOn, OrderByOne DEF Order

\* The last put of a command leaves nothing to say of its copies.
LEMMA OrderLastPut ==
    ASSUME Inv, Order, NEW p \in Players, OfferPut(p) \/ AcceptSign(p) \/ RepaySettle(p)
    PROVE  Order'
<1>1. /\ Busy(p) /\ pc' = [pc EXCEPT ![p] = "idle"]
      /\ UNCHANGED <<uid, loan, overdue, overlapped>>
  BY DEF OfferPut, AcceptSign, RepaySettle, Busy, GoTo, copies
<1>2. RowUnmoved(p)' /\ "idle" \in Calls
  BY <1>1 DEF RowUnmoved, Inv, Types, Calls
<1> QED
  BY <1>1, <1>2, OrderGoesOn, OrderByOne DEF Order

LEMMA OrderFindOverdue ==
    ASSUME Inv, Order, FindOverdue
    PROVE  Order'
<1>1. overlapped' = (overlapped \/ ~Resting) /\ UNCHANGED <<uid, pc, loan, loans>>
  BY DEF FindOverdue, rows, copies
<1>2. overlapped' \in BOOLEAN
  BY <1>1 DEF Order, Resting
<1>3. ASSUME ~overlapped'
      PROVE  \A q \in Players : pc'[q] = "idle"
  BY <1>1, <1>3 DEF Resting, Order
<1>4. OverdueUnmoved'
  BY DEF FindOverdue, OverdueUnmoved, IsIn, rows
<1>5. ASSUME ~overlapped'
      PROVE  OneAtWork' /\ \A q \in Players : RowUnmoved(q)'
  BY <1>3, <1>5 DEF OneAtWork, Busy, RowUnmoved
<1> QED
  BY <1>1, <1>2, <1>4, <1>5 DEF Order

LEMMA OrderMarkDefaulted ==
    ASSUME Inv, Order, MarkDefaulted
    PROVE  Order'
<1>1. PICK o \in overdue :
        /\ Put(loans, o.uid, [o.loan EXCEPT !.status = "Defaulted"], loans')
        /\ overdue' = overdue \ {o}
  BY DEF MarkDefaulted
<1>2. UNCHANGED <<overlapped, uid, pc, loan>>
  BY DEF MarkDefaulted, copies
<1> SUFFICES ASSUME ~overlapped'
             PROVE  OneAtWork' /\ (\A q \in Players : RowUnmoved(q)') /\ OverdueUnmoved'
  BY <1>2 DEF Order
<1>3. \A q \in Players : pc'[q] = "idle"
  BY <1>2 DEF Order, OneAtWork, Busy
<1>4. OneAtWork' /\ \A q \in Players : RowUnmoved(q)'
  BY <1>3 DEF OneAtWork, Busy, RowUnmoved
<1>5. \A u \in Uids : u # o.uid => loans'[u] = loans[u]
  BY <1>1 DEF Put, Set, Inv, Types
<1>6. OverdueUnmoved'
  BY <1>1, <1>2, <1>5 DEF Order, OverdueUnmoved, IsIn
<1> QED
  BY <1>4, <1>6

LEMMA OrderStep == Inv /\ Order /\ [Next]_vars => Order'
<1> SUFFICES ASSUME Inv, Order, [Next]_vars PROVE Order'
  OBVIOUS
<1>1. CASE UNCHANGED vars \/ NextDay
  <2>1. UNCHANGED <<overlapped, uid, pc, loan, loans, overdue>>
    BY <1>1 DEF vars, rows, copies, NextDay
  <2> QED
    BY <2>1 DEF Order, OneAtWork, Busy, RowUnmoved, OverdueUnmoved, IsIn
<1>2. ASSUME NEW p \in Players, Command(p)
      PROVE  Order'
  BY <1>2, OrderOfferLoan, OrderOfferUid, OrderAcceptLoan, OrderRepayLoan, OrderSteps,
     OrderRepayLender, OrderLastPut
  DEF Command
<1> QED
  BY <1>1, <1>2, OrderFindOverdue, OrderMarkDefaulted DEF Next

\* What Lifecycle asks of the step of one loan while nothing overlaps.
LifecycleOf(u) ==
    ~overlapped /\ loans[u] # NoLoan =>
        /\ loans'[u] # NoLoan
        /\ loans'[u].status = loans[u].status
           \/ <<loans[u].status, loans'[u].status>> \in
                {<<"Offered", "Active">>, <<"Active", "Paid">>, <<"Active", "Defaulted">>}

LEMMA LoanIsARow == \A l \in Loan : l # NoLoan
BY NoLoanAssumption

LEMMA LifecycleStep ==
    ASSUME Inv, Order, Next, ~overlapped, NEW u \in Uids
    PROVE  LifecycleOf(u)
<1>1. CASE UNCHANGED loans
  BY <1>1 DEF LifecycleOf
<1>2. ASSUME NEW p \in Players, OfferPut(p)
      PROVE  LifecycleOf(u)
  <2>1. RowUnmoved(p) /\ loan[p] \in Loan
    BY <1>2 DEF Order, OfferPut, Inv, Copied, Sound
  <2> QED
    BY <1>2, <2>1 DEF LifecycleOf, OfferPut, Put, Set, RowUnmoved, Inv, Types
<1>3. ASSUME NEW p \in Players, AcceptSign(p)
      PROVE  LifecycleOf(u)
  <2>1. IsIn(uid[p], "Offered") /\ loan[p] \in Loan
    BY <1>3 DEF Order, AcceptSign, Inv, Copied, Sound, RowUnmoved
  <2>2. /\ [loan[p] EXCEPT !.status = "Active"] \in Loan
        /\ [loan[p] EXCEPT !.status = "Active"].status = "Active"
    BY <2>1 DEF Loan, Status
  <2> QED
    BY <1>3, <2>1, <2>2, LoanIsARow DEF LifecycleOf, AcceptSign, Put, Set, IsIn, Inv, Types
<1>4. ASSUME NEW p \in Players, RepaySettle(p)
      PROVE  LifecycleOf(u)
  <2>1. IsIn(uid[p], "Active") /\ loan[p] \in Loan /\ loan[p].status \in {"Active", "Paid"}
    BY <1>4 DEF Order, RepaySettle, Inv, Copied, Sound, RowUnmoved
  <2> QED
    BY <1>4, <2>1, LoanIsARow DEF LifecycleOf, RepaySettle, Put, Set, IsIn, Inv, Types
<1>5. ASSUME MarkDefaulted
      PROVE  LifecycleOf(u)
  <2>1. PICK o \in overdue : Put(loans, o.uid, [o.loan EXCEPT !.status = "Defaulted"], loans')
    BY <1>5 DEF MarkDefaulted
  <2>2. IsIn(o.uid, "Active") /\ o.loan \in Loan
    BY DEF Order, OverdueUnmoved, Inv, OverdueSound, Sound
  <2>3. /\ [o.loan EXCEPT !.status = "Defaulted"] \in Loan
        /\ [o.loan EXCEPT !.status = "Defaulted"].status = "Defaulted"
    BY <2>2 DEF Loan, Status
  <2> QED
    BY <2>1, <2>2, <2>3, LoanIsARow DEF LifecycleOf, Put, Set, IsIn, Inv, Types
<1>6. ASSUME NEW p \in Players, Command(p), ~OfferPut(p), ~AcceptSign(p), ~RepaySettle(p)
      PROVE  UNCHANGED loans
  BY <1>6 DEF Command, OfferLoan, OfferUid, AcceptLoan, AcceptLoaner, AcceptLoanee,
     AcceptDebit, AcceptCredit, RepayLoan, RepayBorrower, RepayLender, RepayPay,
     RepayReceive, ReadFails, rows
<1>7. FindOverdue \/ NextDay => UNCHANGED loans
  BY DEF FindOverdue, NextDay, rows
<1> QED
  BY <1>1, <1>2, <1>3, <1>4, <1>5, <1>6, <1>7 DEF Next

-----------------------------------------------------------------------------
(***************************************************************************)
(* Money.  Nobody lends to himself (Parties), so that the two treasuries   *)
(* of a loan are two rows; as long as nothing overlaps, the copies of them *)
(* are current (Current), and the sum over all treasuries is short only of *)
(* what the command at work has taken from one and not yet given to the    *)
(* other (MoneyTally).                                                     *)
(***************************************************************************)
AcceptCalls == {"loaner", "loanee", "debit", "credit", "sign"}
RepayCalls == {"borrower", "lender", "pay", "receive", "settle"}

Apart(l) == l.loaner # l.loanee

PartiesOf(p) ==
    /\ Busy(p) => Apart(loan[p])
    /\ pc[p] \in AcceptCalls \cup RepayCalls => loan[p].loanee = p

Parties ==
    /\ \A u \in Uids : loans[u] # NoLoan => Apart(loans[u])
    /\ \A o \in overdue : Apart(o.loan)
    /\ \A p \in Players : PartiesOf(p)

CopiesCurrent(p) ==
    /\ pc[p] \in {"loanee", "debit"} => debit[p] = money[loan[p].loaner]
    /\ pc[p] \in {"debit", "credit"} => credit[p] = money[p]
    /\ pc[p] \in {"lender", "pay"} => debit[p] = money[p]
    /\ pc[p] \in {"pay", "receive"} => credit[p] = money[loan[p].loaner]

Current == ~overlapped => \A p \in Players : CopiesCurrent(p)

Quiet == \A p \in Players : ~Busy(p)

MoneyDue(p) ==
    IF pc[p] = "credit" THEN Dollars(loan[p].amount)
    ELSE IF pc[p] = "receive" THEN Dollars(pay[p]) ELSE 0

AllMoney == StartMoney * Cardinality(Players)
MoneyWith(p) == SumFunction(money) + MoneyDue(p)

MoneyTally ==
    ~overlapped /\ faults = 0 =>
        /\ Quiet => SumFunction(money) = AllMoney
        /\ \A p \in Players : Busy(p) => MoneyWith(p) = AllMoney

Counters == offers \in Nat /\ repays \in Nat /\ faults \in Nat

LEMMA CountersInit == Init => Counters
BY DEF Init, Counters

LEMMA CountersStep == Counters /\ [Next]_vars => Counters'
<1> SUFFICES ASSUME Counters, [Next]_vars PROVE Counters'
  OBVIOUS
<1>1. /\ offers' \in {offers, offers + 1} /\ repays' \in {repays, repays + 1}
      /\ faults' \in {faults, faults + 1}
  <2>1. ASSUME NEW p \in Players, Command(p)
        PROVE  <1>1
    BY <2>1 DEF Command, OfferLoan, OfferUid, OfferPut, AcceptLoan, AcceptLoaner, AcceptLoanee,
       AcceptDebit, AcceptCredit, AcceptSign, RepayLoan, RepayBorrower, RepayLender, RepayPay,
       RepayReceive, RepaySettle, ReadFails, Put, bounds
  <2>2. CASE FindOverdue \/ MarkDefaulted \/ NextDay \/ UNCHANGED vars
    BY <2>2 DEF FindOverdue, MarkDefaulted, NextDay, vars, Put, bounds
  <2> QED
    BY <2>1, <2>2 DEF Next
<1> QED
  BY <1>1 DEF Counters

\* What a command of p does to the other commands: nothing.
LEMMA OthersStay ==
    ASSUME Inv, NEW p \in Players, Command(p)
    PROVE  /\ pc' \in [Players -> Calls]
           /\ UNCHANGED overdue
           /\ \A q \in Players \ {p} :
                /\ pc'[q] = pc[q] /\ loan'[q] = loan[q] /\ pay'[q] = pay[q]
                /\ debit'[q] = debit[q] /\ credit'[q] = credit[q]
<1>1. pc' \in [Players -> Calls]
  BY InvStep DEF Next, Inv, Types
<1>2. UNCHANGED overdue
  BY DEF Command, OfferLoan, OfferUid, OfferPut, AcceptLoan, AcceptLoaner, AcceptLoanee,
     AcceptDebit, AcceptCredit, AcceptSign, RepayLoan, RepayBorrower, RepayLender, RepayPay,
     RepayReceive, RepaySettle, ReadFails
<1>3. /\ UNCHANGED pc \/ \E c : GoTo(p, c)
      /\ UNCHANGED loan \/ \E l : loan' = Set(loan, p, l)
      /\ UNCHANGED pay \/ \E n : pay' = Set(pay, p, n)
      /\ UNCHANGED debit \/ \E n : debit' = Set(debit, p, n)
      /\ UNCHANGED credit \/ \E n : credit' = Set(credit, p, n)
  <2>1. CASE \E d \in Players, a \in Amounts, r \in Rates, t \in Terms : OfferLoan(p, d, a, r, t)
    BY <2>1 DEF OfferLoan
  <2>2. CASE \E u \in Uids : AcceptLoan(p, u)
    BY <2>2 DEF AcceptLoan
  <2>3. CASE \E u \in Uids, a \in Payments : RepayLoan(p, u, a)
    BY <2>3 DEF RepayLoan
  <2>4. CASE AcceptLoaner(p) \/ AcceptLoanee(p) \/ RepayBorrower(p) \/ RepayLender(p)
    BY <2>4 DEF AcceptLoaner, AcceptLoanee, RepayBorrower, RepayLender
  <2>5. CASE OfferUid(p) \/ OfferPut(p) \/ AcceptDebit(p) \/ AcceptCredit(p) \/ AcceptSign(p)
             \/ RepayPay(p) \/ RepayReceive(p) \/ RepaySettle(p) \/ ReadFails(p)
    BY <2>5 DEF OfferUid, OfferPut, AcceptDebit, AcceptCredit, AcceptSign, RepayPay,
       RepayReceive, RepaySettle, ReadFails, copies
  <2> QED
    BY <2>1, <2>2, <2>3, <2>4, <2>5 DEF Command
<1>4. \A q \in Players \ {p} :
        /\ pc'[q] = pc[q] /\ loan'[q] = loan[q] /\ pay'[q] = pay[q]
        /\ debit'[q] = debit[q] /\ credit'[q] = credit[q]
  BY <1>3 DEF GoTo, Set, Inv, Types
<1> QED
  BY <1>1, <1>2, <1>4

\* A command of p works alone while nothing overlaps.
LEMMA WorksAlone ==
    ASSUME Inv, Order, NEW p \in Players, Command(p), ~overlapped'
    PROVE  ~overlapped /\ \A q \in Players \ {p} : pc[q] = "idle" /\ pc'[q] = "idle"
<1>1. Begin(p) \/ (Busy(p) /\ UNCHANGED overlapped)
  BY DEF Command, OfferLoan, OfferUid, OfferPut, AcceptLoan, AcceptLoaner, AcceptLoanee,
     AcceptDebit, AcceptCredit, AcceptSign, RepayLoan, RepayBorrower, RepayLender, RepayPay,
     RepayReceive, RepaySettle, ReadFails, Busy
<1>2. ~overlapped /\ \A q \in Players \ {p} : ~Busy(q)
  BY <1>1, OrderBegins, OrderGoesOn
<1> QED
  BY <1>2, OthersStay DEF Busy

-----------------------------------------------------------------------------
(* Who lends and who borrows. *)

LEMMA PartiesInit == Init => Parties
BY DEF Init, Parties, PartiesOf, Busy, AcceptCalls, RepayCalls

LEMMA RepaidParties ==
    ASSUME NEW l \in Loan, NEW n \in Nat
    PROVE  Repaid(l, n).loaner = l.loaner /\ Repaid(l, n).loanee = l.loanee
BY DEF Repaid, Loan

LEMMA PartiesOfCommand ==
    ASSUME Inv, Parties, NEW p \in Players, Command(p)
    PROVE  PartiesOf(p)'
<1>1. ASSUME NEW d \in Players, NEW a \in Amounts, NEW r \in Rates, NEW t \in Terms,
             OfferLoan(p, d, a, r, t)
      PROVE  PartiesOf(p)'
  <2>1. pc'[p] = "uid" /\ loan'[p].loaner = p /\ loan'[p].loanee = d /\ d # p
    BY <1>1 DEF OfferLoan, GoTo, Set, Inv, Types
  <2> QED
    BY <2>1 DEF PartiesOf, Apart, AcceptCalls, RepayCalls
<1>2. ASSUME NEW u \in Uids, AcceptLoan(p, u)
      PROVE  PartiesOf(p)'
  <2>1. CASE UNCHANGED <<loan, pc>>
    BY <2>1 DEF Parties, PartiesOf, Busy
  <2>2. CASE MayAccept(p, loans[u]) /\ loan' = Set(loan, p, loans[u])
    <3>1. loan'[p] = loans[u] /\ loans[u].loanee = p /\ Apart(loans[u])
      BY <2>2 DEF MayAccept, Set, Parties, Inv, Types
    <3> QED
      BY <3>1 DEF PartiesOf
  <2> QED
    BY <1>2, <2>1, <2>2 DEF AcceptLoan
<1>3. ASSUME NEW u \in Uids, NEW a \in Payments, RepayLoan(p, u, a)
      PROVE  PartiesOf(p)'
  <2>1. loan'[p] = loans[u] /\ loans[u].loanee = p /\ Apart(loans[u])
    BY <1>3 DEF RepayLoan, Set, Parties, Inv, Types
  <2> QED
    BY <2>1 DEF PartiesOf
<1>4. CASE RepayLender(p)
  <2>1. /\ pc[p] = "lender" /\ loan'[p] = Repaid(loan[p], Payment(p))
        /\ loan[p] \in Loan /\ pay[p] \in Nat
    BY <1>4 DEF RepayLender, Set, Inv, Types, Copied, Sound
  <2>2. Payment(p) \in Nat
    BY <1>4, SoundPayment DEF RepayLender, Payment, Inv, Types, Copied
  <2>3. loan'[p].loaner = loan[p].loaner /\ loan'[p].loanee = loan[p].loanee
    BY <2>1, <2>2, RepaidParties
  <2> QED
    BY <2>1, <2>3 DEF Parties, PartiesOf, Busy, Apart, RepayCalls
<1>5. CASE OfferUid(p) \/ OfferPut(p) \/ AcceptLoaner(p) \/ AcceptLoanee(p) \/ AcceptDebit(p)
           \/ AcceptCredit(p) \/ AcceptSign(p) \/ RepayBorrower(p) \/ RepayPay(p)
           \/ RepayReceive(p) \/ RepaySettle(p) \/ ReadFails(p)
  <2>1. loan' = loan /\ pc[p] # "idle"
    BY <1>5 DEF OfferUid, OfferPut, AcceptLoaner, AcceptLoanee, AcceptDebit, AcceptCredit,
       AcceptSign, RepayBorrower, RepayPay, RepayReceive, RepaySettle, ReadFails, copies
  <2>2. pc'[p] \in AcceptCalls \cup RepayCalls => pc[p] \in AcceptCalls \cup RepayCalls
    BY <1>5 DEF OfferUid, OfferPut, AcceptLoaner, AcceptLoanee, AcceptDebit, AcceptCredit,
       AcceptSign, RepayBorrower, RepayPay, RepayReceive, RepaySettle, ReadFails, GoTo,
       AcceptCalls, RepayCalls, Inv, Types
  <2> QED
    BY <2>1, <2>2 DEF Parties, PartiesOf, Busy
<1> QED
  BY <1>1, <1>2, <1>3, <1>4, <1>5 DEF Command

LEMMA PartiesStep == Inv /\ Parties /\ [Next]_vars => Parties'
<1> SUFFICES ASSUME Inv, Parties, [Next]_vars PROVE Parties'
  OBVIOUS
<1>1. CASE UNCHANGED vars \/ NextDay
  <2>1. UNCHANGED <<loans, overdue, loan, pc>>
    BY <1>1 DEF vars, rows, copies, NextDay
  <2> QED
    BY <2>1 DEF Parties, PartiesOf, Busy
<1>2. ASSUME NEW p \in Players, Command(p)
      PROVE  Parties'
  <2>1. \A q \in Players : PartiesOf(q)'
    BY <1>2, OthersStay, PartiesOfCommand DEF Parties, PartiesOf, Busy
  <2>2. overdue' = overdue
    BY <1>2, OthersStay
  <2>3. \A u \in Uids : loans'[u] # NoLoan => Apart(loans'[u])
    <3>1. CASE ~OfferPut(p) /\ ~AcceptSign(p) /\ ~RepaySettle(p)
      <4>1. UNCHANGED loans
        BY <1>2, <3>1 DEF Command, OfferLoan, OfferUid, AcceptLoan, AcceptLoaner, AcceptLoanee,
           AcceptDebit, AcceptCredit, RepayLoan, RepayBorrower, RepayLender, RepayPay,
           RepayReceive, ReadFails, rows
      <4> QED
        BY <4>1 DEF Parties
    <3>2. CASE OfferPut(p) \/ AcceptSign(p) \/ RepaySettle(p)
      <4>1. loan[p] \in Loan /\ Apart(loan[p])
        BY <3>2 DEF OfferPut, AcceptSign, RepaySettle, Inv, Copied, Sound, Parties, PartiesOf, Busy
      <4>2. Apart([loan[p] EXCEPT !.status = "Active"])
        BY <4>1 DEF Apart, Loan
      <4>3. \E l : Apart(l) /\ Put(loans, uid[p], l, loans')
        BY <3>2, <4>1, <4>2 DEF OfferPut, AcceptSign, RepaySettle
      <4> QED
        BY <4>3 DEF Put, Set, Parties, Inv, Types
    <3> QED
      BY <3>1, <3>2
  <2> QED
    BY <2>1, <2>2, <2>3 DEF Parties
<1>3. CASE FindOverdue
  <2>1. UNCHANGED <<loans, pc, loan>>
    BY <1>3 DEF FindOverdue, rows, copies
  <2>2. \A o \in overdue' : Apart(o.loan)
    BY <1>3 DEF FindOverdue, Parties
  <2> QED
    BY <2>1, <2>2 DEF Parties, PartiesOf, Busy
<1>4. CASE MarkDefaulted
  <2>1. PICK o \in overdue :
          /\ Put(loans, o.uid, [o.loan EXCEPT !.status = "Defaulted"], loans')
          /\ overdue' = overdue \ {o}
    BY <1>4 DEF MarkDefaulted
  <2>2. UNCHANGED <<pc, loan>>
    BY <1>4 DEF MarkDefaulted, copies
  <2>3. Apart([o.loan EXCEPT !.status = "Defaulted"])
    BY DEF Parties, Apart, Inv, OverdueSound, Sound, Loan
  <2>4. \A u \in Uids : loans'[u] # NoLoan => Apart(loans'[u])
    BY <2>1, <2>3 DEF Put, Set, Parties, Inv, Types
  <2> QED
    BY <2>1, <2>2, <2>4 DEF Parties, PartiesOf, Busy
<1> QED
  BY <1>1, <1>2, <1>3, <1>4 DEF Next

-----------------------------------------------------------------------------
(* The copies of the treasuries. *)

LEMMA CurrentInit == Init => Current
BY DEF Init, Current, CopiesCurrent

\* Before a step after which nothing overlaps, the copies are current.
LEMMA CurrentBefore ==
    ASSUME Inv, Order, Current, NEW p \in Players, Command(p), ~overlapped'
    PROVE  CopiesCurrent(p)
BY WorksAlone DEF Current

\* The two treasuries of the loan a command works on.
LEMMA TwoRows ==
    ASSUME Inv, Parties, NEW p \in Players, pc[p] \in AcceptCalls \cup RepayCalls
    PROVE  loan[p] \in Loan /\ loan[p].loaner \in Players /\ loan[p].loaner # p
<1>1. loan[p] \in Loan /\ Apart(loan[p]) /\ loan[p].loanee = p
  BY DEF Inv, Copied, Sound, Parties, PartiesOf, Busy, AcceptCalls, RepayCalls
<1> QED
  BY <1>1 DEF Apart, Loan

\* The steps that read a treasury.
LEMMA CurrentByReads ==
    ASSUME Inv, Parties, NEW p \in Players, CopiesCurrent(p),
           AcceptLoaner(p) \/ AcceptLoanee(p) \/ RepayBorrower(p) \/ RepayLender(p)
    PROVE  CopiesCurrent(p)'
<1>1. money' = money /\ pc \in [Players -> Calls] /\ debit \in [Players -> Int]
      /\ credit \in [Players -> Int]
  BY DEF AcceptLoaner, AcceptLoanee, RepayBorrower, RepayLender, rows, Inv, Types
<1>2. CASE AcceptLoaner(p)
  <2>1. pc'[p] = "loanee" /\ loan' = loan /\ debit'[p] = money[loan[p].loaner]
    BY <1>1, <1>2 DEF AcceptLoaner, GoTo, Set
  <2> QED
    BY <1>1, <2>1 DEF CopiesCurrent
<1>3. CASE AcceptLoanee(p)
  <2>1. pc[p] = "loanee" /\ pc'[p] \in {"idle", "debit"} /\ loan' = loan /\ debit' = debit
        /\ credit'[p] = money[p]
    BY <1>1, <1>3 DEF AcceptLoanee, GoTo, Set
  <2> QED
    BY <1>1, <2>1 DEF CopiesCurrent
<1>4. CASE RepayBorrower(p)
  <2>1. pc'[p] \in {"idle", "lender"} /\ debit'[p] = money[p]
    BY <1>1, <1>4 DEF RepayBorrower, GoTo, Set
  <2> QED
    BY <1>1, <2>1 DEF CopiesCurrent
<1>5. CASE RepayLender(p)
  <2>1. pc[p] = "lender" /\ pc'[p] = "pay" /\ debit' = debit
        /\ credit'[p] = money[loan[p].loaner]
    BY <1>1, <1>5 DEF RepayLender, GoTo, Set
  <2>2. loan'[p] = Repaid(loan[p], Payment(p)) /\ loan[p] \in Loan
    BY <1>5, <2>1, TwoRows DEF RepayLender, Set, RepayCalls, Inv, Types
  <2>3. Payment(p) \in Nat
    BY <1>5, SoundPayment DEF RepayLender, Payment, Inv, Types, Copied
  <2>4. loan'[p].loaner = loan[p].loaner
    BY <2>2, <2>3, RepaidParties
  <2> QED
    BY <1>1, <2>1, <2>4 DEF CopiesCurrent
<1> QED
  BY <1>2, <1>3, <1>4, <1>5

\* The step that takes money from one treasury leaves the other one.
LEMMA CurrentByDebits ==
    ASSUME Inv, Parties, NEW p \in Players, CopiesCurrent(p), AcceptDebit(p) \/ RepayPay(p)
    PROVE  CopiesCurrent(p)'
<1>1. UNCHANGED <<loan, debit, credit>> /\ pc \in [Players -> Calls] /\ money \in [Players -> Int]
  BY DEF AcceptDebit, RepayPay, copies, Inv, Types
<1>2. CASE AcceptDebit(p)
  <2>1. pc[p] = "debit" /\ pc'[p] = "credit" /\ loan[p].loaner # p
    BY <1>1, <1>2, TwoRows DEF AcceptDebit, GoTo, AcceptCalls
  <2>2. money'[p] = money[p]
    BY <1>1, <1>2, <2>1 DEF AcceptDebit, Put, Set
  <2> QED
    BY <1>1, <2>1, <2>2 DEF CopiesCurrent
<1>3. CASE RepayPay(p)
  <2>1. pc[p] = "pay" /\ pc'[p] = "receive" /\ loan[p].loaner # p /\ loan[p].loaner \in Players
    BY <1>1, <1>3, TwoRows DEF RepayPay, GoTo, RepayCalls
  <2>2. money'[loan[p].loaner] = money[loan[p].loaner]
    BY <1>1, <1>3, <2>1 DEF RepayPay, Put, Set
  <2> QED
    BY <1>1, <2>1, <2>2 DEF CopiesCurrent
<1> QED
  BY <1>2, <1>3

\* The other steps go where no copy is needed any more, or not yet.
LEMMA CurrentByOthers ==
    ASSUME Inv, NEW p \in Players, CopiesCurrent(p), Command(p),
           ~AcceptLoaner(p), ~AcceptLoanee(p), ~RepayBorrower(p), ~RepayLender(p),
           ~AcceptDebit(p), ~RepayPay(p)
    PROVE  CopiesCurrent(p)'
<1>1. pc'[p] \in {"idle", "uid", "offer", "loaner", "sign", "borrower", "settle"}
      \/ UNCHANGED <<pc, money, loan, debit, credit>>
  BY DEF Command, OfferLoan, OfferUid, OfferPut, AcceptLoan, AcceptCredit, AcceptSign,
     RepayLoan, RepayReceive, RepaySettle, ReadFails, GoTo, rows, Inv, Types
<1> QED
  BY <1>1 DEF CopiesCurrent

LEMMA CurrentStep == Inv /\ Order /\ Parties /\ Current /\ [Next]_vars => Current'
<1> SUFFICES ASSUME Inv, Order, Parties, Current, [Next]_vars PROVE Current'
  OBVIOUS
<1>1. CASE UNCHANGED vars \/ FindOverdue \/ MarkDefaulted \/ NextDay
  <2>1. UNCHANGED <<money, pc, loan, debit, credit>> /\ (~overlapped' => ~overlapped)
    BY <1>1 DEF vars, rows, copies, FindOverdue, MarkDefaulted, NextDay, Order
  <2> QED
    BY <2>1 DEF Current, CopiesCurrent
<1>2. ASSUME NEW p \in Players, Command(p), ~overlapped'
      PROVE  \A q \in Players : CopiesCurrent(q)'
  <2>1. CopiesCurrent(p)'
    BY <1>2, CurrentBefore, CurrentByReads, CurrentByDebits, CurrentByOthers
  <2>2. \A q \in Players \ {p} : CopiesCurrent(q)'
    BY <1>2, WorksAlone DEF CopiesCurrent
  <2> QED
    BY <2>1, <2>2
<1> QED
  BY <1>1, <1>2 DEF Next, Current

-----------------------------------------------------------------------------
(* The tally of the money. *)

LEMMA PlayersFinite == IsFiniteSet(Players) /\ Cardinality(Players) \in Nat
BY LoansAssumption, FS_CardinalityType

LEMMA AllIsInt == StartMoney \in Int /\ AllMoney \in Int
<1>1. StartMoney \in Nat
  BY LoansAssumption
<1> QED
  BY <1>1, PlayersFinite, Product DEF AllMoney

LEMMA SumIsAnInt ==
    ASSUME Inv
    PROVE  SumFunction(money) \in Int
BY PlayersFinite, SumOfAll DEF Inv, Types

\* A treasury is put.
LEMMA RowPut ==
    ASSUME NEW f \in [Players -> Int], NEW p \in Players, NEW v \in Int,
           NEW g, g = [f EXCEPT ![p] = v]
    PROVE  SumFunction(g) = SumFunction(f) + (v - f[p])
BY PlayersFinite, SumOfAllUpdate

LEMMA WholeDollars == \A n \in Nat : Dollars(n) \in Int
BY DollarsTruncate

\* Who works alone leaves the others nothing to move.
LEMMA MoneyByOne ==
    ASSUME Inv, Order, MoneyTally, NEW p \in Players, Command(p),
           ~overlapped' /\ faults' = 0 => faults = 0 /\ MoneyWith(p)' = MoneyWith(p)
    PROVE  MoneyTally'
<1> SUFFICES ASSUME ~overlapped', faults' = 0
             PROVE  /\ Quiet' => SumFunction(money)' = AllMoney
                    /\ \A q \in Players : Busy(q)' => MoneyWith(q)' = AllMoney
  BY DEF MoneyTally, AllMoney
<1>1. ~overlapped /\ \A q \in Players \ {p} : pc[q] = "idle" /\ pc'[q] = "idle"
  BY WorksAlone
<1>2. Quiet \/ Busy(p)
  BY <1>1 DEF Quiet, Busy
<1>3. Quiet => MoneyWith(p) = SumFunction(money)
  BY SumIsAnInt DEF Quiet, Busy, MoneyDue, MoneyWith
<1>4. MoneyWith(p)' = AllMoney
  BY <1>1, <1>2, <1>3 DEF MoneyTally
<1>5. Quiet' => MoneyWith(p)' = SumFunction(money)'
  <2>1. Inv'
    BY InvStep DEF Next
  <2>2. SumFunction(money)' \in Int
    BY <2>1, PlayersFinite, SumOfAll DEF Inv, Types
  <2> QED
    BY <2>2 DEF Quiet, Busy, MoneyDue, MoneyWith
<1> QED
  BY <1>1, <1>4, <1>5 DEF Busy

\* The lender's treasury is debited, or the borrower's.
LEMMA MoneyByDebits ==
    ASSUME Inv, Counters, Order, Current, Parties, NEW p \in Players, Command(p),
           AcceptDebit(p) \/ RepayPay(p), ~overlapped', faults' = 0
    PROVE  faults = 0 /\ MoneyWith(p)' = MoneyWith(p)
<1> DEFINE s == IF AcceptDebit(p) THEN loan[p].loaner ELSE p
           c == IF AcceptDebit(p) THEN Dollars(loan[p].amount) ELSE Dollars(pay[p])
<1>1. /\ pc[p] = IF AcceptDebit(p) THEN "debit" ELSE "pay"
      /\ pc'[p] = IF AcceptDebit(p) THEN "credit" ELSE "receive"
      /\ UNCHANGED <<loan, pay>>
  BY DEF AcceptDebit, RepayPay, GoTo, Inv, Types, copies
<1>2. loan[p] \in Loan /\ s \in Players
  BY <1>1, TwoRows DEF AcceptCalls, RepayCalls
<1>3. money' = [money EXCEPT ![s] = debit[p] - c] /\ faults = 0
  BY DEF AcceptDebit, RepayPay, Put, Set, Counters
<1>4. debit[p] = money[s] /\ money[s] \in Int /\ c \in Int
  <2>1. CopiesCurrent(p)
    BY CurrentBefore
  <2>2. loan[p].amount \in Nat /\ pay[p] \in Nat
    BY <1>2, LoanFields DEF Inv, Types
  <2>3. Dollars(loan[p].amount) \in Int /\ Dollars(pay[p]) \in Int
    BY <2>2, WholeDollars
  <2> QED
    BY <1>1, <1>2, <2>1, <2>3 DEF CopiesCurrent, Inv, Types
<1>5. MoneyDue(p) = 0 /\ MoneyDue(p)' = c
  BY <1>1 DEF MoneyDue, Dollars
<1> HIDE DEF s, c
<1>6. SumFunction(money') = SumFunction(money) + ((money[s] - c) - money[s])
  <2>1. money \in [Players -> Int] /\ money[s] - c \in Int
    BY <1>4 DEF Inv, Types
  <2> QED
    BY <1>2, <1>3, <1>4, <2>1, RowPut
<1> QED
  BY <1>3, <1>4, <1>5, <1>6, SumIsAnInt DEF MoneyWith

\* The borrower's treasury is credited, or the lender's.
LEMMA MoneyByCredits ==
    ASSUME Inv, Counters, Order, Current, Parties, NEW p \in Players, Command(p),
           AcceptCredit(p) \/ RepayReceive(p), ~overlapped', faults' = 0
    PROVE  faults = 0 /\ MoneyWith(p)' = MoneyWith(p)
<1> DEFINE s == IF AcceptCredit(p) THEN p ELSE loan[p].loaner
           c == IF AcceptCredit(p) THEN Dollars(loan[p].amount) ELSE Dollars(pay[p])
<1>1. /\ pc[p] = IF AcceptCredit(p) THEN "credit" ELSE "receive"
      /\ pc'[p] \in {"sign", "settle"}
  BY DEF AcceptCredit, RepayReceive, GoTo, Inv, Types
<1>2. loan[p] \in Loan /\ s \in Players
  BY <1>1, TwoRows DEF AcceptCalls, RepayCalls
<1>3. money' = [money EXCEPT ![s] = credit[p] + c] /\ faults = 0
  BY DEF AcceptCredit, RepayReceive, Put, Set, Counters
<1>4. credit[p] = money[s] /\ money[s] \in Int /\ c \in Int
  <2>1. CopiesCurrent(p)
    BY CurrentBefore
  <2>2. loan[p].amount \in Nat /\ pay[p] \in Nat
    BY <1>2, LoanFields DEF Inv, Types
  <2>3. Dollars(loan[p].amount) \in Int /\ Dollars(pay[p]) \in Int
    BY <2>2, WholeDollars
  <2> QED
    BY <1>1, <1>2, <2>1, <2>3 DEF CopiesCurrent, Inv, Types
<1>5. MoneyDue(p) = c /\ MoneyDue(p)' = 0
  BY <1>1 DEF MoneyDue, Dollars
<1> HIDE DEF s, c
<1>6. SumFunction(money') = SumFunction(money) + ((money[s] + c) - money[s])
  <2>1. money \in [Players -> Int] /\ money[s] + c \in Int
    BY <1>4 DEF Inv, Types
  <2> QED
    BY <1>2, <1>3, <1>4, <2>1, RowPut
<1> QED
  BY <1>3, <1>4, <1>5, <1>6, SumIsAnInt DEF MoneyWith

\* The other steps leave the treasuries alone, and come neither before nor
\* after a call that credits one.
LEMMA MoneyByOthers ==
    ASSUME Inv, Counters, NEW p \in Players, Command(p), ~AcceptDebit(p), ~RepayPay(p),
           ~AcceptCredit(p), ~RepayReceive(p), faults' = 0
    PROVE  faults = 0 /\ MoneyWith(p)' = MoneyWith(p)
<1>1. money' = money /\ (faults' = faults \/ faults' = faults + 1)
  BY DEF Command, OfferLoan, OfferUid, OfferPut, AcceptLoan, AcceptLoaner, AcceptLoanee,
     AcceptSign, RepayLoan, RepayBorrower, RepayLender, RepaySettle, ReadFails, Put, rows, bounds
<1>2. pc[p] \notin {"credit", "receive"}
  BY DEF Command, OfferLoan, OfferUid, OfferPut, AcceptLoan, AcceptLoaner, AcceptLoanee,
     AcceptSign, RepayLoan, RepayBorrower, RepayLender, RepaySettle, ReadFails, Begin
<1>3. pc'[p] \notin {"credit", "receive"}
  BY <1>2 DEF Command, OfferLoan, OfferUid, OfferPut, AcceptLoan, AcceptLoaner, AcceptLoanee,
     AcceptSign, RepayLoan, RepayBorrower, RepayLender, RepaySettle, ReadFails, GoTo, Inv, Types
<1> QED
  BY <1>1, <1>2, <1>3 DEF MoneyWith, MoneyDue, Counters

LEMMA MoneyInit == Init => MoneyTally
<1> SUFFICES ASSUME Init PROVE MoneyTally
  OBVIOUS
<1>1. SumFunction(money) = AllMoney
  <2>1. StartMoney \in Int /\ money = [p \in Players |-> StartMoney]
    BY AllIsInt DEF Init
  <2>2. SumFunction([p \in Players |-> StartMoney]) = StartMoney * Cardinality(Players)
    BY <2>1, PlayersFinite, SumOfAllConstant
  <2> QED
    BY <2>1, <2>2 DEF AllMoney
<1>2. \A p \in Players : ~Busy(p)
  BY DEF Init, Busy
<1> QED
  BY <1>1, <1>2 DEF MoneyTally

LEMMA MoneyStep ==
    Inv /\ Counters /\ Order /\ Parties /\ Current /\ MoneyTally /\ [Next]_vars => MoneyTally'
<1> SUFFICES ASSUME Inv, Counters, Order, Parties, Current, MoneyTally, [Next]_vars
             PROVE  MoneyTally'
  OBVIOUS
<1>1. CASE UNCHANGED vars \/ FindOverdue \/ MarkDefaulted \/ NextDay
  <2>1. UNCHANGED <<money, loan, pay, pc>> /\ (~overlapped' => ~overlapped)
    BY <1>1 DEF vars, rows, copies, FindOverdue, MarkDefaulted, NextDay, Order
  <2>2. faults' = faults \/ faults' = faults + 1
    BY <1>1 DEF vars, bounds, FindOverdue, MarkDefaulted, NextDay, Put
  <2>3. faults' = 0 => faults = 0
    BY <2>2 DEF Counters
  <2> QED
    BY <2>1, <2>3 DEF MoneyTally, Quiet, Busy, MoneyWith, MoneyDue, AllMoney, Dollars
<1>2. ASSUME NEW p \in Players, Command(p)
      PROVE  MoneyTally'
  BY <1>2, MoneyByDebits, MoneyByCredits, MoneyByOthers, MoneyByOne
<1> QED
  BY <1>1, <1>2 DEF Next

-----------------------------------------------------------------------------
(***************************************************************************)
(* The numbers of loans.  A "loan offer" that has ended made one loan at   *)
(* most, so that no number is greater than the count of those commands;    *)
(* loans are never deleted.                                                *)
(***************************************************************************)
Offering == {p \in Players : pc[p] \in {"uid", "offer"}}
Ended == offers - Cardinality(Offering)

Numbers ==
    /\ offers \in 0..MaxUid
    /\ uid \in [Players -> Uids]
    /\ overdue \subseteq [uid: Uids, loan: Loan]
    /\ Ended >= 0
    /\ \A u \in Uids : loans[u] # NoLoan => u <= Ended
    /\ \A p \in Players :
        /\ pc[p] = "offer" => uid[p] <= Ended + 1
        /\ pc[p] \in AcceptCalls \cup RepayCalls => loans[uid[p]] # NoLoan
    /\ \A o \in overdue : loans[o.uid] # NoLoan

LEMMA NumbersInit == Init => Numbers
<1> SUFFICES ASSUME Init PROVE Numbers
  OBVIOUS
<1>1. MaxUid \in Nat /\ 1 \in Uids /\ 0 \in 0..MaxUid
  BY LoansAssumption DEF Uids
<1>2. Offering = {}
  BY DEF Init, Offering
<1>3. Ended = 0
  BY <1>2, FS_EmptySet DEF Ended, Init
<1> QED
  BY <1>1, <1>3 DEF Init, Numbers, AcceptCalls, RepayCalls

\* One command goes from a call to another.
LEMMA OfferingChanges ==
    ASSUME pc \in [Players -> Calls], NEW p \in Players, NEW c \in Calls,
           pc' = [pc EXCEPT ![p] = c]
    PROVE  /\ Cardinality(Offering) \in Nat /\ Cardinality(Offering)' \in Nat
           /\ p \in Offering => Cardinality(Offering) >= 1
           /\ (c \in {"uid", "offer"} <=> p \in Offering) =>
                 Cardinality(Offering)' = Cardinality(Offering)
           /\ c \in {"uid", "offer"} /\ p \notin Offering =>
                 Cardinality(Offering)' = Cardinality(Offering) + 1
           /\ c \notin {"uid", "offer"} /\ p \in Offering =>
                 Cardinality(Offering)' = Cardinality(Offering) - 1
<1>1. IsFiniteSet(Offering) /\ IsFiniteSet(Offering)'
  BY PlayersFinite, FS_Subset DEF Offering
<1>2. Cardinality(Offering) \in Nat /\ Cardinality(Offering)' \in Nat
  BY <1>1, FS_CardinalityType
<1>3. p \in Offering => Cardinality(Offering) >= 1
  BY <1>1, <1>2, FS_EmptySet
<1>4. CASE c \in {"uid", "offer"} <=> p \in Offering
  <2>1. Offering' = Offering
    BY <1>4 DEF Offering
  <2> QED
    BY <1>2, <1>3, <1>4, <2>1
<1>5. CASE c \in {"uid", "offer"} /\ p \notin Offering
  <2>1. Offering' = Offering \cup {p}
    BY <1>5 DEF Offering
  <2> QED
    BY <1>1, <1>2, <1>3, <1>5, <2>1, FS_AddElement
<1>6. CASE c \notin {"uid", "offer"} /\ p \in Offering
  <2>1. Offering' = Offering \ {p}
    BY <1>6 DEF Offering
  <2> QED
    BY <1>1, <1>2, <1>3, <1>6, <2>1, FS_RemoveElement
<1> QED
  BY <1>4, <1>5, <1>6

\* The calls of a command, in their order.
LEMMA CallsInOrder ==
    ASSUME Inv, NEW p \in Players, Command(p)
    PROVE  \/ UNCHANGED <<pc, offers>>
           \/ \E c \in Calls :
                /\ pc' = [pc EXCEPT ![p] = c]
                /\ offers' = IF c = "uid" THEN offers + 1 ELSE offers
                /\ c = "uid" => pc[p] = "idle"
                /\ c = "offer" => pc[p] = "uid"
                /\ OfferPut(p) => pc[p] = "offer" /\ c = "idle"
<1>1. \/ UNCHANGED <<pc, offers>>
      \/ \E c : /\ pc' = [pc EXCEPT ![p] = c]
                /\ offers' = IF c = "uid" THEN offers + 1 ELSE offers
                /\ c = "uid" => pc[p] = "idle"
                /\ c = "offer" => pc[p] = "uid"
                /\ OfferPut(p) => pc[p] = "offer" /\ c = "idle"
  <2>1. CASE \E d \in Players, a \in Amounts, r \in Rates, t \in Terms : OfferLoan(p, d, a, r, t)
    BY <2>1 DEF OfferLoan, OfferPut, GoTo, Begin
  <2>2. CASE \E u \in Uids : AcceptLoan(p, u)
    BY <2>2 DEF AcceptLoan, OfferPut, GoTo, Begin, bounds
  <2>3. CASE \E u \in Uids, a \in Payments : RepayLoan(p, u, a)
    BY <2>3 DEF RepayLoan, OfferPut, GoTo, Begin
  <2>4. CASE OfferUid(p) \/ OfferPut(p)
    BY <2>4 DEF OfferUid, OfferPut, GoTo, bounds
  <2>5. CASE AcceptLoaner(p) \/ AcceptLoanee(p) \/ AcceptDebit(p) \/ AcceptCredit(p) \/ AcceptSign(p)
    BY <2>5 DEF AcceptLoaner, AcceptLoanee, AcceptDebit, AcceptCredit, AcceptSign, OfferPut,
       GoTo, bounds
  <2>6. CASE RepayBorrower(p) \/ RepayLender(p) \/ RepayPay(p) \/ RepayReceive(p)
             \/ RepaySettle(p) \/ ReadFails(p)
    BY <2>6 DEF RepayBorrower, RepayLender, RepayPay, RepayReceive, RepaySettle, ReadFails,
       OfferPut, GoTo, bounds
  <2> QED
    BY <2>1, <2>2, <2>3, <2>4, <2>5, <2>6 DEF Command
<1>2. pc' \in [Players -> Calls]
  BY OthersStay
<1> QED
  BY <1>1, <1>2 DEF Inv, Types

LEMMA EndedGrows ==
    ASSUME Inv, offers \in 0..MaxUid, NEW p \in Players, Command(p)
    PROVE  /\ Ended \in Int /\ Ended' \in Int /\ Ended' >= Ended
           /\ OfferPut(p) => Ended' = Ended + 1
<1>1. MaxUid \in Nat /\ offers \in Int
  BY LoansAssumption
<1>2. CASE UNCHANGED <<pc, offers>> /\ ~OfferPut(p)
  <2>1. UNCHANGED Ended
    BY <1>2 DEF Ended, Offering
  <2>2. Cardinality(Offering) \in Nat
    BY PlayersFinite, FS_Subset, FS_CardinalityType DEF Offering
  <2>3. Ended \in Int
    BY <1>1, <2>2 DEF Ended
  <2> QED
    BY <1>2, <2>1, <2>3
<1>3. ASSUME NEW c \in Calls,
             /\ pc' = [pc EXCEPT ![p] = c]
             /\ offers' = IF c = "uid" THEN offers + 1 ELSE offers
             /\ c = "uid" => pc[p] = "idle"
             /\ c = "offer" => pc[p] = "uid"
             /\ OfferPut(p) => pc[p] = "offer" /\ c = "idle"
      PROVE  /\ Ended \in Int /\ Ended' \in Int /\ Ended' >= Ended
             /\ OfferPut(p) => Ended' = Ended + 1
  <2> DEFINE n == Cardinality(Offering)
             m == Cardinality(Offering)'
  <2>1. p \in Offering <=> pc[p] \in {"uid", "offer"}
    BY DEF Offering
  <2>2. n \in Nat /\ m \in Nat
    BY <1>3, OfferingChanges DEF Inv, Types
  <2>3. CASE c = "uid"
    <3>1. m = n + 1 /\ offers' = offers + 1 /\ ~OfferPut(p)
      BY <1>3, <2>1, <2>3, OfferingChanges DEF Inv, Types
    <3> HIDE DEF n, m
    <3> QED
      BY <1>1, <2>2, <3>1 DEF Ended, n, m
  <2>4. CASE c = "offer"
    <3>1. m = n /\ offers' = offers /\ ~OfferPut(p)
      BY <1>3, <2>1, <2>4, OfferingChanges DEF Inv, Types
    <3> QED
      BY <1>1, <2>2, <3>1 DEF Ended
  <2>5. CASE c \notin {"uid", "offer"}
    <3>1. (m = n \/ m = n - 1) /\ offers' = offers /\ (OfferPut(p) => m = n - 1)
      BY <1>3, <2>1, <2>5, OfferingChanges DEF Inv, Types
    <3> QED
      BY <1>1, <2>2, <3>1 DEF Ended
  <2> QED
    BY <2>3, <2>4, <2>5
<1>4. pc[p] = "offer" /\ pc'[p] = "idle" => ~UNCHANGED pc
  OBVIOUS
<1>5. OfferPut(p) => ~UNCHANGED pc
  BY <1>4 DEF OfferPut, GoTo, Inv, Types
<1> QED
  BY <1>2, <1>3, <1>5, CallsInOrder

\* The number that "loan offer" takes is at most one above those used before.
LEMMA NextUidIsNext ==
    ASSUME Numbers, Ended \in Int
    PROVE  NextUid \in Nat \ {0} /\ NextUid <= Ended + 1
<1> DEFINE used == {0} \cup {u \in Uids : loans[u] # NoLoan}
<1>1. MaxUid \in Nat /\ used \subseteq 0..MaxUid /\ used # {}
  BY LoansAssumption DEF Uids
<1>2. \A u \in used : u \in Nat /\ u <= Ended
  BY LoansAssumption DEF Numbers, Uids
<1>3. NextUid = 1 + Max(used)
  BY DEF NextUid
<1> HIDE DEF used
<1>4. Max(used) \in used
  BY <1>1, GreatestExists
<1>5. Max(used) \in Nat /\ Max(used) <= Ended
  BY <1>2, <1>4
<1> QED
  BY <1>3, <1>5

\* What a command does to the loan it works on.
LEMMA NumberOfCommand ==
    ASSUME Inv, Numbers, NEW p \in Players, Command(p)
    PROVE  /\ uid' \in [Players -> Uids]
           /\ \A q \in Players \ {p} : uid'[q] = uid[q]
           /\ pc'[p] = "offer" => uid'[p] <= Ended + 1
           /\ pc'[p] \in AcceptCalls \cup RepayCalls => loans[uid'[p]] # NoLoan
<1> USE DEF Inv, Types, Numbers
<1>1. CASE OfferUid(p)
  <2>1. pc[p] = "uid" /\ pc'[p] = "offer" /\ uid' = [uid EXCEPT ![p] = NextUid]
    BY <1>1 DEF OfferUid, GoTo, Set
  <2>2. /\ Ended \in Int /\ MaxUid \in Nat /\ offers <= MaxUid /\ offers \in Nat
        /\ Cardinality(Offering) \in Nat /\ Cardinality(Offering) >= 1
    <3>1. p \in Offering /\ IsFiniteSet(Offering)
      BY <2>1, PlayersFinite, FS_Subset DEF Offering
    <3>2. Cardinality(Offering) \in Nat /\ Cardinality(Offering) # 0
      BY <3>1, FS_CardinalityType, FS_EmptySet
    <3> QED
      BY <3>2, EndedGrows, LoansAssumption
  <2>3. NextUid \in Nat \ {0} /\ NextUid <= Ended + 1
    BY <2>2, NextUidIsNext
  <2>4. NextUid <= MaxUid
    BY <2>2, <2>3 DEF Ended
  <2>5. NextUid \in Uids
    BY <2>2, <2>3, <2>4 DEF Uids
  <2> QED
    BY <2>1, <2>3, <2>5 DEF AcceptCalls, RepayCalls
<1>2. ASSUME NEW u \in Uids, AcceptLoan(p, u)
      PROVE  /\ uid' \in [Players -> Uids]
             /\ \A q \in Players \ {p} : uid'[q] = uid[q]
             /\ pc'[p] = "offer" => uid'[p] <= Ended + 1
             /\ pc'[p] \in AcceptCalls \cup RepayCalls => loans[uid'[p]] # NoLoan
  BY <1>2 DEF AcceptLoan, MayAccept, GoTo, Set, Begin, AcceptCalls, RepayCalls
<1>3. ASSUME NEW u \in Uids, NEW a \in Payments, RepayLoan(p, u, a)
      PROVE  /\ uid' \in [Players -> Uids]
             /\ \A q \in Players \ {p} : uid'[q] = uid[q]
             /\ pc'[p] = "offer" => uid'[p] <= Ended + 1
             /\ pc'[p] \in AcceptCalls \cup RepayCalls => loans[uid'[p]] # NoLoan
  BY <1>3 DEF RepayLoan, GoTo, Set
<1>4. CASE \E d \in Players, a \in Amounts, r \in Rates, t \in Terms : OfferLoan(p, d, a, r, t)
  BY <1>4 DEF OfferLoan, GoTo, AcceptCalls, RepayCalls
<1>5. CASE OfferPut(p) \/ AcceptLoaner(p) \/ AcceptLoanee(p) \/ AcceptDebit(p)
           \/ AcceptCredit(p) \/ AcceptSign(p) \/ RepayBorrower(p) \/ RepayLender(p)
           \/ RepayPay(p) \/ RepayReceive(p) \/ RepaySettle(p) \/ ReadFails(p)
  <2>1. uid' = uid
    BY <1>5 DEF OfferPut, AcceptLoaner, AcceptLoanee, AcceptDebit, AcceptCredit, AcceptSign,
       RepayBorrower, RepayLender, RepayPay, RepayReceive, RepaySettle, ReadFails, copies
  <2>2. pc'[p] # "offer"
        /\ (pc'[p] \in AcceptCalls \cup RepayCalls => pc[p] \in AcceptCalls \cup RepayCalls)
    BY <1>5 DEF OfferPut, AcceptLoaner, AcceptLoanee, AcceptDebit, AcceptCredit, AcceptSign,
       RepayBorrower, RepayLender, RepayPay, RepayReceive, RepaySettle, ReadFails, GoTo,
       AcceptCalls, RepayCalls
  <2> QED
    BY <2>1, <2>2
<1> QED
  BY <1>1, <1>2, <1>3, <1>4, <1>5 DEF Command

\* What it does to the rows: one of a number in use is put, or the one it offers.
LEMMA RowsOfCommand ==
    ASSUME Inv, Numbers, NEW p \in Players, Command(p)
    PROVE  \/ loans' = loans
           \/ \E l \in Loan : loans' = [loans EXCEPT ![uid[p]] = l]
                              /\ \/ OfferPut(p) /\ uid[p] <= Ended + 1
                                 \/ loans[uid[p]] # NoLoan
<1>1. CASE OfferPut(p) \/ AcceptSign(p) \/ RepaySettle(p)
  <2>1. loan[p] \in Loan
    BY <1>1 DEF OfferPut, AcceptSign, RepaySettle, Inv, Copied, Sound
  <2>2. [loan[p] EXCEPT !.status = "Active"] \in Loan
    BY <2>1 DEF Loan, Status
  <2>3. \E l \in Loan : Put(loans, uid[p], l, loans')
    BY <1>1, <2>1, <2>2 DEF OfferPut, AcceptSign, RepaySettle
  <2>4. OfferPut(p) => uid[p] <= Ended + 1
    BY DEF OfferPut, Numbers
  <2>5. AcceptSign(p) \/ RepaySettle(p) => loans[uid[p]] # NoLoan
    BY DEF AcceptSign, RepaySettle, Numbers, AcceptCalls, RepayCalls
  <2> QED
    BY <1>1, <2>3, <2>4, <2>5 DEF Put, Set
<1>2. CASE ~OfferPut(p) /\ ~AcceptSign(p) /\ ~RepaySettle(p)
  BY <1>2 DEF Command, OfferLoan, OfferUid, AcceptLoan, AcceptLoaner, AcceptLoanee,
     AcceptDebit, AcceptCredit, RepayLoan, RepayBorrower, RepayLender, RepayPay,
     RepayReceive, ReadFails, rows
<1> QED
  BY <1>1, <1>2

LEMMA NumbersOfCommand ==
    ASSUME Inv, Numbers, NEW p \in Players, Command(p)
    PROVE  Numbers'
<1>1. /\ Ended \in Int /\ Ended' \in Int /\ Ended' >= Ended
      /\ OfferPut(p) => Ended' = Ended + 1
  BY EndedGrows DEF Numbers
<1>2. offers' \in 0..MaxUid
  <2>1. offers' = offers \/ (offers < MaxUid /\ offers' = offers + 1)
    BY DEF Command, OfferLoan, OfferUid, OfferPut, AcceptLoan, AcceptLoaner, AcceptLoanee,
       AcceptDebit, AcceptCredit, AcceptSign, RepayLoan, RepayBorrower, RepayLender, RepayPay,
       RepayReceive, RepaySettle, ReadFails, bounds
  <2> QED
    BY <2>1, LoansAssumption DEF Numbers
<1>3. \A u \in Uids : loans[u] # NoLoan => loans'[u] # NoLoan
  BY RowsOfCommand, LoanIsARow DEF Inv, Types
<1>4. \A u \in Uids : u \in Int
  BY LoansAssumption DEF Uids
<1>5. ASSUME NEW u \in Uids, loans'[u] # NoLoan
      PROVE  u <= Ended'
  <2>1. loans[u] # NoLoan \/ (OfferPut(p) /\ u <= Ended + 1)
    BY <1>5, RowsOfCommand DEF Inv, Types
  <2>2. loans[u] # NoLoan => u <= Ended
    BY DEF Numbers
  <2> QED
    BY <1>1, <1>4, <2>1, <2>2
<1>6. uid' \in [Players -> Uids] /\ overdue' = overdue
  BY NumberOfCommand, OthersStay
<1>7. ASSUME NEW q \in Players
      PROVE  /\ pc'[q] = "offer" => uid'[q] <= Ended' + 1
             /\ pc'[q] \in AcceptCalls \cup RepayCalls => loans'[uid'[q]] # NoLoan
  <2>1. /\ pc'[q] = "offer" => uid'[q] <= Ended + 1
        /\ pc'[q] \in AcceptCalls \cup RepayCalls => loans[uid'[q]] # NoLoan
    BY NumberOfCommand, OthersStay DEF Numbers
  <2>2. uid'[q] \in Uids
    BY <1>6
  <2>3. uid'[q] \in Int
    BY <1>4, <2>2
  <2> QED
    BY <1>1, <1>3, <2>1, <2>2, <2>3
<1>8. \A o \in overdue : o.uid \in Uids /\ loans'[o.uid] # NoLoan
  BY <1>3 DEF Numbers
<1>9. Ended' >= 0
  BY <1>1 DEF Numbers
<1> QED
  BY <1>2, <1>5, <1>6, <1>7, <1>8, <1>9 DEF Numbers

LEMMA NumbersStep == Inv /\ Numbers /\ [Next]_vars => Numbers'
<1> SUFFICES ASSUME Inv, Numbers, [Next]_vars PROVE Numbers'
  OBVIOUS
<1>1. CASE UNCHANGED vars \/ NextDay
  <2>1. UNCHANGED <<loans, pc, uid, overdue, offers>>
    BY <1>1 DEF vars, rows, copies, bounds, NextDay
  <2> QED
    BY <2>1 DEF Numbers, Ended, Offering
<1>2. CASE FindOverdue
  <2>1. UNCHANGED <<loans, pc, uid, offers>>
    BY <1>2 DEF FindOverdue, rows, copies, bounds
  <2>2. /\ overdue' \subseteq [uid: Uids, loan: Loan]
        /\ \A o \in overdue' : loans[o.uid] # NoLoan
    BY <1>2 DEF FindOverdue, Inv, Types
  <2> QED
    BY <2>1, <2>2 DEF Numbers, Ended, Offering
<1>3. CASE MarkDefaulted
  <2>1. PICK o \in overdue :
          /\ Put(loans, o.uid, [o.loan EXCEPT !.status = "Defaulted"], loans')
          /\ overdue' = overdue \ {o}
    BY <1>3 DEF MarkDefaulted
  <2>2. UNCHANGED <<pc, uid, offers>>
    BY <1>3 DEF MarkDefaulted, copies
  <2>3. o.uid \in Uids /\ loans[o.uid] # NoLoan /\ o.loan \in Loan
    BY DEF Numbers
  <2>4. [o.loan EXCEPT !.status = "Defaulted"] \in Loan
    BY <2>3 DEF Loan, Status
  <2>5. \A u \in Uids : loans'[u] # NoLoan <=> loans[u] # NoLoan
    BY <2>1, <2>3, <2>4, LoanIsARow DEF Put, Set, Inv, Types
  <2>6. /\ \A q \in Players : uid[q] \in Uids
        /\ \A q \in overdue : q.uid \in Uids
    BY DEF Numbers
  <2> QED
    BY <2>1, <2>2, <2>5, <2>6 DEF Numbers, Ended, Offering
<1> QED
  BY <1>1, <1>2, <1>3, NumbersOfCommand DEF Next

-----------------------------------------------------------------------------
(***************************************************************************)
(* A loan from its offer to its end, whatever overlaps.  Only the borrower *)
(* accepts and repays, one command at a time; so long as the number is not *)
(* given to another loan, the row an accept works on is the row it read,   *)
(* and nobody who writes a loan back that was accepted has a copy of the   *)
(* offer.                                                                  *)
(***************************************************************************)
Histories ==
    /\ handed \in [Uids -> Nat] /\ lapses \in [Uids -> Nat]
    /\ reused \in SUBSET Uids

AcceptKeeps(p) ==
    pc[p] \in AcceptCalls /\ uid[p] \notin reused =>
        loans[uid[p]] = loan[p] /\ loan[p].status = "Offered"

RepayKeeps(p) ==
    pc[p] \in RepayCalls /\ uid[p] \notin reused =>
        /\ loans[uid[p]].loanee = p
        /\ loans[uid[p]].status # "Offered" /\ loan[p].status # "Offered"

OverdueKeeps(o) ==
    o.uid \notin reused =>
        loans[o.uid].loanee = o.loan.loanee /\ loans[o.uid].status # "Offered"

Deals ==
    /\ Histories
    /\ \A p \in Players : AcceptKeeps(p) /\ RepayKeeps(p)
    /\ \A o \in overdue : OverdueKeeps(o)
    /\ HandedOver

LEMMA DealsInit == Init => Deals
<1> SUFFICES ASSUME Init PROVE Deals
  OBVIOUS
<1>1. Histories
  BY DEF Init, Histories
<1>2. \A p \in Players : pc[p] = "idle"
  BY DEF Init
<1>3. overdue = {}
  BY DEF Init
<1>4. \A u \in Uids : handed[u] = 0 /\ lapses[u] = 0
  BY DEF Init
<1>5. HandedOver
  BY <1>4 DEF HandedOver
<1> QED
  BY <1>1, <1>2, <1>3, <1>5 DEF Deals, AcceptKeeps, RepayKeeps, AcceptCalls, RepayCalls

\* The histories change in three steps only.
LEMMA HistoriesStep ==
    ASSUME Inv, Numbers, Histories, Next
    PROVE  /\ Histories' /\ reused \subseteq reused'
           /\ \A u \in Uids :
                /\ u \in reused' => u \in reused \/ \E p \in Players : OfferPut(p) /\ uid[p] = u
                /\ handed'[u] = handed[u]
                      \/ /\ handed'[u] = handed[u] + 1
                         /\ \E p \in Players : AcceptCredit(p) /\ uid[p] = u
                /\ lapses'[u] = lapses[u]
                      \/ \E p \in Players : AcceptSign(p) /\ uid[p] = u
<1>1. CASE UNCHANGED dealt
  BY <1>1 DEF dealt, Histories
<1>2. ASSUME NEW p \in Players, OfferPut(p)
      PROVE  /\ UNCHANGED <<handed, lapses>>
             /\ reused' = reused \/ reused' = reused \cup {uid[p]}
  BY <1>2 DEF OfferPut
<1>3. ASSUME NEW p \in Players, AcceptCredit(p)
      PROVE  /\ UNCHANGED <<lapses, reused>>
             /\ handed' = handed \/ handed' = [handed EXCEPT ![uid[p]] = @ + 1]
  BY <1>3 DEF AcceptCredit, OneMore
<1>4. ASSUME NEW p \in Players, AcceptSign(p)
      PROVE  /\ UNCHANGED <<handed, reused>>
             /\ lapses' = lapses \/ lapses' = [lapses EXCEPT ![uid[p]] = @ + 1]
  BY <1>4 DEF AcceptSign, OneMore
<1>5. \/ UNCHANGED dealt
      \/ \E p \in Players : OfferPut(p) \/ AcceptCredit(p) \/ AcceptSign(p)
  BY DEF Next, Command, OfferLoan, OfferUid, AcceptLoan, AcceptLoaner, AcceptLoanee,
     AcceptDebit, RepayLoan, RepayBorrower, RepayLender, RepayPay,
     RepayReceive, RepaySettle, ReadFails, FindOverdue, MarkDefaulted, NextDay
<1>6. \A p \in Players : uid[p] \in Uids
  BY DEF Numbers
<1>7. ASSUME NEW p \in Players, OfferPut(p)
      PROVE  /\ Histories' /\ reused \subseteq reused' /\ UNCHANGED <<handed, lapses>>
             /\ \A u \in reused' : u \in reused \/ u = uid[p]
  BY <1>2, <1>6, <1>7 DEF Histories
<1>8. ASSUME NEW p \in Players, AcceptCredit(p)
      PROVE  /\ Histories' /\ UNCHANGED <<lapses, reused>>
             /\ \A u \in Uids : handed'[u] = handed[u]
                                 \/ (handed'[u] = handed[u] + 1 /\ uid[p] = u)
  BY <1>3, <1>6, <1>8 DEF Histories
<1>9. ASSUME NEW p \in Players, AcceptSign(p)
      PROVE  /\ Histories' /\ UNCHANGED <<handed, reused>>
             /\ \A u \in Uids : lapses'[u] = lapses[u] \/ uid[p] = u
  BY <1>4, <1>6, <1>9 DEF Histories
<1> QED
  BY <1>1, <1>5, <1>7, <1>8, <1>9

\* What a step may do to the row of a loan.
Signs(u) ==
    \E p \in Players :
        /\ AcceptSign(p) /\ uid[p] = u
        /\ loans[u] = loan[p] /\ loans[u].status = "Offered"
        /\ loans'[u] = [loans[u] EXCEPT !.status = "Active"]

Follows(u) ==
    /\ loans[u] # NoLoan /\ loans[u].status # "Offered"
    /\ loans'[u] \in Loan /\ loans'[u].status # "Offered"
    /\ loans'[u].loanee = loans[u].loanee

RowMoves(u) ==
    \/ loans'[u] = loans[u]
    \/ loans[u] = NoLoan
    \/ u \in reused'
    \/ Signs(u)
    \/ Follows(u)

LEMMA RowMovesStep ==
    ASSUME Inv, Parties, Numbers, Deals, Next, NEW u \in Uids
    PROVE  RowMoves(u)
<1>1. CASE UNCHANGED loans
  BY <1>1 DEF RowMoves
<1>2. /\ loans \in [Uids -> Loan \cup {NoLoan}] /\ reused \subseteq reused'
      /\ \A p \in Players : AcceptKeeps(p) /\ RepayKeeps(p) /\ PartiesOf(p) /\ Copied(p)
  BY HistoriesStep DEF Inv, Types, Deals, Parties
<1>3. ASSUME NEW p \in Players, OfferPut(p)
      PROVE  RowMoves(u)
  <2>1. /\ loans' = loans \/ loans' = [loans EXCEPT ![uid[p]] = loan[p]]
        /\ loans[uid[p]] = NoLoan \/ uid[p] \in reused'
    BY <1>3 DEF OfferPut, Put, Set
  <2> QED
    BY <1>2, <2>1 DEF RowMoves
<1>4. ASSUME NEW p \in Players, AcceptSign(p)
      PROVE  RowMoves(u)
  <2>1. /\ loans' = loans \/ loans' = [loans EXCEPT ![uid[p]] = [loan[p] EXCEPT !.status = "Active"]]
        /\ pc[p] = "sign"
    BY <1>4 DEF AcceptSign, Put, Set
  <2>2. uid[p] \in reused \/ (loans[uid[p]] = loan[p] /\ loan[p].status = "Offered")
    BY <1>2, <2>1 DEF AcceptKeeps, AcceptCalls
  <2>3. CASE u # uid[p]
    BY <1>2, <2>1, <2>3 DEF RowMoves
  <2>4. CASE u = uid[p] /\ loans' # loans /\ u \notin reused
    <3>1. loans'[u] = [loans[u] EXCEPT !.status = "Active"]
      BY <1>2, <2>1, <2>2, <2>4
    <3> QED
      BY <1>4, <2>2, <2>4, <3>1 DEF RowMoves, Signs
  <2> QED
    BY <1>2, <2>3, <2>4 DEF RowMoves
<1>5. ASSUME NEW p \in Players, RepaySettle(p)
      PROVE  RowMoves(u)
  <2>1. /\ loans' = loans \/ loans' = [loans EXCEPT ![uid[p]] = loan[p]]
        /\ pc[p] = "settle"
    BY <1>5 DEF RepaySettle, Put, Set
  <2>2. /\ loan[p] \in Loan /\ loan[p].loanee = p /\ loans[uid[p]] # NoLoan
    BY <1>2, <2>1 DEF Copied, Sound, PartiesOf, RepayCalls, Numbers
  <2>3. uid[p] \in reused \/ /\ loans[uid[p]].loanee = p
                             /\ loans[uid[p]].status # "Offered" /\ loan[p].status # "Offered"
    BY <1>2, <2>1 DEF RepayKeeps, RepayCalls
  <2> QED
    BY <1>2, <2>1, <2>2, <2>3 DEF RowMoves, Follows
<1>6. CASE MarkDefaulted
  <2>1. PICK o \in overdue : Put(loans, o.uid, [o.loan EXCEPT !.status = "Defaulted"], loans')
    BY <1>6 DEF MarkDefaulted
  <2>. DEFINE d == [o.loan EXCEPT !.status = "Defaulted"]
  <2>2. loans' = loans \/ loans' = [loans EXCEPT ![o.uid] = d]
    BY <2>1 DEF Put, Set
  <2>3. o.loan \in Loan /\ loans[o.uid] # NoLoan /\ OverdueKeeps(o)
    BY DEF Inv, OverdueSound, Sound, Numbers, Deals
  <2>4. d \in Loan /\ d.status = "Defaulted" /\ d.loanee = o.loan.loanee
    BY <2>3 DEF Loan, Status
  <2>. HIDE DEF d
  <2> QED
    BY <1>2, <2>2, <2>3, <2>4 DEF RowMoves, Follows, OverdueKeeps
<1>7. ASSUME NEW p \in Players, Command(p), ~OfferPut(p), ~AcceptSign(p), ~RepaySettle(p)
      PROVE  UNCHANGED loans
  BY <1>7 DEF Command, OfferLoan, OfferUid, AcceptLoan, AcceptLoaner, AcceptLoanee,
     AcceptDebit, AcceptCredit, RepayLoan, RepayBorrower, RepayLender, RepayPay,
     RepayReceive, ReadFails, rows
<1>8. FindOverdue \/ NextDay => UNCHANGED loans
  BY DEF FindOverdue, NextDay, rows
<1> QED
  BY <1>1, <1>3, <1>4, <1>5, <1>6, <1>7, <1>8 DEF Next

\* A command that accepts, or repays, has just begun or goes on with its loan.
AcceptBegins(p) ==
    /\ UNCHANGED loans /\ loan'[p] = loans[uid'[p]] /\ loan'[p].status = "Offered"

RepayBegins(p) ==
    /\ UNCHANGED loans /\ loan'[p] = loans[uid'[p]] /\ loan'[p].status = "Active"
    /\ loan'[p].loanee = p

LEMMA OwnCommand ==
    ASSUME Inv, Numbers, NEW p \in Players, Command(p)
    PROVE  /\ pc'[p] \in AcceptCalls =>
                 \/ pc[p] \in AcceptCalls /\ uid'[p] = uid[p] /\ loan'[p] = loan[p]
                 \/ AcceptBegins(p)
           /\ pc'[p] \in RepayCalls =>
                 \/ /\ pc[p] \in RepayCalls /\ uid'[p] = uid[p]
                    /\ loan'[p] = loan[p] \/ loan'[p].status \in {"Active", "Paid"}
                 \/ RepayBegins(p)
<1>. USE DEF AcceptCalls, RepayCalls
<1>0. /\ pc \in [Players -> Calls] /\ uid \in [Players -> Uids]
      /\ loan \in [Players -> Loan \cup {NoLoan}]
  BY DEF Inv, Types, Numbers
<1>1. ASSUME NEW u \in Uids, AcceptLoan(p, u), pc'[p] \in AcceptCalls \cup RepayCalls
      PROVE  pc'[p] \in AcceptCalls /\ AcceptBegins(p)
  <2>1. /\ MayAccept(p, loans[u]) /\ uid'[p] = u /\ loan'[p] = loans[u] /\ UNCHANGED loans
        /\ pc'[p] = "loaner"
    BY <1>0, <1>1 DEF AcceptLoan, Begin, Set, GoTo, rows
  <2> QED
    BY <2>1 DEF AcceptBegins, MayAccept
<1>2. ASSUME NEW u \in Uids, NEW a \in Payments, RepayLoan(p, u, a)
      PROVE  pc'[p] \in RepayCalls /\ RepayBegins(p)
  BY <1>0, <1>2 DEF RepayLoan, Set, GoTo, rows, RepayBegins
<1>3. CASE AcceptLoaner(p) \/ AcceptLoanee(p) \/ AcceptDebit(p) \/ AcceptCredit(p)
  <2>1. pc[p] \in AcceptCalls /\ UNCHANGED <<uid, loan>> /\ pc'[p] \notin RepayCalls
    BY <1>0, <1>3 DEF AcceptLoaner, AcceptLoanee, AcceptDebit, AcceptCredit, GoTo, copies
  <2> QED
    BY <2>1
<1>4. CASE RepayBorrower(p) \/ RepayPay(p) \/ RepayReceive(p)
  <2>1. pc[p] \in RepayCalls /\ UNCHANGED <<uid, loan>> /\ pc'[p] \notin AcceptCalls
    BY <1>0, <1>4 DEF RepayBorrower, RepayPay, RepayReceive, GoTo, copies
  <2> QED
    BY <2>1
<1>5. CASE RepayLender(p)
  <2>1. /\ pc[p] = "lender" /\ pc'[p] = "pay" /\ UNCHANGED uid
        /\ loan'[p] = Repaid(loan[p], Payment(p))
    BY <1>0, <1>5 DEF RepayLender, GoTo, Set
  <2>2. loan[p] \in Loan /\ loan[p].status = "Active"
    BY <2>1 DEF Inv, Copied, Sound
  <2>3. Repaid(loan[p], Payment(p)).status \in {"Active", "Paid"}
    BY <2>2 DEF Repaid, Loan
  <2> QED
    BY <2>1, <2>3
<1>6. CASE OfferPut(p) \/ AcceptSign(p) \/ RepaySettle(p) \/ ReadFails(p) \/ OfferUid(p)
  <2>1. pc'[p] \in {"idle", "offer"}
    BY <1>0, <1>6 DEF OfferPut, AcceptSign, RepaySettle, ReadFails, OfferUid, GoTo
  <2> QED
    BY <2>1
<1>7. CASE \E d \in Players, a \in Amounts, r \in Rates, t \in Terms : OfferLoan(p, d, a, r, t)
  BY <1>0, <1>7 DEF OfferLoan, GoTo
<1> QED
  BY <1>1, <1>2, <1>3, <1>4, <1>5, <1>6, <1>7 DEF Command

\* Two who accept the same loan are one: its borrower.
LEMMA OneAccepts ==
    ASSUME Parties, Deals, NEW p \in Players, NEW q \in Players, uid[p] = uid[q],
           uid[p] \notin reused, pc[p] \in AcceptCalls, pc[q] \in AcceptCalls
    PROVE  p = q
<1>1. loan[p] = loan[q]
  BY DEF Deals, AcceptKeeps
<1>2. loan[p].loanee = p /\ loan[q].loanee = q
  BY DEF Parties, PartiesOf
<1> QED
  BY <1>1, <1>2

\* Whatever a step does to its row, an accept keeps its loan on offer.
LEMMA AcceptGoesOn ==
    ASSUME Inv, Parties, Numbers, Deals, Next, NEW q \in Players, pc[q] \in AcceptCalls,
           uid'[q] = uid[q], loan'[q] = loan[q], pc'[q] \in AcceptCalls
    PROVE  AcceptKeeps(q)'
<1>. SUFFICES ASSUME uid[q] \notin reused'
              PROVE  loans'[uid[q]] = loan[q] /\ loan[q].status = "Offered"
  BY DEF AcceptKeeps
<1>. DEFINE u == uid[q]
<1>1. u \in Uids /\ loans[u] # NoLoan /\ u \notin reused
  BY HistoriesStep DEF Numbers, Deals
<1>2. loans[u] = loan[q] /\ loan[q].status = "Offered"
  BY <1>1 DEF Deals, AcceptKeeps
<1>3. ~Signs(u)
  <2>. SUFFICES ASSUME NEW p \in Players, AcceptSign(p), uid[p] = u
                PROVE  FALSE
    BY DEF Signs
  <2>1. pc[p] = "sign" /\ pc'[p] = "idle"
    BY DEF AcceptSign, GoTo, Inv, Types
  <2>2. p = q
    BY <1>1, <2>1, OneAccepts DEF AcceptCalls
  <2> QED
    BY <2>1, <2>2 DEF AcceptCalls
<1>4. RowMoves(u)
  BY <1>1, RowMovesStep
<1> QED
  BY <1>1, <1>2, <1>3, <1>4 DEF RowMoves, Follows

LEMMA RepayGoesOn ==
    ASSUME Inv, Parties, Numbers, Deals, Next, NEW q \in Players, pc[q] \in RepayCalls,
           uid'[q] = uid[q], loan'[q] = loan[q] \/ loan'[q].status \in {"Active", "Paid"}
    PROVE  RepayKeeps(q)'
<1>. SUFFICES ASSUME uid[q] \notin reused'
              PROVE  /\ loans'[uid[q]].loanee = q
                     /\ loans'[uid[q]].status # "Offered" /\ loan'[q].status # "Offered"
  BY DEF RepayKeeps
<1>. DEFINE u == uid[q]
<1>1. u \in Uids /\ loans[u] # NoLoan /\ u \notin reused
  BY HistoriesStep DEF Numbers, Deals
<1>2. loans[u].loanee = q /\ loans[u].status # "Offered" /\ loan[q].status # "Offered"
  BY <1>1 DEF Deals, RepayKeeps
<1>3. RowMoves(u)
  BY <1>1, RowMovesStep
<1> QED
  BY <1>1, <1>2, <1>3 DEF RowMoves, Follows, Signs

LEMMA KeepsOfCommand ==
    ASSUME Inv, Parties, Numbers, Deals, NEW p \in Players, Command(p), NEW q \in Players
    PROVE  AcceptKeeps(q)' /\ RepayKeeps(q)'
<1>0. Next
  BY DEF Next
<1>1. CASE q # p
  <2>1. pc'[q] = pc[q] /\ loan'[q] = loan[q] /\ uid'[q] = uid[q]
    BY <1>1, OthersStay, NumberOfCommand
  <2> QED
    BY <1>0, <2>1, AcceptGoesOn, RepayGoesOn DEF AcceptKeeps, RepayKeeps
<1>2. CASE q = p
  <2>1. AcceptBegins(q) => AcceptKeeps(q)'
    BY DEF AcceptBegins, AcceptKeeps
  <2>2. RepayBegins(q) => RepayKeeps(q)'
    BY DEF RepayBegins, RepayKeeps
  <2>3. pc'[q] \notin AcceptCalls => AcceptKeeps(q)'
    BY DEF AcceptKeeps
  <2>4. pc'[q] \notin RepayCalls => RepayKeeps(q)'
    BY DEF RepayKeeps
  <2> QED
    BY <1>0, <1>2, <2>1, <2>2, <2>3, <2>4, OwnCommand, AcceptGoesOn, RepayGoesOn
<1> QED
  BY <1>1, <1>2

LEMMA KeepsOverdue ==
    ASSUME Inv, Parties, Numbers, Deals, Next, NEW o \in overdue
    PROVE  OverdueKeeps(o)'
<1>. SUFFICES ASSUME o.uid \notin reused'
              PROVE  /\ loans'[o.uid].loanee = o.loan.loanee
                     /\ loans'[o.uid].status # "Offered"
  BY DEF OverdueKeeps
<1>1. o.uid \in Uids /\ loans[o.uid] # NoLoan /\ o.uid \notin reused
  BY HistoriesStep DEF Numbers, Deals
<1>2. loans[o.uid].loanee = o.loan.loanee /\ loans[o.uid].status # "Offered"
  BY <1>1 DEF Deals, OverdueKeeps
<1>3. RowMoves(o.uid)
  BY <1>1, RowMovesStep
<1> QED
  BY <1>1, <1>2, <1>3 DEF RowMoves, Follows, Signs

\* The money of a loan.
LEMMA HandedOverStep ==
    ASSUME Inv, Counters, Parties, Numbers, Deals, Next
    PROVE  HandedOver'
<1>. SUFFICES ASSUME NEW u \in Uids, u \notin reused'
              PROVE  handed'[u] <= lapses'[u] + (IF Concluded(u)' THEN 1 ELSE 0)
  BY DEF HandedOver
<1>1. /\ u \notin reused /\ handed[u] \in Nat /\ lapses[u] \in Nat
      /\ handed'[u] \in Nat /\ lapses'[u] \in Nat
  BY HistoriesStep DEF Deals, Histories
<1>2. handed[u] <= lapses[u] + (IF Concluded(u) THEN 1 ELSE 0)
  BY <1>1 DEF Deals, HandedOver
<1>3. RowMoves(u) /\ loans \in [Uids -> Loan \cup {NoLoan}] /\ pc \in [Players -> Calls]
  BY RowMovesStep DEF Inv, Types
<1>4. loans[u] # NoLoan /\ loans[u].status # "Offered"
        => loans'[u] # NoLoan /\ loans'[u].status # "Offered"
  BY <1>3, LoanIsARow DEF RowMoves, Follows, Signs
<1>5. ASSUME NEW p \in Players, AcceptSign(p), uid[p] = u
      PROVE  handed'[u] <= lapses'[u] + (IF Concluded(u)' THEN 1 ELSE 0)
  <2>1. pc[p] = "sign" /\ UNCHANGED <<handed, reused>>
    BY <1>5 DEF AcceptSign
  <2>2. loan[p] \in Loan
    BY <2>1 DEF Inv, Copied, Sound
  <2>3. CASE Failed
    <3>1. lapses'[u] = lapses[u] + 1
      BY <1>5, <2>3 DEF AcceptSign, OneMore, Deals, Histories
    <3> QED
      BY <1>1, <1>2, <2>1, <3>1
  <2>4. CASE ~Failed
    <3>1. lapses' = lapses
      BY <1>5, <2>4 DEF AcceptSign
    <3>2. Put(loans, uid[p], [loan[p] EXCEPT !.status = "Active"], loans')
      BY <1>5 DEF AcceptSign
    <3>3. faults \in Nat => loans' = [loans EXCEPT ![u] = [loan[p] EXCEPT !.status = "Active"]]
      BY <1>5, <2>4, <3>2 DEF Put, Set, Failed
    <3>4. faults \in Nat
      BY DEF Counters
    <3>5. loans'[u] = [loan[p] EXCEPT !.status = "Active"]
      BY <1>3, <3>3, <3>4
    <3>6. loans'[u] \in Loan /\ loans'[u].status = "Active"
      BY <2>2, <3>5 DEF Loan, Status
    <3>7. Concluded(u)'
      BY <3>6, LoanIsARow DEF Concluded
    <3> QED
      BY <1>1, <1>2, <2>1, <3>1, <3>7
  <2> QED
    BY <2>3, <2>4
<1>6. ASSUME NEW p \in Players, AcceptCredit(p), uid[p] = u
      PROVE  handed'[u] <= lapses'[u] + (IF Concluded(u)' THEN 1 ELSE 0)
  <2>1. pc[p] = "credit" /\ pc'[p] = "sign" /\ UNCHANGED <<uid, lapses>>
    BY <1>3, <1>6 DEF AcceptCredit, GoTo, copies
  <2>2. loans[u] = loan[p] /\ loan[p].status = "Offered"
    BY <1>1, <1>6, <2>1 DEF Deals, AcceptKeeps, AcceptCalls
  <2>3. ~Concluded(u)
    <3>1. \A q \in Players : ~(pc[q] = "sign" /\ uid[q] = u)
      BY <1>1, <1>6, <2>1, OneAccepts DEF AcceptCalls
    <3> QED
      BY <2>2, <3>1 DEF Concluded
  <2>4. Concluded(u)'
    BY <1>6, <2>1 DEF Concluded
  <2>5. handed'[u] = handed[u] \/ handed'[u] = handed[u] + 1
    BY HistoriesStep DEF Deals
  <2> QED
    BY <1>1, <1>2, <2>1, <2>3, <2>4, <2>5
<1>7. CASE /\ \A p \in Players : ~(AcceptSign(p) /\ uid[p] = u)
           /\ \A p \in Players : ~(AcceptCredit(p) /\ uid[p] = u)
  <2>1. handed'[u] = handed[u] /\ lapses'[u] = lapses[u]
    BY <1>7, HistoriesStep DEF Deals
  <2>2. ASSUME NEW p \in Players, pc[p] = "sign", uid[p] = u
        PROVE  pc'[p] = "sign" /\ uid'[p] = u
    <3>1. ASSUME NEW q \in Players, Command(q)
          PROVE  pc'[p] = "sign" /\ uid'[p] = u
      <4>1. CASE q # p
        BY <2>2, <3>1, <4>1, OthersStay, NumberOfCommand
      <4>2. CASE q = p
        <5>1. AcceptSign(p) \/ UNCHANGED <<pc, uid>>
          BY <2>2, <3>1, <4>2 DEF Command, OfferLoan, OfferUid, OfferPut, AcceptLoan,
             AcceptLoaner, AcceptLoanee, AcceptDebit, AcceptCredit, RepayLoan, RepayBorrower,
             RepayLender, RepayPay, RepayReceive, RepaySettle, ReadFails, Begin
        <5> QED
          BY <1>7, <2>2, <5>1
      <4> QED
        BY <4>1, <4>2
    <3>2. FindOverdue \/ MarkDefaulted \/ NextDay => UNCHANGED <<pc, uid>>
      BY DEF FindOverdue, MarkDefaulted, NextDay, copies
    <3> QED
      BY <2>2, <3>1, <3>2 DEF Next
  <2>3. Concluded(u) => Concluded(u)'
    BY <1>4, <2>2 DEF Concluded
  <2> QED
    BY <1>1, <1>2, <2>1, <2>3
<1> QED
  BY <1>5, <1>6, <1>7

LEMMA DealsStep == Inv /\ Counters /\ Parties /\ Numbers /\ Deals /\ [Next]_vars => Deals'
<1> SUFFICES ASSUME Inv, Counters, Parties, Numbers, Deals, [Next]_vars PROVE Deals'
  OBVIOUS
<1>1. CASE UNCHANGED vars
  BY <1>1 DEF vars, rows, copies, dealt, Deals, Histories, AcceptKeeps, RepayKeeps,
     OverdueKeeps, HandedOver, Concluded
<1>2. CASE Next
  <2>1. Histories' /\ reused \subseteq reused'
    BY <1>2, HistoriesStep DEF Deals
  <2>2. HandedOver'
    BY <1>2, HandedOverStep
  <2>3. ASSUME NEW q \in Players
        PROVE  AcceptKeeps(q)' /\ RepayKeeps(q)'
    <3>1. ASSUME NEW p \in Players, Command(p)
          PROVE  AcceptKeeps(q)' /\ RepayKeeps(q)'
      BY <3>1, KeepsOfCommand
    <3>2. FindOverdue \/ MarkDefaulted \/ NextDay => UNCHANGED <<pc, uid, loan>>
      BY DEF FindOverdue, MarkDefaulted, NextDay, copies
    <3>3. UNCHANGED <<pc, uid, loan>> => AcceptKeeps(q)' /\ RepayKeeps(q)'
      BY <1>2, AcceptGoesOn, RepayGoesOn DEF AcceptKeeps, RepayKeeps
    <3> QED
      BY <1>2, <3>1, <3>2, <3>3 DEF Next
  <2>4. ASSUME NEW o \in overdue'
        PROVE  OverdueKeeps(o)'
    <3>1. CASE o \in overdue
      BY <1>2, <3>1, KeepsOverdue
    <3>2. CASE o \notin overdue
      <4>1. FindOverdue
        BY <1>2, <3>2, OthersStay DEF Next, MarkDefaulted, NextDay
      <4>2. o.loan = loans'[o.uid] /\ o.loan.status = "Active"
        BY <4>1 DEF FindOverdue, rows
      <4> QED
        BY <4>2 DEF OverdueKeeps
    <3> QED
      BY <3>1, <3>2
  <2> QED
    BY <2>1, <2>2, <2>3, <2>4 DEF Deals
<1> QED
  BY <1>1, <1>2

IInv == /\ Inv /\ Counters /\ Order /\ Parties /\ Current
        /\ MoneyTally /\ Numbers /\ Deals

LEMMA LoansInvariant == Spec => []IInv
<1>1. Init => IInv
  BY InvInit, CountersInit, OrderInit, PartiesInit, CurrentInit, MoneyInit, NumbersInit,
     DealsInit DEF IInv
<1>2. IInv /\ [Next]_vars => IInv'
  BY InvStep, CountersStep, OrderStep, PartiesStep, CurrentStep, MoneyStep, NumbersStep,
     DealsStep DEF IInv
<1> QED
  BY <1>1, <1>2, PTL DEF Spec

\* The money of a loan is handed over once, and once more at most for each
\* accept whose last put failed, whatever overlaps and whatever else fails,
\* unless the number of the loan is given to another.
THEOREM LoansAreHandedOverOnce == Spec => []HandedOver
<1>1. IInv => HandedOver
  BY DEF IInv, Deals
<1> QED
  BY <1>1, LoansInvariant, PTL

\* Whatever overlaps, a loan that was accepted is never on offer again, unless
\* its number is given to another; with one command at a time it goes from
\* offered to active, and from there to paid or defaulted for good.
THEOREM LoansLiveInOrder == Spec => Lifecycle
<1>1. ASSUME IInv, Next, NEW u \in Uids, overlapped => u \notin reused', loans[u] # NoLoan
      PROVE  /\ loans'[u] # NoLoan
             /\ \/ loans'[u].status = loans[u].status
                \/ <<loans[u].status, loans'[u].status>> \in
                     {<<"Offered", "Active">>, <<"Active", "Paid">>,
                      <<"Active", "Defaulted">>}
                \/ /\ overlapped
                   /\ loans[u].status \in {"Paid", "Defaulted"}
                   /\ loans'[u].status # "Offered"
  <2>1. CASE ~overlapped
    <3>1. LifecycleOf(u)
      BY <1>1, <2>1, LifecycleStep DEF IInv
    <3> QED
      BY <1>1, <2>1, <3>1 DEF LifecycleOf
  <2>2. CASE overlapped
    <3>1. RowMoves(u) /\ u \notin reused' /\ loans[u] \in Loan
      BY <1>1, <2>2, RowMovesStep DEF IInv, Inv, Types
    <3>2. CASE Signs(u)
      <4>1. loans'[u] = [loans[u] EXCEPT !.status = "Active"] /\ loans[u].status = "Offered"
        BY <3>2 DEF Signs
      <4>2. loans'[u] \in Loan /\ loans'[u].status = "Active"
        BY <3>1, <4>1 DEF Loan, Status
      <4> QED
        BY <4>1, <4>2, LoanIsARow
    <3>3. CASE Follows(u)
      <4>1. /\ loans'[u] \in Loan
            /\ loans[u].status \in {"Active", "Paid", "Defaulted"}
            /\ loans'[u].status \in {"Active", "Paid", "Defaulted"}
        BY <3>1, <3>3 DEF Follows, Loan, Status
      <4> QED
        BY <2>2, <4>1, LoanIsARow
    <3>4. CASE loans'[u] = loans[u]
      BY <1>1, <3>4
    <3> QED
      BY <1>1, <3>1, <3>2, <3>3, <3>4 DEF RowMoves
  <2> QED
    BY <2>1, <2>2
<1>2. IInv /\ [Next]_vars => [\A u \in Uids :
        (overlapped => u \notin reused') /\ loans[u] # NoLoan =>
            /\ loans'[u] # NoLoan
            /\ \/ loans'[u].status = loans[u].status
               \/ <<loans[u].status, loans'[u].status>> \in
                    {<<"Offered", "Active">>, <<"Active", "Paid">>,
                     <<"Active", "Defaulted">>}
               \/ /\ overlapped
                  /\ loans[u].status \in {"Paid", "Defaulted"}
                  /\ loans'[u].status # "Offered"]_loans
  BY <1>1 DEF vars, rows
<1> QED
  BY <1>2, LoansInvariant, PTL DEF Lifecycle, Spec

\* Whatever overlaps or fails, the rows and the copies have their types, and
\* no loan gets a number out of range; with one command at a time, loans and
\* repayments only move money from a country to another.
THEOREM LoansConserveMoney == Spec => []MoneyConserved
<1>1. IInv => MoneyConserved
  <2> SUFFICES ASSUME IInv PROVE MoneyConserved
    OBVIOUS
  <2>1. TypeOK
    BY DEF TypeOK, IInv, Inv, Types, Calls, Counters, Order, Numbers, Deals, Histories
  <2>2. Resting /\ ~overlapped /\ faults = 0 => SumFunction(money) = AllMoney
    BY DEF IInv, Resting, MoneyTally, Quiet, Busy
  <2> QED
    BY <2>1, <2>2 DEF MoneyConserved, AllMoney
<1> QED
  BY <1>1, LoansInvariant, PTL
=============================================================================
