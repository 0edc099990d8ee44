----------------------------- MODULE PayMonth -----------------------------
(***************************************************************************)
(* The arithmetic of a month's pay (src/src/mongo/hr/payRules.ts) and the  *)
(* payslip made of it (myMonth.service.ts, myPayslip: kept as a reference  *)
(* and no longer served), walked month by month.                           *)
(*                                                                         *)
(* A loan's schedule is reckoned from its terms and the month alone, never *)
(* from what the payslips before took; `taken' keeps what they took, so    *)
(* that the two can be compared.                                           *)
(***************************************************************************)
EXTENDS Integers, FiniteSets, FiniteSetsExt, Sequences

CONSTANTS
  LastMonth,     \* bound: months are 1..LastMonth
  FebruaryMonth, \* the month whose key ends in 02
  Calendar,      \* days of a month
  Salary,        \* the salary heads: [basic, hra, other]
  Pt,            \* professional tax: [mode, manual]
  Ladder,        \* the state's slab: a sequence of [upTo, monthly, feb], upTo 0 when open; <<>> when uncoded
  Tds,           \* tax deducted at source, 0 when not applicable
  Loans,         \* the person's loans
  Terms          \* their terms: [principal, waived, instalment, opening, start, end], end 0 when open

VARIABLES
  month,     \* the month to be paid
  status,    \* a loan's status
  skips,     \* its skipMonths
  taken,     \* history: what payslips took for it
  disturbed  \* history: loans paused, closed, ended, skipped late or not covered by the pay

payVars == <<month, status, skips, taken, disturbed>>

MonthNos  == 1..LastMonth
Lesser(a, b) == IF a <= b THEN a ELSE b
AtLeast0(n)  == IF n < 0 THEN 0 ELSE n
Rounded(n, d) == (2 * n + d) \div (2 * d)   \* Math.round of n/d

-----------------------------------------------------------------------------
(* Earnings. *)

grossOf == Salary.basic + Salary.hra + Salary.other

\* Each head is pro-rated and rounded on its own, then added.
share(full, payable) ==
  IF Calendar = 0 \/ payable >= Calendar THEN full
  ELSE IF payable <= 0 THEN 0 ELSE Rounded(full * payable, Calendar)

earnedOf(payable) == share(Salary.basic, payable) + share(Salary.hra, payable) + share(Salary.other, payable)

\* The first band whose limit the gross does not pass.
ptBandOf(gross) == Ladder[Min({i \in DOMAIN Ladder : Ladder[i].upTo = 0 \/ gross <= Ladder[i].upTo})]

ptSchedule ==
  IF Pt.mode = "none" THEN [monthly |-> 0, feb |-> 0]
  ELSE IF Pt.mode = "auto" /\ Ladder # <<>>
       THEN [monthly |-> ptBandOf(grossOf).monthly, feb |-> ptBandOf(grossOf).feb]
       ELSE [monthly |-> AtLeast0(Pt.manual), feb |-> AtLeast0(Pt.manual)]

ptForMonth(m, earned) ==
  IF earned <= 0 THEN 0 ELSE IF m = FebruaryMonth THEN ptSchedule.feb ELSE ptSchedule.monthly

-----------------------------------------------------------------------------
(* Loans. *)

lent(l) == AtLeast0(Terms[l].principal - Terms[l].waived)

instalmentsBefore(l, m) ==
  IF m <= Terms[l].start THEN 0
  ELSE AtLeast0(m - Terms[l].start - Cardinality({k \in skips[l] : Terms[l].start <= k /\ k < m}))

openingOf(l, m) == lent(l) - Lesser(lent(l), Terms[l].opening + instalmentsBefore(l, m) * Terms[l].instalment)

\* Nothing is due of a loan that is not running this month.
NotDue(l, m) ==
  \/ status[l] \in {"closed", "paused"}
  \/ m < Terms[l].start
  \/ Terms[l].end # 0 /\ m > Terms[l].end
  \/ m \in skips[l]
  \/ openingOf(l, m) <= 0

dueOf(l, m)     == IF NotDue(l, m) THEN 0 ELSE Lesser(Terms[l].instalment, openingOf(l, m))
closingOf(l, m) == openingOf(l, m) - dueOf(l, m)

recoveryFor(m) == MapThenSumSet(LAMBDA l : dueOf(l, m), Loans)

\* What the loans get is what the taxes leave of the earnings.
Payslip(m, payable) ==
  LET earned    == IF grossOf > 0 THEN earnedOf(payable) ELSE 0
      pt        == ptForMonth(m, earned)
      tds       == IF earned > 0 THEN Tds ELSE 0
      recovered == Lesser(recoveryFor(m), AtLeast0(earned - pt - tds))
  IN [earned |-> earned, pt |-> pt, tds |-> tds, loans |-> recovered,
      short |-> recoveryFor(m) - recovered,
      net |-> earned - pt - tds - recovered, lop |-> AtLeast0(grossOf - earned)]

-----------------------------------------------------------------------------
PayTypeOK ==
  /\ month \in 1..(LastMonth + 1)
  /\ status \in [Loans -> {"active", "paused", "closed"}]
  /\ skips \in [Loans -> SUBSET MonthNos]
  /\ taken \in [Loans -> Nat]
  /\ disturbed \subseteq Loans

PayInit ==
  /\ month = 1
  /\ status = [l \in Loans |-> "active"]
  /\ skips = [l \in Loans |-> {}]
  /\ taken = [l \in Loans |-> 0]
  /\ disturbed = {}

\* A month is paid; when the pay does not cover every instalment, none is known to be
\* covered, and a loan that has a balance but is not asked for falls out of its schedule.
Paid(payable) ==
  LET slip == Payslip(month, payable)
      stands(l) == month >= Terms[l].start /\ openingOf(l, month) > 0 /\ month \notin skips[l]
  IN /\ month <= LastMonth
     /\ taken' = [l \in Loans |-> taken[l] + IF slip.short = 0 THEN dueOf(l, month) ELSE 0]
     /\ disturbed' = disturbed \cup {l \in Loans : stands(l) /\ (slip.short > 0 \/ NotDue(l, month))}
     /\ month' = month + 1
     /\ UNCHANGED <<status, skips>>

\* The ERP changes a loan's status, or lets a month pass without an instalment.
SetStatus(l, s) ==
  /\ status[l] # s /\ status' = [status EXCEPT ![l] = s]
  /\ UNCHANGED <<month, skips, taken, disturbed>>

SkipMonth(l, m) ==
  /\ m \in MonthNos \ skips[l] /\ m >= Terms[l].start
  /\ skips' = [skips EXCEPT ![l] = @ \cup {m}]
  /\ disturbed' = IF m < month THEN disturbed \cup {l} ELSE disturbed
  /\ UNCHANGED <<month, status, taken>>

PayNext ==
  \/ \E payable \in 0..Calendar : Paid(payable)
  \/ \E l \in Loans : \/ \E s \in {"active", "paused", "closed"} : SetStatus(l, s)
                      \/ \E m \in MonthNos : SkipMonth(l, m)

-----------------------------------------------------------------------------
\* The schedule, reckoned from the terms, agrees with what the payslips took, as long as
\* every month since the start was asked for and covered: nothing is recovered twice and
\* nothing is forgotten (payRules.ts:162).
ScheduleFollowsPayslipsUnlessDisturbed ==
  \A l \in Loans \ disturbed :
    month \in MonthNos =>
      openingOf(l, month) = AtLeast0(lent(l) - Terms[l].opening - taken[l])

\* A loan is never recovered beyond what was lent, whatever happened to its months.
NeverOverRecovered ==
  \A l \in Loans \ disturbed : taken[l] <= AtLeast0(lent(l) - Terms[l].opening)

\* The slip foots: a month earns no more than the gross, what is not earned is loss of pay,
\* and a loan never takes what the taxes need (myMonth.service.ts:181).
SlipFoots ==
  month \in MonthNos =>
    \A payable \in 0..Calendar :
      LET s == Payslip(month, payable)
      IN /\ s.earned <= grossOf /\ s.earned + s.lop = grossOf
         /\ s.loans > 0 => s.net >= 0
         /\ s.short > 0 => s.net <= 0
         /\ payable < Calendar => s.earned <= earnedOf(payable + 1)
=============================================================================
