-------------------------- MODULE IdleWindowsProofs --------------------------
(***************************************************************************)
(* What the Windows idle detector answers, for every width of the tick     *)
(* counters and however long the machine has been up.                      *)
(***************************************************************************)
EXTENDS IdleWindows, TLAPS

\* A remainder is the number minus a multiple of the divisor.
LEMMA Division ==
    ASSUME NEW a \in Int, NEW w \in Int, w > 0
    PROVE  /\ (a % w) \in 0 .. (w - 1)
           /\ (a \div w) \in Int
           /\ a = w * (a \div w) + (a % w)
  BY SMT

LEMMA WrapDivides ==
    ASSUME NEW a \in Int
    PROVE  /\ (a % Wrap) \in 0 .. (Wrap - 1)
           /\ (a \div Wrap) \in Int
           /\ a = Wrap * (a \div Wrap) + (a % Wrap)
<1>1. Wrap \in Int /\ Wrap > 0
  BY IdleWindowsAssumption
<1> QED BY <1>1, Division

\* Below the wrap, only the number itself is a multiple of it away.
LEMMA WrapUnique ==
    ASSUME NEW a \in Int, NEW q \in Int, NEW r \in 0 .. Wrap - 1,
           a = Wrap * q + r
    PROVE  a % Wrap = r
<1> DEFINE k == a \div Wrap  s == a % Wrap
<1>1. /\ s \in 0 .. Wrap - 1 /\ k \in Int /\ a = Wrap * k + s
  BY WrapDivides
<1> HIDE DEF k, s
<1>2. Wrap * (k - q) = r - s
  BY <1>1, IdleWindowsAssumption, SMT
<1>3. k - q \in Int /\ r - s < Wrap /\ r - s > -Wrap
  BY <1>1, IdleWindowsAssumption
<1>4. ~ k - q >= 1
  <2> SUFFICES ASSUME k - q >= 1 PROVE FALSE
    OBVIOUS
  <2>1. Wrap * (k - q) >= Wrap
    BY <1>3, IdleWindowsAssumption, SMT
  <2> QED BY <2>1, <1>1, <1>2, <1>3, IdleWindowsAssumption
<1>5. ~ k - q <= -1
  <2> SUFFICES ASSUME k - q <= -1 PROVE FALSE
    OBVIOUS
  <2>1. Wrap * (k - q) <= -Wrap
    BY <1>3, IdleWindowsAssumption, SMT
  <2> QED BY <2>1, <1>1, <1>2, <1>3, IdleWindowsAssumption
<1>6. k = q
  BY <1>1, <1>3, <1>4, <1>5
<1>7. s = r
  BY <1>1, <1>6, IdleWindowsAssumption
<1> QED BY <1>7 DEF s

\* The difference of two wrapped counters is the wrapped difference: one wrap
\* between the two readings does no harm (idle_windows.go:36-38).
LEMMA MinusOfWrapped ==
    ASSUME NEW a \in Int, NEW b \in Int
    PROVE  Minus(a % Wrap, b % Wrap) = (a - b) % Wrap
<1> DEFINE ka == a \div Wrap  sa == a % Wrap  kb == b \div Wrap  sb == b % Wrap
           d == sa - sb  kd == d \div Wrap  sd == d % Wrap
<1>1. /\ sa \in Int /\ ka \in Int /\ a = Wrap * ka + sa
      /\ sb \in Int /\ kb \in Int /\ b = Wrap * kb + sb
  BY WrapDivides, IdleWindowsAssumption
<1>2. d \in Int
  BY <1>1
<1>3. sd \in 0 .. Wrap - 1 /\ kd \in Int /\ d = Wrap * kd + sd
  BY <1>2, WrapDivides
<1>4. Minus(sa, sb) = sd
  BY DEF Minus
<1> HIDE DEF ka, sa, kb, sb, kd, sd
<1>5. a - b = Wrap * (ka - kb + kd) + sd
  BY <1>1, <1>3, IdleWindowsAssumption, SMT
<1>6. (a - b) % Wrap = sd
  BY <1>1, <1>3, <1>5, WrapUnique
<1> QED BY <1>4, <1>6 DEF sa, sb

\* A wrapped difference is never more than the difference, and is the
\* difference below the wrap.
LEMMA WrappedSpan ==
    ASSUME NEW n \in Nat
    PROVE  /\ n % Wrap \in 0 .. n
           /\ n < Wrap => n % Wrap = n
<1>1. n < Wrap => n % Wrap = n
  <2> SUFFICES ASSUME n < Wrap PROVE n % Wrap = n
    OBVIOUS
  <2>1. n \in 0 .. Wrap - 1 /\ n = Wrap * 0 + n
    BY IdleWindowsAssumption
  <2> QED BY <2>1, WrapUnique
<1>2. n % Wrap \in 0 .. Wrap - 1
  BY WrapDivides
<1> QED BY <1>1, <1>2, IdleWindowsAssumption

-----------------------------------------------------------------------------
\* A call remembers when it began and the last input before it; what it has
\* read of the last input is that one or a later one.
Calls == [from : Nat, to : Nat, last : Nat, ok : BOOLEAN]

IInv ==
    /\ now \in Nat /\ lastInput \in Nat /\ lastInput <= now
    /\ pc \in {"rest", "first", "second", "answer"}
    /\ call \in Calls
    /\ call.last <= lastInput /\ call.last <= call.from
    /\ call.from <= call.to /\ call.to <= now
    /\ pc \in {"first", "second"} => ~ call.ok
    /\ pc = "second" => \E l \in call.last .. lastInput : dwTime = l % Wrap
    /\ NeverOverstated
    /\ AbsenceNoticed

LEMMA IdleInit == Init => IInv
  BY DEF Init, IInv, Calls, NeverOverstated, AbsenceNoticed

\* The last step of a call: the tick count, after the last input.
LEMMA AnswerIsFair ==
    ASSUME IInv, GetTickCount
    PROVE  NeverOverstated' /\ AbsenceNoticed'
<1>1. PICK l \in call.last .. lastInput : dwTime = l % Wrap
  BY DEF IInv, GetTickCount
<1>2. l \in Nat /\ now \in Nat /\ call.last \in Nat /\ now - l \in Nat
  BY <1>1 DEF IInv, Calls
<1>3. answer' = (now - l) % Wrap
  <2>1. answer' = Minus(now % Wrap, l % Wrap)
    BY <1>1 DEF GetTickCount
  <2> QED BY <2>1, <1>2, MinusOfWrapped
<1>4. /\ answer' \in 0 .. now - l
      /\ now - l < Wrap => answer' = now - l
  BY <1>2, <1>3, WrappedSpan
<1>5. /\ call'.to = now /\ call'.last = call.last /\ call'.from = call.from
      /\ lastInput' = lastInput
  BY DEF GetTickCount, IInv, Calls
<1>6. answer' \in 0 .. call'.to - call'.last
  BY <1>1, <1>2, <1>4, <1>5
<1>7. lastInput' = call'.last /\ call'.to - call'.last < Wrap
        => answer' >= call'.from - call'.last
  BY <1>1, <1>2, <1>4, <1>5 DEF IInv, Calls
<1> QED BY <1>6, <1>7 DEF NeverOverstated, AbsenceNoticed

LEMMA IdleStep == IInv /\ [Next]_vars => IInv'
<1> SUFFICES ASSUME IInv, [Next]_vars PROVE IInv'
  OBVIOUS
<1>1. CASE Time
  BY <1>1 DEF Time, IInv, Calls, NeverOverstated, AbsenceNoticed
<1>2. CASE UserInput
  <2>1. lastInput' \in Nat /\ lastInput <= lastInput' /\ lastInput' = now'
    BY <1>2 DEF UserInput, IInv
  <2>2. pc' = "second" => \E l \in call'.last .. lastInput' : dwTime' = l % Wrap
    BY <1>2, <2>1 DEF UserInput, IInv, Calls
  <2>3. NeverOverstated'
    BY <1>2 DEF UserInput, IInv, NeverOverstated
  <2>4. AbsenceNoticed'
    BY <1>2, <2>1 DEF UserInput, IInv, Calls, AbsenceNoticed
  <2> QED BY <1>2, <2>1, <2>2, <2>3, <2>4 DEF UserInput, IInv, Calls
<1>3. CASE Begin
  BY <1>3 DEF Begin, IInv, Calls, NeverOverstated, AbsenceNoticed
<1>4. CASE InputFails
  BY <1>4 DEF InputFails, IInv, Calls, NeverOverstated, AbsenceNoticed
<1>5. CASE GetLastInputInfo
  <2>1. lastInput \in call.last .. lastInput /\ dwTime' = lastInput % Wrap
    BY <1>5 DEF GetLastInputInfo, IInv, Calls
  <2>2. /\ pc = "first" /\ pc' = "second"
        /\ lastInput' = lastInput /\ call' = call /\ now' = now
    BY <1>5 DEF GetLastInputInfo
  <2> QED BY <2>1, <2>2 DEF IInv, NeverOverstated, AbsenceNoticed
<1>6. CASE GetTickCount
  <2>1. NeverOverstated' /\ AbsenceNoticed'
    BY <1>6, AnswerIsFair
  <2>2. /\ pc' = "answer" /\ now' = now /\ lastInput' = lastInput
        /\ call' \in Calls /\ call'.to = now
        /\ call'.from = call.from /\ call'.last = call.last
    BY <1>6 DEF GetTickCount, IInv, Calls
  <2> QED BY <2>1, <2>2 DEF IInv, Calls
<1>7. CASE UNCHANGED vars
  BY <1>7 DEF vars, IInv, NeverOverstated, AbsenceNoticed
<1> QED
  BY <1>1, <1>2, <1>3, <1>4, <1>5, <1>6, <1>7 DEF Next, IdleDuration

\* The detector never reports an absence longer than the real one, whatever
\* the width of its counters and wherever they wrap (idle_windows.go:31-38).
THEOREM AbsenceNeverOverstated == Spec => []NeverOverstated
<1>1. IInv => NeverOverstated
  BY DEF IInv
<1> QED BY <1>1, IdleInit, IdleStep, PTL DEF Spec

\* An absence shorter than the wrap is never missed (idle_windows.go:36-38).
THEOREM ShortAbsenceNoticed == Spec => []AbsenceNoticed
<1>1. IInv => AbsenceNoticed
  BY DEF IInv
<1> QED BY <1>1, IdleInit, IdleStep, PTL DEF Spec
=============================================================================
