------------------------ MODULE LoginThrottleProofs ------------------------
(***************************************************************************)
(* The bound on the wrong passwords an address gets looked at, for any     *)
(* number of concurrent logins, accounts, addresses and any thresholds.    *)
(* The invariant behind it counts a login under way as a guess already     *)
(* made: a login goes on only below the threshold, where the guesses are   *)
(* at most the counter, and all the other handlers may have done so too.   *)
(***************************************************************************)
EXTENDS LoginThrottle, FiniteSetTheorems, TLAPS

\* The logins under way from an address.
Verifying(i) == {h \in Handlers : login[h].at = "verifying" /\ login[h].ip = i}

GuessesCounted == \A i \in Ips : guesses[i] <= Active(ip[i])

GuessesAndLoginsBounded ==
  \A i \in Ips :
    guesses[i] + Cardinality(Verifying(i)) <= IpThreshold - 1 + Cardinality(Handlers)

ThrottleInv == TypeOK /\ GuessesCounted /\ GuessesAndLoginsBounded

\* Who is under way is a finite set, no larger than that of the handlers.
LEMMA VerifyingFinite ==
  ASSUME NEW i
  PROVE  /\ IsFiniteSet(Verifying(i))
         /\ Cardinality(Verifying(i)) \in Nat
         /\ Cardinality(Handlers) \in Nat
         /\ Cardinality(Verifying(i)) <= Cardinality(Handlers)
<1>1. Verifying(i) \subseteq Handlers
  BY DEF Verifying
<1>2. IsFiniteSet(Handlers)
  BY ThrottleAssumption
<1> QED
  BY <1>1, <1>2, FS_Subset, FS_CardinalityType

\* A counter's active failures are a number, and one more failure makes it count.
LEMMA ActiveCounters ==
  ASSUME NEW c \in [count : Nat, age : Nat]
  PROVE  /\ Active(c) \in Nat
         /\ Failed(c) \in [count : Nat, age : Nat]
         /\ Active(Failed(c)) = Active(c) + 1
         /\ Aged(c) \in [count : Nat, age : Nat]
         /\ Active(Aged(c)) = Active(c) \/ Active(Aged(c)) = 0
<1>1. Window \in Nat
  BY ThrottleAssumption
<1>2. Active(c) \in Nat /\ Failed(c) = [count |-> Active(c) + 1, age |-> 0]
  BY DEF Active, Failed
<1>3. Aged(c) = [count |-> c.count, age |-> IF c.age > Window THEN c.age ELSE c.age + 1]
  BY DEF Aged
<1> QED
  BY <1>1, <1>2, <1>3 DEF Active

LEMMA NoCounterActive == NoCounter \in [count : Nat, age : Nat] /\ Active(NoCounter) = 0
BY ThrottleAssumption DEF NoCounter, Active

\* No step, a failure or a passing of time included, breaks a counter's type.
LEMMA ThrottleTypeStep == TypeOK /\ [Next]_vars => TypeOK'
<1> SUFFICES ASSUME TypeOK, [Next]_vars PROVE TypeOK'
  OBVIOUS
<1>1. ASSUME NEW a \in Accounts, NEW i \in Ips, RecordFailure(a, i)
      PROVE  /\ account' \in [Accounts -> [count : Nat, age : Nat]]
             /\ ip' \in [Ips -> [count : Nat, age : Nat]]
  BY <1>1, ActiveCounters DEF TypeOK, RecordFailure
<1>2. ASSUME NEW h \in Handlers, login[h].at = "verifying"
      PROVE  login[h].account \in Accounts /\ login[h].ip \in Ips
  BY <1>2 DEF TypeOK, Idle
<1>3. ASSUME NEW h \in Handlers, NEW a \in Accounts, NEW i \in Ips, RejectIp(h, a, i)
      PROVE  TypeOK'
  BY <1>1, <1>3 DEF RejectIp, TypeOK
<1>4. ASSUME NEW h \in Handlers, NEW a \in Accounts, NEW i \in Ips, Begin(h, a, i)
      PROVE  TypeOK'
  <2>1. AccountThrottled(a) \in BOOLEAN
    BY DEF AccountThrottled
  <2> QED
    BY <1>4, <2>1 DEF Begin, TypeOK
<1>5. ASSUME NEW h \in Handlers, Wrong(h) PROVE TypeOK'
  BY <1>1, <1>2, <1>5 DEF Wrong, TypeOK
<1>6. ASSUME NEW h \in Handlers, Right(h) PROVE TypeOK'
  BY <1>2, <1>6, NoCounterActive DEF Right, RecordSuccess, TypeOK
<1>7. ASSUME NEW h \in Handlers, Abort(h) PROVE TypeOK'
  BY <1>7 DEF Abort, TypeOK
<1>8. CASE Tick
  <2>1. account' \in [Accounts -> [count : Nat, age : Nat]] /\ ip' \in [Ips -> [count : Nat, age : Nat]]
    BY <1>8, ActiveCounters DEF Tick, TypeOK
  <2>2. guesses' \in [Ips -> Nat] /\ login' = login
    BY <1>8 DEF Tick, TypeOK
  <2> QED
    BY <2>1, <2>2 DEF TypeOK
<1>9. CASE Restart
  BY <1>9, NoCounterActive DEF Restart, TypeOK
<1>10. CASE UNCHANGED vars
  BY <1>10 DEF vars, TypeOK
<1> QED
  BY <1>3, <1>4, <1>5, <1>6, <1>7, <1>8, <1>9, <1>10 DEF Next

\* The types hold, whatever the constants.
THEOREM ThrottleTypeCorrect == Spec => []TypeOK
<1>1. Init => TypeOK
  BY NoCounterActive DEF Init, TypeOK, Idle
<1> QED
  BY <1>1, ThrottleTypeStep, PTL DEF Spec

\* A handler that is done leaves the logins under way of its address, one fewer.
LEMMA OneFewerVerifying ==
  ASSUME NEW h \in Handlers, login[h].at = "verifying", TypeOK,
         login' = [login EXCEPT ![h] = Idle], NEW i \in Ips
  PROVE  /\ Cardinality(Verifying(i))' \in Nat
         /\ Cardinality(Verifying(i))' <= Cardinality(Verifying(i))
         /\ login[h].ip = i => Cardinality(Verifying(i))' = Cardinality(Verifying(i)) - 1
<1>1. Verifying(i)' = Verifying(i) \ {h}
  BY DEF Verifying, TypeOK, Idle
<1>2. login[h].ip = i => h \in Verifying(i)
  BY DEF Verifying
<1> QED
  BY <1>1, <1>2, VerifyingFinite, FS_RemoveElement, FS_Subset, FS_CardinalityType

\* A wrong password looked at was counted as a login under way before, so the
\* sum of the two never exceeds the bound.
THEOREM ThrottleInvariant == Spec => []ThrottleInv
<1>1. Init => ThrottleInv
  <2> SUFFICES ASSUME Init PROVE ThrottleInv
    OBVIOUS
  <2>1. TypeOK /\ GuessesCounted
    BY NoCounterActive DEF Init, TypeOK, Idle, GuessesCounted
  <2>2. ASSUME NEW i \in Ips PROVE Cardinality(Verifying(i)) = 0
    <3>1. Verifying(i) = {}
      BY DEF Init, Verifying, Idle
    <3> QED
      BY <3>1, FS_EmptySet
  <2>3. GuessesAndLoginsBounded
    BY <2>2, VerifyingFinite, ThrottleAssumption DEF Init, GuessesAndLoginsBounded
  <2> QED
    BY <2>1, <2>3 DEF ThrottleInv
<1>2. TypeOK /\ [Next]_vars => TypeOK'
  BY ThrottleTypeStep
<1>3. ThrottleInv /\ TypeOK' /\ [Next]_vars => GuessesCounted' /\ GuessesAndLoginsBounded'
  <2> SUFFICES ASSUME ThrottleInv, TypeOK', [Next]_vars
               PROVE  GuessesCounted' /\ GuessesAndLoginsBounded'
    OBVIOUS
  <2> USE DEF ThrottleInv
  <2>0. \A i \in Ips : /\ guesses[i] \in Nat /\ guesses'[i] \in Nat
                       /\ ip[i] \in [count : Nat, age : Nat]
                       /\ Active(ip[i]) \in Nat
                       /\ Cardinality(Verifying(i)) \in Nat /\ Cardinality(Handlers) \in Nat
                       /\ Cardinality(Verifying(i)) <= Cardinality(Handlers)
                       /\ IpThreshold \in Nat \ {0}
    BY ActiveCounters, VerifyingFinite, ThrottleAssumption DEF TypeOK
  <2>1. ASSUME NEW a, NEW j \in Ips, RecordFailure(a, j)
        PROVE  \A i \in Ips : Active(ip'[i]) = IF i = j THEN Active(ip[i]) + 1 ELSE Active(ip[i])
    BY <2>0, <2>1, ActiveCounters DEF RecordFailure, TypeOK
  <2>2. ASSUME login' = login PROVE \A i \in Ips : Verifying(i)' = Verifying(i)
    BY <2>2 DEF Verifying
  <2>3. ASSUME NEW h \in Handlers, NEW a \in Accounts, NEW j \in Ips, RejectIp(h, a, j)
        PROVE  GuessesCounted' /\ GuessesAndLoginsBounded'
    BY <2>0, <2>1, <2>2, <2>3 DEF RejectIp, GuessesCounted, GuessesAndLoginsBounded
  <2>4. ASSUME NEW h \in Handlers, NEW a \in Accounts, NEW j \in Ips, Begin(h, a, j)
        PROVE  GuessesCounted' /\ GuessesAndLoginsBounded'
    <3>1. GuessesCounted' /\ guesses' = guesses
      BY <2>4 DEF Begin, GuessesCounted
    <3>2. \A i \in Ips \ {j} : Verifying(i)' = Verifying(i)
      BY <2>4 DEF Begin, Verifying, TypeOK, Idle
    <3>3. guesses[j] <= IpThreshold - 1
      BY <2>0, <2>4 DEF Begin, IpThrottled, GuessesCounted
    <3>4. Cardinality(Verifying(j)') \in Nat /\ Cardinality(Verifying(j)') <= Cardinality(Handlers)
      <4>1. Verifying(j)' \subseteq Handlers
        BY DEF Verifying
      <4> QED
        BY <4>1, FS_Subset, FS_CardinalityType, ThrottleAssumption
    <3> QED
      BY <2>0, <3>1, <3>2, <3>3, <3>4 DEF GuessesAndLoginsBounded
  <2>5. ASSUME NEW h \in Handlers, Wrong(h)
        PROVE  GuessesCounted' /\ GuessesAndLoginsBounded'
    <3> DEFINE j == login[h].ip
    <3>1. j \in Ips
      BY <2>5 DEF Wrong, TypeOK, Idle
    <3>2. RecordFailure(login[h].account, j) /\ guesses' = [guesses EXCEPT ![j] = @ + 1]
          /\ login[h].at = "verifying" /\ login' = [login EXCEPT ![h] = Idle]
      BY <2>5 DEF Wrong
    <3>3. \A i \in Ips : guesses'[i] = IF i = j THEN guesses[i] + 1 ELSE guesses[i]
      BY <3>2 DEF TypeOK
    <3>4. \A i \in Ips : Active(ip'[i]) = IF i = j THEN Active(ip[i]) + 1 ELSE Active(ip[i])
      BY <2>1, <3>1, <3>2
    <3>5. GuessesCounted'
      BY <2>0, <3>3, <3>4 DEF GuessesCounted
    <3>6. \A i \in Ips : /\ Cardinality(Verifying(i))' \in Nat
                         /\ Cardinality(Verifying(i))' <= Cardinality(Verifying(i))
                         /\ i = j => Cardinality(Verifying(i))' = Cardinality(Verifying(i)) - 1
      BY <3>2, OneFewerVerifying
    <3>7. GuessesAndLoginsBounded'
      BY <2>0, <3>3, <3>6 DEF GuessesAndLoginsBounded
    <3> QED
      BY <3>5, <3>7
  <2>6. ASSUME NEW h \in Handlers, Right(h) \/ Abort(h)
        PROVE  GuessesCounted' /\ GuessesAndLoginsBounded'
    <3>1. /\ login[h].at = "verifying" /\ login' = [login EXCEPT ![h] = Idle]
          /\ ip' = ip /\ guesses' = guesses
      BY <2>6 DEF Right, RecordSuccess, Abort
    <3>2. \A i \in Ips : /\ Cardinality(Verifying(i))' \in Nat
                         /\ Cardinality(Verifying(i))' <= Cardinality(Verifying(i))
      BY <3>1, OneFewerVerifying
    <3> QED
      BY <2>0, <3>1, <3>2 DEF GuessesCounted, GuessesAndLoginsBounded
  <2>7. CASE Tick
    <3>1. \A i \in Ips : ip'[i] = Aged(ip[i]) /\ guesses'[i] = IF Active(ip'[i]) = 0 THEN 0 ELSE guesses[i]
      BY <2>7 DEF Tick
    <3>2. \A i \in Ips : Active(ip'[i]) = Active(ip[i]) \/ Active(ip'[i]) = 0
      BY <2>0, <3>1, ActiveCounters
    <3>3. \A i \in Ips : Verifying(i)' = Verifying(i)
      BY <2>2, <2>7 DEF Tick
    <3>4. \A i \in Ips : guesses'[i] <= Active(ip'[i]) /\ guesses'[i] <= guesses[i]
      BY <2>0, <3>1, <3>2 DEF GuessesCounted
    <3> QED
      BY <2>0, <3>3, <3>4 DEF GuessesCounted, GuessesAndLoginsBounded
  <2>8. CASE Restart
    <3>1. \A i \in Ips : guesses'[i] = 0 /\ Active(ip'[i]) = 0
      BY <2>8, NoCounterActive DEF Restart
    <3>2. \A i \in Ips : Cardinality(Verifying(i)') = 0
      <4>1. \A i \in Ips : Verifying(i)' = {}
        BY <2>8 DEF Restart, Verifying, Idle
      <4> QED
        BY <4>1, FS_EmptySet
    <3> QED
      BY <2>0, <3>1, <3>2 DEF GuessesCounted, GuessesAndLoginsBounded
  <2>9. CASE UNCHANGED vars
    BY <2>2, <2>9 DEF vars, GuessesCounted, GuessesAndLoginsBounded
  <2> QED
    BY <2>3, <2>4, <2>5, <2>6, <2>7, <2>8, <2>9 DEF Next
<1>4. ThrottleInv /\ [Next]_vars => ThrottleInv'
  BY <1>2, <1>3 DEF ThrottleInv
<1> QED
  BY <1>1, <1>4, PTL DEF Spec

\* However many logins run at once, on whichever accounts, an address gets no
\* more wrong passwords looked at than its threshold and one for each other
\* handler, while its failures count.
THEOREM GuessesStayBounded == Spec => []GuessesBounded
<1>1. ThrottleInv => GuessesBounded
  BY VerifyingFinite, ThrottleAssumption
    DEF ThrottleInv, TypeOK, GuessesAndLoginsBounded, GuessesBounded
<1> QED
  BY <1>1, ThrottleInvariant, PTL

-----------------------------------------------------------------------------
(* Refusals *)

\* A delay is at most the maximum, grows with the failures, and is there from
\* the first failure past the threshold.
LEMMA Delays ==
  ASSUME NEW threshold \in Nat \ {0}, NEW count \in Nat
  PROVE  /\ DelayFor(count, threshold) \in 0 .. MaxDelay
         /\ count > threshold => DelayFor(count, threshold) > 0
         /\ DelayFor(count, threshold) <= DelayFor(count + 1, threshold)
<1> DEFINE Exponent(c) == IF c - threshold - 1 < 30 THEN c - threshold - 1 ELSE 30
           Capped(power) == IF power < MaxDelay THEN power ELSE MaxDelay
<1>1. MaxDelay \in Nat \ {0}
  BY ThrottleAssumption
<1>2. \A c \in Nat : DelayFor(c, threshold) = IF c <= threshold THEN 0 ELSE Capped(2 ^ Exponent(c))
  BY DEF DelayFor
<1>3. \A c \in Nat : c > threshold =>
        /\ Exponent(c) \in 0 .. 30 /\ Exponent(c + 1) \in 0 .. 30
        /\ Exponent(c) \in 0 .. Exponent(c + 1)
  OBVIOUS
<1> HIDE DEF Exponent
<1>4. \A c \in Nat : c > threshold =>
        /\ 2 ^ Exponent(c) \in Nat \ {0} /\ 2 ^ Exponent(c + 1) \in Nat \ {0}
        /\ 2 ^ Exponent(c) <= 2 ^ Exponent(c + 1)
  BY <1>3, PowersAssumption
<1> QED
  BY <1>1, <1>2, <1>4

\* The delay after a failure is one of the two delays, and no shorter than
\* either would have been without it.
LEMMA DelaysAfter ==
  ASSUME TypeOK, NEW a \in Accounts, NEW i \in Ips
  PROVE  /\ DelayAfter(a, i) \in 0 .. MaxDelay
         /\ DelayFor(Active(account[a]), AccountThreshold) <= DelayAfter(a, i)
         /\ DelayFor(Active(ip[i]), IpThreshold) <= DelayAfter(a, i)
         /\ AccountThrottled(a) \/ IpThrottled(i) => DelayAfter(a, i) > 0
<1>1. /\ Active(account[a]) \in Nat /\ Failed(account[a]).count = Active(account[a]) + 1
      /\ Active(ip[i]) \in Nat /\ Failed(ip[i]).count = Active(ip[i]) + 1
  BY ActiveCounters DEF TypeOK, Failed
<1>2. AccountThreshold \in Nat \ {0} /\ IpThreshold \in Nat \ {0} /\ MaxDelay \in Nat
  BY ThrottleAssumption
<1> DEFINE x == DelayFor(Active(account[a]) + 1, AccountThreshold)
           y == DelayFor(Active(ip[i]) + 1, IpThreshold)
<1>3. /\ x \in 0 .. MaxDelay /\ DelayFor(Active(account[a]), AccountThreshold) <= x
      /\ DelayFor(Active(account[a]), AccountThreshold) \in 0 .. MaxDelay
      /\ AccountThrottled(a) => x > 0
  <2>1. /\ Active(account[a]) + 1 \in Nat /\ Active(account[a]) + 1 > AccountThreshold <=> Active(account[a]) >= AccountThreshold
    BY <1>1, <1>2
  <2> DEFINE n == Active(account[a])
  <2>2. n \in Nat /\ n + 1 \in Nat
    BY <1>1
  <2> HIDE DEF n
  <2>3. /\ DelayFor(n, AccountThreshold) \in 0 .. MaxDelay /\ DelayFor(n + 1, AccountThreshold) \in 0 .. MaxDelay
        /\ DelayFor(n, AccountThreshold) <= DelayFor(n + 1, AccountThreshold)
        /\ n + 1 > AccountThreshold => DelayFor(n + 1, AccountThreshold) > 0
    BY <1>2, <2>2, Delays
  <2> QED
    BY <2>1, <2>3 DEF n, AccountThrottled
<1>4. /\ y \in 0 .. MaxDelay /\ DelayFor(Active(ip[i]), IpThreshold) <= y
      /\ DelayFor(Active(ip[i]), IpThreshold) \in 0 .. MaxDelay
      /\ IpThrottled(i) => y > 0
  <2>1. /\ Active(ip[i]) + 1 \in Nat /\ Active(ip[i]) + 1 > IpThreshold <=> Active(ip[i]) >= IpThreshold
    BY <1>1, <1>2
  <2> DEFINE n == Active(ip[i])
  <2>2. n \in Nat /\ n + 1 \in Nat
    BY <1>1
  <2> HIDE DEF n
  <2>3. /\ DelayFor(n, IpThreshold) \in 0 .. MaxDelay /\ DelayFor(n + 1, IpThreshold) \in 0 .. MaxDelay
        /\ DelayFor(n, IpThreshold) <= DelayFor(n + 1, IpThreshold)
        /\ n + 1 > IpThreshold => DelayFor(n + 1, IpThreshold) > 0
    BY <1>2, <2>2, Delays
  <2> QED
    BY <2>1, <2>3 DEF n, IpThrottled
<1>5. DelayAfter(a, i) = IF x < y THEN y ELSE x
  BY <1>1 DEF DelayAfter
<1> HIDE DEF x, y
<1> QED
  BY <1>2, <1>3, <1>4, <1>5

\* For all thresholds, a refusal names a delay that is positive - unless the
\* account's failures were forgotten while the password was looked at - no
\* shorter than that of fewer failures, and no longer than the maximum.
THEOREM RefusalsAlwaysSayWhen == Spec => RefusalsSayWhen
<1> DEFINE Wait(a, i, t) ==
             /\ \A w \in {DelayFor(Active(account[a]), AccountThreshold),
                          DelayFor(Active(ip[i]), IpThreshold)} : w <= t
             /\ t <= MaxDelay
             /\ \/ t > 0
                \/ ~AccountThrottled(a) /\ \E h \in Handlers : login[h].at = "verifying"
<1>1. ASSUME TypeOK, Next, answer' # answer, answer'.status = 429
      PROVE  Wait(answer'.account, answer'.ip, answer'.retryAfter)
  <2>1. ASSUME NEW h \in Handlers, NEW a \in Accounts, NEW i \in Ips, RejectIp(h, a, i)
        PROVE  Wait(answer'.account, answer'.ip, answer'.retryAfter)
    <3>1. answer'.account = a /\ answer'.ip = i /\ answer'.retryAfter = DelayAfter(a, i)
      BY <2>1 DEF RejectIp
    <3> QED
      BY <1>1, <2>1, <3>1, DelaysAfter, ThrottleAssumption DEF RejectIp
  <2>2. ASSUME NEW h \in Handlers, Wrong(h)
        PROVE  Wait(answer'.account, answer'.ip, answer'.retryAfter)
    <3> DEFINE a == login[h].account
               i == login[h].ip
    <3>1. a \in Accounts /\ i \in Ips /\ login[h].at = "verifying"
      BY <1>1, <2>2 DEF Wrong, TypeOK, Idle
    <3>2. answer'.account = a /\ answer'.ip = i /\ answer'.retryAfter = DelayAfter(a, i)
      BY <1>1, <2>2 DEF Wrong
    <3> HIDE DEF a, i
    <3> QED
      BY <1>1, <3>1, <3>2, DelaysAfter, ThrottleAssumption
  <2>3. \/ \E h \in Handlers :
             (\E a \in Accounts, i \in Ips : RejectIp(h, a, i)) \/ Wrong(h)
        \/ answer' = answer \/ answer'.status = 200
    BY <1>1 DEF Next, Begin, Right, Abort, Tick, Restart
  <2> QED
    BY <1>1, <2>1, <2>2, <2>3
<1>2. TypeOK /\ [Next]_vars =>
        [(answer' # answer /\ answer'.status = 429) =>
           Wait(answer'.account, answer'.ip, answer'.retryAfter)]_vars
  BY <1>1
<1> QED
  BY <1>2, ThrottleTypeCorrect, PTL DEF Spec, RefusalsSayWhen
=============================================================================
