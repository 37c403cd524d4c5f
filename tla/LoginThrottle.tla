--------------------------- MODULE LoginThrottle ---------------------------
(***************************************************************************)
(* The throttle of the login route: per account and per IP address, the    *)
(* failures in a window that slides with each of them.  A throttled IP is  *)
(* refused unseen; a throttled account only gets another answer when its   *)
(* password is wrong.  The counters are read before the credentials are    *)
(* looked up in the database and written after, and other logins are       *)
(* handled in between.  They are one process's memory.                     *)
(***************************************************************************)
EXTENDS Integers, FiniteSets

CONSTANTS
  Handlers,             \* logins handled at the same time
  Accounts, Ips,        \* the keys: normalized emails, peer addresses
  AccountThreshold, IpThreshold,
  Window,               \* the age at which a counter still counts
  MaxDelay,
  MaxFailures           \* bound on the failures from an address

ASSUME ThrottleAssumption ==
  /\ IsFiniteSet(Handlers)
  /\ AccountThreshold \in Nat \ {0} /\ IpThreshold \in Nat \ {0}
  /\ Window \in Nat /\ MaxDelay \in Nat \ {0} /\ MaxFailures \in Nat

VARIABLES
  account, ip,  \* the counters: failures, and the time since the last one
  login,        \* what each handler is doing
  answer,       \* the last answer
  guesses       \* wrong passwords looked at from an address since its counter began

vars == <<account, ip, login, answer, guesses>>

Idle == [at |-> "idle"]
NoCounter == [count |-> 0, age |-> 0]
NoAnswer == [status |-> "none"]

-----------------------------------------------------------------------------
(* Counters.  One that has expired is as good as none. *)

Active(counter) == IF counter.age > Window THEN 0 ELSE counter.count

\* Mutant of AccountThrottled: the delay's threshold is taken for the counter's.
AccountThrottledEarly(a) == Active(account[a]) + 1 >= AccountThreshold

AccountThrottled(a) == Active(account[a]) >= AccountThreshold
IpThrottled(i) == Active(ip[i]) >= IpThreshold

Failed(counter) == [count |-> Active(counter) + 1, age |-> 0]

\* What the exponential backoff needs of the powers it computes, 2 ** 30 being
\* the last: later overages do not change the delay.
ASSUME PowersAssumption ==
  \A n \in 0 .. 30 : 2 ^ n \in Nat \ {0} /\ \A m \in 0 .. n : 2 ^ m <= 2 ^ n

DelayFor(count, threshold) ==
  LET overage == count - threshold
      power == 2 ^ (IF overage - 1 < 30 THEN overage - 1 ELSE 30) IN
  IF overage <= 0 THEN 0 ELSE IF power < MaxDelay THEN power ELSE MaxDelay

\* The delay after one more failure of the account from the address.
DelayAfter(a, i) ==
  LET x == DelayFor(Failed(account[a]).count, AccountThreshold)
      y == DelayFor(Failed(ip[i]).count, IpThreshold) IN
  IF x < y THEN y ELSE x

RecordFailure(a, i) ==
  /\ account' = [account EXCEPT ![a] = Failed(@)]
  /\ ip' = [ip EXCEPT ![i] = Failed(@)]

\* Mutant of RecordSuccess: a right password clears the address too.
RecordSuccessOfBoth(a, i) ==
  /\ account' = [account EXCEPT ![a] = NoCounter]
  /\ ip' = [ip EXCEPT ![i] = NoCounter]

RecordSuccess(a, i) == account' = [account EXCEPT ![a] = NoCounter] /\ UNCHANGED ip

-----------------------------------------------------------------------------
(* A login *)

Init ==
  /\ account = [a \in Accounts |-> NoCounter]
  /\ ip = [i \in Ips |-> NoCounter]
  /\ login = [h \in Handlers |-> Idle]
  /\ answer = NoAnswer
  /\ guesses = [i \in Ips |-> 0]

\* A throttled address: the failure counts, the password is not looked at.
RejectIp(h, a, i) ==
  /\ login[h].at = "idle" /\ Active(ip[i]) < MaxFailures
  /\ IpThrottled(i)
  /\ RecordFailure(a, i)
  /\ answer' = [status |-> 429, account |-> a, ip |-> i, retryAfter |-> DelayAfter(a, i)]
  /\ UNCHANGED <<login, guesses>>

\* The request goes on to the credentials; the account's flag is kept.
Begin(h, a, i) ==
  /\ login[h].at = "idle" /\ Active(ip[i]) < MaxFailures
  /\ ~IpThrottled(i)
  /\ login' = [login EXCEPT ![h] =
       [at |-> "verifying", account |-> a, ip |-> i, flagged |-> AccountThrottled(a)]]
  /\ UNCHANGED <<account, ip, answer, guesses>>

\* Wrong email or password, or an inactive user.
Wrong(h) ==
  LET a == login[h].account  i == login[h].ip IN
  /\ login[h].at = "verifying"
  /\ RecordFailure(a, i)
  /\ guesses' = [guesses EXCEPT ![i] = @ + 1]
  /\ answer' = IF login[h].flagged
               THEN [status |-> 429, account |-> a, ip |-> i, retryAfter |-> DelayAfter(a, i)]
               ELSE [status |-> 401, account |-> a, ip |-> i]
  /\ login' = [login EXCEPT ![h] = Idle]

Right(h) ==
  LET a == login[h].account  i == login[h].ip IN
  /\ login[h].at = "verifying"
  /\ RecordSuccess(a, i)
  /\ answer' = [status |-> 200, account |-> a, ip |-> i]
  /\ login' = [login EXCEPT ![h] = Idle]
  /\ UNCHANGED guesses

\* The lookup fails, or the client goes away: nothing is recorded.
Abort(h) ==
  /\ login[h].at = "verifying"
  /\ login' = [login EXCEPT ![h] = Idle]
  /\ UNCHANGED <<account, ip, answer, guesses>>

\* Time: an age past the window is one more than the window.
Aged(counter) == [counter EXCEPT !.age = IF @ > Window THEN @ ELSE @ + 1]

Tick ==
  /\ account' = [a \in Accounts |-> Aged(account[a])]
  /\ ip' = [i \in Ips |-> Aged(ip[i])]
  /\ guesses' = [i \in Ips |-> IF Active(ip'[i]) = 0 THEN 0 ELSE guesses[i]]
  /\ UNCHANGED <<login, answer>>

\* The process is restarted, and with it the counters.
Restart ==
  /\ account' = [a \in Accounts |-> NoCounter]
  /\ ip' = [i \in Ips |-> NoCounter]
  /\ guesses' = [i \in Ips |-> 0]
  /\ login' = [h \in Handlers |-> Idle]
  /\ UNCHANGED answer

Next ==
  \/ \E h \in Handlers :
       \/ \E a \in Accounts, i \in Ips : RejectIp(h, a, i) \/ Begin(h, a, i)
       \/ Wrong(h) \/ Right(h) \/ Abort(h)
  \/ Tick
  \/ Restart

Spec == Init /\ [][Next]_vars

-----------------------------------------------------------------------------
(* Properties *)

TypeOK ==
  /\ account \in [Accounts -> [count : Nat, age : Nat]]
  /\ ip \in [Ips -> [count : Nat, age : Nat]]
  /\ guesses \in [Ips -> Nat]
  /\ login \in [Handlers -> {Idle} \cup
       [at : {"verifying"}, account : Accounts, ip : Ips, flagged : BOOLEAN]]

\* Logins handled at once all pass the check before any of them is counted,
\* and still an address gets no more wrong passwords looked at, while its
\* failures stay within the window, than its threshold and one for each other
\* login under way - whichever accounts it tries and however often it is right
\* in between.
GuessesBounded ==
  \A i \in Ips : guesses[i] <= IpThreshold - 1 + Cardinality(Handlers)

\* A refusal for too many attempts says when to come back, although the
\* threshold of the counters is reached one failure before that of the delays:
\* unless, while the password was looked at, the account's failures were
\* forgotten, by a right password or with time.  And the longer the failures
\* go on, the longer the wait, up to the maximum.
RefusalsSayWhen ==
  [][(answer' # answer /\ answer'.status = 429) =>
       LET a == answer'.account  i == answer'.ip
           waits == {DelayFor(Active(account[a]), AccountThreshold),
                     DelayFor(Active(ip[i]), IpThreshold)} IN
       /\ \A w \in waits : w <= answer'.retryAfter
       /\ answer'.retryAfter <= MaxDelay
       /\ \/ answer'.retryAfter > 0
          \/ ~AccountThrottled(a) /\ \E h \in Handlers : login[h].at = "verifying"]_vars
=============================================================================
