------------------------------- MODULE Backoff -------------------------------
(* The delays of retry.Do: defaults of Config and the shift of delayFor in    *)
(* two's complement of Width bits (64 in the code, where a unit is 1 ns).     *)
EXTENDS Integers

CONSTANTS Width, DefaultBase, MaxSetting, MaxRetry

Pow2[n \in Nat] == IF n = 0 THEN 1 ELSE 2 * Pow2[n - 1]

ASSUME BackoffAssumptions ==
  /\ Width \in Nat \ {0} /\ MaxRetry \in Nat
  /\ MaxSetting \in Nat /\ DefaultBase \in 1 .. MaxSetting
  /\ 10 * MaxSetting < Pow2[Width - 1]   \* no setting of years

VARIABLES baseDelay, maxDelay, retryNo, ceiling

backoffVars == <<baseDelay, maxDelay, retryNo, ceiling>>

Wrap(n) == ((n + Pow2[Width - 1]) % Pow2[Width]) - Pow2[Width - 1]

\* BaseDelay and MaxDelay as Do uses them; zero and negative settings are legal.
BaseOf(setting) == IF setting <= 0 THEN DefaultBase ELSE setting
MaxOf(setting, base) == IF setting <= 0 \/ setting < base THEN 10 * base ELSE setting

BackoffInit ==
  \E b, m \in -1 .. MaxSetting :
    /\ baseDelay = BaseOf(b) /\ maxDelay = MaxOf(m, BaseOf(b))
    /\ retryNo = 0 /\ ceiling = 0

\* delayFor: the random delay is drawn from 0 .. ceiling - 1.
ClippedAbove(d) == IF d > maxDelay THEN maxDelay ELSE d
Clipped(d) == IF d <= 0 \/ d > maxDelay THEN maxDelay ELSE d
CeilingFor(attempt) == Clipped(Wrap(baseDelay * Pow2[attempt - 1]))

\* An attempt failed and another follows.
NextDelay ==
  /\ retryNo < MaxRetry
  /\ retryNo' = retryNo + 1
  /\ ceiling' = CeilingFor(retryNo + 1)
  /\ UNCHANGED <<baseDelay, maxDelay>>

BackoffNext == NextDelay

BackoffSpec == BackoffInit /\ [][BackoffNext]_backoffVars

-----------------------------------------------------------------------------
\* Powers of two in base do no harm: a base of a second has 2^9 ns of them.
OddPartFits ==
  \E j \in 0 .. Width, odd \in 1 .. baseDelay :
    baseDelay = odd * Pow2[j] /\ odd * maxDelay <= Pow2[Width - 1]

Smaller(a, b) == IF a < b THEN a ELSE b

\* The draw is well defined (rand.Int64N panics on a bound that is not positive) and
\* never exceeds max_delay, also when the shift overflows. As long as the odd part of
\* base, times max, fits the word, an overflowing shift cannot shorten the back-off
\* either: what wraps to a positive value is a multiple of a power of two above
\* max_delay. The ceiling is base * 2^(attempt-1) capped at max_delay, as the comment of
\* delayFor says.
CeilingIsExact ==
  retryNo > 0 =>
    /\ ceiling \in 1 .. maxDelay
    /\ OddPartFits =>
         ceiling = Smaller(maxDelay, baseDelay * Pow2[retryNo - 1])
=============================================================================
