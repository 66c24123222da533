------------------------- MODULE EpochService_proofs -------------------------
(***************************************************************************)
(* With production parameters (Aligned) the counted epoch agrees with the  *)
(* wall clock up to the midnights that fell into the start, for every      *)
(* length of the day and of the slice and every delay between two readings *)
(* of the clock.  The inductive invariant ties the wake-up time to the     *)
(* epoch and to the position of the slice within it.                       *)
(***************************************************************************)
EXTENDS EpochService, TLAPS

\* The time at which the current slice ends, from the epoch and the slice.
SliceEnd == (epoch + slipped) * Day + ((slice % SliceCount) + 1) * SliceDur

\* The inductive invariant.
IInv ==
  /\ TypeOK
  /\ last * Day <= now
  /\ phase = "running" =>
       wait = SliceEnd /\ now >= wait - SliceDur /\ epoch >= last

\* Division with remainder is unique.
LEMMA DivModUnique ==
  ASSUME NEW n \in Int, NEW d \in Nat \ {0}, NEW q \in Int, NEW r \in 0 .. d - 1,
         n = q * d + r
  PROVE  n \div d = q /\ n % d = r
PROOF
<1>1. n \div d \in Int /\ n % d \in 0 .. d - 1 /\ n = d * (n \div d) + (n % d)
  BY SMT
<1> DEFINE Q == n \div d  R == n % d
<1>2. (Q - q) * d = r - R /\ Q \in Int /\ R \in 0 .. d - 1
  BY <1>1, SMT
<1> HIDE DEF Q, R
<1>3. Q = q
  <2>1. ASSUME Q - q >= 1 PROVE FALSE
    <3>1. (Q - q) * d >= d BY <1>2, <2>1, SMT
    <3> QED BY <1>2, <3>1, SMT
  <2>2. ASSUME Q - q <= -1 PROVE FALSE
    <3>1. (Q - q) * d <= -d BY <1>2, <2>2, SMT
    <3> QED BY <1>2, <3>1, SMT
  <2> QED BY <1>2, <2>1, <2>2, SMT
<1>4. R = r
  BY <1>2, <1>3, SMT
<1> QED
  BY <1>3, <1>4 DEF Q, R

\* What division and remainder are.
LEMMA DivMod ==
  ASSUME NEW n \in Nat, NEW d \in Nat \ {0}
  PROVE  n \div d \in Nat /\ n % d \in 0 .. d - 1 /\ n = (n \div d) * d + (n % d)
PROOF
  BY SMT

\* The quotient brackets the number.
LEMMA DivBounds ==
  ASSUME NEW n \in Nat, NEW d \in Nat \ {0}
  PROVE  n \div d \in Nat /\ (n \div d) * d <= n /\ n < ((n \div d) + 1) * d
PROOF
<1> DEFINE q == n \div d  r == n % d
<1>1. q \in Nat /\ r \in 0 .. d - 1 /\ n = q * d + r
  BY DivMod
<1> HIDE DEF q, r
<1>2. q * d <= n /\ n < (q + 1) * d
  BY <1>1, SMT
<1> QED
  BY <1>1, <1>2 DEF q

\* Going on by one moves the remainder by one, or back to zero.
LEMMA ModSucc ==
  ASSUME NEW n \in Nat, NEW d \in Nat \ {0}
  PROVE  (n + 1) % d = IF (n % d) = d - 1 THEN 0 ELSE (n % d) + 1
PROOF
<1> DEFINE q == n \div d  r == n % d
<1>1. q \in Nat /\ r \in 0 .. d - 1 /\ n = q * d + r
  BY DivMod
<1> HIDE DEF q, r
<1>2. CASE r = d - 1
  <2>1. n + 1 = (q + 1) * d + 0 BY <1>1, <1>2, SMT
  <2>2. (n + 1) % d = 0 BY <1>1, <2>1, DivModUnique, SMT
  <2> QED BY <1>2, <2>2 DEF r
<1>3. CASE r # d - 1
  <2>1. n + 1 = q * d + (r + 1) /\ r + 1 \in 0 .. d - 1 BY <1>1, <1>3, SMT
  <2>2. (n + 1) % d = r + 1 BY <1>1, <2>1, DivModUnique, SMT
  <2> QED BY <1>3, <2>2 DEF r
<1> QED
  BY <1>2, <1>3

\* With production parameters there is at least one slice in an epoch.
LEMMA Slices ==
  ASSUME Aligned
  PROVE  /\ SliceCount \in Nat \ {0} /\ SliceDur \in Nat \ {0}
         /\ Day = SliceCount * SliceDur /\ Day \in Nat \ {0}
PROOF
<1>1. SliceCount \in Int /\ Day = SliceCount * SliceDur /\ SliceDur \in Nat \ {0} /\ Day \in Nat \ {0}
  BY ConstantsAssumption, SMT DEF SliceCount, Aligned
<1>2. ASSUME SliceCount <= 0 PROVE FALSE
  BY <1>1, <1>2, SMT
<1> QED
  BY <1>1, <1>2, SMT

\* The service starts in the invariant.
LEMMA InitIInv == Init => IInv
PROOF
  BY ConstantsAssumption, SMT DEF Init, IInv, TypeOK

\* The slice found by the second reading of the clock, from the day found by the
\* first: whole days that passed in between, and the slice of the day.
LEMMA StartSlice ==
  ASSUME Aligned, NEW n \in Nat, NEW t \in Nat, n <= t
  PROVE  LET s == SliceOf(DayOf(n), t)
             d == DayOf(t) - DayOf(n)
         IN  /\ DayOf(n) \in Nat /\ DayOf(n) * Day <= n /\ n < (DayOf(n) + 1) * Day
             /\ s \in Nat /\ d \in Nat
             /\ s = d * SliceCount + (s % SliceCount) /\ (s % SliceCount) \in Nat
             /\ DayOf(n) * Day + s * SliceDur <= t
PROOF
<1>1. SliceCount \in Nat \ {0} /\ SliceDur \in Nat \ {0}
      /\ Day = SliceCount * SliceDur /\ Day \in Nat \ {0}
  BY Slices
<1> DEFINE a == DayOf(n)  b == DayOf(t)  x == t - b * Day
           r == x \div SliceDur  y == x % SliceDur
<1>2. a \in Nat /\ a * Day <= n /\ n < (a + 1) * Day
  BY <1>1, DivBounds DEF DayOf
<1>3. b \in Nat /\ b * Day <= t /\ t < (b + 1) * Day
  BY <1>1, DivBounds DEF DayOf
<1> HIDE DEF a, b
<1>4. b - a \in Nat
  <2>1. ASSUME b + 1 <= a PROVE FALSE
    <3>1. (b + 1) * Day <= a * Day BY <1>1, <1>2, <1>3, <2>1, SMT
    <3> QED BY <1>1, <1>2, <1>3, <3>1, SMT
  <2> QED BY <1>2, <1>3, <2>1, SMT
<1>5. x \in Nat /\ x < Day
  BY <1>1, <1>3, SMT
<1> HIDE DEF x
<1>6. r \in Nat /\ y \in 0 .. SliceDur - 1 /\ x = r * SliceDur + y
  BY <1>1, <1>5, DivMod
<1> HIDE DEF r, y
<1>7. r < SliceCount
  <2>1. ASSUME r >= SliceCount PROVE FALSE
    <3>1. r * SliceDur >= SliceCount * SliceDur BY <1>1, <1>6, <2>1, SMT
    <3> QED BY <1>1, <1>5, <1>6, <3>1, SMT
  <2> QED BY <1>1, <1>6, <2>1, SMT
<1> DEFINE d == b - a  q == d * SliceCount + r
<1>8. d \in Nat /\ q \in Nat
  BY <1>1, <1>4, <1>6, SMT
<1>9. t - a * Day = q * SliceDur + y
  <2>1. t - a * Day = d * Day + x BY <1>1, <1>2, <1>3, SMT DEF x
  <2>2. d * Day = (d * SliceCount) * SliceDur BY <1>1, <1>8, SMT
  <2> HIDE DEF d
  <2>3. d * SliceCount \in Nat BY <1>1, <1>8, SMT
  <2> QED BY <1>1, <1>6, <1>8, <2>1, <2>2, <2>3, SMT
<1> HIDE DEF q, d
<1>10. (t - a * Day) \div SliceDur = q
  <2>1. ASSUME NEW z \in Int, z = q * SliceDur + y PROVE z \div SliceDur = q
    BY <1>1, <1>6, <1>8, <2>1, DivModUnique
  <2> QED BY <1>1, <1>2, <1>9, <2>1, SMT
<1>11. q % SliceCount = r
  BY <1>1, <1>6, <1>7, <1>8, DivModUnique DEF q
<1>12. a * Day + q * SliceDur <= t
  BY <1>1, <1>2, <1>6, <1>8, <1>9, SMT
<1>13. SliceOf(a, t) = q
  BY <1>10 DEF SliceOf
<1> QED
  BY <1>2, <1>6, <1>8, <1>11, <1>12, <1>13 DEF a, b, d, q

\* The initial computation places the service in the slice of the wall clock.
LEMMA ComputeIInv == ASSUME Aligned, IInv, Compute PROVE IInv'
PROOF
<1>1. SliceCount \in Nat \ {0} /\ SliceDur \in Nat \ {0} /\ MinWait \in Nat \ {0}
      /\ Day = SliceCount * SliceDur /\ Day \in Nat \ {0} /\ now \in Nat
      /\ last \in Nat /\ last * Day <= now /\ Jitter \in Nat
  BY Slices, ConstantsAssumption DEF IInv, TypeOK
<1>2. PICK d1 \in 0 .. Jitter, d2 \in 0 .. Jitter :
        LET day  == DayOf(now)
            s    == SliceOf(day, now + d1)
            t    == now + d1 + d2
            left == NextSlice(day, s) - t
        IN /\ now' = t
           /\ \/ phase' = "stopped" /\ UNCHANGED <<epoch, slice, wait, retries, slipped>>
              \/ /\ retries' = retries + 1
                 /\ phase' = IF retries' > MaxRetries THEN "stopped" ELSE phase
                 /\ wait' = t + MinWait /\ UNCHANGED <<epoch, slice, slipped>>
              \/ /\ phase' = "running" /\ epoch' = day /\ slice' = s
                 /\ wait' = NextSlice(day, s) /\ slipped' = DayOf(now + d1) - day
                 /\ UNCHANGED retries
  BY DEF Compute
<1> DEFINE day == DayOf(now)  s == SliceOf(day, now + d1)  r == s % SliceCount
           slip == DayOf(now + d1) - day
<1>3. now + d1 \in Nat /\ now <= now + d1 /\ now' = now + d1 + d2 /\ now' >= now + d1
      /\ now' \in Nat
  BY <1>1, <1>2, SMT
<1>4. /\ day \in Nat /\ day * Day <= now /\ now < (day + 1) * Day
      /\ s \in Nat /\ slip \in Nat /\ s = slip * SliceCount + r /\ r \in Nat
      /\ day * Day + s * SliceDur <= now + d1
  BY <1>1, <1>3, StartSlice
<1>5. phase = "starting" /\ last' = last
  BY DEF Compute
<1>6. \/ phase' = "stopped" /\ UNCHANGED <<epoch, slice, wait, retries, slipped>>
      \/ /\ retries' = retries + 1 /\ phase' \in {"starting", "stopped"}
         /\ wait' = now' + MinWait /\ UNCHANGED <<epoch, slice, slipped>>
      \/ /\ phase' = "running" /\ epoch' = day /\ slice' = s
         /\ wait' = day * Day + (s + 1) * SliceDur /\ slipped' = slip
         /\ UNCHANGED retries
  BY <1>2, <1>3, <1>5 DEF NextSlice
<1>7. phase' = "running" => (slice' % SliceCount) = r
  BY <1>6
<1> HIDE DEF day, s, r, slip
<1>8. last <= day
  <2>1. ASSUME last >= day + 1 PROVE FALSE
    <3>1. last * Day >= (day + 1) * Day BY <1>1, <1>4, <2>1, SMT
    <3> QED BY <1>1, <1>4, <3>1, SMT
  <2> QED BY <1>1, <1>4, <2>1, SMT
<1>9. TypeOK'
  BY <1>1, <1>3, <1>4, <1>5, <1>6, SMT DEF IInv, TypeOK
<1>10. day * Day + (s + 1) * SliceDur = (day + slip) * Day + (r + 1) * SliceDur
  <2>1. (slip * SliceCount) * SliceDur = slip * Day BY <1>1, <1>4, SMT
  <2>2. slip * SliceCount \in Nat BY <1>1, <1>4, SMT
  <2>3. (s + 1) * SliceDur = (slip * SliceCount) * SliceDur + (r + 1) * SliceDur
    BY <1>1, <1>4, <2>2, SMT
  <2> QED BY <1>1, <1>4, <2>1, <2>3, SMT
<1>11. phase' = "running" =>
         wait' = SliceEnd' /\ now' >= wait' - SliceDur /\ epoch' >= last'
  <2> SUFFICES ASSUME phase' = "running"
               PROVE  wait' = SliceEnd' /\ now' >= wait' - SliceDur /\ epoch' >= last'
    OBVIOUS
  <2>1. epoch' = day /\ slice' = s /\ wait' = day * Day + (s + 1) * SliceDur /\ slipped' = slip
    BY <1>6
  <2>2. SliceEnd' = (day + slip) * Day + (r + 1) * SliceDur
    BY <1>7, <2>1 DEF SliceEnd, SliceCount
  <2>3. wait' - SliceDur = day * Day + s * SliceDur
    BY <1>1, <1>4, <2>1, SMT
  <2> QED BY <1>1, <1>3, <1>4, <1>5, <1>8, <1>10, <2>1, <2>2, <2>3, SMT
<1>12. last' * Day <= now'
  BY <1>1, <1>3, <1>5, SMT
<1> QED
  BY <1>9, <1>11, <1>12 DEF IInv

\* Counting a slice moves the wake-up time by one slice, across epochs too.
LEMMA WakeIInv == ASSUME Aligned, IInv, Wake PROVE IInv'
PROOF
<1>1. SliceCount \in Nat \ {0} /\ SliceDur \in Nat \ {0}
      /\ Day = SliceCount * SliceDur /\ Day \in Nat \ {0}
  BY Slices
<1>2. TypeOK /\ wait = SliceEnd /\ now >= wait /\ wait' = wait + SliceDur
      /\ slice' = slice + 1 /\ epoch >= last /\ last * Day <= now
      /\ epoch' = (IF (slice + 1) % SliceCount = 0 THEN epoch + 1 ELSE epoch)
      /\ UNCHANGED <<now, phase, retries, last, slipped>>
  BY DEF IInv, Wake
<1>3. (slice + 1) % SliceCount
        = IF (slice % SliceCount) = SliceCount - 1 THEN 0 ELSE (slice % SliceCount) + 1
  BY <1>1, <1>2, ModSucc DEF TypeOK
<1>4. (slice % SliceCount) \in 0 .. SliceCount - 1
  BY <1>1, <1>2, DivMod DEF TypeOK
<1>5. TypeOK'
  BY <1>1, <1>2, SMT DEF TypeOK
<1>6. wait' = SliceEnd'
  <2> DEFINE r == slice % SliceCount
  <2>1. wait = (epoch + slipped) * Day + (r + 1) * SliceDur
    BY <1>2 DEF SliceEnd
  <2>2. SliceEnd' = (epoch' + slipped) * Day + (((slice + 1) % SliceCount) + 1) * SliceDur
    BY <1>2 DEF SliceEnd, SliceCount
  <2>3. r \in 0 .. SliceCount - 1 /\ epoch \in Nat /\ slipped \in Nat /\ wait' = wait + SliceDur
    BY <1>2, <1>4 DEF TypeOK
  <2>4. CASE r = SliceCount - 1
    <3>1. (slice + 1) % SliceCount = 0 /\ epoch' = epoch + 1 BY <1>2, <1>3, <2>4
    <3>2. SliceEnd' = (epoch + 1 + slipped) * Day + (0 + 1) * SliceDur BY <2>2, <3>1
    <3> HIDE DEF r
    <3>3. (r + 1) * SliceDur = Day BY <1>1, <2>3, <2>4, SMT
    <3> QED BY <1>1, <2>1, <2>3, <3>2, <3>3, SMT
  <2>5. CASE r # SliceCount - 1
    <3>1. (slice + 1) % SliceCount = r + 1 BY <1>3, <2>5
    <3>2. epoch' = epoch BY <1>2, <2>3, <3>1, SMT
    <3>3. SliceEnd' = (epoch + slipped) * Day + ((r + 1) + 1) * SliceDur BY <2>2, <3>1, <3>2
    <3> HIDE DEF r
    <3> QED BY <1>1, <2>1, <2>3, <3>3, SMT
  <2> QED BY <2>4, <2>5
<1>7. now' >= wait' - SliceDur /\ epoch' >= last' /\ last' * Day <= now'
  BY <1>1, <1>2, SMT DEF TypeOK, SliceEnd
<1> QED
  BY <1>5, <1>6, <1>7, <1>2 DEF IInv

\* A restart remembers nothing but the time, which is past the last epoch's
\* start.
LEMMA RestartIInv == ASSUME Aligned, IInv, Restart PROVE IInv'
PROOF
<1>1. SliceCount \in Nat \ {0} /\ SliceDur \in Nat \ {0}
      /\ Day = SliceCount * SliceDur /\ Day \in Nat \ {0}
  BY Slices
<1>2. phase = "running" => epoch * Day <= now
  <2>1. (slice % SliceCount) \in 0 .. SliceCount - 1
    BY <1>1, DivMod DEF IInv, TypeOK
  <2> DEFINE r == slice % SliceCount
  <2>2. phase = "running" => wait = (epoch + slipped) * Day + (r + 1) * SliceDur /\ now >= wait - SliceDur
    BY DEF IInv, SliceEnd
  <2> HIDE DEF r
  <2>3. r * SliceDur >= 0 /\ r \in Nat
    BY <1>1, <2>1, SMT DEF r
  <2> QED BY <1>1, <2>2, <2>3, SMT DEF IInv, TypeOK
<1>3. last' * Day <= now' /\ now' = now
  BY <1>2, SMT DEF IInv, TypeOK, Restart
<1>4. TypeOK' /\ phase' = "starting"
  BY SMT DEF IInv, TypeOK, Restart
<1> QED
  BY <1>3, <1>4 DEF IInv

\* Every step keeps the invariant.
LEMMA NextIInv == ASSUME Aligned, IInv, [Next]_vars PROVE IInv'
PROOF
<1>1. CASE Compute BY <1>1, ComputeIInv
<1>2. CASE Wake BY <1>2, WakeIInv
<1>3. CASE Restart BY <1>3, RestartIInv
<1>4. CASE Tick
  <2>1. now' = now + 1 /\ now \in Nat /\ UNCHANGED <<phase, epoch, slice, wait, retries, last, slipped>>
    BY <1>4 DEF IInv, TypeOK, Tick
  <2>2. TypeOK' /\ SliceEnd' = SliceEnd
    BY <2>1, SMT DEF IInv, TypeOK, SliceEnd, SliceCount
  <2>3. SliceDur \in Nat /\ wait \in Nat /\ last \in Nat /\ Day \in Nat
    BY ConstantsAssumption DEF IInv, TypeOK
  <2>4. last' * Day <= now'
    BY <2>1, <2>3, SMT DEF IInv
  <2>5. phase' = "running" => now' >= wait' - SliceDur
    BY <2>1, <2>3, SMT DEF IInv
  <2> QED BY <2>1, <2>2, <2>4, <2>5 DEF IInv
<1>5. CASE UNCHANGED vars
  BY <1>5 DEF IInv, TypeOK, vars, SliceEnd, SliceCount
<1> QED
  BY <1>1, <1>2, <1>3, <1>4, <1>5 DEF Next

\* With production parameters the invariant holds at all times, restarts
\* included.
THEOREM Invariance == ASSUME Aligned PROVE Spec => []IInv
PROOF
<1>1. Aligned BY Zenon
<1>2. IInv /\ [Next]_vars => IInv' BY <1>1, NextIInv
<1> QED BY <1>2, InitIInv, PTL DEF Spec

\* With production parameters the epoch that listen_for_new_epoch counts is
\* the number of days since genesis, less the midnights that fell into the
\* start of the process.
THEOREM EpochAgreesWithClock == ASSUME Aligned PROVE Spec => []EpochIsElapsed
PROOF
<1>1. IInv => EpochIsElapsed
  <2> SUFFICES ASSUME IInv, phase = "running", now < wait
               PROVE  epoch + slipped = now \div EpochDur
    BY DEF EpochIsElapsed
  <2> DEFINE r == slice % SliceCount
  <2>1. SliceCount \in Nat \ {0} /\ SliceDur \in Nat \ {0}
        /\ Day = SliceCount * SliceDur /\ Day \in Nat \ {0} /\ EpochDur = Day
    BY Slices DEF Aligned
  <2>2. r \in 0 .. SliceCount - 1
    BY <2>1, DivMod DEF IInv, TypeOK
  <2> DEFINE e == epoch + slipped
  <2>3. wait = e * Day + (r + 1) * SliceDur /\ now >= wait - SliceDur
        /\ e \in Nat /\ now \in Nat
    BY SMT DEF IInv, TypeOK, SliceEnd
  <2> HIDE DEF r, e
  <2>4. r * SliceDur >= 0 /\ (r + 1) * SliceDur <= Day
    BY <2>1, <2>2, SMT
  <2>5. now - e * Day \in 0 .. Day - 1
    BY <2>1, <2>2, <2>3, <2>4, SMT
  <2>6. now = e * Day + (now - e * Day)
    BY <2>1, <2>3, SMT
  <2> DEFINE rest == now - e * Day
  <2>7. rest \in 0 .. Day - 1 /\ now = e * Day + rest
    BY <2>5, <2>6
  <2> HIDE DEF rest
  <2>8. ASSUME NEW n \in Nat, NEW f \in Nat, NEW x \in 0 .. Day - 1, n = f * Day + x
        PROVE  n \div Day = f
    BY <2>1, <2>8, DivModUnique, SMT
  <2>9. now \div Day = e
    BY <2>3, <2>7, <2>8
  <2> QED BY <2>1, <2>9 DEF e
<1> QED BY <1>1, Invariance, PTL

\* With production parameters a restarted prover never reopens an epoch that
\* an earlier process had left.
THEOREM EpochsNotReused == ASSUME Aligned PROVE Spec => []NoEpochReuse
PROOF
<1>1. IInv => NoEpochReuse
  BY DEF IInv, NoEpochReuse
<1> QED BY <1>1, Invariance, PTL
=============================================================================
