---------------------------- MODULE EpochService ----------------------------
(***************************************************************************)
(* The prover's epoch service: the clock that numbers the epochs in which  *)
(* transactions are counted and proofs are made.  On start the service     *)
(* derives the epoch and the slice from the wall clock (compute_wait_until)*)
(* and from then on it only counts slices.  The pair lives in memory and   *)
(* starts at its default (0, 0); a restart forgets it.                     *)
(*                                                                         *)
(* Time is a number of ticks since midnight of the genesis day.            *)
(***************************************************************************)
EXTENDS Integers

CONSTANTS
  Day,         \* ticks in a calendar day
  EpochDur,    \* epoch_duration
  SliceDur,    \* epoch_slice_duration
  MinWait,     \* WAIT_UNTIL_MIN_DURATION
  MaxRetries,  \* WAIT_UNTIL_MAX_COMPUTE_ERROR
  Jitter,      \* most ticks that pass between two readings of the clock
  MaxTime      \* bound on the time explored

ASSUME ConstantsAssumption ==
  /\ Day \in Nat \ {0} /\ EpochDur \in Nat \ {0} /\ MinWait \in Nat \ {0}
  /\ MaxRetries \in Nat /\ Jitter \in Nat /\ MaxTime \in Nat
  /\ SliceDur \in Nat /\ SliceDur >= MinWait /\ 2 * SliceDur < EpochDur

VARIABLES
  now,      \* the wall clock
  phase,    \* "starting", "running", or "stopped" after an error
  epoch,    \* current_epoch.0, read by every other service
  slice,    \* current_epoch.1
  wait,     \* when the task wakes up next
  retries,  \* retry_counter
  last,     \* history: the newest epoch published by an earlier process
  slipped   \* history: midnights between the first two clock readings of the start

vars == <<now, phase, epoch, slice, wait, retries, last, slipped>>

SliceCount == EpochDur \div SliceDur

DayOf(t) == t \div Day

SliceOf(day, t) == (t - day * Day) \div SliceDur

NextSlice(day, s) == day * Day + (s + 1) * SliceDur

Init ==
  /\ now \in 0 .. Day - 1
  /\ phase = "starting" /\ retries = 0
  /\ epoch = 0 /\ slice = 0
  /\ wait = now /\ last = 0 /\ slipped = 0

\* The initial computation.  It reads the clock three times: for the day, for
\* the slice, and for the time left in that slice.
Compute ==
  /\ phase = "starting" /\ now >= wait
  /\ \E d1, d2 \in 0 .. Jitter :
       LET day  == DayOf(now)
           s    == SliceOf(day, now + d1)
           t    == now + d1 + d2
           left == NextSlice(day, s) - t
       IN /\ t <= MaxTime
          /\ now' = t
          /\ \/ /\ left < 0                          \* OutOfRange
                /\ phase' = "stopped"
                /\ UNCHANGED <<epoch, slice, wait, retries, slipped>>
             \/ /\ left \in 0 .. MinWait - 1         \* TooLow
                /\ retries' = retries + 1
                /\ phase' = IF retries' > MaxRetries THEN "stopped" ELSE phase
                /\ wait' = t + MinWait
                /\ UNCHANGED <<epoch, slice, slipped>>
             \/ /\ left >= MinWait
                /\ phase' = "running"
                /\ epoch' = day /\ slice' = s
                /\ wait' = NextSlice(day, s)
                /\ slipped' = DayOf(now + d1) - day
                /\ UNCHANGED retries
  /\ UNCHANGED last

\* Plausible faults: the boundary is taken one slice early, or only once.
WakeEarly ==
  /\ phase = "running" /\ now >= wait
  /\ wait' = wait + SliceDur
  /\ slice' = slice + 1
  /\ epoch' = IF (slice' + 1) % SliceCount = 0 THEN epoch + 1 ELSE epoch
  /\ UNCHANGED <<now, phase, retries, last, slipped>>

WakeOnce ==
  /\ phase = "running" /\ now >= wait
  /\ wait' = wait + SliceDur
  /\ slice' = slice + 1
  /\ epoch' = IF slice' = SliceCount THEN epoch + 1 ELSE epoch
  /\ UNCHANGED <<now, phase, retries, last, slipped>>

\* sleep_until has returned, possibly late: the next slice begins.
Wake ==
  /\ phase = "running" /\ now >= wait
  /\ wait' = wait + SliceDur
  /\ slice' = slice + 1
  /\ epoch' = IF slice' % SliceCount = 0 THEN epoch + 1 ELSE epoch
  /\ UNCHANGED <<now, phase, retries, last, slipped>>

\* The process dies and is started again.
Restart ==
  /\ phase' = "starting" /\ retries' = 0
  /\ epoch' = 0 /\ slice' = 0
  /\ wait' = now
  /\ last' = IF phase = "running" /\ epoch > last THEN epoch ELSE last
  /\ slipped' = 0
  /\ UNCHANGED now

Tick ==
  /\ now < MaxTime
  /\ now' = now + 1
  /\ UNCHANGED <<phase, epoch, slice, wait, retries, last, slipped>>

Next == Compute \/ Wake \/ Restart \/ Tick

Spec == Init /\ [][Next]_vars

-----------------------------------------------------------------------------

\* All variables keep their types.
TypeOK ==
  /\ now \in Nat /\ wait \in Nat /\ retries \in Nat
  /\ epoch \in Nat /\ slice \in Nat /\ last \in Nat /\ slipped \in Nat
  /\ phase \in {"starting", "running", "stopped"}

\* The parameters of a production deployment: an epoch is a day, cut into a
\* whole number of slices.
Aligned == EpochDur = Day /\ Day = SliceCount * SliceDur

\* Whenever the service runs and no wake-up is due, the published epoch is the
\* number of whole epochs elapsed since genesis, less the midnights that fell
\* between reading the clock for the day and reading it for the slice when the
\* process started (compute_wait_until, listen_for_new_epoch): counting slices
\* never drifts, however many are counted and however late the task wakes up.
EpochIsElapsed ==
  phase = "running" /\ now < wait => epoch + slipped = now \div EpochDur

\* A restarted process never publishes an epoch older than one published
\* before: an epoch whose message ids were used is not opened again.
NoEpochReuse == phase = "running" => epoch >= last
=============================================================================
