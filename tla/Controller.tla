----------------------------- MODULE Controller -----------------------------
(***************************************************************************)
(* The controller of the prover (prover/cmd/controller): several processes *)
(* share directories of request files and use them as a queue.  A process  *)
(* locks a request by renaming its file, runs a worker on it, moves the    *)
(* worker's output to the responses and the request to the done directory. *)
(* A signal handler runs beside the main loop and gives the request back   *)
(* on SIGUSR1 (spot reclaim); SIGTERM lets the job finish within a grace   *)
(* period.  Renames are atomic; everything else interleaves.               *)
(***************************************************************************)
EXTENDS Integers, Sequences

CONSTANTS
  Controllers, Requests, None,
  Kind,                 \* of a request: execution, compression or aggregation
  End,                  \* its last block
  Watches,              \* the kinds of request a controller looks for
  CanRunFullLarge,      \* the controllers on a large machine
  Codes,                \* the exit codes of a worker, "success" among them
  RetryLocallyWithLargeCodes, DeferToOtherLargeCodes,
  KeepTracesUntilBlock,
  MaxFaults             \* how many signals and crashes there are

Kinds == {"execution", "compression", "aggregation"}

ASSUME ControllerAssumption ==
  /\ Kind \in [Requests -> Kinds] /\ End \in [Requests -> Nat]
  /\ Watches \in [Controllers -> SUBSET Kinds]
  /\ CanRunFullLarge \subseteq Controllers
  /\ "success" \in Codes /\ "running" \notin Codes
  /\ RetryLocallyWithLargeCodes \subseteq Codes \ {"success"}
  /\ DeferToOtherLargeCodes \subseteq Codes \ {"success"}
  /\ None \notin Requests \union Controllers \union Codes \union {"running"}
  /\ KeepTracesUntilBlock \in Nat /\ MaxFaults \in Nat

VARIABLES
  file,      \* of each request: where it is, the suffixes of its name, and
             \* the LocalID in its .inprogress suffix
  tmp,       \* tmp-response-file of a controller for a kind: whose proof it is
  response,  \* of each request: the request its response file proves
  trace,     \* of each request: its conflated trace file exists
  ctl,       \* of each controller: its main loop, handler and flags
  dropped,   \* history: requests whose finished proof a spot reclaim removed
  faults

vars == <<file, tmp, response, trace, ctl, dropped, faults>>

-----------------------------------------------------------------------------
(* Files and jobs *)

InFrom(name, owner) == [at |-> "from", name |-> name, owner |-> owner]
InDone(at, name) == [at |-> at, name |-> name, owner |-> None]

AllFail(name, from) == \A i \in from .. Len(name) : name[i] = "fail"

\* InputFileRegexp: .large only where large traces can be run, then any number
\* of failure suffixes.
Matches(c, r, name) ==
  /\ Kind[r] \in Watches[c]
  /\ IF Kind[r] = "execution" /\ c \in CanRunFullLarge
     THEN name # <<>> /\ name[1] = "large" /\ AllFail(name, 2)
     ELSE AllFail(name, 1)

Priority(r) ==
  CASE Kind[r] = "execution" -> 0 [] Kind[r] = "compression" -> 1 [] OTHER -> 2

Score(r) == 100 * End[r] + Priority(r)

WithoutFailures(name) == SelectSeq(name, LAMBDA s : s # "fail")

DoneFile(at, name) == InDone(at, WithoutFailures(name))

DeferToLargeFile(name) == InFrom(WithoutFailures(name) \o <<"large", "fail">>, None)

\* There is one temporary response file per controller and kind of request.
TmpResponseFile(c, r) == <<c, Kind[r]>>

InProgress(c) ==
  file[ctl[c].job.req] = InFrom(ctl[c].job.name, c)

\* A rename of the .inprogress file of the current job; it fails, and is
\* logged, when the file is no longer there.
MoveInProgress(c, to) ==
  file' = IF InProgress(c) THEN [file EXCEPT ![ctl[c].job.req] = to] ELSE file

-----------------------------------------------------------------------------
(* Processes *)

Fresh ==
  [pc |-> "start", todo |-> {}, job |-> None, active |-> FALSE,
   worker |-> None, retried |-> FALSE, handler |-> "idle", waiter |-> FALSE,
   spotReclaimDetected |-> FALSE, gracefulShutdownRequested |-> FALSE,
   cancelled |-> FALSE]

Init ==
  /\ file = [r \in Requests |-> InDone("absent", <<>>)]
  /\ tmp = [p \in Controllers \X Kinds |-> None]
  /\ response = [r \in Requests |-> None]
  /\ trace = [r \in Requests |-> TRUE]
  /\ ctl = [c \in Controllers |-> Fresh]
  /\ dropped = {} /\ faults = 0

Up(c) == ctl[c].pc \notin {"exited", "down"}

\* activeJobMutex, which the handler holds from the removal to the rename.
MutexFree(c) == ctl[c].handler # "requeue"

\* A new request file, written by the coordinator.
Submit(r) ==
  /\ file[r].at = "absent"
  /\ file' = [file EXCEPT ![r] = InFrom(<<>>, None)]
  /\ UNCHANGED <<tmp, response, trace, ctl, dropped, faults>>

rmPrevDanglingFiles_Ignored(c) ==
  /\ ctl[c].pc = "start"
  /\ ctl' = [ctl EXCEPT ![c].pc = "loop"]
  /\ UNCHANGED <<file, tmp, response, trace, dropped, faults>>

\* Requests of an earlier life of this controller are left to a larger one.
rmPrevDanglingFiles(c) ==
  /\ ctl[c].pc = "start"
  /\ file' = [r \in Requests |->
       IF Kind[r] = "execution" /\ file[r].owner = c
       THEN InFrom(Append(file[r].name, "large"), None)
       ELSE file[r]]
  /\ ctl' = [ctl EXCEPT ![c].pc = "loop"]
  /\ UNCHANGED <<tmp, response, trace, dropped, faults>>

\* GetBest, the listing: nothing is listed once a shutdown is under way.
ListJobs(c) ==
  /\ ctl[c].pc = "loop" /\ ~ctl[c].cancelled
  /\ ~ctl[c].gracefulShutdownRequested /\ ~ctl[c].spotReclaimDetected
  /\ LET jobs == {[req |-> r, name |-> file[r].name] :
                    r \in {q \in Requests : /\ file[q].at = "from" /\ file[q].owner = None
                                            /\ Matches(c, q, file[q].name)}}
     IN  jobs # {} /\ ctl' = [ctl EXCEPT ![c].pc = "lock", ![c].todo = jobs]
  /\ UNCHANGED <<file, tmp, response, trace, dropped, faults>>

\* GetBest, the locks: the listed jobs are tried in the order of their scores,
\* and a rename fails when someone else was faster.
tryLockFile(c) ==
  /\ ctl[c].pc = "lock"
  /\ \E j \in ctl[c].todo :
       /\ \A k \in ctl[c].todo : Score(j.req) <= Score(k.req)
       /\ IF file[j.req] = InFrom(j.name, None)
          THEN /\ file' = [file EXCEPT ![j.req] = InFrom(j.name, c)]
               /\ ctl' = [ctl EXCEPT ![c].pc = "locked", ![c].todo = {}, ![c].job = j]
          ELSE /\ ctl' = [ctl EXCEPT
                    ![c].todo = @ \ {j},
                    ![c].pc = IF ctl[c].todo = {j} THEN "loop" ELSE "lock"]
               /\ UNCHANGED file
  /\ UNCHANGED <<tmp, response, trace, dropped, faults>>

\* From here on the handler knows of the job.
StartJob(c) ==
  /\ ctl[c].pc = "locked" /\ MutexFree(c)
  /\ ctl' = [ctl EXCEPT ![c].pc = "run", ![c].active = TRUE,
                        ![c].worker = "running", ![c].retried = FALSE]
  /\ UNCHANGED <<file, tmp, response, trace, dropped, faults>>

\* The worker ends.  It has written its output when it succeeds; when it fails
\* it may have, and so may one that was sent SIGTERM and is not waited for.
WorkerExits(c) ==
  /\ ctl[c].worker = "running"
  /\ \E code \in Codes :
       /\ ctl' = [ctl EXCEPT ![c].worker = code]
       /\ \/ tmp' = [tmp EXCEPT ![TmpResponseFile(c, ctl[c].job.req)] = ctl[c].job.req]
          \/ code # "success" /\ UNCHANGED tmp
  /\ UNCHANGED <<file, response, trace, dropped, faults>>

\* Executor.Run gets the exit code: an execution may be tried once more with
\* the large command, otherwise the code decides.
RunReturns(c) ==
  LET code == ctl[c].worker
      execution == Kind[ctl[c].job.req] = "execution"
  IN  /\ ctl[c].pc = "run" /\ code \in Codes
      /\ ctl' =
           IF execution /\ code \in RetryLocallyWithLargeCodes /\ ~ctl[c].retried
           THEN [ctl EXCEPT ![c].worker = "running", ![c].retried = TRUE]
           ELSE [ctl EXCEPT
                  ![c].worker = None,
                  ![c].pc = CASE code = "success" -> "respond"
                              [] execution /\ code \in DeferToOtherLargeCodes -> "defer"
                              [] OTHER -> "fail"]
      /\ UNCHANGED <<file, tmp, response, trace, dropped, faults>>

RunKilled_AsSuccess(c) ==
  /\ ctl[c].pc = "run" /\ ctl[c].cancelled
  /\ ctl' = [ctl EXCEPT ![c].worker = None, ![c].pc = "respond"]
  /\ UNCHANGED <<file, tmp, response, trace, dropped, faults>>

\* Executor.Run sees the cancelled context first.  It sends SIGTERM to the
\* worker and returns: until the process ends, and the worker's pod with it,
\* the worker may go on and write its output.
RunKilled(c) ==
  /\ ctl[c].pc = "run" /\ ctl[c].cancelled
  /\ ctl' = [ctl EXCEPT ![c].pc = "killed"]
  /\ UNCHANGED <<file, tmp, response, trace, dropped, faults>>

\* CodeSuccess: the temporary file becomes the response.
Respond(c) ==
  LET r == ctl[c].job.req
      t == TmpResponseFile(c, r)
  IN  /\ ctl[c].pc = "respond"
      /\ response' = IF tmp[t] # None THEN [response EXCEPT ![r] = tmp[t]] ELSE response
      /\ tmp' = [tmp EXCEPT ![t] = None]
      /\ ctl' = [ctl EXCEPT ![c].pc = "trace"]
      /\ UNCHANGED <<file, trace, dropped, faults>>

\* CodeSuccess: the trace, named in the .inprogress file, is deleted.
tryDeleteExecution(c) ==
  LET r == ctl[c].job.req
  IN  /\ ctl[c].pc = "trace"
      /\ trace' = [trace EXCEPT ![r] =
           @ /\ ~(Kind[r] = "execution" /\ End[r] > KeepTracesUntilBlock /\ InProgress(c))]
      /\ ctl' = [ctl EXCEPT ![c].pc = "done"]
      /\ UNCHANGED <<file, tmp, response, dropped, faults>>

\* The request goes to the done directory, or to the large prover.
MoveRequest(c) ==
  LET name == ctl[c].job.name
  IN  /\ ctl[c].pc \in {"done", "fail", "defer"}
      /\ MoveInProgress(c,
           CASE ctl[c].pc = "done" -> DoneFile("succeeded", name)
             [] ctl[c].pc = "fail" -> DoneFile("failed", name)
             [] ctl[c].pc = "defer" -> DeferToLargeFile(name))
      /\ ctl' = [ctl EXCEPT ![c].pc = "clear"]
      /\ UNCHANGED <<tmp, response, trace, dropped, faults>>

ClearJob(c) ==
  /\ ctl[c].pc = "clear" /\ MutexFree(c)
  /\ ctl' = [ctl EXCEPT ![c].pc = "loop", ![c].active = FALSE, ![c].job = None]
  /\ UNCHANGED <<file, tmp, response, trace, dropped, faults>>

\* CodeKilledByUs: the job stays active, to be put back when the loop stops.
AfterKill_Clears(c) ==
  /\ ctl[c].pc = "killed"
  /\ tmp' = [tmp EXCEPT ![TmpResponseFile(c, ctl[c].job.req)] = None]
  /\ ctl' = [ctl EXCEPT ![c].pc = "loop", ![c].active = FALSE]
  /\ UNCHANGED <<file, response, trace, dropped, faults>>

AfterKill(c) ==
  /\ ctl[c].pc = "killed"
  /\ tmp' = [tmp EXCEPT ![TmpResponseFile(c, ctl[c].job.req)] = None]
  /\ ctl' = [ctl EXCEPT ![c].pc = "loop"]
  /\ UNCHANGED <<file, response, trace, dropped, faults>>

\* The loop finds the context done; after a spot reclaim it sleeps, longer than
\* the handler needs.
SeeDone(c) ==
  /\ ctl[c].pc = "loop" /\ ctl[c].cancelled
  /\ ctl' = [ctl EXCEPT ![c].pc = IF ctl[c].spotReclaimDetected THEN "sleep" ELSE "stop"]
  /\ UNCHANGED <<file, tmp, response, trace, dropped, faults>>

\* requeueJob when the grace period is over, then the process ends and the
\* handler with it.
Exit(c) ==
  LET s == ctl[c]
      requeue == ~s.spotReclaimDetected /\ s.gracefulShutdownRequested /\ s.active
  IN  /\ s.pc = "stop" \/ (s.pc = "sleep" /\ s.handler = "idle")
      /\ MutexFree(c)
      /\ IF requeue
         THEN /\ tmp' = [tmp EXCEPT ![TmpResponseFile(c, s.job.req)] = None]
              /\ MoveInProgress(c, InFrom(s.job.name, None))
         ELSE UNCHANGED <<tmp, file>>
      /\ ctl' = [ctl EXCEPT ![c] =
           [Fresh EXCEPT !.pc = "exited", !.spotReclaimDetected = s.spotReclaimDetected,
                         !.gracefulShutdownRequested = s.gracefulShutdownRequested]]
      /\ UNCHANGED <<response, trace, dropped, faults>>

-----------------------------------------------------------------------------
(* Signals *)

Signal(c) ==
  /\ Up(c) /\ ctl[c].handler = "idle" /\ faults < MaxFaults
  /\ faults' = faults + 1

\* SIGUSR1: cancel, unless a shutdown is under way.
SIGUSR1(c) ==
  /\ Signal(c)
  /\ ctl' = [ctl EXCEPT ![c].spotReclaimDetected = TRUE,
                        ![c].cancelled = IF ctl[c].gracefulShutdownRequested THEN @ ELSE TRUE,
                        ![c].handler = "reclaim"]
  /\ UNCHANGED <<file, tmp, response, trace, dropped>>

\* SIGUSR1: requeueJob for the active job, first the temporary file ...
RemoveTmp(c) ==
  LET r == ctl[c].job.req
      t == TmpResponseFile(c, r)
  IN  /\ ctl[c].handler = "reclaim"
      /\ IF ctl[c].active
         THEN /\ tmp' = [tmp EXCEPT ![t] = None]
              /\ dropped' = IF tmp[t] = None THEN dropped ELSE dropped \union {r}
              /\ ctl' = [ctl EXCEPT ![c].handler = "requeue"]
         ELSE /\ ctl' = [ctl EXCEPT ![c].handler = "idle"]
              /\ UNCHANGED <<tmp, dropped>>
      /\ UNCHANGED <<file, response, trace, faults>>

\* ... then the request.
Requeue(c) ==
  /\ ctl[c].handler = "requeue"
  /\ MoveInProgress(c, InFrom(ctl[c].job.name, None))
  /\ ctl' = [ctl EXCEPT ![c].handler = "idle", ![c].active = FALSE]
  /\ UNCHANGED <<tmp, response, trace, dropped, faults>>

SIGTERM_WaitsForJob(c) ==
  /\ Signal(c)
  /\ ctl' = [ctl EXCEPT ![c].gracefulShutdownRequested = TRUE,
                        ![c].waiter = IF ctl[c].active THEN TRUE ELSE @]
  /\ UNCHANGED <<file, tmp, response, trace, dropped>>

\* SIGTERM: an active job gets the grace period.
SIGTERM(c) ==
  /\ Signal(c)
  /\ ctl' = [ctl EXCEPT ![c].gracefulShutdownRequested = TRUE,
                        ![c].waiter = IF ctl[c].active THEN TRUE ELSE @,
                        ![c].cancelled = IF ctl[c].active THEN @ ELSE TRUE]
  /\ UNCHANGED <<file, tmp, response, trace, dropped>>

\* The grace period is over, or jobDoneChan was closed: either way the context
\* is cancelled.
GraceEnds(c) ==
  /\ ctl[c].waiter
  /\ ctl' = [ctl EXCEPT ![c].waiter = FALSE, ![c].cancelled = TRUE]
  /\ UNCHANGED <<file, tmp, response, trace, dropped, faults>>

\* The machine or the process is gone, the worker with it.
Crash(c) ==
  /\ Up(c) /\ faults < MaxFaults
  /\ faults' = faults + 1
  /\ ctl' = [ctl EXCEPT ![c] = [Fresh EXCEPT !.pc = "down"]]
  /\ UNCHANGED <<file, tmp, response, trace, dropped>>

Restart(c) ==
  /\ ~Up(c)
  /\ ctl' = [ctl EXCEPT ![c] = Fresh]
  /\ UNCHANGED <<file, tmp, response, trace, dropped, faults>>

Main(c) ==
  \/ rmPrevDanglingFiles(c) \/ ListJobs(c) \/ tryLockFile(c) \/ StartJob(c)
  \/ RunReturns(c) \/ RunKilled(c) \/ Respond(c) \/ tryDeleteExecution(c)
  \/ MoveRequest(c) \/ ClearJob(c) \/ AfterKill(c) \/ SeeDone(c) \/ Exit(c)

Handler(c) == RemoveTmp(c) \/ Requeue(c)

Steps(c) == Main(c) \/ WorkerExits(c) \/ Handler(c) \/ GraceEnds(c) \/ Restart(c)

Next ==
  \/ \E r \in Requests : Submit(r)
  \/ \E c \in Controllers :
       Steps(c) \/ SIGUSR1(c) \/ SIGTERM(c) \/ Crash(c)

Spec == Init /\ [][Next]_vars

\* A controller does not stand still while one of its goroutines, its worker
\* or a timer can go on, and is started again after its end.
Fairness == \A c \in Controllers : WF_vars(Steps(c))

FairSpec == Spec /\ Fairness

-----------------------------------------------------------------------------
(* Properties *)

(* The response of a request proves that request, although a controller    *)
(* uses one temporary file for all its jobs of a kind, crashed controllers *)
(* leave it behind and failed workers may have written it.                 *)
ResponseIsOwn == \A r \in Requests : response[r] \in {None, r}

(* A request counted as done with success has its response, and a trace is *)
(* deleted only after the proof it was needed for is in place, whatever    *)
(* crash comes between the steps of the success path.  The one exception   *)
(* is a spot reclaim that removes the temporary file of a finished proof:  *)
(* the handler and the success path share no lock.                         *)
ProofKept ==
  \A r \in Requests :
    file[r].at = "succeeded" \/ ~trace[r] => response[r] # None \/ r \in dropped

Working == {"locked", "run", "respond", "trace", "done", "fail", "defer", "killed"}

(* A controller does not lose track of an execution request it has locked: *)
(* it is working on it, or will put it back when it stops, or it is down   *)
(* and recovers the file when it starts.  Only a spot reclaim can end with *)
(* the file still locked.                                                  *)
NothingStranded ==
  \A c \in Controllers, r \in Requests :
    file[r].owner = c /\ Kind[r] = "execution" =>
      \/ ctl[c].pc \in {"start", "down"} \/ ctl[c].spotReclaimDetected
      \/ /\ ctl[c].pc \in Working \/ (ctl[c].pc \in {"loop", "stop"} /\ ctl[c].active)
         /\ ctl[c].job.req = r

(* Every signal stops the controller it was sent to, whatever it was doing: *)
(* when there are no more signals, no controller is left that got one and  *)
(* still runs.                                                             *)
SignalStops ==
  <>[] \A c \in Controllers :
         ctl[c].spotReclaimDetected \/ ctl[c].gracefulShutdownRequested => ~Up(c)

\* No controller looks for a file of this name, or it was locked by a crashed
\* controller and is not an execution request.
OutOfReach(r) ==
  LET c == file[r].owner
  IN  IF c = None
      THEN \A d \in Controllers : ~Matches(d, r, file[r].name)
      ELSE Kind[r] # "execution" /\ (ctl[c].job = None \/ ctl[c].job.req # r)

(* Every request is answered in the end, with success or failure, unless   *)
(* its name takes it out of reach: no crash, signal or lost race for a lock *)
(* leaves it waiting for ever.                                             *)
RequestsSettle ==
  <>[] \A r \in Requests :
         file[r].at \in {"absent", "succeeded", "failed"} \/ OutOfReach(r)
=============================================================================
