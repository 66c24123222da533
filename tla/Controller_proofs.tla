-------------------------- MODULE Controller_proofs --------------------------
(* Proofs about Controller: for any number of controllers and requests, the *)
(* responses are the right ones, a success has its response, and a          *)
(* controller that was not reclaimed leaves no execution request locked.    *)
EXTENDS Controller, TLAPS

IsFile(f) == f = [at |-> f.at, name |-> f.name, owner |-> f.owner]

IsCtl(s) ==
  s = [pc |-> s.pc, todo |-> s.todo, job |-> s.job, active |-> s.active,
       worker |-> s.worker, retried |-> s.retried, handler |-> s.handler,
       waiter |-> s.waiter, spotReclaimDetected |-> s.spotReclaimDetected,
       gracefulShutdownRequested |-> s.gracefulShutdownRequested,
       cancelled |-> s.cancelled]

Shape ==
  /\ file = [r \in Requests |-> file[r]] /\ \A r \in Requests : IsFile(file[r])
  /\ tmp = [p \in Controllers \X Kinds |-> tmp[p]]
  /\ response = [r \in Requests |-> response[r]]
  /\ trace = [r \in Requests |-> trace[r]]
  /\ ctl = [c \in Controllers |-> ctl[c]] /\ \A c \in Controllers : IsCtl(ctl[c])

\* Where a controller may be when a worker it has killed still runs.
Stopping == {"killed", "loop", "stop", "sleep"}

\* Where a controller is, and what it knows there.
Place(s) ==
  /\ s.pc \in Working \union {"clear"} \/ s.active => s.job.req \in Requests
  /\ \A j \in s.todo : j.req \in Requests
  /\ s.worker # None => /\ s.pc = "run" \/ (s.pc \in Stopping /\ s.cancelled)
                        /\ s.job.req \in Requests
  /\ s.pc \in {"killed", "stop", "sleep"} => s.cancelled
  /\ s.pc = "sleep" => s.spotReclaimDetected
  /\ s.pc = "loop" /\ s.active => s.cancelled
  /\ s.handler # "idle" => s.spotReclaimDetected
  /\ s.handler = "requeue" => s.active
  /\ s.waiter => s.gracefulShutdownRequested
  /\ s.cancelled => s.spotReclaimDetected \/ s.gracefulShutdownRequested
  /\ s.pc \in Working \ {"locked"} => s.active \/ s.spotReclaimDetected
  /\ s.pc \in {"start", "lock", "locked", "exited", "down"} => ~s.active

Places == \A c \in Controllers : Place(ctl[c])

-----------------------------------------------------------------------------
(* The shape of the state *)

LEMMA InitShape == Init => Shape /\ Places
  <1> SUFFICES ASSUME Init PROVE Shape /\ Places  OBVIOUS
  <1>1. Shape  BY DEF Init, Shape, IsFile, IsCtl, InDone, Fresh
  <1>2. Places  BY DEF Init, Places, Place, Fresh, Working
  <1> QED  BY <1>1, <1>2

CtlShape == ctl = [c \in Controllers |-> ctl[c]] /\ \A c \in Controllers : IsCtl(ctl[c])

LEMMA CtlShapeKept ==
    ASSUME Shape, NEW c \in Controllers,
           Steps(c) \/ SIGUSR1(c) \/ SIGTERM(c) \/ Crash(c)
    PROVE  CtlShape'
  <1>1. CASE rmPrevDanglingFiles(c)
    <2>1. ctl' = [d \in Controllers |-> ctl'[d]]  BY <1>1 DEF rmPrevDanglingFiles, Shape
    <2>2. \A d \in Controllers : IsCtl(ctl'[d])
      BY <1>1 DEF rmPrevDanglingFiles, Shape, IsCtl
    <2> QED  BY <2>1, <2>2 DEF CtlShape
  <1>2. CASE ListJobs(c)
    <2>1. ctl' = [d \in Controllers |-> ctl'[d]]  BY <1>2 DEF ListJobs, Shape
    <2>2. \A d \in Controllers : IsCtl(ctl'[d])  BY <1>2 DEF ListJobs, Shape, IsCtl
    <2> QED  BY <2>1, <2>2 DEF CtlShape
  <1>3. CASE tryLockFile(c)
    <2>1. ctl' = [d \in Controllers |-> ctl'[d]]  BY <1>3 DEF tryLockFile, Shape
    <2>2. \A d \in Controllers : IsCtl(ctl'[d])  BY <1>3 DEF tryLockFile, Shape, IsCtl
    <2> QED  BY <2>1, <2>2 DEF CtlShape
  <1>4. CASE StartJob(c)
    <2>1. ctl' = [d \in Controllers |-> ctl'[d]]  BY <1>4 DEF StartJob, Shape
    <2>2. \A d \in Controllers : IsCtl(ctl'[d])  BY <1>4 DEF StartJob, Shape, IsCtl
    <2> QED  BY <2>1, <2>2 DEF CtlShape
  <1>5. CASE RunReturns(c)
    <2>1. \/ ctl' = [ctl EXCEPT ![c].worker = "running", ![c].retried = TRUE]
          \/ \E q : ctl' = [ctl EXCEPT ![c].worker = None, ![c].pc = q]
      BY <1>5 DEF RunReturns
    <2>2. ctl' = [d \in Controllers |-> ctl'[d]]  BY <2>1 DEF Shape
    <2>3. CASE ctl' = [ctl EXCEPT ![c].worker = "running", ![c].retried = TRUE]
      BY <2>2, <2>3 DEF Shape, IsCtl, CtlShape
    <2>4. ASSUME NEW q, ctl' = [ctl EXCEPT ![c].worker = None, ![c].pc = q]
          PROVE  CtlShape'
      BY <2>2, <2>4 DEF Shape, IsCtl, CtlShape
    <2> QED  BY <2>1, <2>3, <2>4
  <1>6. CASE RunKilled(c)
    <2>1. ctl' = [d \in Controllers |-> ctl'[d]]  BY <1>6 DEF RunKilled, Shape
    <2>2. \A d \in Controllers : IsCtl(ctl'[d])  BY <1>6 DEF RunKilled, Shape, IsCtl
    <2> QED  BY <2>1, <2>2 DEF CtlShape
  <1>7. CASE Respond(c)
    <2>1. ctl' = [d \in Controllers |-> ctl'[d]]  BY <1>7 DEF Respond, Shape
    <2>2. \A d \in Controllers : IsCtl(ctl'[d])  BY <1>7 DEF Respond, Shape, IsCtl
    <2> QED  BY <2>1, <2>2 DEF CtlShape
  <1>8. CASE tryDeleteExecution(c)
    <2>1. ctl' = [d \in Controllers |-> ctl'[d]]  BY <1>8 DEF tryDeleteExecution, Shape
    <2>2. \A d \in Controllers : IsCtl(ctl'[d])
      BY <1>8 DEF tryDeleteExecution, Shape, IsCtl
    <2> QED  BY <2>1, <2>2 DEF CtlShape
  <1>9. CASE MoveRequest(c)
    <2>1. ctl' = [d \in Controllers |-> ctl'[d]]
      BY <1>9 DEF MoveRequest, MoveInProgress, Shape
    <2>2. \A d \in Controllers : IsCtl(ctl'[d])
      BY <1>9 DEF MoveRequest, MoveInProgress, Shape, IsCtl
    <2> QED  BY <2>1, <2>2 DEF CtlShape
  <1>10. CASE ClearJob(c)
    <2>1. ctl' = [d \in Controllers |-> ctl'[d]]  BY <1>10 DEF ClearJob, Shape
    <2>2. \A d \in Controllers : IsCtl(ctl'[d])  BY <1>10 DEF ClearJob, Shape, IsCtl
    <2> QED  BY <2>1, <2>2 DEF CtlShape
  <1>11. CASE AfterKill(c)
    <2>1. ctl' = [d \in Controllers |-> ctl'[d]]  BY <1>11 DEF AfterKill, Shape
    <2>2. \A d \in Controllers : IsCtl(ctl'[d])  BY <1>11 DEF AfterKill, Shape, IsCtl
    <2> QED  BY <2>1, <2>2 DEF CtlShape
  <1>12. CASE SeeDone(c)
    <2>1. ctl' = [d \in Controllers |-> ctl'[d]]  BY <1>12 DEF SeeDone, Shape
    <2>2. \A d \in Controllers : IsCtl(ctl'[d])  BY <1>12 DEF SeeDone, Shape, IsCtl
    <2> QED  BY <2>1, <2>2 DEF CtlShape
  <1>13. CASE Exit(c)
    <2>1. ctl' = [d \in Controllers |-> ctl'[d]]
      BY <1>13 DEF Exit, MoveInProgress, Fresh, Shape
    <2>2. \A d \in Controllers : IsCtl(ctl'[d])
      BY <1>13 DEF Exit, MoveInProgress, Fresh, Shape, IsCtl
    <2> QED  BY <2>1, <2>2 DEF CtlShape
  <1>14. CASE WorkerExits(c)
    <2>1. ctl' = [d \in Controllers |-> ctl'[d]]  BY <1>14 DEF WorkerExits, Shape
    <2>2. \A d \in Controllers : IsCtl(ctl'[d])  BY <1>14 DEF WorkerExits, Shape, IsCtl
    <2> QED  BY <2>1, <2>2 DEF CtlShape
  <1>15. CASE RemoveTmp(c)
    <2>1. \E h : ctl' = [ctl EXCEPT ![c].handler = h]  BY <1>15 DEF RemoveTmp
    <2>2. ctl' = [d \in Controllers |-> ctl'[d]]  BY <2>1 DEF Shape
    <2>3. \A d \in Controllers : IsCtl(ctl'[d])  BY <2>1 DEF Shape, IsCtl
    <2> QED  BY <2>2, <2>3 DEF CtlShape
  <1>16. CASE Requeue(c)
    <2>1. ctl' = [d \in Controllers |-> ctl'[d]]
      BY <1>16 DEF Requeue, MoveInProgress, Shape
    <2>2. \A d \in Controllers : IsCtl(ctl'[d])
      BY <1>16 DEF Requeue, MoveInProgress, Shape, IsCtl
    <2> QED  BY <2>1, <2>2 DEF CtlShape
  <1>17. CASE GraceEnds(c)
    <2>1. ctl' = [d \in Controllers |-> ctl'[d]]  BY <1>17 DEF GraceEnds, Shape
    <2>2. \A d \in Controllers : IsCtl(ctl'[d])  BY <1>17 DEF GraceEnds, Shape, IsCtl
    <2> QED  BY <2>1, <2>2 DEF CtlShape
  <1>18. CASE Restart(c)
    <2>1. ctl' = [d \in Controllers |-> ctl'[d]]  BY <1>18 DEF Restart, Fresh, Shape
    <2>2. \A d \in Controllers : IsCtl(ctl'[d])  BY <1>18 DEF Restart, Fresh, Shape, IsCtl
    <2> QED  BY <2>1, <2>2 DEF CtlShape
  <1>19. CASE SIGUSR1(c)
    <2>1. ctl' = [d \in Controllers |-> ctl'[d]]  BY <1>19 DEF SIGUSR1, Signal, Shape
    <2>2. \A d \in Controllers : IsCtl(ctl'[d])  BY <1>19 DEF SIGUSR1, Signal, Shape, IsCtl
    <2> QED  BY <2>1, <2>2 DEF CtlShape
  <1>20. CASE SIGTERM(c)
    <2>1. ctl' = [d \in Controllers |-> ctl'[d]]  BY <1>20 DEF SIGTERM, Signal, Shape
    <2>2. \A d \in Controllers : IsCtl(ctl'[d])  BY <1>20 DEF SIGTERM, Signal, Shape, IsCtl
    <2> QED  BY <2>1, <2>2 DEF CtlShape
  <1>21. CASE Crash(c)
    <2>1. ctl' = [d \in Controllers |-> ctl'[d]]  BY <1>21 DEF Crash, Fresh, Shape
    <2>2. \A d \in Controllers : IsCtl(ctl'[d])  BY <1>21 DEF Crash, Fresh, Shape, IsCtl
    <2> QED  BY <2>1, <2>2 DEF CtlShape
  <1> QED  BY <1>1, <1>2, <1>3, <1>4, <1>5, <1>6, <1>7, <1>8, <1>9, <1>10, <1>11, <1>12,
              <1>13, <1>14, <1>15, <1>16, <1>17, <1>18, <1>19, <1>20, <1>21 DEF Steps,
              Main, Handler

LEMMA PlacesKept ==
    ASSUME Shape, Places, NEW c \in Controllers,
           Steps(c) \/ SIGUSR1(c) \/ SIGTERM(c) \/ Crash(c)
    PROVE  Places'
  <1>1. CASE rmPrevDanglingFiles(c)
    BY <1>1 DEF rmPrevDanglingFiles, Shape, IsCtl, Places, Place, Stopping, Working
  <1>2. CASE ListJobs(c)
    <2> DEFINE jobs == {[req |-> r, name |-> file[r].name] :
                          r \in {q \in Requests : /\ file[q].at = "from" /\ file[q].owner = None
                                                  /\ Matches(c, q, file[q].name)}}
    <2>1. /\ ctl[c].pc = "loop" /\ ~ctl[c].cancelled
          /\ ctl' = [ctl EXCEPT ![c].pc = "lock", ![c].todo = jobs]
      BY <1>2 DEF ListJobs
    <2>2. \A j \in jobs : j.req \in Requests  OBVIOUS
    <2> HIDE DEF jobs
    <2> QED  BY <2>1, <2>2 DEF Shape, IsCtl, Places, Place, Stopping, Working
  <1>3. CASE tryLockFile(c)
    <2>1. PICK j \in ctl[c].todo :
            \/ ctl' = [ctl EXCEPT ![c].pc = "locked", ![c].todo = {}, ![c].job = j]
            \/ \E q \in {"loop", "lock"} :
                 ctl' = [ctl EXCEPT ![c].todo = @ \ {j}, ![c].pc = q]
      BY <1>3 DEF tryLockFile
    <2>2. ctl[c].pc = "lock" /\ j.req \in Requests
      BY <1>3 DEF tryLockFile, Places, Place
    <2>3. CASE ctl' = [ctl EXCEPT ![c].pc = "locked", ![c].todo = {}, ![c].job = j]
      BY <2>2, <2>3 DEF Shape, IsCtl, Places, Place, Stopping, Working
    <2>4. ASSUME NEW q \in {"loop", "lock"},
                 ctl' = [ctl EXCEPT ![c].todo = @ \ {j}, ![c].pc = q]
          PROVE  Places'
      BY <2>2, <2>4 DEF Shape, IsCtl, Places, Place, Stopping, Working
    <2> QED  BY <2>1, <2>3, <2>4
  <1>4. CASE StartJob(c)
    BY <1>4 DEF StartJob, Shape, IsCtl, Places, Place, Stopping, Working, MutexFree
  <1>5. CASE RunReturns(c)
    <2>1. ctl[c].pc = "run"  BY <1>5 DEF RunReturns
    <2> DEFINE execution == Kind[ctl[c].job.req] = "execution"
               next == CASE ctl[c].worker = "success" -> "respond"
                         [] execution /\ ctl[c].worker \in DeferToOtherLargeCodes -> "defer"
                         [] OTHER -> "fail"
    <2>a. \/ ctl' = [ctl EXCEPT ![c].worker = "running", ![c].retried = TRUE]
          \/ ctl' = [ctl EXCEPT ![c].worker = None, ![c].pc = next]
      BY <1>5 DEF RunReturns
    <2>b. next \in {"respond", "defer", "fail"}  OBVIOUS
    <2> HIDE DEF next
    <2>2. \/ ctl' = [ctl EXCEPT ![c].worker = "running", ![c].retried = TRUE]
          \/ \E q \in {"respond", "defer", "fail"} :
               ctl' = [ctl EXCEPT ![c].worker = None, ![c].pc = q]
      BY <2>a, <2>b
    <2>3. CASE ctl' = [ctl EXCEPT ![c].worker = "running", ![c].retried = TRUE]
      BY <2>1, <2>3 DEF Shape, IsCtl, Places, Place, Stopping, Working
    <2>4. ASSUME NEW q \in {"respond", "defer", "fail"},
                 ctl' = [ctl EXCEPT ![c].worker = None, ![c].pc = q]
          PROVE  Places'
      BY <2>1, <2>4 DEF Shape, IsCtl, Places, Place, Stopping, Working
    <2> QED  BY <2>2, <2>3, <2>4
  <1>6. CASE RunKilled(c)
    BY <1>6 DEF RunKilled, Shape, IsCtl, Places, Place, Stopping, Working
  <1>7. CASE Respond(c)
    BY <1>7 DEF Respond, Shape, IsCtl, Places, Place, Stopping, Working
  <1>8. CASE tryDeleteExecution(c)
    BY <1>8 DEF tryDeleteExecution, Shape, IsCtl, Places, Place, Stopping, Working
  <1>9. CASE MoveRequest(c)
    BY <1>9 DEF MoveRequest, MoveInProgress, Shape, IsCtl, Places, Place, Stopping, Working
  <1>10. CASE ClearJob(c)
    BY <1>10 DEF ClearJob, Shape, IsCtl, Places, Place, Stopping, Working, MutexFree
  <1>11. CASE AfterKill(c)
    BY <1>11 DEF AfterKill, Shape, IsCtl, Places, Place, Stopping, Working
  <1>12. CASE SeeDone(c)
    BY <1>12 DEF SeeDone, Shape, IsCtl, Places, Place, Stopping, Working
  <1>13. CASE Exit(c)
    BY <1>13 DEF Exit, MoveInProgress, Fresh, Shape, IsCtl, Places, Place, Stopping, Working,
       MutexFree
  <1>14. CASE WorkerExits(c)
    <2>1. ctl[c].worker = "running" /\ \E code : ctl' = [ctl EXCEPT ![c].worker = code]
      BY <1>14 DEF WorkerExits
    <2>2. /\ ctl[c].pc = "run" \/ (ctl[c].pc \in Stopping /\ ctl[c].cancelled)
          /\ ctl[c].job.req \in Requests
      BY <2>1, ControllerAssumption DEF Places, Place
    <2> QED  BY <2>1, <2>2 DEF Shape, IsCtl, Places, Place
  <1>15. CASE RemoveTmp(c)
    <2>1. \/ ctl[c].active /\ ctl' = [ctl EXCEPT ![c].handler = "requeue"]
          \/ ctl' = [ctl EXCEPT ![c].handler = "idle"]
      BY <1>15 DEF RemoveTmp
    <2>2. ctl[c].spotReclaimDetected  BY <1>15 DEF RemoveTmp, Places, Place
    <2> QED  BY <2>1, <2>2 DEF Shape, IsCtl, Places, Place
  <1>16. CASE Requeue(c)
    BY <1>16 DEF Requeue, MoveInProgress, Shape, IsCtl, Places, Place, Stopping, Working
  <1>17. CASE GraceEnds(c)
    BY <1>17 DEF GraceEnds, Shape, IsCtl, Places, Place, Stopping, Working
  <1>18. CASE Restart(c)
    BY <1>18 DEF Restart, Fresh, Shape, IsCtl, Places, Place, Stopping, Working
  <1>19. CASE SIGUSR1(c)
    <2>1. PICK b : ctl' = [ctl EXCEPT ![c].spotReclaimDetected = TRUE,
                                      ![c].cancelled = b, ![c].handler = "reclaim"]
      BY <1>19 DEF SIGUSR1
    <2>2. ctl[c].cancelled => ctl'[c].cancelled  BY <1>19 DEF SIGUSR1, Shape, IsCtl
    <2> QED  BY <2>1, <2>2 DEF Shape, IsCtl, Places, Place
  <1>20. CASE SIGTERM(c)
    <2>1. PICK a, b : ctl' = [ctl EXCEPT ![c].gracefulShutdownRequested = TRUE,
                                         ![c].waiter = a, ![c].cancelled = b]
      BY <1>20 DEF SIGTERM
    <2>2. ctl[c].cancelled => ctl'[c].cancelled  BY <1>20 DEF SIGTERM, Shape, IsCtl
    <2> QED  BY <2>1, <2>2 DEF Shape, IsCtl, Places, Place
  <1>21. CASE Crash(c)
    BY <1>21 DEF Crash, Fresh, Shape, IsCtl, Places, Place, Stopping, Working
  <1> QED  BY <1>1, <1>2, <1>3, <1>4, <1>5, <1>6, <1>7, <1>8, <1>9, <1>10, <1>11, <1>12,
              <1>13, <1>14, <1>15, <1>16, <1>17, <1>18, <1>19, <1>20, <1>21 DEF Steps,
              Main, Handler

-----------------------------------------------------------------------------
(* What a step changes *)

LEMMA OthersKeep ==
    ASSUME Shape, Places, NEW c \in Controllers,
           Steps(c) \/ SIGUSR1(c) \/ SIGTERM(c) \/ Crash(c)
    PROVE  \A d \in Controllers \ {c} : ctl'[d] = ctl[d]
  <1>1. CASE rmPrevDanglingFiles(c)  BY <1>1 DEF rmPrevDanglingFiles, Shape
  <1>2. CASE ListJobs(c)  BY <1>2 DEF ListJobs, Shape
  <1>3. CASE tryLockFile(c)  BY <1>3 DEF tryLockFile, Shape
  <1>4. CASE StartJob(c)  BY <1>4 DEF StartJob, Shape
  <1>5. CASE RunReturns(c)  BY <1>5 DEF RunReturns, Shape
  <1>6. CASE RunKilled(c)  BY <1>6 DEF RunKilled, Shape
  <1>7. CASE Respond(c)  BY <1>7 DEF Respond, Shape
  <1>8. CASE tryDeleteExecution(c)  BY <1>8 DEF tryDeleteExecution, Shape
  <1>9. CASE MoveRequest(c)  BY <1>9 DEF MoveRequest, MoveInProgress, Shape
  <1>10. CASE ClearJob(c)  BY <1>10 DEF ClearJob, Shape
  <1>11. CASE AfterKill(c)  BY <1>11 DEF AfterKill, Shape
  <1>12. CASE SeeDone(c)  BY <1>12 DEF SeeDone, Shape
  <1>13. CASE Exit(c)  BY <1>13 DEF Exit, MoveInProgress, Fresh, Shape
  <1>14. CASE WorkerExits(c)  BY <1>14 DEF WorkerExits, Shape
  <1>15. CASE RemoveTmp(c)  BY <1>15 DEF RemoveTmp, Shape
  <1>16. CASE Requeue(c)  BY <1>16 DEF Requeue, MoveInProgress, Shape
  <1>17. CASE GraceEnds(c)  BY <1>17 DEF GraceEnds, Shape
  <1>18. CASE Restart(c)  BY <1>18 DEF Restart, Fresh, Shape
  <1>19. CASE SIGUSR1(c)  BY <1>19 DEF SIGUSR1, Signal, Shape
  <1>20. CASE SIGTERM(c)  BY <1>20 DEF SIGTERM, Signal, Shape
  <1>21. CASE Crash(c)  BY <1>21 DEF Crash, Fresh, Shape
  <1> QED  BY <1>1, <1>2, <1>3, <1>4, <1>5, <1>6, <1>7, <1>8, <1>9, <1>10, <1>11, <1>12,
              <1>13, <1>14, <1>15, <1>16, <1>17, <1>18, <1>19, <1>20, <1>21 DEF Steps,
              Main, Handler

\* Only the files this controller has locked, or locks, are moved.
FileStep(c) ==
  /\ file' = [r \in Requests |-> file'[r]] /\ \A r \in Requests : IsFile(file'[r])
  /\ \A r \in Requests :
       file'[r] # file[r] => file[r].owner \in {None, c} /\ file'[r].owner \in {None, c}

LEMMA Moved ==
    ASSUME Shape, NEW c \in Controllers, ctl[c].job.req \in Requests,
           NEW to, IsFile(to), to.owner = None, MoveInProgress(c, to)
    PROVE  FileStep(c)
  <1> DEFINE r == ctl[c].job.req
  <1>1. CASE ~InProgress(c)  BY <1>1 DEF MoveInProgress, FileStep, Shape
  <1>2. CASE InProgress(c)
    <2>1. file' = [file EXCEPT ![r] = to]  BY <1>2 DEF MoveInProgress
    <2>2. file[r].owner = c  BY <1>2 DEF InProgress, InFrom
    <2>3. file'[r] = to /\ \A q \in Requests \ {r} : file'[q] = file[q]
      BY <2>1 DEF Shape
    <2>4. file' = [q \in Requests |-> file'[q]]  BY <2>1 DEF Shape
    <2>5. \A q \in Requests : IsFile(file'[q])  BY <2>3 DEF Shape
    <2> QED  BY <2>2, <2>3, <2>4, <2>5 DEF FileStep
  <1> QED  BY <1>1, <1>2

LEMMA FileKept ==
    ASSUME Shape, Places, NEW c \in Controllers,
           Steps(c) \/ SIGUSR1(c) \/ SIGTERM(c) \/ Crash(c)
    PROVE  FileStep(c)
  <1>1. CASE rmPrevDanglingFiles(c)
    BY <1>1 DEF rmPrevDanglingFiles, Shape, FileStep, IsFile, InFrom
  <1>2. CASE ListJobs(c)  BY <1>2 DEF ListJobs, Shape, FileStep
  <1>3. CASE tryLockFile(c)
    <2>1. PICK j \in ctl[c].todo :
            \/ file' = file
            \/ /\ file[j.req] = InFrom(j.name, None)
               /\ file' = [file EXCEPT ![j.req] = InFrom(j.name, c)]
      BY <1>3 DEF tryLockFile
    <2>2. j.req \in Requests  BY DEF Places, Place
    <2> QED  BY <2>1, <2>2 DEF Shape, FileStep, IsFile, InFrom
  <1>4. CASE StartJob(c)  BY <1>4 DEF StartJob, Shape, FileStep
  <1>5. CASE RunReturns(c)  BY <1>5 DEF RunReturns, Shape, FileStep
  <1>6. CASE RunKilled(c)  BY <1>6 DEF RunKilled, Shape, FileStep
  <1>7. CASE Respond(c)  BY <1>7 DEF Respond, Shape, FileStep
  <1>8. CASE tryDeleteExecution(c)  BY <1>8 DEF tryDeleteExecution, Shape, FileStep
  <1>9. CASE MoveRequest(c)
    <2>1. \E to : IsFile(to) /\ to.owner = None /\ MoveInProgress(c, to)
      BY <1>9 DEF MoveRequest, DoneFile, DeferToLargeFile, InDone, InFrom, IsFile
    <2>2. ctl[c].job.req \in Requests  BY <1>9 DEF MoveRequest, Places, Place, Stopping, Working
    <2> QED  BY <2>1, <2>2, Moved
  <1>10. CASE ClearJob(c)  BY <1>10 DEF ClearJob, Shape, FileStep
  <1>11. CASE AfterKill(c)  BY <1>11 DEF AfterKill, Shape, FileStep
  <1>12. CASE SeeDone(c)  BY <1>12 DEF SeeDone, Shape, FileStep
  <1>13. CASE Exit(c)
    <2>1. CASE file' = file  BY <2>1 DEF Shape, FileStep
    <2>2. CASE ctl[c].active /\ MoveInProgress(c, InFrom(ctl[c].job.name, None))
      <3>1. ctl[c].job.req \in Requests  BY <2>2 DEF Places, Place
      <3> QED  BY <2>2, <3>1, Moved DEF InFrom, IsFile
    <2> QED  BY <1>13, <2>1, <2>2 DEF Exit
  <1>14. CASE WorkerExits(c)  BY <1>14 DEF WorkerExits, Shape, FileStep
  <1>15. CASE RemoveTmp(c)  BY <1>15 DEF RemoveTmp, Shape, FileStep
  <1>16. CASE Requeue(c)
    <2>1. MoveInProgress(c, InFrom(ctl[c].job.name, None))  BY <1>16 DEF Requeue
    <2>2. ctl[c].job.req \in Requests  BY <1>16 DEF Requeue, Places, Place
    <2> QED  BY <2>1, <2>2, Moved DEF InFrom, IsFile
  <1>17. CASE GraceEnds(c)  BY <1>17 DEF GraceEnds, Shape, FileStep
  <1>18. CASE Restart(c)  BY <1>18 DEF Restart, Shape, FileStep
  <1>19. CASE SIGUSR1(c)  BY <1>19 DEF SIGUSR1, Signal, Shape, FileStep
  <1>20. CASE SIGTERM(c)  BY <1>20 DEF SIGTERM, Signal, Shape, FileStep
  <1>21. CASE Crash(c)  BY <1>21 DEF Crash, Shape, FileStep
  <1> QED  BY <1>1, <1>2, <1>3, <1>4, <1>5, <1>6, <1>7, <1>8, <1>9, <1>10, <1>11, <1>12,
              <1>13, <1>14, <1>15, <1>16, <1>17, <1>18, <1>19, <1>20, <1>21 DEF Steps,
              Main, Handler

-----------------------------------------------------------------------------
(* Locked requests *)

\* The controller has the lock of r and knows it under its present name.
Held(c, r) ==
  /\ ctl[c].pc \in Working \/ (ctl[c].pc \in {"loop", "stop"} /\ ctl[c].active)
  /\ ctl[c].job.req = r /\ file[r] = InFrom(ctl[c].job.name, c)

Locked(c) ==
  \A r \in Requests :
    file[r].owner = c /\ Kind[r] = "execution" =>
      \/ ctl[c].pc \in {"start", "down"} \/ ctl[c].spotReclaimDetected
      \/ Held(c, r)

LEMMA LockedByOthers ==
    ASSUME Shape, NEW c \in Controllers, FileStep(c),
           NEW d \in Controllers \ {c}, ctl'[d] = ctl[d], Locked(d)
    PROVE  Locked(d)'
  <1>1. \A r \in Requests : file'[r].owner = d => file'[r] = file[r]
    BY ControllerAssumption DEF FileStep
  <1> QED  BY <1>1 DEF Locked, Held

\* A held request that is moved is no longer locked.
LEMMA PutBack ==
    ASSUME Shape, NEW c \in Controllers, Locked(c), ctl[c].job.req \in Requests,
           ctl[c].pc \notin {"start", "down"},
           NEW to, to.owner = None, MoveInProgress(c, to)
    PROVE  \A r \in Requests :
             file'[r].owner = c /\ Kind[r] = "execution" => ctl[c].spotReclaimDetected
  <1>1. None # c  BY ControllerAssumption
  <1>2. CASE InProgress(c)
    <2>1. file' = [file EXCEPT ![ctl[c].job.req] = to]  BY <1>2 DEF MoveInProgress
    <2> QED  BY <1>1, <2>1 DEF Shape, Locked, Held
  <1>3. CASE ~InProgress(c)
    BY <1>3 DEF MoveInProgress, InProgress, Locked, Held
  <1> QED  BY <1>2, <1>3

LEMMA LockedKept ==
    ASSUME Shape, Places, NEW c \in Controllers, Locked(c),
           Steps(c) \/ SIGUSR1(c) \/ SIGTERM(c) \/ Crash(c)
    PROVE  Locked(c)'
  <1>1. CASE rmPrevDanglingFiles(c)
    <2>1. \A r \in Requests : Kind[r] = "execution" => file'[r].owner # c
      BY <1>1, ControllerAssumption DEF rmPrevDanglingFiles, InFrom
    <2> QED  BY <2>1 DEF Locked
  <1>2. CASE ListJobs(c)
    BY <1>2 DEF ListJobs, Shape, IsCtl, Places, Place, Locked, Held, Working
  <1>3. CASE tryLockFile(c)
    <2>1. ctl[c].pc = "lock"  BY <1>3 DEF tryLockFile
    <2>2. \A r \in Requests :
            file[r].owner = c /\ Kind[r] = "execution" => ctl[c].spotReclaimDetected
      BY <2>1 DEF Locked, Held, Working
    <2>3. ctl'[c].spotReclaimDetected = ctl[c].spotReclaimDetected
      BY <1>3 DEF tryLockFile, Shape, IsCtl
    <2>4. PICK j \in ctl[c].todo :
            \/ file' = file
            \/ /\ file' = [file EXCEPT ![j.req] = InFrom(j.name, c)]
               /\ ctl' = [ctl EXCEPT ![c].pc = "locked", ![c].todo = {}, ![c].job = j]
      BY <1>3 DEF tryLockFile
    <2>5. CASE file' = file  BY <2>2, <2>3, <2>5 DEF Locked
    <2>6. CASE /\ file' = [file EXCEPT ![j.req] = InFrom(j.name, c)]
               /\ ctl' = [ctl EXCEPT ![c].pc = "locked", ![c].todo = {}, ![c].job = j]
      <3>1. ctl'[c].pc = "locked" /\ ctl'[c].job = j  BY <2>6 DEF Shape, IsCtl
      <3>2. j.req \in Requests  BY DEF Places, Place
      <3>3. /\ file'[j.req] = InFrom(j.name, c)
            /\ \A r \in Requests \ {j.req} : file'[r] = file[r]
        BY <2>6, <3>2 DEF Shape
      <3> QED  BY <2>2, <2>3, <3>1, <3>3 DEF Locked, Held, Working
    <2> QED  BY <2>4, <2>5, <2>6
  <1>4. CASE StartJob(c)
    BY <1>4 DEF StartJob, Shape, IsCtl, Places, Place, Locked, Held, Working
  <1>5. CASE RunReturns(c)
    BY <1>5 DEF RunReturns, Shape, IsCtl, Places, Place, Locked, Held, Working
  <1>6. CASE RunKilled(c)
    BY <1>6 DEF RunKilled, Shape, IsCtl, Places, Place, Locked, Held, Working
  <1>7. CASE Respond(c)
    <2>1. /\ ctl[c].pc = "respond" /\ ctl'[c].pc = "trace" /\ ctl'[c].job = ctl[c].job
          /\ ctl'[c].spotReclaimDetected = ctl[c].spotReclaimDetected
      BY <1>7 DEF Respond, Shape, IsCtl
    <2> QED  BY <1>7, <2>1 DEF Respond, Locked, Held, Working
  <1>8. CASE tryDeleteExecution(c)
    <2>1. /\ ctl[c].pc = "trace" /\ ctl'[c].pc = "done" /\ ctl'[c].job = ctl[c].job
          /\ ctl'[c].spotReclaimDetected = ctl[c].spotReclaimDetected
      BY <1>8 DEF tryDeleteExecution, Shape, IsCtl
    <2> QED  BY <1>8, <2>1 DEF tryDeleteExecution, Locked, Held, Working
  <1>9. CASE MoveRequest(c)
    <2>1. PICK to : to.owner = None /\ MoveInProgress(c, to)
      BY <1>9 DEF MoveRequest, DoneFile, DeferToLargeFile, InDone, InFrom
    <2>2. ctl[c].job.req \in Requests /\ ctl[c].pc \notin {"start", "down"}
      BY <1>9 DEF MoveRequest, Places, Place, Stopping, Working
    <2>3. ctl'[c].spotReclaimDetected = ctl[c].spotReclaimDetected
      BY <1>9 DEF MoveRequest, Shape, IsCtl
    <2> QED  BY <2>1, <2>2, <2>3, PutBack DEF Locked
  <1>10. CASE ClearJob(c)
    <2>1. /\ ctl[c].pc = "clear"
          /\ ctl'[c].spotReclaimDetected = ctl[c].spotReclaimDetected
      BY <1>10 DEF ClearJob, Shape, IsCtl
    <2> QED  BY <1>10, <2>1 DEF ClearJob, Locked, Held, Working
  <1>11. CASE AfterKill(c)
    <2>1. /\ ctl[c].pc = "killed" /\ ctl'[c].pc = "loop" /\ ctl'[c].job = ctl[c].job
          /\ ctl'[c].active = ctl[c].active
          /\ ctl[c].active \/ ctl[c].spotReclaimDetected
          /\ ctl'[c].spotReclaimDetected = ctl[c].spotReclaimDetected
      BY <1>11 DEF AfterKill, Shape, IsCtl, Places, Place, Stopping, Working
    <2> QED  BY <1>11, <2>1 DEF AfterKill, Locked, Held, Working
  <1>12. CASE SeeDone(c)
    <2>1. /\ ctl[c].pc = "loop" /\ ctl'[c].job = ctl[c].job
          /\ ctl'[c].active = ctl[c].active
          /\ ctl'[c].pc = "stop" \/ ctl[c].spotReclaimDetected
          /\ ctl'[c].spotReclaimDetected = ctl[c].spotReclaimDetected
      BY <1>12 DEF SeeDone, Shape, IsCtl
    <2> QED  BY <1>12, <2>1 DEF SeeDone, Locked, Held, Working
  <1>13. CASE Exit(c)
    <2>1. ctl'[c].spotReclaimDetected = ctl[c].spotReclaimDetected
      BY <1>13 DEF Exit, Fresh, Shape, IsCtl
    <2>2. CASE ctl[c].spotReclaimDetected  BY <2>1, <2>2 DEF Locked
    <2>3. CASE ~ctl[c].spotReclaimDetected
      <3>1. ctl[c].pc = "stop" /\ ctl[c].gracefulShutdownRequested
        BY <1>13, <2>3 DEF Exit, Places, Place
      <3>2. CASE ctl[c].active
        <4>1. MoveInProgress(c, InFrom(ctl[c].job.name, None))
          BY <1>13, <2>3, <3>1, <3>2 DEF Exit
        <4>2. ctl[c].job.req \in Requests  BY <3>2 DEF Places, Place
        <4> QED  BY <2>1, <3>1, <4>1, <4>2, PutBack DEF Locked, InFrom
      <3>3. CASE ~ctl[c].active
        <4>1. file' = file  BY <1>13, <3>3 DEF Exit
        <4> QED  BY <2>1, <3>1, <3>3, <4>1 DEF Locked, Held, Working
      <3> QED  BY <3>2, <3>3
    <2> QED  BY <2>2, <2>3
  <1>14. CASE WorkerExits(c)
    BY <1>14 DEF WorkerExits, Shape, IsCtl, Places, Place, Locked, Held, Working
  <1>15. CASE RemoveTmp(c)
    <2>1. /\ ctl[c].spotReclaimDetected
          /\ \E h : ctl' = [ctl EXCEPT ![c].handler = h]
      BY <1>15 DEF RemoveTmp, Places, Place
    <2>2. ctl'[c].spotReclaimDetected  BY <2>1 DEF Shape, IsCtl
    <2> QED  BY <2>2 DEF Locked
  <1>16. CASE Requeue(c)
    BY <1>16 DEF Requeue, MoveInProgress, Shape, IsCtl, Places, Place, Locked, Held,
       Working, InFrom, InProgress
  <1>17. CASE GraceEnds(c)
    <2>1. /\ ctl'[c].pc = ctl[c].pc /\ ctl'[c].job = ctl[c].job
          /\ ctl'[c].active = ctl[c].active
          /\ ctl'[c].spotReclaimDetected = ctl[c].spotReclaimDetected
      BY <1>17 DEF GraceEnds, Shape, IsCtl
    <2> QED  BY <1>17, <2>1 DEF GraceEnds, Locked, Held
  <1>18. CASE Restart(c)
    BY <1>18 DEF Restart, Fresh, Shape, IsCtl, Places, Place, Locked, Held, Working
  <1>19. CASE SIGUSR1(c)
    BY <1>19 DEF SIGUSR1, Signal, Shape, IsCtl, Places, Place, Locked, Held, Working
  <1>20. CASE SIGTERM(c)
    BY <1>20 DEF SIGTERM, Signal, Shape, IsCtl, Places, Place, Locked, Held, Working
  <1>21. CASE Crash(c)
    BY <1>21 DEF Crash, Fresh, Shape, IsCtl, Places, Place, Locked, Held, Working
  <1> QED  BY <1>1, <1>2, <1>3, <1>4, <1>5, <1>6, <1>7, <1>8, <1>9, <1>10, <1>11, <1>12,
              <1>13, <1>14, <1>15, <1>16, <1>17, <1>18, <1>19, <1>20, <1>21 DEF Steps,
              Main, Handler

-----------------------------------------------------------------------------
(* Proofs and responses *)

\* A step leaves the temporary files of others alone, and takes no response
\* away.
DataStep(c) ==
  /\ tmp' = [p \in Controllers \X Kinds |-> tmp'[p]]
  /\ \A d \in Controllers \ {c}, k \in Kinds : tmp'[<<d, k>>] = tmp[<<d, k>>]
  /\ response' = [r \in Requests |-> response'[r]]
  /\ \A r \in Requests : response[r] # None => response'[r] # None
  /\ trace' = [r \in Requests |-> trace'[r]]
  /\ dropped \subseteq dropped'

LEMMA DataKept ==
    ASSUME Shape, Places, NEW c \in Controllers,
           Steps(c) \/ SIGUSR1(c) \/ SIGTERM(c) \/ Crash(c)
    PROVE  DataStep(c)
  <1>1. CASE rmPrevDanglingFiles(c)  BY <1>1 DEF rmPrevDanglingFiles, Shape, DataStep
  <1>2. CASE ListJobs(c)  BY <1>2 DEF ListJobs, Shape, DataStep
  <1>3. CASE tryLockFile(c)  BY <1>3 DEF tryLockFile, Shape, DataStep
  <1>4. CASE StartJob(c)  BY <1>4 DEF StartJob, Shape, DataStep
  <1>5. CASE RunReturns(c)  BY <1>5 DEF RunReturns, Shape, DataStep
  <1>6. CASE RunKilled(c)  BY <1>6 DEF RunKilled, Shape, DataStep
  <1>7. CASE Respond(c)
    <2>1. \/ tmp' = tmp
          \/ \E r, x : tmp' = [tmp EXCEPT ![TmpResponseFile(c, r)] = x]
      BY <1>7 DEF Respond
    <2>2. /\ tmp' = [p \in Controllers \X Kinds |-> tmp'[p]]
          /\ \A d \in Controllers \ {c}, k \in Kinds : tmp'[<<d, k>>] = tmp[<<d, k>>]
      BY <2>1 DEF Shape, TmpResponseFile
    <2> QED  BY <1>7, <2>2 DEF Respond, Shape, DataStep
  <1>8. CASE tryDeleteExecution(c)  BY <1>8 DEF tryDeleteExecution, Shape, DataStep
  <1>9. CASE MoveRequest(c)  BY <1>9 DEF MoveRequest, Shape, DataStep
  <1>10. CASE ClearJob(c)  BY <1>10 DEF ClearJob, Shape, DataStep
  <1>11. CASE AfterKill(c)
    <2>1. \/ tmp' = tmp
          \/ \E r, x : tmp' = [tmp EXCEPT ![TmpResponseFile(c, r)] = x]
      BY <1>11 DEF AfterKill
    <2>2. /\ tmp' = [p \in Controllers \X Kinds |-> tmp'[p]]
          /\ \A d \in Controllers \ {c}, k \in Kinds : tmp'[<<d, k>>] = tmp[<<d, k>>]
      BY <2>1 DEF Shape, TmpResponseFile
    <2> QED  BY <1>11, <2>2 DEF AfterKill, Shape, DataStep
  <1>12. CASE SeeDone(c)  BY <1>12 DEF SeeDone, Shape, DataStep
  <1>13. CASE Exit(c)
    <2>1. \/ tmp' = tmp
          \/ \E r, x : tmp' = [tmp EXCEPT ![TmpResponseFile(c, r)] = x]
      BY <1>13 DEF Exit
    <2>2. /\ tmp' = [p \in Controllers \X Kinds |-> tmp'[p]]
          /\ \A d \in Controllers \ {c}, k \in Kinds : tmp'[<<d, k>>] = tmp[<<d, k>>]
      BY <2>1 DEF Shape, TmpResponseFile
    <2> QED  BY <1>13, <2>2 DEF Exit, Shape, DataStep
  <1>14. CASE WorkerExits(c)
    <2>1. \/ tmp' = tmp
          \/ \E r, x : tmp' = [tmp EXCEPT ![TmpResponseFile(c, r)] = x]
      BY <1>14 DEF WorkerExits
    <2>2. /\ tmp' = [p \in Controllers \X Kinds |-> tmp'[p]]
          /\ \A d \in Controllers \ {c}, k \in Kinds : tmp'[<<d, k>>] = tmp[<<d, k>>]
      BY <2>1 DEF Shape, TmpResponseFile
    <2> QED  BY <1>14, <2>2 DEF WorkerExits, Shape, DataStep
  <1>15. CASE RemoveTmp(c)
    <2>1. \/ tmp' = tmp
          \/ \E r, x : tmp' = [tmp EXCEPT ![TmpResponseFile(c, r)] = x]
      BY <1>15 DEF RemoveTmp
    <2>2. /\ tmp' = [p \in Controllers \X Kinds |-> tmp'[p]]
          /\ \A d \in Controllers \ {c}, k \in Kinds : tmp'[<<d, k>>] = tmp[<<d, k>>]
      BY <2>1 DEF Shape, TmpResponseFile
    <2> QED  BY <1>15, <2>2 DEF RemoveTmp, Shape, DataStep
  <1>16. CASE Requeue(c)  BY <1>16 DEF Requeue, Shape, DataStep
  <1>17. CASE GraceEnds(c)  BY <1>17 DEF GraceEnds, Shape, DataStep
  <1>18. CASE Restart(c)  BY <1>18 DEF Restart, Shape, DataStep
  <1>19. CASE SIGUSR1(c)  BY <1>19 DEF SIGUSR1, Signal, Shape, DataStep
  <1>20. CASE SIGTERM(c)  BY <1>20 DEF SIGTERM, Signal, Shape, DataStep
  <1>21. CASE Crash(c)  BY <1>21 DEF Crash, Shape, DataStep
  <1> QED  BY <1>1, <1>2, <1>3, <1>4, <1>5, <1>6, <1>7, <1>8, <1>9, <1>10, <1>11, <1>12,
              <1>13, <1>14, <1>15, <1>16, <1>17, <1>18, <1>19, <1>20, <1>21 DEF Steps,
              Main, Handler

\* A finished proof waits in the temporary file until it is the response.
Proved(c) ==
  LET s == ctl[c]
      r == s.job.req
      t == tmp[TmpResponseFile(c, r)]
  IN  /\ s.pc = "respond" \/ (s.pc = "run" /\ s.worker = "success") =>
           t = r \/ (t = None /\ r \in dropped)
      /\ s.pc \in {"trace", "done"} => response[r] # None \/ r \in dropped

LEMMA ProvedByOthers ==
    ASSUME Places, NEW c \in Controllers, DataStep(c),
           NEW e \in Controllers \ {c}, ctl'[e] = ctl[e], Proved(e)
    PROVE  Proved(e)'
  <1> DEFINE r == ctl[e].job.req
  <1>1. CASE ctl[e].pc \in {"respond", "run", "trace", "done"}
    <2>1. r \in Requests  BY <1>1 DEF Places, Place, Stopping, Working
    <2>2. Kind[r] \in Kinds  BY <2>1, ControllerAssumption
    <2>3. tmp'[<<e, Kind[r]>>] = tmp[<<e, Kind[r]>>]  BY <2>2 DEF DataStep
    <2> QED  BY <2>1, <2>3 DEF Proved, DataStep, TmpResponseFile
  <1>2. CASE ctl[e].pc \notin {"respond", "run", "trace", "done"}
    BY <1>2 DEF Proved
  <1> QED  BY <1>1, <1>2

LEMMA ProvedKept ==
    ASSUME Shape, Places, NEW c \in Controllers, Proved(c),
           Steps(c) \/ SIGUSR1(c) \/ SIGTERM(c) \/ Crash(c)
    PROVE  Proved(c)'
  <1>1. CASE rmPrevDanglingFiles(c)
    BY <1>1 DEF rmPrevDanglingFiles, Shape, IsCtl, Places, Place, Proved, Working
  <1>2. CASE ListJobs(c)
    <2>1. \E jobs : ctl' = [ctl EXCEPT ![c].pc = "lock", ![c].todo = jobs]
      BY <1>2 DEF ListJobs
    <2>2. ctl'[c].pc = "lock"  BY <2>1 DEF Shape, IsCtl
    <2> QED  BY <2>2 DEF Proved
  <1>3. CASE tryLockFile(c)
    BY <1>3 DEF tryLockFile, Shape, IsCtl, Places, Place, Proved, Working
  <1>4. CASE StartJob(c)
    BY <1>4 DEF StartJob, Shape, IsCtl, Places, Place, Proved, Working
  <1>5. CASE RunReturns(c)
    BY <1>5 DEF RunReturns, Shape, IsCtl, Places, Place, Proved, Working
  <1>6. CASE RunKilled(c)
    BY <1>6, ControllerAssumption DEF RunKilled, Shape, IsCtl, Places, Place, Proved, Working
  <1>7. CASE Respond(c)
    <2> DEFINE r == ctl[c].job.req
               t == tmp[TmpResponseFile(c, r)]
    <2>1. ctl[c].pc = "respond" /\ ctl'[c].pc = "trace" /\ ctl'[c].job = ctl[c].job
      BY <1>7 DEF Respond, Shape, IsCtl
    <2>2. r \in Requests  BY <2>1 DEF Places, Place, Stopping, Working
    <2>3. t = r \/ r \in dropped  BY <2>1 DEF Proved
    <2>4. t # None => response'[r] = t  BY <1>7, <2>2 DEF Respond, Shape
    <2>5. response'[r] # None \/ r \in dropped'
      BY <1>7, <2>2, <2>3, <2>4, ControllerAssumption DEF Respond
    <2> QED  BY <2>1, <2>5 DEF Proved
  <1>8. CASE tryDeleteExecution(c)
    <2>1. /\ ctl[c].pc = "trace" /\ ctl'[c].pc = "done" /\ ctl'[c].job = ctl[c].job
      BY <1>8 DEF tryDeleteExecution, Shape, IsCtl
    <2> QED  BY <1>8, <2>1 DEF tryDeleteExecution, Proved, Working
  <1>9. CASE MoveRequest(c)
    BY <1>9 DEF MoveRequest, MoveInProgress, Shape, IsCtl, Places, Place, Proved, Working
  <1>10. CASE ClearJob(c)
    BY <1>10 DEF ClearJob, Shape, IsCtl, Places, Place, Proved, Working
  <1>11. CASE AfterKill(c)
    BY <1>11 DEF AfterKill, Shape, IsCtl, Places, Place, Proved, Working, TmpResponseFile
  <1>12. CASE SeeDone(c)
    BY <1>12 DEF SeeDone, Shape, IsCtl, Places, Place, Proved, Working
  <1>13. CASE Exit(c)
    BY <1>13 DEF Exit, MoveInProgress, Fresh, Shape, IsCtl, Places, Place, Proved,
       Working, TmpResponseFile
  <1>14. CASE WorkerExits(c)
    <2> DEFINE r == ctl[c].job.req
               t == TmpResponseFile(c, r)
    <2>1. r \in Requests /\ ctl[c].pc \in {"run"} \union Stopping
      BY <1>14, ControllerAssumption DEF WorkerExits, Places, Place
    <2>2. t \in Controllers \X Kinds  BY <2>1, ControllerAssumption DEF TmpResponseFile
    <2>3. PICK code : /\ ctl' = [ctl EXCEPT ![c].worker = code]
                      /\ code = "success" => tmp' = [tmp EXCEPT ![t] = r]
      BY <1>14 DEF WorkerExits
    <2>4. /\ ctl'[c].pc = ctl[c].pc /\ ctl'[c].job = ctl[c].job
          /\ ctl'[c].worker = code
      BY <2>3 DEF Shape, IsCtl
    <2>5. code = "success" => tmp'[t] = r  BY <2>2, <2>3 DEF Shape
    <2> QED  BY <2>1, <2>4, <2>5 DEF Proved, TmpResponseFile, Stopping
  <1>15. CASE RemoveTmp(c)
    <2> DEFINE r == ctl[c].job.req
               t == TmpResponseFile(c, r)
    <2>1. \E h : ctl' = [ctl EXCEPT ![c].handler = h]  BY <1>15 DEF RemoveTmp
    <2>2. /\ ctl'[c].pc = ctl[c].pc /\ ctl'[c].job = ctl[c].job
          /\ ctl'[c].worker = ctl[c].worker
      BY <2>1 DEF Shape, IsCtl
    <2>3. CASE tmp' = tmp /\ dropped' = dropped
      BY <1>15, <2>2, <2>3 DEF RemoveTmp, Proved, TmpResponseFile
    <2>4. CASE /\ ctl[c].active /\ tmp' = [tmp EXCEPT ![t] = None]
               /\ dropped' = IF tmp[t] = None THEN dropped ELSE dropped \union {r}
      <3>1. r \in Requests /\ t \in Controllers \X Kinds
        BY <2>4, ControllerAssumption DEF Places, Place, TmpResponseFile
      <3>2. tmp'[t] = None  BY <2>4, <3>1 DEF Shape
      <3>3. (tmp[t] = None /\ dropped' = dropped) \/ r \in dropped'  BY <2>4
      <3>4. dropped \subseteq dropped' /\ response' = response  BY <1>15, <2>4 DEF RemoveTmp
      <3>5. tmp[t] = r => r \in dropped'
        BY <3>1, <3>3, ControllerAssumption
      <3> QED  BY <2>2, <3>2, <3>4, <3>5 DEF Proved, TmpResponseFile
    <2> QED  BY <1>15, <2>3, <2>4 DEF RemoveTmp
  <1>16. CASE Requeue(c)
    BY <1>16 DEF Requeue, MoveInProgress, Shape, IsCtl, Places, Place, Proved, Working
  <1>17. CASE GraceEnds(c)
    <2>1. /\ ctl'[c].pc = ctl[c].pc /\ ctl'[c].job = ctl[c].job
          /\ ctl'[c].worker = ctl[c].worker
      BY <1>17 DEF GraceEnds, Shape, IsCtl
    <2> QED  BY <1>17, <2>1 DEF GraceEnds, Proved, Working
  <1>18. CASE Restart(c)
    BY <1>18 DEF Restart, Fresh, Shape, IsCtl, Places, Place, Proved, Working
  <1>19. CASE SIGUSR1(c)
    <2>1. /\ ctl'[c].pc = ctl[c].pc /\ ctl'[c].job = ctl[c].job
          /\ ctl'[c].worker = ctl[c].worker
      BY <1>19 DEF SIGUSR1, Shape, IsCtl
    <2> QED  BY <1>19, <2>1 DEF SIGUSR1, Proved
  <1>20. CASE SIGTERM(c)
    <2>1. /\ ctl'[c].pc = ctl[c].pc /\ ctl'[c].job = ctl[c].job
          /\ ctl'[c].worker = ctl[c].worker
      BY <1>20 DEF SIGTERM, Shape, IsCtl
    <2> QED  BY <1>20, <2>1 DEF SIGTERM, Proved
  <1>21. CASE Crash(c)
    BY <1>21 DEF Crash, Fresh, Shape, IsCtl, Places, Place, Proved, Working
  <1> QED  BY <1>1, <1>2, <1>3, <1>4, <1>5, <1>6, <1>7, <1>8, <1>9, <1>10, <1>11, <1>12,
              <1>13, <1>14, <1>15, <1>16, <1>17, <1>18, <1>19, <1>20, <1>21 DEF Steps,
              Main, Handler

\* Only the success path moves a request to the done directory as a success.
LEMMA Succeeds ==
    ASSUME Shape, Places, NEW c \in Controllers, NEW r \in Requests,
           Steps(c) \/ SIGUSR1(c) \/ SIGTERM(c) \/ Crash(c),
           file'[r].at = "succeeded", file[r].at # "succeeded"
    PROVE  ctl[c].pc = "done" /\ r = ctl[c].job.req
  <1>1. ASSUME NEW to, to.at # "succeeded", MoveInProgress(c, to), ctl[c].job.req \in Requests
        PROVE  FALSE
    BY <1>1 DEF MoveInProgress, Shape
  <1>2. CASE rmPrevDanglingFiles(c)  BY <1>2 DEF rmPrevDanglingFiles, InFrom
  <1>3. CASE tryLockFile(c)
    <2>1. \/ file' = file
          \/ \E j \in ctl[c].todo : file' = [file EXCEPT ![j.req] = InFrom(j.name, c)]
      BY <1>3 DEF tryLockFile
    <2>2. \A j \in ctl[c].todo : j.req \in Requests  BY DEF Places, Place
    <2>3. CASE file' = file  BY <2>3
    <2>4. ASSUME NEW j \in ctl[c].todo, file' = [file EXCEPT ![j.req] = InFrom(j.name, c)]
          PROVE  FALSE
      <3>1. file'[j.req].at = "from"  BY <2>2, <2>4 DEF InFrom, Shape
      <3>2. \A q \in Requests \ {j.req} : file'[q] = file[q]  BY <2>2, <2>4 DEF Shape
      <3> QED  BY <3>1, <3>2
    <2> QED  BY <2>1, <2>3, <2>4
  <1>4. CASE Requeue(c)
    <2>1. ctl[c].job.req \in Requests  BY <1>4 DEF Requeue, Places, Place
    <2> QED  BY <1>1, <1>4, <2>1 DEF Requeue, InFrom
  <1>5. CASE Exit(c)
    <2>1. file' # file  OBVIOUS
    <2>2. ctl[c].active /\ MoveInProgress(c, InFrom(ctl[c].job.name, None))
      BY <1>5, <2>1 DEF Exit
    <2>3. ctl[c].job.req \in Requests  BY <2>2 DEF Places, Place
    <2> QED  BY <1>1, <2>2, <2>3 DEF InFrom
  <1>6. CASE MoveRequest(c)
    <2>1. ctl[c].job.req \in Requests  BY <1>6 DEF MoveRequest, Places, Place, Stopping, Working
    <2>2. ctl[c].pc = "done"
      BY <1>1, <1>6, <2>1 DEF MoveRequest, DoneFile, DeferToLargeFile, InDone, InFrom
    <2>3. \A q \in Requests \ {ctl[c].job.req} : file'[q] = file[q]
      BY <1>6, <2>1 DEF MoveRequest, MoveInProgress, Shape
    <2> QED  BY <2>2, <2>3
  <1>7. CASE \/ ListJobs(c) \/ StartJob(c) \/ RunReturns(c) \/ RunKilled(c)
             \/ Respond(c) \/ tryDeleteExecution(c) \/ ClearJob(c) \/ AfterKill(c)
             \/ SeeDone(c) \/ WorkerExits(c) \/ RemoveTmp(c) \/ GraceEnds(c)
             \/ Restart(c) \/ SIGUSR1(c) \/ SIGTERM(c) \/ Crash(c)
    <2>1. file' = file
      BY <1>7 DEF ListJobs, StartJob, RunReturns, RunKilled, Respond,
         tryDeleteExecution, ClearJob, AfterKill,
                   SeeDone, WorkerExits, RemoveTmp, GraceEnds, Restart, SIGUSR1, SIGTERM, Crash, Signal
    <2> QED  BY <2>1
  <1> QED  BY <1>2, <1>3, <1>4, <1>5, <1>6, <1>7 DEF Steps, Main, Handler

LEMMA ResponsesKept ==
    ASSUME Shape, Places, NEW c \in Controllers, Proved(c), ResponseIsOwn, ProofKept,
           Steps(c) \/ SIGUSR1(c) \/ SIGTERM(c) \/ Crash(c)
    PROVE  ResponseIsOwn' /\ ProofKept'
  <1> USE ControllerAssumption
  <1>1. Respond(c) \/ response' = response
    BY DEF Steps, Main, Handler, Signal, rmPrevDanglingFiles, ListJobs, tryLockFile,
       StartJob, RunReturns, RunKilled, tryDeleteExecution, MoveRequest, ClearJob,
       AfterKill, SeeDone, Exit, WorkerExits, RemoveTmp, Requeue, GraceEnds, Restart,
       SIGUSR1, SIGTERM, Crash
  <1>2. tryDeleteExecution(c) \/ trace' = trace
    BY DEF Steps, Main, Handler, Signal, rmPrevDanglingFiles, ListJobs, tryLockFile,
       StartJob, RunReturns, RunKilled, Respond, MoveRequest, ClearJob, AfterKill, SeeDone,
       Exit, WorkerExits, RemoveTmp, Requeue, GraceEnds, Restart, SIGUSR1, SIGTERM, Crash
  <1>3. ResponseIsOwn'
    <2>1. CASE Respond(c)
      <3> DEFINE r == ctl[c].job.req
                 t == tmp[TmpResponseFile(c, r)]
      <3>1. r \in Requests  BY <2>1 DEF Respond, Places, Place, Stopping, Working
      <3>2. t \in {None, r}  BY <2>1 DEF Respond, Proved
      <3>3. response' = IF t # None THEN [response EXCEPT ![r] = t] ELSE response
        BY <2>1 DEF Respond
      <3> QED  BY <3>1, <3>2, <3>3 DEF ResponseIsOwn, Shape
    <2> QED  BY <1>1, <2>1 DEF ResponseIsOwn
  <1>4. /\ \A r \in Requests : response[r] # None => response'[r] # None
        /\ dropped \subseteq dropped'
    BY DataKept DEF DataStep
  <1>5. ASSUME NEW r \in Requests, file'[r].at = "succeeded", file[r].at # "succeeded"
        PROVE  response'[r] # None \/ r \in dropped'
    BY <1>4, <1>5, Succeeds DEF Proved
  <1>6. ASSUME NEW r \in Requests, ~trace'[r], trace[r]
        PROVE  response'[r] # None \/ r \in dropped'
    <2>1. tryDeleteExecution(c)  BY <1>2, <1>6
    <2>2. ctl[c].pc = "trace" /\ r = ctl[c].job.req
      <3>1. \A q \in Requests \ {ctl[c].job.req} : trace'[q] = trace[q]
        BY <2>1 DEF tryDeleteExecution, Shape
      <3> QED  BY <1>6, <2>1, <3>1 DEF tryDeleteExecution
    <2> QED  BY <1>4, <2>2 DEF Proved
  <1>7. ProofKept'  BY <1>4, <1>5, <1>6 DEF ProofKept
  <1> QED  BY <1>3, <1>7

-----------------------------------------------------------------------------
(* The invariant *)

IInv ==
  /\ Shape /\ Places
  /\ \A c \in Controllers : Locked(c) /\ Proved(c)
  /\ ResponseIsOwn /\ ProofKept

LEMMA InitInv == Init => IInv
  <1> SUFFICES ASSUME Init PROVE IInv  OBVIOUS
  <1>1. \A c \in Controllers : Locked(c) /\ Proved(c)
    BY DEF Init, Locked, Proved, Fresh
  <1>2. ResponseIsOwn /\ ProofKept  BY DEF Init, ResponseIsOwn, ProofKept, InDone
  <1> QED  BY <1>1, <1>2, InitShape DEF IInv

LEMMA SubmitInv ==
    ASSUME IInv, NEW q \in Requests, Submit(q)
    PROVE  IInv'
  <1>1. /\ file'[q] = InFrom(<<>>, None) /\ file' = [r \in Requests |-> file'[r]]
        /\ \A r \in Requests \ {q} : file'[r] = file[r]
    BY DEF Submit, IInv, Shape
  <1>2. UNCHANGED <<tmp, response, trace, ctl, dropped>>  BY DEF Submit
  <1>3. file'[q].owner = None /\ file'[q].at = "from" /\ IsFile(file'[q])
    BY <1>1 DEF InFrom, IsFile
  <1>4. Shape' /\ Places'  BY <1>1, <1>2, <1>3 DEF IInv, Shape, Places
  <1>5. ASSUME NEW c \in Controllers PROVE Locked(c)' /\ Proved(c)'
    <2>1. None # c  BY ControllerAssumption
    <2>2. Locked(c)'  BY <1>1, <1>2, <1>3, <2>1 DEF IInv, Locked, Held
    <2>3. Proved(c)'  BY <1>2 DEF IInv, Proved, TmpResponseFile
    <2> QED  BY <2>2, <2>3
  <1>6. ResponseIsOwn' /\ ProofKept'
    BY <1>1, <1>2, <1>3 DEF IInv, ResponseIsOwn, ProofKept
  <1> QED  BY <1>4, <1>5, <1>6 DEF IInv

LEMMA StepInv == IInv /\ [Next]_vars => IInv'
  <1> SUFFICES ASSUME IInv, [Next]_vars PROVE IInv'  OBVIOUS
  <1>1. CASE UNCHANGED vars
    BY <1>1 DEF vars, IInv, Shape, Places, Locked, Held, Proved, TmpResponseFile,
                ResponseIsOwn, ProofKept
  <1>2. ASSUME NEW q \in Requests, Submit(q) PROVE IInv'  BY <1>2, SubmitInv
  <1>3. ASSUME NEW c \in Controllers, Steps(c) \/ SIGUSR1(c) \/ SIGTERM(c) \/ Crash(c)
        PROVE  IInv'
    <2>1. CtlShape' /\ FileStep(c) /\ DataStep(c)
      BY <1>3, CtlShapeKept, FileKept, DataKept DEF IInv
    <2>2. Shape'  BY <2>1 DEF Shape, CtlShape, FileStep, DataStep
    <2>3. Places'  BY <1>3, PlacesKept DEF IInv
    <2>4. ASSUME NEW d \in Controllers PROVE Locked(d)' /\ Proved(d)'
      <3>1. CASE d = c  BY <1>3, <3>1, LockedKept, ProvedKept DEF IInv
      <3>2. CASE d # c
        <4>1. ctl'[d] = ctl[d]  BY <1>3, <3>2, OthersKeep DEF IInv
        <4> QED  BY <2>1, <3>2, <4>1, LockedByOthers, ProvedByOthers DEF IInv
      <3> QED  BY <3>1, <3>2
    <2>5. ResponseIsOwn' /\ ProofKept'  BY <1>3, ResponsesKept DEF IInv
    <2> QED  BY <2>2, <2>3, <2>4, <2>5 DEF IInv
  <1> QED  BY <1>1, <1>2, <1>3 DEF Next

\* The invariant the three theorems follow from holds in every behaviour.
THEOREM Invariance == Spec => []IInv
  <1> QED  BY InitInv, StepInv, PTL DEF Spec

\* No response is filled with the proof of another request.
THEOREM ResponsesAreOwn == Spec => []ResponseIsOwn
  <1>1. IInv => ResponseIsOwn  BY DEF IInv
  <1> QED  BY <1>1, Invariance, PTL

\* A success has its response, and a deleted trace its proof, but for the
\* proofs a spot reclaim removed.
THEOREM ProofsAreKept == Spec => []ProofKept
  <1>1. IInv => ProofKept  BY DEF IInv
  <1> QED  BY <1>1, Invariance, PTL

\* A controller that was not reclaimed keeps track of the execution requests
\* it has locked, and ends without one.
THEOREM NoneIsStranded == Spec => []NothingStranded
  <1>1. IInv => NothingStranded  BY DEF IInv, Locked, Held, NothingStranded
  <1> QED  BY <1>1, Invariance, PTL
=============================================================================
