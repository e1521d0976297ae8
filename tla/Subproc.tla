------------------------------ MODULE Subproc ------------------------------
(***************************************************************************)
(* The JSON-RPC worker bridge of package subproc: a host-side Client whose *)
(* goroutines call methods over two pipes, and the worker on the other     *)
(* side, either the Go ServeCodec loop or the Python worker RenderWorker   *)
(* emits.                                                                  *)
(*                                                                         *)
(* A frame (one newline-terminated JSON line) is written and read as a     *)
(* whole.  A payload is represented by the id of the request whose         *)
(* execution produced it.                                                  *)
(***************************************************************************)
EXTENDS Naturals, Sequences

CONSTANTS
  Callers,    \* the goroutines that share one Client
  Methods,    \* the method names they use
  Listed,     \* the keys of the Python worker's _METHODS
  Empty,      \* the empty method name
  Worker,     \* "go" (ServeCodec) or "python" (RenderWorker)
  Serial,     \* TRUE: the callers never have two Calls in progress at once
  Noisy,      \* TRUE: methods print to the worker's stdout
  HasCloser,  \* NewClient was given a non-nil closer
  MaxCalls,   \* bound: how many ids the Client hands out
  PipeCap     \* bound: how many frames fit in a pipe and its reader's buffer

ASSUME ConstantsAssumption ==
  /\ Worker \in {"go", "python"}
  /\ Serial \in BOOLEAN /\ Noisy \in BOOLEAN /\ HasCloser \in BOOLEAN
  /\ MaxCalls \in Nat /\ PipeCap \in Nat \ {0}
  /\ Listed \subseteq Methods /\ Empty \notin Listed

VARIABLES
  nextID,     \* Client.nextID
  closed,     \* Client.closed
  connOpen,   \* FALSE once closer.Close has run
  pc,         \* where each goroutine is inside Call
  cur,        \* the Request each goroutine is working on
  toWorker,   \* request frames in the worker's stdin
  toHost,     \* frames in the worker's stdout, the Codec's bufio.Reader included
  seen,       \* history: the frames the worker has put into its stdout so far
  torn,       \* two goroutines have been inside the bufio.Reader at once
  wpc,        \* where the worker is in its loop
  job,        \* the Request the worker dispatches
  reply,      \* the frame the worker is about to write
  runs,       \* how often the method of a request has been executed
  outcome     \* what Call returned for each id

client == <<nextID, closed, connOpen, pc, cur, torn, outcome>>
server == <<wpc, job, reply, runs>>
vars == <<client, server, toWorker, toHost, seen>>

Ids == 1 .. MaxCalls

Request == [id : 0 .. MaxCalls, method : Methods \cup {Empty}]

NoRequest == [id |-> 0, method |-> Empty]

Frame == [kind : {"ok", "error", "junk"}, id : 0 .. MaxCalls, val : 0 .. MaxCalls]

Statuses ==
  {"pending", "ok", "rpcError", "buildError", "writeError", "readError", "mismatch"}

Outcome == [status : Statuses, val : 0 .. MaxCalls]

Pending == [status |-> "pending", val |-> 0]

\* NewResponse: the result of executing request i.
Ok(i) == [kind |-> "ok", id |-> i, val |-> i]

\* NewErrorResponse, and _error of the Python worker.
Err(i) == [kind |-> "error", id |-> i, val |-> 0]

\* A line ReadResponse rejects: it is not JSON, it exceeds MaxFrameSize, or it
\* ends at EOF without a newline.
Junk == [kind |-> "junk", id |-> 0, val |-> 0]

Active(g) == pc[g] # "idle"

Init ==
  /\ nextID = 0 /\ closed = FALSE /\ connOpen = TRUE /\ torn = FALSE
  /\ pc = [g \in Callers |-> "idle"]
  /\ cur = [g \in Callers |-> NoRequest]
  /\ toWorker = << >> /\ toHost = << >> /\ seen = {}
  /\ wpc = "read" /\ job = NoRequest /\ reply = Junk
  /\ runs = [i \in Ids |-> 0]
  /\ outcome = [i \in Ids |-> Pending]

----------------------------------------------------------------------------
(***************************************************************************)
(* The host: Client.Call step by step, and Client.Close.                   *)
(***************************************************************************)

\* Mutant: the id is read before it is incremented.
TakeIDEarly(g, m) ==
  /\ pc[g] = "idle" /\ ~closed
  /\ nextID < MaxCalls
  /\ Serial => \A h \in Callers : ~Active(h)
  /\ nextID' = nextID + 1
  /\ cur' = [cur EXCEPT ![g] = [id |-> nextID, method |-> m]]
  /\ pc' = [pc EXCEPT ![g] = "build"]
  /\ UNCHANGED <<closed, connOpen, torn, outcome, server, toWorker, toHost, seen>>

\* Call's critical section under mu: refuse when closed, else take the next id.
TakeID(g, m) ==
  /\ pc[g] = "idle" /\ ~closed
  /\ nextID < MaxCalls
  /\ Serial => \A h \in Callers : ~Active(h)
  /\ nextID' = nextID + 1
  /\ cur' = [cur EXCEPT ![g] = [id |-> nextID + 1, method |-> m]]
  /\ pc' = [pc EXCEPT ![g] = "build"]
  /\ UNCHANGED <<closed, connOpen, torn, outcome, server, toWorker, toHost, seen>>

\* Call returns st (with the id or payload v) to goroutine g.
Return(g, st, v) ==
  /\ outcome' = [outcome EXCEPT ![cur[g].id] = [status |-> st, val |-> v]]
  /\ pc' = [pc EXCEPT ![g] = "idle"]
  /\ cur' = [cur EXCEPT ![g] = NoRequest]

\* NewRequest and the marshalling and size check of WriteRequest succeed.
BuildRequest(g) ==
  /\ pc[g] = "build"
  /\ pc' = [pc EXCEPT ![g] = "write"]
  /\ UNCHANGED <<nextID, closed, connOpen, cur, torn, outcome, server, toWorker, toHost, seen>>

\* params do not marshal, or the frame exceeds MaxFrameSize: nothing is sent.
BuildFails(g) ==
  /\ pc[g] = "build"
  /\ \E st \in {"buildError", "writeError"} : Return(g, st, 0)
  /\ UNCHANGED <<nextID, closed, connOpen, torn, server, toWorker, toHost, seen>>

\* WriteFrame under writeMu; blocks while the worker's stdin is full.
WriteRequest(g) ==
  /\ pc[g] = "write" /\ connOpen /\ wpc # "dead"
  /\ Len(toWorker) < PipeCap
  /\ toWorker' = Append(toWorker, cur[g])
  /\ pc' = [pc EXCEPT ![g] = "wrote"]
  /\ UNCHANGED <<nextID, closed, connOpen, cur, torn, outcome, server, toHost, seen>>

\* The pipe is closed on either side.
WriteBroken(g) ==
  /\ pc[g] = "write" /\ (~connOpen \/ wpc = "dead")
  /\ Return(g, "writeError", 0)
  /\ UNCHANGED <<nextID, closed, connOpen, torn, server, toWorker, toHost, seen>>

\* The goroutine enters ReadFrame.  No lock guards the bufio.Reader: a second
\* goroutine in there is a data race that leaves its indexes undefined.
EnterRead(g) ==
  /\ pc[g] = "wrote"
  /\ pc' = [pc EXCEPT ![g] = "read"]
  /\ torn' = (torn \/ \E h \in Callers \ {g} : pc[h] = "read")
  /\ UNCHANGED <<nextID, closed, connOpen, cur, outcome, server, toWorker, toHost, seen>>

\* Mutant: the id of the response is not compared.
VerdictAnyID(i, f) ==
  IF f.kind = "junk" THEN [status |-> "readError", val |-> 0]
  ELSE IF f.kind = "error" THEN [status |-> "rpcError", val |-> 0]
  ELSE [status |-> "ok", val |-> f.val]

\* What Call makes of the frame f it has read for request i, in the order of
\* its checks: undecodable, wrong id, RPC error, result.
Verdict(i, f) ==
  IF f.kind = "junk" THEN [status |-> "readError", val |-> 0]
  ELSE IF f.id # i THEN [status |-> "mismatch", val |-> f.id]
  ELSE IF f.kind = "error" THEN [status |-> "rpcError", val |-> 0]
  ELSE [status |-> "ok", val |-> f.val]

\* Mutant: a read throws away whatever else the reader holds.
ReadResponseDrains(g) ==
  /\ pc[g] = "read" /\ toHost # << >>
  /\ LET v == Verdict(cur[g].id, Head(toHost)) IN Return(g, v.status, v.val)
  /\ toHost' = << >>
  /\ UNCHANGED <<nextID, closed, connOpen, torn, server, toWorker, seen>>

\* ReadResponse delivers the next frame, whoever it was meant for.  After
\* closer.Close the Codec's buffer may still hold it.
ReadResponse(g) ==
  /\ pc[g] = "read" /\ toHost # << >>
  /\ LET v == Verdict(cur[g].id, Head(toHost)) IN Return(g, v.status, v.val)
  /\ toHost' = Tail(toHost)
  /\ UNCHANGED <<nextID, closed, connOpen, torn, server, toWorker, seen>>

\* ReadResponse after a race on the bufio.Reader, whose indexes are undefined
\* then.  It still blocks until bytes have been delivered; the line it returns
\* is put together from whatever ever was in the buffer (frame e, with the
\* payload of frame f, or no JSON at all), and any number of frames are lost.
ReadTorn(g) ==
  /\ pc[g] = "read" /\ torn
  /\ \E e \in seen \cup {Junk}, f \in seen :
       LET v == Verdict(cur[g].id, [e EXCEPT !.val = f.val]) IN Return(g, v.status, v.val)
  /\ \E k \in 1 .. Len(toHost) + 1 : toHost' = SubSeq(toHost, k, Len(toHost))
  /\ UNCHANGED <<nextID, closed, connOpen, torn, server, toWorker, seen>>

\* Mutant: EOF is not reported to a waiting Call.
ReadFailsNoEOF(g) ==
  /\ pc[g] = "read" /\ ~connOpen
  /\ Return(g, "readError", 0)
  /\ UNCHANGED <<nextID, closed, connOpen, torn, server, toWorker, toHost, seen>>

\* Mutant: closing the host's ends does not wake a blocked read.
ReadFailsNoClose(g) ==
  /\ pc[g] = "read" /\ wpc = "dead" /\ toHost = << >>
  /\ Return(g, "readError", 0)
  /\ UNCHANGED <<nextID, closed, connOpen, torn, server, toWorker, toHost, seen>>

\* io.EOF from a worker that is gone, or the read end closed by Close.
ReadFails(g) ==
  /\ pc[g] = "read"
  /\ ~connOpen \/ (wpc = "dead" /\ toHost = << >>)
  /\ Return(g, "readError", 0)
  /\ UNCHANGED <<nextID, closed, connOpen, torn, server, toWorker, toHost, seen>>

\* Close, its critical section: closed = true.
CloseMark ==
  /\ ~closed /\ closed' = TRUE
  /\ UNCHANGED <<nextID, connOpen, pc, cur, torn, outcome, server, toWorker, toHost, seen>>

\* Close, after the unlock: closer.Close() shuts the host's ends of the pipes.
CloseConn ==
  /\ closed /\ HasCloser /\ connOpen
  /\ connOpen' = FALSE
  /\ UNCHANGED <<nextID, closed, pc, cur, torn, outcome, server, toWorker, toHost, seen>>

----------------------------------------------------------------------------
(***************************************************************************)
(* The worker: ServeCodec, or _main of the rendered Python worker.         *)
(***************************************************************************)

\* Mutant: a request is dispatched without being taken off the stream.
WorkerReadPeeks ==
  /\ wpc = "read" /\ toWorker # << >>
  /\ toWorker' \in {toWorker, Tail(toWorker)}
  /\ job' = Head(toWorker)
  /\ IF Worker = "go" /\ Head(toWorker).method = Empty
       THEN wpc' = "lastReply" /\ reply' = Err(0)
       ELSE wpc' = "dispatch" /\ reply' = reply
  /\ UNCHANGED <<client, runs, toHost, seen>>

\* ReadRequest takes the next frame.  The Go codec rejects an empty method:
\* the loop answers a parse error with id 0 and returns.
WorkerRead ==
  /\ wpc = "read" /\ toWorker # << >>
  /\ toWorker' = Tail(toWorker)
  /\ job' = Head(toWorker)
  /\ IF Worker = "go" /\ Head(toWorker).method = Empty
       THEN wpc' = "lastReply" /\ reply' = Err(0)
       ELSE wpc' = "dispatch" /\ reply' = reply
  /\ UNCHANGED <<client, runs, toHost, seen>>

\* io.EOF: ServeCodec returns nil, the Python loop over sys.stdin ends.
WorkerEOF ==
  /\ wpc = "read" /\ toWorker = << >> /\ ~connOpen
  /\ wpc' = "dead"
  /\ UNCHANGED <<client, job, reply, runs, toWorker, toHost, seen>>

\* _dispatch of the Python worker: method not in _METHODS, nothing is run.
DispatchUnlisted ==
  /\ wpc = "dispatch" /\ Worker = "python" /\ job.method \notin Listed
  /\ wpc' = "reply" /\ reply' = Err(job.id)
  /\ UNCHANGED <<client, job, runs, toWorker, toHost, seen>>

\* The frames an executed request may be answered with.  The Python worker
\* writes an oversized result, and prints that lack a newline end up in the
\* response line.
Replies(i) ==
  {Ok(i), Err(i)} \cup (IF Worker = "python" THEN {Junk} ELSE {})

\* The method runs and a Response for it is built.
DispatchRuns ==
  /\ wpc = "dispatch" /\ (Worker = "python" => job.method \in Listed)
  /\ runs' = [runs EXCEPT ![job.id] = @ + 1]
  /\ reply' \in Replies(job.id)
  /\ wpc' = "reply"
  /\ UNCHANGED <<client, job, toWorker, toHost, seen>>

\* The method runs and its result ends the worker: WriteFrame refuses an
\* oversized frame and ServeCodec returns; json.dumps of the Python worker,
\* outside the try of _dispatch, raises on a result it cannot encode.
DispatchFatal ==
  /\ wpc = "dispatch" /\ (Worker = "python" => job.method \in Listed)
  /\ runs' = [runs EXCEPT ![job.id] = @ + 1]
  /\ wpc' = "dead"
  /\ UNCHANGED <<client, job, reply, toWorker, toHost, seen>>

\* f goes into the worker's stdout.
Deliver(f) == toHost' = Append(toHost, f) /\ seen' = seen \cup {f}

\* A line the running method prints to the stdout that carries the protocol.
WorkerPrint ==
  /\ wpc = "dispatch" /\ Noisy /\ Worker = "python" /\ job.method \in Listed
  /\ connOpen /\ Len(toHost) < PipeCap
  /\ Deliver(Junk)
  /\ UNCHANGED <<client, server, toWorker>>

\* WriteResponse; blocks while the worker's stdout is full.  After a parse
\* error ServeCodec returns.
WriteResponse ==
  /\ wpc \in {"reply", "lastReply"} /\ connOpen
  /\ Len(toHost) < PipeCap
  /\ Deliver(reply)
  /\ wpc' = IF wpc = "reply" THEN "read" ELSE "dead"
  /\ UNCHANGED <<client, job, reply, runs, toWorker>>

\* The host closed the pipe: ServeCodec returns, the Python worker raises.
ResponseBroken ==
  /\ wpc \in {"reply", "lastReply"} /\ ~connOpen
  /\ wpc' = "dead"
  /\ UNCHANGED <<client, job, reply, runs, toWorker, toHost, seen>>

\* The worker process dies; a response it was writing may be cut short.
WorkerCrash ==
  /\ wpc # "dead" /\ wpc' = "dead"
  /\ \/ UNCHANGED <<toHost, seen>>
     \/ /\ wpc \in {"reply", "lastReply"} /\ connOpen /\ Len(toHost) < PipeCap
        /\ Deliver(Junk)
  /\ UNCHANGED <<client, job, reply, runs, toWorker>>

----------------------------------------------------------------------------
CallStep(g) ==
  \/ BuildRequest(g) \/ BuildFails(g)
  \/ WriteRequest(g) \/ WriteBroken(g)
  \/ EnterRead(g) \/ ReadResponse(g) \/ ReadTorn(g) \/ ReadFails(g)

\* The worker's own loop; DispatchRuns and DispatchFatal end the user method.
WorkerStep ==
  \/ WorkerRead \/ WorkerEOF
  \/ DispatchUnlisted \/ DispatchRuns \/ DispatchFatal
  \/ WriteResponse \/ ResponseBroken

Next ==
  \/ \E g \in Callers : CallStep(g) \/ \E m \in Methods : TakeID(g, m)
  \/ CloseMark \/ CloseConn
  \/ WorkerStep \/ WorkerPrint \/ WorkerCrash

\* Goroutines inside Call and inside Close are scheduled.
HostFairness == WF_vars(CloseConn) /\ \A g \in Callers : WF_vars(CallStep(g))

Spec == Init /\ [][Next]_vars

\* The worker may hang for ever inside a user method.
HostFairSpec == Spec /\ HostFairness

\* Moreover user methods return and the worker process is scheduled.
FairSpec == HostFairSpec /\ WF_vars(WorkerStep)

----------------------------------------------------------------------------
(***************************************************************************)
(* Properties                                                              *)
(***************************************************************************)

\* Type correctness: in particular a goroutine inside Call owns an id the
\* Client has handed out, and neither pipe holds more than it can.
TypeOK ==
  /\ nextID \in 0 .. MaxCalls
  /\ closed \in BOOLEAN /\ connOpen \in BOOLEAN /\ torn \in BOOLEAN
  /\ pc \in [Callers -> {"idle", "build", "write", "wrote", "read"}]
  /\ cur \in [Callers -> Request]
  /\ \A g \in Callers : Active(g) => cur[g].id \in 1 .. nextID
  /\ toWorker \in Seq(Request) /\ toHost \in Seq(Frame) /\ seen \subseteq Frame
  /\ Len(toWorker) <= PipeCap /\ Len(toHost) <= PipeCap
  /\ wpc \in {"read", "dispatch", "reply", "lastReply", "dead"}
  /\ job \in Request /\ reply \in Frame
  /\ runs \in [Ids -> Nat]
  /\ outcome \in [Ids -> Outcome]

\* A result Call returns is the result of its own request, never a leftover of
\* another one, whatever the worker printed and however the calls overlapped,
\* as long as no two of them raced inside the bufio.Reader (the id check in Call).
OwnAnswer ==
  ~torn => \A i \in Ids : outcome[i].status = "ok" => outcome[i].val = i

\* The worker executes the method of a request at most once, across failed
\* calls, crashes and Close.
ExecutedOnce == \A i \in Ids : runs[i] <= 1

\* Callers that wait for each other and methods that do not print stay in step
\* with the worker: the only response with a foreign id is the Go worker's
\* parse error for an empty method, which carries id 0 and ends that worker.
InStep ==
  Serial /\ ~Noisy =>
    \A i \in Ids :
      outcome[i].status = "mismatch" => Worker = "go" /\ outcome[i].val = 0

\* A client that has once read a response meant for an earlier call never
\* succeeds again: nothing in Call discards the surplus frame.
StaysOutOfStep ==
  Serial => \A i, j \in Ids :
    i < j /\ outcome[i].status = "mismatch" => outcome[j].status # "ok"

\* The goroutine-safety comment of Client: concurrent calls wait for their
\* matching response, so no call sees another call's, even where no two of them
\* have been inside the bufio.Reader at once.
GoroutineSafe == ~torn => \A i \in Ids : outcome[i].status # "mismatch"

\* Every Call returns: its worker answers, exits or crashes.
CallReturns == \A g \in Callers : Active(g) ~> ~Active(g)

\* Both pipes are full: the worker waits for the host to read, the host for
\* the worker.
Clogged == Len(toWorker) = PipeCap /\ Len(toHost) = PipeCap

\* With methods that print, a Call can wait for ever in one way only: in
\* WriteFrame, holding writeMu, with both pipes full.
CallReturnsOrClogs == \A g \in Callers :
  Active(g) ~> (~Active(g) \/ (pc[g] = "write" /\ Clogged))

\* Close with a closer releases every Call in progress, even when the worker
\* hangs inside a method.
CloseReleases ==
  HasCloser => \A g \in Callers : (closed /\ Active(g)) ~> ~Active(g)

Abs == INSTANCE RpcAbs WITH issued <- nextID, Failures <- Statuses \ {"pending", "ok"}

\* A serially used Client implements at-most-once remote calls (RpcAbs).
AtMostOnceRPC == Abs!AbsSpec
=============================================================================
