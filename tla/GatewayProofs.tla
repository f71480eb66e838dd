---------------------------- MODULE GatewayProofs ----------------------------
(***************************************************************************)
(* The composition of the request handlers with the web API, for any       *)
(* number of callers where not stated otherwise.                           *)
(*                                                                         *)
(* Every step of the composition is one of WebApi or leaves its variables  *)
(* alone, so the invariant of WebApi holds in the composition too: the     *)
(* caller of an unanswered message waits for it, except for calls made     *)
(* since one timed out, and a response that is not the caller's own is a   *)
(* late one.  Before the first timeout that is also what makes the         *)
(* sessions safe without a lock: a handler that waits is not in the token  *)
(* array.                                                                  *)
(***************************************************************************)
EXTENDS Gateway, WebApiProofs

(* A handler at work serves an endpoint, and calls only for a command. *)
Serving ==
    \A c \in Callers :
       /\ handler[c] # "ready" => endpoint[c] \in Endpoints
       /\ handler[c] = "verifying" => endpoint[c].verify
       /\ handler[c] = "calling" => endpoint[c].command \in Commands
       /\ pc[c] # "idle" => handler[c] = "calling"

(* The message and the response of the call that is being made are about   *)
(* the request that is being served, whatever else is still under way.     *)
Fitting ==
    /\ \A m \in Outstanding :
          pc[m.from] # "idle" /\ m.call = call[m.from]
             => m.type = endpoint[m.from].command
    /\ wpc = "replying" => response.http_status \in HttpStatuses(message.type)
    /\ \A c \in Callers :
          /\ /\ pc[c] = "receiving" /\ mailbox[block[c]] # Nil
             /\ mailbox[block[c]].call = call[c]
             => mailbox[block[c]].http_status
                   \in HttpStatuses(endpoint[c].command)
          /\ handler[c] = "calling" /\ got[c] # Nil /\ got[c].call = call[c]
             => got[c].http_status \in HttpStatuses(endpoint[c].command)

GInv == IInv /\ GatewayTypeOK /\ Serving /\ Fitting

-----------------------------------------------------------------------------
(* The composition makes steps of the web API only. *)

LEMMA GatewayInitMaps == GatewayInit => Init
BY DEF GatewayInit

LEMMA StepMaps ==
    ASSUME Serving, [GatewayNext]_allVars
    PROVE  [Next]_vars
<1>1. ASSUME NEW c \in Callers, NEW e \in Endpoints, Request(c, e)
      PROVE  UNCHANGED vars
  BY <1>1 DEF Request
<1>2. ASSUME NEW c \in Callers, HandlerStep(c) PROVE [Next]_vars
  <2>1. CASE Authorized(c) \/ Unauthorized(c) \/ BadRequest(c)
                \/ StubAnswer(c) \/ ApiAnswer(c)
    BY <2>1 DEF Authorized, Unauthorized, BadRequest, StubAnswer, ApiAnswer
  <2>2. CASE ApiCall(c)
    BY <2>2 DEF ApiCall, Next
  <2>3. CASE ApiSend(c)
    <3>1. endpoint[c].command \in Commands
      BY <2>3 DEF ApiSend, Serving
    <3> QED  BY <2>3, <3>1 DEF ApiSend, CallerStep, Next
  <2>4. CASE ApiWait(c)
    BY <2>4 DEF ApiWait, CallerStep, Next
  <2> QED  BY <1>2, <2>1, <2>2, <2>3, <2>4 DEF HandlerStep
<1>3. CASE ExecuteCommand \/ OtherWorkerStep
  BY <1>3 DEF ExecuteCommand, OtherWorkerStep, WorkerStep, Next
<1>4. CASE GatewayRestart
  BY <1>4 DEF GatewayRestart, Next
<1>5. CASE UNCHANGED allVars
  BY <1>5 DEF allVars, vars
<1> QED  BY <1>1, <1>2, <1>3, <1>4, <1>5 DEF GatewayNext

-----------------------------------------------------------------------------
(* Types. *)

LEMMA GatewayInitInv == GatewayInit => GInv
<1> SUFFICES ASSUME GatewayInit PROVE GInv
  OBVIOUS
<1>1. IInv
  BY GatewayInitMaps, InvInit
<1>2. Outstanding = {}
  BY DEF GatewayInit, Init, Outstanding, WorkerHolds
<1>3. GatewayTypeOK
  BY <1>1 DEF IInv, GatewayInit, Init, GatewayTypeOK
<1>4. Serving /\ Fitting
  BY <1>2 DEF GatewayInit, Init, Serving, Fitting
<1> QED  BY <1>1, <1>3, <1>4 DEF GInv

(* A caller is in web_api_call only while its handler is calling. *)
LEMMA PcOfHandler ==
    ASSUME GInv, [GatewayNext]_allVars, NEW c \in Callers, pc'[c] # "idle"
    PROVE  handler'[c] = "calling"
<1> USE DEF GInv, GatewayTypeOK, TypeOK
<1>1. ASSUME NEW d \in Callers, NEW e \in Endpoints, Request(d, e)
      PROVE  handler'[c] = "calling"
  BY <1>1 DEF Request, Goto, vars
<1>2. ASSUME NEW d \in Callers, HandlerStep(d)
      PROVE  handler'[c] = "calling"
  <2>1. CASE Authorized(d) \/ Unauthorized(d) \/ BadRequest(d)
                \/ StubAnswer(d) \/ ApiAnswer(d)
    <3>1. UNCHANGED pc /\ (handler[d] # "calling" \/ pc[d] = "idle")
      BY <2>1 DEF Authorized, Unauthorized, BadRequest, StubAnswer, ApiAnswer,
                  vars
    <3>2. \A x \in Callers : x # d => handler'[x] = handler[x]
      BY <2>1 DEF Authorized, Unauthorized, BadRequest, StubAnswer, ApiAnswer,
                  Answer, Goto
    <3> QED  BY <3>1, <3>2
  <2>2. CASE ApiCall(d)
    BY <2>2 DEF ApiCall, Goto, Call, CallNoMem
  <2>3. CASE ApiSend(d)
    BY <2>3 DEF ApiSend, SendRequest, gatewayVars
  <2>4. CASE ApiWait(d)
    BY <2>4 DEF ApiWait, SendTimeout, ReceiveReply, ReceiveTimeout,
                DeleteReplyQueue, gatewayVars
  <2> QED  BY <1>2, <2>1, <2>2, <2>3, <2>4 DEF HandlerStep
<1>3. CASE ExecuteCommand
  BY <1>3 DEF ExecuteCommand, Execute, callerVars
<1>4. CASE OtherWorkerStep
  BY <1>4 DEF OtherWorkerStep, ReceiveRequest, Reply, ReplyTimeout,
              ReplyDangling, ScheduleReboot, ScheduleRebootFails, callerVars,
              gatewayVars
<1>5. CASE GatewayRestart
  BY <1>5 DEF GatewayRestart, DelayedReboot, DanglingPanic, Restart
<1>6. CASE UNCHANGED allVars
  BY <1>6 DEF allVars
<1> QED  BY <1>1, <1>2, <1>3, <1>4, <1>5, <1>6 DEF GatewayNext

LEMMA GatewayTypeStep ==
    ASSUME GInv, TypeOK', [GatewayNext]_allVars
    PROVE  GatewayTypeOK'
<1> DEFINE Types == /\ handler \in [Callers -> {"ready", "verifying", "body", "calling"}]
                    /\ endpoint \in [Callers -> Endpoints \cup {Nil}]
                    /\ status \in [Callers -> {0, 200, 202, 400, 401, 404, 500}]
                    /\ sessionOps \in Nat
                    /\ verifiedAt \in [Callers -> Nat]
<1>0. Types /\ \A c \in Callers : got[c] # Nil =>
         got[c].http_status \in {200, 202, 400, 401, 404, 500}
  BY DEF GInv, GatewayTypeOK, TypeOK, Responses
<1>1. ASSUME NEW c \in Callers, NEW e \in Endpoints, Request(c, e)
      PROVE  Types'
  BY <1>0, <1>1 DEF Request, Goto
<1>2. ASSUME NEW c \in Callers, HandlerStep(c) PROVE Types'
  <2>1. CASE Authorized(c)
    BY <1>0, <2>1 DEF Authorized, Goto
  <2>2. CASE Unauthorized(c) \/ BadRequest(c) \/ StubAnswer(c)
    BY <1>0, <2>2 DEF Unauthorized, BadRequest, StubAnswer, Answer, Goto
  <2>3. CASE ApiCall(c)
    BY <1>0, <2>3 DEF ApiCall, Goto
  <2>4. CASE ApiSend(c) \/ ApiWait(c)
    BY <1>0, <2>4 DEF ApiSend, ApiWait, gatewayVars
  <2>5. CASE ApiAnswer(c)
    BY <1>0, <2>5 DEF ApiAnswer, Answer, Goto
  <2> QED  BY <1>2, <2>1, <2>2, <2>3, <2>4, <2>5 DEF HandlerStep
<1>3. ASSUME ExecuteCommand PROVE Types'
  BY <1>0, <1>3 DEF ExecuteCommand
<1>4. ASSUME OtherWorkerStep PROVE Types'
  BY <1>0, <1>4 DEF OtherWorkerStep, gatewayVars
<1>5. ASSUME GatewayRestart PROVE Types'
  BY <1>5 DEF GatewayRestart
<1>6. ASSUME UNCHANGED allVars PROVE Types'
  BY <1>0, <1>6 DEF allVars
<1>7. Types'
  BY <1>1, <1>2, <1>3, <1>4, <1>5, <1>6 DEF GatewayNext
<1> QED  BY <1>7, PcOfHandler DEF GatewayTypeOK

LEMMA ServingStep ==
    ASSUME GInv, [GatewayNext]_allVars
    PROVE  Serving'
<1> USE DEF GInv, GatewayTypeOK
<1> DEFINE Ready(c) == /\ handler[c] # "ready" => endpoint[c] \in Endpoints
                       /\ handler[c] = "verifying" => endpoint[c].verify
                       /\ handler[c] = "calling" => endpoint[c].command \in Commands
<1>0. \A c \in Callers : Ready(c)
  BY DEF Serving
<1>1. ASSUME NEW c \in Callers, NEW e \in Endpoints, Request(c, e), NEW d \in Callers
      PROVE  Ready(d)'
  BY <1>0, <1>1 DEF Request, Goto
<1>2. ASSUME NEW c \in Callers, HandlerStep(c), NEW d \in Callers PROVE Ready(d)'
  <2>1. CASE Authorized(c)
    BY <1>0, <2>1 DEF Authorized, Goto
  <2>2. CASE Unauthorized(c) \/ BadRequest(c) \/ StubAnswer(c)
    BY <1>0, <2>2 DEF Unauthorized, BadRequest, StubAnswer, Answer, Goto
  <2>3. CASE ApiCall(c)
    <3>1. endpoint[c].command \in Commands
      BY <1>0, <2>3 DEF ApiCall, Endpoints
    <3> QED  BY <1>0, <2>3, <3>1 DEF ApiCall, Goto
  <2>4. CASE ApiSend(c) \/ ApiWait(c)
    BY <1>0, <2>4 DEF ApiSend, ApiWait, gatewayVars
  <2>5. CASE ApiAnswer(c)
    BY <1>0, <2>5 DEF ApiAnswer, Answer, Goto
  <2> QED  BY <1>2, <2>1, <2>2, <2>3, <2>4, <2>5 DEF HandlerStep
<1>3. ASSUME ExecuteCommand PROVE \A d \in Callers : Ready(d)'
  BY <1>0, <1>3 DEF ExecuteCommand
<1>4. ASSUME OtherWorkerStep PROVE \A d \in Callers : Ready(d)'
  BY <1>0, <1>4 DEF OtherWorkerStep, gatewayVars
<1>5. ASSUME GatewayRestart PROVE \A d \in Callers : Ready(d)'
  BY <1>5 DEF GatewayRestart
<1>6. ASSUME UNCHANGED allVars PROVE \A d \in Callers : Ready(d)'
  BY <1>0, <1>6 DEF allVars
<1>7. ASSUME NEW c \in Callers PROVE Ready(c)'
  BY <1>1, <1>2, <1>3, <1>4, <1>5, <1>6 DEF GatewayNext
<1> QED  BY <1>7, PcOfHandler DEF Serving

-----------------------------------------------------------------------------
(* What a step of the web API does to one caller and to one reply queue.   *)

LEMMA NoneAbandonedBefore ==
    ASSUME [Next]_vars, abandoned' = {}
    PROVE  abandoned = {} \/ Restart
BY DEF Next, Call, CallNoMem, CallerStep, SendRequest, SendTimeout,
   ReceiveReply, ReceiveTimeout, DeleteReplyQueue, WorkerStep, ReceiveRequest,
   Execute, Reply, ReplyTimeout, ReplyDangling, ScheduleReboot,
   ScheduleRebootFails, DelayedReboot, DanglingPanic, historyVars, vars

(* A caller in web_api_call has been in it, or begins with a new number.   *)
LEMMA InCallBefore ==
    ASSUME TypeOK, [Next]_vars, NEW c \in Callers, pc'[c] # "idle"
    PROVE  (pc[c] # "idle" /\ call'[c] = call[c]) \/ call'[c] = calls + 1
<1> USE DEF TypeOK
<1>1. ASSUME NEW d \in Callers, NEW b \in Blocks, Call(d, b)
      PROVE  (pc[c] # "idle" /\ call'[c] = call[c]) \/ call'[c] = calls + 1
  BY <1>1 DEF Call
<1>2. ASSUME NEW d \in Callers, CallNoMem(d)
      PROVE  (pc[c] # "idle" /\ call'[c] = call[c]) \/ call'[c] = calls + 1
  BY <1>2 DEF CallNoMem
<1>3. ASSUME NEW d \in Callers, CallerStep(d)
      PROVE  pc[c] # "idle" /\ call'[c] = call[c]
  BY <1>3 DEF CallerStep, SendRequest, SendTimeout, ReceiveReply,
              ReceiveTimeout, DeleteReplyQueue
<1>4. CASE WorkerStep \/ UNCHANGED vars
  BY <1>4 DEF WorkerStep, ReceiveRequest, Execute, Reply, ReplyTimeout,
              ReplyDangling, ScheduleReboot, ScheduleRebootFails, callerVars,
              vars
<1>5. ~Restart
  BY DEF Restart
<1> QED
  BY <1>1, <1>2, <1>3, <1>4, <1>5 DEF Next, DelayedReboot, DanglingPanic

(* Only Execute builds a response. *)
LEMMA WorkerChange ==
    ASSUME [Next]_vars, wpc' = "replying"
    PROVE  Execute \/ UNCHANGED workerVars
<1>1. CASE WorkerStep
  BY <1>1 DEF WorkerStep, ReceiveRequest, Reply, ReplyTimeout, ReplyDangling,
              AfterReply, ScheduleReboot, ScheduleRebootFails
<1>2. CASE ~WorkerStep
  BY <1>2 DEF Next, Call, CallNoMem, CallerStep, SendRequest, SendTimeout,
              ReceiveReply, ReceiveTimeout, DeleteReplyQueue, DelayedReboot,
              DanglingPanic, Restart, workerVars, vars
<1> QED  BY <1>1, <1>2

(* Only Reply fills a reply queue. *)
LEMMA MailboxChange ==
    ASSUME TypeOK, [Next]_vars, NEW b \in Blocks
    PROVE  mailbox'[b] = Nil \/ mailbox'[b] = mailbox[b] \/ Reply
<1> USE DEF TypeOK
<1>1. ASSUME NEW c \in Callers, NEW d \in Blocks, Call(c, d)
      PROVE  mailbox'[b] = Nil \/ mailbox'[b] = mailbox[b]
  BY <1>1 DEF Call
<1>2. ASSUME NEW c \in Callers, SendTimeout(c) \/ DeleteReplyQueue(c)
      PROVE  mailbox'[b] = Nil \/ mailbox'[b] = mailbox[b]
  BY <1>2 DEF SendTimeout, DeleteReplyQueue, FreeBlock
<1>3. ASSUME NEW c \in Callers, ReceiveReply(c)
      PROVE  mailbox'[b] = Nil \/ mailbox'[b] = mailbox[b]
  BY <1>3 DEF ReceiveReply
<1>4. CASE Restart
  BY <1>4 DEF Restart
<1> QED
  BY <1>1, <1>2, <1>3, <1>4
  DEF Next, CallNoMem, CallerStep, SendRequest, ReceiveTimeout, WorkerStep,
      ReceiveRequest, Execute, ReplyTimeout, ReplyDangling, ScheduleReboot,
      ScheduleRebootFails, DelayedReboot, DanglingPanic, heapVars, vars

(* A caller that waits for its reply has just sent, or waited before. *)
LEMMA ReceivingBefore ==
    ASSUME TypeOK, [Next]_vars, NEW c \in Callers, pc'[c] = "receiving"
    PROVE  /\ block'[c] = block[c] /\ call'[c] = call[c]
           /\ \/ pc[c] = "receiving"
              \/ pc[c] = "sending" /\ UNCHANGED mailbox
<1> USE DEF TypeOK
<1>1. ASSUME NEW d \in Callers, NEW b \in Blocks, Call(d, b)
      PROVE  block'[c] = block[c] /\ call'[c] = call[c] /\ pc[c] = "receiving"
  BY <1>1 DEF Call
<1>2. ASSUME NEW d \in Callers, NEW type \in Commands, SendRequest(d, type)
      PROVE  /\ block'[c] = block[c] /\ call'[c] = call[c]
             /\ \/ pc[c] = "receiving"
                \/ pc[c] = "sending" /\ UNCHANGED mailbox
  BY <1>2 DEF SendRequest, heapVars
<1>3. ASSUME NEW d \in Callers, SendTimeout(d) \/ ReceiveReply(d)
                 \/ ReceiveTimeout(d) \/ DeleteReplyQueue(d)
      PROVE  block'[c] = block[c] /\ call'[c] = call[c] /\ pc[c] = "receiving"
  BY <1>3 DEF SendTimeout, ReceiveReply, ReceiveTimeout, DeleteReplyQueue
<1>4. ASSUME NEW d \in Callers, CallNoMem(d)
      PROVE  block'[c] = block[c] /\ call'[c] = call[c] /\ pc[c] = "receiving"
  BY <1>4 DEF CallNoMem
<1>5. CASE WorkerStep \/ UNCHANGED vars
  BY <1>5 DEF WorkerStep, ReceiveRequest, Execute, Reply, ReplyTimeout,
              ReplyDangling, ScheduleReboot, ScheduleRebootFails, callerVars,
              vars
<1>6. ~Restart
  BY DEF Restart
<1> QED
  BY <1>1, <1>2, <1>3, <1>4, <1>5, <1>6
  DEF Next, CallerStep, DelayedReboot, DanglingPanic

(* Only ReceiveReply gives a caller a response; a call begins with none. *)
LEMMA GotChange ==
    ASSUME TypeOK, [Next]_vars, NEW c \in Callers
    PROVE  \/ got'[c] = Nil
           \/ (got'[c] = got[c] /\ call'[c] = call[c])
           \/ ReceiveReply(c)
<1> USE DEF TypeOK
<1>1. ASSUME NEW d \in Callers, NEW b \in Blocks, Call(d, b)
      PROVE  got'[c] = Nil \/ (got'[c] = got[c] /\ call'[c] = call[c])
  BY <1>1 DEF Call
<1>2. ASSUME NEW d \in Callers, CallNoMem(d)
      PROVE  got'[c] = Nil \/ (got'[c] = got[c] /\ call'[c] = call[c])
  BY <1>2 DEF CallNoMem
<1>3. ASSUME NEW d \in Callers, ReceiveReply(d), d # c
      PROVE  got'[c] = got[c] /\ call'[c] = call[c]
  BY <1>3 DEF ReceiveReply
<1>4. ASSUME NEW d \in Callers, CallerStep(d), ~ReceiveReply(d)
      PROVE  UNCHANGED <<got, call>>
  BY <1>4 DEF CallerStep, SendRequest, SendTimeout, ReceiveTimeout,
              DeleteReplyQueue
<1>5. CASE WorkerStep \/ UNCHANGED vars
  BY <1>5 DEF WorkerStep, ReceiveRequest, Execute, Reply, ReplyTimeout,
              ReplyDangling, ScheduleReboot, ScheduleRebootFails, callerVars,
              vars
<1>6. CASE Restart
  BY <1>6 DEF Restart
<1> QED
  BY <1>1, <1>2, <1>3, <1>4, <1>5, <1>6
  DEF Next, CallerStep, DelayedReboot, DanglingPanic

-----------------------------------------------------------------------------
(* What a step of the composition does to one handler. *)

(* The endpoint is chosen when the request arrives. *)
LEMMA EndpointStable ==
    ASSUME GatewayTypeOK, [GatewayNext]_allVars, ~GatewayRestart,
           NEW c \in Callers, handler[c] # "ready"
    PROVE  endpoint'[c] = endpoint[c]
<1> USE DEF GatewayTypeOK
<1>1. ASSUME NEW d \in Callers, NEW e \in Endpoints, Request(d, e)
      PROVE  endpoint'[c] = endpoint[c]
  BY <1>1 DEF Request
<1>2. ASSUME NEW d \in Callers, HandlerStep(d) PROVE UNCHANGED endpoint
  BY <1>2 DEF HandlerStep, Authorized, Unauthorized, BadRequest, StubAnswer,
              ApiCall, ApiSend, ApiWait, ApiAnswer, gatewayVars
<1> QED
  BY <1>1, <1>2
  DEF GatewayNext, ExecuteCommand, OtherWorkerStep, gatewayVars, allVars

(* A handler enters web_api_call without a response. *)
LEMMA CallingBefore ==
    ASSUME GatewayTypeOK, [GatewayNext]_allVars,
           NEW c \in Callers, handler'[c] = "calling"
    PROVE  handler[c] = "calling" \/ got'[c] = Nil
<1> USE DEF GatewayTypeOK
<1>1. ASSUME NEW d \in Callers, NEW e \in Endpoints, Request(d, e)
      PROVE  handler[c] = "calling"
  BY <1>1 DEF Request, Goto
<1>2. ASSUME NEW d \in Callers, ApiCall(d)
      PROVE  handler[c] = "calling" \/ got'[c] = Nil
  BY <1>2 DEF ApiCall, Goto, Call, CallNoMem, TypeOK
<1>3. ASSUME NEW d \in Callers, HandlerStep(d), ~ApiCall(d)
      PROVE  handler[c] = "calling"
  <2>1. CASE Authorized(d)
    BY <2>1 DEF Authorized, Goto
  <2>2. CASE Unauthorized(d) \/ BadRequest(d) \/ StubAnswer(d) \/ ApiAnswer(d)
    BY <2>2 DEF Unauthorized, BadRequest, StubAnswer, ApiAnswer, Answer, Goto
  <2>3. CASE ApiSend(d) \/ ApiWait(d)
    BY <2>3 DEF ApiSend, ApiWait, gatewayVars
  <2> QED  BY <1>3, <2>1, <2>2, <2>3 DEF HandlerStep
<1>4. CASE GatewayRestart
  BY <1>4 DEF GatewayRestart
<1> QED
  BY <1>1, <1>2, <1>3, <1>4
  DEF GatewayNext, ExecuteCommand, OtherWorkerStep, gatewayVars, allVars

(* A message is sent by a handler, with the command of its endpoint. *)
LEMMA SentByHandler ==
    ASSUME GInv, [GatewayNext]_allVars,
           NEW c \in Callers, NEW type \in Commands, SendRequest(c, type)
    PROVE  /\ handler[c] = "calling"
           /\ Sent(c, type).type = endpoint[c].command
           /\ endpoint'[c] = endpoint[c]
<1>0. TypeOK /\ Serving /\ Calls /\ GatewayTypeOK
  BY DEF GInv, IInv
<1> HIDE DEF GInv
<1>1. pc[c] = "sending" /\ pc'[c] = "receiving" /\ handler[c] = "calling"
  BY <1>0 DEF SendRequest, TypeOK, Serving
<1>2. ApiSend(c)
  <2>1. ASSUME NEW d \in Callers, HandlerStep(d), ~ApiSend(c) PROVE pc'[c] = pc[c] \/ pc'[c] # "receiving"
    <3>1. CASE ApiSend(d) /\ d # c
      BY <1>0, <3>1 DEF ApiSend, SendRequest, TypeOK
    <3>2. CASE ApiCall(d)
      BY <1>0, <3>2 DEF ApiCall, Call, CallNoMem, TypeOK
    <3>3. CASE ApiWait(d)
      BY <1>0, <3>3 DEF ApiWait, SendTimeout, ReceiveReply, ReceiveTimeout,
                        DeleteReplyQueue, TypeOK
    <3>4. CASE Authorized(d) \/ Unauthorized(d) \/ BadRequest(d)
                  \/ StubAnswer(d) \/ ApiAnswer(d)
      BY <3>4 DEF Authorized, Unauthorized, BadRequest, StubAnswer, ApiAnswer,
                  vars
    <3> QED  BY <2>1, <3>1, <3>2, <3>3, <3>4 DEF HandlerStep
  <2>2. CASE OtherWorkerStep \/ ExecuteCommand
    BY <1>1, <2>2 DEF OtherWorkerStep, ExecuteCommand, ReceiveRequest, Execute,
                      Reply, ReplyTimeout, ReplyDangling, ScheduleReboot,
                      ScheduleRebootFails, callerVars
  <2>3. CASE GatewayRestart
    BY <1>1, <2>3 DEF GatewayRestart, DelayedReboot, DanglingPanic, Restart
  <2> QED
    BY <1>1, <2>1, <2>2, <2>3 DEF GatewayNext, Request, allVars, vars
<1>3. Sent(c, type) = Sent(c, endpoint[c].command)
  <2>1. /\ requestQueue' = Append(requestQueue, Sent(c, type))
        /\ requestQueue' = Append(requestQueue, Sent(c, endpoint[c].command))
    BY <1>2 DEF ApiSend, SendRequest, Sent
  <2>2. endpoint[c].command \in Commands
    BY <1>0, <1>1 DEF Serving
  <2>3. Sent(c, type) \in Messages /\ Sent(c, endpoint[c].command) \in Messages
    BY <1>0, <1>1, <2>2 DEF Sent, Messages, Calls, TypeOK
  <2>4. requestQueue \in Seq(Messages)
    BY <1>0 DEF TypeOK
  <2>5. /\ requestQueue'[Len(requestQueue) + 1] = Sent(c, type)
        /\ requestQueue'[Len(requestQueue) + 1] = Sent(c, endpoint[c].command)
    <3> HIDE DEF Sent
    <3>1. \A m \in Messages :
             Append(requestQueue, m)[Len(requestQueue) + 1] = m
      BY <2>4, AppendFacts
    <3> QED  BY <2>1, <2>3, <3>1
  <2> QED  BY <2>5
<1> QED  BY <1>1, <1>2, <1>3 DEF Sent, ApiSend, gatewayVars

-----------------------------------------------------------------------------
(* Messages and responses fit the request that is being served. *)

LEMMA FittingStep ==
    ASSUME GInv, [GatewayNext]_allVars
    PROVE  Fitting'
<1>0. /\ IInv /\ TypeOK /\ Calls /\ AllNumbered /\ GatewayTypeOK /\ Serving
      /\ Fitting /\ Traced /\ [Next]_vars
  BY StepMaps DEF GInv, IInv
<1>1. CASE Restart
  BY <1>1 DEF Restart, Outstanding, WorkerHolds, Fitting
<1> SUFFICES ASSUME ~Restart PROVE Fitting'
  BY <1>1
<1>2. ~GatewayRestart
  BY DEF GatewayRestart, DelayedReboot, DanglingPanic
<1>3. ASSUME NEW m \in Outstanding
      PROVE  /\ m.from \in Callers /\ m.call \in Nat /\ Numbered(m)
             /\ pc[m.from] # "idle" /\ m.call = call[m.from]
                  => /\ handler[m.from] = "calling"
                     /\ m.type = endpoint[m.from].command
  BY <1>0, <1>3, OutstandingMessages DEF AllNumbered, Serving, Fitting
<1>4. ASSUME NEW m \in Outstanding',
             pc'[m.from] # "idle", m.call = call'[m.from]
      PROVE  m.type = endpoint'[m.from].command
  <2>1. CASE m \in Outstanding
    <3>1. m.call <= calls /\ calls \in Nat /\ m.call \in Nat /\ m.from \in Callers
      BY <1>0, <1>3, <2>1 DEF Numbered, TypeOK
    <3>2. pc[m.from] # "idle" /\ m.call = call[m.from]
      BY <1>0, <1>4, <3>1, InCallBefore
    <3> QED
      BY <1>0, <1>2, <1>3, <2>1, <3>2, EndpointStable
  <2>2. ASSUME NEW c \in Callers, NEW type \in Commands, SendRequest(c, type),
               m = Sent(c, type)
        PROVE  m.type = endpoint'[m.from].command
    BY <2>2, SentByHandler DEF Sent
  <2> QED  BY <1>0, <2>1, <2>2, OutstandingNext
<1>5. ASSUME wpc' = "replying"
      PROVE  response'.http_status \in HttpStatuses(message'.type)
  <2>1. CASE Execute
    BY <2>1 DEF Execute
  <2>2. CASE UNCHANGED workerVars
    BY <1>0, <1>5, <2>2 DEF workerVars, Fitting
  <2> QED  BY <1>0, <1>5, <2>1, <2>2, WorkerChange
<1>6. ASSUME NEW c \in Callers, pc'[c] = "receiving", mailbox'[block'[c]] # Nil,
             mailbox'[block'[c]].call = call'[c]
      PROVE  mailbox'[block'[c]].http_status \in HttpStatuses(endpoint'[c].command)
  <2>1. /\ block'[c] = block[c] /\ call'[c] = call[c]
        /\ block[c] \in Blocks /\ call[c] \in Nat
        /\ handler[c] = "calling" /\ endpoint'[c] = endpoint[c]
        /\ pc[c] = "receiving" \/ (pc[c] = "sending" /\ UNCHANGED mailbox)
    BY <1>0, <1>2, <1>6, ReceivingBefore, EndpointStable
    DEF Calls, Serving, TypeOK
  <2>2. pc[c] = "receiving"
    BY <1>0, <1>6, <2>1 DEF Traced
  <2>3. CASE Reply /\ block[c] = message.reply
    <3>1. /\ message \in Outstanding /\ wpc = "replying"
          /\ response.call = message.call /\ mailbox'[block[c]] = response
      BY <1>0, <2>1, <2>3, ReplyFacts DEF Reply, TypeOK
    <3>2. call[c] = message.call
      BY <1>6, <2>1, <3>1
    <3>3. c = message.from
      BY <1>3, <3>1, <3>2 DEF Numbered
    <3>4. message.type = endpoint[c].command
      BY <1>3, <2>2, <3>1, <3>2, <3>3
    <3> QED
      BY <1>0, <2>1, <3>1, <3>4 DEF Fitting
  <2>4. CASE Reply /\ block[c] # message.reply
    BY <1>0, <1>6, <2>1, <2>2, <2>4 DEF Reply, TypeOK, Fitting
  <2>5. CASE mailbox'[block[c]] = mailbox[block[c]]
    BY <1>0, <1>6, <2>1, <2>2, <2>5 DEF Fitting
  <2> QED  BY <1>0, <1>6, <2>1, <2>3, <2>4, <2>5, MailboxChange
<1>7. ASSUME NEW c \in Callers, handler'[c] = "calling", got'[c] # Nil,
             got'[c].call = call'[c]
      PROVE  got'[c].http_status \in HttpStatuses(endpoint'[c].command)
  <2>1. handler[c] = "calling" /\ endpoint'[c] = endpoint[c]
    BY <1>0, <1>2, <1>7, CallingBefore, EndpointStable
  <2>2. CASE ReceiveReply(c)
    BY <1>0, <1>7, <2>1, <2>2 DEF ReceiveReply, TypeOK, Fitting
  <2>3. CASE got'[c] = got[c] /\ call'[c] = call[c]
    BY <1>0, <1>7, <2>1, <2>3 DEF Fitting
  <2> QED  BY <1>0, <1>7, <2>2, <2>3, GotChange
<1> QED  BY <1>4, <1>5, <1>6, <1>7 DEF Fitting

-----------------------------------------------------------------------------
(* The invariant. *)

LEMMA GInvStep ==
    ASSUME GInv, [GatewayNext]_allVars
    PROVE  GInv'
<1>1. IInv'
  BY StepMaps, InvNext DEF GInv
<1>2. GatewayTypeOK'
  BY <1>1, GatewayTypeStep DEF IInv
<1> QED  BY <1>1, <1>2, ServingStep, FittingStep DEF GInv

LEMMA GatewayInvariance == GatewaySpec => []GInv
<1>1. GInv /\ [GatewayNext]_allVars => GInv'
  BY GInvStep
<1> QED  BY <1>1, GatewayInitInv, PTL DEF GatewaySpec

(* Every variable of the composition keeps its type, and a caller is in    *)
(* web_api_call only while its handler is (https_server.c:140-274).        *)
THEOREM GatewayTypeCorrect == GatewaySpec => []GatewayTypeOK
BY GatewayInvariance, PTL DEF GInv

(* The status a client sees is an outcome of its own request, for any      *)
(* number of handlers at work at once, unless a late response reaches it:  *)
(* that of an earlier request, and no earlier than the first one whose     *)
(* reply was given up waiting for (https_server.c:157-174).                *)
THEOREM StatusIsOwn == GatewaySpec => AnswersOwnOrLate
<1>1. ASSUME GInv, NEW c \in Callers, ApiAnswer(c), got[c] # Nil
      PROVE  \/ /\ got[c].call = call[c]
                /\ got[c].http_status \in HttpStatuses(endpoint[c].command)
             \/ got[c].call < call[c] /\ LateSince(got[c].call)
  <2>1. OwnOrLate(got[c], call[c]) /\ Fitting /\ handler[c] = "calling"
    BY <1>1 DEF GInv, IInv, Traced, ApiAnswer
  <2> QED  BY <1>1, <2>1 DEF OwnOrLate, Fitting
<1>2. GInv /\ [GatewayNext]_allVars =>
         [\A c \in Callers :
            ApiAnswer(c) /\ got[c] # Nil
              => \/ /\ got[c].call = call[c]
                    /\ got[c].http_status \in HttpStatuses(endpoint[c].command)
                 \/ got[c].call < call[c] /\ LateSince(got[c].call)
         ]_allVars
  BY <1>1
<1> QED  BY <1>2, GatewayInvariance, PTL DEF GatewaySpec, AnswersOwnOrLate

-----------------------------------------------------------------------------
(* One HTTPS task.  main.c starts a single server, so there is one caller; *)
(* with a second one neither of these properties holds.                    *)

OneTask == \A c, d \in Callers : c = d

(* What a guarded request was verified against is still so while it is     *)
(* being served.                                                           *)
Verified ==
    abandoned = {} =>
       \A c \in Callers :
          handler[c] \in {"body", "calling"} /\ endpoint[c].verify
             => verifiedAt[c] = sessionOps

(* While no call has been abandoned, the handler of a command waits. *)
LEMMA HandlerWaits ==
    ASSUME GInv, abandoned = {}, wpc = "executing"
    PROVE  /\ message.from \in Callers
           /\ handler[message.from] = "calling"
           /\ message.type = endpoint[message.from].command
           /\ endpoint[message.from] \in Endpoints
<1>1. message \in Outstanding /\ TypeOK /\ Traced /\ Serving /\ Fitting
  BY DEF GInv, IInv, Outstanding, WorkerHolds
<1>2. Awaited(message)
  BY <1>1 DEF Traced, LateSince
<1> QED  BY <1>1, <1>2, OutstandingMessages DEF Awaited, Serving, Fitting

LEMMA VerifiedStep ==
    ASSUME OneTask, GInv, Verified, [GatewayNext]_allVars
    PROVE  Verified'
<1>0. GatewayTypeOK /\ [Next]_vars /\ boot \in Nat
  BY StepMaps DEF GInv, IInv, TypeOK
<1>1. CASE GatewayRestart
  BY <1>1 DEF GatewayRestart, Verified
<1> SUFFICES ASSUME ~GatewayRestart, abandoned = {},
                    NEW c \in Callers, handler'[c] \in {"body", "calling"},
                    endpoint'[c].verify
             PROVE  verifiedAt'[c] = sessionOps'
  <2>1. GatewayRestart \/ UNCHANGED boot
    <3>1. ASSUME NEW d \in Callers, HandlerStep(d) PROVE UNCHANGED boot
      BY <3>1 DEF HandlerStep, Authorized, Unauthorized, BadRequest, StubAnswer,
         ApiCall, ApiSend, ApiWait, ApiAnswer, Call, CallNoMem, SendRequest,
         SendTimeout, ReceiveReply, ReceiveTimeout, DeleteReplyQueue,
         historyVars, vars
    <3>2. ASSUME ExecuteCommand \/ OtherWorkerStep PROVE UNCHANGED boot
      BY <3>2 DEF ExecuteCommand, OtherWorkerStep, ReceiveRequest, Execute, Reply,
         ReplyTimeout, ReplyDangling, ScheduleReboot, ScheduleRebootFails,
         historyVars
    <3> QED  BY <3>1, <3>2 DEF GatewayNext, Request, allVars, vars
  <2>2. ~GatewayRestart /\ abandoned' = {} => abandoned = {}
    BY <1>0, <2>1, NoneAbandonedBefore DEF Restart
  <2> QED  BY <1>1, <2>2 DEF Verified
<1>2. ASSUME NEW d \in Callers, NEW e \in Endpoints, Request(d, e)
      PROVE  verifiedAt'[c] = sessionOps'
  BY <1>0, <1>2 DEF OneTask, Request, Goto, GatewayTypeOK
<1>3. ASSUME NEW d \in Callers, HandlerStep(d)
      PROVE  verifiedAt'[c] = sessionOps'
  <2>0. c = d
    BY DEF OneTask
  <2>1. CASE Authorized(d)
    BY <1>0, <2>0, <2>1 DEF Authorized, GatewayTypeOK
  <2>2. CASE Unauthorized(d) \/ BadRequest(d) \/ StubAnswer(d) \/ ApiAnswer(d)
    BY <1>0, <2>0, <2>2 DEF Unauthorized, BadRequest, StubAnswer, ApiAnswer,
                            Answer, Goto, GatewayTypeOK
  <2>3. CASE ApiCall(d)
    BY <2>0, <2>3 DEF ApiCall, Verified
  <2>4. CASE ApiSend(d) \/ ApiWait(d)
    BY <2>4 DEF ApiSend, ApiWait, gatewayVars, Verified
  <2> QED  BY <1>3, <2>1, <2>2, <2>3, <2>4 DEF HandlerStep
<1>4. CASE ExecuteCommand
  <2>1. /\ message.from = c /\ handler[c] = "calling" /\ endpoint[c] \in Endpoints
        /\ message.type = endpoint[c].command
    BY <1>4, HandlerWaits DEF ExecuteCommand, Execute, OneTask
  <2>2. endpoint[c].verify /\ verifiedAt'[c] = verifiedAt[c]
    BY <1>4 DEF ExecuteCommand
  <2>3. message.type \notin SessionCommands
    BY <2>1, <2>2 DEF Endpoints, SessionCommands
  <2> QED  BY <1>0, <1>4, <2>1, <2>2, <2>3
           DEF ExecuteCommand, Verified, GatewayTypeOK
<1>5. CASE OtherWorkerStep \/ UNCHANGED allVars
  BY <1>5 DEF OtherWorkerStep, gatewayVars, allVars, Verified
<1> QED  BY <1>2, <1>3, <1>4, <1>5 DEF GatewayNext

(* The HTTPS task and web_api_task are never in the token array together   *)
(* before a call has timed out (auth_service.c:38, https_server.c:140).    *)
THEOREM TableIsExclusive ==
    ASSUME OneTask PROVE GatewaySpec => []TableExclusive
<1>1. GInv => TableExclusive
  <2> SUFFICES ASSUME GInv, abandoned = {}, wpc = "executing",
                      NEW c \in Callers, handler[c] = "verifying"
               PROVE  FALSE
    BY DEF TableExclusive
  <2> QED  BY HandlerWaits DEF OneTask
<1> QED  BY <1>1, GatewayInvariance, PTL

(* No login or logout comes between the verification of a request and the  *)
(* execution of its command before a call has timed out                    *)
(* (https_server.c:222-274).                                               *)
THEOREM AuthorizationIsFresh ==
    ASSUME OneTask PROVE GatewaySpec => []StillAuthorized
<1>1. GatewayInit => Verified
  BY DEF GatewayInit, Verified
<1>2. GInv /\ Verified /\ [GatewayNext]_allVars => Verified'
  BY VerifiedStep
<1>3. GInv /\ Verified => StillAuthorized
  <2> SUFFICES ASSUME GInv, Verified, abandoned = {}, wpc = "executing",
                      endpoint[message.from].verify
               PROVE  verifiedAt[message.from] = sessionOps
    BY DEF StillAuthorized
  <2> QED  BY HandlerWaits DEF Verified
<1> QED  BY <1>1, <1>2, <1>3, GatewayInvariance, PTL DEF GatewaySpec

=============================================================================
