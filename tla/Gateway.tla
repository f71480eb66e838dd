------------------------------- MODULE Gateway -------------------------------
(***************************************************************************)
(* The request handlers of main/https_server.c on top of the web API.      *)
(*                                                                         *)
(* The task of the HTTPS server runs one handler at a time.  A handler may *)
(* verify the session token itself, in the array of auth_service.c that    *)
(* web_api_task uses too, with no lock: reads the request body; and then   *)
(* answers on its own or makes one web_api_call and answers with what that *)
(* returns.  The endpoints differ only in which of these steps they take.  *)
(***************************************************************************)
EXTENDS WebApi

(* What a handler does: does it call ensure_authorized, and which command  *)
(* does it send ("none": it answers by itself, as the settings stubs do).  *)
(* The password endpoint leaves the verification to web_api_task.          *)
Endpoints ==
    {e \in [verify : BOOLEAN, command : Commands \cup {"none"}] :
        \/ e.command = "none" /\ e.verify
        \/ e.command = "GET"
        \/ e.command \in CmdTypes \ {"GET", "UNSUPPORTED"} /\ ~e.verify}

(* The commands that read or write the token array in web_api_task. *)
TableCommands == {"AUTH_LOGIN", "AUTH_LOGOUT", "AUTH_CHANGE_PASSWORD"}

(* Those that add or remove a session. *)
SessionCommands == {"AUTH_LOGIN", "AUTH_LOGOUT"}

VARIABLES
    handler,     \* where the HTTPS task of each caller is
    endpoint,    \* the endpoint it serves
    status,      \* the status of its last answer
    sessionOps,  \* history: the session commands executed since boot
    verifiedAt   \* history: sessionOps when the request was verified

gatewayVars == <<handler, endpoint, status, sessionOps, verifiedAt>>
allVars     == <<requestQueue, owner, mailbox, pc, call, block, ret, got, wpc,
                 message, response, rebootTasks, boot, calls, abandoned,
                 lastDone, handler, endpoint, status, sessionOps, verifiedAt>>

GatewayInit ==
    /\ Init
    /\ handler = [c \in Callers |-> "ready"]
    /\ endpoint = [c \in Callers |-> Nil]
    /\ status = [c \in Callers |-> 0]
    /\ sessionOps = 0
    /\ verifiedAt = [c \in Callers |-> 0]

-----------------------------------------------------------------------------
(* The handlers. *)

Goto(c, to) == handler' = [handler EXCEPT ![c] = to]

Answer(c, http) ==
    /\ Goto(c, "ready")
    /\ status' = [status EXCEPT ![c] = http]

(* Mutant: the token is not verified again. *)
RequestTrusted(c, e) ==
    /\ handler[c] = "ready"
    /\ calls < MaxCalls
    /\ endpoint' = [endpoint EXCEPT ![c] = e]
    /\ Goto(c, "body")
    /\ UNCHANGED <<vars, status, sessionOps, verifiedAt>>

(* A request arrives; the guarded endpoints enter the token array. *)
Request(c, e) ==
    /\ handler[c] = "ready"
    /\ calls < MaxCalls
    /\ endpoint' = [endpoint EXCEPT ![c] = e]
    /\ Goto(c, IF e.verify THEN "verifying" ELSE "body")
    /\ UNCHANGED <<vars, status, sessionOps, verifiedAt>>

(* auth_service_verify_token returns true. *)
Authorized(c) ==
    /\ handler[c] = "verifying"
    /\ Goto(c, "body")
    /\ verifiedAt' = [verifiedAt EXCEPT ![c] = sessionOps]
    /\ UNCHANGED <<vars, endpoint, status, sessionOps>>

Unauthorized(c) ==
    /\ handler[c] = "verifying"
    /\ Answer(c, 401)
    /\ UNCHANGED <<vars, endpoint, sessionOps, verifiedAt>>

(* The body is too long, cut off, no JSON or lacks a field; or the header  *)
(* with the token, which the password endpoint reads itself, is missing.   *)
BadRequest(c) ==
    /\ handler[c] = "body"
    /\ \/ /\ endpoint[c].command \in {"none", "SET_NETWORK", "AUTH_LOGIN",
                                     "AUTH_CHANGE_PASSWORD"}
          /\ Answer(c, 400)
       \/ /\ endpoint[c].command = "AUTH_CHANGE_PASSWORD"
          /\ Answer(c, 401)
    /\ UNCHANGED <<vars, endpoint, sessionOps, verifiedAt>>

(* send_json_stub. *)
StubAnswer(c) ==
    /\ handler[c] = "body"
    /\ endpoint[c].command = "none"
    /\ Answer(c, 200)
    /\ UNCHANGED <<vars, endpoint, sessionOps, verifiedAt>>

(* do_api_call enters web_api_call, which makes the reply queue. *)
ApiCall(c) ==
    /\ handler[c] = "body"
    /\ endpoint[c].command # "none"
    /\ (\E b \in Blocks : Call(c, b)) \/ CallNoMem(c)
    /\ Goto(c, "calling")
    /\ UNCHANGED <<endpoint, status, sessionOps, verifiedAt>>

(* Mutant: the handler does not wait for the reply. *)
ApiSendAsync(c) ==
    /\ handler[c] = "calling"
    /\ SendRequest(c, endpoint[c].command)
    /\ Goto(c, "ready")
    /\ UNCHANGED <<endpoint, status, sessionOps, verifiedAt>>

(* Mutant: the handler of the reboot sends the wrong command. *)
ApiSendWrong(c) ==
    /\ handler[c] = "calling"
    /\ SendRequest(c, IF endpoint[c].command = "REBOOT" THEN "GET"
                      ELSE endpoint[c].command)
    /\ UNCHANGED gatewayVars

(* web_api_call sends the command of the endpoint, and goes on to its end. *)
ApiSend(c) ==
    /\ handler[c] = "calling"
    /\ SendRequest(c, endpoint[c].command)
    /\ UNCHANGED gatewayVars

(* Mutant: the wait for the reply has no timeout. *)
ApiWaitForever(c) ==
    /\ handler[c] = "calling"
    /\ \/ SendTimeout(c)
       \/ ReceiveReply(c)
       \/ DeleteReplyQueue(c)
    /\ UNCHANGED gatewayVars

ApiWait(c) ==
    /\ handler[c] = "calling"
    /\ \/ SendTimeout(c)
       \/ ReceiveReply(c)
       \/ ReceiveTimeout(c)
       \/ DeleteReplyQueue(c)
    /\ UNCHANGED gatewayVars

(* Mutant: the esp_err_t of web_api_call becomes the status. *)
AnswerError(c) ==
    /\ handler[c] = "calling"
    /\ pc[c] = "idle"
    /\ Answer(c, IF got[c] = Nil THEN 263 ELSE got[c].http_status)
    /\ UNCHANGED <<vars, endpoint, sessionOps, verifiedAt>>

(* web_api_call has returned.  Without a response the answer is 500.       *)
ApiAnswer(c) ==
    /\ handler[c] = "calling"
    /\ pc[c] = "idle"
    /\ Answer(c, IF got[c] = Nil THEN 500 ELSE got[c].http_status)
    /\ UNCHANGED <<vars, endpoint, sessionOps, verifiedAt>>

-----------------------------------------------------------------------------
(* web_api_task and the restarts. *)

ExecuteCommand ==
    /\ Execute
    /\ sessionOps' = sessionOps + IF message.type \in SessionCommands THEN 1 ELSE 0
    /\ UNCHANGED <<handler, endpoint, status, verifiedAt>>

OtherWorkerStep ==
    /\ \/ ReceiveRequest
       \/ Reply
       \/ ReplyTimeout
       \/ ReplyDangling
       \/ ScheduleReboot
       \/ ScheduleRebootFails
    /\ UNCHANGED gatewayVars

GatewayRestart ==
    /\ DelayedReboot \/ DanglingPanic
    /\ handler' = [c \in Callers |-> "ready"]
    /\ endpoint' = [c \in Callers |-> Nil]
    /\ status' = [c \in Callers |-> 0]
    /\ sessionOps' = 0
    /\ verifiedAt' = [c \in Callers |-> 0]

HandlerStep(c) ==
    \/ Authorized(c)
    \/ Unauthorized(c)
    \/ BadRequest(c)
    \/ StubAnswer(c)
    \/ ApiCall(c)
    \/ ApiSend(c)
    \/ ApiWait(c)
    \/ ApiAnswer(c)

GatewayNext ==
    \/ \E c \in Callers, e \in Endpoints : Request(c, e)
    \/ \E c \in Callers : HandlerStep(c)
    \/ ExecuteCommand
    \/ OtherWorkerStep
    \/ GatewayRestart

(* A handler takes its next step: reading the body and both waits of       *)
(* web_api_call are bounded.  Nothing is assumed of web_api_task.          *)
GatewaySpec ==
    /\ GatewayInit
    /\ [][GatewayNext]_allVars
    /\ \A c \in Callers : WF_allVars(HandlerStep(c))

-----------------------------------------------------------------------------

GatewayTypeOK ==
    /\ TypeOK
    /\ handler \in [Callers -> {"ready", "verifying", "body", "calling"}]
    /\ endpoint \in [Callers -> Endpoints \cup {Nil}]
    /\ status \in [Callers -> {0, 200, 202, 400, 401, 404, 500}]
    /\ sessionOps \in Nat
    /\ verifiedAt \in [Callers -> Nat]
    /\ \A c \in Callers : pc[c] # "idle" => handler[c] = "calling"

-----------------------------------------------------------------------------
(* Properties. *)

(* The array s_tokens has no lock: what keeps the HTTPS task and           *)
(* web_api_task apart in it is only that a handler waits for its command.  *)
(* They never meet there before some call has timed out                    *)
(* (auth_service.c:38, https_server.c:140, web_api.c:212-248).             *)
TableExclusive ==
    abandoned = {} =>
       ~ /\ wpc = "executing" /\ message.type \in TableCommands
         /\ \E c \in Callers : handler[c] = "verifying"

(* A guarded command is executed for the sessions it was verified against: *)
(* no login or logout comes in between, as long as no call has timed out   *)
(* (https_server.c:222-274).                                               *)
StillAuthorized ==
    abandoned = {} /\ wpc = "executing" /\ endpoint[message.from].verify
       => verifiedAt[message.from] = sessionOps

(* What a client is answered with: the outcome of its own request, with a  *)
(* status that its command has, or else a late response, which is that of  *)
(* an earlier request and no earlier than the first one whose reply was    *)
(* given up waiting for (https_server.c:157-174, web_api.c:340).           *)
AnswersOwnOrLate ==
    [][\A c \in Callers :
          ApiAnswer(c) /\ got[c] # Nil
             => \/ /\ got[c].call = call[c]
                   /\ got[c].http_status \in HttpStatuses(endpoint[c].command)
                \/ got[c].call < call[c] /\ LateSince(got[c].call)
      ]_allVars

(* The HTTPS task gets back to its next request, even if web_api_task      *)
(* hangs inside a command.                                                 *)
RequestsAnswered ==
    \A c \in Callers : handler[c] # "ready" ~> handler[c] = "ready"

=============================================================================
