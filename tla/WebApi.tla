------------------------------- MODULE WebApi -------------------------------
(***************************************************************************)
(* The internal web API of main/web_api.c: a request queue between the     *)
(* tasks that call web_api_call and the single web_api_task that executes  *)
(* the commands.                                                           *)
(*                                                                         *)
(* Each call creates a reply queue of its own, puts the queue's handle in  *)
(* the message, and waits a bounded time twice: for room in the request    *)
(* queue and for the reply.  A caller that gives up deletes its reply      *)
(* queue although the message that names it is still with web_api_task.    *)
(* A handle is a heap address, so the block of a deleted reply queue may   *)
(* be handed out again to a later call: the model keeps the block in the   *)
(* message, exactly as the code keeps the handle, and lets the allocator   *)
(* return any free block.                                                  *)
(*                                                                         *)
(* What a command does is left to the modules of the services behind it;   *)
(* here a command is the set of answers its case of the switch can give.   *)
(***************************************************************************)
EXTENDS Naturals, Sequences

CONSTANTS
    Callers,          \* the tasks that call web_api_call
    Blocks,           \* the heap blocks xQueueCreate can return
    Commands,         \* the commands the callers issue
    QueueLen,         \* the length of s_request_queue
    MaxCalls,         \* bound: the calls made over a behaviour
    TaskCreateFails,  \* can xTaskCreate of reboot_delayed_task fail?
    Nil               \* no block, no message, no response

(* The command types of web_api_cmd_type_t.  The eight commands that only  *)
(* build a reply from current state are one type, and so are the two that  *)
(* save a network configuration.                                           *)
CmdTypes == {"GET", "SET_NETWORK", "REBOOT", "AUTH_LOGIN", "AUTH_LOGOUT",
             "AUTH_CHANGE_PASSWORD", "UNSUPPORTED"}

(* Mutant: a reply whose http_status was never set. *)
UnsetStatus(type) == {0}

(* The http_status values a case of web_api_task's switch can set. *)
HttpStatuses(type) ==
    CASE type = "GET"                  -> {200}
      [] type = "SET_NETWORK"          -> {202, 500}
      [] type = "REBOOT"               -> {202}
      [] type = "AUTH_LOGIN"           -> {200, 400, 401, 500}
      [] type = "AUTH_LOGOUT"          -> {200}
      [] type = "AUTH_CHANGE_PASSWORD" -> {200, 400, 401, 404, 500}
      [] type = "UNSUPPORTED"          -> {400}

(* schedule_reboot is set exactly by the cases that answer 202. *)
SchedulesReboot(http) == http = 202

ASSUME WebApiAssumption ==
    /\ Commands \subseteq CmdTypes
    /\ QueueLen \in Nat \ {0}
    /\ MaxCalls \in Nat
    /\ TaskCreateFails \in BOOLEAN

VARIABLES
    requestQueue,  \* s_request_queue
    owner,         \* the call whose reply queue occupies a block, 0 if free
    mailbox,       \* the response in the reply queue of a block, or Nil
    pc,            \* where each caller is in web_api_call
    call,          \* the number of the caller's latest call
    block,         \* the caller's reply queue
    ret,           \* what web_api_call last returned to the caller
    got,           \* the response it last copied out, or Nil
    wpc,           \* where web_api_task is in its loop
    message,       \* the message web_api_task holds
    response,      \* the response it has built
    rebootTasks,   \* reboot_delayed_task instances that are sleeping
    boot,          \* history: restarts so far
    calls,         \* history: calls so far, over all boots
    abandoned,     \* history: calls of this boot that timed out on the reply
    lastDone       \* history: the last call executed for each caller

callerVars  == <<pc, call, block, ret, got>>
heapVars    == <<owner, mailbox>>
workerVars  == <<wpc, message, response>>
historyVars == <<boot, calls, abandoned, lastDone>>

vars == <<requestQueue, owner, mailbox, pc, call, block, ret, got, wpc,
          message, response, rebootTasks, boot, calls, abandoned, lastDone>>

-----------------------------------------------------------------------------

Messages  == [call : Nat \ {0}, from : Callers, type : Commands, reply : Blocks]
Responses == [call : Nat \ {0},
              http_status : {200, 202, 400, 401, 404, 500},
              schedule_reboot : BOOLEAN]

ASSUME NilAssumption == Nil \notin Blocks \cup Messages \cup Responses

Init ==
    /\ requestQueue = <<>>
    /\ owner = [b \in Blocks |-> 0]
    /\ mailbox = [b \in Blocks |-> Nil]
    /\ pc = [c \in Callers |-> "idle"]
    /\ call = [c \in Callers |-> 0]
    /\ block = [c \in Callers |-> Nil]
    /\ ret = [c \in Callers |-> "none"]
    /\ got = [c \in Callers |-> Nil]
    /\ wpc = "idle"
    /\ message = Nil
    /\ response = Nil
    /\ rebootTasks = 0
    /\ boot = 0
    /\ calls = 0
    /\ abandoned = {}
    /\ lastDone = [c \in Callers |-> 0]

-----------------------------------------------------------------------------
(* The caller: web_api_call. *)

(* xQueueCreate for the reply succeeds with any free block. *)
Call(c, b) ==
    /\ pc[c] = "idle"
    /\ calls < MaxCalls
    /\ owner[b] = 0
    /\ calls' = calls + 1
    /\ owner' = [owner EXCEPT ![b] = calls + 1]
    /\ mailbox' = [mailbox EXCEPT ![b] = Nil]
    /\ pc' = [pc EXCEPT ![c] = "sending"]
    /\ call' = [call EXCEPT ![c] = calls + 1]
    /\ block' = [block EXCEPT ![c] = b]
    /\ ret' = [ret EXCEPT ![c] = "none"]
    /\ got' = [got EXCEPT ![c] = Nil]
    /\ UNCHANGED <<requestQueue, workerVars, rebootTasks, boot, abandoned,
                   lastDone>>

(* xQueueCreate fails: ESP_ERR_NO_MEM, and nothing was queued. *)
CallNoMem(c) ==
    /\ pc[c] = "idle"
    /\ calls < MaxCalls
    /\ calls' = calls + 1
    /\ call' = [call EXCEPT ![c] = calls + 1]
    /\ ret' = [ret EXCEPT ![c] = "no_mem"]
    /\ got' = [got EXCEPT ![c] = Nil]
    /\ UNCHANGED <<requestQueue, heapVars, pc, block, workerVars, rebootTasks,
                   boot, abandoned, lastDone>>

(* Mutant: the call returns without waiting for the reply. *)
SendWithoutWaiting(c, type) ==
    /\ pc[c] = "sending"
    /\ Len(requestQueue) < QueueLen
    /\ requestQueue' = Append(requestQueue,
          [call |-> call[c], from |-> c, type |-> type, reply |-> block[c]])
    /\ pc' = [pc EXCEPT ![c] = "deleting"]
    /\ UNCHANGED <<heapVars, call, block, ret, got, workerVars, rebootTasks,
                   historyVars>>

(* Mutant: xQueueSendToFront instead of xQueueSend. *)
SendToFront(c, type) ==
    /\ pc[c] = "sending"
    /\ Len(requestQueue) < QueueLen
    /\ requestQueue' =
          <<[call |-> call[c], from |-> c, type |-> type, reply |-> block[c]]>>
             \o requestQueue
    /\ pc' = [pc EXCEPT ![c] = "receiving"]
    /\ UNCHANGED <<heapVars, call, block, ret, got, workerVars, rebootTasks,
                   historyVars>>

(* Mutant: the result of the first xQueueSend is read the wrong way round. *)
SendMisread(c, type) ==
    /\ pc[c] = "sending"
    /\ Len(requestQueue) < QueueLen
    /\ requestQueue' = Append(requestQueue,
          [call |-> call[c], from |-> c, type |-> type, reply |-> block[c]])
    /\ ret' = [ret EXCEPT ![c] = "timeout"]
    /\ pc' = [pc EXCEPT ![c] = "deleting"]
    /\ UNCHANGED <<heapVars, call, block, got, workerVars, rebootTasks,
                   historyVars>>

(* The first xQueueSend finds room in the request queue. *)
SendRequest(c, type) ==
    /\ pc[c] = "sending"
    /\ Len(requestQueue) < QueueLen
    /\ requestQueue' = Append(requestQueue,
          [call |-> call[c], from |-> c, type |-> type, reply |-> block[c]])
    /\ pc' = [pc EXCEPT ![c] = "receiving"]
    /\ UNCHANGED <<heapVars, call, block, ret, got, workerVars, rebootTasks,
                   historyVars>>

(* vQueueDelete: the block returns to the heap, whatever it held. *)
FreeBlock(b) ==
    /\ owner' = [owner EXCEPT ![b] = 0]
    /\ mailbox' = [mailbox EXCEPT ![b] = Nil]

(* The request queue stayed full for timeout_ms: ESP_ERR_TIMEOUT.  The     *)
(* handle never left the caller, so deleting the queue here is harmless.   *)
SendTimeout(c) ==
    /\ pc[c] = "sending"
    /\ Len(requestQueue) >= QueueLen
    /\ FreeBlock(block[c])
    /\ ret' = [ret EXCEPT ![c] = "timeout"]
    /\ pc' = [pc EXCEPT ![c] = "idle"]
    /\ UNCHANGED <<requestQueue, call, block, got, workerVars, rebootTasks,
                   historyVars>>

(* xQueueReceive on the reply queue takes what is in it.  Nobody compares  *)
(* the response's request_id with the request's.                           *)
ReceiveReply(c) ==
    /\ pc[c] = "receiving"
    /\ mailbox[block[c]] # Nil
    /\ got' = [got EXCEPT ![c] = mailbox[block[c]]]
    /\ mailbox' = [mailbox EXCEPT ![block[c]] = Nil]
    /\ ret' = [ret EXCEPT ![c] = "ok"]
    /\ pc' = [pc EXCEPT ![c] = "deleting"]
    /\ UNCHANGED <<requestQueue, owner, call, block, workerVars, rebootTasks,
                   historyVars>>

(* No reply within timeout_ms.  The message is still queued or executing.  *)
ReceiveTimeout(c) ==
    /\ pc[c] = "receiving"
    /\ mailbox[block[c]] = Nil
    /\ ret' = [ret EXCEPT ![c] = "timeout"]
    /\ pc' = [pc EXCEPT ![c] = "deleting"]
    /\ abandoned' = abandoned \cup {call[c]}
    /\ UNCHANGED <<requestQueue, heapVars, call, block, got, workerVars,
                   rebootTasks, boot, calls, lastDone>>

(* vQueueDelete on either way out. *)
DeleteReplyQueue(c) ==
    /\ pc[c] = "deleting"
    /\ FreeBlock(block[c])
    /\ pc' = [pc EXCEPT ![c] = "idle"]
    /\ UNCHANGED <<requestQueue, call, block, ret, got, workerVars,
                   rebootTasks, historyVars>>

-----------------------------------------------------------------------------
(* The worker: web_api_task. *)

(* Mutant: xQueuePeek instead of xQueueReceive. *)
PeekRequest ==
    /\ wpc = "idle"
    /\ requestQueue # <<>>
    /\ message' = Head(requestQueue)
    /\ wpc' = "executing"
    /\ UNCHANGED <<requestQueue, heapVars, callerVars, response, rebootTasks,
                   historyVars>>

ReceiveRequest ==
    /\ wpc = "idle"
    /\ requestQueue # <<>>
    /\ message' = Head(requestQueue)
    /\ requestQueue' = Tail(requestQueue)
    /\ wpc' = "executing"
    /\ UNCHANGED <<heapVars, callerVars, response, rebootTasks, historyVars>>

(* The switch: the command runs and the response is built. *)
Execute ==
    /\ wpc = "executing"
    /\ \E http \in HttpStatuses(message.type) :
          response' = [call |-> message.call, http_status |-> http,
                       schedule_reboot |-> SchedulesReboot(http)]
    /\ lastDone' = [lastDone EXCEPT ![message.from] = message.call]
    /\ wpc' = "replying"
    /\ UNCHANGED <<requestQueue, heapVars, callerVars, message, rebootTasks,
                   boot, calls, abandoned>>

(* Mutant: schedule_reboot is forgotten. *)
NeverSchedules ==
    /\ wpc' = "idle"
    /\ message' = Nil
    /\ response' = Nil

(* The loop variables are dead once the reply has been tried: the next     *)
(* iteration writes both before it reads them.                             *)
AfterReply ==
    /\ wpc' = IF response.schedule_reboot THEN "scheduling" ELSE "idle"
    /\ message' = Nil
    /\ response' = Nil

(* xQueueSend to the handle in the message: the response lands in whatever *)
(* reply queue occupies that block now.                                    *)
Reply ==
    /\ wpc = "replying"
    /\ owner[message.reply] # 0
    /\ mailbox[message.reply] = Nil
    /\ mailbox' = [mailbox EXCEPT ![message.reply] = response]
    /\ AfterReply
    /\ UNCHANGED <<requestQueue, owner, callerVars, rebootTasks, historyVars>>

(* The reply queue stayed full for 100 ms; the result is not looked at. *)
ReplyTimeout ==
    /\ wpc = "replying"
    /\ owner[message.reply] # 0
    /\ mailbox[message.reply] # Nil
    /\ AfterReply
    /\ UNCHANGED <<requestQueue, heapVars, callerVars, rebootTasks,
                   historyVars>>

(* A send through the handle of a deleted queue whose block is free.  The  *)
(* outcome is undefined; here it happens to touch nothing that is used.    *)
ReplyDangling ==
    /\ wpc = "replying"
    /\ owner[message.reply] = 0
    /\ AfterReply
    /\ UNCHANGED <<requestQueue, heapVars, callerVars, rebootTasks,
                   historyVars>>

(* xTaskCreate of reboot_delayed_task, whose result is not looked at. *)
ScheduleReboot ==
    /\ wpc = "scheduling"
    /\ rebootTasks' = rebootTasks + 1
    /\ wpc' = "idle"
    /\ UNCHANGED <<requestQueue, heapVars, callerVars, message, response,
                   historyVars>>

ScheduleRebootFails ==
    /\ TaskCreateFails
    /\ wpc = "scheduling"
    /\ wpc' = "idle"
    /\ UNCHANGED <<requestQueue, heapVars, callerVars, message, response,
                   rebootTasks, historyVars>>

-----------------------------------------------------------------------------
(* Restarts: every task and queue starts again, and web_api_start runs.    *)

Restart ==
    /\ requestQueue' = <<>>
    /\ owner' = [b \in Blocks |-> 0]
    /\ mailbox' = [b \in Blocks |-> Nil]
    /\ pc' = [c \in Callers |-> "idle"]
    /\ call' = [c \in Callers |-> 0]
    /\ block' = [c \in Callers |-> Nil]
    /\ ret' = [c \in Callers |-> "none"]
    /\ got' = [c \in Callers |-> Nil]
    /\ wpc' = "idle"
    /\ message' = Nil
    /\ response' = Nil
    /\ rebootTasks' = 0
    /\ boot' = boot + 1
    /\ abandoned' = {}
    /\ UNCHANGED <<calls, lastDone>>

(* 750 ms after it was created a reboot_delayed_task calls esp_restart,    *)
(* whatever the other tasks are doing by then.                             *)
DelayedReboot ==
    /\ rebootTasks > 0
    /\ Restart

(* The other outcome of a send to a deleted queue: the kernel or the heap  *)
(* trips over it and the panic handler restarts the chip.                  *)
DanglingPanic ==
    /\ wpc = "replying"
    /\ owner[message.reply] = 0
    /\ Restart

-----------------------------------------------------------------------------

CallerStep(c) ==
    \/ \E type \in Commands : SendRequest(c, type)
    \/ SendTimeout(c)
    \/ ReceiveReply(c)
    \/ ReceiveTimeout(c)
    \/ DeleteReplyQueue(c)

WorkerStep ==
    \/ ReceiveRequest
    \/ Execute
    \/ Reply
    \/ ReplyTimeout
    \/ ReplyDangling
    \/ ScheduleReboot
    \/ ScheduleRebootFails

Next ==
    \/ \E c \in Callers, b \in Blocks : Call(c, b)
    \/ \E c \in Callers : CallNoMem(c)
    \/ \E c \in Callers : CallerStep(c)
    \/ WorkerStep
    \/ DelayedReboot
    \/ DanglingPanic

Spec == Init /\ [][Next]_vars

(* Both waits of web_api_call are bounded by the tick, whatever the other  *)
(* tasks do, so a call in progress always takes its next step.             *)
CallerFairness == \A c \in Callers : WF_vars(CallerStep(c))

(* web_api_task is assumed never to hang inside a command, and a sleeping  *)
(* reboot_delayed_task wakes up.                                           *)
WorkerFairness == WF_vars(WorkerStep) /\ WF_vars(DelayedReboot)

FairSpec == Spec /\ CallerFairness /\ WorkerFairness

-----------------------------------------------------------------------------

TypeOK ==
    /\ requestQueue \in Seq(Messages)
    /\ owner \in [Blocks -> Nat]
    /\ mailbox \in [Blocks -> Responses \cup {Nil}]
    /\ pc \in [Callers -> {"idle", "sending", "receiving", "deleting"}]
    /\ call \in [Callers -> Nat]
    /\ block \in [Callers -> Blocks \cup {Nil}]
    /\ ret \in [Callers -> {"none", "ok", "timeout", "no_mem"}]
    /\ got \in [Callers -> Responses \cup {Nil}]
    /\ wpc \in {"idle", "executing", "replying", "scheduling"}
    /\ message \in Messages \cup {Nil}
    /\ response \in Responses \cup {Nil}
    /\ rebootTasks \in Nat
    /\ boot \in Nat
    /\ calls \in Nat
    /\ abandoned \subseteq Nat
    /\ lastDone \in [Callers -> Nat]
    /\ (message # Nil) <=> wpc \in {"executing", "replying"}
    /\ (response # Nil) <=> wpc = "replying"

-----------------------------------------------------------------------------
(* Properties. *)

WorkerHolds == wpc \in {"executing", "replying"}

(* The messages that web_api_task has still to answer. *)
Outstanding ==
    {requestQueue[i] : i \in DOMAIN requestQueue}
       \cup (IF WorkerHolds THEN {message} ELSE {})

(* The reply of call n, or of a call made before it, was given up waiting  *)
(* for: from then on answers may come late.                                *)
LateSince(n) == \E a \in abandoned : a <= n

(* The handle in an unanswered message is the reply queue of the call that *)
(* sent it, so that the xQueueSend of web_api_task (web_api.c:296) meets   *)
(* no deleted and no recycled queue, except after a timeout: and then only *)
(* for the call that timed out and for those made after it.                *)
ReplyQueuesAlive ==
    \A m \in Outstanding : owner[m.reply] = m.call \/ LateSince(m.call)

(* Nobody compares request_id (web_api.c:340, https_server.c:160).  The    *)
(* response a caller copies out still answers its own request, unless it   *)
(* is a late one: that of an earlier call, which either timed out itself   *)
(* or was made after one that did and got a late response in its turn.     *)
OwnReplies ==
    \A c \in Callers : got[c] # Nil =>
       \/ got[c].call = call[c]
       \/ got[c].call < call[c] /\ LateSince(got[c].call)

(* web_api_task runs the commands of one caller in the order of its calls, *)
(* and each of them once: also those whose caller has given up, and across *)
(* restarts.                                                               *)
ExecutesInOrder ==
    wpc = "executing" => message.call > lastDone[message.from]

(* ESP_ERR_TIMEOUT is ambiguous only when the wait for the reply ran out:  *)
(* a call that failed before its message was queued is never executed      *)
(* afterwards (the vQueueDelete of web_api.c:336 is safe).                 *)
UnqueuedNeverRuns ==
    \A c \in Callers :
       ret[c] \in {"timeout", "no_mem"} /\ call[c] \notin abandoned
          => /\ lastDone[c] # call[c]
             /\ \A m \in Outstanding : m.call # call[c]

(* Once a command is accepted with 202 ("device will reboot"), a task that *)
(* restarts the device is asked for whatever happens to the reply, and if  *)
(* it could be created the device does restart, whatever comes in between  *)
(* (web_api.c:149-153, 295-301).                                           *)
AcceptedReboots ==
    \A n \in 0..MaxCalls :
       /\ boot = n /\ wpc = "replying" /\ response.schedule_reboot
             ~> (boot = n /\ wpc = "scheduling") \/ boot > n
       /\ boot = n /\ rebootTasks > 0 ~> boot > n

=============================================================================
