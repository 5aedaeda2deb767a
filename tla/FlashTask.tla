------------------------------ MODULE FlashTask -----------------------------
(***************************************************************************)
(* The flash service: client tasks on one or two cores call                *)
(* nv::flash::Task::request(), which takes the one-item FlashSema queue of *)
(* the caller's core, puts a request in the shared FlashRequest queue,     *)
(* sets the event bit of the request's kind and waits for FlashResponse.   *)
(* The flash task, of the lowest priority, runs an event loop over those   *)
(* bits; the background copy of the firmware image advances by one chunk   *)
(* whenever its bit is the only one set.                                   *)
(*                                                                         *)
(* Every step at which the code can be preempted between two operations on *)
(* shared objects is an action of its own.  Flash contents and message     *)
(* payloads are abstracted: a request is its client, the number of the     *)
(* call and its kind.                                                      *)
(***************************************************************************)
EXTENDS Naturals, Sequences

CONSTANTS Clients,      (* client tasks                                    *)
          Cores,        (* cores that have clients                         *)
          CoreOf,       (* CoreOf[c]: the core client c runs on            *)
          MayTimeout,   (* clients that pass a finite timeout              *)
          QueueItems,   (* slots of FlashRequest: one per core             *)
          CopyChunks,   (* CopySize in units of the copy buffer            *)
          Kinds,        (* request kinds the clients use                   *)
          Signals,      (* notifications that other tasks send             *)
          MaxCalls      (* bound on the calls of one client                *)

ASSUME FlashConstants ==
    /\ Cores \subseteq {"Core0", "Core1"}
    /\ CoreOf \in [Clients -> Cores]
    /\ MayTimeout \subseteq Clients
    /\ QueueItems \in Nat \ {0}
    /\ Cores \subseteq {"Core0"} \/ QueueItems = 2
    /\ CopyChunks \in Nat \ {0}
    /\ Kinds \subseteq {"Op", "Query", "Data"}
    /\ Signals \subseteq {"BgStart", "Wdt"}
    /\ MaxCalls \in Nat

VARIABLES pc,         (* pc[c]: where client c is in request()             *)
          kind,       (* kind[c]: kind of the current request of c         *)
          call,       (* call[c]: number of the current call of c          *)
          got,        (* got[c]: the response c took from its queue        *)
          result,     (* result[c]: what the last request() of c returned  *)
          sema,       (* sema[k]: items in the FlashSema queue of core k   *)
          requests,   (* the FlashRequest queue                            *)
          responses,  (* responses[k]: the FlashResponse queue of core k   *)
          bits,       (* the FlashEvent bits that are set                  *)
          fpc,        (* where the flash task is in its loop               *)
          handler,    (* the event bit the flash task is serving           *)
          cur,        (* the request it has taken                          *)
          answer,     (* the status it will answer with                    *)
          bgState,    (* BackgroundCopy::_state                            *)
          bgOffset,   (* BackgroundCopy::current_offset, in chunks         *)
          served      (* served[c]: the calls executed, with their status  *)

clientVars == <<pc, kind, call, got, result>>
ipcVars    == <<sema, requests, responses, bits>>
taskVars   == <<fpc, handler, cur, answer>>
bgVars     == <<bgState, bgOffset>>
vars       == <<clientVars, ipcVars, taskVars, bgVars, served>>

None == "None"

(* The event group keeps one timeout bit per core. *)
TimeoutBit(k) == IF k = "Core0" THEN "Timeout" ELSE "TimeoutFromCore1"
ServiceBits   == {"Op", "BgStart", "Query", "Data", "BgNext"}
EventBits     == ServiceBits \cup {"Wdt"} \cup {TimeoutBit(k) : k \in Cores}

CopyStatus(s) == CASE s = "Idle"       -> "BackgroundCopyIdle"
                   [] s = "Done"       -> "BackgroundCopyDone"
                   [] s = "InProgress" -> "BackgroundCopyInprogress"
                   [] s = "Failed"     -> "BackgroundCopyFailed"

BgStates     == {"Idle", "Done", "InProgress", "Failed"}
CopyStatuses == {CopyStatus(s) : s \in BgStates}
Answers      == {"Ok", "Error"} \cup CopyStatuses

Request(c)  == [client |-> c, call |-> call[c], kind |-> kind[c]]
RequestType == [client : Clients, call : 0 .. MaxCalls, kind : Kinds]
Response(r, status) == [client |-> r.client, call |-> r.call, status |-> status]
ResponseType == [client : Clients, call : 0 .. MaxCalls, status : Answers]
NoRequest    == [client |-> None, call |-> 0, kind |-> None]
NoResponse   == [client |-> None, call |-> 0, status |-> None]

Init == /\ pc        = [c \in Clients |-> "idle"]
        /\ kind      = [c \in Clients |-> None]
        /\ call      = [c \in Clients |-> 0]
        /\ got       = [c \in Clients |-> NoResponse]
        /\ result    = [c \in Clients |-> None]
        /\ sema      = [k \in Cores |-> 1]
        /\ requests  = <<>>
        /\ responses = [k \in Cores |-> <<>>]
        /\ bits      = {}
        /\ fpc       = "wait"
        /\ handler   = None
        /\ cur       = NoRequest
        /\ answer    = None
        /\ bgState   = "Idle"
        /\ bgOffset  = 0
        /\ served    = [c \in Clients |-> {}]

-----------------------------------------------------------------------------
(* Clients: nv::flash::Task::request(). *)

Goto(c, label) == pc' = [pc EXCEPT ![c] = label]

Return(c, status) == /\ Goto(c, "idle")
                     /\ kind' = [kind EXCEPT ![c] = None]
                     /\ result' = [result EXCEPT ![c] = status]

(* sema.send() into a one-item queue: an item more than it holds is lost. *)
SemaphoreGive(k) == sema' = [sema EXCEPT ![k] = 1]

(* A caller enters request() with a request of kind t. *)
Call(c, t) == /\ pc[c] = "idle"
              /\ call[c] < MaxCalls
              /\ Goto(c, "take")
              /\ kind' = [kind EXCEPT ![c] = t]
              /\ call' = [call EXCEPT ![c] = @ + 1]
              /\ result' = [result EXCEPT ![c] = None]
              /\ UNCHANGED <<got, ipcVars, taskVars, bgVars, served>>

SemaphoreTake(c) == /\ pc[c] = "take"
                    /\ sema[CoreOf[c]] = 1
                    /\ sema' = [sema EXCEPT ![CoreOf[c]] = 0]
                    /\ Goto(c, "send")
                    /\ UNCHANGED <<kind, call, got, result, requests, responses,
                                   bits, taskVars, bgVars, served>>

SemaphoreTimeout(c) == /\ pc[c] = "take"
                       /\ c \in MayTimeout
                       /\ sema[CoreOf[c]] = 0
                       /\ Return(c, "Timeout")
                       /\ UNCHANGED <<call, got, ipcVars, taskVars, bgVars,
                                      served>>

(* A full request queue makes request() give the semaphore back. *)
SendRequest(c) ==
    /\ pc[c] = "send"
    /\ IF Len(requests) < QueueItems
         THEN /\ requests' = Append(requests, Request(c))
              /\ Goto(c, "set")
              /\ UNCHANGED <<kind, sema, result>>
         ELSE /\ c \in MayTimeout
              /\ SemaphoreGive(CoreOf[c])
              /\ Return(c, "Busy")
              /\ UNCHANGED requests
    /\ UNCHANGED <<call, got, responses, bits, taskVars, bgVars, served>>

SetEvent(c) == /\ pc[c] = "set"
               /\ bits' = bits \cup {kind[c]}
               /\ Goto(c, "recv")
               /\ UNCHANGED <<kind, call, got, result, sema, requests, responses,
                              taskVars, bgVars, served>>

ReceiveResponse(c) ==
    LET k == CoreOf[c]
    IN  /\ pc[c] = "recv"
        /\ responses[k] # <<>>
        /\ got' = [got EXCEPT ![c] = Head(responses[k])]
        /\ responses' = [responses EXCEPT ![k] = Tail(@)]
        /\ Goto(c, "give")
        /\ UNCHANGED <<kind, call, result, sema, requests, bits, taskVars, bgVars,
                       served>>

(* The receive gave up; the timeout bit is not set yet.  On the core the  *)
(* flash task does not run on, a response may still be on its way.        *)
ReceiveTimeout(c) ==
    /\ pc[c] = "recv"
    /\ c \in MayTimeout
    /\ responses[CoreOf[c]] = <<>> \/ CoreOf[c] # "Core0"
    /\ Goto(c, "timedout")
    /\ UNCHANGED <<kind, call, got, result, ipcVars, taskVars, bgVars, served>>

(* Defects: a timed-out caller gives the semaphore as well, or instead.    *)
SetTimeoutEventAndGive(c) == /\ pc[c] = "timedout"
                             /\ bits' = bits \cup {TimeoutBit(CoreOf[c])}
                             /\ SemaphoreGive(CoreOf[c])
                             /\ Return(c, "Timeout")
                             /\ UNCHANGED <<call, got, requests, responses,
                                            taskVars, bgVars, served>>

GiveOnTimeout(c) == /\ pc[c] = "timedout"
                    /\ SemaphoreGive(CoreOf[c])
                    /\ Return(c, "Timeout")
                    /\ UNCHANGED <<call, got, requests, responses, bits,
                                   taskVars, bgVars, served>>

(* The semaphore is not given: the flash task does that when it sees the  *)
(* bit.                                                                    *)
SetTimeoutEvent(c) == /\ pc[c] = "timedout"
                      /\ bits' = bits \cup {TimeoutBit(CoreOf[c])}
                      /\ Return(c, "Timeout")
                      /\ UNCHANGED <<call, got, sema, requests, responses,
                                     taskVars, bgVars, served>>

(* Defect: the semaphore is not given after an answer. *)
ReturnWithoutGive(c) == /\ pc[c] = "give"
                        /\ Return(c, got[c].status)
                        /\ got' = [got EXCEPT ![c] = NoResponse]
                        /\ UNCHANGED <<call, sema, requests, responses, bits,
                                       taskVars, bgVars, served>>

GiveAndReturn(c) == /\ pc[c] = "give"
                    /\ SemaphoreGive(CoreOf[c])
                    /\ Return(c, got[c].status)
                    /\ got' = [got EXCEPT ![c] = NoResponse]
                    /\ UNCHANGED <<call, requests, responses, bits, taskVars, bgVars,
                                   served>>

Client(c) == \/ \E t \in Kinds : Call(c, t)
             \/ SemaphoreTake(c)
             \/ SemaphoreTimeout(c)
             \/ SendRequest(c)
             \/ SetEvent(c)
             \/ ReceiveResponse(c)
             \/ ReceiveTimeout(c)
             \/ SetTimeoutEvent(c)
             \/ GiveAndReturn(c)

(* Flash::background_copy_start(), from any task. *)
BackgroundCopyStart == /\ "BgStart" \in Signals \ bits
                       /\ bits' = bits \cup {"BgStart"}
                       /\ UNCHANGED <<clientVars, sema, requests, responses,
                                      taskVars, bgVars, served>>

(* Task::wdt_notify(), from the watchdog's periodic check. *)
WdtNotify == /\ "Wdt" \in Signals \ bits
             /\ bits' = bits \cup {"Wdt"}
             /\ UNCHANGED <<clientVars, sema, requests, responses, taskVars,
                            bgVars, served>>

-----------------------------------------------------------------------------
(* The flash task: nv::flash::Task::start(). *)

(* The else-if chain over the bits that wait() returned; the copy advances *)
(* only when no other bit at all was set.                                  *)
Branch(ev) == CASE "Op" \in ev        -> "Op"
                [] "Op" \notin ev /\ "BgStart" \in ev -> "BgStart"
                [] ev \cap {"Op", "BgStart"} = {} /\ "Query" \in ev -> "Query"
                [] ev \cap {"Op", "BgStart", "Query"} = {} /\ "Data" \in ev -> "Data"
                [] ev = {"BgNext"}    -> "BgNext"
                [] OTHER              -> None

Awake == fpc = "wait" /\ bits \cap (ServiceBits \cup {"Wdt"}) # {}

(* Defect: the watchdog bit is not cleared. *)
MarkAliveOnly(set) == bits' = set

MarkAlive(set) == bits' = set \ {"Wdt"}

(* A request bit: go on to receive_request_from_queue(). *)
WakeForRequest == /\ Awake
                  /\ Branch(bits) \in {"Op", "Query", "Data"}
                  /\ MarkAlive(bits)
                  /\ handler' = Branch(bits)
                  /\ fpc' = "recv"
                  /\ UNCHANGED <<clientVars, sema, requests, responses, cur,
                                 answer, bgVars, served>>

(* Defect: the bit of the next chunk is assigned, not set. *)
StartCopyOverwrites ==
    /\ Awake
    /\ Branch(bits) = "BgStart"
    /\ bits' = {"BgNext"}
    /\ IF bgState # "InProgress"
         THEN bgState' = "InProgress" /\ bgOffset' = 0
         ELSE UNCHANGED bgVars
    /\ UNCHANGED <<clientVars, sema, requests, responses, taskVars, served>>

(* BackgroundCopy::start() ignores a second start while one is running. *)
StartCopy == /\ Awake
             /\ Branch(bits) = "BgStart"
             /\ MarkAlive((bits \ {"BgStart"}) \cup {"BgNext"})
             /\ IF bgState # "InProgress"
                  THEN bgState' = "InProgress" /\ bgOffset' = 0
                  ELSE UNCHANGED bgVars
             /\ UNCHANGED <<clientVars, sema, requests, responses, taskVars,
                            served>>

(* Defects: the end of the copy is missed by one chunk; the next chunk is  *)
(* not requested.                                                          *)
CopyNextOneMore ==
    /\ Awake
    /\ Branch(bits) = "BgNext"
    /\ IF bgState # "InProgress"
         THEN UNCHANGED bgVars
         ELSE \/ bgState' = "Failed" /\ UNCHANGED bgOffset
              \/ /\ bgOffset' = bgOffset + 1
                 /\ bgState' = IF bgOffset' > CopyChunks THEN "Done" ELSE bgState
    /\ bits' = IF bgState' = "InProgress" THEN {"BgNext"} ELSE {}
    /\ UNCHANGED <<clientVars, sema, requests, responses, taskVars, served>>

CopyNextOnce ==
    /\ Awake
    /\ Branch(bits) = "BgNext"
    /\ IF bgState # "InProgress"
         THEN UNCHANGED bgVars
         ELSE \/ bgState' = "Failed" /\ UNCHANGED bgOffset
              \/ /\ bgOffset' = bgOffset + 1
                 /\ bgState' = IF bgOffset' >= CopyChunks THEN "Done" ELSE bgState
    /\ bits' = {}
    /\ UNCHANGED <<clientVars, sema, requests, responses, taskVars, served>>

(* BackgroundCopy::next(): erase, read and write of one chunk, any of which *)
(* may fail.                                                                *)
CopyNext ==
    /\ Awake
    /\ Branch(bits) = "BgNext"
    /\ IF bgState # "InProgress"
         THEN UNCHANGED bgVars
         ELSE \/ bgState' = "Failed" /\ UNCHANGED bgOffset
              \/ /\ bgOffset' = bgOffset + 1
                 /\ bgState' = IF bgOffset' >= CopyChunks THEN "Done" ELSE bgState
    /\ bits' = IF bgState' = "InProgress" THEN {"BgNext"} ELSE {}
    /\ UNCHANGED <<clientVars, sema, requests, responses, taskVars, served>>

(* Only the watchdog bit, or a timeout bit next to BgNext: nothing is done. *)
WakeForNothing == /\ Awake
                  /\ Branch(bits) = None
                  /\ MarkAlive(bits)
                  /\ UNCHANGED <<clientVars, sema, requests, responses, taskVars,
                                 bgVars, served>>

(* Defect: the request is looked at and left in the queue. *)
PeekRequest == /\ fpc = "recv"
               /\ requests # <<>>
               /\ cur' = Head(requests)
               /\ fpc' = "size"
               /\ UNCHANGED <<clientVars, ipcVars, handler, answer, bgVars, served>>

(* _request.recv() has no timeout: on an empty queue the task blocks here. *)
TakeRequest == /\ fpc = "recv"
               /\ requests # <<>>
               /\ cur' = Head(requests)
               /\ requests' = Tail(requests)
               /\ fpc' = "size"
               /\ UNCHANGED <<clientVars, sema, responses, bits, handler, answer,
                              bgVars, served>>

CheckQueueSize == /\ fpc = "size"
                  /\ fpc' = IF requests = <<>> THEN "clear" ELSE "process"
                  /\ UNCHANGED <<clientVars, ipcVars, handler, cur, answer, bgVars,
                                 served>>

(* Defect: the event bit outlives its request. *)
KeepEvent == /\ fpc = "clear"
             /\ fpc' = "process"
             /\ UNCHANGED <<clientVars, ipcVars, handler, cur, answer, bgVars, served>>

ClearEvent == /\ fpc = "clear"
              /\ bits' = bits \ {handler}
              /\ fpc' = "process"
              /\ UNCHANGED <<clientVars, sema, requests, responses, handler, cur,
                             answer, bgVars, served>>

(* The query branch answers with the state of the copy whatever the request *)
(* is; process() leaves the zero-initialised status, Ok, for a kind it does *)
(* not know.                                                                *)
Outcome(h, t) == IF h = "Query" THEN {CopyStatus(bgState)}
                 ELSE IF t = "Query" THEN {"Ok"}
                 ELSE {"Ok", "Error"}

Process == /\ fpc = "process"
           /\ answer' \in Outcome(handler, cur.kind)
           /\ served' = [served EXCEPT ![cur.client] =
                           @ \cup {[call |-> cur.call, status |-> answer']}]
           /\ fpc' = "respond"
           /\ UNCHANGED <<clientVars, ipcVars, handler, cur, bgVars>>

Done == /\ fpc' = "wait"
        /\ handler' = None
        /\ cur' = NoRequest
        /\ answer' = None

CurCore == CoreOf[cur.client]

(* Defects: the return after the give is missing; the semaphore goes to    *)
(* the core the flash task runs on.                                        *)
DropAndPostResponse ==
    /\ fpc = "respond"
    /\ TimeoutBit(CurCore) \in bits
    /\ bits' = bits \ {TimeoutBit(CurCore)}
    /\ SemaphoreGive(CurCore)
    /\ responses' = [responses EXCEPT ![CurCore] = <<Response(cur, answer)>>]
    /\ Done
    /\ UNCHANGED <<clientVars, requests, bgVars, served>>

DropResponseOwnCore == /\ fpc = "respond"
                       /\ TimeoutBit(CurCore) \in bits
                       /\ bits' = bits \ {TimeoutBit(CurCore)}
                       /\ SemaphoreGive("Core0")
                       /\ Done
                       /\ UNCHANGED <<clientVars, requests, responses, bgVars,
                                      served>>

(* send_response_to_queue(), the requester having timed out. *)
DropResponse == /\ fpc = "respond"
                /\ TimeoutBit(CurCore) \in bits
                /\ bits' = bits \ {TimeoutBit(CurCore)}
                /\ SemaphoreGive(CurCore)
                /\ Done
                /\ UNCHANGED <<clientVars, requests, responses, bgVars, served>>

SeeNoTimeout == /\ fpc = "respond"
                /\ TimeoutBit(CurCore) \notin bits
                /\ fpc' = "post"
                /\ UNCHANGED <<clientVars, ipcVars, handler, cur, answer, bgVars,
                               served>>

(* A response queue that is still full drops the response. *)
PostResponse ==
    /\ fpc = "post"
    /\ responses' = IF responses[CurCore] = <<>>
                      THEN [responses EXCEPT ![CurCore] = <<Response(cur, answer)>>]
                      ELSE responses
    /\ Done
    /\ UNCHANGED <<clientVars, sema, requests, bits, bgVars, served>>

Service == \/ WakeForRequest
           \/ StartCopy
           \/ CopyNext
           \/ WakeForNothing
           \/ TakeRequest
           \/ CheckQueueSize
           \/ ClearEvent
           \/ Process
           \/ DropResponse
           \/ SeeNoTimeout
           \/ PostResponse

Next == \/ \E c \in Clients : Client(c)
        \/ BackgroundCopyStart
        \/ WdtNotify
        \/ Service

Spec == Init /\ [][Next]_vars

(* A client inside request() keeps running; entering it is its own choice.  *)
(* The flash task keeps running.  The two wake-ups that a notification can  *)
(* push aside need strong fairness: a start of the copy (one per firmware  *)
(* update) takes precedence over a query or data request, and a watchdog   *)
(* notification (periodic, far slower than the loop) over the next chunk,  *)
(* but not every time.                                                     *)
ClientProgress(c) == SemaphoreTake(c) \/ SendRequest(c) \/ SetEvent(c)
                     \/ ReceiveResponse(c) \/ SetTimeoutEvent(c) \/ GiveAndReturn(c)

Fairness == /\ \A c \in Clients : WF_vars(ClientProgress(c))
            /\ WF_vars(Service)
            /\ SF_vars(WakeForRequest)
            /\ SF_vars(CopyNext)

FairSpec == Spec /\ Fairness

-----------------------------------------------------------------------------
(* Properties. *)

Inside(c)  == pc[c] \in {"send", "set", "recv", "timedout", "give"}
Handling   == fpc \in {"size", "clear", "process", "respond", "post"}
Answered   == fpc \in {"respond", "post"}

(* Every variable keeps its shape; what the flash task holds depends on    *)
(* where it is in its loop.                                                *)
TypeOK ==
    /\ pc \in [Clients -> {"idle", "take", "send", "set", "recv", "timedout",
                           "give"}]
    /\ kind \in [Clients -> Kinds \cup {None}]
    /\ call \in [Clients -> 0 .. MaxCalls]
    /\ got \in [Clients -> ResponseType \cup {NoResponse}]
    /\ \A c \in Clients : /\ pc[c] # "idle" => kind[c] \in Kinds
                          /\ pc[c] = "give" => got[c] \in ResponseType
    /\ result \in [Clients -> Answers \cup {None, "Timeout", "Busy"}]
    /\ sema \in [Cores -> {0, 1}]
    /\ requests \in Seq(RequestType) /\ Len(requests) <= QueueItems
    /\ responses \in [Cores -> Seq(ResponseType)]
    /\ \A k \in Cores : Len(responses[k]) <= 1
    /\ bits \subseteq EventBits
    /\ fpc \in {"wait", "recv", "size", "clear", "process", "respond", "post"}
    /\ IF fpc = "wait" THEN handler = None ELSE handler \in {"Op", "Query", "Data"}
    /\ cur \in RequestType \cup {NoRequest} /\ (Handling => cur \in RequestType)
    /\ answer \in Answers \cup {None} /\ (Answered => answer \in Answers)
    /\ bgState \in BgStates
    /\ bgOffset \in 0 .. CopyChunks
    /\ bgState = "InProgress" => bgOffset < CopyChunks
    /\ served \in [Clients -> SUBSET [call : 0 .. MaxCalls, status : Answers]]

(* The semaphore of a core admits one caller of that core at a time, from  *)
(* semaphore_take() to the give, also when calls time out and the flash    *)
(* task gives it back in their place.                                      *)
CoreExclusive ==
    \A c \in Clients : Inside(c) =>
        /\ sema[CoreOf[c]] = 0
        /\ \A d \in Clients : Inside(d) /\ CoreOf[d] = CoreOf[c] => d = c

(* The static_assert of Task::Task(): FlashRequest has one slot for each    *)
(* core, so the holder of a core's semaphore always finds room and Busy is *)
(* never returned.                                                         *)
RequestSlotReserved ==
    \A c \in Clients : pc[c] = "send" => Len(requests) < QueueItems

(* send_response_to_queue() never meets a full FlashResponse queue, whose  *)
(* answer it would drop: a response nobody read keeps the core's semaphore. *)
ResponseSlotFree == fpc = "post" => responses[CurCore] = <<>>

(* The response request() returns answers that very call: one that came    *)
(* too late for its own call is never taken by a later one of the core.    *)
AnswersOwnCall ==
    \A c \in Clients : pc[c] = "give" =>
        got[c].client = c /\ got[c].call = call[c]

(* With clients on one core a request is served by the branch of the event *)
(* loop its own event bit selects, although bits and queue are two objects *)
(* updated one after the other.                                            *)
HandlerMatchesRequest == Handling => handler = cur.kind

(* The flash task never goes back to wait() leaving behind a request whose *)
(* caller has already set its event: it clears the event only if the queue *)
(* is empty, so such a request keeps its bit.                              *)
QueuedRequestHasEvent ==
    \A c \in Clients :
        /\ fpc = "wait"
        /\ pc[c] = "recv"
        /\ \E i \in 1 .. Len(requests) : requests[i] = Request(c)
        => kind[c] \in bits

(* request() is a remote call that is executed at most once: it returns    *)
(* the status of its own execution or a refusal of request() itself.       *)
Rpc == INSTANCE FlashRpc WITH open     <- {c \in Clients : pc[c] # "idle"},
                              Refusals <- {"Timeout", "Busy"}
RpcRefinement == Rpc!Spec

(* A call without a timeout returns. *)
EveryCallReturns == \A c \in Clients : pc[c] # "idle" ~> pc[c] = "idle"

(* The flash task answers every notification of the watchdog: its blocking *)
(* receive never holds it up for good.                                     *)
WatchdogServed == "Wdt" \in bits ~> "Wdt" \notin bits

(* A copy that was started ends; flash-test.cpp polls until it does.       *)
CopyCompletes == bgState = "InProgress" ~> bgState # "InProgress"
=============================================================================
