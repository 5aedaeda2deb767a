-------------------------- MODULE FlashTask_proofs --------------------------
(***************************************************************************)
(* The safety of the flash service for any number of clients and calls:    *)
(* an inductive invariant about the token of each core, its preservation   *)
(* by every action, and what follows from it.                              *)
(***************************************************************************)
EXTENDS FlashTask, TLAPS

(* The token of core k is the item of its FlashSema queue.  While it is    *)
(* out, it belongs to the caller inside request(), then to the timeout bit *)
(* that the caller left for the flash task.                                *)

(* No request of core k is queued or being handled.                        *)
NothingInFlight(k) ==
    /\ \A i \in DOMAIN requests : CoreOf[requests[i].client] # k
    /\ Handling => CurCore # k

(* A token at home means that its core has nothing under way.              *)
TokenHome == \A k \in Cores : sema[k] = 1 => /\ TimeoutBit(k) \notin bits
                                             /\ responses[k] = <<>>
                                             /\ NothingInFlight(k)

(* The timeout bit is set by the caller that leaves request().             *)
TimeoutLeftBehind ==
    \A k \in Cores : TimeoutBit(k) \in bits
      => \A c \in Clients : CoreOf[c] = k => ~Inside(c)

(* A caller that has not sent yet, or has its answer, has nothing pending. *)
NothingPending ==
    \A c \in Clients : pc[c] \in {"send", "give"}
      => NothingInFlight(CoreOf[c]) /\ responses[CoreOf[c]] = <<>>

(* A core has at most one request or response under way.                   *)
OnePerCore ==
    /\ \A i, j \in DOMAIN requests :
         CoreOf[requests[i].client] = CoreOf[requests[j].client] => i = j
    /\ \A i \in DOMAIN requests :
         Handling => CoreOf[requests[i].client] # CurCore
    /\ \A k \in Cores : responses[k] # <<>> => NothingInFlight(k)

(* What is under way while a caller waits is that caller's current call.   *)
IsCallOf(m, c) == m.client = c /\ m.call = call[c]

Ownership ==
    \A c \in Clients : pc[c] \in {"set", "recv", "timedout"} =>
      /\ \A i \in DOMAIN requests :
           CoreOf[requests[i].client] = CoreOf[c] => IsCallOf(requests[i], c)
      /\ Handling /\ CurCore = CoreOf[c] => IsCallOf(cur, c)
      /\ responses[CoreOf[c]] # <<>> => IsCallOf(responses[CoreOf[c]][1], c)

Safe == /\ CoreExclusive
        /\ TokenHome
        /\ TimeoutLeftBehind
        /\ NothingPending
        /\ OnePerCore
        /\ Ownership
        /\ AnswersOwnCall

-----------------------------------------------------------------------------
(* Types. *)

USE DEF None

(* A queue of at most one item is emptied by taking its head. *)
LEMMA OneItem ==
  ASSUME NEW S, NEW s \in Seq(S), s # <<>>
  PROVE  /\ Len(s) >= 1 /\ 1 \in DOMAIN s /\ Head(s) = s[1] /\ s[1] \in S
         /\ Tail(s) \in Seq(S) /\ Len(Tail(s)) = Len(s) - 1
         /\ \A i \in DOMAIN Tail(s) : i + 1 \in DOMAIN s /\ Tail(s)[i] = s[i + 1]
         /\ Len(s) <= 1 => Tail(s) = <<>>
<1>1. Len(s) \in Nat \ {0} /\ DOMAIN s = 1 .. Len(s)
  OBVIOUS
<1>2. Tail(s) \in Seq(S) /\ Len(Tail(s)) = Len(s) - 1
  BY <1>1
<1>3. \A i \in DOMAIN Tail(s) : i + 1 \in DOMAIN s /\ Tail(s)[i] = s[i + 1]
  BY <1>1
<1> QED
  BY <1>1, <1>2, <1>3

(* What Append does to the items of a queue. *)
LEMMA AppendItem ==
  ASSUME NEW S, NEW s \in Seq(S), NEW e \in S
  PROVE  /\ Append(s, e) \in Seq(S) /\ Len(Append(s, e)) = Len(s) + 1
         /\ DOMAIN Append(s, e) = DOMAIN s \cup {Len(s) + 1}
         /\ Len(s) + 1 \notin DOMAIN s
         /\ \A i \in DOMAIN s : Append(s, e)[i] = s[i]
         /\ Append(s, e)[Len(s) + 1] = e
  OBVIOUS

(* Every variable keeps its type, for any number of clients, calls, chunks *)
(* and signals.                                                            *)
LEMMA TypeInit == Init => TypeOK
  BY FlashConstants DEF Init, TypeOK, NoRequest, NoResponse, Handling, Answered,
     BgStates

LEMMA TypeStep == TypeOK /\ [Next]_vars => TypeOK'
<1> SUFFICES ASSUME TypeOK, [Next]_vars
             PROVE  TypeOK'
  OBVIOUS
<1> USE FlashConstants
<1>1. ASSUME NEW c \in Clients, NEW t \in Kinds, Call(c, t)
      PROVE  TypeOK'
  BY <1>1 DEF TypeOK, Call, Goto, ipcVars, taskVars, bgVars, Handling, Answered
<1>2. ASSUME NEW c \in Clients, SemaphoreTake(c)
      PROVE  TypeOK'
  BY <1>2 DEF TypeOK, SemaphoreTake, Goto, taskVars, bgVars, Handling, Answered
<1>3. ASSUME NEW c \in Clients, SemaphoreTimeout(c)
      PROVE  TypeOK'
  BY <1>3 DEF TypeOK, SemaphoreTimeout, Return, Goto, ipcVars, taskVars, bgVars,
     Handling, Answered
<1>4. ASSUME NEW c \in Clients, SendRequest(c)
      PROVE  TypeOK'
  <2>1. Request(c) \in RequestType
    BY <1>4 DEF TypeOK, SendRequest, Request, RequestType
  <2>2. CASE Len(requests) < QueueItems
    <3>1. /\ requests' = Append(requests, Request(c))
          /\ Goto(c, "set") /\ UNCHANGED <<kind, sema, result>>
          /\ UNCHANGED <<call, got, responses, bits, taskVars, bgVars, served>>
          /\ pc[c] = "send"
      BY <1>4, <2>2 DEF SendRequest
    <3>2. requests' \in Seq(RequestType) /\ Len(requests') <= QueueItems
      <4>1. requests \in Seq(RequestType) /\ QueueItems \in Nat
        BY DEF TypeOK
      <4> HIDE DEF RequestType, Request
      <4> QED
        BY <2>1, <2>2, <3>1, <4>1, AppendItem
    <3> QED
      BY <3>1, <3>2 DEF TypeOK, Goto, taskVars, bgVars, Handling, Answered
  <2>3. CASE ~(Len(requests) < QueueItems)
    <3>1. /\ SemaphoreGive(CoreOf[c]) /\ Return(c, "Busy")
          /\ UNCHANGED <<requests, call, got, responses, bits, taskVars, bgVars,
                         served>>
      BY <1>4, <2>3 DEF SendRequest
    <3> QED
      BY <3>1 DEF TypeOK, SemaphoreGive, Return, Goto, taskVars, bgVars, Handling,
         Answered
  <2> QED
    BY <2>2, <2>3
<1>5. ASSUME NEW c \in Clients, SetEvent(c)
      PROVE  TypeOK'
  <2>1. bits' \subseteq EventBits
    BY <1>5 DEF TypeOK, SetEvent, EventBits, ServiceBits
  <2> QED
    BY <1>5, <2>1 DEF TypeOK, SetEvent, Goto, taskVars, bgVars, Handling, Answered
<1>6. ASSUME NEW c \in Clients, ReceiveResponse(c)
      PROVE  TypeOK'
  <2>1. CoreOf[c] \in Cores /\ responses[CoreOf[c]] \in Seq(ResponseType)
    BY DEF TypeOK
  <2>2. Head(responses[CoreOf[c]]) \in ResponseType
    BY <1>6, <2>1 DEF ReceiveResponse
  <2>3. /\ Tail(responses[CoreOf[c]]) \in Seq(ResponseType)
        /\ Len(Tail(responses[CoreOf[c]])) <= 1
    <3>1. responses[CoreOf[c]] # <<>> /\ Len(responses[CoreOf[c]]) <= 1
      BY <1>6, <2>1 DEF ReceiveResponse, TypeOK
    <3> QED
      BY <2>1, <3>1, OneItem
  <2>4. got' \in [Clients -> ResponseType \cup {NoResponse}]
        /\ got'[c] \in ResponseType /\ \A d \in Clients \ {c} : got'[d] = got[d]
    BY <1>6, <2>2 DEF ReceiveResponse, TypeOK
  <2>5. responses' \in [Cores -> Seq(ResponseType)]
        /\ \A k \in Cores : Len(responses'[k]) <= 1
    BY <1>6, <2>1, <2>3 DEF ReceiveResponse, TypeOK
  <2> QED
    BY <1>6, <2>4, <2>5 DEF TypeOK, ReceiveResponse, Goto, taskVars, bgVars,
       Handling,
       Answered
<1>7. ASSUME NEW c \in Clients, ReceiveTimeout(c)
      PROVE  TypeOK'
  BY <1>7 DEF TypeOK, ReceiveTimeout, Goto, ipcVars, taskVars, bgVars, Handling,
     Answered
<1>8. ASSUME NEW c \in Clients, SetTimeoutEvent(c)
      PROVE  TypeOK'
  <2>1. bits' \subseteq EventBits
    <3>1. TimeoutBit(CoreOf[c]) \in EventBits
      <4>1. CoreOf[c] \in Cores
        OBVIOUS
      <4> QED
        BY <4>1 DEF EventBits, TimeoutBit
    <3> QED
      BY <1>8, <3>1 DEF TypeOK, SetTimeoutEvent
  <2> QED
    BY <1>8, <2>1 DEF TypeOK, SetTimeoutEvent, Return, Goto, taskVars, bgVars,
       Handling, Answered
<1>9. ASSUME NEW c \in Clients, GiveAndReturn(c)
      PROVE  TypeOK'
  <2>1. got[c].status \in Answers
    BY <1>9 DEF TypeOK, GiveAndReturn, ResponseType
  <2> QED
    BY <1>9, <2>1 DEF TypeOK, GiveAndReturn, SemaphoreGive, Return, Goto, taskVars,
       bgVars, Handling, Answered
<1>10. CASE BackgroundCopyStart
  BY <1>10 DEF TypeOK, BackgroundCopyStart, clientVars, taskVars, bgVars, Handling,
     Answered, EventBits, ServiceBits
<1>11. CASE WdtNotify
  BY <1>11 DEF TypeOK, WdtNotify, clientVars, taskVars, bgVars, Handling, Answered,
     EventBits
<1>12. CASE WakeForRequest
  BY <1>12 DEF TypeOK, WakeForRequest, MarkAlive, clientVars, bgVars, Handling,
     Answered
<1>13. CASE StartCopy
  BY <1>13 DEF TypeOK, StartCopy, MarkAlive, clientVars, taskVars, bgVars, Handling,
     Answered, EventBits, ServiceBits, BgStates
<1>14. CASE CopyNext
  BY <1>14 DEF TypeOK, CopyNext, clientVars, taskVars, bgVars, Handling, Answered,
     EventBits, ServiceBits, BgStates
<1>15. CASE WakeForNothing
  BY <1>15 DEF TypeOK, WakeForNothing, MarkAlive, clientVars, taskVars, bgVars,
     Handling, Answered
<1>16. CASE TakeRequest
  BY <1>16 DEF TypeOK, TakeRequest, clientVars, bgVars, Handling, Answered
<1>17. CASE CheckQueueSize
  BY <1>17 DEF TypeOK, CheckQueueSize, clientVars, ipcVars, bgVars, Handling,
     Answered
<1>18. CASE ClearEvent
  BY <1>18 DEF TypeOK, ClearEvent, clientVars, bgVars, Handling, Answered
<1>19. CASE Process
  <2>1. cur \in RequestType
    BY <1>19 DEF TypeOK, Process, Handling
  <2>2. answer' \in Answers
    BY <1>19 DEF TypeOK, Process, Outcome, Answers, CopyStatuses
  <2> QED
    BY <1>19, <2>1, <2>2 DEF TypeOK, Process, clientVars, ipcVars, bgVars, Handling,
       Answered, RequestType
<1>20. CASE DropResponse
  BY <1>20 DEF TypeOK, DropResponse, SemaphoreGive, Done, CurCore, clientVars,
     bgVars, Handling, Answered, RequestType
<1>21. CASE SeeNoTimeout
  BY <1>21 DEF TypeOK, SeeNoTimeout, clientVars, ipcVars, bgVars, Handling, Answered
<1>22. CASE PostResponse
  <2>1. cur \in RequestType /\ answer \in Answers
    BY <1>22 DEF TypeOK, PostResponse, Handling, Answered
  <2>2. CurCore \in Cores /\ Response(cur, answer) \in ResponseType
    BY <2>1 DEF CurCore, Response, ResponseType, RequestType
  <2> QED
    BY <1>22, <2>2 DEF TypeOK, PostResponse, Done, clientVars, bgVars, Handling,
       Answered
<1>23. CASE UNCHANGED vars
  BY <1>23 DEF TypeOK, vars, clientVars, ipcVars, taskVars, bgVars, Handling,
     Answered
<1> QED
  BY <1>1, <1>2, <1>3, <1>4, <1>5, <1>6, <1>7, <1>8, <1>9, <1>10, <1>11, <1>12,
     <1>13, <1>14, <1>15, <1>16, <1>17, <1>18, <1>19, <1>20, <1>21, <1>22, <1>23
     DEF Next, Client, Service

THEOREM TypeCorrect == Spec => []TypeOK
  BY TypeInit, TypeStep, PTL DEF Spec
-----------------------------------------------------------------------------
(* The tokens. *)

(* The timeout bits of the cores are apart from each other and from the    *)
(* bits that ask the flash task for something.                             *)
LEMMA TimeoutBits ==
  \A k \in Cores : /\ TimeoutBit(k) \notin ServiceBits \cup {"Wdt"}
                   /\ \A l \in Cores : TimeoutBit(k) = TimeoutBit(l) => k = l
  BY FlashConstants DEF TimeoutBit, ServiceBits

(* A chunk is copied only when its bit is the only one set. *)
LEMMA CopyAlone == Branch(bits) = "BgNext" => bits = {"BgNext"}
  BY DEF Branch

LEMMA SafeInit == Init => Safe
  BY FlashConstants DEF Init, Safe, CoreExclusive, TokenHome, TimeoutLeftBehind,
     NothingPending, OnePerCore, Ownership, AnswersOwnCall, NothingInFlight, Inside,
     Handling

(* A step that moves neither tokens nor requests nor responses, such as a  *)
(* notification or a step of the copy, disturbs nothing.                   *)
LEMMA QuietStep ==
  ASSUME Safe,
         UNCHANGED <<pc, call, got, sema, requests, responses>>,
         \A k \in Cores : TimeoutBit(k) \in bits' <=> TimeoutBit(k) \in bits,
         Handling' => Handling /\ cur' = cur
  PROVE  Safe'
<1> USE FlashConstants DEF Safe
<1>1. CoreExclusive'
  BY DEF CoreExclusive, Inside
<1>2. TokenHome'
  BY DEF TokenHome, NothingInFlight, Handling, CurCore
<1>3. TimeoutLeftBehind'
  BY DEF TimeoutLeftBehind, Inside
<1>4. NothingPending'
  BY DEF NothingPending, NothingInFlight, Handling, CurCore
<1>5. OnePerCore'
  BY DEF OnePerCore, NothingInFlight, Handling, CurCore
<1>6. Ownership'
  BY DEF Ownership, IsCallOf, Handling, CurCore
<1>7. AnswersOwnCall'
  BY DEF AnswersOwnCall
<1> QED
  BY <1>1, <1>2, <1>3, <1>4, <1>5, <1>6, <1>7
LEMMA SafeStep == TypeOK /\ Safe /\ [Next]_vars => Safe'
<1> SUFFICES ASSUME TypeOK, Safe, [Next]_vars
             PROVE  Safe'
  OBVIOUS
<1> USE FlashConstants
<1>a. /\ CoreExclusive /\ TokenHome /\ TimeoutLeftBehind /\ NothingPending
      /\ OnePerCore /\ Ownership /\ AnswersOwnCall
  BY DEF Safe
<1>b. \A c \in Clients : CoreOf[c] \in Cores
  OBVIOUS
<1>c. requests \in Seq(RequestType)
  BY DEF TypeOK
<1>d. \A k \in Cores : responses[k] \in Seq(ResponseType) /\ Len(responses[k]) <= 1
  BY DEF TypeOK
<1>e. /\ pc \in [Clients -> {"idle", "take", "send", "set", "recv", "timedout",
                           "give"}]
      /\ call \in [Clients -> 0 .. MaxCalls]
      /\ got \in [Clients -> ResponseType \cup {NoResponse}]
      /\ sema \in [Cores -> {0, 1}]
      /\ DOMAIN responses = Cores
  BY DEF TypeOK
<1>f. Handling => cur \in RequestType /\ cur.client \in Clients /\ CurCore \in Cores
  BY DEF TypeOK, RequestType, CurCore
<1>g. \A i \in DOMAIN requests : requests[i] \in RequestType
                                /\ requests[i].client \in Clients
  <2>1. \A i \in DOMAIN requests : requests[i] \in RequestType
    BY <1>c
  <2> QED
    BY <2>1 DEF RequestType
<1> HIDE DEF TypeOK
<1>1. ASSUME NEW c \in Clients, NEW t \in Kinds, Call(c, t)
      PROVE  Safe'
  <2>f. /\ pc[c] = "idle" /\ pc' = [pc EXCEPT ![c] = "take"]
        /\ call' = [call EXCEPT ![c] = @ + 1]
        /\ UNCHANGED <<got, sema, requests, responses, bits, fpc, cur>>
    BY <1>1 DEF Call, Goto, ipcVars, taskVars
  <2>1. CoreExclusive'
    BY <1>a, <1>b, <1>e, <2>f DEF CoreExclusive, Inside
  <2>2. TokenHome'
    BY <1>a, <1>b, <1>e, <2>f DEF TokenHome, NothingInFlight, Handling, CurCore
  <2>3. TimeoutLeftBehind'
    BY <1>a, <1>b, <1>e, <2>f DEF TimeoutLeftBehind, Inside
  <2>4. NothingPending'
    BY <1>a, <1>b, <1>e, <2>f DEF NothingPending, NothingInFlight, Handling, CurCore
  <2>5. OnePerCore'
    BY <1>a, <1>b, <1>e, <2>f DEF OnePerCore, NothingInFlight, Handling, CurCore
  <2>6. Ownership'
    BY <1>a, <1>b, <1>e, <2>f DEF Ownership, IsCallOf, Handling, CurCore
  <2>7. AnswersOwnCall'
    BY <1>a, <1>b, <1>e, <2>f DEF AnswersOwnCall
  <2> QED
    BY <2>1, <2>2, <2>3, <2>4, <2>5, <2>6, <2>7 DEF Safe
<1>2. ASSUME NEW c \in Clients, SemaphoreTake(c)
      PROVE  Safe'
  <2>f. /\ pc[c] = "take" /\ pc' = [pc EXCEPT ![c] = "send"]
        /\ sema[CoreOf[c]] = 1 /\ sema' = [sema EXCEPT ![CoreOf[c]] = 0]
        /\ UNCHANGED <<call, got, requests, responses, bits, fpc, cur>>
    BY <1>2 DEF SemaphoreTake, Goto, taskVars
  <2>1. CoreExclusive'
    BY <1>a, <1>b, <1>e, <2>f DEF CoreExclusive, Inside
  <2>2. TokenHome'
    BY <1>a, <1>b, <1>e, <2>f DEF TokenHome, NothingInFlight, Handling, CurCore
  <2>3. TimeoutLeftBehind'
    BY <1>a, <1>b, <1>e, <2>f DEF TimeoutLeftBehind, Inside, TokenHome
  <2>4. NothingPending'
    BY <1>a, <1>b, <1>e, <2>f DEF NothingPending, NothingInFlight, Handling,
       CurCore,
       TokenHome
  <2>5. OnePerCore'
    BY <1>a, <1>b, <1>e, <2>f DEF OnePerCore, NothingInFlight, Handling, CurCore
  <2>6. Ownership'
    BY <1>a, <1>b, <1>e, <2>f DEF Ownership, IsCallOf, Handling, CurCore
  <2>7. AnswersOwnCall'
    BY <1>a, <1>b, <1>e, <2>f DEF AnswersOwnCall
  <2> QED
    BY <2>1, <2>2, <2>3, <2>4, <2>5, <2>6, <2>7 DEF Safe
<1>3. ASSUME NEW c \in Clients, SemaphoreTimeout(c)
      PROVE  Safe'
  <2>f. /\ pc[c] = "take" /\ pc' = [pc EXCEPT ![c] = "idle"]
        /\ UNCHANGED <<call, got, sema, requests, responses, bits, fpc, cur>>
    BY <1>3 DEF SemaphoreTimeout, Return, Goto, ipcVars, taskVars
  <2>1. CoreExclusive'
    BY <1>a, <1>b, <1>e, <2>f DEF CoreExclusive, Inside
  <2>2. TokenHome'
    BY <1>a, <1>b, <1>e, <2>f DEF TokenHome, NothingInFlight, Handling, CurCore
  <2>3. TimeoutLeftBehind'
    BY <1>a, <1>b, <1>e, <2>f DEF TimeoutLeftBehind, Inside
  <2>4. NothingPending'
    BY <1>a, <1>b, <1>e, <2>f DEF NothingPending, NothingInFlight, Handling, CurCore
  <2>5. OnePerCore'
    BY <1>a, <1>b, <1>e, <2>f DEF OnePerCore, NothingInFlight, Handling, CurCore
  <2>6. Ownership'
    BY <1>a, <1>b, <1>e, <2>f DEF Ownership, IsCallOf, Handling, CurCore
  <2>7. AnswersOwnCall'
    BY <1>a, <1>b, <1>e, <2>f DEF AnswersOwnCall
  <2> QED
    BY <2>1, <2>2, <2>3, <2>4, <2>5, <2>6, <2>7 DEF Safe
<1>5. ASSUME NEW c \in Clients, SetEvent(c)
      PROVE  Safe'
  <2>e. kind[c] \in ServiceBits
    BY <1>5 DEF SetEvent, TypeOK, ServiceBits
  <2>g. \A k \in Cores : TimeoutBit(k) # kind[c]
    BY <2>e, TimeoutBits
  <2>f. /\ pc[c] = "set" /\ pc' = [pc EXCEPT ![c] = "recv"]
        /\ UNCHANGED <<call, got, sema, requests, responses, fpc, cur>>
        /\ \A k \in Cores : TimeoutBit(k) \in bits' <=> TimeoutBit(k) \in bits
    BY <1>5, <2>e, <2>g DEF SetEvent, Goto, taskVars
  <2>1. CoreExclusive'
    BY <1>a, <1>b, <1>e, <2>f DEF CoreExclusive, Inside
  <2>2. TokenHome'
    BY <1>a, <1>b, <1>e, <2>f DEF TokenHome, NothingInFlight, Handling, CurCore
  <2>3. TimeoutLeftBehind'
    BY <1>a, <1>b, <1>e, <2>f DEF TimeoutLeftBehind, Inside
  <2>4. NothingPending'
    BY <1>a, <1>b, <1>e, <2>f DEF NothingPending, NothingInFlight, Handling, CurCore
  <2>5. OnePerCore'
    BY <1>a, <1>b, <1>e, <2>f DEF OnePerCore, NothingInFlight, Handling, CurCore
  <2>6. Ownership'
    BY <1>a, <1>b, <1>e, <2>f DEF Ownership, IsCallOf, Handling, CurCore
  <2>7. AnswersOwnCall'
    BY <1>a, <1>b, <1>e, <2>f DEF AnswersOwnCall
  <2> QED
    BY <2>1, <2>2, <2>3, <2>4, <2>5, <2>6, <2>7 DEF Safe
<1>7. ASSUME NEW c \in Clients, ReceiveTimeout(c)
      PROVE  Safe'
  <2>f. /\ pc[c] = "recv" /\ pc' = [pc EXCEPT ![c] = "timedout"]
        /\ UNCHANGED <<call, got, sema, requests, responses, bits, fpc, cur>>
    BY <1>7 DEF ReceiveTimeout, Goto, ipcVars, taskVars
  <2>1. CoreExclusive'
    BY <1>a, <1>b, <1>e, <2>f DEF CoreExclusive, Inside
  <2>2. TokenHome'
    BY <1>a, <1>b, <1>e, <2>f DEF TokenHome, NothingInFlight, Handling, CurCore
  <2>3. TimeoutLeftBehind'
    BY <1>a, <1>b, <1>e, <2>f DEF TimeoutLeftBehind, Inside
  <2>4. NothingPending'
    BY <1>a, <1>b, <1>e, <2>f DEF NothingPending, NothingInFlight, Handling, CurCore
  <2>5. OnePerCore'
    BY <1>a, <1>b, <1>e, <2>f DEF OnePerCore, NothingInFlight, Handling, CurCore
  <2>6. Ownership'
    BY <1>a, <1>b, <1>e, <2>f DEF Ownership, IsCallOf, Handling, CurCore
  <2>7. AnswersOwnCall'
    BY <1>a, <1>b, <1>e, <2>f DEF AnswersOwnCall
  <2> QED
    BY <2>1, <2>2, <2>3, <2>4, <2>5, <2>6, <2>7 DEF Safe
<1>8. ASSUME NEW c \in Clients, SetTimeoutEvent(c)
      PROVE  Safe'
  <2>f. /\ pc[c] = "timedout" /\ pc' = [pc EXCEPT ![c] = "idle"]
        /\ UNCHANGED <<call, got, sema, requests, responses, fpc, cur>>
        /\ \A k \in Cores :
             TimeoutBit(k) \in bits' <=> TimeoutBit(k) \in bits \/ k = CoreOf[c]
        /\ sema[CoreOf[c]] # 1
    <3>1. /\ pc[c] = "timedout" /\ pc' = [pc EXCEPT ![c] = "idle"]
          /\ UNCHANGED <<call, got, sema, requests, responses, fpc, cur>>
          /\ bits' = bits \cup {TimeoutBit(CoreOf[c])}
      BY <1>8 DEF SetTimeoutEvent, Return, Goto, taskVars
    <3>2. sema[CoreOf[c]] # 1
      BY <3>1, <1>a DEF CoreExclusive, Inside
    <3> QED
      BY <3>1, <3>2, <1>b, TimeoutBits
  <2>1. CoreExclusive'
    BY <1>a, <1>b, <1>e, <2>f DEF CoreExclusive, Inside
  <2>2. TokenHome'
    BY <1>a, <1>b, <1>e, <2>f DEF TokenHome, NothingInFlight, Handling, CurCore
  <2>3. TimeoutLeftBehind'
    BY <1>a, <1>b, <1>e, <2>f DEF TimeoutLeftBehind, CoreExclusive, Inside
  <2>4. NothingPending'
    BY <1>a, <1>b, <1>e, <2>f DEF NothingPending, NothingInFlight, Handling, CurCore
  <2>5. OnePerCore'
    BY <1>a, <1>b, <1>e, <2>f DEF OnePerCore, NothingInFlight, Handling, CurCore
  <2>6. Ownership'
    BY <1>a, <1>b, <1>e, <2>f DEF Ownership, IsCallOf, Handling, CurCore
  <2>7. AnswersOwnCall'
    BY <1>a, <1>b, <1>e, <2>f DEF AnswersOwnCall
  <2> QED
    BY <2>1, <2>2, <2>3, <2>4, <2>5, <2>6, <2>7 DEF Safe
<1>9. ASSUME NEW c \in Clients, GiveAndReturn(c)
      PROVE  Safe'
  <2>f. /\ pc[c] = "give" /\ pc' = [pc EXCEPT ![c] = "idle"]
        /\ sema' = [sema EXCEPT ![CoreOf[c]] = 1]
        /\ got' = [got EXCEPT ![c] = NoResponse]
        /\ UNCHANGED <<call, requests, responses, bits, fpc, cur>>
    BY <1>9 DEF GiveAndReturn, SemaphoreGive, Return, Goto, taskVars
  <2>1. CoreExclusive'
    BY <1>a, <1>b, <1>e, <2>f DEF CoreExclusive, Inside
  <2>2. TokenHome'
    BY <1>a, <1>b, <1>e, <2>f DEF TokenHome, NothingInFlight, Handling, CurCore,
       NothingPending, TimeoutLeftBehind, Inside
  <2>3. TimeoutLeftBehind'
    BY <1>a, <1>b, <1>e, <2>f DEF TimeoutLeftBehind, Inside
  <2>4. NothingPending'
    BY <1>a, <1>b, <1>e, <2>f DEF NothingPending, NothingInFlight, Handling, CurCore
  <2>5. OnePerCore'
    BY <1>a, <1>b, <1>e, <2>f DEF OnePerCore, NothingInFlight, Handling, CurCore
  <2>6. Ownership'
    BY <1>a, <1>b, <1>e, <2>f DEF Ownership, IsCallOf, Handling, CurCore
  <2>7. AnswersOwnCall'
    BY <1>a, <1>b, <1>e, <2>f DEF AnswersOwnCall
  <2> QED
    BY <2>1, <2>2, <2>3, <2>4, <2>5, <2>6, <2>7 DEF Safe

<1>4. ASSUME NEW c \in Clients, SendRequest(c)
      PROVE  Safe'
  <2>a. pc[c] = "send" /\ NothingInFlight(CoreOf[c]) /\ responses[CoreOf[c]] = <<>>
    BY <1>4, <1>a DEF SendRequest, NothingPending
  <2>b. Request(c) \in RequestType /\ Request(c).client = c /\ Request(c).call = call[c]
    BY <1>4 DEF SendRequest, TypeOK, Request, RequestType
  <2>c. CASE Len(requests) < QueueItems
    <3> DEFINE n == Len(requests) + 1
    <3>a. /\ requests' = Append(requests, Request(c))
          /\ pc' = [pc EXCEPT ![c] = "set"]
          /\ UNCHANGED <<call, got, sema, responses, bits, fpc, cur>>
      BY <1>4, <2>c DEF SendRequest, Goto, taskVars
    <3>b. /\ DOMAIN requests' = DOMAIN requests \cup {n} /\ n \notin DOMAIN requests
          /\ \A i \in DOMAIN requests : requests'[i] = requests[i]
          /\ requests'[n] = Request(c)
      <4> HIDE DEF RequestType, Request
      <4> QED
        BY <3>a, <2>b, <1>c, AppendItem
    <3>c. UNCHANGED <<call, got, sema, responses, bits, fpc, cur>>
          /\ pc' = [pc EXCEPT ![c] = "set"]
      BY <3>a
    <3> HIDE DEF n
    <3>d. \A l \in Cores : NothingInFlight(l) /\ l # CoreOf[c] => NothingInFlight(l)'
      BY <2>b, <3>b, <3>c DEF NothingInFlight, Handling, CurCore
    <3>e. \A d \in Clients : pc'[d] \in {"send", "give"}
             => CoreOf[d] # CoreOf[c] /\ pc[d] = pc'[d]
      BY <1>a, <1>e, <2>a, <3>c DEF CoreExclusive, Inside
    <3>f. sema[CoreOf[c]] = 0
      BY <1>a, <2>a DEF CoreExclusive, Inside
    <3>1. CoreExclusive'
      BY <1>a, <1>b, <1>e, <1>g, <2>a, <2>b, <3>b, <3>c DEF CoreExclusive, Inside
    <3>2. TokenHome'
      BY <1>a, <3>c, <3>d, <3>f DEF TokenHome
    <3>3. TimeoutLeftBehind'
      BY <1>a, <1>b, <1>e, <1>g, <2>a, <2>b, <3>b, <3>c DEF TimeoutLeftBehind,
         Inside
    <3>4. NothingPending'
      BY <1>a, <1>b, <3>c, <3>d, <3>e DEF NothingPending
    <3>5. OnePerCore'
      BY <1>a, <1>b, <1>e, <1>g, <2>a, <2>b, <3>b, <3>c DEF OnePerCore,
         NothingInFlight, Handling, CurCore
    <3>6. Ownership'
      BY <1>a, <1>b, <1>e, <1>g, <2>a, <2>b, <3>b, <3>c DEF Ownership, IsCallOf,
         Handling, CurCore, CoreExclusive, Inside, NothingInFlight
    <3>7. AnswersOwnCall'
      BY <1>a, <1>b, <1>e, <1>g, <2>a, <2>b, <3>b, <3>c DEF AnswersOwnCall
    <3> QED
      BY <3>1, <3>2, <3>3, <3>4, <3>5, <3>6, <3>7 DEF Safe
  <2>d. CASE ~(Len(requests) < QueueItems)
    <3>a. /\ pc' = [pc EXCEPT ![c] = "idle"]
          /\ sema' = [sema EXCEPT ![CoreOf[c]] = 1]
          /\ UNCHANGED <<call, got, requests, responses, bits, fpc, cur>>
      BY <1>4, <2>d DEF SendRequest, SemaphoreGive, Return, Goto, taskVars
    <3>1. CoreExclusive'
      BY <1>a, <1>b, <1>e, <2>a, <3>a DEF CoreExclusive, Inside
    <3>2. TokenHome'
      BY <1>a, <1>b, <1>e, <2>a, <3>a DEF TokenHome, NothingInFlight, Handling,
         CurCore, TimeoutLeftBehind, Inside
    <3>3. TimeoutLeftBehind'
      BY <1>a, <1>b, <1>e, <2>a, <3>a DEF TimeoutLeftBehind, Inside
    <3>4. NothingPending'
      BY <1>a, <1>b, <1>e, <2>a, <3>a DEF NothingPending, NothingInFlight,
         Handling, CurCore
    <3>5. OnePerCore'
      BY <1>a, <1>b, <1>e, <2>a, <3>a DEF OnePerCore, NothingInFlight, Handling,
         CurCore
    <3>6. Ownership'
      BY <1>a, <1>b, <1>e, <2>a, <3>a DEF Ownership, IsCallOf, Handling, CurCore
    <3>7. AnswersOwnCall'
      BY <1>a, <1>b, <1>e, <2>a, <3>a DEF AnswersOwnCall
    <3> QED
      BY <3>1, <3>2, <3>3, <3>4, <3>5, <3>6, <3>7 DEF Safe
  <2> QED
    BY <2>c, <2>d
<1>6. ASSUME NEW c \in Clients, ReceiveResponse(c)
      PROVE  Safe'
  <2> DEFINE k == CoreOf[c]
  <2>a. /\ pc[c] = "recv" /\ pc' = [pc EXCEPT ![c] = "give"]
        /\ responses[k] # <<>>
        /\ got' = [got EXCEPT ![c] = Head(responses[k])]
        /\ responses' = [responses EXCEPT ![k] = Tail(@)]
        /\ UNCHANGED <<call, sema, requests, bits, fpc, cur>>
    BY <1>6 DEF ReceiveResponse, Goto, taskVars
  <2>b. Head(responses[k]) = responses[k][1] /\ Tail(responses[k]) = <<>>
    BY <2>a, <1>b, <1>d, OneItem
  <2>c. IsCallOf(responses[k][1], c) /\ NothingInFlight(k)
    BY <2>a, <1>a, <1>b DEF Ownership, OnePerCore
  <2>d. responses'[k] = <<>> /\ \A l \in Cores \ {k} : responses'[l] = responses[l]
    BY <2>a, <2>b, <1>b, <1>e
  <2>f. /\ pc[c] = "recv" /\ pc' = [pc EXCEPT ![c] = "give"]
        /\ got' = [got EXCEPT ![c] = responses[k][1]]
        /\ UNCHANGED <<call, sema, requests, bits, fpc, cur>>
    BY <2>a, <2>b
  <2>1. CoreExclusive'
    BY <1>a, <1>b, <1>e, <2>c, <2>d, <2>f DEF CoreExclusive, Inside
  <2>2. TokenHome'
    BY <1>a, <1>b, <1>e, <2>c, <2>d, <2>f DEF TokenHome, NothingInFlight,
       Handling, CurCore
  <2>3. TimeoutLeftBehind'
    BY <1>a, <1>b, <1>e, <2>c, <2>d, <2>f DEF TimeoutLeftBehind, Inside
  <2>4. NothingPending'
    BY <1>a, <1>b, <1>e, <2>c, <2>d, <2>f DEF NothingPending, NothingInFlight,
       Handling, CurCore
  <2>5. OnePerCore'
    BY <1>a, <1>b, <1>e, <2>c, <2>d, <2>f DEF OnePerCore, NothingInFlight,
       Handling, CurCore
  <2>6. Ownership'
    <3>1. \A d \in Clients : pc'[d] \in {"set", "recv", "timedout"}
             => pc[d] = pc'[d] /\ CoreOf[d] # k
      BY <1>a, <1>e, <2>f DEF CoreExclusive, Inside
    <3>2. \A d \in Clients : CoreOf[d] # k
             => responses'[CoreOf[d]] = responses[CoreOf[d]]
      BY <1>b, <2>d
    <3> HIDE DEF k
    <3>3. UNCHANGED <<call, requests, fpc, cur>>
      BY <2>f
    <3> QED
      BY <1>a, <3>1, <3>2, <3>3 DEF Ownership, IsCallOf, Handling, CurCore
  <2>7. AnswersOwnCall'
    BY <1>a, <1>b, <1>e, <2>c, <2>d, <2>f DEF AnswersOwnCall, IsCallOf
  <2> QED
    BY <2>1, <2>2, <2>3, <2>4, <2>5, <2>6, <2>7 DEF Safe
<1>10. CASE BackgroundCopyStart
  <2>1. \A k \in Cores : TimeoutBit(k) \in bits' <=> TimeoutBit(k) \in bits
    BY <1>10, TimeoutBits DEF BackgroundCopyStart, ServiceBits
  <2>2. /\ UNCHANGED <<pc, call, got, sema, requests, responses>>
        /\ Handling' => Handling /\ cur' = cur
    BY <1>10 DEF BackgroundCopyStart, clientVars, taskVars, Handling
  <2> QED
    BY <2>1, <2>2, QuietStep
<1>11. CASE WdtNotify
  <2>1. \A k \in Cores : TimeoutBit(k) \in bits' <=> TimeoutBit(k) \in bits
    BY <1>11, TimeoutBits DEF WdtNotify, ServiceBits
  <2>2. /\ UNCHANGED <<pc, call, got, sema, requests, responses>>
        /\ Handling' => Handling /\ cur' = cur
    BY <1>11 DEF WdtNotify, clientVars, taskVars, Handling
  <2> QED
    BY <2>1, <2>2, QuietStep
<1>12. CASE WakeForRequest
  <2>1. \A k \in Cores : TimeoutBit(k) \in bits' <=> TimeoutBit(k) \in bits
    BY <1>12, TimeoutBits DEF WakeForRequest, MarkAlive, ServiceBits
  <2>2. /\ UNCHANGED <<pc, call, got, sema, requests, responses>>
        /\ Handling' => Handling /\ cur' = cur
    BY <1>12 DEF WakeForRequest, clientVars, taskVars, Handling
  <2> QED
    BY <2>1, <2>2, QuietStep
<1>13. CASE StartCopy
  <2>1. \A k \in Cores : TimeoutBit(k) \in bits' <=> TimeoutBit(k) \in bits
    BY <1>13, TimeoutBits DEF StartCopy, MarkAlive, ServiceBits
  <2>2. /\ UNCHANGED <<pc, call, got, sema, requests, responses>>
        /\ Handling' => Handling /\ cur' = cur
    BY <1>13 DEF StartCopy, clientVars, taskVars, Handling
  <2> QED
    BY <2>1, <2>2, QuietStep
<1>14. CASE CopyNext
  <2>1. bits = {"BgNext"} /\ bits' \subseteq {"BgNext"}
    BY <1>14, CopyAlone DEF CopyNext
  <2>2. \A k \in Cores : TimeoutBit(k) \in bits' <=> TimeoutBit(k) \in bits
    BY <2>1, TimeoutBits DEF ServiceBits
  <2>3. /\ UNCHANGED <<pc, call, got, sema, requests, responses>>
        /\ Handling' => Handling /\ cur' = cur
    BY <1>14 DEF CopyNext, clientVars, taskVars, Handling
  <2> QED
    BY <2>2, <2>3, QuietStep
<1>15. CASE WakeForNothing
  <2>1. \A k \in Cores : TimeoutBit(k) \in bits' <=> TimeoutBit(k) \in bits
    BY <1>15, TimeoutBits DEF WakeForNothing, MarkAlive, ServiceBits
  <2>2. /\ UNCHANGED <<pc, call, got, sema, requests, responses>>
        /\ Handling' => Handling /\ cur' = cur
    BY <1>15 DEF WakeForNothing, clientVars, taskVars, Handling
  <2> QED
    BY <2>1, <2>2, QuietStep
<1>16. CASE TakeRequest
  <2>a. /\ requests # <<>> /\ ~Handling /\ Handling'
        /\ cur' = Head(requests) /\ requests' = Tail(requests)
        /\ UNCHANGED <<pc, call, got, sema, responses, bits>>
    BY <1>16 DEF TakeRequest, Handling, clientVars
  <2>b. /\ 1 \in DOMAIN requests /\ cur' = requests[1]
        /\ \A i \in DOMAIN requests' : /\ i + 1 \in DOMAIN requests
                                       /\ requests'[i] = requests[i + 1]
                                       /\ i \in Nat \ {0}
    <3> HIDE DEF RequestType
    <3> QED
      BY <2>a, <1>c, OneItem
  <2>c. CurCore' = CoreOf[requests[1].client]
    BY <2>b DEF CurCore
  <2>d. UNCHANGED <<pc, call, got, sema, responses, bits>>
    BY <2>a
  <2>e. \A k \in Cores : NothingInFlight(k) => NothingInFlight(k)'
    BY <2>b, <2>c DEF NothingInFlight
  <2>1. CoreExclusive'
    BY <1>a, <2>d DEF CoreExclusive, Inside
  <2>2. TokenHome'
    BY <1>a, <2>d, <2>e DEF TokenHome
  <2>3. TimeoutLeftBehind'
    BY <1>a, <2>d DEF TimeoutLeftBehind, Inside
  <2>4. NothingPending'
    BY <1>a, <1>b, <2>d, <2>e DEF NothingPending
  <2>5. OnePerCore'
    <3>1. \A i, j \in DOMAIN requests' :
            CoreOf[requests'[i].client] = CoreOf[requests'[j].client] => i = j
      BY <1>a, <2>b DEF OnePerCore
    <3>2. \A i \in DOMAIN requests' : CoreOf[requests'[i].client] # CurCore'
      BY <1>a, <2>b, <2>c DEF OnePerCore
    <3>3. \A k \in Cores : responses'[k] # <<>> => NothingInFlight(k)'
      BY <1>a, <2>d, <2>e DEF OnePerCore
    <3> QED
      BY <3>1, <3>2, <3>3 DEF OnePerCore
  <2>6. Ownership'
    BY <1>a, <2>b, <2>c, <2>d DEF Ownership, IsCallOf
  <2>7. AnswersOwnCall'
    BY <1>a, <2>d DEF AnswersOwnCall
  <2> QED
    BY <2>1, <2>2, <2>3, <2>4, <2>5, <2>6, <2>7 DEF Safe
<1>17. CASE CheckQueueSize
  BY <1>17, QuietStep DEF CheckQueueSize, clientVars, ipcVars, Handling
<1>19. CASE Process
  BY <1>19, QuietStep DEF Process, clientVars, ipcVars, Handling
<1>21. CASE SeeNoTimeout
  BY <1>21, QuietStep DEF SeeNoTimeout, clientVars, ipcVars, Handling
<1>23. CASE UNCHANGED vars
  BY <1>23, QuietStep DEF vars, clientVars, ipcVars, taskVars, Handling
<1>18. CASE ClearEvent
  <2>1. handler \in ServiceBits
    BY <1>18 DEF ClearEvent, TypeOK, ServiceBits
  <2>2. \A k \in Cores : TimeoutBit(k) \in bits' <=> TimeoutBit(k) \in bits
    BY <1>18, <2>1, TimeoutBits DEF ClearEvent
  <2>3. /\ UNCHANGED <<pc, call, got, sema, requests, responses>>
        /\ Handling' => Handling /\ cur' = cur
    BY <1>18 DEF ClearEvent, clientVars, Handling
  <2> QED
    BY <2>2, <2>3, QuietStep
<1>20. CASE DropResponse
  <2>a. /\ Handling /\ ~Handling'
        /\ TimeoutBit(CurCore) \in bits /\ bits' = bits \ {TimeoutBit(CurCore)}
        /\ sema' = [sema EXCEPT ![CurCore] = 1]
        /\ UNCHANGED <<pc, call, got, requests, responses>>
    BY <1>20 DEF DropResponse, SemaphoreGive, Done, Handling, clientVars
  <2>b. CurCore \in Cores
    BY <2>a, <1>f
  <2>c. /\ \A k \in Cores : TimeoutBit(k) \in bits' <=>
                              TimeoutBit(k) \in bits /\ k # CurCore
    BY <2>a, <2>b, TimeoutBits
  <2>d. responses[CurCore] = <<>>
        /\ \A i \in DOMAIN requests : CoreOf[requests[i].client] # CurCore
    BY <1>a, <2>a, <2>b DEF OnePerCore, NothingInFlight
  <2>e. \A c \in Clients : CoreOf[c] = CurCore => ~Inside(c)
    BY <1>a, <2>a, <2>b DEF TimeoutLeftBehind
  <2>f. \A k \in Cores : NothingInFlight(k) => NothingInFlight(k)'
    BY <2>a DEF NothingInFlight
  <2>1. CoreExclusive'
    BY <1>a, <1>b, <1>e, <2>a, <2>b, <2>e DEF CoreExclusive, Inside
  <2>2. TokenHome'
    <3>1. ASSUME NEW k \in Cores, sema'[k] = 1
          PROVE  TimeoutBit(k) \notin bits' /\ responses'[k] = <<>>
                 /\ NothingInFlight(k)'
      <4>1. CASE k = CurCore
        <5>1. TimeoutBit(k) \notin bits' /\ responses'[k] = <<>>
          BY <4>1, <2>a, <2>c, <2>d
        <5>2. NothingInFlight(k)'
          BY <4>1, <2>a, <2>d DEF NothingInFlight
        <5> QED
          BY <5>1, <5>2
      <4>2. CASE k # CurCore
        BY <4>2, <1>a, <1>e, <2>a, <2>b, <2>c, <2>f, <3>1 DEF TokenHome
      <4> QED
        BY <4>1, <4>2
    <3> QED
      BY <3>1 DEF TokenHome
  <2>3. TimeoutLeftBehind'
    BY <1>a, <2>a, <2>c DEF TimeoutLeftBehind, Inside
  <2>4. NothingPending'
    BY <1>a, <1>b, <2>a, <2>f DEF NothingPending
  <2>5. OnePerCore'
    BY <1>a, <2>a, <2>f DEF OnePerCore
  <2>6. Ownership'
    BY <1>a, <2>a DEF Ownership, IsCallOf
  <2>7. AnswersOwnCall'
    BY <1>a, <2>a DEF AnswersOwnCall
  <2> QED
    BY <2>1, <2>2, <2>3, <2>4, <2>5, <2>6, <2>7 DEF Safe
<1>22. CASE PostResponse
  <2>a. /\ Handling /\ ~Handling'
        /\ responses' = IF responses[CurCore] = <<>>
             THEN [responses EXCEPT ![CurCore] = <<Response(cur, answer)>>]
             ELSE responses
        /\ UNCHANGED <<pc, call, got, sema, requests, bits>>
    BY <1>22 DEF PostResponse, Done, Handling, clientVars
  <2>b. CurCore \in Cores
    BY <2>a, <1>f
  <2>c. responses[CurCore] = <<>>
        /\ \A i \in DOMAIN requests : CoreOf[requests[i].client] # CurCore
    BY <1>a, <2>a, <2>b DEF OnePerCore, NothingInFlight
  <2>d. /\ \A k \in Cores \ {CurCore} : responses'[k] = responses[k]
        /\ responses'[CurCore][1] = Response(cur, answer)
    BY <2>a, <2>b, <2>c, <1>e
  <2>e. /\ ~Handling' /\ Handling
        /\ UNCHANGED <<pc, call, got, sema, requests, bits>>
    BY <2>a
  <2>f. \A k \in Cores : NothingInFlight(k) => NothingInFlight(k)' /\ k # CurCore
    BY <2>e DEF NothingInFlight
  <2>1. CoreExclusive'
    BY <1>a, <2>e DEF CoreExclusive, Inside
  <2>2. TokenHome'
    BY <1>a, <2>d, <2>e, <2>f DEF TokenHome
  <2>3. TimeoutLeftBehind'
    BY <1>a, <2>e DEF TimeoutLeftBehind, Inside
  <2>4. NothingPending'
    BY <1>a, <1>b, <2>d, <2>e, <2>f DEF NothingPending
  <2>5. OnePerCore'
    <3>1. \A k \in Cores : responses'[k] # <<>> => NothingInFlight(k)'
      <4>1. ASSUME NEW k \in Cores, k # CurCore, responses'[k] # <<>>
            PROVE  NothingInFlight(k)'
        BY <4>1, <1>a, <2>d, <2>f DEF OnePerCore
      <4>2. ASSUME NEW k \in Cores, k = CurCore
            PROVE  NothingInFlight(k)'
        BY <4>2, <2>e, <2>c DEF NothingInFlight
      <4> QED
        BY <4>1, <4>2
    <3> QED
      BY <3>1, <1>a, <2>e DEF OnePerCore
  <2>6. Ownership'
    BY <1>a, <1>b, <2>c, <2>d, <2>e DEF Ownership, IsCallOf, Response
  <2>7. AnswersOwnCall'
    BY <1>a, <2>e DEF AnswersOwnCall
  <2> QED
    BY <2>1, <2>2, <2>3, <2>4, <2>5, <2>6, <2>7 DEF Safe
<1> QED
  BY <1>1, <1>2, <1>3, <1>4, <1>5, <1>6, <1>7, <1>8, <1>9, <1>10, <1>11, <1>12,
     <1>13, <1>14, <1>15, <1>16, <1>17, <1>18, <1>19, <1>20, <1>21, <1>22, <1>23
     DEF Next, Client, Service
THEOREM SafeAlways == Spec => [](TypeOK /\ Safe)
<1>1. Init => TypeOK /\ Safe
  BY TypeInit, SafeInit
<1>2. TypeOK /\ Safe /\ [Next]_vars => TypeOK' /\ Safe'
  BY TypeStep, SafeStep
<1> QED
  BY <1>1, <1>2, PTL DEF Spec

(* At most one caller per core is between the take and the give, for any   *)
(* number of clients and whatever calls time out.                          *)
THEOREM CoreExclusiveAlways == Spec => []CoreExclusive
<1>1. Safe => CoreExclusive
  BY DEF Safe
<1> QED
  BY <1>1, SafeAlways, PTL

(* A caller never takes another call's response.                           *)
THEOREM AnswersOwnCallAlways == Spec => []AnswersOwnCall
<1>1. Safe => AnswersOwnCall
  BY DEF Safe
<1> QED
  BY <1>1, SafeAlways, PTL

(* A queue with a slot for each core never refuses the holder of a core's  *)
(* semaphore.                                                              *)
THEOREM RequestSlotReservedAlways == Spec => []RequestSlotReserved
<1>1. TypeOK /\ Safe => RequestSlotReserved
  <2> SUFFICES ASSUME TypeOK, Safe, NEW c \in Clients, pc[c] = "send",
                      ~(Len(requests) < QueueItems)
               PROVE  FALSE
    BY DEF RequestSlotReserved
  <2> USE FlashConstants
  <2>1. /\ requests \in Seq(RequestType) /\ Len(requests) \in Nat
        /\ Len(requests) >= QueueItems /\ DOMAIN requests = 1 .. Len(requests)
    BY DEF TypeOK
  <2>2. \A i \in DOMAIN requests : CoreOf[requests[i].client] \in Cores \ {CoreOf[c]}
    <3>1. \A i \in DOMAIN requests : requests[i] \in RequestType
      BY <2>1
    <3>2. \A i \in DOMAIN requests : CoreOf[requests[i].client] \in Cores
      BY <3>1 DEF RequestType
    <3> QED
      BY <3>2 DEF Safe, NothingPending, NothingInFlight
  <2>3. 1 \in DOMAIN requests
    BY <2>1
  <2>4. ~(Cores \subseteq {"Core0"})
    BY <2>2, <2>3
  <2>5. 2 \in DOMAIN requests
    BY <2>1, <2>4
  <2>6. CoreOf[requests[1].client] # CoreOf[requests[2].client]
    BY <2>3, <2>5 DEF Safe, OnePerCore
  <2> QED
    BY <2>2, <2>3, <2>5, <2>6
<1> QED
  BY <1>1, SafeAlways, PTL

(* The flash task never drops an answer for want of room.                  *)
THEOREM ResponseSlotFreeAlways == Spec => []ResponseSlotFree
<1>1. TypeOK /\ Safe => ResponseSlotFree
  BY FlashConstants DEF TypeOK, RequestType, CurCore, Safe, OnePerCore,
     NothingInFlight, Handling, ResponseSlotFree
<1> QED
  BY <1>1, SafeAlways, PTL
-----------------------------------------------------------------------------
(* Event bits and requests, with the clients on one core. *)

(* A request and its bit are two objects, but with one core there is never *)
(* more than one of each: the bit is set while its request is in the queue *)
(* and cleared before the request is processed.                            *)
RequestBits == bits \cap {"Op", "Query", "Data"}

Paired ==
    /\ \A c \in Clients : pc[c] = "set" =>
         /\ fpc = "wait" /\ RequestBits = {}
         /\ requests # <<>> /\ requests[1].kind = kind[c]
    /\ fpc = "wait" /\ requests # <<>> =>
         \/ requests[1].kind \in RequestBits
         \/ \E c \in Clients : pc[c] = "set"
    /\ fpc \in {"wait", "recv"} =>
         \A b \in RequestBits : requests # <<>> /\ requests[1].kind = b
    /\ fpc = "recv" => requests # <<>> /\ requests[1].kind = handler
    /\ Handling => requests = <<>> /\ handler = cur.kind
    /\ fpc \in {"size", "clear"} => RequestBits \subseteq {handler}
    /\ fpc \in {"process", "respond", "post"} => RequestBits = {}

(* A caller that is about to send has the queue to itself.                 *)
LEMMA AloneInQueue ==
  ASSUME \A k, l \in Cores : k = l, TypeOK, Safe
  PROVE  /\ Len(requests) <= 1
         /\ \A c \in Clients : pc[c] = "send" => requests = <<>> /\ ~Handling
<1> USE FlashConstants
<1>1. /\ requests \in Seq(RequestType) /\ Len(requests) \in Nat
      /\ DOMAIN requests = 1 .. Len(requests)
  BY DEF TypeOK
<1>2. \A i \in DOMAIN requests : CoreOf[requests[i].client] \in Cores
  <2>1. \A i \in DOMAIN requests : requests[i] \in RequestType
    BY <1>1
  <2> QED
    BY <2>1 DEF RequestType
<1>3. Len(requests) <= 1
  <2>1. ASSUME Len(requests) >= 2
        PROVE  FALSE
    <3>1. 1 \in DOMAIN requests /\ 2 \in DOMAIN requests
      BY <1>1, <2>1
    <3>2. CoreOf[requests[1].client] = CoreOf[requests[2].client]
      BY <1>2, <3>1
    <3>3. OnePerCore
      BY DEF Safe
    <3> QED
      BY <3>1, <3>2, <3>3 DEF OnePerCore
  <2> QED
    BY <1>1, <2>1
<1>4. ASSUME NEW c \in Clients, pc[c] = "send"
      PROVE  requests = <<>> /\ ~Handling
  <2>1. NothingInFlight(CoreOf[c]) /\ CoreOf[c] \in Cores
    BY <1>4 DEF Safe, NothingPending
  <2>2. DOMAIN requests = {}
    BY <1>2, <2>1 DEF NothingInFlight
  <2>3. requests = <<>>
    BY <1>1, <2>2
  <2>4. Handling => CurCore \in Cores
    BY DEF TypeOK, RequestType, CurCore
  <2> QED
    BY <2>1, <2>3, <2>4 DEF NothingInFlight
<1> QED
  BY <1>3, <1>4

(* A step that touches neither the queue nor the bits of its requests.     *)
LEMMA PairedQuiet ==
  ASSUME Paired, UNCHANGED <<requests, fpc, handler, cur>>,
         RequestBits' = RequestBits,
         \A c \in Clients : /\ pc'[c] = "set" <=> pc[c] = "set"
                            /\ pc[c] = "set" => kind'[c] = kind[c]
  PROVE  Paired'
  BY DEF Paired, Handling

LEMMA PairedInit == Init => Paired
  BY DEF Init, Paired, RequestBits, Handling

LEMMA PairedStep ==
  ASSUME \A k, l \in Cores : k = l,
         TypeOK, Safe, Paired, [Next]_vars
  PROVE  Paired'
<1> USE FlashConstants
<1>a. /\ requests \in Seq(RequestType) /\ Len(requests) \in Nat
      /\ pc \in [Clients -> {"idle", "take", "send", "set", "recv", "timedout",
                             "give"}]
      /\ kind \in [Clients -> Kinds \cup {None}]
      /\ \A c \in Clients : pc[c] # "idle" => kind[c] \in Kinds
      /\ IF fpc = "wait" THEN handler = None ELSE handler \in {"Op", "Query", "Data"}
  BY DEF TypeOK
<1>b. /\ Len(requests) <= 1
      /\ \A c \in Clients : pc[c] = "send" => requests = <<>> /\ ~Handling
  BY AloneInQueue
<1>1. ASSUME NEW c \in Clients, NEW t \in Kinds, Call(c, t)
      PROVE  Paired'
  BY <1>1, <1>a, PairedQuiet DEF Call, Goto, ipcVars, taskVars, RequestBits
<1>2. ASSUME NEW c \in Clients, SemaphoreTake(c)
      PROVE  Paired'
  BY <1>2, <1>a, PairedQuiet DEF SemaphoreTake, Goto, taskVars, RequestBits
<1>3. ASSUME NEW c \in Clients, SemaphoreTimeout(c)
      PROVE  Paired'
  BY <1>3, <1>a, PairedQuiet DEF SemaphoreTimeout, Return, Goto, ipcVars, taskVars,
     RequestBits
<1>4. ASSUME NEW c \in Clients, SendRequest(c)
      PROVE  Paired'
  <2>1. /\ pc[c] = "send" /\ requests = <<>> /\ ~Handling
        /\ UNCHANGED <<bits, fpc, handler, cur>>
    BY <1>4, <1>b DEF SendRequest, taskVars
  <2>2. /\ requests' = Append(requests, Request(c)) /\ Goto(c, "set")
        /\ UNCHANGED kind
    BY <1>4, <2>1 DEF SendRequest
  <2>3. requests' # <<>> /\ requests'[1].kind = kind[c]
    <3>1. requests' = <<Request(c)>>
      BY <2>1, <2>2
    <3> QED
      BY <3>1 DEF Request
  <2>4. fpc \in {"wait", "recv"} /\ fpc # "recv" /\ RequestBits = {}
    BY <1>a, <2>1 DEF Paired, Handling, TypeOK
  <2>5. \A d \in Clients \ {c} : pc[d] # "set"
    BY <2>1 DEF Paired
  <2> QED
    BY <1>a, <2>1, <2>2, <2>3, <2>4, <2>5 DEF Paired, RequestBits, Handling, Goto
<1>5. ASSUME NEW c \in Clients, SetEvent(c)
      PROVE  Paired'
  <2>1. /\ pc[c] = "set" /\ bits' = bits \cup {kind[c]} /\ kind[c] \in Kinds
        /\ pc' = [pc EXCEPT ![c] = "recv"]
        /\ UNCHANGED <<kind, requests, fpc, handler, cur>>
    BY <1>5, <1>a DEF SetEvent, Goto, taskVars
  <2>2. /\ fpc = "wait" /\ RequestBits = {}
        /\ requests # <<>> /\ requests[1].kind = kind[c]
    BY <2>1 DEF Paired
  <2>3. RequestBits' = {kind[c]}
    BY <2>1, <2>2 DEF RequestBits
  <2>4. \A d \in Clients : pc'[d] # "set"
    <3>1. ASSUME NEW d \in Clients, pc[d] = "set", d # c
          PROVE  FALSE
      <4>1. CoreOf[c] = CoreOf[d]
        OBVIOUS
      <4>2. CoreExclusive
        BY DEF Safe
      <4> QED
        BY <2>1, <3>1, <4>1, <4>2 DEF CoreExclusive, Inside
    <3> QED
      BY <1>a, <2>1, <3>1
  <2> QED
    BY <2>1, <2>2, <2>3, <2>4 DEF Paired, Handling
<1>6. ASSUME NEW c \in Clients, ReceiveResponse(c)
      PROVE  Paired'
  BY <1>6, <1>a, PairedQuiet DEF ReceiveResponse, Goto, taskVars, RequestBits
<1>7. ASSUME NEW c \in Clients, ReceiveTimeout(c)
      PROVE  Paired'
  BY <1>7, <1>a, PairedQuiet DEF ReceiveTimeout, Goto, ipcVars, taskVars, RequestBits
<1>8. ASSUME NEW c \in Clients, SetTimeoutEvent(c)
      PROVE  Paired'
  <2>1. RequestBits' = RequestBits
    BY <1>8 DEF SetTimeoutEvent, RequestBits, TimeoutBit
  <2> QED
    BY <1>8, <1>a, <2>1, PairedQuiet DEF SetTimeoutEvent, Return, Goto, taskVars
<1>9. ASSUME NEW c \in Clients, GiveAndReturn(c)
      PROVE  Paired'
  BY <1>9, <1>a, PairedQuiet DEF GiveAndReturn, Return, Goto, taskVars, RequestBits
<1>10. CASE BackgroundCopyStart
  BY <1>10, PairedQuiet DEF BackgroundCopyStart, clientVars, taskVars, RequestBits
<1>11. CASE WdtNotify
  BY <1>11, PairedQuiet DEF WdtNotify, clientVars, taskVars, RequestBits
<1>12. CASE WakeForRequest
  <2>1. /\ fpc = "wait" /\ fpc' = "recv" /\ handler' \in bits
        /\ handler' \in {"Op", "Query", "Data"} /\ bits' = bits \ {"Wdt"}
        /\ UNCHANGED <<pc, kind, requests, cur>>
    BY <1>12 DEF WakeForRequest, Awake, Branch, MarkAlive, clientVars
  <2>2. RequestBits' = RequestBits /\ handler' \in RequestBits
    BY <2>1 DEF RequestBits
  <2>3. \A c \in Clients : pc[c] # "set"
    BY <2>2 DEF Paired
  <2> QED
    BY <2>1, <2>2, <2>3 DEF Paired, Handling
<1>13. CASE StartCopy
  BY <1>13, PairedQuiet DEF StartCopy, MarkAlive, clientVars, taskVars, RequestBits
<1>14. CASE CopyNext
  <2>1. RequestBits' = RequestBits
    BY <1>14, CopyAlone DEF CopyNext, RequestBits
  <2> QED
    BY <1>14, <2>1, PairedQuiet DEF CopyNext, clientVars, taskVars
<1>15. CASE WakeForNothing
  BY <1>15, PairedQuiet DEF WakeForNothing, MarkAlive, clientVars, taskVars,
     RequestBits
<1>16. CASE TakeRequest
  <2>1. /\ fpc = "recv" /\ fpc' = "size" /\ requests # <<>>
        /\ cur' = Head(requests) /\ requests' = Tail(requests)
        /\ UNCHANGED <<pc, kind, bits, handler>>
    BY <1>16 DEF TakeRequest, clientVars
  <2>2. requests' = <<>> /\ cur' = requests[1]
    BY <1>a, <1>b, <2>1, OneItem
  <2> QED
    BY <2>1, <2>2 DEF Paired, RequestBits, Handling
<1>17. CASE CheckQueueSize
  BY <1>17 DEF CheckQueueSize, Paired, RequestBits, Handling, clientVars, ipcVars
<1>18. CASE ClearEvent
  BY <1>18 DEF ClearEvent, Paired, RequestBits, Handling, clientVars
<1>19. CASE Process
  BY <1>19 DEF Process, Paired, RequestBits, Handling, clientVars, ipcVars
<1>20. CASE DropResponse
  <2>1. RequestBits' = RequestBits
    BY <1>20 DEF DropResponse, RequestBits, TimeoutBit
  <2> QED
    BY <1>20, <2>1 DEF DropResponse, Done, Paired, Handling, clientVars
<1>21. CASE SeeNoTimeout
  BY <1>21 DEF SeeNoTimeout, Paired, RequestBits, Handling, clientVars, ipcVars
<1>22. CASE PostResponse
  BY <1>22 DEF PostResponse, Done, Paired, RequestBits, Handling, clientVars
<1>23. CASE UNCHANGED vars
  BY <1>23, PairedQuiet DEF vars, clientVars, ipcVars, taskVars, RequestBits
<1> QED
  BY <1>1, <1>2, <1>3, <1>4, <1>5, <1>6, <1>7, <1>8, <1>9, <1>10, <1>11, <1>12,
     <1>13, <1>14, <1>15, <1>16, <1>17, <1>18, <1>19, <1>20, <1>21, <1>22, <1>23
     DEF Next, Client, Service

(* On one core bits, queue and handler stay paired, whatever times out.    *)
LEMMA PairedAlways ==
  ASSUME \A k, l \in Cores : k = l
  PROVE  Spec => [](TypeOK /\ Safe /\ Paired)
<1>1. Init => TypeOK /\ Safe /\ Paired
  BY TypeInit, SafeInit, PairedInit
<1>2. TypeOK /\ Safe /\ Paired /\ [Next]_vars => TypeOK' /\ Safe' /\ Paired'
  BY TypeStep, SafeStep, PairedStep
<1> QED
  BY <1>1, <1>2, PTL DEF Spec

(* With its clients on one core the flash task serves every request in the *)
(* branch of the request's own event bit, whatever calls time out.         *)
THEOREM HandlerMatchesRequestAlways ==
  ASSUME \A k, l \in Cores : k = l
  PROVE  Spec => []HandlerMatchesRequest
<1>1. Paired => HandlerMatchesRequest
  BY DEF Paired, HandlerMatchesRequest
<1> QED
  BY <1>1, PairedAlways, PTL

(* With its clients on one core the flash task never waits while a request *)
(* whose caller has set its event is in the queue without that event.      *)
THEOREM QueuedRequestHasEventAlways ==
  ASSUME \A k, l \in Cores : k = l
  PROVE  Spec => []QueuedRequestHasEvent
<1>1. TypeOK /\ Safe /\ Paired => QueuedRequestHasEvent
  <2> SUFFICES ASSUME TypeOK, Safe, Paired, NEW c \in Clients, fpc = "wait",
                      pc[c] = "recv", NEW i \in 1 .. Len(requests),
                      requests[i] = Request(c)
               PROVE  kind[c] \in bits
    BY DEF QueuedRequestHasEvent
  <2> USE FlashConstants
  <2>1. requests # <<>> /\ requests[1].kind = kind[c]
    <3>1. requests \in Seq(RequestType) /\ Len(requests) <= 1
      BY AloneInQueue DEF TypeOK
    <3>2. i = 1 /\ requests # <<>>
      BY <3>1
    <3> QED
      BY <3>2 DEF Request
  <2>2. \A d \in Clients : pc[d] # "set"
    <3>1. \A d \in Clients : CoreOf[d] = CoreOf[c]
      OBVIOUS
    <3>2. CoreExclusive
      BY DEF Safe
    <3> QED
      BY <3>1, <3>2 DEF CoreExclusive, Inside
  <2> QED
    BY <2>1, <2>2 DEF Paired, RequestBits
<1> QED
  BY <1>1, PairedAlways, PTL
-----------------------------------------------------------------------------
(* The service implements the remote call of FlashRpc. *)

Unserved(c, n)       == \A done \in served[c] : done.call # n
ServedWith(c, n, st) == [call |-> n, status |-> st] \in served[c]

(* A request under way was issued and not executed yet; a response, once   *)
(* computed, is the status of an execution.                                *)
Fresh(m) == m.call \in 1 .. call[m.client] /\ Unserved(m.client, m.call)

History ==
  /\ \A c \in Clients : \A done \in served[c] : done.call <= call[c]
  /\ \A i \in DOMAIN requests : Fresh(requests[i])
  /\ fpc \in {"size", "clear", "process"} => Fresh(cur)
  /\ Answered => ServedWith(cur.client, cur.call, answer)
  /\ \A k \in Cores : responses[k] # <<>> =>
       ServedWith(responses[k][1].client, responses[k][1].call,
                  responses[k][1].status)
  /\ \A c \in Clients : pc[c] = "give" =>
       ServedWith(got[c].client, got[c].call, got[c].status)

(* A call that has not sent its request is not executed.                   *)
Unsent == \A c \in Clients : pc[c] \in {"take", "send"} =>
            /\ call[c] >= 1 /\ Unserved(c, call[c])
            /\ \A i \in DOMAIN requests :
                 requests[i].client = c => requests[i].call # call[c]
            /\ Handling /\ cur.client = c => cur.call # call[c]
LEMMA HistoryInit == Init => History /\ Unsent
  BY DEF Init, History, Unsent, Answered, Handling

LEMMA QuietHistory ==
  ASSUME History, Unsent,
         UNCHANGED <<call, requests, responses, served>>,
         \A c \in Clients : pc'[c] = "give" => pc[c] = "give" /\ got'[c] = got[c],
         \A c \in Clients : pc'[c] \in {"take", "send"} => pc[c] \in {"take", "send"},
         fpc' \in {"size", "clear", "process"}
           => fpc \in {"size", "clear", "process"} /\ cur' = cur,
         Answered' => Answered /\ cur' = cur /\ answer' = answer
  PROVE  History' /\ Unsent'
<1>1. History'
  BY DEF History, Fresh, Unserved, ServedWith
<1>2. Handling' => Handling /\ cur' = cur
  BY DEF Handling, Answered
<1>3. Unsent'
  BY <1>2 DEF Unsent, Unserved
<1> QED
  BY <1>1, <1>3

LEMMA HistoryStep ==
  TypeOK /\ Safe /\ History /\ Unsent /\ [Next]_vars => History' /\ Unsent'
<1> SUFFICES ASSUME TypeOK, Safe, History, Unsent, [Next]_vars
             PROVE  History' /\ Unsent'
  OBVIOUS
<1> USE FlashConstants
<1>a. /\ pc \in [Clients -> {"idle", "take", "send", "set", "recv", "timedout",
                           "give"}]
      /\ call \in [Clients -> 0 .. MaxCalls]
      /\ got \in [Clients -> ResponseType \cup {NoResponse}]
      /\ DOMAIN responses = Cores
      /\ served \in [Clients -> SUBSET [call : 0 .. MaxCalls, status : Answers]]
  BY DEF TypeOK
<1>b. requests \in Seq(RequestType)
  BY DEF TypeOK
<1>c. \A i \in DOMAIN requests : /\ requests[i].client \in Clients
                                /\ requests[i].call \in 0 .. MaxCalls
  <2>1. \A i \in DOMAIN requests : requests[i] \in RequestType
    BY <1>b
  <2> QED
    BY <2>1 DEF RequestType
<1>d. Handling => /\ cur.client \in Clients /\ cur.call \in 0 .. MaxCalls
                  /\ CurCore \in Cores
  BY DEF TypeOK, RequestType, CurCore
<1>e. \A c \in Clients : \A done \in served[c] : done.call \in 0 .. MaxCalls
  BY <1>a
<1> HIDE DEF TypeOK
<1>1. ASSUME NEW c \in Clients, NEW t \in Kinds, Call(c, t)
      PROVE  History' /\ Unsent'
  <2>a. /\ pc[c] = "idle" /\ pc' = [pc EXCEPT ![c] = "take"]
        /\ call' = [call EXCEPT ![c] = @ + 1]
        /\ UNCHANGED <<got, requests, responses, fpc, cur, answer, served>>
    BY <1>1 DEF Call, Goto, ipcVars, taskVars
  <2>b. \A d \in Clients : call'[d] \in Nat /\ call[d] \in Nat /\ call[d] <= call'[d]
    BY <1>a, <2>a
  <2>c. \A m : m.client \in Clients /\ Fresh(m) => Fresh(m)'
    BY <2>a, <2>b DEF Fresh, Unserved
  <2>1. \A d \in Clients : \A done \in served'[d] : done.call <= call'[d]
    BY <1>e, <2>a, <2>b DEF History
  <2>2. History'
    <3>1. \A i \in DOMAIN requests' : Fresh(requests[i])'
      BY <1>c, <2>a, <2>c DEF History
    <3>2. fpc' \in {"size", "clear", "process"} => Fresh(cur)'
      BY <1>d, <2>a, <2>c DEF History, Handling
    <3>3. \A d \in Clients : pc'[d] = "give" => pc[d] = "give"
      BY <1>a, <2>a
    <3> QED
      BY <2>1, <2>a, <3>1, <3>2, <3>3 DEF History, ServedWith, Answered
  <2>3. \A d \in Clients \ {c} : call'[d] = call[d] /\ pc'[d] = pc[d]
    BY <1>a, <2>a
  <2>4. ASSUME NEW d \in Clients, d # c, pc'[d] \in {"take", "send"}
        PROVE  /\ call'[d] >= 1 /\ Unserved(d, call[d])'
               /\ \A i \in DOMAIN requests' :
                    requests'[i].client = d => requests'[i].call # call'[d]
               /\ Handling' /\ cur'.client = d => cur'.call # call'[d]
    BY <2>a, <2>3, <2>4 DEF Unsent, Unserved, Handling
  <2>5. /\ call'[c] = call[c] + 1 /\ call'[c] >= 1
        /\ Unserved(c, call[c])'
    BY <1>a, <1>e, <2>a DEF History, Unserved
  <2>6. \A i \in DOMAIN requests' :
          requests'[i].client = c => requests'[i].call # call'[c]
    BY <1>a, <1>c, <2>a, <2>5 DEF History, Fresh
  <2>7. Handling' /\ cur'.client = c => cur'.call # call'[c]
    <3>1. Handling => cur.call <= call[cur.client]
      BY <1>a, <1>d DEF Handling, History, Fresh, Answered, ServedWith
    <3> QED
      BY <1>a, <1>d, <2>a, <2>5, <3>1 DEF Handling
  <2>8. Unsent'
    BY <2>4, <2>5, <2>6, <2>7 DEF Unsent
  <2> QED
    BY <2>2, <2>8
<1>2. ASSUME NEW c \in Clients, SemaphoreTake(c)
      PROVE  History' /\ Unsent'
  BY <1>2, <1>a, QuietHistory DEF SemaphoreTake, Goto, taskVars, Answered
<1>3. ASSUME NEW c \in Clients, SemaphoreTimeout(c)
      PROVE  History' /\ Unsent'
  BY <1>3, <1>a, QuietHistory DEF SemaphoreTimeout, Return, Goto, ipcVars,
     taskVars, Answered
<1>4. ASSUME NEW c \in Clients, SendRequest(c)
      PROVE  History' /\ Unsent'
  <2>1. CASE Len(requests) < QueueItems
    <3> DEFINE n == Len(requests) + 1
    <3>a. /\ requests' = Append(requests, Request(c)) /\ pc[c] = "send"
          /\ pc' = [pc EXCEPT ![c] = "set"]
          /\ UNCHANGED <<call, got, responses, fpc, cur, answer, served>>
      BY <1>4, <2>1 DEF SendRequest, Goto, taskVars
    <3>b. Request(c) \in RequestType /\ Request(c).client = c /\ Request(c).call = call[c]
      BY <3>a DEF TypeOK, Request, RequestType
    <3>c. /\ DOMAIN requests' = DOMAIN requests \cup {n}
          /\ \A i \in DOMAIN requests : requests'[i] = requests[i]
          /\ requests'[n] = Request(c)
      <4> HIDE DEF RequestType, Request
      <4> QED
        BY <3>a, <3>b, <1>b, AppendItem
    <3>d. Fresh(Request(c))
      BY <1>a, <3>a, <3>b DEF Fresh, Unsent
    <3> HIDE DEF n
    <3>e. \A i \in DOMAIN requests' : Fresh(requests'[i])
      BY <3>c, <3>d DEF History
    <3>f. pc'[c] = "set" /\ \A d \in Clients \ {c} : pc'[d] = pc[d]
      BY <1>a, <3>a
    <3>1. History'
      BY <3>a, <3>e, <3>f DEF History, Fresh, Unserved, ServedWith, Answered
    <3>2. Unsent'
      BY <3>a, <3>b, <3>c, <3>f DEF Unsent, Unserved, Handling
    <3> QED
      BY <3>1, <3>2
  <2>2. CASE ~(Len(requests) < QueueItems)
    BY <1>4, <2>2, <1>a, QuietHistory DEF SendRequest, Return, Goto, taskVars,
       Answered
  <2> QED
    BY <2>1, <2>2
<1>5. ASSUME NEW c \in Clients, SetEvent(c)
      PROVE  History' /\ Unsent'
  BY <1>5, <1>a, QuietHistory DEF SetEvent, Goto, taskVars, Answered
<1>6. ASSUME NEW c \in Clients, ReceiveResponse(c)
      PROVE  History' /\ Unsent'
  <2> DEFINE k == CoreOf[c]
  <2>a. /\ pc[c] = "recv" /\ pc' = [pc EXCEPT ![c] = "give"]
        /\ responses[k] # <<>>
        /\ got' = [got EXCEPT ![c] = Head(responses[k])]
        /\ responses' = [responses EXCEPT ![k] = Tail(@)]
        /\ UNCHANGED <<call, requests, fpc, cur, answer, served>>
    BY <1>6 DEF ReceiveResponse, Goto, taskVars
  <2>b. Head(responses[k]) = responses[k][1] /\ Tail(responses[k]) = <<>>
    <3>1. responses[k] \in Seq(ResponseType) /\ Len(responses[k]) <= 1
      BY DEF TypeOK
    <3> QED
      BY <2>a, <3>1, OneItem
  <2>c. /\ \A l \in Cores : responses'[l] # <<>> => responses'[l] = responses[l]
        /\ \A d \in Clients : d # c => pc'[d] = pc[d] /\ got'[d] = got[d]
        /\ pc'[c] = "give" /\ got'[c] = responses[k][1]
    BY <1>a, <2>a, <2>b
  <2>d. UNCHANGED <<call, requests, fpc, cur, answer, served>> /\ responses[k] # <<>>
    BY <2>a
  <2> HIDE DEF k
  <2>1. History'
    <3>1. \A d \in Clients : pc'[d] = "give" =>
            ServedWith(got'[d].client, got'[d].call, got'[d].status)
      BY <2>c, <2>d DEF History, k
    <3>2. \A l \in Cores : responses'[l] # <<>> =>
            ServedWith(responses[l][1].client, responses[l][1].call,
                       responses[l][1].status)'
      BY <2>c, <2>d DEF History, ServedWith
    <3>3. /\ \A i \in DOMAIN requests' : Fresh(requests[i])'
          /\ fpc' \in {"size", "clear", "process"} => Fresh(cur)'
          /\ Answered' => ServedWith(cur.client, cur.call, answer)'
      BY <2>d DEF History, Fresh, Unserved, ServedWith, Answered
    <3> QED
      BY <3>1, <3>2, <3>3, <2>d DEF History, ServedWith
  <2>2. Unsent'
    BY <2>c, <2>d DEF Unsent, Unserved, Handling
  <2> QED
    BY <2>1, <2>2
<1>7. ASSUME NEW c \in Clients, ReceiveTimeout(c)
      PROVE  History' /\ Unsent'
  BY <1>7, <1>a, QuietHistory DEF ReceiveTimeout, Goto, ipcVars, taskVars,
     Answered
<1>8. ASSUME NEW c \in Clients, SetTimeoutEvent(c)
      PROVE  History' /\ Unsent'
  BY <1>8, <1>a, QuietHistory DEF SetTimeoutEvent, Return, Goto, taskVars,
     Answered
<1>9. ASSUME NEW c \in Clients, GiveAndReturn(c)
      PROVE  History' /\ Unsent'
  BY <1>9, <1>a, QuietHistory DEF GiveAndReturn, Return, Goto, taskVars, Answered
<1>10. CASE BackgroundCopyStart
  BY <1>10, <1>a, QuietHistory DEF BackgroundCopyStart, clientVars, taskVars,
     Answered
<1>11. CASE WdtNotify
  BY <1>11, <1>a, QuietHistory DEF WdtNotify, clientVars, taskVars, Answered
<1>12. CASE WakeForRequest
  BY <1>12, <1>a, QuietHistory DEF WakeForRequest, clientVars, Answered
<1>13. CASE StartCopy
  BY <1>13, <1>a, QuietHistory DEF StartCopy, clientVars, taskVars, Answered
<1>14. CASE CopyNext
  BY <1>14, <1>a, QuietHistory DEF CopyNext, clientVars, taskVars, Answered
<1>15. CASE WakeForNothing
  BY <1>15, <1>a, QuietHistory DEF WakeForNothing, clientVars, taskVars, Answered
<1>16. CASE TakeRequest
  <2>a. /\ requests # <<>> /\ ~Handling /\ fpc' = "size"
        /\ cur' = Head(requests) /\ requests' = Tail(requests)
        /\ UNCHANGED <<pc, call, got, responses, served>>
    BY <1>16 DEF TakeRequest, Handling, clientVars
  <2>b. /\ 1 \in DOMAIN requests /\ cur' = requests[1]
        /\ \A i \in DOMAIN requests' : /\ i + 1 \in DOMAIN requests
                                       /\ requests'[i] = requests[i + 1]
    <3> HIDE DEF RequestType
    <3> QED
      BY <2>a, <1>b, OneItem
  <2>c. UNCHANGED <<pc, call, got, responses, served>> /\ fpc' = "size"
    BY <2>a
  <2>1. History'
    <3>1. Fresh(cur') /\ \A i \in DOMAIN requests' : Fresh(requests'[i])
      BY <2>b DEF History
    <3> QED
      BY <3>1, <2>c DEF History, Fresh, Unserved, ServedWith, Answered
  <2>2. Unsent'
    BY <2>b, <2>c DEF Unsent, Unserved
  <2> QED
    BY <2>1, <2>2
<1>17. CASE CheckQueueSize
  BY <1>17, QuietHistory DEF CheckQueueSize, clientVars, ipcVars, Answered
<1>18. CASE ClearEvent
  BY <1>18, QuietHistory DEF ClearEvent, clientVars, Answered
<1>19. CASE Process
  <2> DEFINE c == cur.client
             done == [call |-> cur.call, status |-> answer']
  <2>a. /\ fpc = "process" /\ fpc' = "respond" /\ Handling
        /\ served' = [served EXCEPT ![c] = @ \cup {done}]
        /\ UNCHANGED <<pc, call, got, requests, responses, cur>>
    BY <1>19 DEF Process, Handling, clientVars, ipcVars
  <2>b. /\ c \in Clients /\ Fresh(cur) /\ done.call = cur.call /\ CurCore = CoreOf[c]
    BY <2>a, <1>d DEF History, CurCore
  <2>c. /\ served'[c] = served[c] \cup {done}
        /\ \A d \in Clients \ {c} : served'[d] = served[d]
    BY <1>a, <2>a, <2>b
  <2>d. UNCHANGED <<pc, call, got, requests, responses, cur>> /\ fpc' = "respond"
    BY <2>a
  <2> HIDE DEF c, done
  <2>e. \A d \in Clients : \A n, st : ServedWith(d, n, st) => ServedWith(d, n, st)'
    BY <2>c DEF ServedWith
  <2>1. \A d \in Clients : \A x \in served'[d] : x.call <= call'[d]
    BY <2>b, <2>c, <2>d, <1>a DEF History, Fresh, c
  <2>2. \A i \in DOMAIN requests' : Fresh(requests[i])'
    <3>1. \A i \in DOMAIN requests : requests[i].client # c
      BY <1>c, <2>a, <2>b DEF Safe, OnePerCore
    <3> QED
      BY <1>c, <2>c, <2>d, <3>1 DEF History, Fresh, Unserved
  <2>3. ServedWith(cur.client, cur.call, answer)'
    BY <2>c, <2>d DEF ServedWith, c, done
  <2>4. \A k \in Cores : responses'[k] # <<>> =>
          ServedWith(responses[k][1].client, responses[k][1].call,
                     responses[k][1].status)'
    <3>1. \A k \in Cores : responses[k] # <<>> => responses[k][1].client \in Clients
      <4>1. ASSUME NEW k \in Cores, responses[k] # <<>>
            PROVE  responses[k][1] \in ResponseType
        <5>1. responses[k] \in Seq(ResponseType)
          BY DEF TypeOK
        <5> QED
          BY <4>1, <5>1, OneItem
      <4> QED
        BY <4>1 DEF ResponseType
    <3> QED
      BY <2>d, <2>e, <3>1 DEF History
  <2>5. \A d \in Clients : pc'[d] = "give" =>
          ServedWith(got[d].client, got[d].call, got[d].status)'
    <3>1. \A d \in Clients : pc[d] = "give" => got[d].client \in Clients
      BY DEF Safe, AnswersOwnCall
    <3> QED
      BY <2>d, <2>e, <3>1 DEF History
  <2>6. History'
    BY <2>1, <2>2, <2>3, <2>4, <2>5, <2>d DEF History
  <2>7. Unsent'
    <3>1. \A d \in Clients : pc[d] \in {"take", "send"} => Unserved(d, call[d])'
      BY <2>a, <2>b, <2>c, <2>d DEF Unsent, Unserved, c
    <3> QED
      BY <2>a, <2>d, <3>1 DEF Unsent, Handling
  <2> QED
    BY <2>6, <2>7
<1>20. CASE DropResponse
  BY <1>20, QuietHistory DEF DropResponse, Done, clientVars, Answered
<1>21. CASE SeeNoTimeout
  BY <1>21, QuietHistory DEF SeeNoTimeout, clientVars, ipcVars, Answered
<1>22. CASE PostResponse
  <2>a. /\ Handling /\ Answered /\ fpc' = "wait"
        /\ responses' = IF responses[CurCore] = <<>>
             THEN [responses EXCEPT ![CurCore] = <<Response(cur, answer)>>]
             ELSE responses
        /\ UNCHANGED <<pc, call, got, requests, served>>
    BY <1>22 DEF PostResponse, Done, Handling, Answered, clientVars
  <2>b. \A k \in Cores : responses'[k] # <<>> =>
          responses'[k] = responses[k] \/ responses'[k][1] = Response(cur, answer)
    BY <1>a, <1>d, <2>a
  <2>c. UNCHANGED <<pc, call, got, requests, served>> /\ fpc' = "wait"
    BY <2>a
  <2>1. \A k \in Cores : responses'[k] # <<>> =>
          ServedWith(responses'[k][1].client, responses'[k][1].call,
                     responses'[k][1].status)
    BY <2>a, <2>b DEF History, Response
  <2>2. History'
    BY <2>1, <2>c DEF History, Fresh, Unserved, ServedWith, Answered
  <2>3. Unsent'
    BY <2>c DEF Unsent, Unserved, Handling
  <2> QED
    BY <2>2, <2>3
<1>23. CASE UNCHANGED vars
  BY <1>23, QuietHistory DEF vars, clientVars, ipcVars, taskVars, Answered
<1> QED
  BY <1>1, <1>2, <1>3, <1>4, <1>5, <1>6, <1>7, <1>8, <1>9, <1>10, <1>11, <1>12,
     <1>13, <1>14, <1>15, <1>16, <1>17, <1>18, <1>19, <1>20, <1>21, <1>22, <1>23
     DEF Next, Client, Service
(* The clients inside request(): the refinement mapping of Rpc's "open".   *)
InCall == {c \in Clients : pc[c] # "idle"}

LEMMA RpcInit == Init => Rpc!Init
  BY DEF Init, Rpc!Init

(* A step that neither opens nor closes a call and executes nothing.       *)
LEMMA RpcStutter ==
  ASSUME UNCHANGED <<call, served, result>>, InCall' = InCall
  PROVE  UNCHANGED Rpc!vars
  BY DEF InCall, Rpc!vars

(* A call that request() gives up on.                                      *)
LEMMA RpcRefuse ==
  ASSUME TypeOK, NEW c \in Clients, NEW status \in {"Timeout", "Busy"},
         pc[c] # "idle", Return(c, status), UNCHANGED <<call, served>>
  PROVE  Rpc!Next
<1>1. InCall' = InCall \ {c} /\ c \in InCall
  BY DEF InCall, Return, Goto, TypeOK
<1>2. Rpc!Return(c, status)
  BY <1>1 DEF Rpc!Return, InCall, Return
<1> QED
  BY <1>2 DEF Rpc!Next, Rpc!Refuse

LEMMA Simulates ==
  TypeOK /\ Safe /\ History /\ Unsent /\ [Next]_vars => [Rpc!Next]_(Rpc!vars)
<1> SUFFICES ASSUME TypeOK, Safe, History, Unsent, [Next]_vars
             PROVE  Rpc!Next \/ UNCHANGED Rpc!vars
  OBVIOUS
<1> USE FlashConstants
<1>a. /\ pc \in [Clients -> {"idle", "take", "send", "set", "recv", "timedout",
                           "give"}]
      /\ call \in [Clients -> 0 .. MaxCalls]
  BY DEF TypeOK
<1>1. ASSUME NEW c \in Clients, NEW t \in Kinds, Call(c, t)
      PROVE  Rpc!Next
  <2>1. InCall' = InCall \cup {c} /\ c \notin InCall
    BY <1>1, <1>a DEF Call, Goto, InCall
  <2>2. Rpc!Call(c)
    BY <1>1, <2>1 DEF Rpc!Call, Call, InCall, None
  <2> QED
    BY <2>2 DEF Rpc!Next
<1>2. ASSUME NEW c \in Clients, SemaphoreTake(c)
      PROVE  UNCHANGED Rpc!vars
  <2>1. InCall' = InCall
    BY <1>2, <1>a DEF SemaphoreTake, Goto, InCall
  <2> QED
    BY <1>2, <2>1, RpcStutter DEF SemaphoreTake
<1>3. ASSUME NEW c \in Clients, SemaphoreTimeout(c)
      PROVE  Rpc!Next
  BY <1>3, RpcRefuse DEF SemaphoreTimeout
<1>4. ASSUME NEW c \in Clients, SendRequest(c)
      PROVE  Rpc!Next \/ UNCHANGED Rpc!vars
  <2>1. CASE Len(requests) < QueueItems
    <3>1. InCall' = InCall
      BY <1>4, <2>1, <1>a DEF SendRequest, Goto, InCall
    <3> QED
      BY <1>4, <2>1, <3>1, RpcStutter DEF SendRequest
  <2>2. CASE ~(Len(requests) < QueueItems)
    BY <1>4, <2>2, RpcRefuse DEF SendRequest
  <2> QED
    BY <2>1, <2>2
<1>5. ASSUME NEW c \in Clients, SetEvent(c)
      PROVE  UNCHANGED Rpc!vars
  <2>1. InCall' = InCall
    BY <1>5, <1>a DEF SetEvent, Goto, InCall
  <2> QED
    BY <1>5, <2>1, RpcStutter DEF SetEvent
<1>6. ASSUME NEW c \in Clients, ReceiveResponse(c)
      PROVE  UNCHANGED Rpc!vars
  <2>1. InCall' = InCall
    BY <1>6, <1>a DEF ReceiveResponse, Goto, InCall
  <2> QED
    BY <1>6, <2>1, RpcStutter DEF ReceiveResponse
<1>7. ASSUME NEW c \in Clients, ReceiveTimeout(c)
      PROVE  UNCHANGED Rpc!vars
  <2>1. InCall' = InCall
    BY <1>7, <1>a DEF ReceiveTimeout, Goto, InCall
  <2> QED
    BY <1>7, <2>1, RpcStutter DEF ReceiveTimeout
<1>8. ASSUME NEW c \in Clients, SetTimeoutEvent(c)
      PROVE  Rpc!Next
  BY <1>8, RpcRefuse DEF SetTimeoutEvent
<1>9. ASSUME NEW c \in Clients, GiveAndReturn(c)
      PROVE  Rpc!Next
  <2> DEFINE d == [call |-> got[c].call, status |-> got[c].status]
  <2>1. InCall' = InCall \ {c} /\ c \in InCall
    BY <1>9, <1>a DEF GiveAndReturn, Return, Goto, InCall
  <2>2. d \in served[c] /\ d.call = call[c]
    BY <1>9 DEF GiveAndReturn, History, ServedWith, Safe, AnswersOwnCall
  <2>3. Rpc!Return(c, d.status)
    BY <1>9, <2>1 DEF Rpc!Return, GiveAndReturn, Return, InCall
  <2> HIDE DEF d
  <2>4. Rpc!Answer(c)
    BY <2>2, <2>3 DEF Rpc!Answer, Rpc!Return
  <2> QED
    BY <2>4 DEF Rpc!Next
<1>10. ASSUME \/ BackgroundCopyStart \/ WdtNotify \/ WakeForRequest \/ StartCopy
              \/ CopyNext \/ WakeForNothing \/ TakeRequest \/ CheckQueueSize
              \/ ClearEvent \/ DropResponse \/ SeeNoTimeout \/ PostResponse
              \/ UNCHANGED vars
       PROVE  UNCHANGED Rpc!vars
  <2>1. UNCHANGED <<pc, call, served, result>>
    BY <1>10 DEF BackgroundCopyStart, WdtNotify, WakeForRequest, StartCopy, CopyNext,
       WakeForNothing, TakeRequest, CheckQueueSize, ClearEvent, DropResponse,
       SeeNoTimeout, PostResponse, vars, clientVars
  <2> QED
    BY <2>1, RpcStutter DEF InCall
<1>11. CASE Process
  <2>1. cur \in RequestType /\ cur.client \in Clients
    BY <1>11 DEF Process, TypeOK, Handling, RequestType
  <2>2. Fresh(cur)
    BY <1>11 DEF Process, History
  <2>3. answer' \in Answers
    BY <1>11 DEF Process, Outcome, Answers, CopyStatuses, TypeOK
  <2>4. UNCHANGED <<pc, call, result>>
    BY <1>11 DEF Process, clientVars
  <2>5. InCall' = InCall
    BY <2>4 DEF InCall
  <2>6. Rpc!Serve(cur.client, cur.call)
    BY <1>11, <2>2, <2>3, <2>4, <2>5 DEF Rpc!Serve, Process, Fresh, Unserved, InCall
  <2>7. cur.call \in 1 .. MaxCalls
    BY <1>a, <2>1, <2>2 DEF Fresh
  <2> QED
    BY <2>1, <2>6, <2>7 DEF Rpc!Next
<1> QED
  BY <1>1, <1>2, <1>3, <1>4, <1>5, <1>6, <1>7, <1>8, <1>9, <1>10, <1>11
     DEF Next, Client, Service

(* The service, with its queues, bits, semaphores and timeouts, is an      *)
(* implementation of the remote call: at most one execution of a call, and *)
(* no answer but that execution's status.                                  *)
THEOREM RpcRefined == Spec => RpcRefinement
<1>1. Init => TypeOK /\ Safe /\ History /\ Unsent
  BY TypeInit, SafeInit, HistoryInit
<1>2. TypeOK /\ Safe /\ History /\ Unsent /\ [Next]_vars
        => TypeOK' /\ Safe' /\ History' /\ Unsent'
  BY TypeStep, SafeStep, HistoryStep
<1> QED
  BY <1>1, <1>2, RpcInit, Simulates, PTL DEF Spec, RpcRefinement, Rpc!Spec
=============================================================================
