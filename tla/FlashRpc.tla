------------------------------ MODULE FlashRpc ------------------------------
(***************************************************************************)
(* What nv::flash::Task::request() promises to its callers, with nothing   *)
(* of how it is done: a call is executed at most once, an answer is only   *)
(* given to a call that was executed and is the status of that execution,  *)
(* and a call that is refused or timed out may still be executed later     *)
(* (the task finishes what it started).                                    *)
(***************************************************************************)
EXTENDS Naturals

CONSTANTS Clients,   (* the tasks that issue requests                      *)
          MaxCalls,  (* bound on the calls of one client                   *)
          Answers,   (* statuses the flash task answers with               *)
          Refusals   (* statuses request() makes up without an answer      *)

VARIABLES open,      (* the clients that are inside request()              *)
          call,      (* call[c]: number of the current or the last call    *)
          served,    (* served[c]: the calls executed, with their status   *)
          result     (* result[c]: what the last call returned             *)

vars == <<open, call, served, result>>

Init == /\ open   = {}
        /\ call   = [c \in Clients |-> 0]
        /\ served = [c \in Clients |-> {}]
        /\ result = [c \in Clients |-> "None"]

Call(c) == /\ c \notin open
           /\ call[c] < MaxCalls
           /\ open' = open \cup {c}
           /\ call' = [call EXCEPT ![c] = @ + 1]
           /\ result' = [result EXCEPT ![c] = "None"]
           /\ UNCHANGED served

Serve(c, n) == /\ n \in 1 .. call[c]
               /\ \A done \in served[c] : done.call # n
               /\ \E status \in Answers :
                    served' = [served EXCEPT ![c] =
                                 @ \cup {[call |-> n, status |-> status]}]
               /\ UNCHANGED <<open, call, result>>

Return(c, status) == /\ c \in open
                     /\ open'   = open \ {c}
                     /\ result' = [result EXCEPT ![c] = status]
                     /\ UNCHANGED <<call, served>>

Answer(c) == \E done \in served[c] : /\ done.call = call[c]
                                     /\ Return(c, done.status)

Refuse(c) == \E status \in Refusals : Return(c, status)

Next == \E c \in Clients : \/ Call(c)
                           \/ \E n \in 1 .. MaxCalls : Serve(c, n)
                           \/ Answer(c)
                           \/ Refuse(c)

Spec == Init /\ [][Next]_vars
=============================================================================
