----------------------------- MODULE LogDownload ----------------------------
(***************************************************************************)
(* The download session of nv::logger::Logger, next to the log it reads.   *)
(* A client first asks with the session SessionMax: it gets a session      *)
(* number and a header with the number of entries.  Each further request   *)
(* of that session gets one phrase of the log, then of the fault log, then *)
(* of the performance monitor, which is stopped meanwhile.  Entries come   *)
(* from a page read ahead; between two requests the log goes on.           *)
(***************************************************************************)
EXTENDS LogStore

CONSTANTS SessionMax,    (* LogSessionMax                                   *)
          PageEntries,   (* entries in a page                               *)
          FaultParts,    (* phrases of a record of the fault log            *)
          PerfSize,      (* what there is of the performance monitor        *)
          UserMode,      (* the mode the performance monitor is used in     *)
          MaxSessions    (* bound on sessions started                       *)

ASSUME DownloadConstants ==
    /\ SessionMax \in Nat \ {0}
    /\ PageEntries \in Nat \ {0}
    /\ PerSector % PageEntries = 0
    /\ FaultParts \in Nat \ {0}
    /\ PerfSize \in Nat
    /\ UserMode \in {"Auto", "Accumulate", "Disable"}
    /\ MaxSessions \in Nat

VARIABLES dl,        (* _download_session                                   *)
          mode,      (* the mode of the performance monitor                 *)
          saved,     (* perf_mon_original_mode                              *)
          moved,     (* entries were dropped since the session started      *)
          paired,    (* each stop of the monitor met one end of a session   *)
          sessions

dlVars   == <<dl, mode, saved, moved, paired, sessions>>
allVars  == <<logVars, dlVars>>

NoPage == [n \in 0 .. PageEntries - 1 |-> Erased]
PageBefore(i) == [n \in 0 .. PageEntries - 1 |-> entry[(Before(i) + n) % Size]]
Page(i) == [n \in 0 .. PageEntries - 1 |-> entry[(i + n) % Size]]
NoSession == [state |-> "Start", session |-> SessionMax, ptr |-> 0, tail |-> 0,
              size |-> 0, fatal |-> 0, chunk |-> 0, page |-> NoPage]

DownloadInit ==
    /\ Init
    /\ dl = NoSession
    /\ mode = UserMode /\ saved = "Auto"
    /\ moved = FALSE /\ paired = TRUE
    /\ sessions = 0

(* A request is the first thing of a round of the task's loop.             *)
Ask ==
    /\ pc = "Loop"
    /\ batch = Batch
    /\ batch' = batch - 1
    /\ UNCHANGED <<inFlash, pointers, pc, caller, resume, history, losses, cleans>>

(* A page is read ahead if one is needed; a failure marks an error.        *)
ReadAhead(needed, ok) ==
    /\ IF ok THEN Works ELSE needed /\ Fails
    /\ flag' = (flag \/ ~ok)

ToFatal(d, ok) == [d EXCEPT !.state = IF ok THEN "Fatal" ELSE "End",
                            !.ptr = 0, !.chunk = 0, !.page = NoPage]
ToPerf(d) == [d EXCEPT !.state = "Perf", !.ptr = 0, !.chunk = 0]
StopUnsaved == UNCHANGED saved /\ mode' = "Disable"
StopMonitor == saved' = mode /\ mode' = "Disable"
Fetched(d)  == [d EXCEPT !.ptr = @ + 1, !.chunk = @ + 1]
PageDone(d) == d.chunk >= PageEntries

-----------------------------------------------------------------------------
(* In every state, a request without a session starts a new one.           *)
StartDownload ==
    /\ Ask
    /\ sessions < MaxSessions
    /\ sessions' = sessions + 1
    /\ \E ok \in BOOLEAN :
        /\ ReadAhead(TRUE, ok)
        /\ dl' = [state |-> IF ok THEN "Event" ELSE "End",
                  session |-> (dl.session + 1) % SessionMax,
                  ptr |-> head, tail |-> tail, size |-> Distance(head, tail),
                  fatal |-> faults, chunk |-> 0,
                  page |-> IF ok THEN Page(head) ELSE dl.page]
    /\ moved' = FALSE
    /\ paired' = (paired /\ mode # "Disable")
    /\ UNCHANGED <<mode, saved>>

RefuseRequest ==
    /\ Ask
    /\ \E s \in 0 .. SessionMax - 1 : dl.state = "Start" \/ s # dl.session
    /\ UNCHANGED <<flag, failures, dl, mode, saved, moved, paired, sessions>>

(* One entry of the log; after the last one, the fault log is next.        *)
FetchEntry ==
    /\ Ask
    /\ dl.state = "Event"
    /\ dl.size # 0
    /\ LET next == [dl EXCEPT !.ptr = After(@), !.chunk = @ + 1]
           last == next.ptr = dl.tail
       IN \E ok \in BOOLEAN :
            /\ ReadAhead(last \/ PageDone(next), ok)
            /\ dl' = IF last THEN ToFatal(next, ok)
                     ELSE IF ~PageDone(next) THEN next
                     ELSE IF ok THEN [next EXCEPT !.chunk = 0, !.page = Page(next.ptr)]
                     ELSE [next EXCEPT !.chunk = 0, !.state = "End"]
    /\ UNCHANGED <<mode, saved, moved, paired, sessions>>

(* A phrase of the fault log, or none if it is empty, in the session d.    *)
FetchFault(d, ok) ==
    IF d.fatal = 0 \/ Fetched(d).ptr = d.fatal * FaultParts
    THEN dl' = ToPerf(d) /\ StopMonitor
    ELSE /\ dl' = IF ~PageDone(Fetched(d)) THEN Fetched(d)
                  ELSE [Fetched(d) EXCEPT !.chunk = 0,
                                          !.state = IF ok THEN @ ELSE "End"]
         /\ UNCHANGED <<mode, saved>>

FetchFatal ==
    /\ Ask
    /\ dl.state = "Fatal"
    /\ \E ok \in BOOLEAN :
        /\ ReadAhead(/\ dl.fatal * FaultParts \notin {0, dl.ptr + 1}
                     /\ PageDone(Fetched(dl)), ok)
        /\ FetchFault(dl, ok)
    /\ UNCHANGED <<moved, paired, sessions>>

(* An empty log answers with the fault log at once.                        *)
FetchNoEntry ==
    /\ Ask
    /\ dl.state = "Event"
    /\ dl.size = 0
    /\ \E ok \in BOOLEAN :
        /\ ReadAhead(TRUE, ok)
        /\ FetchFault(ToFatal(dl, ok), TRUE)
    /\ UNCHANGED <<moved, paired, sessions>>

FetchPerf ==
    /\ Ask
    /\ dl.state = "Perf"
    /\ dl' = IF PerfSize = 0 \/ Fetched(dl).ptr = PerfSize
             THEN [dl EXCEPT !.state = "End"]
             ELSE [Fetched(dl) EXCEPT !.chunk = IF PageDone(Fetched(dl)) THEN 0 ELSE @]
    /\ UNCHANGED <<flag, failures, mode, saved, moved, paired, sessions>>

EndDownload ==
    /\ Ask
    /\ dl.state = "End"
    /\ mode' = saved
    /\ saved' = "Auto"
    /\ paired' = (paired /\ mode = "Disable")
    /\ UNCHANGED <<flag, failures, dl, moved, sessions>>

(* The log goes on: a store may drop the oldest sector, clean() all.       *)
LogGoesOn ==
    /\ LogStep
    /\ moved' = (moved \/ (/\ dl.state = "Event"
                           /\ \/ head' # head
                              \/ caller' = "Clean" /\ pc' = "EraseMeta"))
    /\ UNCHANGED <<dl, mode, saved, paired, sessions>>

Reset ==
    /\ PowerLoss
    /\ dl' = NoSession
    /\ mode' = UserMode /\ saved' = "Auto"
    /\ moved' = FALSE /\ paired' = TRUE
    /\ UNCHANGED sessions

DownloadNext ==
    \/ LogGoesOn \/ Reset
    \/ StartDownload \/ RefuseRequest
    \/ FetchEntry \/ FetchNoEntry \/ FetchFatal \/ FetchPerf \/ EndDownload

DownloadSpec == DownloadInit /\ [][DownloadNext]_allVars

-----------------------------------------------------------------------------
DownloadTypeOK ==
    /\ TypeOK
    /\ dl \in [state : {"Start", "Event", "Fatal", "Perf", "End"},
               session : 0 .. SessionMax, ptr : Nat, tail : Indices,
               size : 0 .. Size - 1, fatal : 0 .. FaultEntries,
               chunk : 0 .. PageEntries,
               page : [0 .. PageEntries - 1 -> Foreign .. MaxStores]]
    /\ mode \in {"Auto", "Accumulate", "Disable"}
    /\ saved \in {"Auto", "Accumulate", "Disable"}
    /\ moved \in BOOLEAN /\ paired \in BOOLEAN
    /\ sessions \in 0 .. MaxSessions

(* While no entry has been dropped since the session started, the entry    *)
(* sent next is one of the log, and the page read ahead is not stale: it   *)
(* is what flash holds at that place, whatever was stored meanwhile.       *)
SendsTheLog ==
    (dl.state = "Event" /\ dl.size # 0 /\ ~moved) =>
        /\ dl.ptr \in Window(head, tail)
        /\ dl.page[dl.chunk] = entry[dl.ptr]

(* The end of a session puts the performance monitor back into the mode    *)
(* the session found it in, if sessions are neither abandoned nor ended    *)
(* twice while it is stopped.                                              *)
MonitorResumes == [][(EndDownload /\ paired') => mode' = UserMode]_allVars
=============================================================================
