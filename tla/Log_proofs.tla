----------------------------- MODULE Log_proofs -----------------------------
(***************************************************************************)
(* The log and its download session for any sizes of the ring, the         *)
(* metadata sector and the pages and any number of stores, failures and    *)
(* losses of power: the pointers a restart would find, the slots that are  *)
(* programmed, and the mode of the performance monitor.                    *)
(***************************************************************************)
EXTENDS LogDownload, TLAPS

(* The ring has more entries than a sector.                                *)
LEMMA SizePositive ==
  /\ Size \in Nat /\ Size > PerSector /\ PerSector \in Nat \ {0}
  /\ Indices = 0 .. Size - 1 /\ 0 \in Indices
<1>1. Sectors * PerSector >= 2 * PerSector /\ Sectors * PerSector \in Nat
  <2> DEFINE s == Sectors
             p == PerSector
  <2>1. s \in Nat /\ p \in Nat /\ p >= 1 /\ s >= 2
    BY LogConstants
  <2>2. s * p = (s - 2) * p + 2 * p
    BY <2>1
  <2>3. (s - 2) * p >= 0 /\ (s - 2) * p \in Nat
    BY <2>1
  <2> QED
    BY <2>1, <2>2, <2>3
<1> QED
  BY <1>1, LogConstants DEF Size, Indices

LEMMA RingSteps ==
  ASSUME NEW i \in Indices
  PROVE  After(i) \in Indices /\ Before(i) \in Indices /\ Skip(i) \in Indices
  BY SizePositive DEF After, Before, Skip

(* A sector that was erased holds entries as before.                       *)
LEMMA ErasedSector ==
  ASSUME entry \in [Indices -> Foreign .. MaxStores], NEW i
  PROVE  EraseSector(i) \in [Indices -> Foreign .. MaxStores]
  BY LogConstants DEF EraseSector, Erased, Foreign

-----------------------------------------------------------------------------
(* The log's step, with the requests of a download between its steps.      *)
Request == /\ UNCHANGED <<inFlash, pointers, pc, caller, resume, history, losses,
                         cleans>>
           /\ pc = "Loop"
           /\ batch = Batch /\ batch' = batch - 1
           /\ \/ UNCHANGED <<flag, failures>>
              \/ failures < MaxFailures /\ failures' = failures + 1 /\ flag' = TRUE

LogOrRequest == Next \/ Request \/ UNCHANGED logVars

LEMMA DownloadSteps ==
  ASSUME TypeOK, [DownloadNext]_allVars
  PROVE  LogOrRequest
<1> USE DEF LogOrRequest, inFlash, pointers, history
<1>1. CASE LogGoesOn
  BY <1>1 DEF LogGoesOn, Next
<1>2. CASE Reset
  BY <1>2 DEF Reset, Next
<1>3. CASE StartDownload
  BY <1>3 DEF StartDownload, Request, Ask, ReadAhead, Works, Fails, TypeOK
<1>4. CASE RefuseRequest
  BY <1>4 DEF RefuseRequest, Request, Ask
<1>5. CASE FetchEntry
  BY <1>5 DEF FetchEntry, Request, Ask, ReadAhead, Works, Fails, TypeOK
<1>6. CASE FetchNoEntry
  BY <1>6 DEF FetchNoEntry, Request, Ask, ReadAhead, Works, Fails, TypeOK
<1>7. CASE FetchFatal
  BY <1>7 DEF FetchFatal, Request, Ask, ReadAhead, Works, Fails, TypeOK
<1>8. CASE FetchPerf
  BY <1>8 DEF FetchPerf, Request, Ask
<1>9. CASE EndDownload
  BY <1>9 DEF EndDownload, Request, Ask
<1>10. CASE UNCHANGED allVars
  BY <1>10 DEF allVars
<1> QED
  BY <1>1, <1>2, <1>3, <1>4, <1>5, <1>6, <1>7, <1>8, <1>9, <1>10 DEF DownloadNext

-----------------------------------------------------------------------------
(* Slots and pointers. *)

(* The valid slots have a last one; the slot to be written next comes after *)
(* it, or is the first of a sector about to be erased.                      *)
Ordered ==
    /\ ValidSlots # {} => \E s \in ValidSlots : \A t \in ValidSlots : t <= s
    /\ pc # "Load" /\ index # 0 => \A s \in ValidSlots : s < index
    /\ pc = "WriteMeta" /\ index = 0 => ValidSlots = {}

LEMMA LastIsValid ==
  ASSUME TypeOK, Ordered, ValidSlots # {}
  PROVE  /\ LastSlot \in ValidSlots /\ LastSlot \in Slots
         /\ slot[LastSlot] \in Pointers
         /\ \A t \in ValidSlots : t <= LastSlot
<1>1. LastSlot \in ValidSlots /\ \A t \in ValidSlots : t <= LastSlot
  BY DEF Ordered, LastSlot
<1> QED
  BY <1>1 DEF ValidSlots, TypeOK

(* Where update_metadata() returns to.                                     *)
LEMMA Returns ==
  /\ UpdateDone["Store"] = "WriteEntry" /\ UpdateFailed["Store"] = "Loop"
  /\ UpdateDone["Clean"] = "EraseZero" /\ UpdateFailed["Clean"] = "EraseZero"
  /\ UpdateDone["Load"] = "Init" /\ UpdateFailed["Load"] = "Init"
<1>1. DOMAIN UpdateDone = {"Store", "Clean", "Load"}
  BY DEF UpdateDone
<1> QED
  BY <1>1 DEF UpdateDone, UpdateFailed

(* Types. *)

LEMMA TypeInit == Init => TypeOK
<1> SUFFICES ASSUME Init PROVE TypeOK
  OBVIOUS
<1> USE LogConstants, SizePositive DEF Init
<1>1. slot \in [Slots -> Pointers \cup {NoPtr}] /\ entry \in [Indices -> Foreign .. MaxStores]
  BY DEF Foreign
<1>2. index \in Slots /\ head \in Indices /\ tail \in Indices
  BY DEF Slots
<1>3. /\ faults \in 0 .. FaultEntries /\ batch \in 0 .. Batch
      /\ stored \in 0 .. MaxStores /\ losses \in 0 .. MaxLosses
      /\ failures \in 0 .. MaxFailures /\ cleans \in 0 .. MaxCleans
  OBVIOUS
<1>4. flag \in BOOLEAN /\ torn \in BOOLEAN /\ ignored \in BOOLEAN
  OBVIOUS
<1> QED
  BY <1>1, <1>2, <1>3, <1>4 DEF TypeOK

LEMMA TypeStep == TypeOK /\ Ordered /\ LogOrRequest => TypeOK'
<1> SUFFICES ASSUME TypeOK, Ordered, LogOrRequest
             PROVE  TypeOK'
  OBVIOUS
<1> USE LogConstants, SizePositive DEF TypeOK
<1>a. \A i \in Slots : NextSlot(i) \in Slots
  BY DEF Slots, NextSlot
<1>b. \A i \in Indices : After(i) \in Indices /\ Before(i) \in Indices /\ Skip(i) \in Indices
  BY RingSteps
<1>c. \A i : EraseSector(i) \in [Indices -> Foreign .. MaxStores]
  BY ErasedSector
<1>d. stored \in Foreign .. MaxStores
  BY DEF Foreign
<1>e. 0 \in Slots /\ 0 \in Indices
  BY DEF Slots
<1> USE DEF inFlash, pointers, history, bounds, control, Works, Fails
<1>1. CASE LoadPointers
  <2>1. slot[LastSlot] \in Pointers /\ LastSlot \in Slots
    BY <1>1, LastIsValid DEF LoadPointers
  <2>2. slot[LastSlot].head \in Indices /\ slot[LastSlot].tail \in Indices
    BY <2>1 DEF Pointers
  <2> QED
    BY <1>1, <1>a, <2>1, <2>2 DEF LoadPointers
<1>2. CASE LoadNothing
  BY <1>2, <1>e DEF LoadNothing
<1>3. CASE LoadFails
  BY <1>3, <1>e DEF LoadFails, Clean
<1>4. CASE EraseFirst
  <2>1. entry' \in [Indices -> Foreign .. MaxStores]
    BY <1>4, <1>c DEF EraseFirst
  <2>2. ignored' \in BOOLEAN
    BY <1>4 DEF EraseFirst
  <2> QED
    BY <1>4, <1>c, <2>1, <2>2 DEF EraseFirst
<1>5. CASE KeepFirst
  BY <1>5 DEF KeepFirst
<1>6. CASE ReadTail
  BY <1>6 DEF ReadTail
<1>7. CASE ReadTailFails
  BY <1>7, <1>e DEF ReadTailFails, Clean
<1>8. CASE EraseMeta
  BY <1>8 DEF EraseMeta
<1>9. CASE EraseMetaFails
  <2>1. flag' \in BOOLEAN /\ ignored' \in BOOLEAN
    BY <1>9 DEF EraseMetaFails, UpdateFailed, UpdateDone
  <2>2. pc' \in {"Loop", "EraseZero", "Init"}
    BY <1>9, Returns DEF EraseMetaFails
  <2>3. /\ failures' \in 0 .. MaxFailures
        /\ UNCHANGED <<inFlash, pointers, caller, resume, batch, stored, torn,
                       losses, cleans>>
    BY <1>9 DEF EraseMetaFails
  <2> QED
    BY <2>1, <2>2, <2>3
<1>10. CASE WriteMeta
  BY <1>10, <1>a DEF WriteMeta, UpdateDone, Pointers
<1>11. CASE WriteMetaFails
  <2>1. flag' \in BOOLEAN /\ ignored' \in BOOLEAN
    BY <1>11 DEF WriteMetaFails, UpdateFailed, UpdateDone
  <2>2. index' \in Slots
    BY <1>11, <1>a DEF WriteMetaFails, UpdateFailed, UpdateDone
  <2>3. pc' \in {"Loop", "EraseZero", "Init"}
    BY <1>11, Returns DEF WriteMetaFails
  <2>4. failures' \in 0 .. MaxFailures
    BY <1>11 DEF WriteMetaFails
  <2>5. UNCHANGED <<inFlash, head, tail, caller, resume, batch, stored, torn,
                   losses, cleans>>
    BY <1>11 DEF WriteMetaFails
  <2> QED
    BY <2>1, <2>2, <2>3, <2>4, <2>5
<1>12. CASE Store
  <2>1. tail' \in Indices /\ head' \in Indices
    BY <1>12, <1>b DEF Store, Update
  <2>2. stored' \in 0 .. MaxStores /\ batch' \in 0 .. Batch
    BY <1>12 DEF Store, Update
  <2> QED
    BY <1>12, <1>b, <2>1, <2>2 DEF Store, Update
<1>13. CASE WriteEntry
  BY <1>13, <1>b, <1>d DEF WriteEntry
<1>14. CASE WriteEntryFails
  BY <1>14 DEF WriteEntryFails
<1>15. CASE EraseNext
  <2>1. entry' \in [Indices -> Foreign .. MaxStores]
    BY <1>15, <1>c DEF EraseNext
  <2>2. flag' \in BOOLEAN
    BY <1>15 DEF EraseNext
  <2> QED
    BY <1>15, <1>c, <2>1, <2>2 DEF EraseNext
<1>16. CASE EraseZero
  <2>1. entry' \in [Indices -> Foreign .. MaxStores]
    BY <1>16, <1>c DEF EraseZero
  <2>2. ignored' \in BOOLEAN
    BY <1>16 DEF EraseZero
  <2> QED
    BY <1>16, <1>c, <2>1, <2>2 DEF EraseZero
<1>17. CASE EraseFaults
  BY <1>17 DEF EraseFaults
<1>18. CASE AddFault
  <2>1. flag' \in BOOLEAN
    BY <1>18 DEF AddFault
  <2>2. faults' \in 0 .. FaultEntries /\ failures' \in 0 .. MaxFailures
    BY <1>18 DEF AddFault
  <2> QED
    BY <1>18, <2>1, <2>2 DEF AddFault
<1>19. CASE CleanRequest
  BY <1>19, <1>e DEF CleanRequest, Clean
<1>20. CASE NextRound
  BY <1>20 DEF NextRound
<1>21. CASE HandleError
  BY <1>21, <1>e DEF HandleError, Clean
<1>22. CASE PowerLoss
  <2>1. torn' \in BOOLEAN
    BY <1>22 DEF PowerLoss
  <2>2. index' \in Slots /\ head' \in Indices /\ tail' \in Indices
    BY <1>22, <1>e DEF PowerLoss
  <2>3. flag' \in BOOLEAN /\ ignored' \in BOOLEAN
    BY <1>22 DEF PowerLoss
  <2>4. pc' = "Load" /\ caller' = "Load" /\ resume' = "Loop"
    BY <1>22 DEF PowerLoss
  <2>5. /\ batch' \in 0 .. Batch /\ losses' \in 0 .. MaxLosses
        /\ UNCHANGED <<inFlash, stored, failures, cleans>>
    BY <1>22 DEF PowerLoss
  <2> QED
    BY <2>1, <2>2, <2>3, <2>4, <2>5
<1>23. CASE Request
  <2>1. flag' \in BOOLEAN
    BY <1>23 DEF Request
  <2>2. failures' \in 0 .. MaxFailures /\ batch' \in 0 .. Batch
    BY <1>23 DEF Request
  <2> QED
    BY <1>23, <2>1, <2>2 DEF Request
<1>24. CASE UNCHANGED logVars
  BY <1>24 DEF logVars
<1> QED
  BY <1>1, <1>2, <1>3, <1>4, <1>5, <1>6, <1>7, <1>8, <1>9, <1>10, <1>11, <1>12, <1>13, <1>14, <1>15, <1>16, <1>17, <1>18, <1>19, <1>20, <1>21, <1>22, <1>23, <1>24 DEF LogOrRequest, Next, LogStep

(* A slot just written is the last valid one.                              *)
LEMMA WrittenIsLast ==
  ASSUME TypeOK, Ordered, WriteMeta
  PROVE  /\ ValidSlots' = ValidSlots \cup {index}
         /\ \A t \in ValidSlots : t < index
         /\ Found' = [head |-> head, tail |-> tail]'
<1> DEFINE here == [head |-> head, tail |-> tail]
<1>1. /\ pc = "WriteMeta" /\ slot[index] = NoPtr /\ slot' = [slot EXCEPT ![index] = here]
      /\ UNCHANGED <<head, tail>> /\ index \in Slots
      /\ slot \in [Slots -> Pointers \cup {NoPtr}]
  BY DEF WriteMeta, TypeOK
<1>2. here # NoPtr
  <2>1. head \in Indices /\ head # -1
    BY SizePositive DEF TypeOK
  <2> QED
    BY <2>1 DEF NoPtr
<1>3. ValidSlots' = ValidSlots \cup {index} /\ slot'[index] = here
  BY <1>1, <1>2 DEF ValidSlots
<1>4. \A t \in ValidSlots : t < index
  BY <1>1 DEF Ordered
<1>5. \A s \in Slots : s \in Int
  BY LogConstants DEF Slots
<1>6. LastSlot' = index
  <2>1. index \in ValidSlots' /\ \A t \in ValidSlots' : t <= index
    BY <1>1, <1>3, <1>4, <1>5 DEF ValidSlots
  <2>2. \A s \in ValidSlots' : (\A t \in ValidSlots' : t <= s) => s = index
    BY <1>1, <1>3, <1>4, <1>5, <2>1 DEF ValidSlots
  <2> QED
    BY <2>1, <2>2 DEF LastSlot
<1> QED
  BY <1>1, <1>3, <1>4, <1>6 DEF Found

LEMMA OrderedInit == Init => Ordered
  BY DEF Init, Ordered, ValidSlots

LEMMA OrderedStep == TypeOK /\ Ordered /\ LogOrRequest => Ordered'
<1> SUFFICES ASSUME TypeOK, Ordered, LogOrRequest
             PROVE  Ordered'
  OBVIOUS
<1> USE DEF inFlash, pointers, control, history, bounds
<1>a. (\A s \in Slots : s \in Int) /\ ValidSlots \subseteq Slots /\ MetaSlots \in Nat \ {0}
      /\ \A s \in Slots : 0 <= s /\ s < MetaSlots
  BY LogConstants DEF Slots, ValidSlots
<1>b. index \in Slots /\ index \in Int
  BY <1>a DEF TypeOK
<1>c. ASSUME UNCHANGED slot, index' = 0 \/ pc' = "Load" \/ (UNCHANGED index /\ pc # "Load"),
             pc' = "WriteMeta" => index' # 0
      PROVE  Ordered'
  BY <1>c DEF Ordered, ValidSlots
<1>1. CASE LoadPointers
  <2>1. /\ ValidSlots # {} /\ UNCHANGED slot /\ index' = NextSlot(LastSlot)
        /\ pc' = "Init"
    BY <1>1 DEF LoadPointers
  <2>2. ValidSlots' = ValidSlots
    BY <2>1 DEF ValidSlots
  <2>3. \A s \in ValidSlots : index' # 0 => s < index'
    BY <1>a, <2>1, LastIsValid DEF NextSlot
  <2> QED
    BY <2>1, <2>2, <2>3 DEF Ordered
<1>2. CASE LoadNothing
  BY <1>2, <1>c DEF LoadNothing
<1>3. CASE LoadFails
  BY <1>3, <1>c DEF LoadFails, Clean
<1>4. CASE EraseFirst
  BY <1>4, <1>c DEF EraseFirst
<1>5. CASE KeepFirst
  BY <1>5, <1>c DEF KeepFirst
<1>6. CASE ReadTail
  BY <1>6, <1>c DEF ReadTail
<1>7. CASE ReadTailFails
  BY <1>7, <1>c DEF ReadTailFails, Clean
<1>8. CASE EraseMeta
  <2>1. ValidSlots' = {}
    BY <1>8 DEF EraseMeta, ValidSlots
  <2> QED
    BY <2>1 DEF Ordered
<1>9. CASE EraseMetaFails
  <2>1. pc' # "WriteMeta" /\ pc # "Load"
    BY <1>9, Returns DEF EraseMetaFails, TypeOK
  <2> QED
    BY <1>9, <1>c, <2>1 DEF EraseMetaFails
<1>10. CASE WriteMeta
  <2>1. /\ ValidSlots' = ValidSlots \cup {index}
        /\ \A t \in ValidSlots : t < index
    BY <1>10, WrittenIsLast
  <2>2. index' = NextSlot(index) /\ pc' # "WriteMeta"
    BY <1>10, Returns DEF WriteMeta, TypeOK
  <2>3. \A s \in ValidSlots' : index' # 0 => s < index'
    BY <1>a, <1>b, <2>1, <2>2 DEF NextSlot
  <2>4. \A t \in ValidSlots' : t <= index
    BY <1>a, <1>b, <2>1
  <2> QED
    BY <2>1, <2>2, <2>3, <2>4 DEF Ordered
<1>11. CASE WriteMetaFails
  <2>1. /\ index' = NextSlot(index) /\ pc' # "WriteMeta" /\ UNCHANGED slot
        /\ pc = "WriteMeta"
    BY <1>11, Returns DEF WriteMetaFails, TypeOK
  <2>2. ValidSlots' = ValidSlots /\ \A s \in ValidSlots : s < index
    BY <2>1 DEF ValidSlots, Ordered
  <2>3. \A s \in ValidSlots : index' # 0 => s < index'
    BY <1>a, <1>b, <2>1, <2>2 DEF NextSlot
  <2> QED
    BY <2>1, <2>2, <2>3 DEF Ordered
<1>12. CASE Store
  BY <1>12, <1>c DEF Store, Update
<1>13. CASE WriteEntry
  BY <1>13, <1>c DEF WriteEntry
<1>14. CASE WriteEntryFails
  BY <1>14, <1>c DEF WriteEntryFails
<1>15. CASE EraseNext
  BY <1>15, <1>c DEF EraseNext
<1>16. CASE EraseZero
  BY <1>16, <1>c DEF EraseZero
<1>17. CASE EraseFaults
  BY <1>17, <1>c DEF EraseFaults
<1>18. CASE AddFault
  <2>1. pc' # "WriteMeta" /\ pc = "AddFault" /\ UNCHANGED <<slot, index>>
    BY <1>18 DEF AddFault, TypeOK
  <2> QED
    BY <1>c, <2>1
<1>19. CASE CleanRequest
  BY <1>19, <1>c DEF CleanRequest, Clean
<1>20. CASE NextRound
  BY <1>20, <1>c DEF NextRound
<1>21. CASE HandleError
  BY <1>21, <1>c DEF HandleError, Clean
<1>22. CASE PowerLoss
  BY <1>22, <1>c DEF PowerLoss
<1>23. CASE Request
  BY <1>23 DEF Request, Ordered, ValidSlots
<1>24. CASE UNCHANGED logVars
  BY <1>24 DEF logVars, Ordered, ValidSlots
<1> QED
  BY <1>1, <1>2, <1>3, <1>4, <1>5, <1>6, <1>7, <1>8, <1>9, <1>10, <1>11, <1>12,
     <1>13, <1>14, <1>15, <1>16, <1>17, <1>18, <1>19, <1>20, <1>21, <1>22, <1>23,
     <1>24 DEF LogOrRequest, Next, LogStep

-----------------------------------------------------------------------------
(* What a restart would find. *)

(* Unless an operation failed, the last valid slot holds the pointers in    *)
(* RAM from the update of the slots on; the handling of an error, which     *)
(* clears the flag at its end, leaves it so whatever had been marked.       *)
Current ==
    /\ /\ pc \in {"Init", "ReadTail", "Loop", "WriteEntry", "EraseNext"}
       /\ ~flag /\ ~ignored
       => Found = [head |-> head, tail |-> tail]
    /\ /\ pc \in {"EraseZero", "AddFault"}
       /\ ~ignored /\ (~flag \/ resume = "Handled")
       => Found = [head |-> head, tail |-> tail]
    /\ pc = "EraseMeta" /\ caller = "Load" =>
         ValidSlots = {} /\ head = 0 /\ tail = 0

LEMMA CurrentInit == Init => Current
  BY DEF Init, Current

LEMMA CurrentStep == TypeOK /\ Ordered /\ Current /\ LogOrRequest => Current'
<1> SUFFICES ASSUME TypeOK, Ordered, Current, LogOrRequest
             PROVE  Current'
  OBVIOUS
<1> USE DEF inFlash, pointers, control, history, bounds
<1>a. /\ flag \in BOOLEAN /\ ignored \in BOOLEAN
      /\ caller \in {"Store", "Clean", "Load"}
      /\ resume \in {"Init", "Loop", "Handled"}
  BY DEF TypeOK
<1>b. UNCHANGED slot => ValidSlots' = ValidSlots /\ Found' = Found
  BY DEF ValidSlots, LastSlot, Found
<1>1. CASE LoadPointers
  <2>1. slot[LastSlot] \in Pointers /\ ValidSlots # {}
    BY <1>1, LastIsValid DEF LoadPointers
  <2>2. Found = [head |-> slot[LastSlot].head, tail |-> slot[LastSlot].tail]
    BY <2>1 DEF Found, Pointers
  <2> QED
    BY <1>1, <1>b, <2>2 DEF LoadPointers, Current
<1>2. CASE LoadNothing
  BY <1>2, <1>b DEF LoadNothing, Current
<1>3. CASE LoadFails
  BY <1>3 DEF LoadFails, Clean, Current
<1>4. CASE EraseFirst
  BY <1>4, <1>a, <1>b DEF EraseFirst, Current
<1>5. CASE KeepFirst
  BY <1>5, <1>b DEF KeepFirst, Current
<1>6. CASE ReadTail
  BY <1>6, <1>b DEF ReadTail, Current
<1>7. CASE ReadTailFails
  BY <1>7 DEF ReadTailFails, Clean, Current
<1>8. CASE EraseMeta
  BY <1>8 DEF EraseMeta, Current
<1>9. CASE EraseMetaFails
  <2>1. /\ pc = "EraseMeta" /\ pc' = UpdateFailed[caller]
        /\ flag' = (flag \/ caller = "Store")
        /\ ignored' = (ignored \/ caller = "Clean")
        /\ UNCHANGED <<slot, head, tail>>
    BY <1>9 DEF EraseMetaFails
  <2>2. CASE caller = "Store"
    BY <2>1, <2>2, Returns DEF Current
  <2>3. CASE caller = "Clean"
    BY <2>1, <2>3, Returns DEF Current
  <2>4. CASE caller = "Load"
    <3>1. Found = [head |-> head, tail |-> tail] /\ pc' = "Init"
      BY <2>1, <2>4, Returns DEF Current, Found
    <3> QED
      BY <1>b, <2>1, <3>1 DEF Current
  <2> QED
    BY <1>a, <2>2, <2>3, <2>4
<1>10. CASE WriteMeta
  <2>1. Found' = [head |-> head, tail |-> tail]'
    BY <1>10, WrittenIsLast
  <2>2. pc' # "EraseMeta"
    BY <1>10, <1>a, Returns DEF WriteMeta
  <2> QED
    BY <2>1, <2>2 DEF Current
<1>11. CASE WriteMetaFails
  <2>1. /\ pc' = UpdateFailed[caller] /\ flag' = TRUE
        /\ caller = "Clean" /\ resume = "Handled" => ignored' = TRUE
        /\ UNCHANGED <<caller, resume>>
    BY <1>11 DEF WriteMetaFails
  <2>2. pc' \in {"EraseZero", "AddFault"} => caller = "Clean"
    BY <1>a, <2>1, Returns
  <2>3. pc' # "EraseMeta"
    BY <1>a, <2>1, Returns
  <2> QED
    BY <2>1, <2>2, <2>3 DEF Current
<1>12. CASE Store
  BY <1>12 DEF Store, Update, Current
<1>13. CASE WriteEntry
  BY <1>13, <1>b DEF WriteEntry, Current
<1>14. CASE WriteEntryFails
  BY <1>14, <1>b DEF WriteEntryFails, Current
<1>15. CASE EraseNext
  BY <1>15, <1>a, <1>b DEF EraseNext, Current
<1>16. CASE EraseZero
  BY <1>16, <1>a, <1>b DEF EraseZero, Current
<1>17. CASE EraseFaults
  BY <1>17, <1>b DEF EraseFaults, Current
<1>18. CASE AddFault
  <2>1. /\ pc = "AddFault" /\ UNCHANGED <<slot, head, tail, ignored, resume>>
        /\ IF resume = "Handled" THEN flag' = FALSE /\ pc' = "Loop"
           ELSE pc' = resume /\ UNCHANGED flag
    BY <1>18 DEF AddFault
  <2> QED
    BY <1>a, <1>b, <2>1 DEF Current
<1>19. CASE CleanRequest
  BY <1>19 DEF CleanRequest, Clean, Current
<1>20. CASE NextRound
  BY <1>20, <1>b DEF NextRound, Current
<1>21. CASE HandleError
  BY <1>21 DEF HandleError, Clean, Current
<1>22. CASE PowerLoss
  BY <1>22 DEF PowerLoss, Current
<1>23. CASE Request
  BY <1>23, <1>a, <1>b DEF Request, Current
<1>24. CASE UNCHANGED logVars
  BY <1>24, <1>b DEF logVars, Current
<1> QED
  BY <1>1, <1>2, <1>3, <1>4, <1>5, <1>6, <1>7, <1>8, <1>9, <1>10, <1>11, <1>12,
     <1>13, <1>14, <1>15, <1>16, <1>17, <1>18, <1>19, <1>20, <1>21, <1>22, <1>23,
     <1>24 DEF LogOrRequest, Next, LogStep

LEMMA LogAlways == DownloadSpec => [](TypeOK /\ Ordered /\ Current)
<1>1. DownloadInit => TypeOK /\ Ordered /\ Current
  BY TypeInit, OrderedInit, CurrentInit DEF DownloadInit
<1>2. TypeOK /\ Ordered /\ Current /\ [DownloadNext]_allVars
        => TypeOK' /\ Ordered' /\ Current'
  BY DownloadSteps, TypeStep, OrderedStep, CurrentStep
<1> QED
  BY <1>1, <1>2, PTL DEF DownloadSpec

LEMMA SlotsErased == TypeOK /\ Ordered => SlotIsErased
<1> SUFFICES ASSUME TypeOK, Ordered, pc = "WriteMeta", slot[index] # NoPtr
             PROVE  FALSE
  BY DEF SlotIsErased
<1>1. index \in ValidSlots /\ index \in Slots
  BY DEF TypeOK, ValidSlots
<1>2. index # 0 => index < index
  BY <1>1 DEF Ordered
<1>3. index \in Int
  BY <1>1, LogConstants DEF Slots
<1> QED
  BY <1>1, <1>2, <1>3 DEF Ordered

(* A slot is never programmed before it was erased, however often the      *)
(* slots wrap and whatever fails or loses power.                           *)
THEOREM SlotIsErasedAlways == DownloadSpec => []SlotIsErased
  BY SlotsErased, LogAlways, PTL

(* Between two requests a restart continues where the log stands, unless a *)
(* failure went unnoticed or waits to be handled.                          *)
THEOREM RestartContinuesAlways == DownloadSpec => []RestartContinues
<1>1. Current => RestartContinues
  BY DEF Current, RestartContinues
<1> QED
  BY <1>1, LogAlways, PTL

-----------------------------------------------------------------------------
(* The download session. *)

PageType == [0 .. PageEntries - 1 -> Foreign .. MaxStores]
DlType   == [state : {"Start", "Event", "Fatal", "Perf", "End"},
             session : 0 .. SessionMax, ptr : Nat, tail : Indices,
             size : 0 .. Size - 1, fatal : 0 .. FaultEntries,
             chunk : 0 .. PageEntries, page : PageType]
Modes    == {"Auto", "Accumulate", "Disable"}

LEMMA DlTypeIs ==
  DownloadTypeOK <=> /\ TypeOK /\ dl \in DlType
                     /\ mode \in Modes /\ saved \in Modes
                     /\ moved \in BOOLEAN /\ paired \in BOOLEAN
                     /\ sessions \in 0 .. MaxSessions
  BY DEF DownloadTypeOK, DlType, PageType, Modes

(* A page holds entries, wherever in the ring it begins.                   *)
LEMMA PageTyped ==
  ASSUME TypeOK, NEW i \in Nat
  PROVE  Page(i) \in PageType
<1> USE SizePositive, DownloadConstants
<1>1. \A n \in 0 .. PageEntries - 1 : (i + n) % Size \in Indices
  OBVIOUS
<1>2. entry \in [Indices -> Foreign .. MaxStores]
  BY DEF TypeOK
<1> QED
  BY <1>1, <1>2 DEF Page, PageType

LEMMA NoPageTyped == NoPage \in PageType
  BY LogConstants DEF NoPage, PageType, Erased, Foreign

(* A field of a session that is given a value of its type.                 *)
LEMMA StateTyped ==
  ASSUME NEW d \in DlType, NEW v \in {"Start", "Event", "Fatal", "Perf", "End"}
  PROVE  [d EXCEPT !.state = v] \in DlType
  BY DEF DlType

LEMMA PtrTyped ==
  ASSUME NEW d \in DlType, NEW v \in Nat
  PROVE  [d EXCEPT !.ptr = v] \in DlType
  BY DEF DlType

LEMMA ChunkTyped ==
  ASSUME NEW d \in DlType, NEW v \in 0 .. PageEntries
  PROVE  [d EXCEPT !.chunk = v] \in DlType
  BY DEF DlType

LEMMA PageFieldTyped ==
  ASSUME NEW d \in DlType, NEW v \in PageType
  PROVE  [d EXCEPT !.page = v] \in DlType
  BY DEF DlType

(* The requests of a client keep the session's type.                       *)
LEMMA FetchTyped ==
  ASSUME NEW d \in DlType, NEW ok \in BOOLEAN
  PROVE  /\ ToFatal(d, ok) \in DlType /\ ToPerf(d) \in DlType
         /\ [Fetched(d) EXCEPT !.chunk = 0] \in DlType
         /\ ~PageDone(Fetched(d)) => Fetched(d) \in DlType
<1>0. d.ptr \in Nat /\ d.chunk \in 0 .. PageEntries /\ PageEntries \in Nat
  BY DownloadConstants DEF DlType
<1> DEFINE p == [d EXCEPT !.ptr = d.ptr + 1]
           z == [d EXCEPT !.ptr = 0]
           c == [z EXCEPT !.chunk = 0]
           g == [c EXCEPT !.page = NoPage]
<1>1. p \in DlType /\ z \in DlType
  <2>1. d.ptr + 1 \in Nat /\ 0 \in Nat
    BY <1>0
  <2> QED
    BY <2>1, PtrTyped
<1>2. c \in DlType
  <2> HIDE DEF z
  <2> QED
    BY <1>0, <1>1, ChunkTyped
<1>3. g \in DlType
  <2> HIDE DEF c
  <2> QED
    BY <1>2, NoPageTyped, PageFieldTyped
<1>4. ToFatal(d, ok) \in DlType
  <2>1. ToFatal(d, ok) = [g EXCEPT !.state = IF ok THEN "Fatal" ELSE "End"]
    BY DEF ToFatal, DlType
  <2> HIDE DEF g
  <2> QED
    BY <1>3, <2>1, StateTyped
<1>5. ToPerf(d) \in DlType
  <2>1. ToPerf(d) = [c EXCEPT !.state = "Perf"]
    BY DEF ToPerf, DlType
  <2> HIDE DEF c
  <2> QED
    BY <1>2, <2>1, StateTyped
<1>6. Fetched(d) = [p EXCEPT !.chunk = d.chunk + 1]
  BY DEF Fetched, DlType
<1>7. [Fetched(d) EXCEPT !.chunk = 0] = [p EXCEPT !.chunk = 0]
  BY DEF Fetched, DlType
<1>8. Fetched(d).chunk = d.chunk + 1
  BY DEF Fetched, DlType
<1> HIDE DEF p
<1>9. [Fetched(d) EXCEPT !.chunk = 0] \in DlType
  BY <1>0, <1>1, <1>7, ChunkTyped
<1>10. ~PageDone(Fetched(d)) => Fetched(d) \in DlType
  <2>1. ~PageDone(Fetched(d)) => d.chunk + 1 \in 0 .. PageEntries
    BY <1>0, <1>8 DEF PageDone
  <2> QED
    BY <1>1, <1>6, <2>1, ChunkTyped
<1> QED
  BY <1>4, <1>5, <1>9, <1>10

LEMMA DistanceTyped ==
  ASSUME NEW h \in Indices, NEW t \in Indices
  PROVE  Distance(h, t) \in 0 .. Size - 1
  BY SizePositive DEF Distance

LEMMA FaultTyped ==
  ASSUME NEW d \in DlType, NEW ok \in BOOLEAN, mode \in Modes, saved \in Modes,
         FetchFault(d, ok)
  PROVE  dl' \in DlType /\ mode' \in Modes /\ saved' \in Modes
<1>1. CASE d.fatal = 0 \/ Fetched(d).ptr = d.fatal * FaultParts
  BY <1>1, FetchTyped DEF FetchFault, StopMonitor, Modes
<1>2. CASE ~(d.fatal = 0 \/ Fetched(d).ptr = d.fatal * FaultParts)
  <2>1. CASE ~PageDone(Fetched(d))
    BY <1>2, <2>1, FetchTyped DEF FetchFault
  <2>2. CASE PageDone(Fetched(d))
    <3> DEFINE e == [Fetched(d) EXCEPT !.chunk = 0]
    <3>1. e \in DlType
      BY <2>2, FetchTyped
    <3>2. dl' = IF ok THEN e ELSE [e EXCEPT !.state = "End"]
      BY <1>2, <2>2 DEF FetchFault, Fetched, DlType
    <3>3. [e EXCEPT !.state = "End"] \in DlType
      BY <3>1 DEF DlType
    <3> QED
      BY <1>2, <3>1, <3>2, <3>3 DEF FetchFault
  <2> QED
    BY <2>1, <2>2
<1> QED
  BY <1>1, <1>2

(* While stops and ends of sessions have met in pairs, the monitor is in   *)
(* the user's mode unless a session has stopped it, and then that mode is  *)
(* saved.                                                                  *)
Watched ==
    paired =>
       /\ dl.state \in {"Start", "Event", "Fatal"} => mode = UserMode
       /\ dl.state # "Start" => UserMode # "Disable"
       /\ dl.state = "Perf" => mode = "Disable" /\ saved = UserMode
       /\ dl.state = "End" =>
            IF mode = "Disable" THEN saved = UserMode ELSE mode = UserMode

DlFine == /\ dl \in DlType /\ mode \in Modes /\ saved \in Modes
          /\ moved \in BOOLEAN /\ paired \in BOOLEAN
          /\ sessions \in 0 .. MaxSessions

LEMMA SessionInit == DownloadInit => DlFine /\ Watched
<1> SUFFICES ASSUME DownloadInit PROVE DlFine /\ Watched
  OBVIOUS
<1>1. NoSession \in DlType
  BY NoPageTyped, SizePositive, DownloadConstants, LogConstants
     DEF NoSession, DlType
<1>2. /\ dl = NoSession /\ mode = UserMode /\ saved = "Auto"
      /\ moved = FALSE /\ paired = TRUE /\ sessions = 0
  BY DEF DownloadInit
<1>3. sessions \in 0 .. MaxSessions
  BY <1>2, DownloadConstants
<1>4. DlFine
  BY <1>1, <1>2, <1>3, DownloadConstants DEF DlFine, Modes
<1>5. dl.state = "Start"
  BY <1>2 DEF NoSession
<1> QED
  BY <1>2, <1>4, <1>5 DEF Watched

(* What a request does to the state of the session.                        *)
LEMMA StateSteps ==
  ASSUME NEW d \in DlType, NEW ok \in BOOLEAN
  PROVE  /\ ToFatal(d, ok).state \in {"Fatal", "End"}
         /\ ToPerf(d).state = "Perf"
         /\ Fetched(d).state = d.state
         /\ [Fetched(d) EXCEPT !.chunk = 0].state = d.state
         /\ [Fetched(d) EXCEPT !.chunk = 0, !.state = IF ok THEN @ ELSE "End"].state
               \in {d.state, "End"}
  BY DEF ToFatal, ToPerf, Fetched, DlType

LEMMA FaultWatched ==
  ASSUME NEW d \in DlType, NEW ok \in BOOLEAN, d.state \in {"Fatal", "End"},
         paired => mode = UserMode /\ UserMode # "Disable",
         FetchFault(d, ok), paired' = paired
  PROVE  Watched'
<1>1. CASE d.fatal = 0 \/ Fetched(d).ptr = d.fatal * FaultParts
  <2>1. dl'.state = "Perf" /\ saved' = mode /\ mode' = "Disable"
    BY <1>1, StateSteps DEF FetchFault, StopMonitor
  <2> QED
    BY <2>1 DEF Watched
<1>2. CASE ~(d.fatal = 0 \/ Fetched(d).ptr = d.fatal * FaultParts)
  <2>1. UNCHANGED <<mode, saved>>
    BY <1>2 DEF FetchFault
  <2>2. dl'.state \in {d.state, "End"}
    <3>1. CASE ~PageDone(Fetched(d))
      BY <1>2, <3>1, StateSteps DEF FetchFault
    <3>2. CASE PageDone(Fetched(d))
      BY <1>2, <3>2, StateSteps DEF FetchFault
    <3> QED
      BY <3>1, <3>2
  <2> QED
    BY <2>1, <2>2 DEF Watched
<1> QED
  BY <1>1, <1>2

LEMMA SessionStep ==
  TypeOK /\ DlFine /\ Watched /\ [DownloadNext]_allVars => DlFine' /\ Watched'
<1> SUFFICES ASSUME TypeOK, DlFine, Watched, [DownloadNext]_allVars
             PROVE  DlFine' /\ Watched'
  OBVIOUS
<1>a. /\ dl \in DlType /\ mode \in Modes /\ saved \in Modes
      /\ moved \in BOOLEAN /\ paired \in BOOLEAN
      /\ sessions \in 0 .. MaxSessions
  BY DEF DlFine
<1>b. /\ dl.ptr \in Nat /\ dl.chunk \in 0 .. PageEntries /\ PageEntries \in Nat
      /\ dl.page \in PageType /\ dl.session \in 0 .. SessionMax
  BY <1>a, DownloadConstants DEF DlType
<1>1. CASE LogGoesOn
  BY <1>1, <1>a DEF LogGoesOn, DlFine, Watched
<1>2. CASE Reset
  <2>1. NoSession \in DlType
    BY NoPageTyped, SizePositive, DownloadConstants, LogConstants
       DEF NoSession, DlType
  <2> QED
    BY <1>2, <1>a, <2>1, DownloadConstants DEF Reset, DlFine, Watched, NoSession, Modes
<1>3. CASE StartDownload
  <2>1. PICK ok \in BOOLEAN :
          dl' = [state |-> IF ok THEN "Event" ELSE "End",
                 session |-> (dl.session + 1) % SessionMax,
                 ptr |-> head, tail |-> tail, size |-> Distance(head, tail),
                 fatal |-> faults, chunk |-> 0,
                 page |-> IF ok THEN Page(head) ELSE dl.page]
    BY <1>3 DEF StartDownload
  <2>2. /\ head \in Nat /\ tail \in Indices /\ faults \in 0 .. FaultEntries
        /\ Distance(head, tail) \in 0 .. Size - 1
    <3>1. head \in Indices /\ tail \in Indices /\ faults \in 0 .. FaultEntries
      BY DEF TypeOK
    <3>2. head \in Nat
      BY <3>1, SizePositive
    <3> QED
      BY <3>1, <3>2, DistanceTyped
  <2>3. /\ (dl.session + 1) % SessionMax \in 0 .. SessionMax
        /\ 0 \in 0 .. PageEntries
    BY <1>b, DownloadConstants
  <2>4. (IF ok THEN Page(head) ELSE dl.page) \in PageType
    BY <1>b, <2>2, PageTyped
  <2>5. dl' \in DlType
    BY <2>1, <2>2, <2>3, <2>4 DEF DlType
  <2>6. dl'.state \in {"Event", "End"}
    BY <2>1
  <2>7. /\ sessions' = sessions + 1 /\ sessions < MaxSessions
        /\ moved' = FALSE /\ paired' = (paired /\ mode # "Disable")
        /\ UNCHANGED <<mode, saved>>
    BY <1>3 DEF StartDownload
  <2>8. DlFine'
    <3>1. sessions' \in 0 .. MaxSessions
      BY <1>a, <2>7, DownloadConstants
    <3>2. moved' \in BOOLEAN /\ paired' \in BOOLEAN
      BY <2>7
    <3> QED
      BY <1>a, <2>5, <2>7, <3>1, <3>2 DEF DlFine
  <2>9. Watched'
    <3>1. paired' => paired /\ mode # "Disable"
      BY <1>a, <2>7
    <3>2. paired' => mode = UserMode
      BY <1>a, <3>1 DEF Watched, DlType
    <3> QED
      BY <2>6, <2>7, <3>1, <3>2 DEF Watched
  <2> QED
    BY <2>8, <2>9
<1>4. CASE RefuseRequest
  BY <1>4, <1>a DEF RefuseRequest, DlFine, Watched
<1>5. CASE FetchEntry
  <2> DEFINE p == [dl EXCEPT !.ptr = After(dl.ptr)]
             next == [dl EXCEPT !.ptr = After(@), !.chunk = @ + 1]
             last == next.ptr = dl.tail
  <2>1. PICK ok \in BOOLEAN :
          dl' = IF last THEN ToFatal(next, ok)
                ELSE IF ~PageDone(next) THEN next
                ELSE IF ok THEN [next EXCEPT !.chunk = 0, !.page = Page(next.ptr)]
                ELSE [next EXCEPT !.chunk = 0, !.state = "End"]
    BY <1>5 DEF FetchEntry
  <2>2. After(dl.ptr) \in Nat
    BY <1>b DEF After
  <2>3. p \in DlType
    BY <1>a, <2>2, PtrTyped
  <2>4. UNCHANGED <<mode, saved, moved, paired, sessions>> /\ dl.state = "Event"
    BY <1>5 DEF FetchEntry
  <2>5. next = [p EXCEPT !.chunk = dl.chunk + 1] /\ next.chunk = dl.chunk + 1
        /\ next.state = dl.state /\ next.ptr = After(dl.ptr)
    BY <1>a DEF DlType
  <2>6. ToFatal(next, ok) = ToFatal(p, ok)
    BY <1>a, <2>5 DEF ToFatal, DlType
  <2>7. [next EXCEPT !.chunk = 0, !.page = Page(next.ptr)]
          = [[p EXCEPT !.chunk = 0] EXCEPT !.page = Page(next.ptr)]
    BY <1>a, <2>5 DEF DlType
  <2>8. [next EXCEPT !.chunk = 0, !.state = "End"]
          = [[p EXCEPT !.chunk = 0] EXCEPT !.state = "End"]
    BY <1>a, <2>5 DEF DlType
  <2>9. p.state = "Event"
    BY <1>a, <2>4 DEF DlType
  <2> HIDE DEF p, next
  <2>10. [p EXCEPT !.chunk = 0] \in DlType /\ [p EXCEPT !.chunk = 0].state = "Event"
    <3>1. 0 \in 0 .. PageEntries
      BY <1>b
    <3> QED
      BY <2>3, <2>9, <3>1, ChunkTyped DEF DlType
  <2>11. dl' \in DlType /\ dl'.state \in {"Event", "Fatal", "End"}
    <3>1. CASE last
      <4>1. dl' = ToFatal(p, ok)
        BY <2>1, <2>6, <3>1
      <4>2. ToFatal(p, ok) \in DlType
        BY <2>3, FetchTyped
      <4>3. ToFatal(p, ok).state \in {"Fatal", "End"}
        BY <2>3, StateSteps
      <4> QED
        BY <4>1, <4>2, <4>3
    <3>2. CASE ~last /\ ~PageDone(next)
      <4>1. dl' = next /\ next \in DlType
        <5>1. dl.chunk + 1 \in 0 .. PageEntries
          BY <1>b, <2>5, <3>2 DEF PageDone
        <5> QED
          BY <2>1, <2>3, <2>5, <3>2, <5>1, ChunkTyped
      <4> QED
        BY <2>4, <2>5, <4>1
    <3>3. CASE ~last /\ PageDone(next) /\ ok
      <4> DEFINE q == [p EXCEPT !.chunk = 0]
      <4>1. dl' = [q EXCEPT !.page = Page(next.ptr)]
        BY <2>1, <2>7, <3>3
      <4>2. q \in DlType /\ q.state = "Event" /\ Page(next.ptr) \in PageType
        BY <2>2, <2>5, <2>10, PageTyped
      <4> HIDE DEF q
      <4> QED
        BY <4>1, <4>2, PageFieldTyped DEF DlType
    <3>4. CASE ~last /\ PageDone(next) /\ ~ok
      <4> DEFINE q == [p EXCEPT !.chunk = 0]
      <4>1. dl' = [q EXCEPT !.state = "End"]
        BY <2>1, <2>8, <3>4
      <4>2. q \in DlType
        BY <2>10
      <4> HIDE DEF q
      <4> QED
        BY <4>1, <4>2, StateTyped DEF DlType
    <3> QED
      BY <3>1, <3>2, <3>3, <3>4
  <2> QED
    BY <1>a, <2>4, <2>11 DEF DlFine, Watched
<1>6. CASE FetchNoEntry
  <2>1. PICK ok \in BOOLEAN : FetchFault(ToFatal(dl, ok), TRUE)
    BY <1>6 DEF FetchNoEntry
  <2>2. /\ ToFatal(dl, ok) \in DlType
        /\ ToFatal(dl, ok).state \in {"Fatal", "End"}
    BY <1>a, FetchTyped, StateSteps
  <2>3. dl.state = "Event" /\ UNCHANGED <<moved, paired, sessions>>
    BY <1>6 DEF FetchNoEntry
  <2>4. paired => mode = UserMode /\ UserMode # "Disable"
    BY <2>3 DEF Watched
  <2>5. Watched'
    BY <2>1, <2>2, <2>3, <2>4, FaultWatched
  <2>6. dl' \in DlType /\ mode' \in Modes /\ saved' \in Modes
    BY <1>a, <2>1, <2>2, FaultTyped
  <2> QED
    BY <1>a, <2>3, <2>5, <2>6 DEF DlFine
<1>7. CASE FetchFatal
  <2>1. PICK ok \in BOOLEAN : FetchFault(dl, ok)
    BY <1>7 DEF FetchFatal
  <2>2. dl.state = "Fatal" /\ UNCHANGED <<moved, paired, sessions>>
    BY <1>7 DEF FetchFatal
  <2>3. paired => mode = UserMode /\ UserMode # "Disable"
    BY <2>2 DEF Watched
  <2>4. Watched'
    BY <1>a, <2>1, <2>2, <2>3, FaultWatched
  <2>5. dl' \in DlType /\ mode' \in Modes /\ saved' \in Modes
    BY <1>a, <2>1, FaultTyped
  <2> QED
    BY <1>a, <2>2, <2>4, <2>5 DEF DlFine
<1>8. CASE FetchPerf
  <2>1. dl.state = "Perf" /\ UNCHANGED <<mode, saved, moved, paired, sessions>>
    BY <1>8 DEF FetchPerf
  <2>2. dl' \in DlType /\ dl'.state \in {"Perf", "End"}
    <3>1. CASE PerfSize = 0 \/ Fetched(dl).ptr = PerfSize
      BY <1>8, <1>a, <3>1, StateTyped DEF FetchPerf, DlType
    <3>2. CASE ~(PerfSize = 0 \/ Fetched(dl).ptr = PerfSize) /\ PageDone(Fetched(dl))
      <4>1. dl' = [Fetched(dl) EXCEPT !.chunk = 0]
        BY <1>8, <3>2 DEF FetchPerf
      <4> QED
        BY <1>a, <2>1, <4>1, FetchTyped, StateSteps
    <3>3. CASE ~(PerfSize = 0 \/ Fetched(dl).ptr = PerfSize) /\ ~PageDone(Fetched(dl))
      <4>1. dl' = Fetched(dl)
        BY <1>8, <1>a, <3>3 DEF FetchPerf, Fetched, DlType
      <4> QED
        BY <1>a, <2>1, <3>3, <4>1, FetchTyped, StateSteps
    <3> QED
      BY <3>1, <3>2, <3>3
  <2> QED
    BY <1>a, <2>1, <2>2 DEF DlFine, Watched
<1>9. CASE EndDownload
  <2>1. /\ dl.state = "End" /\ mode' = saved /\ saved' = "Auto"
        /\ paired' = (paired /\ mode = "Disable")
        /\ UNCHANGED <<dl, moved, sessions>>
    BY <1>9 DEF EndDownload
  <2>2. DlFine'
    BY <1>a, <2>1 DEF DlFine, Modes
  <2>3. paired' => mode' = UserMode /\ UserMode # "Disable"
    BY <1>a, <2>1 DEF Watched
  <2> QED
    BY <2>1, <2>2, <2>3 DEF Watched
<1>10. CASE UNCHANGED allVars
  BY <1>10, <1>a DEF allVars, dlVars, DlFine, Watched
<1> QED
  BY <1>1, <1>2, <1>3, <1>4, <1>5, <1>6, <1>7, <1>8, <1>9, <1>10 DEF DownloadNext

LEMMA SessionAlways == DownloadSpec => [](TypeOK /\ DlFine /\ Watched)
<1>1. TypeOK /\ DlFine /\ Watched /\ [DownloadNext]_allVars => DlFine' /\ Watched'
  BY SessionStep
<1> QED
  BY <1>1, SessionInit, LogAlways, PTL DEF DownloadSpec

(* Log and session keep their types, for any sizes and bounds.             *)
THEOREM DownloadTypeCorrect == DownloadSpec => []DownloadTypeOK
<1>1. TypeOK /\ DlFine => DownloadTypeOK
  BY DlTypeIs DEF DlFine
<1> QED
  BY <1>1, SessionAlways, PTL

(* The end of a session puts the monitor back into the user's mode, for    *)
(* any number of sessions, requests in any order and losses of power.      *)
THEOREM MonitorResumesAlways == DownloadSpec => MonitorResumes
<1>1. DlFine /\ Watched /\ [DownloadNext]_allVars
        => [(EndDownload /\ paired') => mode' = UserMode]_allVars
  <2> SUFFICES ASSUME DlFine, Watched, EndDownload, paired'
               PROVE  mode' = UserMode
    OBVIOUS
  <2>1. dl.state = "End" /\ mode' = saved /\ paired' = (paired /\ mode = "Disable")
    BY DEF EndDownload
  <2> QED
    BY <2>1 DEF Watched, DlFine
<1> QED
  BY <1>1, SessionAlways, PTL DEF DownloadSpec, MonitorResumes
=============================================================================
