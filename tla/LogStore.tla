------------------------------ MODULE LogStore ------------------------------
(***************************************************************************)
(* nv::logger::Logger: the ring of log entries in flash and the slots its  *)
(* pointers are kept in.  A store writes the new pointers to the next slot *)
(* of the metadata sector, erasing the sector when the slots are used up,  *)
(* then the entry, and erases the next sector of entries when the one it   *)
(* wrote to is full.  A boot takes the pointers of the last valid slot.    *)
(* Any operation may fail, and power may be lost between any two.          *)
(*                                                                         *)
(* A phrase is written or erased as a whole; an operation that fails       *)
(* changes nothing.  The log task runs alone, so its steps interleave with *)
(* a loss of power only.                                                   *)
(***************************************************************************)
EXTENDS Integers

CONSTANTS Sectors,      (* sectors of entries                               *)
          PerSector,    (* EntryNumInSector                                 *)
          MetaSlots,    (* LogMetaMaxIndex                                  *)
          FaultEntries, (* FaultEntryNum                                    *)
          Batch,        (* stores between two looks at the error flag       *)
          MaxStores,    (* bound on the entries stored                      *)
          MaxLosses,    (* bound on losses of power                         *)
          MaxFailures,  (* bound on flash operations that fail              *)
          MaxCleans     (* bound on requests to clean the log               *)

ASSUME LogConstants ==
    /\ Sectors \in Nat /\ Sectors > 1
    /\ PerSector \in Nat \ {0}
    /\ MetaSlots \in Nat \ {0}
    /\ FaultEntries \in Nat \ {0}
    /\ Batch \in Nat \ {0}
    /\ MaxStores \in Nat
    /\ MaxLosses \in Nat
    /\ MaxFailures \in Nat
    /\ MaxCleans \in Nat

Size    == Sectors * PerSector    (* EntryNumInFlash                        *)
Indices == 0 .. Size - 1
Slots   == 0 .. MetaSlots - 1

(* An entry is the number of the store that wrote it.                      *)
Erased  == 0
Foreign == -1                     (* what was in flash before the log       *)
Pointers == [head : Indices, tail : Indices]
NoPtr    == [head |-> -1, tail |-> -1]   (* its checksums do not match      *)

VARIABLES
    slot,      (* the metadata sector                                       *)
    entry,     (* the sectors of entries                                    *)
    faults,    (* entries in the fault sector                               *)
    index,     (* _buffer.index: the slot to write next                     *)
    head,      (* _buffer.ptr.head: the oldest entry                        *)
    tail,      (* _buffer.ptr.tail: where the next entry goes               *)
    flag,      (* log_event_flag: the log must be cleaned                   *)
    pc,        (* what the log task does next                               *)
    caller,    (* who called update_metadata()                              *)
    resume,    (* where clean() returns to                                  *)
    batch,     (* stores left in this round of the task's loop              *)
    stored,    (* stores begun                                              *)
    torn,      (* power was lost before a full sector's successor was erased *)
               (* or before a marked error was handled                      *)
    ignored,   (* an operation failed whose status nobody looked at         *)
    losses, failures, cleans

inFlash  == <<slot, entry, faults>>
pointers == <<index, head, tail>>
control  == <<pc, caller, resume, batch>>
history  == <<stored, torn, ignored>>
bounds   == <<losses, failures, cleans>>
logVars  == <<inFlash, pointers, flag, control, history, bounds>>

-----------------------------------------------------------------------------
AfterPastEnd(i) == i + 1
After(i)    == IF i + 1 = Size THEN 0 ELSE i + 1
Before(i)   == IF i # 0 THEN i - 1 ELSE Size - 1
SkipNone(i) == i
Skip(i)     == IF i + PerSector < Size THEN i + PerSector ELSE i + PerSector - Size
SectorOf(i) == {j \in Indices : j \div PerSector = i \div PerSector}
EraseSector(i) == [j \in Indices |-> IF j \in SectorOf(i) THEN Erased ELSE entry[j]]

(* The entries from h up to t, around the end of the ring.                 *)
Window(h, t) ==
    {i \in Indices : IF h <= t THEN h <= i /\ i < t ELSE h <= i \/ i < t}

Distance(h, t) == IF h <= t THEN t - h ELSE t + Size - h

ValidSlots == {s \in Slots : slot[s] # NoPtr}
FirstSlot  == CHOOSE s \in ValidSlots : \A t \in ValidSlots : s <= t
LastSlot   == CHOOSE s \in ValidSlots : \A t \in ValidSlots : t <= s
NextSlot(s) == IF s + 1 = MetaSlots THEN 0 ELSE s + 1

Fails == /\ failures < MaxFailures
         /\ failures' = failures + 1
Works == UNCHANGED failures

(* The first step of update_metadata().                                    *)
Update(i) == IF i = 0 THEN "EraseMeta" ELSE "WriteMeta"

Clean(then) ==
    /\ index' = 0
    /\ head' = 0
    /\ tail' = 0
    /\ caller' = "Clean"
    /\ resume' = then
    /\ pc' = "EraseMeta"

Init ==
    /\ slot = [s \in Slots |-> NoPtr]
    /\ entry = [i \in Indices |-> Foreign]
    /\ faults = 0
    /\ index = 0 /\ head = 0 /\ tail = 0
    /\ flag = FALSE
    /\ pc = "Load" /\ caller = "Load" /\ resume = "Loop" /\ batch = 0
    /\ stored = 0 /\ torn = FALSE /\ ignored = FALSE
    /\ losses = 0 /\ failures = 0 /\ cleans = 0

-----------------------------------------------------------------------------
(* Defect: a boot goes on at the slot it read, not after it.               *)
LoadPointersOfLast ==
    /\ pc = "Load"
    /\ ValidSlots # {}
    /\ Works
    /\ index' = LastSlot
    /\ head' = slot[LastSlot].head
    /\ tail' = slot[LastSlot].tail
    /\ pc' = "Init"
    /\ UNCHANGED <<inFlash, flag, caller, resume, batch, history, losses, cleans>>

(* Logger::init().  A metadata sector that cannot be read makes it clean.  *)
LoadPointers ==
    /\ pc = "Load"
    /\ ValidSlots # {}
    /\ Works
    /\ index' = NextSlot(LastSlot)
    /\ head' = slot[LastSlot].head
    /\ tail' = slot[LastSlot].tail
    /\ pc' = "Init"
    /\ UNCHANGED <<inFlash, flag, caller, resume, batch, history, losses, cleans>>

LoadNothing ==
    /\ pc = "Load"
    /\ ValidSlots = {}
    /\ Works
    /\ index' = 0 /\ head' = 0 /\ tail' = 0
    /\ caller' = "Load"
    /\ pc' = "EraseMeta"
    /\ UNCHANGED <<inFlash, flag, resume, batch, history, losses, cleans>>

LoadFails ==
    /\ pc = "Load"
    /\ Fails
    /\ Clean("Init")
    /\ UNCHANGED <<inFlash, flag, batch, history, losses, cleans>>

(* An empty log starts in an erased sector; a failure here goes unnoticed. *)
EraseFirst ==
    /\ pc = "Init"
    /\ head = 0 /\ tail = 0
    /\ \/ Works /\ entry' = EraseSector(0) /\ UNCHANGED ignored
       \/ Fails /\ ignored' = TRUE /\ UNCHANGED entry
    /\ pc' = "ReadTail"
    /\ UNCHANGED <<slot, faults, pointers, flag, caller, resume, batch,
                   stored, torn, losses, cleans>>

KeepFirst ==
    /\ pc = "Init"
    /\ head # 0 \/ tail # 0
    /\ pc' = "ReadTail"
    /\ UNCHANGED <<inFlash, pointers, flag, caller, resume, batch, history, bounds>>

ReadTail ==
    /\ pc = "ReadTail"
    /\ Works
    /\ pc' = "Loop"
    /\ UNCHANGED <<inFlash, pointers, flag, caller, resume, batch,
                   history, losses, cleans>>

ReadTailFails ==
    /\ pc = "ReadTail"
    /\ Fails
    /\ Clean("Loop")
    /\ UNCHANGED <<inFlash, flag, batch, history, losses, cleans>>

-----------------------------------------------------------------------------
(* Logger::update_metadata().  Only store() looks at its status, but a     *)
(* slot that cannot be written is marked as an error in any case.          *)
UpdateDone == [Store |-> "WriteEntry", Clean |-> "EraseZero", Load |-> "Init"]
UpdateFailed == [UpdateDone EXCEPT !.Store = "Loop"]

EraseMeta ==
    /\ pc = "EraseMeta"
    /\ Works
    /\ slot' = [s \in Slots |-> NoPtr]
    /\ pc' = "WriteMeta"
    /\ IF caller = "Store" THEN UNCHANGED <<torn, ignored>>
       ELSE torn' = FALSE /\ ignored' = FALSE
    /\ UNCHANGED <<entry, faults, pointers, flag, caller, resume, batch,
                   stored, losses, cleans>>

EraseMetaFails ==
    /\ pc = "EraseMeta"
    /\ Fails
    /\ pc' = UpdateFailed[caller]
    /\ flag' = (flag \/ caller = "Store")
    /\ ignored' = (ignored \/ caller = "Clean")
    /\ UNCHANGED <<inFlash, pointers, caller, resume, batch, stored, torn,
                   losses, cleans>>

WriteMeta ==
    /\ pc = "WriteMeta"
    /\ slot[index] = NoPtr
    /\ Works
    /\ slot' = [slot EXCEPT ![index] = [head |-> head, tail |-> tail]]
    /\ index' = NextSlot(index)
    /\ pc' = UpdateDone[caller]
    /\ UNCHANGED <<entry, faults, head, tail, flag, caller, resume, batch,
                   history, losses, cleans>>

(* Flash is programmed only where it is erased.                            *)
WriteMetaFails ==
    /\ pc = "WriteMeta"
    /\ IF slot[index] = NoPtr THEN Fails ELSE Works
    /\ index' = NextSlot(index)
    /\ flag' = TRUE
    /\ pc' = UpdateFailed[caller]
    /\ ignored' = (ignored \/ (caller = "Clean" /\ resume = "Handled"))
    /\ UNCHANGED <<inFlash, head, tail, caller, resume, batch, stored, torn,
                   losses, cleans>>

-----------------------------------------------------------------------------
(* Logger::store().                                                        *)
StoreTestsOldTail ==
    /\ pc = "Loop"
    /\ batch > 0
    /\ stored < MaxStores
    /\ stored' = stored + 1
    /\ batch' = batch - 1
    /\ tail' = After(tail)
    /\ head' = IF tail = head THEN Skip(head) ELSE head
    /\ caller' = "Store"
    /\ pc' = Update(index)
    /\ UNCHANGED <<inFlash, index, flag, resume, torn, ignored, bounds>>

StoreUpdatesPerSector ==
    /\ pc = "Loop"
    /\ batch > 0
    /\ stored < MaxStores
    /\ stored' = stored + 1
    /\ batch' = batch - 1
    /\ tail' = After(tail)
    /\ head' = IF tail' = head THEN Skip(head) ELSE head
    /\ caller' = "Store"
    /\ pc' = IF tail' % PerSector = 0 THEN Update(index) ELSE "WriteEntry"
    /\ UNCHANGED <<inFlash, index, flag, resume, torn, ignored, bounds>>

Store ==
    /\ pc = "Loop"
    /\ batch > 0
    /\ stored < MaxStores
    /\ stored' = stored + 1
    /\ batch' = batch - 1
    /\ tail' = After(tail)
    /\ head' = IF tail' = head THEN Skip(head) ELSE head
    /\ caller' = "Store"
    /\ pc' = Update(index)
    /\ UNCHANGED <<inFlash, index, flag, resume, torn, ignored, bounds>>

WriteEntryOnly ==
    /\ pc = "WriteEntry"
    /\ entry[Before(tail)] = Erased
    /\ Works
    /\ entry' = [entry EXCEPT ![Before(tail)] = stored]
    /\ pc' = "Loop"
    /\ UNCHANGED <<slot, faults, pointers, flag, caller, resume, batch,
                   history, losses, cleans>>

WriteEntry ==
    /\ pc = "WriteEntry"
    /\ entry[Before(tail)] = Erased
    /\ Works
    /\ entry' = [entry EXCEPT ![Before(tail)] = stored]
    /\ pc' = IF tail % PerSector = 0 THEN "EraseNext" ELSE "Loop"
    /\ UNCHANGED <<slot, faults, pointers, flag, caller, resume, batch,
                   history, losses, cleans>>

WriteEntryFails ==
    /\ pc = "WriteEntry"
    /\ IF entry[Before(tail)] = Erased THEN Fails ELSE Works
    /\ flag' = TRUE
    /\ pc' = "Loop"
    /\ UNCHANGED <<inFlash, pointers, caller, resume, batch, history,
                   losses, cleans>>

EraseFull ==
    /\ pc = "EraseNext"
    /\ \/ Works /\ entry' = EraseSector(Before(tail)) /\ UNCHANGED flag
       \/ Fails /\ flag' = TRUE /\ UNCHANGED entry
    /\ pc' = "Loop"
    /\ UNCHANGED <<slot, faults, pointers, caller, resume, batch, history,
                   losses, cleans>>

EraseNext ==
    /\ pc = "EraseNext"
    /\ \/ Works /\ entry' = EraseSector(tail) /\ UNCHANGED flag
       \/ Fails /\ flag' = TRUE /\ UNCHANGED entry
    /\ pc' = "Loop"
    /\ UNCHANGED <<slot, faults, pointers, caller, resume, batch, history,
                   losses, cleans>>

-----------------------------------------------------------------------------
(* The rest of Logger::clean(), after the metadata: the first sector and a *)
(* record in the fault log.                                                *)
EraseZero ==
    /\ pc = "EraseZero"
    /\ \/ Works /\ entry' = EraseSector(0) /\ UNCHANGED ignored
       \/ Fails /\ ignored' = TRUE /\ UNCHANGED entry
    /\ pc' = "AddFault"
    /\ UNCHANGED <<slot, faults, pointers, flag, caller, resume, batch,
                   stored, torn, losses, cleans>>

(* A fault sector that is full, or cannot be read, starts anew.            *)
EraseFaults ==
    /\ pc = "AddFault"
    /\ IF faults = FaultEntries THEN Works ELSE Fails
    /\ faults' = 0
    /\ UNCHANGED <<slot, entry, pointers, flag, control, history, losses, cleans>>

AddFault ==
    /\ pc = "AddFault"
    /\ \/ Works /\ faults < FaultEntries /\ faults' = faults + 1
       \/ Fails /\ UNCHANGED faults
    /\ IF resume = "Handled"   (* handle_error() clears the flag           *)
       THEN flag' = FALSE /\ batch' = Batch /\ pc' = "Loop"
       ELSE pc' = resume /\ UNCHANGED <<flag, batch>>
    /\ UNCHANGED <<slot, entry, pointers, caller, resume, history, losses, cleans>>

-----------------------------------------------------------------------------
(* The task's loop: a request, then an entry from an interrupt, then the   *)
(* errors that these have marked.                                          *)
CleanRequest ==
    /\ pc = "Loop"
    /\ batch = Batch
    /\ cleans < MaxCleans
    /\ cleans' = cleans + 1
    /\ batch' = batch - 1
    /\ Clean("Loop")
    /\ UNCHANGED <<inFlash, flag, history, losses, failures>>

NextRound ==
    /\ pc = "Loop"
    /\ ~flag
    /\ batch' = Batch
    /\ UNCHANGED <<inFlash, pointers, flag, pc, caller, resume, history, bounds>>

HandleError ==
    /\ pc = "Loop"
    /\ batch < Batch
    /\ flag
    /\ Clean("Handled")
    /\ UNCHANGED <<inFlash, flag, batch, history, bounds>>

(* What is in RAM is gone.                                                 *)
PowerLoss ==
    /\ pc # "Load"
    /\ losses < MaxLosses
    /\ losses' = losses + 1
    /\ index' = 0 /\ head' = 0 /\ tail' = 0
    /\ flag' = FALSE
    /\ pc' = "Load" /\ caller' = "Load" /\ resume' = "Loop" /\ batch' = 0
    /\ torn' = \/ torn
               \/ flag /\ ~(caller = "Clean" /\ pc # "EraseMeta")
               \/ pc \in {"WriteEntry", "EraseNext"} /\ tail % PerSector = 0
    /\ UNCHANGED <<inFlash, stored, ignored, failures, cleans>>

LogStep ==
    \/ LoadPointers \/ LoadNothing \/ LoadFails
    \/ EraseFirst \/ KeepFirst \/ ReadTail \/ ReadTailFails
    \/ EraseMeta \/ EraseMetaFails \/ WriteMeta \/ WriteMetaFails
    \/ Store \/ WriteEntry \/ WriteEntryFails \/ EraseNext
    \/ EraseZero \/ EraseFaults \/ AddFault
    \/ CleanRequest \/ NextRound \/ HandleError

Next == LogStep \/ PowerLoss

Spec == Init /\ [][Next]_logVars

-----------------------------------------------------------------------------
TypeOK ==
    /\ slot \in [Slots -> Pointers \cup {NoPtr}]
    /\ entry \in [Indices -> Foreign .. MaxStores]
    /\ faults \in 0 .. FaultEntries
    /\ index \in Slots /\ head \in Indices /\ tail \in Indices
    /\ flag \in BOOLEAN /\ torn \in BOOLEAN /\ ignored \in BOOLEAN
    /\ pc \in {"Load", "Init", "ReadTail", "EraseMeta", "WriteMeta", "WriteEntry",
              "EraseNext", "EraseZero", "AddFault", "Loop"}
    /\ caller \in {"Store", "Clean", "Load"}
    /\ resume \in {"Init", "Loop", "Handled"}
    /\ batch \in 0 .. Batch
    /\ stored \in 0 .. MaxStores
    /\ losses \in 0 .. MaxLosses
    /\ failures \in 0 .. MaxFailures
    /\ cleans \in 0 .. MaxCleans

(* What a boot would find: the pointers of the last valid slot.            *)
Found == IF ValidSlots = {} THEN [head |-> 0, tail |-> 0] ELSE slot[LastSlot]

(* The entries that a reader sees from h up to t.                          *)
Ids(h, t) == {entry[i] : i \in Window(h, t)} \ {Erased}

(* Nothing is left over from a failure or an untimely loss of power.       *)
Sound  == ~ignored /\ ~torn
AtRest == pc = "Loop" /\ ~flag /\ Sound

(* Between two requests a restart would continue where the log stands: the *)
(* last valid slot, not a stale one, holds the pointers in RAM.            *)
RestartContinues ==
    (pc = "Loop" /\ ~flag /\ ~ignored) => Found = [head |-> head, tail |-> tail]

(* No slot is programmed twice, through any wrap, restart or failure.      *)
SlotIsErased == pc = "WriteMeta" => slot[index] = NoPtr

(* Between two requests the place of the next entry, and the rest of its   *)
(* sector, are erased: the next store can be written.                      *)
RoomAtTail ==
    AtRest => \A i \in SectorOf(tail) : i >= tail => entry[i] = Erased

(* From head to tail the log is in the order it was stored, whatever was   *)
(* in flash before and wherever the ring wraps.                            *)
LogInOrder ==
    AtRest =>
        \A i, j \in Window(head, tail) :
            /\ entry[i] # Foreign
            /\ entry[i] >= entry[j] /\ entry[j] # Erased
                  => Distance(head, i) >= Distance(head, j)

(* A store that has completed can be read until its sector is reused: a    *)
(* restart at any point of a store finds every entry the log held, except  *)
(* while the slots are being started anew.                                 *)
StoreKeepsLog ==
    (caller = "Store" /\ pc # "Load" /\ ~flag /\ Sound /\ ValidSlots # {})
        => Ids(head, tail) \subseteq Ids(Found.head, Found.tail)

(* The newest entries are kept: a log whose first sector is not its only   *)
(* one holds at least what fits in the other sectors.                      *)
HoldsNewest ==
    (AtRest /\ losses = 0 /\ failures = 0 /\ cleans = 0) =>
        \A n \in 1 .. stored :
            n > stored - (Sectors - 1) * PerSector => n \in Ids(head, tail)

(* The log is not wiped for nothing: an error is marked only after an      *)
(* operation failed or power was lost at the end of a sector.              *)
WipeHasCause == (pc = "Loop" /\ flag) => (failures > 0 \/ torn)
=============================================================================
