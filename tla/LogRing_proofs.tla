--------------------------- MODULE LogRing_proofs ---------------------------
(***************************************************************************)
(* What the ring of log entries holds, for any number and size of sectors, *)
(* any number of slots and any failures and losses of power: there is room *)
(* for the next entry, the entries are in order, a store loses none of     *)
(* them, the newest are kept and nothing is wiped without a cause.         *)
(***************************************************************************)
EXTENDS Log_proofs

(* Arithmetic of sectors. *)

LEMMA DivModOf ==
  ASSUME NEW n \in Int, NEW p \in Int, p > 0,
         NEW q \in Int, q = n \div p, NEW r \in Int, r = n % p
  PROVE  n = p * q + r
  BY SMTT(30)

LEMMA DivMod ==
  ASSUME NEW n \in Nat, NEW p \in Nat \ {0}
  PROVE  \E q \in Nat, r \in 0 .. p - 1 :
            n = p * q + r /\ q = n \div p /\ r = n % p
<1> DEFINE q == n \div p
           r == n % p
<1>1. q \in Nat /\ r \in 0 .. p - 1 /\ q = n \div p /\ r = n % p
  OBVIOUS
<1> HIDE DEF q, r
<1>2. n = p * q + r
  BY <1>1, DivModOf
<1> QED
  BY <1>1, <1>2

LEMMA MultipleOf ==
  ASSUME NEW p \in Nat \ {0}, NEW k \in Nat
  PROVE  (p * k) % p = 0
<1> DEFINE n == p * k
<1>1. n \in Nat
  OBVIOUS
<1>2. PICK q \in Nat, r \in 0 .. p - 1 : n = p * q + r /\ r = n % p
  BY <1>1, DivMod
<1>3. r = p * (k - q)
  BY <1>2
<1>4. k - q = 0
  <2>1. CASE k - q >= 1
    <3>1. p * (k - q) >= p
      BY <2>1
    <3> QED
      BY <3>1, <1>3
  <2>2. CASE k - q <= -1
    <3>1. p * (q - k) >= p /\ p * (q - k) = -(p * (k - q))
      BY <2>2
    <3> QED
      BY <3>1, <1>3
  <2> QED
    BY <2>1, <2>2
<1> QED
  BY <1>2, <1>3, <1>4

Aligned(i) == i % PerSector = 0

LEMMA AlignedIs ==
  ASSUME NEW i \in Nat
  PROVE  Aligned(i) <=> \E k \in Nat : i = PerSector * k
<1>1. ASSUME Aligned(i) PROVE \E k \in Nat : i = PerSector * k
  <2>1. PICK q \in Nat, r \in 0 .. PerSector - 1 :
           i = PerSector * q + r /\ r = i % PerSector
    BY DivMod, SizePositive
  <2>2. r = 0
    BY <1>1, <2>1 DEF Aligned
  <2>3. i = PerSector * q
    BY <2>1, <2>2, SizePositive
  <2> QED
    BY <2>3
<1> QED
  BY <1>1, MultipleOf, SizePositive DEF Aligned

LEMMA AlignedZero == Aligned(0)
  BY AlignedIs, SizePositive

(* The oldest entry stays the first of a sector.                           *)
LEMMA AlignedSkip ==
  ASSUME NEW i \in Indices, Aligned(i)
  PROVE  Aligned(Skip(i))
<1> DEFINE p == PerSector
           n == Sectors
<1>0. p \in Nat \ {0} /\ n \in Nat /\ Size = n * p /\ i \in Nat /\ i < Size
  BY LogConstants, SizePositive DEF Size
<1>1. PICK k \in Nat : i = p * k
  BY <1>0, AlignedIs
<1>2. i + p = p * (k + 1)
  BY <1>0, <1>1
<1>3. CASE i + p < Size
  <2>1. i + p \in Nat /\ k + 1 \in Nat
    BY <1>0
  <2>2. Aligned(i + p)
    BY <1>2, <2>1, AlignedIs
  <2> QED
    BY <1>3, <2>2 DEF Skip
<1>4. CASE ~(i + p < Size)
  <2>1. i + p - Size = p * (k + 1 - n)
    BY <1>0, <1>2
  <2>2. k + 1 - n >= 0
    <3>1. ASSUME k + 1 - n <= -1 PROVE FALSE
      <4>1. p * (n - (k + 1)) >= p /\ p * (n - (k + 1)) = -(p * (k + 1 - n))
        BY <1>0, <3>1
      <4> QED
        BY <1>0, <1>4, <2>1, <4>1
    <3> QED
      BY <1>0, <3>1
  <2>3. k + 1 - n \in Nat /\ i + p - Size \in Nat
    BY <1>0, <1>4, <2>2, SizePositive
  <2> QED
    BY <1>4, <2>1, <2>3, AlignedIs DEF Skip
<1> QED
  BY <1>3, <1>4

(* Two sectors do not overlap.                                             *)
LEMMA Apart ==
  ASSUME NEW i \in Indices, NEW t \in Indices, Aligned(i), Aligned(t), i > t
  PROVE  i >= t + PerSector
<1> DEFINE p == PerSector
<1>0. p \in Nat \ {0} /\ i \in Nat /\ t \in Nat
  BY SizePositive
<1>1. PICK k \in Nat, l \in Nat : i = p * k /\ t = p * l
  BY <1>0, AlignedIs
<1>2. k - l >= 1
  <2>1. ASSUME l - k >= 0 PROVE FALSE
    <3>1. p * (l - k) >= 0 /\ p * (l - k) = t - i
      BY <1>0, <1>1, <2>1
    <3> QED
      BY <1>0, <3>1
  <2> QED
    BY <2>1
<1>3. p * (k - l) >= p /\ p * (k - l) = i - t
  BY <1>0, <1>1, <1>2
<1> QED
  BY <1>0, <1>3

LEMMA SectorRange ==
  ASSUME NEW t \in Indices, Aligned(t), NEW j \in SectorOf(t)
  PROVE  j \in Indices /\ t <= j /\ j < t + PerSector
<1> DEFINE p == PerSector
<1>0. p \in Nat \ {0} /\ t \in Nat /\ j \in Nat /\ j \in Indices
      /\ j \div p = t \div p
  BY SizePositive DEF SectorOf
<1>1. PICK q \in Nat, r \in 0 .. p - 1 : t = p * q + r /\ q = t \div p /\ r = t % p
  BY <1>0, DivMod
<1>2. PICK u \in Nat, v \in 0 .. p - 1 : j = p * u + v /\ u = j \div p /\ v = j % p
  BY <1>0, DivMod
<1>3. r = 0 /\ u = q
  BY <1>0, <1>1, <1>2 DEF Aligned
<1>4. t = p * q /\ j = p * q + v
  <2>1. t = p * q + r /\ j = p * u + v /\ p * q \in Int
    BY <1>0, <1>1, <1>2
  <2> QED
    BY <1>3, <2>1
<1>5. j = t + v
  BY <1>4
<1> QED
  BY <1>0, <1>2, <1>5

(* Neighbours in the ring.                                                 *)
LEMMA AfterBefore ==
  ASSUME NEW i \in Indices
  PROVE  Before(After(i)) = i /\ After(Before(i)) = i /\ After(i) # i /\ Before(i) # i
  BY SizePositive DEF After, Before

LEMMA SameSector ==
  ASSUME NEW i \in Indices, ~Aligned(After(i))
  PROVE  After(i) = i + 1 /\ SectorOf(After(i)) = SectorOf(i)
<1> DEFINE p == PerSector
<1>0. p \in Nat \ {0} /\ i \in Nat /\ After(i) # 0
  BY SizePositive, AlignedZero
<1>1. After(i) = i + 1
  BY <1>0 DEF After
<1>2. (i + 1) % p # 0
  BY <1>1 DEF Aligned
<1>3. (i + 1) \div p = i \div p
  BY <1>0, <1>2
<1> QED
  BY <1>1, <1>3 DEF SectorOf

LEMMA OwnSector == ASSUME NEW i \in Indices PROVE i \in SectorOf(i)
  BY DEF SectorOf

-----------------------------------------------------------------------------
(* Windows of the ring. *)

Entries == [Indices -> Foreign .. MaxStores]

(* The head after a store that moved the tail to t.                        *)
Oldest(h, t) == IF t = h THEN Skip(h) ELSE h

LEMMA OldestTyped ==
  ASSUME NEW h \in Indices, NEW t \in Indices
  PROVE  /\ Oldest(h, t) \in Indices /\ Oldest(h, t) # t
         /\ Aligned(h) => Aligned(Oldest(h, t))
<1>1. Skip(h) # h
  BY SizePositive DEF Skip
<1> QED
  BY <1>1, RingSteps, AlignedSkip DEF Oldest

LEMMA WindowEmpty == \A h \in Indices : Window(h, h) = {}
  BY SizePositive DEF Window

LEMMA WindowGrows ==
  ASSUME NEW h \in Indices, NEW t \in Indices
  PROVE  Window(Oldest(h, After(t)), After(t)) \subseteq Window(h, t) \cup {t}
  BY SizePositive DEF Window, Oldest, After, Skip

(* Seen from the new head, the entries are in the same order.              *)
LEMMA OrderKept ==
  ASSUME NEW h \in Indices, NEW t \in Indices,
         NEW i \in Window(Oldest(h, After(t)), After(t)),
         NEW j \in Window(Oldest(h, After(t)), After(t)),
         Distance(h, i) >= Distance(h, j)
  PROVE  Distance(Oldest(h, After(t)), i) >= Distance(Oldest(h, After(t)), j)
<1>1. CASE After(t) # h
  BY <1>1 DEF Oldest
<1>2. CASE After(t) = h
  BY <1>2, SizePositive DEF Window, Oldest, After, Skip, Distance
<1> QED
  BY <1>1, <1>2

LEMMA LastInWindow ==
  ASSUME NEW h \in Indices, NEW t \in Indices, NEW i \in Window(h, t)
  PROVE  /\ i \in Indices /\ Before(t) \in Window(h, t)
         /\ Distance(h, i) <= Distance(h, Before(t))
         /\ i # t
  BY SizePositive DEF Window, Before, Distance

LEMMA TailIsFurther ==
  ASSUME NEW h \in Indices, NEW t \in Indices, NEW i \in Window(h, t)
  PROVE  Distance(h, t) > Distance(h, i) /\ Distance(h, t) >= Distance(h, i)
  BY SizePositive DEF Window, Distance

-----------------------------------------------------------------------------
(* LogInOrder, of any contents e and pointers h and t. *)
InOrder(e, h, t) ==
    \A i, j \in Window(h, t) :
        /\ e[i] # Foreign
        /\ e[i] >= e[j] /\ e[j] # Erased => Distance(h, i) >= Distance(h, j)

(* Erasing any entries leaves the others in order.                         *)
LEMMA InOrderErased ==
  ASSUME NEW e \in Entries, NEW f \in Entries, NEW h \in Indices, NEW t \in Indices,
         \A i \in Indices : f[i] \in {Erased, e[i]}, InOrder(e, h, t)
  PROVE  InOrder(f, h, t)
<1> SUFFICES ASSUME NEW i \in Window(h, t), NEW j \in Window(h, t)
             PROVE  /\ f[i] # Foreign
                    /\ f[i] >= f[j] /\ f[j] # Erased => Distance(h, i) >= Distance(h, j)
  BY DEF InOrder
<1>1. i \in Indices /\ j \in Indices
  BY DEF Window
<1>2. e[i] # Foreign /\ e[j] # Foreign /\ e[i] \in Int /\ e[j] \in Int
      /\ e[j] >= Foreign
  BY <1>1, LogConstants DEF InOrder, Entries, Foreign
<1>3. f[i] \in {Erased, e[i]} /\ f[j] \in {Erased, e[j]}
  BY <1>1
<1>4. e[i] >= e[j] /\ e[j] # Erased => Distance(h, i) >= Distance(h, j)
  BY DEF InOrder
<1> QED
  BY <1>2, <1>3, <1>4 DEF Erased, Foreign

(* A store takes an erased place into the log.                             *)
LEMMA InOrderGrows ==
  ASSUME NEW e \in Entries, NEW h \in Indices, NEW t \in Indices,
         InOrder(e, h, t), e[t] = Erased
  PROVE  InOrder(e, Oldest(h, After(t)), After(t))
<1> DEFINE g == Oldest(h, After(t))
           u == After(t)
<1> SUFFICES ASSUME NEW i \in Window(g, u), NEW j \in Window(g, u)
             PROVE  /\ e[i] # Foreign
                    /\ e[i] >= e[j] /\ e[j] # Erased => Distance(g, i) >= Distance(g, j)
  BY DEF InOrder
<1>1. i \in Window(h, t) \cup {t} /\ j \in Window(h, t) \cup {t}
  BY WindowGrows
<1>2. e[i] # Foreign
  BY <1>1 DEF InOrder, Erased, Foreign
<1>3. ASSUME e[i] >= e[j], e[j] # Erased PROVE Distance(g, i) >= Distance(g, j)
  <2>1. j \in Window(h, t)
    BY <1>1, <1>3
  <2>2. CASE i = t
    <3>1. Distance(h, i) >= Distance(h, j)
      BY <2>1, <2>2, TailIsFurther
    <3> QED
      BY <3>1, OrderKept
  <2>3. CASE i \in Window(h, t)
    <3>1. Distance(h, i) >= Distance(h, j)
      BY <1>3, <2>1, <2>3 DEF InOrder
    <3> QED
      BY <3>1, OrderKept
  <2> QED
    BY <1>1, <2>2, <2>3
<1> QED
  BY <1>2, <1>3

(* The entry written at the end is the newest.                             *)
LEMMA InOrderWritten ==
  ASSUME NEW e \in Entries, NEW h \in Indices, NEW t \in Indices, NEW n \in Nat,
         InOrder(e, h, t), \A i \in Indices : e[i] < n
  PROVE  InOrder([e EXCEPT ![Before(t)] = n], h, t)
<1> DEFINE f == [e EXCEPT ![Before(t)] = n]
<1> SUFFICES ASSUME NEW i \in Window(h, t), NEW j \in Window(h, t)
             PROVE  /\ f[i] # Foreign
                    /\ f[i] >= f[j] /\ f[j] # Erased => Distance(h, i) >= Distance(h, j)
  BY DEF InOrder
<1>1. i \in Indices /\ j \in Indices /\ Distance(h, j) <= Distance(h, Before(t))
  BY LastInWindow
<1>2. /\ f[i] = IF i = Before(t) THEN n ELSE e[i]
      /\ f[j] = IF j = Before(t) THEN n ELSE e[j]
  BY <1>1 DEF Entries
<1>3. e[i] \in Int /\ e[j] \in Int /\ e[i] < n /\ e[j] < n
  BY <1>1, LogConstants DEF Entries, Foreign
<1>4. e[i] # Foreign /\ (e[i] >= e[j] /\ e[j] # Erased => Distance(h, i) >= Distance(h, j))
  BY DEF InOrder
<1>5. Distance(h, i) \in Int /\ Distance(h, j) \in Int
  BY <1>1, DistanceTyped
<1>6. CASE i = Before(t)
  BY <1>1, <1>2, <1>5, <1>6 DEF Foreign
<1>7. CASE i # Before(t)
  BY <1>2, <1>3, <1>4, <1>7
<1> QED
  BY <1>6, <1>7

LEMMA InOrderEmpty == ASSUME NEW e, NEW h \in Indices PROVE InOrder(e, h, h)
  BY WindowEmpty DEF InOrder

-----------------------------------------------------------------------------
(* Where the log task can be. *)

StorePhase == caller = "Store" /\ pc \in {"EraseMeta", "WriteMeta", "WriteEntry"}

(* The pointers are 0 from a clean up to the next store, and in a boot     *)
(* that finds no slot; no error is marked at a boot, nor when a round of   *)
(* the task's loop begins.                                                 *)
Phases ==
    /\ pc \in {"WriteEntry", "EraseNext"} => caller = "Store"
    /\ pc \in {"EraseZero", "AddFault"} => caller = "Clean"
    /\ \/ caller = "Clean" \/ pc = "Load"
       \/ caller = "Load" /\ pc \in {"EraseMeta", "WriteMeta"}
       => head = 0 /\ tail = 0
    /\ pc = "Load" => ~flag /\ caller = "Load"
    /\ caller = "Load" /\ pc \in {"EraseMeta", "WriteMeta"} => ~flag
    /\ pc # "Loop" => batch < Batch
    /\ pc = "Loop" /\ batch = Batch => ~flag

LEMMA PhasesInit == Init => Phases
  BY LogConstants DEF Init, Phases

LEMMA PhasesStep == TypeOK /\ Ordered /\ Phases /\ LogOrRequest => Phases'
<1> SUFFICES ASSUME TypeOK, Ordered, Phases, LogOrRequest
             PROVE  Phases'
  OBVIOUS
<1> USE LogConstants DEF inFlash, pointers, control, history, bounds
<1>a. /\ flag \in BOOLEAN /\ ignored \in BOOLEAN
      /\ caller \in {"Store", "Clean", "Load"}
      /\ resume \in {"Init", "Loop", "Handled"}
      /\ batch \in Int /\ Batch \in Int
  BY DEF TypeOK
<1>1. CASE LoadPointers \/ LoadNothing
  BY <1>1 DEF LoadPointers, LoadNothing, Phases
<1>2. CASE LoadFails \/ ReadTailFails
  BY <1>2 DEF LoadFails, ReadTailFails, Clean, Phases
<1>3. CASE EraseFirst \/ KeepFirst \/ ReadTail
  BY <1>3, <1>a DEF EraseFirst, KeepFirst, ReadTail, Phases
<1>4. CASE EraseMeta
  BY <1>4, <1>a DEF EraseMeta, Phases
<1>5. CASE EraseMetaFails
  <2>1. /\ pc = "EraseMeta" /\ pc' = UpdateFailed[caller] /\ UNCHANGED <<caller, batch>>
        /\ UNCHANGED <<head, tail>>
    BY <1>5 DEF EraseMetaFails
  <2> QED
    BY <1>a, <2>1, Returns DEF Phases
<1>6. CASE WriteMeta
  <2>1. /\ pc = "WriteMeta" /\ pc' = UpdateDone[caller] /\ UNCHANGED <<caller, batch>>
        /\ UNCHANGED <<head, tail>>
    BY <1>6 DEF WriteMeta
  <2> QED
    BY <1>a, <2>1, Returns DEF Phases
<1>7. CASE WriteMetaFails
  <2>1. /\ pc = "WriteMeta" /\ pc' = UpdateFailed[caller] /\ UNCHANGED <<caller, batch>>
        /\ UNCHANGED <<head, tail>>
    BY <1>7 DEF WriteMetaFails
  <2> QED
    BY <1>a, <2>1, Returns DEF Phases
<1>8. CASE Store
  BY <1>8, <1>a DEF Store, Update, Phases, TypeOK
<1>9. CASE WriteEntry \/ WriteEntryFails \/ EraseNext
  BY <1>9, <1>a DEF WriteEntry, WriteEntryFails, EraseNext, Phases
<1>10. CASE EraseZero \/ EraseFaults
  BY <1>10, <1>a DEF EraseZero, EraseFaults, Phases
<1>11. CASE AddFault
  <2>1. /\ pc = "AddFault" /\ UNCHANGED <<head, tail, caller>>
        /\ IF resume = "Handled" THEN flag' = FALSE /\ batch' = Batch /\ pc' = "Loop"
           ELSE pc' = resume /\ UNCHANGED <<flag, batch>>
    BY <1>11 DEF AddFault
  <2> QED
    BY <1>a, <2>1 DEF Phases
<1>12. CASE CleanRequest \/ HandleError
  BY <1>12, <1>a DEF CleanRequest, HandleError, Clean, Phases, TypeOK
<1>13. CASE NextRound
  BY <1>13, <1>a DEF NextRound, Phases
<1>14. CASE PowerLoss
  BY <1>14 DEF PowerLoss, Phases
<1>15. CASE Request
  BY <1>15, <1>a DEF Request, Phases
<1>16. CASE UNCHANGED logVars
  BY <1>16 DEF logVars, Phases
<1> QED
  BY <1>1, <1>2, <1>3, <1>4, <1>5, <1>6, <1>7, <1>8, <1>9, <1>10, <1>11, <1>12,
     <1>13, <1>14, <1>15, <1>16 DEF LogOrRequest, Next, LogStep

(* The oldest entry is the first of a sector, in RAM and in every slot,    *)
(* and so is the place before which a sector is full.                      *)
Heads == /\ Aligned(head) /\ \A s \in ValidSlots : Aligned(slot[s].head)
         /\ pc = "EraseNext" => Aligned(tail)

LEMMA HeadsInit == Init => Heads
  BY AlignedZero DEF Init, Heads, ValidSlots

LEMMA HeadsStep == TypeOK /\ Ordered /\ Phases /\ Heads /\ LogOrRequest => Heads'
<1> SUFFICES ASSUME TypeOK, Ordered, Phases, Heads, LogOrRequest
             PROVE  Heads'
  OBVIOUS
<1> USE DEF inFlash, pointers, control, history, bounds
<1>a. ASSUME UNCHANGED slot, head' = head \/ head' = 0,
             pc' = "EraseNext" => Aligned(tail')
      PROVE  Heads'
  BY <1>a, AlignedZero DEF Heads, ValidSlots
<1>b. head \in Indices /\ tail \in Indices
  BY DEF TypeOK
<1>1. CASE LoadPointers
  <2>1. LastSlot \in ValidSlots
    BY <1>1, LastIsValid DEF LoadPointers
  <2> QED
    BY <1>1, <2>1 DEF LoadPointers, Heads, ValidSlots
<1>2. CASE LoadNothing \/ LoadFails \/ ReadTailFails
  BY <1>2, <1>a DEF LoadNothing, LoadFails, ReadTailFails, Clean
<1>3. CASE EraseFirst \/ KeepFirst \/ ReadTail
  BY <1>3, <1>a DEF EraseFirst, KeepFirst, ReadTail
<1>4. CASE EraseMeta
  BY <1>4 DEF EraseMeta, Heads, ValidSlots
<1>c. caller \in {"Store", "Clean", "Load"} /\ resume \in {"Init", "Loop", "Handled"}
  BY DEF TypeOK
<1>5. CASE EraseMetaFails \/ WriteMetaFails
  BY <1>5, <1>a, <1>c, Returns DEF EraseMetaFails, WriteMetaFails
<1>6. CASE WriteMeta
  <2>1. /\ index \in Slots /\ slot \in [Slots -> Pointers \cup {NoPtr}]
        /\ slot' = [slot EXCEPT ![index] = [head |-> head, tail |-> tail]]
        /\ head' = head /\ pc' = UpdateDone[caller]
    BY <1>6 DEF WriteMeta, TypeOK
  <2>2. slot'[index].head = head /\ \A s \in Slots : s # index => slot'[s] = slot[s]
    BY <2>1
  <2> QED
    BY <1>c, <2>1, <2>2, Returns DEF Heads, ValidSlots
<1>7. CASE Store
  <2>1. /\ head' = Oldest(head, After(tail)) /\ UNCHANGED slot
        /\ pc' \in {"EraseMeta", "WriteMeta"}
    BY <1>7 DEF Store, Oldest, Update
  <2>2. Aligned(head')
    BY <1>b, <2>1, RingSteps, OldestTyped DEF Heads
  <2> QED
    BY <2>1, <2>2 DEF Heads, ValidSlots
<1>8. CASE WriteEntry \/ WriteEntryFails \/ EraseNext
  BY <1>8, <1>a DEF WriteEntry, WriteEntryFails, EraseNext, Aligned
<1>9. CASE EraseZero \/ EraseFaults \/ AddFault
  BY <1>9, <1>a, <1>c DEF EraseZero, EraseFaults, AddFault
<1>10. CASE CleanRequest \/ HandleError \/ NextRound
  BY <1>10, <1>a DEF CleanRequest, HandleError, Clean, NextRound
<1>11. CASE PowerLoss \/ Request \/ UNCHANGED logVars
  BY <1>11, <1>a DEF PowerLoss, Request, logVars, Heads
<1> QED
  BY <1>1, <1>2, <1>3, <1>4, <1>5, <1>6, <1>7, <1>8, <1>9, <1>10, <1>11
     DEF LogOrRequest, Next, LogStep

-----------------------------------------------------------------------------
(* What a restart would find after a clean. *)

Origin == [head |-> 0, tail |-> 0]

(* A clean that has erased the slots is working towards the empty log,     *)
(* whatever has been marked meanwhile.                                     *)
Anew == caller = "Clean" /\ pc # "EraseMeta"

CleanFound == Anew /\ ~ignored => Found = Origin

LEMMA FoundKept ==
  UNCHANGED slot => ValidSlots' = ValidSlots /\ LastSlot' = LastSlot /\ Found' = Found
  BY DEF ValidSlots, LastSlot, Found

LEMMA FoundErased == EraseMeta => ValidSlots' = {} /\ Found' = Origin
  BY DEF EraseMeta, ValidSlots, Found, Origin

LEMMA FoundTyped ==
  ASSUME TypeOK, Ordered
  PROVE  /\ Found \in Pointers /\ Found.head \in Indices /\ Found.tail \in Indices
         /\ Found = [head |-> Found.head, tail |-> Found.tail]
<1>1. [head |-> 0, tail |-> 0] \in Pointers
  BY SizePositive DEF Pointers
<1>2. Found \in Pointers
  BY <1>1, LastIsValid DEF Found
<1> QED
  BY <1>2 DEF Pointers

LEMMA CleanFoundStep ==
  TypeOK /\ Ordered /\ Phases /\ CleanFound /\ LogOrRequest => CleanFound'
<1> SUFFICES ASSUME TypeOK, Ordered, Phases, CleanFound, LogOrRequest
             PROVE  CleanFound'
  OBVIOUS
<1> USE FoundKept DEF CleanFound, Anew, inFlash, pointers, control, history, bounds
<1>a. /\ flag \in BOOLEAN /\ ignored \in BOOLEAN
      /\ caller \in {"Store", "Clean", "Load"}
  BY DEF TypeOK
<1>1. CASE LoadPointers \/ LoadNothing \/ LoadFails \/ ReadTailFails
  BY <1>1 DEF LoadPointers, LoadNothing, LoadFails, ReadTailFails, Clean, Phases
<1>2. CASE EraseFirst \/ KeepFirst \/ ReadTail
  BY <1>2, <1>a DEF EraseFirst, KeepFirst, ReadTail
<1>3. CASE EraseMeta
  BY <1>3, FoundErased
<1>4. CASE EraseMetaFails
  BY <1>4, <1>a DEF EraseMetaFails
<1>5. CASE WriteMeta
  <2>1. Found' = [head |-> head, tail |-> tail]'
    BY <1>5, WrittenIsLast
  <2>2. caller' = caller /\ head' = head /\ tail' = tail
    BY <1>5 DEF WriteMeta
  <2> QED
    BY <2>1, <2>2 DEF Phases, Origin
<1>6. CASE WriteMetaFails
  BY <1>6, <1>a DEF WriteMetaFails
<1>7. CASE Store \/ PowerLoss
  BY <1>7 DEF Store, PowerLoss
<1>8. CASE WriteEntry \/ WriteEntryFails \/ EraseNext
  BY <1>8 DEF WriteEntry, WriteEntryFails, EraseNext
<1>9. CASE EraseZero \/ EraseFaults
  BY <1>9, <1>a DEF EraseZero, EraseFaults
<1>10. CASE AddFault
  BY <1>10 DEF AddFault
<1>11. CASE CleanRequest \/ HandleError
  BY <1>11 DEF CleanRequest, HandleError, Clean
<1>12. CASE NextRound \/ Request \/ UNCHANGED logVars
  BY <1>12 DEF NextRound, Request, logVars
<1> QED
  BY <1>1, <1>2, <1>3, <1>4, <1>5, <1>6, <1>7, <1>8, <1>9, <1>10, <1>11, <1>12
     DEF LogOrRequest, Next, LogStep

-----------------------------------------------------------------------------
(* Room for the next entry. *)

Room(e, t) == \A i \in SectorOf(t) : i >= t => e[i] = Erased

LEMMA RoomErased ==
  ASSUME NEW e, NEW f, NEW t, \A i \in Indices : f[i] \in {Erased, e[i]}, Room(e, t)
  PROVE  Room(f, t)
  BY DEF Room, SectorOf

LEMMA RoomHere == ASSUME NEW e, NEW t \in Indices, Room(e, t) PROVE e[t] = Erased
  BY OwnSector, SizePositive DEF Room

(* The rest of the sector that follows a place there was room at.          *)
LEMMA RoomAfter ==
  ASSUME NEW e \in Entries, NEW t \in Indices, Room(e, Before(t)), ~Aligned(t), NEW n
  PROVE  Room(e, t) /\ Room([e EXCEPT ![Before(t)] = n], t)
<1> DEFINE b == Before(t)
<1>1. b \in Indices /\ After(b) = t
  BY RingSteps, AfterBefore
<1>2. t = b + 1 /\ SectorOf(t) = SectorOf(b)
  BY <1>1, SameSector
<1>3. ASSUME NEW i \in SectorOf(t), i >= t
      PROVE  e[i] = Erased /\ [e EXCEPT ![b] = n][i] = Erased
  <2>1. i \in Indices /\ i \in Int /\ b \in Int
    BY <1>1, SizePositive DEF SectorOf
  <2>2. i >= b /\ i # b /\ i \in SectorOf(b)
    BY <1>2, <1>3, <2>1
  <2> QED
    BY <2>1, <2>2 DEF Room, Entries
<1> QED
  BY <1>3 DEF Room

(* What erasing a sector does to the entries, and to the room in it.       *)
LEMMA SectorErased ==
  ASSUME NEW t
  PROVE  /\ \A i \in Indices : EraseSector(t)[i] \in {Erased, entry[i]}
         /\ Room(EraseSector(t), t)
  BY DEF EraseSector, Room, SectorOf

(* Nothing is marked, left over or, but by a clean that will clear it,     *)
(* waiting to be handled.                                                  *)
Steady  == Sound /\ ~flag
Certain == Sound /\ (flag => Anew)

(* The sector after a full one has not been erased yet.                    *)
AtEnd == pc \in {"WriteEntry", "EraseNext"} /\ Aligned(tail)

(* Wherever the log stands, and wherever a restart would go on, there is   *)
(* room up to the end of the sector, or the log is empty and its first     *)
(* sector will be erased.                                                  *)
RoomRam ==
    /\ Steady /\ pc \in {"ReadTail", "Loop"} => Room(entry, tail)
    /\ Steady /\ pc = "Init" => (head = 0 /\ tail = 0) \/ Room(entry, tail)
    /\ Steady /\ StorePhase => Room(entry, Before(tail))
    /\ pc = "AddFault" /\ ~ignored => Room(entry, 0)

RoomFound == Certain /\ ~AtEnd => Found = Origin \/ Room(entry, Found.tail)

LEMMA RoomInit == Init => RoomRam /\ RoomFound /\ CleanFound
<1> SUFFICES ASSUME Init PROVE RoomRam /\ RoomFound /\ CleanFound
  OBVIOUS
<1>1. Found = Origin
  BY DEF Init, Found, ValidSlots, Origin
<1> QED
  BY <1>1 DEF Init, RoomRam, RoomFound, CleanFound, StorePhase

LEMMA RoomRamStep ==
  TypeOK /\ Ordered /\ Phases /\ RoomFound /\ RoomRam /\ LogOrRequest => RoomRam'
<1> SUFFICES ASSUME TypeOK, Ordered, Phases, RoomFound, RoomRam, LogOrRequest
             PROVE  RoomRam'
  OBVIOUS
<1> USE DEF Steady, Sound, StorePhase, inFlash, pointers, control, history, bounds
<1>a. /\ flag \in BOOLEAN /\ ignored \in BOOLEAN /\ torn \in BOOLEAN
      /\ caller \in {"Store", "Clean", "Load"}
      /\ resume \in {"Init", "Loop", "Handled"}
      /\ tail \in Indices /\ entry \in Entries
  BY DEF TypeOK, Entries
<1>1. CASE LoadPointers
  <2>1. /\ pc = "Load" /\ ~flag /\ ValidSlots # {}
        /\ head' = Found.head /\ tail' = Found.tail
        /\ pc' = "Init" /\ UNCHANGED <<entry, ignored, torn>>
    BY <1>1 DEF LoadPointers, Found, Phases
  <2>2. Steady' => Found = Origin \/ Room(entry, Found.tail)
    BY <2>1 DEF RoomFound, Certain, AtEnd
  <2> QED
    BY <2>1, <2>2 DEF RoomRam, Origin
<1>2. CASE LoadNothing \/ LoadFails \/ ReadTailFails
  BY <1>2 DEF LoadNothing, LoadFails, ReadTailFails, Clean, RoomRam
<1>3. CASE EraseFirst
  <2>1. /\ pc' = "ReadTail" /\ tail' = 0
        /\ entry' = EraseSector(0) \/ ignored' = TRUE
    BY <1>3 DEF EraseFirst
  <2> QED
    BY <2>1, SectorErased DEF RoomRam
<1>4. CASE KeepFirst \/ ReadTail
  BY <1>4 DEF KeepFirst, ReadTail, RoomRam
<1>5. CASE EraseMeta
  BY <1>5 DEF EraseMeta, RoomRam
<1>6. CASE EraseMetaFails
  <2>1. /\ pc = "EraseMeta" /\ pc' = UpdateFailed[caller]
        /\ flag' = (flag \/ caller = "Store")
        /\ UNCHANGED <<head, tail, caller>>
    BY <1>6 DEF EraseMetaFails
  <2> QED
    BY <1>a, <2>1, Returns DEF RoomRam, Phases
<1>7. CASE WriteMeta
  <2>1. /\ pc = "WriteMeta" /\ pc' = UpdateDone[caller]
        /\ UNCHANGED <<head, tail, caller, entry, flag, torn, ignored>>
    BY <1>7 DEF WriteMeta
  <2> QED
    BY <1>a, <2>1, Returns DEF RoomRam, Phases
<1>8. CASE WriteMetaFails
  <2>1. /\ pc = "WriteMeta" /\ pc' = UpdateFailed[caller] /\ flag' = TRUE
    BY <1>8 DEF WriteMetaFails
  <2> QED
    BY <1>a, <2>1, Returns DEF RoomRam
<1>9. CASE Store
  <2>1. Before(tail') = tail /\ pc = "Loop" /\ pc' \in {"EraseMeta", "WriteMeta"}
        /\ UNCHANGED <<entry, flag, torn, ignored>>
    BY <1>9, <1>a, AfterBefore DEF Store, Update
  <2> QED
    BY <2>1 DEF RoomRam
<1>10. CASE WriteEntry
  <2>1. /\ pc = "WriteEntry" /\ caller = "Store"
        /\ entry' = [entry EXCEPT ![Before(tail)] = stored]
        /\ pc' = IF Aligned(tail) THEN "EraseNext" ELSE "Loop"
        /\ UNCHANGED <<tail, flag, torn, ignored>>
    BY <1>10 DEF WriteEntry, Phases, Aligned
  <2>2. CASE Aligned(tail)
    BY <2>1, <2>2 DEF RoomRam
  <2>3. CASE ~Aligned(tail)
    <3>1. Steady' => Room(entry, Before(tail))
      BY <2>1 DEF RoomRam
    <3>2. Steady' => Room(entry', tail)
      BY <1>a, <2>1, <2>3, <3>1, RoomAfter
    <3> QED
      BY <2>1, <2>3, <3>2 DEF RoomRam
  <2> QED
    BY <2>2, <2>3
<1>11. CASE WriteEntryFails
  BY <1>11 DEF WriteEntryFails, RoomRam
<1>12. CASE EraseNext
  <2>1. /\ pc' = "Loop" /\ tail' = tail
        /\ entry' = EraseSector(tail) \/ flag' = TRUE
    BY <1>12 DEF EraseNext
  <2> QED
    BY <2>1, SectorErased DEF RoomRam
<1>13. CASE EraseZero
  <2>1. /\ pc' = "AddFault"
        /\ entry' = EraseSector(0) \/ ignored' = TRUE
    BY <1>13 DEF EraseZero
  <2> QED
    BY <2>1, SectorErased DEF RoomRam
<1>14. CASE EraseFaults
  BY <1>14 DEF EraseFaults, RoomRam
<1>15. CASE AddFault
  <2>1. /\ pc = "AddFault" /\ UNCHANGED <<entry, tail, ignored, caller>>
        /\ pc' \in {"Init", "Loop"}
    BY <1>15, <1>a DEF AddFault
  <2>2. tail' = 0
    BY <2>1 DEF Phases
  <2> QED
    BY <2>1, <2>2 DEF RoomRam
<1>16. CASE CleanRequest \/ HandleError
  BY <1>16 DEF CleanRequest, HandleError, Clean, RoomRam
<1>17. CASE NextRound
  BY <1>17 DEF NextRound, RoomRam
<1>18. CASE PowerLoss
  BY <1>18 DEF PowerLoss, RoomRam
<1>19. CASE Request
  BY <1>19, <1>a DEF Request, RoomRam
<1>20. CASE UNCHANGED logVars
  BY <1>20 DEF logVars, RoomRam
<1> QED
  BY <1>1, <1>2, <1>3, <1>4, <1>5, <1>6, <1>7, <1>8, <1>9, <1>10, <1>11, <1>12,
     <1>13, <1>14, <1>15, <1>16, <1>17, <1>18, <1>19, <1>20 DEF LogOrRequest, Next, LogStep

(* The same room, at the place that a restart would find as the tail.      *)
LEMMA RoomFoundStep ==
  TypeOK /\ Ordered /\ Current /\ Phases /\ CleanFound /\ RoomFound /\ RoomRam
    /\ LogOrRequest => RoomFound'
<1> SUFFICES ASSUME TypeOK, Ordered, Current, Phases, CleanFound, RoomFound, RoomRam,
                    LogOrRequest
             PROVE  RoomFound'
  OBVIOUS
<1> USE DEF Steady, Sound, StorePhase, inFlash, pointers, control, history, bounds
<1>a. /\ flag \in BOOLEAN /\ ignored \in BOOLEAN /\ torn \in BOOLEAN
      /\ caller \in {"Store", "Clean", "Load"}
      /\ resume \in {"Init", "Loop", "Handled"}
      /\ tail \in Indices /\ entry \in Entries
  BY DEF TypeOK, Entries
<1>b. ASSUME UNCHANGED slot, \A i \in Indices : entry'[i] \in {Erased, entry[i]},
             Certain' /\ ~AtEnd' => Certain /\ ~AtEnd
      PROVE  RoomFound'
  BY <1>b, FoundKept, RoomErased DEF RoomFound
<1>c. UNCHANGED entry => \A i \in Indices : entry'[i] \in {Erased, entry[i]}
  OBVIOUS
<1>1. CASE LoadPointers \/ LoadNothing
  BY <1>1, <1>b, <1>c DEF LoadPointers, LoadNothing, Certain, AtEnd, Phases
<1>2. CASE LoadFails \/ ReadTailFails
  BY <1>2, <1>b, <1>c DEF LoadFails, ReadTailFails, Clean, Certain, AtEnd, Anew
<1>3. CASE EraseFirst
  <2>1. /\ pc = "Init" /\ pc' = "ReadTail" /\ UNCHANGED <<slot, flag, caller, torn>>
        /\ ignored' = ignored \/ ignored' = TRUE
        /\ entry' = EraseSector(0) \/ UNCHANGED entry
    BY <1>3 DEF EraseFirst
  <2>2. \A i \in Indices : entry'[i] \in {Erased, entry[i]}
    BY <1>c, <2>1, SectorErased
  <2> QED
    BY <1>a, <1>b, <2>1, <2>2 DEF Certain, Anew, AtEnd
<1>4. CASE KeepFirst \/ ReadTail
  BY <1>4, <1>b, <1>c DEF KeepFirst, ReadTail, Certain, Anew, AtEnd
<1>5. CASE EraseMeta
  BY <1>5, FoundErased DEF RoomFound
<1>6. CASE EraseMetaFails
  <2>1. /\ pc = "EraseMeta" /\ pc' = UpdateFailed[caller]
        /\ flag' = (flag \/ caller = "Store")
        /\ ignored' = (ignored \/ caller = "Clean")
        /\ UNCHANGED <<slot, entry, torn, caller>>
    BY <1>6 DEF EraseMetaFails
  <2>2. Certain' => Certain /\ ~AtEnd
    BY <1>a, <2>1 DEF Certain, Anew, AtEnd
  <2> QED
    BY <1>b, <1>c, <2>1, <2>2
<1>7. CASE WriteMeta
  <2>1. Found' = [head |-> head, tail |-> tail]
    BY <1>7, WrittenIsLast DEF WriteMeta
  <2>2. /\ pc = "WriteMeta" /\ pc' = UpdateDone[caller]
        /\ UNCHANGED <<tail, caller, entry, flag, torn, ignored>>
    BY <1>7 DEF WriteMeta
  <2>3. CASE caller = "Store"
    <3>1. Certain' /\ ~AtEnd' => Steady /\ ~Aligned(tail)
      BY <1>a, <2>2, <2>3, Returns DEF Certain, Anew, AtEnd
    <3>2. Steady => Room(entry, Before(tail))
      BY <2>2, <2>3 DEF RoomRam
    <3>3. Certain' /\ ~AtEnd' => Room(entry, tail)
      BY <1>a, <3>1, <3>2, RoomAfter
    <3> QED
      BY <2>1, <2>2, <3>3 DEF RoomFound
  <2>4. CASE caller # "Store"
    BY <1>a, <2>1, <2>2, <2>4 DEF Phases, RoomFound, Origin
  <2> QED
    BY <2>3, <2>4
<1>8. CASE WriteMetaFails
  <2>1. /\ pc = "WriteMeta" /\ flag' = TRUE /\ UNCHANGED <<slot, caller>>
        /\ ignored => ignored'
    BY <1>8 DEF WriteMetaFails
  <2>2. Certain' => Anew /\ ~ignored
    BY <2>1 DEF Certain, Anew
  <2> QED
    BY <2>1, <2>2, FoundKept DEF CleanFound, RoomFound
<1>9. CASE Store
  BY <1>9, <1>b, <1>c DEF Store, Update, Certain, Anew, AtEnd
<1>10. CASE WriteEntry
  <2>1. /\ pc = "WriteEntry" /\ caller = "Store"
        /\ pc' = IF Aligned(tail) THEN "EraseNext" ELSE "Loop"
        /\ UNCHANGED <<slot, tail, caller, flag, torn, ignored>>
    BY <1>10 DEF WriteEntry, Phases, Aligned
  <2>2. Certain' /\ ~AtEnd' => Steady /\ pc' = "Loop"
    BY <2>1 DEF Certain, Anew, AtEnd
  <2>3. Steady => Found.tail = tail
    BY <2>1 DEF Current
  <2>4. Steady /\ pc' = "Loop" => Room(entry', tail)
    BY <1>10, <2>1, RoomRamStep DEF RoomRam
  <2> QED
    BY <2>1, <2>2, <2>3, <2>4, FoundKept DEF RoomFound
<1>11. CASE WriteEntryFails
  BY <1>11 DEF WriteEntryFails, RoomFound, Certain, Anew, Phases
<1>12. CASE EraseNext
  <2>1. /\ pc = "EraseNext" /\ caller = "Store" /\ pc' = "Loop"
        /\ UNCHANGED <<slot, tail, caller, torn, ignored>>
        /\ (UNCHANGED flag /\ entry' = EraseSector(tail)) \/ flag' = TRUE
    BY <1>12 DEF EraseNext, Phases
  <2>2. Certain' => Steady /\ Room(entry', tail)
    BY <2>1, SectorErased DEF Certain, Anew
  <2>3. Steady => Found.tail = tail
    BY <2>1 DEF Current
  <2> QED
    BY <2>1, <2>2, <2>3, FoundKept DEF RoomFound
<1>13. CASE EraseZero
  <2>1. /\ pc = "EraseZero" /\ pc' = "AddFault" /\ UNCHANGED <<slot, flag, caller, torn>>
        /\ ignored' = ignored \/ ignored' = TRUE
        /\ entry' = EraseSector(0) \/ UNCHANGED entry
    BY <1>13 DEF EraseZero
  <2>2. \A i \in Indices : entry'[i] \in {Erased, entry[i]}
    BY <1>c, <2>1, SectorErased
  <2> QED
    BY <1>a, <1>b, <2>1, <2>2 DEF Certain, Anew, AtEnd
<1>14. CASE EraseFaults \/ AddFault
  <2>1. /\ pc = "AddFault" /\ caller = "Clean" /\ pc' \notin {"WriteEntry", "EraseNext"}
        /\ UNCHANGED <<slot, entry, caller, torn, ignored>>
    BY <1>14, <1>a DEF EraseFaults, AddFault, Phases
  <2> QED
    BY <1>b, <1>c, <2>1 DEF Certain, Anew, AtEnd
<1>15. CASE CleanRequest \/ HandleError
  BY <1>15, <1>b, <1>c DEF CleanRequest, HandleError, Clean, Certain, Anew, AtEnd
<1>16. CASE NextRound
  BY <1>16, <1>b, <1>c DEF NextRound, Certain, Anew, AtEnd
<1>17. CASE PowerLoss
  <2>1. /\ torn' = \/ torn
                   \/ flag /\ ~Anew
                   \/ AtEnd
        /\ UNCHANGED <<slot, entry, ignored>>
    BY <1>17 DEF PowerLoss, Anew, AtEnd, Aligned
  <2> QED
    BY <1>b, <1>c, <2>1 DEF Certain
<1>18. CASE Request
  <2>1. UNCHANGED <<slot, entry, pc, caller, tail, torn, ignored>> /\ flag' \in {flag, TRUE}
    BY <1>18 DEF Request
  <2> QED
    BY <1>b, <1>c, <2>1 DEF Certain, Anew, AtEnd
<1>19. CASE UNCHANGED logVars
  BY <1>19, <1>b, <1>c DEF logVars, Certain, Anew, AtEnd
<1> QED
  BY <1>1, <1>2, <1>3, <1>4, <1>5, <1>6, <1>7, <1>8, <1>9, <1>10, <1>11, <1>12,
     <1>13, <1>14, <1>15, <1>16, <1>17, <1>18, <1>19 DEF LogOrRequest, Next, LogStep

-----------------------------------------------------------------------------
(* Why the log is wiped. *)

(* handle_error() has erased the slots and will clear the flag.            *)
Handling == /\ resume = "Handled" /\ caller = "Clean"
            /\ pc \in {"WriteMeta", "EraseZero", "AddFault"}

Cause ==
    /\ ignored => failures > 0
    /\ flag => Handling \/ failures > 0 \/ torn
    /\ pc = "EraseMeta" /\ caller = "Clean" /\ resume # "Handled" => ~flag \/ failures > 0

LEMMA CauseStep ==
  TypeOK /\ Ordered /\ Phases /\ RoomRam /\ Cause /\ LogOrRequest => Cause'
<1> SUFFICES ASSUME TypeOK, Ordered, Phases, RoomRam, Cause, LogOrRequest
             PROVE  Cause'
  OBVIOUS
<1> USE DEF Handling, Works, Fails, inFlash, pointers, control, history, bounds
<1>a. /\ flag \in BOOLEAN /\ ignored \in BOOLEAN /\ torn \in BOOLEAN
      /\ caller \in {"Store", "Clean", "Load"}
      /\ resume \in {"Init", "Loop", "Handled"}
      /\ failures \in Nat /\ tail \in Indices
  BY DEF TypeOK
<1>b. ASSUME failures' = failures + 1 PROVE Cause'
  BY <1>a, <1>b DEF Cause
<1>1. CASE LoadPointers \/ LoadNothing
  BY <1>1 DEF LoadPointers, LoadNothing, Cause, Phases
<1>2. CASE LoadFails \/ ReadTailFails \/ EraseMetaFails
  BY <1>2, <1>b DEF LoadFails, ReadTailFails, EraseMetaFails
<1>3. CASE EraseFirst
  <2>1. \/ failures' = failures + 1
        \/ UNCHANGED <<failures, ignored, flag, torn, caller, resume>>
           /\ pc = "Init" /\ pc' = "ReadTail"
    BY <1>3 DEF EraseFirst
  <2> QED
    BY <1>b, <2>1 DEF Cause
<1>4. CASE KeepFirst \/ ReadTail
  BY <1>4 DEF KeepFirst, ReadTail, Cause
<1>5. CASE EraseMeta
  BY <1>5, <1>a DEF EraseMeta, Cause, Phases
<1>6. CASE WriteMeta
  <2>1. /\ pc = "WriteMeta" /\ pc' = UpdateDone[caller]
        /\ UNCHANGED <<caller, resume, flag, torn, ignored, failures>>
    BY <1>6 DEF WriteMeta
  <2> QED
    BY <1>a, <2>1, Returns DEF Cause
<1>7. CASE WriteMetaFails
  <2>1. slot[index] = NoPtr
    BY <1>7, SlotsErased DEF SlotIsErased, WriteMetaFails
  <2> QED
    BY <1>7, <1>b, <2>1 DEF WriteMetaFails
<1>8. CASE Store
  BY <1>8 DEF Store, Update, Cause
<1>9. CASE WriteEntry
  BY <1>9 DEF WriteEntry, Cause
<1>10. CASE WriteEntryFails
  <2>1. CASE entry[Before(tail)] = Erased
    BY <1>10, <1>b, <2>1 DEF WriteEntryFails
  <2>2. CASE entry[Before(tail)] # Erased
    <3>1. pc = "WriteEntry" /\ caller = "Store" /\ UNCHANGED <<failures, torn, ignored>>
          /\ pc' = "Loop"
      BY <1>10, <2>2 DEF WriteEntryFails, Phases
    <3>2. ~Room(entry, Before(tail))
      BY <1>a, <2>2, RingSteps, RoomHere
    <3>3. flag \/ torn \/ ignored
      BY <3>1, <3>2 DEF RoomRam, Steady, Sound, StorePhase
    <3>4. failures > 0 \/ torn
      BY <3>1, <3>3 DEF Cause
    <3> QED
      BY <3>1, <3>4 DEF Cause
  <2> QED
    BY <2>1, <2>2
<1>11. CASE EraseNext
  <2>1. \/ failures' = failures + 1
        \/ UNCHANGED <<failures, ignored, flag, torn, caller, resume>>
           /\ pc = "EraseNext" /\ pc' = "Loop"
    BY <1>11 DEF EraseNext
  <2> QED
    BY <1>b, <2>1 DEF Cause
<1>12. CASE EraseZero
  <2>1. \/ failures' = failures + 1
        \/ UNCHANGED <<failures, ignored, flag, torn, caller, resume>>
           /\ pc = "EraseZero" /\ pc' = "AddFault"
    BY <1>12 DEF EraseZero
  <2> QED
    BY <1>b, <2>1 DEF Cause
<1>13. CASE EraseFaults \/ AddFault
  <2>1. \/ failures' = failures + 1
        \/ /\ UNCHANGED <<failures, ignored, torn, caller, resume>> /\ pc = "AddFault"
           /\ \/ pc' = "AddFault" /\ flag' = flag
              \/ resume = "Handled" /\ flag' = FALSE /\ pc' = "Loop"
              \/ resume # "Handled" /\ pc' = resume /\ flag' = flag
    BY <1>13 DEF EraseFaults, AddFault
  <2> QED
    BY <1>a, <1>b, <2>1 DEF Cause
<1>14. CASE CleanRequest \/ HandleError
  BY <1>14 DEF CleanRequest, HandleError, Clean, Cause, Phases
<1>15. CASE NextRound
  BY <1>15 DEF NextRound, Cause
<1>16. CASE PowerLoss
  BY <1>16 DEF PowerLoss, Cause
<1>17. CASE Request
  <2>1. /\ UNCHANGED <<pc, caller, resume, torn, ignored>>
        /\ pc = "Loop"
        /\ UNCHANGED <<flag, failures>> \/ failures' = failures + 1
    BY <1>17 DEF Request
  <2> QED
    BY <1>b, <2>1 DEF Cause
<1>18. CASE UNCHANGED logVars
  BY <1>18 DEF logVars, Cause
<1> QED
  BY <1>1, <1>2, <1>3, <1>4, <1>5, <1>6, <1>7, <1>8, <1>9, <1>10, <1>11, <1>12,
     <1>13, <1>14, <1>15, <1>16, <1>17, <1>18 DEF LogOrRequest, Next, LogStep

-----------------------------------------------------------------------------
(* The order of the entries. *)

Fresh ==
    /\ \A i \in Indices : entry[i] <= stored
    /\ StorePhase => stored > 0 /\ \A i \in Indices : entry[i] < stored

Sorted ==
    /\ Steady => InOrder(entry, head, tail)
    /\ Certain => InOrder(entry, Found.head, Found.tail)

LEMMA ErasedAtMost == entry = entry' => \A i \in Indices : entry'[i] \in {Erased, entry[i]}
  OBVIOUS

LEMMA FreshStep == TypeOK /\ Phases /\ Fresh /\ LogOrRequest => Fresh'
<1> SUFFICES ASSUME TypeOK, Phases, Fresh, LogOrRequest
             PROVE  Fresh'
  OBVIOUS
<1> USE DEF StorePhase, inFlash, pointers, control, history, bounds
<1>a. /\ stored \in Nat /\ tail \in Indices /\ entry \in Entries
      /\ caller \in {"Store", "Clean", "Load"}
      /\ resume \in {"Init", "Loop", "Handled"}
      /\ \A i \in Indices : entry[i] \in Int
  BY LogConstants DEF TypeOK, Entries, Foreign
<1>b. ASSUME \A i \in Indices : entry'[i] \in {Erased, entry[i]},
             UNCHANGED stored, StorePhase' => StorePhase
      PROVE  Fresh'
  BY <1>a, <1>b DEF Fresh, Erased
<1> USE ErasedAtMost
<1>1. CASE LoadPointers \/ LoadNothing \/ LoadFails \/ ReadTailFails
  BY <1>1, <1>b DEF LoadPointers, LoadNothing, LoadFails, ReadTailFails, Clean
<1>2. CASE EraseFirst \/ EraseZero \/ EraseNext
  <2>1. \A i \in Indices : entry'[i] \in {Erased, entry[i]}
    BY <1>2, SectorErased DEF EraseFirst, EraseZero, EraseNext
  <2>2. ~StorePhase' /\ UNCHANGED stored
    BY <1>2 DEF EraseFirst, EraseZero, EraseNext
  <2> QED
    BY <1>b, <2>1, <2>2
<1>3. CASE KeepFirst \/ ReadTail
  BY <1>3, <1>b DEF KeepFirst, ReadTail
<1>4. CASE EraseMeta
  BY <1>4, <1>b DEF EraseMeta
<1>5. CASE EraseMetaFails
  <2>1. pc = "EraseMeta" /\ pc' = UpdateFailed[caller] /\ UNCHANGED <<entry, stored, caller>>
    BY <1>5 DEF EraseMetaFails
  <2> QED
    BY <1>a, <1>b, <2>1, Returns
<1>6. CASE WriteMeta
  <2>1. pc = "WriteMeta" /\ pc' = UpdateDone[caller] /\ UNCHANGED <<entry, stored, caller>>
    BY <1>6 DEF WriteMeta
  <2> QED
    BY <1>a, <1>b, <2>1, Returns
<1>7. CASE WriteMetaFails
  <2>1. pc = "WriteMeta" /\ pc' = UpdateFailed[caller] /\ UNCHANGED <<entry, stored, caller>>
    BY <1>7 DEF WriteMetaFails
  <2> QED
    BY <1>a, <1>b, <2>1, Returns
<1>8. CASE Store
  <2>1. stored' = stored + 1 /\ UNCHANGED entry
    BY <1>8 DEF Store
  <2> QED
    BY <1>a, <2>1 DEF Fresh
<1>9. CASE WriteEntry
  <2>1. entry' = [entry EXCEPT ![Before(tail)] = stored] /\ UNCHANGED stored /\ ~StorePhase'
    BY <1>9 DEF WriteEntry
  <2>2. \A i \in Indices : entry'[i] \in {stored, entry[i]}
    BY <1>a, <2>1 DEF Entries
  <2> QED
    BY <1>a, <2>1, <2>2 DEF Fresh
<1>10. CASE WriteEntryFails
  BY <1>10, <1>b DEF WriteEntryFails
<1>11. CASE EraseFaults \/ AddFault
  BY <1>11, <1>a, <1>b DEF EraseFaults, AddFault
<1>12. CASE CleanRequest \/ HandleError \/ NextRound
  BY <1>12, <1>b DEF CleanRequest, HandleError, NextRound, Clean
<1>13. CASE PowerLoss \/ Request \/ UNCHANGED logVars
  BY <1>13, <1>b DEF PowerLoss, Request, logVars
<1> QED
  BY <1>1, <1>2, <1>3, <1>4, <1>5, <1>6, <1>7, <1>8, <1>9, <1>10, <1>11, <1>12,
     <1>13 DEF LogOrRequest, Next, LogStep

LEMMA SortedStep ==
  /\ TypeOK /\ Ordered /\ Current /\ Phases /\ CleanFound /\ RoomRam /\ Fresh /\ Sorted
  /\ LogOrRequest /\ TypeOK'
  => Sorted'
<1> SUFFICES ASSUME TypeOK, Ordered, Current, Phases, CleanFound, RoomRam, Fresh, Sorted,
                    LogOrRequest, TypeOK'
             PROVE  Sorted'
  OBVIOUS
<1> USE ErasedAtMost
    DEF Steady, Sound, Certain, Anew, inFlash, pointers, control, history, bounds
<1>a. /\ flag \in BOOLEAN /\ ignored \in BOOLEAN /\ torn \in BOOLEAN
      /\ caller \in {"Store", "Clean", "Load"}
      /\ resume \in {"Init", "Loop", "Handled"}
      /\ head \in Indices /\ tail \in Indices /\ 0 \in Indices
      /\ entry \in Entries
  BY SizePositive DEF TypeOK, Entries
<1>c. entry' \in Entries
  BY DEF TypeOK, Entries
<1>b. ASSUME UNCHANGED slot, \A i \in Indices : entry'[i] \in {Erased, entry[i]},
             Certain' => Certain,
             (head' = 0 /\ tail' = 0) \/ (UNCHANGED <<head, tail>> /\ (Steady' => Steady))
      PROVE  Sorted'
  <2>1. Steady' => InOrder(entry', head', tail')
    <3>1. CASE head' = 0 /\ tail' = 0
      BY <1>a, <3>1, InOrderEmpty
    <3>2. CASE UNCHANGED <<head, tail>> /\ (Steady' => Steady)
      BY <1>a, <1>b, <1>c, <3>2, InOrderErased DEF Sorted
    <3> QED
      BY <1>b, <3>1, <3>2
  <2>2. Certain' => InOrder(entry', Found'.head, Found'.tail)
    BY <1>a, <1>b, <1>c, InOrderErased, FoundKept, FoundTyped DEF Sorted
  <2> QED
    BY <2>1, <2>2 DEF Sorted
<1>1. CASE LoadPointers
  <2>1. /\ head' = Found.head /\ tail' = Found.tail /\ UNCHANGED <<slot, entry>>
        /\ ~flag /\ UNCHANGED <<flag, torn, ignored>>
    BY <1>1 DEF LoadPointers, Found, Phases
  <2> QED
    BY <2>1, FoundKept DEF Sorted
<1>2. CASE LoadNothing \/ LoadFails \/ ReadTailFails
  BY <1>2, <1>b DEF LoadNothing, LoadFails, ReadTailFails, Clean, Phases
<1>3. CASE EraseFirst \/ EraseZero
  <2>1. \A i \in Indices : entry'[i] \in {Erased, entry[i]}
    BY <1>3, SectorErased DEF EraseFirst, EraseZero
  <2>2. /\ UNCHANGED <<slot, head, tail, flag, torn, caller>>
        /\ ignored' = ignored \/ ignored' = TRUE
        /\ pc # "EraseMeta"
    BY <1>3 DEF EraseFirst, EraseZero
  <2> QED
    BY <1>a, <1>b, <2>1, <2>2
<1>4. CASE KeepFirst \/ ReadTail
  BY <1>4, <1>b DEF KeepFirst, ReadTail
<1>5. CASE EraseMeta
  <2>1. /\ Found' = Origin /\ UNCHANGED <<entry, head, tail, flag, caller>>
        /\ caller = "Store" => UNCHANGED <<torn, ignored>>
    BY <1>5, FoundErased DEF EraseMeta
  <2>2. Found'.head = 0 /\ Found'.tail = 0
    BY <2>1 DEF Origin
  <2>3. InOrder(entry', Found'.head, Found'.tail)
    BY <1>a, <2>2, InOrderEmpty
  <2>4. Steady' => InOrder(entry', head', tail')
    <3>1. CASE caller = "Store"
      BY <2>1, <3>1 DEF Sorted
    <3>2. CASE caller # "Store"
      <4>1. head = 0 /\ tail = 0
        BY <1>5, <1>a, <3>2 DEF EraseMeta, Phases
      <4> QED
        BY <1>a, <2>1, <4>1, InOrderEmpty
    <3> QED
      BY <3>1, <3>2
  <2> QED
    BY <2>3, <2>4 DEF Sorted
<1>6. CASE EraseMetaFails
  BY <1>6, <1>a, <1>b DEF EraseMetaFails
<1>7. CASE WriteMeta
  <2>1. /\ Found' = [head |-> head, tail |-> tail]
        /\ UNCHANGED <<head, tail, entry, flag, torn, ignored, caller>>
    BY <1>7, WrittenIsLast DEF WriteMeta
  <2>2. caller = "Clean" => head = 0 /\ tail = 0
    BY DEF Phases
  <2>3. Certain' => InOrder(entry, head, tail)
    BY <1>a, <2>1, <2>2, InOrderEmpty DEF Sorted
  <2> QED
    BY <2>1, <2>3 DEF Sorted
<1>8. CASE WriteMetaFails
  <2>1. /\ pc = "WriteMeta" /\ flag' = TRUE /\ UNCHANGED <<slot, caller, entry>>
        /\ ignored => ignored'
    BY <1>8 DEF WriteMetaFails
  <2>2. Certain' => Found' = Origin
    BY <2>1, FoundKept DEF CleanFound
  <2> QED
    BY <1>a, <2>1, <2>2, InOrderEmpty DEF Sorted, Origin
<1>9. CASE Store
  <2>1. /\ pc = "Loop" /\ tail' = After(tail) /\ head' = Oldest(head, After(tail))
        /\ caller' = "Store" /\ UNCHANGED <<slot, entry, flag, torn, ignored>>
    BY <1>9 DEF Store, Oldest
  <2>2. Steady' => entry[tail] = Erased
    BY <1>a, <2>1, RoomHere DEF RoomRam
  <2>3. Steady' => InOrder(entry', head', tail')
    BY <1>a, <2>1, <2>2, InOrderGrows DEF Sorted
  <2> QED
    BY <2>1, <2>3, FoundKept DEF Sorted
<1>10. CASE WriteEntry
  <2>1. /\ pc = "WriteEntry" /\ caller = "Store"
        /\ entry' = [entry EXCEPT ![Before(tail)] = stored]
        /\ UNCHANGED <<slot, head, tail, caller, flag, torn, ignored>>
    BY <1>10 DEF WriteEntry, Phases
  <2>2. stored \in Nat /\ \A i \in Indices : entry[i] < stored
    BY <2>1, LogConstants DEF Fresh, StorePhase, TypeOK
  <2>3. Steady => InOrder(entry', head, tail)
    BY <1>a, <2>1, <2>2, InOrderWritten DEF Sorted
  <2>4. Certain' => Steady /\ Found' = [head |-> head, tail |-> tail]
    BY <2>1, FoundKept DEF Current
  <2> QED
    BY <2>1, <2>3, <2>4 DEF Sorted
<1>11. CASE WriteEntryFails
  BY <1>11, <1>b DEF WriteEntryFails, Phases
<1>12. CASE EraseNext
  <2>1. \A i \in Indices : entry'[i] \in {Erased, entry[i]}
    BY <1>12, SectorErased DEF EraseNext
  <2>2. /\ UNCHANGED <<slot, head, tail, torn, caller, ignored>> /\ flag' \in {flag, TRUE}
        /\ caller = "Store"
    BY <1>12 DEF EraseNext, Phases
  <2> QED
    BY <1>a, <1>b, <2>1, <2>2
<1>13. CASE EraseFaults \/ AddFault
  <2>1. /\ pc = "AddFault" /\ caller = "Clean" /\ head = 0 /\ tail = 0
        /\ UNCHANGED <<slot, entry, head, tail, caller, torn, ignored>>
    BY <1>13, <1>a DEF EraseFaults, AddFault, Phases
  <2> QED
    BY <1>b, <2>1
<1>14. CASE CleanRequest \/ HandleError
  BY <1>14, <1>b DEF CleanRequest, HandleError, Clean
<1>15. CASE NextRound
  BY <1>15, <1>b DEF NextRound
<1>16. CASE PowerLoss
  BY <1>16, <1>b DEF PowerLoss
<1>17. CASE Request
  <2>1. UNCHANGED <<slot, entry, head, tail, pc, caller, torn, ignored>>
        /\ flag' \in {flag, TRUE}
    BY <1>17 DEF Request
  <2> QED
    BY <1>b, <2>1
<1>18. CASE UNCHANGED logVars
  BY <1>18, <1>b DEF logVars
<1> QED
  BY <1>1, <1>2, <1>3, <1>4, <1>5, <1>6, <1>7, <1>8, <1>9, <1>10, <1>11, <1>12,
     <1>13, <1>14, <1>15, <1>16, <1>17, <1>18 DEF LogOrRequest, Next, LogStep

-----------------------------------------------------------------------------
(* A store in progress. *)

(* Until the new pointers are in a slot, those of before the store are.    *)
Pending ==
    (Steady /\ caller = "Store" /\ pc \in {"EraseMeta", "WriteMeta"} /\ ValidSlots # {})
        => /\ tail = After(Found.tail)
           /\ head = Oldest(Found.head, tail)

LEMMA PendingStep ==
  TypeOK /\ Ordered /\ Current /\ Phases /\ Pending /\ LogOrRequest => Pending'
<1> SUFFICES ASSUME TypeOK, Ordered, Current, Phases, Pending, LogOrRequest
             PROVE  Pending'
  OBVIOUS
<1> USE DEF Steady, Sound, inFlash, pointers, control, history, bounds
<1>a. /\ caller \in {"Store", "Clean", "Load"}
      /\ resume \in {"Init", "Loop", "Handled"}
  BY DEF TypeOK
<1>b. ASSUME pc' \notin {"EraseMeta", "WriteMeta"} \/ caller' # "Store" PROVE Pending'
  BY <1>b DEF Pending
<1>1. CASE LoadPointers \/ LoadNothing \/ LoadFails \/ ReadTailFails
  BY <1>1, <1>b DEF LoadPointers, LoadNothing, LoadFails, ReadTailFails, Clean
<1>2. CASE EraseFirst \/ KeepFirst \/ ReadTail
  BY <1>2, <1>b DEF EraseFirst, KeepFirst, ReadTail
<1>3. CASE EraseMeta
  BY <1>3, FoundErased DEF Pending
<1>4. CASE EraseMetaFails \/ WriteMetaFails
  BY <1>4, <1>a, <1>b, Returns DEF EraseMetaFails, WriteMetaFails
<1>5. CASE WriteMeta
  BY <1>5, <1>a, <1>b, Returns DEF WriteMeta
<1>6. CASE Store
  <2>1. /\ pc = "Loop" /\ tail' = After(tail) /\ head' = Oldest(head, tail')
        /\ UNCHANGED <<slot, flag, torn, ignored>>
    BY <1>6 DEF Store, Oldest
  <2>2. Steady' => Found' = [head |-> head, tail |-> tail]
    BY <2>1, FoundKept DEF Current
  <2> QED
    BY <2>1, <2>2 DEF Pending
<1>7. CASE WriteEntry \/ WriteEntryFails \/ EraseNext
  BY <1>7, <1>b DEF WriteEntry, WriteEntryFails, EraseNext
<1>8. CASE EraseZero \/ EraseFaults \/ AddFault
  BY <1>8, <1>a, <1>b DEF EraseZero, EraseFaults, AddFault
<1>9. CASE CleanRequest \/ HandleError \/ NextRound
  BY <1>9, <1>b DEF CleanRequest, HandleError, NextRound, Clean
<1>10. CASE PowerLoss \/ Request
  BY <1>10, <1>b DEF PowerLoss, Request
<1>11. CASE UNCHANGED logVars
  BY <1>11, FoundKept DEF logVars, Pending
<1> QED
  BY <1>1, <1>2, <1>3, <1>4, <1>5, <1>6, <1>7, <1>8, <1>9, <1>10, <1>11
     DEF LogOrRequest, Next, LogStep

-----------------------------------------------------------------------------
(* Without losses of power, failures and requests to clean the log. *)

NoTrouble == losses = 0 /\ failures = 0 /\ cleans = 0

Quiet ==
    /\ torn => losses > 0
    /\ NoTrouble => caller # "Clean"
    /\ losses = 0 /\ pc = "Load" => ValidSlots = {}

(* Then the log is never cleaned, and no error is marked.                  *)
LEMMA Undisturbed == Quiet /\ Cause /\ NoTrouble => Steady /\ caller # "Clean"
  BY DEF Quiet, Cause, NoTrouble, Steady, Sound, Handling

LEMMA TroubleStays ==
  TypeOK /\ LogOrRequest /\ NoTrouble'
    => NoTrouble /\ UNCHANGED failures /\ ~PowerLoss /\ ~CleanRequest
<1> SUFFICES ASSUME TypeOK, LogOrRequest, NoTrouble'
             PROVE  NoTrouble /\ UNCHANGED failures /\ ~PowerLoss /\ ~CleanRequest
  OBVIOUS
<1>1. losses \in Nat /\ failures \in Nat /\ cleans \in Nat
  BY LogConstants DEF TypeOK
<1>2. losses' = losses \/ (losses' = losses + 1 /\ PowerLoss)
  BY DEF LogOrRequest, Next, LogStep, PowerLoss, Request, logVars, bounds,
         LoadPointers, LoadNothing, LoadFails, EraseFirst, KeepFirst, ReadTail,
         ReadTailFails, EraseMeta, EraseMetaFails, WriteMeta, WriteMetaFails, Store,
         WriteEntry, WriteEntryFails, EraseNext, EraseZero, EraseFaults, AddFault,
         CleanRequest, NextRound, HandleError
<1>3. failures' = failures \/ failures' = failures + 1
  BY DEF LogOrRequest, Next, LogStep, PowerLoss, Request, logVars, bounds, Works, Fails,
         LoadPointers, LoadNothing, LoadFails, EraseFirst, KeepFirst, ReadTail,
         ReadTailFails, EraseMeta, EraseMetaFails, WriteMeta, WriteMetaFails, Store,
         WriteEntry, WriteEntryFails, EraseNext, EraseZero, EraseFaults, AddFault,
         CleanRequest, NextRound, HandleError
<1>4. cleans' = cleans \/ (cleans' = cleans + 1 /\ CleanRequest)
  BY DEF LogOrRequest, Next, LogStep, PowerLoss, Request, logVars, bounds,
         LoadPointers, LoadNothing, LoadFails, EraseFirst, KeepFirst, ReadTail,
         ReadTailFails, EraseMeta, EraseMetaFails, WriteMeta, WriteMetaFails, Store,
         WriteEntry, WriteEntryFails, EraseNext, EraseZero, EraseFaults, AddFault,
         CleanRequest, NextRound, HandleError
<1>5. (PowerLoss => losses' = losses + 1) /\ (CleanRequest => cleans' = cleans + 1)
  BY DEF PowerLoss, CleanRequest
<1> QED
  BY <1>1, <1>2, <1>3, <1>4, <1>5 DEF NoTrouble

LEMMA QuietStep ==
  TypeOK /\ Ordered /\ Phases /\ Cause /\ Quiet /\ LogOrRequest => Quiet'
<1> SUFFICES ASSUME TypeOK, Ordered, Phases, Cause, Quiet, LogOrRequest
             PROVE  Quiet'
  OBVIOUS
<1> USE FoundKept DEF inFlash, pointers, control, history, bounds
<1>a. losses \in Nat /\ failures \in Nat /\ torn \in BOOLEAN
      /\ resume \in {"Init", "Loop", "Handled"}
      /\ caller \in {"Store", "Clean", "Load"}
  BY LogConstants DEF TypeOK
<1>b. NoTrouble' => NoTrouble /\ UNCHANGED failures
  BY TroubleStays
<1>c. ASSUME UNCHANGED <<losses, torn>>, caller' \in {caller, "Store", "Load"},
             pc' # "Load" \/ (pc = "Load" /\ UNCHANGED slot)
      PROVE  Quiet'
  BY <1>b, <1>c DEF Quiet
<1>1. CASE LoadPointers \/ LoadNothing
  BY <1>1, <1>c DEF LoadPointers, LoadNothing
<1>2. CASE LoadFails \/ ReadTailFails
  <2>1. failures' = failures + 1 /\ UNCHANGED <<losses, torn>> /\ pc' = "EraseMeta"
    BY <1>2 DEF LoadFails, ReadTailFails, Fails, Clean
  <2> QED
    BY <1>a, <1>b, <2>1 DEF Quiet
<1>3. CASE EraseFirst \/ KeepFirst \/ ReadTail
  BY <1>3, <1>c DEF EraseFirst, KeepFirst, ReadTail
<1>4. CASE EraseMeta
  <2>1. /\ UNCHANGED <<losses, caller>> /\ pc' = "WriteMeta"
        /\ torn' = torn \/ torn' = FALSE
    BY <1>4 DEF EraseMeta
  <2> QED
    BY <1>a, <1>b, <2>1 DEF Quiet
<1>5. CASE EraseMetaFails
  <2>1. UNCHANGED <<losses, torn, caller>> /\ pc' = UpdateFailed[caller]
    BY <1>5 DEF EraseMetaFails
  <2> QED
    BY <1>a, <1>c, <2>1, Returns
<1>6. CASE WriteMeta
  <2>1. UNCHANGED <<losses, torn, caller>> /\ pc' = UpdateDone[caller]
    BY <1>6 DEF WriteMeta
  <2> QED
    BY <1>a, <1>c, <2>1, Returns
<1>7. CASE WriteMetaFails
  <2>1. UNCHANGED <<losses, torn, caller>> /\ pc' = UpdateFailed[caller]
    BY <1>7 DEF WriteMetaFails
  <2> QED
    BY <1>a, <1>c, <2>1, Returns
<1>8. CASE Store
  BY <1>8, <1>c DEF Store, Update
<1>9. CASE WriteEntry \/ WriteEntryFails \/ EraseNext
  BY <1>9, <1>c DEF WriteEntry, WriteEntryFails, EraseNext
<1>10. CASE EraseZero \/ EraseFaults \/ AddFault
  BY <1>10, <1>a, <1>c DEF EraseZero, EraseFaults, AddFault
<1>11. CASE CleanRequest
  <2>1. ~NoTrouble' /\ UNCHANGED <<losses, torn>> /\ pc' = "EraseMeta"
    BY <1>11, TroubleStays DEF CleanRequest, Clean
  <2> QED
    BY <2>1 DEF Quiet
<1>12. CASE HandleError
  <2>1. flag /\ UNCHANGED <<losses, torn>> /\ pc' = "EraseMeta"
    BY <1>12 DEF HandleError, Clean
  <2>2. ~NoTrouble
    BY <2>1, Undisturbed DEF Steady
  <2> QED
    BY <1>b, <2>1, <2>2 DEF Quiet
<1>13. CASE NextRound
  BY <1>13, <1>c DEF NextRound
<1>14. CASE PowerLoss
  <2>1. losses' = losses + 1
    BY <1>14 DEF PowerLoss
  <2>2. losses' > 0 /\ ~NoTrouble'
    BY <1>a, <2>1 DEF NoTrouble
  <2> QED
    BY <1>a, <2>1, <2>2 DEF Quiet
<1>15. CASE Request
  BY <1>15, <1>c DEF Request
<1>16. CASE UNCHANGED logVars
  BY <1>16, <1>c DEF logVars
<1> QED
  BY <1>1, <1>2, <1>3, <1>4, <1>5, <1>6, <1>7, <1>8, <1>9, <1>10, <1>11, <1>12,
     <1>13, <1>14, <1>15, <1>16 DEF LogOrRequest, Next, LogStep

-----------------------------------------------------------------------------
(* The newest entries. *)

LEMMA DistanceGrows ==
  ASSUME NEW h \in Indices, NEW t \in Indices,
         NEW i \in Window(Oldest(h, After(t)), After(t)), i # t
  PROVE  i \in Window(h, t) /\ Distance(i, After(t)) = Distance(i, t) + 1
<1>1. i \in Window(h, t) /\ i \in Indices
  BY WindowGrows DEF Window
<1>2. After(t) \in Indices /\ i # After(t)
  BY OldestTyped, RingSteps, LastInWindow
<1> QED
  BY <1>1, <1>2, SizePositive DEF Distance, After

LEMMA DistanceToNext ==
  ASSUME NEW t \in Indices PROVE Distance(Before(t), t) = 1
  BY SizePositive DEF Before, Distance

(* What is erased to make room is not in the log.                          *)
LEMMA WindowNotErased ==
  ASSUME NEW h \in Indices, NEW t \in Indices, Aligned(h), Aligned(t), NEW i \in Window(h, t)
  PROVE  i \notin SectorOf(t)
<1> SUFFICES ASSUME i \in SectorOf(t) PROVE FALSE
  OBVIOUS
<1>1. t <= i /\ i < t + PerSector /\ i \in Indices
  BY SectorRange
<1>2. h > t => h >= t + PerSector
  BY Apart
<1> QED
  BY <1>1, <1>2, SizePositive DEF Window

(* A store drops no more than a sector.                                    *)
LEMMA LengthGrows ==
  ASSUME NEW h \in Indices, NEW t \in Indices, NEW n \in Nat,
         (h = 0 /\ t = n) \/ Distance(h, t) >= Size - PerSector
  PROVE  LET u == After(t) g == Oldest(h, u)
         IN  (g = 0 /\ u = n + 1) \/ Distance(g, u) >= Size - PerSector
<1> DEFINE u == After(t)
           g == Oldest(h, u)
<1>1. CASE u = h
  BY <1>1, SizePositive DEF Oldest, Skip, After, Distance
<1>2. CASE u # h
  BY <1>2, SizePositive DEF Oldest, After, Distance
<1> QED
  BY <1>1, <1>2

(* An entry is as far from the tail as it is old.                          *)
Newest == NoTrouble =>
    /\ \A i \in Window(head, tail) :
         (StorePhase /\ i = Before(tail)) \/ entry[i] = stored + 1 - Distance(i, tail)
    /\ (head = 0 /\ tail = stored) \/ Distance(head, tail) >= Size - PerSector

LEMMA NewestStep ==
  /\ TypeOK /\ Ordered /\ Phases /\ Heads /\ Cause /\ Quiet /\ RoomRam /\ Newest /\ LogOrRequest
  /\ Quiet' /\ Cause'
  => Newest'
<1> SUFFICES ASSUME TypeOK, Ordered, Phases, Heads, Cause, Quiet, RoomRam, Newest, LogOrRequest,
                    Quiet', Cause', NoTrouble'
             PROVE  Newest'
  BY DEF Newest
<1> USE DEF StorePhase, inFlash, pointers, control, history, bounds
<1>a. /\ NoTrouble /\ failures' = failures /\ failures \in Int
      /\ ~PowerLoss /\ ~CleanRequest
  BY TroubleStays, LogConstants DEF TypeOK
<1>b. /\ head \in Indices /\ tail \in Indices /\ entry \in Entries /\ stored \in Nat
      /\ caller \in {"Store", "Clean", "Load"}
  BY LogConstants DEF TypeOK, Entries
<1>c. Steady /\ Steady' /\ caller # "Clean" /\ caller' # "Clean"
  BY <1>a, Undisturbed DEF Quiet, Cause, NoTrouble, Steady, Sound, Handling
<1>d. ~Fails
  BY <1>a DEF Fails
<1>e. ASSUME UNCHANGED <<entry, head, tail, stored>>, StorePhase' = StorePhase PROVE Newest'
  BY <1>a, <1>e DEF Newest
<1>1. CASE LoadPointers
  BY <1>1, <1>a DEF LoadPointers, Quiet, NoTrouble
<1>2. CASE LoadNothing
  BY <1>2, <1>e DEF LoadNothing, Phases
<1>3. CASE LoadFails \/ ReadTailFails \/ EraseMetaFails
  BY <1>3, <1>d DEF LoadFails, ReadTailFails, EraseMetaFails
<1>4. CASE EraseFirst
  <2>1. head = 0 /\ tail = 0 /\ UNCHANGED <<head, tail, stored>>
    BY <1>4 DEF EraseFirst
  <2> QED
    BY <1>a, <1>b, <2>1, WindowEmpty DEF Newest
<1>5. CASE KeepFirst \/ ReadTail
  BY <1>5, <1>e DEF KeepFirst, ReadTail
<1>6. CASE EraseMeta
  BY <1>6, <1>e DEF EraseMeta
<1>7. CASE WriteMeta
  BY <1>7, <1>b, <1>c, <1>e, Returns DEF WriteMeta
<1>8. CASE WriteMetaFails \/ WriteEntryFails
  BY <1>8, <1>c DEF WriteMetaFails, WriteEntryFails, Steady
<1>9. CASE Store
  <2> DEFINE u == After(tail)
             g == Oldest(head, u)
  <2>1. /\ tail' = u /\ head' = g /\ stored' = stored + 1 /\ entry' = entry
        /\ StorePhase' /\ ~StorePhase /\ Before(u) = tail
    BY <1>9, <1>b, AfterBefore DEF Store, Oldest, Update
  <2>2. ASSUME NEW i \in Window(g, u), i # tail
        PROVE  entry'[i] = stored' + 1 - Distance(i, u)
    <3>1. i \in Window(head, tail) /\ Distance(i, u) = Distance(i, tail) + 1
          /\ Distance(i, tail) \in Int
      BY <1>b, <2>2, DistanceGrows, DistanceTyped DEF Window
    <3> QED
      BY <1>a, <1>b, <2>1, <3>1 DEF Newest
  <2>3. (g = 0 /\ u = stored + 1) \/ Distance(g, u) >= Size - PerSector
    BY <1>a, <1>b, LengthGrows DEF Newest
  <2> HIDE DEF u, g
  <2> QED
    BY <2>1, <2>2, <2>3 DEF Newest
<1>10. CASE WriteEntry
  <2>1. /\ entry' = [entry EXCEPT ![Before(tail)] = stored]
        /\ UNCHANGED <<head, tail, stored>> /\ StorePhase
    BY <1>10 DEF WriteEntry, Phases
  <2>2. ASSUME NEW i \in Window(head, tail)
        PROVE  entry'[i] = stored + 1 - Distance(i, tail)
    <3>1. CASE i = Before(tail)
      BY <1>b, <2>1, <3>1, DistanceToNext, RingSteps DEF Entries
    <3>2. CASE i # Before(tail)
      BY <1>a, <1>b, <2>1, <3>2 DEF Newest, Entries, Window
    <3> QED
      BY <3>1, <3>2
  <2> QED
    BY <1>a, <2>1, <2>2 DEF Newest
<1>11. CASE EraseNext
  <2>1. /\ entry' = EraseSector(tail) /\ UNCHANGED <<head, tail, stored>>
        /\ ~StorePhase
    BY <1>11, <1>d DEF EraseNext
  <2>2. ASSUME NEW i \in Window(head, tail) PROVE entry'[i] = entry[i]
    BY <1>b, <1>11, <2>1, <2>2, WindowNotErased DEF EraseSector, Window, Heads, EraseNext
  <2> QED
    BY <1>a, <2>1, <2>2 DEF Newest
<1>12. CASE EraseZero \/ EraseFaults \/ AddFault
  BY <1>12, <1>c DEF EraseZero, EraseFaults, AddFault, Phases
<1>13. CASE CleanRequest \/ PowerLoss
  BY <1>13, <1>a
<1>14. CASE HandleError
  BY <1>14, <1>c DEF HandleError, Steady
<1>15. CASE NextRound \/ Request \/ UNCHANGED logVars
  BY <1>15, <1>e DEF NextRound, Request, logVars
<1> QED
  BY <1>1, <1>2, <1>3, <1>4, <1>5, <1>6, <1>7, <1>8, <1>9, <1>10, <1>11, <1>12,
     <1>13, <1>14, <1>15 DEF LogOrRequest, Next, LogStep

-----------------------------------------------------------------------------
(* The inductive invariant and what it says. *)

RingInv ==
    /\ TypeOK /\ Ordered /\ Current
    /\ Phases /\ Heads /\ CleanFound
    /\ RoomRam /\ RoomFound
    /\ Cause /\ Fresh /\ Sorted /\ Pending
    /\ Quiet /\ Newest

LEMMA RingInit == DownloadInit => RingInv
<1> SUFFICES ASSUME Init PROVE RingInv
  BY DEF DownloadInit
<1>1. TypeOK /\ Ordered /\ Current /\ Phases /\ Heads /\ CleanFound /\ RoomRam /\ RoomFound
  BY TypeInit, OrderedInit, CurrentInit, PhasesInit, HeadsInit, RoomInit
<1>2. Found.head = 0 /\ Found.tail = 0 /\ head = 0 /\ tail = 0 /\ 0 \in Indices
      /\ ValidSlots = {}
  BY SizePositive DEF Init, Found, ValidSlots
<1>3. Sorted /\ Newest
  BY <1>2, InOrderEmpty, WindowEmpty DEF Sorted, Newest, Init
<1>4. Cause /\ Fresh /\ Pending /\ Quiet
  BY <1>2 DEF Init, Cause, Fresh, Pending, Quiet, StorePhase, Foreign
<1> QED
  BY <1>1, <1>3, <1>4 DEF RingInv

LEMMA RingStep == RingInv /\ LogOrRequest => RingInv'
<1> SUFFICES ASSUME RingInv, LogOrRequest PROVE RingInv'
  OBVIOUS
<1> USE DEF RingInv
<1>1. TypeOK' /\ Ordered' /\ Current'
  BY TypeStep, OrderedStep, CurrentStep
<1>2. Phases' /\ Heads' /\ CleanFound'
  BY PhasesStep, HeadsStep, CleanFoundStep
<1>3. RoomRam' /\ RoomFound'
  BY RoomRamStep, RoomFoundStep
<1>4. Cause' /\ Fresh' /\ Pending' /\ Quiet'
  BY CauseStep, FreshStep, PendingStep, QuietStep
<1>5. Sorted' /\ Newest'
  BY <1>1, <1>4, SortedStep, NewestStep
<1> QED
  BY <1>1, <1>2, <1>3, <1>4, <1>5

LEMMA RingAlways == DownloadSpec => []RingInv
<1>1. RingInv /\ [DownloadNext]_allVars => RingInv'
  BY DownloadSteps, RingStep DEF RingInv
<1> QED
  BY <1>1, RingInit, PTL DEF DownloadSpec

(* Between two requests, if nothing was left over by a failure, the place  *)
(* of the next entry and the rest of its sector are erased: through any    *)
(* wraps of the ring, cleans and restarts.                                 *)
THEOREM RoomAtTailAlways == DownloadSpec => []RoomAtTail
<1>1. RingInv => RoomAtTail
  BY DEF RingInv, RoomRam, RoomAtTail, AtRest, Steady, Room
<1> QED
  BY <1>1, RingAlways, PTL

(* Whatever was in flash before and wherever the ring wraps or is cleaned, *)
(* the log from head to tail is in the order in which it was stored.       *)
THEOREM LogInOrderAlways == DownloadSpec => []LogInOrder
<1>1. RingInv => LogInOrder
  BY DEF RingInv, Sorted, LogInOrder, AtRest, Steady, InOrder
<1> QED
  BY <1>1, RingAlways, PTL

(* An error is marked only after an operation failed or power was lost at  *)
(* the end of a sector: no schedule of stores, requests and restarts alone *)
(* makes handle_error() wipe the log.                                      *)
THEOREM WipeHasCauseAlways == DownloadSpec => []WipeHasCause
<1>1. RingInv => WipeHasCause
  BY DEF RingInv, Cause, Handling, WipeHasCause
<1> QED
  BY <1>1, RingAlways, PTL

(* At every step of a store a restart finds all of the entries that the    *)
(* store keeps, except between the erase of the slots and the writing of   *)
(* the first of them.                                                      *)
THEOREM StoreKeepsLogAlways == DownloadSpec => []StoreKeepsLog
<1>1. ASSUME RingInv PROVE StoreKeepsLog
  <2> SUFFICES ASSUME caller = "Store", pc # "Load", Steady, ValidSlots # {}
               PROVE  Ids(head, tail) \subseteq Ids(Found.head, Found.tail)
    BY DEF StoreKeepsLog, Steady
  <2> USE <1>1 DEF RingInv
  <2>1. CASE pc \in {"EraseMeta", "WriteMeta"}
    <3> DEFINE h == Found.head
               t == Found.tail
    <3>1. h \in Indices /\ t \in Indices
      BY FoundTyped
    <3>2. tail = After(t) /\ head = Oldest(h, tail)
      BY <2>1 DEF Pending
    <3>3. Window(head, tail) \subseteq Window(h, t) \cup {t}
      BY <3>1, <3>2, WindowGrows
    <3>4. entry[t] = Erased
      <4>1. Before(tail) = t
        BY <3>1, <3>2, AfterBefore
      <4>2. Room(entry, t)
        BY <2>1, <4>1 DEF RoomRam, StorePhase
      <4> QED
        BY <3>1, <4>2, RoomHere
    <3> HIDE DEF h, t
    <3>5. Ids(head, tail) \subseteq Ids(h, t)
      BY <3>3, <3>4 DEF Ids
    <3> QED
      BY <3>5 DEF h, t
  <2>2. CASE pc \in {"Init", "ReadTail", "Loop", "WriteEntry", "EraseNext"}
    <3>1. Found = [head |-> head, tail |-> tail]
      BY <2>2 DEF Current, Steady, Sound
    <3>2. Found.head = head /\ Found.tail = tail
      BY <3>1
    <3> QED
      BY <3>2
  <2>3. pc \in {"EraseMeta", "WriteMeta", "Init", "ReadTail", "Loop", "WriteEntry", "EraseNext"}
    BY DEF TypeOK, Phases
  <2> QED
    BY <2>1, <2>2, <2>3
<1> QED
  BY <1>1, RingAlways, PTL

(* As long as nothing fails, the log holds the newest entries, as many as  *)
(* fit in all sectors but one, for any number of stores.                   *)
THEOREM HoldsNewestAlways == DownloadSpec => []HoldsNewest
<1>1. ASSUME RingInv PROVE HoldsNewest
  <2> SUFFICES ASSUME AtRest, NoTrouble, NEW n \in 1 .. stored,
                      n > stored - (Sectors - 1) * PerSector
               PROVE  n \in Ids(head, tail)
    BY DEF HoldsNewest, NoTrouble
  <2> USE <1>1 DEF RingInv
  <2> DEFINE d == stored + 1 - n
             i == IF d <= tail THEN tail - d ELSE tail - d + Size
  <2>1. /\ stored \in Nat /\ head \in Indices /\ tail \in Indices
        /\ (Sectors - 1) * PerSector = Size - PerSector
    BY LogConstants DEF TypeOK, Size
  <2>2. d \in Nat /\ d >= 1 /\ d <= stored /\ d <= Size - PerSector /\ n = stored + 1 - d
    BY <2>1, SizePositive
  <2>3. d <= Distance(head, tail)
    <3>1. (head = 0 /\ tail = stored) \/ Distance(head, tail) >= Size - PerSector
      BY DEF Newest
    <3>2. Distance(head, tail) \in Int
      BY <2>1, DistanceTyped
    <3> QED
      BY <2>1, <2>2, <3>1, <3>2, SizePositive DEF Distance
  <2> HIDE DEF d
  <2>4. i \in Window(head, tail) /\ Distance(i, tail) = d
    BY <2>1, <2>2, <2>3, SizePositive DEF Window, Distance
  <2>5. entry[i] = n
    <3>1. ~StorePhase
      BY DEF AtRest, StorePhase
    <3>2. entry[i] = stored + 1 - Distance(i, tail)
      BY <2>4, <3>1 DEF Newest
    <3> QED
      BY <2>1, <2>2, <2>4, <3>2
  <2> HIDE DEF i
  <2> QED
    BY <2>4, <2>5 DEF Ids, Erased
<1> QED
  BY <1>1, RingAlways, PTL
=============================================================================
