--------------------------- MODULE FwImage_proofs ---------------------------
(***************************************************************************)
(* The image a download writes, for any sizes of the image, the buffer and *)
(* the sectors: what the device reports as transferred is in flash unit by *)
(* unit.  At every moment of a download that met none of the cases left    *)
(* out, what was written is a prefix of the image, the buffer holds what   *)
(* follows it, and the rest of the sector that was begun is erased.        *)
(***************************************************************************)
EXTENDS FwUpdate_proofs

(* Arithmetic of sizes. *)

LEMMA DivModOf ==
  ASSUME NEW n \in Int, NEW p \in Int, p > 0,
         NEW q \in Int, q = n \div p, NEW r \in Int, r = n % p
  PROVE  n = p * q + r
  BY SMTT(30)

LEMMA DivMod ==
  ASSUME NEW n \in Nat, NEW p \in Nat \ {0}
  PROVE  \E q \in Nat, r \in 0 .. p - 1 : n = p * q + r /\ r = n % p
<1> DEFINE q == n \div p
           r == n % p
<1>1. q \in Nat /\ r \in 0 .. p - 1 /\ q = n \div p /\ r = n % p
  OBVIOUS
<1> HIDE DEF q, r
<1>2. n = p * q + r
  BY <1>1, DivModOf
<1> QED
  BY <1>1, <1>2

LEMMA MultipleGap ==
  ASSUME NEW p \in Nat \ {0}, NEW x \in Int, NEW y \in Int, p * x > p * y
  PROVE  p * x >= p * y + p
<1>1. CASE x - y >= 1
  <2>1. p * (x - y) >= p /\ p * (x - y) = p * x - p * y
    BY <1>1
  <2> QED
    BY <2>1
<1>2. CASE x - y <= 0
  <2>1. p * (y - x) >= 0 /\ p * (y - x) = p * y - p * x
    BY <1>2
  <2> QED
    BY <2>1
<1> QED
  BY <1>1, <1>2

LEMMA MultipleOf ==
  ASSUME NEW p \in Nat \ {0}, NEW k \in Nat
  PROVE  (p * k) % p = 0
<1> DEFINE n == p * k
<1>1. n \in Nat
  OBVIOUS
<1>2. PICK q \in Nat, r \in 0 .. p - 1 : n = p * q + r /\ r = n % p
  BY <1>1, DivMod
<1>3. ~(p * k > p * q)
  BY <1>2, MultipleGap
<1> QED
  BY <1>2, <1>3

-----------------------------------------------------------------------------
(* A slot during a download. *)

(* What was written below unit `n' is image `i'.                           *)
Prefix(f, i, n) == \A u \in Units : u < n => f[u] = Cell(i, u)

(* From `a' on, a slot is erased up to the end of the sector that was      *)
(* begun; a component other than the MCU is erased at once.                *)
Blank(f, c, a) ==
    IF c = Mcu
    THEN \E e \in Nat : /\ \E q \in Nat : e = SectorSize * q
                        /\ a <= e /\ e < a + SectorSize
                        /\ \A u \in Units : a <= u /\ u < e => f[u] = Erased
    ELSE a = 0 \/ \A u \in Units : a <= u => f[u] = Erased

(* Writing up to `g' units, which divides a sector, at a multiple of `g'.  *)
LEMMA WriteKeeps ==
  ASSUME NEW f \in Slots, NEW c \in Components, NEW i, NEW data,
         NEW g \in Nat \ {0}, NEW k \in Nat, SectorSize = g * k,
         NEW p \in Nat, NEW a \in Nat, a = g * p, NEW n \in 1 .. g,
         Prefix(f[c], i, a), Blank(f[c], c, a),
         \A j \in 0 .. n - 1 : data[j] = Cell(i, a + j)
  PROVE  /\ Prefix(Program(f, c, a, data, n)[c], i, a + n)
         /\ Blank(Program(f, c, a, data, n)[c], c, a + n)
<1> DEFINE h == Program(f, c, a, data, n)[c]
<1>0. /\ SectorSize \in Nat \ {0} /\ \A u \in Units : u \in Nat
      /\ n \in Nat /\ n >= 1 /\ n <= g
  BY Sizes
<1>1. \A u \in Units :
        h[u] = IF u \in a .. a + n - 1
               THEN IF f[c][u] = Erased \/ u \in ErasedAt(c, a) THEN data[u - a] ELSE Junk
               ELSE IF u \in ErasedAt(c, a) THEN Erased ELSE f[c][u]
  BY DEF Program, Slots
<1> HIDE DEF h
<1>2. \A u \in Units : u < a => u \notin ErasedAt(c, a)
  BY <1>0 DEF ErasedAt
<1>3. ASSUME \A u \in Units : u \in a .. a + n - 1 => f[c][u] = Erased \/ u \in ErasedAt(c, a)
      PROVE  Prefix(h, i, a + n)
  <2> SUFFICES ASSUME NEW u \in Units, u < a + n PROVE h[u] = Cell(i, u)
    BY DEF Prefix
  <2>1. CASE u < a
    <3>1. f[c][u] = Cell(i, u)
      BY <2>1 DEF Prefix
    <3>2. u \notin a .. a + n - 1
      BY <1>0, <2>1
    <3> QED
      BY <1>1, <1>2, <2>1, <3>1, <3>2
  <2>2. CASE a <= u
    <3>1. u \in a .. a + n - 1 /\ u - a \in 0 .. n - 1 /\ a + (u - a) = u
      BY <1>0, <2>2
    <3>2. h[u] = data[u - a]
      BY <1>1, <1>3, <3>1
    <3>3. data[u - a] = Cell(i, a + (u - a))
      BY <3>1
    <3> QED
      BY <3>1, <3>2, <3>3
  <2> QED
    BY <1>0, <2>1, <2>2
<1>4. CASE c # Mcu
  <2>1. \A u \in Units : a <= u => f[c][u] = Erased \/ u \in ErasedAt(c, a)
    BY <1>4 DEF Blank, ErasedAt
  <2>2. \A u \in Units : a + n <= u => h[u] = Erased
    BY <1>0, <1>1, <2>1
  <2> QED
    BY <1>0, <1>3, <1>4, <2>1, <2>2 DEF Blank, h
<1>5. CASE c = Mcu
  <2>1. PICK e \in Nat : /\ \E q \in Nat : e = SectorSize * q
                         /\ a <= e /\ e < a + SectorSize
                         /\ \A u \in Units : a <= u /\ u < e => f[c][u] = Erased
    BY <1>5 DEF Blank
  <2>2. PICK q \in Nat : e = SectorSize * q
    BY <2>1
  <2>3. CASE a < e
    <3>1. e = g * (k * q) /\ k * q \in Int
      BY <2>2
    <3>2. e >= a + g
      BY <2>3, <3>1, MultipleGap
    <3>3. a + n <= e /\ e < a + n + SectorSize
      BY <1>0, <2>1, <3>2
    <3>4. \A u \in Units : u \in a .. a + n - 1 => f[c][u] = Erased
      BY <1>0, <2>1, <3>3
    <3>5. \A u \in Units : a + n <= u /\ u < e => h[u] = Erased
      BY <1>0, <1>1, <2>1
    <3> QED
      BY <1>3, <1>5, <2>1, <3>3, <3>4, <3>5 DEF Blank, h
  <2>4. CASE a = e
    <3>1. a % SectorSize = 0
      BY <1>0, <2>2, <2>4, MultipleOf
    <3>2. ErasedAt(c, a) = a .. a + SectorSize - 1
      BY <1>5, <3>1 DEF ErasedAt
    <3>3. g <= SectorSize
      <4>1. g * k > g * 0
        BY <1>0
      <4> QED
        BY <4>1, MultipleGap
    <3>4. a + n <= a + SectorSize /\ a + SectorSize < a + n + SectorSize
      BY <1>0, <3>3
    <3>5. \A u \in Units : u \in a .. a + n - 1 => u \in ErasedAt(c, a)
      BY <1>0, <3>2, <3>4
    <3>6. \A u \in Units : a + n <= u /\ u < a + SectorSize => h[u] = Erased
      BY <1>0, <1>1, <3>2
    <3>7. a + SectorSize \in Nat /\ \E r \in Nat : a + SectorSize = SectorSize * r
      <4>1. PICK r \in Nat : r = q + 1
        OBVIOUS
      <4>2. a + SectorSize = SectorSize * r
        BY <1>0, <2>2, <2>4, <4>1
      <4> QED
        BY <1>0, <4>2
    <3>8. Blank(h, c, a + n)
      BY <1>5, <3>4, <3>6, <3>7 DEF Blank
    <3> QED
      BY <1>3, <3>5, <3>8 DEF h
  <2> QED
    BY <2>1, <2>3, <2>4
<1> QED
  BY <1>4, <1>5

-----------------------------------------------------------------------------
(* A download. *)

(* What is written at once: a full buffer, or a chunk.                     *)
Grain == IF Buffered THEN BufSize ELSE ts

(* How far a download is: what was written, what is in the buffer, and     *)
(* what is erased.                                                         *)
Progress ==
    /\ addr = offset /\ \E p \in Nat : offset = Grain * p
    /\ cur < BufSize /\ (~Buffered => cur = 0)
    /\ offset + cur < FwSize
    /\ Prefix(flash[comp], img, offset)
    /\ \A j \in 0 .. cur - 1 : buf[j] = Cell(img, offset + j)
    /\ Blank(flash[comp], comp, offset)

(* Nothing of what WholeImage leaves out has happened to it.               *)
Downloading == state = "DL" /\ slot = "Init" /\ tainted = "No" /\ ~blind

Downloads ==
    /\ state # "IDLE" => ts \in TransferSizes
    /\ state = "DL" /\ ~metaDone => slot # "Trans_Comp"
    /\ Downloading =>
         /\ lastLen = TransferLen(offset, cur)
         /\ IF metaDone THEN Progress ELSE addr = 0 /\ cur = 0

(* The chunk `m' is the next one and has the length that was asked for.    *)
NextChunk(m) ==
    /\ m \in Chunks /\ m.img = img /\ m.at = offset + cur
    /\ m.len = TransferLen(offset, cur)
    /\ Buffered => cur + m.len <= BufSize

LEMMA GrainDivides ==
  ASSUME ts \in TransferSizes
  PROVE  Grain \in Nat \ {0} /\ \E k \in Nat : SectorSize = Grain * k
<1>1. /\ Grain \in Nat \ {0} /\ SectorSize % Grain = 0 /\ SectorSize \in Nat
  BY UpdateConstants DEF UpdateConstants, Grain
<1>2. PICK q \in Nat, r \in 0 .. Grain - 1 : SectorSize = Grain * q + r /\ r = SectorSize % Grain
  BY <1>1, DivMod
<1>3. SectorSize = Grain * q
  BY <1>1, <1>2
<1> QED
  BY <1>1, <1>3

LEMMA ChunkLength ==
  ASSUME Typed, ts \in TransferSizes, Progress, NEW m, NextChunk(m)
  PROVE  /\ m.len \in 1 .. ts /\ ts \in Nat
         /\ offset + cur + m.len <= FwSize
         /\ offset + cur + m.len < FwSize => m.len = ts
<1>1. offset \in Nat /\ cur \in Nat /\ offset + cur < FwSize /\ ts \in Nat \ {0}
  BY UpdateConstants, Sizes DEF UpdateConstants, Typed, PlaceTyped, Progress
<1>2. Remaining(offset, cur) = FwSize - offset - cur
  BY <1>1, Sizes DEF Remaining
<1>3. m.len = IF FwSize - offset - cur > ts THEN ts ELSE FwSize - offset - cur
  BY <1>2 DEF NextChunk, TransferLen
<1> QED
  BY <1>1, <1>3, Sizes

(* The buffer, the chunk included, holds what follows the prefix.          *)
LEMMA FilledNext ==
  ASSUME Typed, ts \in TransferSizes, Progress, NEW m, NextChunk(m), Buffered
  PROVE  \A j \in 0 .. cur + m.len - 1 : Filled(m)[j] = Cell(img, offset + j)
<1> SUFFICES ASSUME NEW j \in 0 .. cur + m.len - 1
             PROVE  Filled(m)[j] = Cell(img, offset + j)
  OBVIOUS
<1>1. /\ offset \in Nat /\ cur \in Nat /\ m.len \in Nat
      /\ cur + m.len <= BufSize /\ BufSize \in Nat
  BY Sizes DEF Typed, PlaceTyped, NextChunk, Chunks
<1>2. j \in 0 .. BufSize - 1
  BY <1>1
<1>3. Filled(m)[j] = IF j \in cur .. cur + m.len - 1
                     THEN Cell(m.img, m.at + j - cur) ELSE buf[j]
  BY <1>2 DEF Filled
<1>4. CASE j < cur
  <2>1. j \in 0 .. cur - 1 /\ j \notin cur .. cur + m.len - 1
    BY <1>1, <1>4
  <2> QED
    BY <1>3, <2>1 DEF Progress
<1>5. CASE j >= cur
  <2>1. j \in cur .. cur + m.len - 1 /\ m.at + j - cur = offset + j
    BY <1>1, <1>5 DEF NextChunk
  <2> QED
    BY <1>3, <2>1 DEF NextChunk
<1> QED
  BY <1>1, <1>4, <1>5

(* What a chunk that is written leaves in flash.                           *)
LEMMA ChunkWritten ==
  ASSUME Typed, ts \in TransferSizes, Progress, NEW m, NextChunk(m), Writes(m)
  PROVE  /\ Kept(m) = 0 /\ Moved(m) \in 1 .. Grain
         /\ ~IsLast(m) => Moved(m) = Grain
         /\ Prefix(Written(m)[comp], img, offset + Moved(m))
         /\ Blank(Written(m)[comp], comp, offset + Moved(m))
<1>1. /\ offset \in Nat /\ cur \in Nat /\ addr = offset /\ flash \in Slots
      /\ comp \in Components /\ m.at = offset + cur /\ m.img = img
      /\ BufSize \in Nat \ {0} /\ FwSize \in Nat
  BY Sizes DEF Typed, PlaceTyped, PlanTyped, FlashTyped, Progress, NextChunk
<1>2. PICK k \in Nat : SectorSize = Grain * k
  BY GrainDivides
<1>3. PICK p \in Nat : offset = Grain * p
  BY DEF Progress
<1>4. Grain \in Nat \ {0}
  BY GrainDivides
<1>5. /\ m.len \in 1 .. ts /\ ts \in Nat /\ offset + cur + m.len <= FwSize
      /\ offset + cur + m.len < FwSize => m.len = ts
  BY ChunkLength
<1>6. Prefix(flash[comp], img, offset) /\ Blank(flash[comp], comp, offset)
  BY DEF Progress
<1>7. CASE Buffered
  <2>1. /\ cur + m.len = BufSize /\ Kept(m) = 0 /\ Moved(m) = BufSize
        /\ Grain = BufSize /\ Written(m) = Program(flash, comp, offset, Filled(m), BufSize)
    BY <1>1, <1>7 DEF Writes, FillsPage, Kept, Moved, Grain, Written
  <2>2. \A j \in 0 .. BufSize - 1 : Filled(m)[j] = Cell(img, offset + j)
    <3>1. \A j \in 0 .. BufSize - 1 : j \in 0 .. cur + m.len - 1
      BY <1>1, <1>5, <2>1
    <3> QED
      BY <1>7, <3>1, FilledNext
  <2>3. BufSize \in 1 .. Grain
    BY <1>1, <2>1
  <2>4. /\ Prefix(Program(flash, comp, offset, Filled(m), BufSize)[comp], img, offset + BufSize)
        /\ Blank(Program(flash, comp, offset, Filled(m), BufSize)[comp], comp, offset + BufSize)
    BY <1>1, <1>2, <1>3, <1>4, <1>6, <2>2, <2>3, WriteKeeps
  <2> QED
    BY <2>1, <2>3, <2>4
<1>8. CASE ~Buffered
  <2>1. cur = 0 /\ Kept(m) = 0 /\ Moved(m) = m.len /\ Grain = ts
        /\ Written(m) = Program(flash, comp, offset, Payload(m), m.len)
    BY <1>1, <1>8 DEF Progress, Writes, Kept, Moved, Grain, Written
  <2>2. \A j \in 0 .. m.len - 1 : Payload(m)[j] = Cell(img, offset + j)
    BY <1>1, <2>1 DEF Payload
  <2>3. ~IsLast(m) => Moved(m) = Grain
    BY <1>1, <1>5, <2>1 DEF IsLast
  <2>4. m.len \in 1 .. Grain
    BY <1>5, <2>1
  <2>5. /\ Prefix(Program(flash, comp, offset, Payload(m), m.len)[comp], img, offset + m.len)
        /\ Blank(Program(flash, comp, offset, Payload(m), m.len)[comp], comp, offset + m.len)
    BY <1>1, <1>2, <1>3, <1>4, <1>6, <2>2, <2>4, WriteKeeps
  <2> QED
    BY <2>1, <2>3, <2>4, <2>5
<1> QED
  BY <1>7, <1>8

(* A chunk that is only collected. *)
LEMMA ChunkCollected ==
  ASSUME Typed, ts \in TransferSizes, Progress, NEW m, NextChunk(m), ~Writes(m)
  PROVE  /\ Buffered /\ Kept(m) = cur + m.len /\ Kept(m) < BufSize /\ Kept(m) > 0
         /\ Moved(m) = 0 /\ Written(m) = flash /\ KeptBuf(m) = Filled(m)
         /\ \A j \in 0 .. Kept(m) - 1 : Filled(m)[j] = Cell(img, offset + j)
<1>1. Buffered /\ ~FillsPage(m) /\ cur + m.len <= BufSize /\ cur \in Nat
  BY Sizes DEF Writes, NextChunk, Typed, PlaceTyped
<1>2. m.len \in Nat /\ m.len >= 1
  BY ChunkLength
<1>3. /\ Kept(m) = cur + m.len /\ Moved(m) = 0 /\ Written(m) = flash
      /\ KeptBuf(m) = Filled(m) /\ cur + m.len # BufSize
  BY <1>1 DEF Kept, Moved, Written, KeptBuf, FillsPage, Writes
<1> QED
  BY <1>1, <1>2, <1>3, FilledNext, Sizes

(* After a chunk that is not the last one, the download is further on.     *)
LEMMA ChunkStored ==
  ASSUME Typed, ts \in TransferSizes, Progress, NEW m, NextChunk(m), ~IsLast(m)
  PROVE  LET o == offset + Moved(m)
         IN  /\ \E p \in Nat : o = Grain * p
             /\ Kept(m) < BufSize /\ (~Buffered => Kept(m) = 0)
             /\ o + Kept(m) < FwSize
             /\ Prefix(Written(m)[comp], img, o)
             /\ \A j \in 0 .. Kept(m) - 1 : KeptBuf(m)[j] = Cell(img, o + j)
             /\ Blank(Written(m)[comp], comp, o)
<1>1. offset \in Nat /\ Grain \in Nat \ {0} /\ BufSize > 0 /\ FwSize \in Nat
  BY GrainDivides, Sizes DEF Typed, PlaceTyped
<1>2. PICK p \in Nat : offset = Grain * p
  BY DEF Progress
<1>3. CASE Writes(m)
  <2>1. PICK q \in Nat : q = p + 1
    OBVIOUS
  <2>2. offset + Grain = Grain * q
    BY <1>1, <1>2, <2>1
  <2>3. /\ Kept(m) = 0 /\ Moved(m) = Grain
        /\ Prefix(Written(m)[comp], img, offset + Moved(m))
        /\ Blank(Written(m)[comp], comp, offset + Moved(m))
    BY <1>3, ChunkWritten
  <2>4. offset + Moved(m) + Kept(m) < FwSize
    BY <1>1, <2>3 DEF IsLast
  <2>5. \A j \in 0 .. Kept(m) - 1 : FALSE
    BY <2>3
  <2> QED
    BY <1>1, <2>2, <2>3, <2>4, <2>5
<1>4. CASE ~Writes(m)
  <2>1. /\ Buffered /\ Kept(m) < BufSize /\ Moved(m) = 0 /\ Written(m) = flash
        /\ KeptBuf(m) = Filled(m) /\ Kept(m) = cur + m.len
        /\ \A j \in 0 .. Kept(m) - 1 : Filled(m)[j] = Cell(img, offset + j)
    BY <1>4, ChunkCollected
  <2>2. offset + Moved(m) = offset
    BY <1>1, <2>1
  <2>3. m.len \in Nat /\ cur \in Nat
    BY Sizes DEF NextChunk, Chunks, Typed, PlaceTyped
  <2>4. offset + Kept(m) < FwSize
    BY <1>1, <2>1, <2>2, <2>3 DEF IsLast
  <2> QED
    BY <1>2, <2>1, <2>2, <2>4 DEF Progress
<1> QED
  BY <1>3, <1>4

(* After the last chunk, and the rest of the buffer, the image is whole.   *)
LEMMA ImageStored ==
  ASSUME Typed, ts \in TransferSizes, Progress, NEW m, NextChunk(m), IsLast(m)
  PROVE  LET f == IF Kept(m) = 0 THEN Written(m)
                  ELSE Program(Written(m), comp, addr + Moved(m), KeptBuf(m), Kept(m))
         IN  f[comp] = Image(img)
<1> DEFINE f == IF Kept(m) = 0 THEN Written(m)
                ELSE Program(Written(m), comp, addr + Moved(m), KeptBuf(m), Kept(m))
<1>1. /\ offset \in Nat /\ cur \in Nat /\ comp \in Components /\ flash \in Slots
      /\ FwSize \in Nat /\ addr = offset /\ Grain \in Nat \ {0} /\ BufSize \in Nat
      /\ m \in Chunks /\ m.len \in Nat
  BY GrainDivides, Sizes
     DEF Typed, PlaceTyped, PlanTyped, FlashTyped, Progress, NextChunk, Chunks
<1>2. \E n \in Nat : n >= FwSize /\ Prefix(f[comp], img, n)
  <2>1. CASE Writes(m)
    <3>1. /\ Kept(m) = 0 /\ Moved(m) \in 1 .. Grain
          /\ Prefix(Written(m)[comp], img, offset + Moved(m))
      BY <2>1, ChunkWritten
    <3>2. offset + Moved(m) \in Nat /\ offset + Moved(m) >= FwSize
      BY <1>1, <3>1 DEF IsLast
    <3> QED
      BY <3>1, <3>2
  <2>2. CASE ~Writes(m)
    <3>1. /\ Buffered /\ Kept(m) = cur + m.len /\ Kept(m) < BufSize /\ Kept(m) > 0
          /\ Moved(m) = 0 /\ Written(m) = flash /\ KeptBuf(m) = Filled(m)
          /\ \A j \in 0 .. Kept(m) - 1 : Filled(m)[j] = Cell(img, offset + j)
      BY <2>2, ChunkCollected
    <3>2. f = Program(flash, comp, offset, Filled(m), Kept(m))
      BY <1>1, <3>1
    <3>3. PICK k \in Nat : SectorSize = Grain * k
      BY GrainDivides
    <3>4. PICK p \in Nat : offset = Grain * p
      BY DEF Progress
    <3>5. Kept(m) \in 1 .. Grain
      BY <1>1, <3>1 DEF Grain
    <3> HIDE DEF f
    <3>6. Prefix(f[comp], img, offset + Kept(m))
      BY <1>1, <3>1, <3>2, <3>3, <3>4, <3>5, WriteKeeps DEF Progress
    <3>7. offset + Kept(m) \in Nat /\ offset + Kept(m) >= FwSize
      BY <1>1, <3>1 DEF IsLast
    <3> QED
      BY <3>6, <3>7
  <2> QED
    BY <2>1, <2>2
<1>3. f \in Slots
  <2>1. /\ Written(m) \in Slots /\ Kept(m) \in Nat /\ addr + Moved(m) \in Nat
        /\ \A j \in 0 .. Kept(m) - 1 : KeptBuf(m)[j] \in Cells
    BY <1>1, ChunkTyped, Sizes DEF NextChunk
  <2> QED
    BY <1>1, <2>1, ProgramTyped
<1> HIDE DEF f
<1>4. \A u \in Units : f[comp][u] = Cell(img, u)
  BY <1>1, <1>2, Sizes DEF Prefix
<1>5. f[comp] = Image(img)
  BY <1>1, <1>3, <1>4 DEF Slots, Image
<1> QED
  BY <1>5 DEF f

-----------------------------------------------------------------------------
(* The steps. *)

Loading == Downloads /\ WholeImage

(* Before the first unit every slot is a prefix, and erased as it must be. *)
LEMMA AtStart ==
  ASSUME NEW f, NEW c, NEW i
  PROVE  Prefix(f, i, 0) /\ Blank(f, c, 0)
<1>1. Prefix(f, i, 0)
  BY Sizes DEF Prefix
<1>2. ASSUME c = Mcu PROVE Blank(f, c, 0)
  <2>1. SectorSize \in Nat /\ 0 < SectorSize /\ 0 = SectorSize * 0
    BY UpdateConstants DEF UpdateConstants
  <2>2. \A u \in Units : ~(0 <= u /\ u < 0)
    BY Sizes
  <2> QED
    BY <1>2, <2>1, <2>2 DEF Blank
<1> QED
  BY <1>1, <1>2 DEF Blank

LEMMA NotLoading ==
  ASSUME state' \notin {"DL", "VERIFY"}, state' # "IDLE" => ts' \in TransferSizes
  PROVE  Loading'
  BY DEF Loading, Downloads, Downloading, WholeImage

(* A step that moves nothing of the download and begins none. *)
LEMMA StaysPut ==
  ASSUME Loading,
         UNCHANGED <<plan, flash, offset, addr, metaDone, buf, cur, tainted>>,
         lastLen' = lastLen \/ lastLen' = TransferLen(offset, cur),
         blind => blind', state' # "IDLE" => state # "IDLE",
         \/ state' = state
         \/ state' \notin {"DL", "VERIFY"}
         \/ state = "DL" /\ state' = "VERIFY",
         slot' = slot \/ slot' \notin {"Init", "Trans_Comp"}
  PROVE  Loading'
<1>1. UNCHANGED <<ts, comp, img>>
  BY DEF plan
<1>2. state' \in {"DL", "VERIFY"} => state \in {"DL", "VERIFY"}
  OBVIOUS
<1>3. WholeImage'
  BY <1>1, <1>2 DEF Loading, WholeImage
<1>4. (state' # "IDLE" => ts' \in TransferSizes) /\ (state' = "DL" => state = "DL")
  BY <1>1 DEF Loading, Downloads
<1>5. state' = "DL" /\ ~metaDone' => slot' # "Trans_Comp"
  BY <1>4 DEF Loading, Downloads
<1>6. Downloading' => Downloading
  BY <1>4 DEF Downloading
<1>7. TransferLen(offset, cur)' = TransferLen(offset, cur)
  BY <1>1 DEF TransferLen, Remaining
<1>8. Downloading' => lastLen' = TransferLen(offset, cur)'
  BY <1>6, <1>7 DEF Loading, Downloads
<1>9. Progress => Progress'
  BY <1>1 DEF Progress, Grain, Buffered
<1>10. Downloading' => IF metaDone' THEN Progress' ELSE addr' = 0 /\ cur' = 0
  BY <1>6, <1>9 DEF Loading, Downloads
<1> QED
  BY <1>3, <1>4, <1>5, <1>8, <1>10 DEF Loading, Downloads

(* A download begins, or begins to write.                                  *)
LEMMA Begins ==
  ASSUME Typed, ts \in TransferSizes, Loading, UNCHANGED <<ts, flash>>,
         state' # "RDY_XFER" => state' = "DL",
         slot' # "Trans_Comp",
         Downloading' => addr' = 0 /\ cur' = 0,
         Downloading' => lastLen' = TransferLen(offset, cur)',
         metaDone' /\ Downloading' => offset' = 0
  PROVE  Loading'
<1>1. ts' \in TransferSizes /\ Grain' = Grain /\ Buffered' = Buffered /\ Grain \in Nat
  BY GrainDivides DEF Grain, Buffered
<1>2. ASSUME metaDone', Downloading' PROVE Progress'
  <2>1. offset' = 0 /\ addr' = 0 /\ cur' = 0
    BY <1>2
  <2>2. 0 = Grain * 0 /\ 0 < BufSize /\ 0 + 0 < FwSize
    BY <1>1, Sizes
  <2>3. Prefix(flash[comp]', img', 0) /\ Blank(flash[comp]', comp', 0)
    BY AtStart
  <2>4. \A j \in 0 .. cur' - 1 : FALSE
    BY <2>1
  <2> QED
    BY <1>1, <2>1, <2>2, <2>3, <2>4 DEF Progress
<1> QED
  BY <1>1, <1>2 DEF Loading, Downloads, WholeImage

(* The first chunk to store finds the download at its start.               *)
LEMMA ReadyToStore ==
  ASSUME Typed, Loading, NEW k \in {"asked", "late"}, ToStore(k), ~blind,
         Taint(Msg(k)) # "Yes"
  PROVE  Progress /\ NextChunk(Msg(k)) /\ ts \in TransferSizes /\ slot = "Init"
         /\ tainted = "No"
<1>1. slot = "Init" /\ tainted = "No" /\ Msg(k).img = img /\ Msg(k).at = offset + cur
  BY DEF Taint, Typed, HistTyped
<1>2. state = "DL" /\ Msg(k).len = lastLen /\ (metaDone \/ offset = 0)
      /\ (Buffered => cur + Msg(k).len <= BufSize)
  BY DEF ToStore, Answered, Fits
<1>3. lastLen = TransferLen(offset, cur) /\ ts \in TransferSizes
      /\ IF metaDone THEN Progress ELSE addr = 0 /\ cur = 0
  BY <1>1, <1>2 DEF Loading, Downloads, Downloading
<1>4. Msg(k) \in Chunks
  BY AnswerTyped DEF Typed
<1>5. CASE ~metaDone
  <2>1. offset = 0 /\ addr = 0 /\ cur = 0
    BY <1>2, <1>3, <1>5
  <2>2. Grain \in Nat /\ 0 = Grain * 0 /\ 0 < BufSize /\ 0 + 0 < FwSize
    BY <1>3, GrainDivides, Sizes
  <2>3. Prefix(flash[comp], img, 0) /\ Blank(flash[comp], comp, 0)
    BY AtStart
  <2>4. \A j \in 0 .. cur - 1 : FALSE
    BY <2>1
  <2>5. Progress
    BY <2>1, <2>2, <2>3, <2>4 DEF Progress
  <2> QED
    BY <1>1, <1>2, <1>3, <1>4, <2>5 DEF NextChunk
<1> QED
  BY <1>1, <1>2, <1>3, <1>4, <1>5 DEF NextChunk

LEMMA ChunkLoads ==
  ASSUME Typed, Loading, NEW k \in {"asked", "late"}, StoreChunk(k)
  PROVE  Loading'
<1> DEFINE m == Msg(k)
<1>1. /\ ToStore(k) /\ ~IsLast(m) /\ flash' = Written(m) /\ offset' = offset + Moved(m)
      /\ addr' = addr + Moved(m) /\ buf' = KeptBuf(m) /\ cur' = Kept(m)
      /\ lastLen' = TransferLen(offset + Moved(m), Kept(m)) /\ tainted' = Taint(m)
      /\ UNCHANGED <<state, slot, ts, comp, img, blind>>
  BY DEF StoreChunk, AskData, plan
<1>2. state = "DL" /\ metaDone' = TRUE
  BY <1>1 DEF ToStore, Answered
<1>3. slot # "Init" => tainted' = "Yes"
  BY <1>1 DEF Taint
<1>4. WholeImage'
  BY <1>1, <1>3 DEF WholeImage
<1>5. ts' \in TransferSizes
  BY <1>1, <1>2 DEF Loading, Downloads
<1>6. TransferLen(offset, cur)' = TransferLen(offset + Moved(m), Kept(m))
  BY <1>1 DEF TransferLen, Remaining
<1>7. ASSUME Downloading' PROVE Progress'
  <2>1. ~blind /\ Taint(m) # "Yes"
    BY <1>1, <1>7 DEF Downloading
  <2>2. Progress /\ NextChunk(m) /\ ts \in TransferSizes
    BY <1>1, <2>1, ReadyToStore
  <2> HIDE DEF m
  <2>3. /\ \E p \in Nat : offset' = Grain * p
        /\ cur' < BufSize /\ (~Buffered => cur' = 0)
        /\ offset' + cur' < FwSize
        /\ Prefix(flash'[comp], img, offset')
        /\ \A j \in 0 .. cur' - 1 : buf'[j] = Cell(img, offset' + j)
        /\ Blank(flash'[comp], comp, offset')
    BY <1>1, <2>2, ChunkStored
  <2>4. addr' = offset'
    BY <1>1, <2>2 DEF Progress
  <2>5. Grain' = Grain /\ Buffered' = Buffered
    BY <1>1 DEF Grain, Buffered
  <2> QED
    BY <1>1, <2>3, <2>4, <2>5 DEF Progress
<1> QED
  BY <1>1, <1>2, <1>4, <1>5, <1>6, <1>7 DEF Loading, Downloads

LEMMA LastLoads ==
  ASSUME Typed, Loading, NEW k \in {"asked", "late"}, StoreLast(k)
  PROVE  Loading'
<1> DEFINE m == Msg(k)
           f == IF Kept(m) = 0 THEN Written(m)
                ELSE Program(Written(m), comp, addr + Moved(m), KeptBuf(m), Kept(m))
<1>1. /\ ToStore(k) /\ IsLast(m) /\ flash' = f /\ slot' = "Trans_Comp"
      /\ tainted' = Taint(m) /\ UNCHANGED <<state, ts, comp, img, blind>>
  BY DEF StoreLast, plan
<1>2. state = "DL" /\ metaDone' = TRUE
  BY <1>1 DEF ToStore, Answered
<1>3. Downloads'
  BY <1>1, <1>2 DEF Loading, Downloads, Downloading
<1>4. ASSUME tainted' # "Yes", ~blind' PROVE flash'[comp'] = Image(img')
  <2>1. Progress /\ NextChunk(m) /\ ts \in TransferSizes
    BY <1>1, <1>4, ReadyToStore
  <2> HIDE DEF m
  <2>2. f[comp] = Image(img)
    BY <1>1, <2>1, ImageStored
  <2>3. Image(img)' = Image(img)
    BY <1>1 DEF Image, Units
  <2> QED
    BY <1>1, <2>2, <2>3
<1> QED
  BY <1>3, <1>4 DEF Loading, WholeImage

(* A write that fails leaves nothing that counts as transferred.           *)
LEMMA FailLoads ==
  ASSUME Typed, Loading, NEW k \in {"asked", "late"}, StoreFails(k) \/ FlushFails(k)
  PROVE  Loading'
<1>1. /\ ToStore(k) /\ tainted' = IF Taint(Msg(k)) = "Yes" THEN "Yes" ELSE "Failed"
      /\ UNCHANGED <<state, slot, ts>>
  BY DEF StoreFails, FlushFails, plan
<1>2. state = "DL" /\ metaDone' = TRUE
  BY <1>1 DEF ToStore, Answered
<1>3. slot = "Trans_Comp" => tainted' = "Yes"
  BY <1>1 DEF Taint
<1>4. tainted' # "No"
  BY <1>1
<1> QED
  BY <1>1, <1>2, <1>3, <1>4 DEF Loading, Downloads, Downloading, WholeImage

LEMMA LoadingNext == Typed /\ Intact /\ Loading /\ [Next]_vars => Loading'
<1> SUFFICES ASSUME Typed, Intact, Loading, [Next]_vars PROVE Loading'
  OBVIOUS
<1> USE DEF vars, fsm, place, lists, pds, bg, net, count, hist
<1>t. state # "IDLE" => ts \in TransferSizes
  BY DEF Loading, Downloads
<1>1. ASSUME NEW t \in TransferSizes, RequestUpdate(t) PROVE Loading'
  BY <1>1, NotLoading DEF RequestUpdate, ChangeState
<1>2. ASSUME NEW c \in Components, NEW last \in BOOLEAN, PassComponent(c, last)
      PROVE  Loading'
  BY <1>2, StaysPut DEF PassComponent, ChangeState
<1>3. ASSUME NEW c, NEW i, UpdateComponent(c, i) PROVE Loading'
  <2>1. /\ state = "RDY_XFER" /\ state' = "DL" /\ slot' = "Init" /\ offset' = 0
        /\ addr' = 0 /\ metaDone' = FALSE /\ lastLen' = TransferLen(0, cur)
        /\ tainted' = (IF cur = 0 THEN "No" ELSE "Yes") /\ UNCHANGED <<ts, cur, flash>>
    BY <1>3 DEF UpdateComponent, BeginComponent, AskData
  <2>2. lastLen' = TransferLen(offset, cur)'
    BY <2>1 DEF TransferLen, Remaining
  <2> QED
    BY <1>t, <2>1, <2>2, Begins DEF Downloading
<1>4. ASSUME NEW c, NEW i, UpdateRefused(c, i) PROVE Loading'
  BY <1>4, <1>t, NotLoading DEF UpdateRefused, BeginComponent
<1>5. ASSUME NEW failed, Activate(failed) PROVE Loading'
  BY <1>5, StaysPut DEF Activate, ChangeState
<1>6. ASSUME CancelUpdateComponent PROVE Loading'
  BY <1>6, StaysPut DEF CancelUpdateComponent, ChangeState
<1>7. ASSUME CancelUpdate PROVE Loading'
  BY <1>7, StaysPut DEF CancelUpdate, ChangeState
<1>8. ASSUME NEW k, FwDataDropped(k) PROVE Loading'
  BY <1>8, StaysPut DEF FwDataDropped
<1>9. ASSUME NEW k, CollectMetadata(k) PROVE Loading'
  <2>1. /\ state = "DL" /\ ~metaDone /\ offset' = offset + ts
        /\ lastLen' = TransferLen(offset + ts, cur)
        /\ UNCHANGED <<state, slot, ts, comp, img, addr, metaDone, buf, cur,
                       flash, tainted, blind>>
    BY <1>9 DEF CollectMetadata, Answered, AskData, plan
  <2>2. TransferLen(offset, cur)' = TransferLen(offset + ts, cur)
    BY <2>1 DEF TransferLen, Remaining
  <2>3. slot # "Trans_Comp"
    BY <2>1 DEF Loading, Downloads
  <2>4. Downloading' => addr' = 0 /\ cur' = 0
    BY <2>1 DEF Loading, Downloads, Downloading
  <2> QED
    BY <1>t, <2>1, <2>2, <2>3, <2>4 DEF Loading, Downloads, WholeImage
<1>10. ASSUME NEW k, NEW s \in {"Sec_Ver_Fail", "Trans_Comp"}, MetadataRefused(k, s)
       PROVE  Loading'
  <2>1. /\ state = "DL" /\ AllMetadata /\ metaDone' = TRUE /\ slot' = s
        /\ UNCHANGED <<state, ts, offset>>
    BY <1>10 DEF MetadataRefused, Answered, plan
  <2>2. offset' # FwSize
    <3>1. offset <= MetadataAt /\ MetadataAt \in 0 .. FwSize - 1 /\ offset \in Nat
      BY <2>1, UpdateConstants DEF AllMetadata, UpdateConstants, Units, Typed, PlaceTyped
    <3> QED
      BY <2>1, <3>1, Sizes
  <2> QED
    BY <1>t, <2>1, <2>2 DEF Loading, Downloads, Downloading, WholeImage
<1>11. ASSUME NEW k, MetadataNotMarked(k) PROVE Loading'
  <2>1. /\ state = "DL" /\ ~metaDone
        /\ tainted' = (IF offset = 0 THEN tainted ELSE "Yes")
        /\ UNCHANGED <<state, slot, ts, comp, img, offset, addr, lastLen, cur,
                       flash, blind>>
    BY <1>11 DEF MetadataNotMarked, Answered, plan
  <2>2. slot # "Trans_Comp"
    BY <2>1 DEF Loading, Downloads
  <2>3. tainted' = "No" => tainted = "No" /\ offset' = 0
    BY <2>1
  <2>4. TransferLen(offset, cur)' = TransferLen(offset, cur)
    BY <2>1 DEF TransferLen, Remaining
  <2>5. Downloading' => Downloading /\ offset' = 0
    BY <2>1, <2>3 DEF Downloading
  <2>6. Downloading' => lastLen' = TransferLen(offset, cur)' /\ addr' = 0 /\ cur' = 0
    BY <2>1, <2>4, <2>5 DEF Loading, Downloads
  <2> QED
    BY <1>t, <2>1, <2>2, <2>5, <2>6, Begins
<1>12. ASSUME NEW k, MetadataAccepted(k) PROVE Loading'
  <2>1. /\ state = "DL" /\ ~metaDone /\ offset' = 0 /\ lastLen' = TransferLen(0, cur)
        /\ UNCHANGED <<state, slot, ts, comp, img, addr, cur, flash, tainted, blind>>
    BY <1>12 DEF MetadataAccepted, Answered, AskData, plan
  <2>2. slot # "Trans_Comp"
    BY <2>1 DEF Loading, Downloads
  <2>3. lastLen' = TransferLen(offset, cur)'
    BY <2>1 DEF TransferLen, Remaining
  <2>4. Downloading' => addr' = 0 /\ cur' = 0
    BY <2>1 DEF Loading, Downloads, Downloading
  <2> QED
    BY <1>t, <2>1, <2>2, <2>3, <2>4, Begins
<1>13. ASSUME NEW k \in {"asked", "late"}, StoreChunk(k) PROVE Loading'
  BY <1>13, ChunkLoads
<1>14. ASSUME NEW k \in {"asked", "late"}, StoreLast(k) PROVE Loading'
  BY <1>14, LastLoads
<1>15. ASSUME NEW k \in {"asked", "late"}, StoreFails(k) \/ FlushFails(k) PROVE Loading'
  BY <1>15, FailLoads
<1>16. ASSUME BadAnswer PROVE Loading'
  BY <1>16, StaysPut DEF BadAnswer
<1>17. ASSUME RetryAnswer PROVE Loading'
  BY <1>17, StaysPut DEF RetryAnswer
<1>18. ASSUME Straggle PROVE Loading'
  BY <1>18, StaysPut DEF Straggle
<1>19. ASSUME TransferReply PROVE Loading'
  BY <1>19, StaysPut DEF TransferReply, ChangeState
<1>20. ASSUME VerifyReply PROVE Loading'
  BY <1>20, StaysPut DEF VerifyReply, ChangeState
<1>21. ASSUME ApplyReply PROVE Loading'
  BY <1>21, StaysPut DEF ApplyReply, ChangeState
<1>22. ASSUME LoseVerdict PROVE Loading'
  BY <1>22, StaysPut DEF LoseVerdict
<1>23. ASSUME NEW ok \in BOOLEAN, AuthFinish(ok) PROVE Loading'
  BY <1>23, StaysPut DEF AuthFinish
<1>24. ASSUME TimerExpires PROVE Loading'
  BY <1>24, StaysPut DEF TimerExpires
<1>25. ASSUME Timeout PROVE Loading'
  <2>1. UNCHANGED <<plan, flash, offset, addr, metaDone, buf, cur, tainted, blind>>
    BY <1>25 DEF Timeout
  <2>2. CASE TimeoutIdle \/ TimeoutLc \/ TimeoutVerifyApply
    BY <2>1, <2>2, StaysPut DEF TimeoutIdle, TimeoutLc, TimeoutVerifyApply, ChangeState
  <2>3. CASE TimeoutRdyXfer
    BY <2>1, <2>3, StaysPut DEF TimeoutRdyXfer, ChangeState
  <2>4. CASE TimeoutDl
    <3>1. /\ lastLen' = lastLen \/ lastLen' = TransferLen(offset, cur)
          /\ state = "DL" /\ state' \in {"DL", "IDLE"}
          /\ slot' = slot \/ slot' = "Spiflash_Error"
      BY <2>4 DEF TimeoutDl, ChangeState, AskData
    <3> QED
      BY <2>1, <3>1, StaysPut
  <2> QED
    BY <1>25, <2>2, <2>3, <2>4 DEF Timeout
<1>26. ASSUME CopyRequest PROVE Loading'
  BY <1>26, StaysPut DEF CopyRequest
<1>27. ASSUME NEW automatic, BgStart(automatic) PROVE Loading'
  <2>1. CASE state = "IDLE"
    BY <1>27, <2>1, NotLoading DEF BgStart
  <2>2. CASE state # "IDLE"
    <3>1. UNCHANGED <<flash, plan, state, slot, tainted, blind>> /\ UNCHANGED place
      BY <1>27, <2>2 DEF BgStart
    <3> QED
      BY <3>1, StaysPut
  <2> QED
    BY <2>1, <2>2
<1>28. ASSUME CopyFinish PROVE Loading'
  <2>1. state = "IDLE" \/ blind
    BY <1>28 DEF CopyFinish, Intact, Polled, Ended
  <2>2. UNCHANGED <<state, slot, ts, metaDone, blind>>
    BY <1>28 DEF CopyFinish, plan
  <2> QED
    BY <1>t, <2>1, <2>2 DEF Loading, Downloads, Downloading, WholeImage
<1>29. ASSUME CopyFails PROVE Loading'
  BY <1>29, StaysPut DEF CopyFails
<1>30. ASSUME BgEnd PROVE Loading'
  BY <1>30, StaysPut DEF BgEnd
<1>31. ASSUME ProtocolReset PROVE Loading'
  BY <1>31, NotLoading DEF ProtocolReset, ContextReset
<1>32. ASSUME NEW switches, Reboot(switches) PROVE Loading'
  BY <1>32, NotLoading DEF Reboot, ContextReset
<1>33. CASE UNCHANGED vars
  BY <1>33, StaysPut
<1> QED
  BY <1>1, <1>2, <1>3, <1>4, <1>5, <1>6, <1>7, <1>8, <1>9, <1>10, <1>11, <1>12,
     <1>13, <1>14, <1>15, <1>16, <1>17, <1>18, <1>19, <1>20, <1>21, <1>22, <1>23,
     <1>24, <1>25, <1>26, <1>27, <1>28, <1>29, <1>30, <1>31, <1>32, <1>33
     DEF Next, Command, Answer, Authentication, Copying, Restart

LEMMA LoadingInit == Init => Loading
  BY DEF Init, Loading, Downloads, Downloading, WholeImage

(* An image the device reports as transferred is in flash unit by unit, in *)
(* spite of buffering, repeated and dropped answers and retried requests:  *)
(* for every size of the image, the buffer, the sectors and the transfers. *)
THEOREM WholeImageAlways == Spec => []WholeImage
<1>1. Loading => WholeImage
  BY DEF Loading
<1> QED
  BY <1>1, LoadingInit, LoadingNext, TypedAlways, IntactAlways, PTL DEF Spec
=============================================================================
