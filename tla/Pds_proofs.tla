----------------------------- MODULE Pds_proofs -----------------------------
(* Proofs about Pds: its type invariant, that RAM and flash agree when the *)
(* store is idle, what a boot makes of the settings, and that the first    *)
(* loss of power leaves a whole copy.                                      *)
EXTENDS Pds, TLAPS

LEMMA LayoutParts ==
    /\ DOMAIN Layout = 1 .. 9 /\ Len(Layout) = 9
    /\ \A n \in 1 .. 9 : Layout[n] \in Parts
    /\ \A p \in Parts : \E n \in 1 .. 9 : Layout[n] = p
  <1>1. DOMAIN Layout = 1 .. 9 /\ Len(Layout) = 9 BY DEF Layout
  <1> QED BY <1>1 DEF Parts

LEMMA LayoutUnique ==
    \A m, n \in 1 .. 9 : Layout[m] = Layout[n] => m = n
  BY DEF Layout

LEMMA Positions ==
    /\ \A n \in 1 .. 9 : Position(Layout[n]) = n
    /\ \A p \in Parts : Position(p) \in 1 .. 9 /\ Layout[Position(p)] = p
  <1>1. ASSUME NEW n \in 1 .. 9 PROVE Position(Layout[n]) = n
    BY LayoutParts, LayoutUnique DEF Position
  <1> QED BY <1>1, LayoutParts

LEMMA PowerPositions ==
    /\ Position("preset") = 4 /\ Position("ramp") = 5 /\ Position("complete") = 6
    /\ Position("high") = 8
    /\ {"digest", "size", "slot", "preset", "ramp", "complete", "low", "high", "therm"} \subseteq Parts
  <1>1. Layout[4] = "preset" /\ Layout[5] = "ramp" /\ Layout[6] = "complete" /\ Layout[8] = "high"
    BY DEF Layout
  <1>2. Layout[1] = "digest" /\ Layout[2] = "size" /\ Layout[3] = "slot" /\ Layout[7] = "low" /\ Layout[9] = "therm"
    BY DEF Layout
  <1> QED BY <1>1, <1>2, Positions, LayoutParts

Entries == Values \cup {Magic, Erased, OldSize, PdsSize}

LEMMA Numbers == PdsSize = 7 /\ OldSize = 6 /\ Entries \subseteq Nat /\ 0 \in Entries
  BY LayoutParts DEF PdsSize, OldSize, Entries, Values, Magic, Erased

(* Every image the store computes is one. *)
LEMMA ConstantImages == Blank \in Image /\ Zero \in Image /\ Default \in Image /\ OldImage \in Image
  <1>1. Zero \in Image /\ Blank \in Image BY Numbers DEF Image, Zero, Blank, Entries
  <1>2. Magic \in Entries /\ PdsSize \in Entries /\ 1 \in Entries BY DEF Entries, Values
  <1>3. Image = [Parts -> Entries] BY DEF Image, Entries
  <1>4. Default \in Image BY <1>1, <1>2, <1>3 DEF Default
  <1>5. OldSize \in Entries /\ Erased \in Entries BY DEF Entries
  <1>6. OldImage \in Image BY <1>3, <1>4, <1>5 DEF OldImage
  <1> QED BY <1>1, <1>4, <1>6

LEMMA RecoveredImage == ASSUME NEW image \in Image PROVE Recovered(image) \in Image
  BY Numbers DEF Image, Recovered, Entries

LEMMA AdjustedImage == ASSUME TypeOK PROVE Adjusted \in Image
  BY ConstantImages DEF TypeOK, Image, Adjusted

LEMMA ReadPartlyImages ==
    ASSUME TypeOK, NEW c \in Copies PROVE ReadPartly(c) \subseteq Image
  BY Numbers DEF TypeOK, Image, ReadPartly, Entries

LEMMA InitTyped == Init => TypeOK
  <1> SUFFICES ASSUME Init PROVE TypeOK OBVIOUS
  <1>1. flash \in [Copies -> Image] BY ConstantImages DEF Init
  <1>2. losses \in 0 .. MaxLosses /\ failures \in 0 .. MaxFailures BY PdsConstants DEF Init
  <1>3. at \in 0 .. Len(Layout) /\ (at > 0 => Writing) BY LayoutParts DEF Init
  <1> QED BY <1>1, <1>2, <1>3, ConstantImages DEF Init, TypeOK, Copies

LEMMA TypeStep == ASSUME TypeOK, [Next]_vars PROVE TypeOK'
  <1> USE PdsConstants
  <1>1. CASE UNCHANGED vars
    BY <1>1 DEF TypeOK, Writing, vars, ramVars, doing, history, faults
  <1>2. CASE Erase
    BY <1>2, ConstantImages, LayoutParts
       DEF Erase, TypeOK, Writing, ramVars, history, faults, Copies
  <1>3. ASSUME WriteEnds, Writing
        PROVE  /\ phase' \in {"off", "rewrite", "choose", "restore", "reset", "check",
                              "adjust", "ready", "set"}
               /\ copy' \in Copies /\ at' = 0
               /\ old' \in Image /\ new' \in Image /\ booted' \in BOOLEAN
    BY <1>3 DEF WriteEnds, TypeOK, After, Copies, history
  <1>4. CASE Program
    <2>1. at \in 1 .. 9 BY <1>4, LayoutParts DEF Program, TypeOK
    <2>2. Source \in Image BY DEF TypeOK, Source
    <2>3. Source[Layout[at]] \in Entries
      BY <2>1, <2>2, LayoutParts DEF Image, Entries
    <2>4. flash' \in [Copies -> Image]
      <3>1. [flash[copy] EXCEPT ![Layout[at]] = Source[Layout[at]]] \in Image
        BY <2>1, <2>3, LayoutParts DEF TypeOK, Image, Entries
      <3> QED BY <1>4, <3>1 DEF Program, TypeOK
    <2>5. CASE at < Len(Layout)
      BY <1>4, <2>1, <2>4, <2>5, LayoutParts
         DEF Program, TypeOK, Writing, ramVars, history, faults
    <2>6. CASE ~(at < Len(Layout))
      BY <1>3, <1>4, <2>4, <2>6, LayoutParts DEF Program, TypeOK, ramVars, faults
    <2> QED BY <2>5, <2>6
  <1>5. CASE WriteFails
    BY <1>3, <1>5, LayoutParts DEF WriteFails, TypeOK, ramVars
  <1>6. CASE Load
    <2>1. ram' \in Image /\ second' \in Image
      <3>1. "P" \in Copies /\ "S" \in Copies BY DEF Copies
      <3>2. flash["P"] \in Image /\ flash["S"] \in Image BY <3>1 DEF TypeOK
      <3> QED BY <1>6, <3>1, <3>2, ReadPartlyImages, RecoveredImage DEF Load
    <2>2. readOk' \subseteq Copies /\ failures' \in 0 .. MaxFailures
      BY <1>6 DEF Load, TypeOK
    <2> QED BY <1>6, <2>1, <2>2, LayoutParts DEF Load, TypeOK, history, Copies, Writing
  <1>7. CASE ChooseBoth \/ SizeIsRight
    BY <1>7, LayoutParts DEF ChooseBoth, SizeIsRight, TypeOK, Writing, ramVars, history, faults
  <1>8. CASE ChooseSecondary \/ ChoosePrimary
    BY <1>8, LayoutParts DEF ChooseSecondary, ChoosePrimary, TypeOK, Writing, history, faults, Copies
  <1>9. CASE Reset \/ Adjust
    BY <1>9, LayoutParts, ConstantImages, AdjustedImage
       DEF Reset, Adjust, TypeOK, Writing, history, faults, Copies
  <1>10. CASE FirstBoot
    BY <1>10, LayoutParts DEF FirstBoot, TypeOK, Writing, ramVars, doing, faults
  <1>11. ASSUME NEW k \in Keys, NEW v \in Values, SetData(k, v) PROVE TypeOK'
    <2>1. k \in Parts /\ v \in Entries /\ Magic \in Entries BY DEF Keys, Entries
    <2>2. ram' \in Image BY <1>11, <2>1 DEF SetData, TypeOK, Image, Entries
    <2> QED BY <1>11, <2>2, LayoutParts DEF SetData, TypeOK, Writing, faults, Copies
  <1>12. CASE Restart \/ PowerLoss
    BY <1>12, ConstantImages, LayoutParts
       DEF Restart, PowerLoss, SwitchOff, TypeOK, Writing, history, Copies
  <1>13. {"low", "high", "complete"} \subseteq Keys BY PowerPositions DEF Keys
  <1>14. CASE Calibrate BY <1>11, <1>13, <1>14 DEF Calibrate, Values
  <1>15. CASE \E setting \in Settings : SetData(setting[1], setting[2])
    BY <1>11, <1>15
  <1> QED BY <1>1, <1>2, <1>4, <1>5, <1>6, <1>7, <1>8, <1>9, <1>10, <1>12, <1>14, <1>15
       DEF Next

(* The images, the operation in progress and the bounds on the faults keep *)
(* their types.                                                            *)
THEOREM TypeCorrect == Spec => []TypeOK
  BY InitTyped, TypeStep, PTL DEF Spec

-----------------------------------------------------------------------------
(* The repair of the power settings. *)

LEMMA RecoveredKeeps ==
    ASSUME NEW image \in Image
    PROVE  \A p \in {"digest", "size", "slot", "therm"} : Recovered(image)[p] = image[p]
  <1>1. /\ Layout[1] = "digest" /\ Layout[2] = "size"
        /\ Layout[3] = "slot" /\ Layout[9] = "therm"
    BY DEF Layout
  <1>2. \A n \in {1, 2, 3, 9} : Layout[n] \in Parts /\ Position(Layout[n]) = n
    BY LayoutParts, Positions
  <1>3. ASSUME NEW n \in {1, 2, 3, 9} PROVE Recovered(image)[Layout[n]] = image[Layout[n]]
    <2>1. n \notin 4 .. 8 OBVIOUS
    <2> QED BY <1>2, <2>1, PowerPositions DEF Recovered
  <1> QED BY <1>1, <1>3

LEMMA RecoveredSane == ASSUME NEW image \in Image PROVE Sane(Recovered(image))
  <1>1. CASE Sane(image) BY <1>1 DEF Recovered
  <1>2. CASE ~Sane(image)
    <2>1. \A p \in {"preset", "ramp", "complete"} : Recovered(image)[p] = 0
      BY <1>2, PowerPositions DEF Recovered
    <2> QED BY <2>1 DEF Sane, PowerFlags
  <1> QED BY <1>1, <1>2

LEMMA RecoveredTwice ==
    ASSUME NEW image \in Image PROVE Recovered(Recovered(image)) = Recovered(image)
  BY RecoveredSane DEF Recovered

LEMMA DefaultSane == Sane(Default)
  <1>1. \A p \in {"preset", "ramp", "complete"} : Default[p] = 0
    BY PowerPositions DEF Default, Zero
  <1> QED BY <1>1 DEF Sane, PowerFlags

(* From load_pds() on, both images in RAM have been repaired. *)
LoadedSane == phase \in {"rewrite", "choose"} => Sane(ram) /\ Sane(second)

LEMMA LoadSane == ASSUME TypeOK, Load PROVE Sane(ram') /\ Sane(second')
  <1>1. "P" \in Copies /\ "S" \in Copies BY DEF Copies
  <1>2. flash["P"] \in Image /\ flash["S"] \in Image BY <1>1 DEF TypeOK
  <1> QED BY <1>1, <1>2, ReadPartlyImages, RecoveredSane DEF Load

LEMMA LoadedSaneStep == ASSUME TypeOK, LoadedSane, [Next]_vars PROVE LoadedSane'
  <1> USE DEF LoadedSane
  <1>1. CASE UNCHANGED vars BY <1>1 DEF vars, ramVars, doing
  <1>2. CASE Erase BY <1>2 DEF Erase, ramVars
  <1>3. CASE Program BY <1>3 DEF Program, WriteEnds, After, ramVars, Writing
  <1>4. CASE WriteFails BY <1>4 DEF WriteFails, WriteEnds, After, ramVars, Writing
  <1>5. CASE Load BY <1>5, LoadSane
  <1>6. CASE ChooseBoth \/ SizeIsRight BY <1>6 DEF ChooseBoth, SizeIsRight
  <1>7. CASE ChooseSecondary \/ ChoosePrimary BY <1>7 DEF ChooseSecondary, ChoosePrimary
  <1>8. CASE Reset \/ Adjust BY <1>8 DEF Reset, Adjust
  <1>9. CASE FirstBoot BY <1>9 DEF FirstBoot, ramVars, doing
  <1>10. CASE Calibrate BY <1>10 DEF Calibrate, SetData
  <1>11. CASE \E setting \in Settings : SetData(setting[1], setting[2])
    BY <1>11 DEF SetData
  <1>12. CASE Restart \/ PowerLoss BY <1>12 DEF Restart, PowerLoss, SwitchOff
  <1> QED BY <1>1, <1>2, <1>3, <1>4, <1>5, <1>6, <1>7, <1>8, <1>9, <1>10, <1>11, <1>12
       DEF Next

(* load_pds() leaves power settings that their readers accept, whichever   *)
(* copy it chooses and whatever was lost before (WAR 5956416).             *)
THEOREM BootSanitisesAlways == Spec => BootSanitises
  <1>1. Init => LoadedSane BY DEF Init, LoadedSane
  <1>2. ASSUME TypeOK, LoadedSane, [Next]_vars, phase = "choose", phase' # "choose"
        PROVE  phase' = "off" \/ Sane(ram')
    <2> USE <1>2 DEF LoadedSane
    <2>1. CASE ChooseBoth BY <2>1 DEF ChooseBoth, ramVars
    <2>2. CASE ChooseSecondary BY <2>2 DEF ChooseSecondary
    <2>3. CASE ChoosePrimary BY <2>3 DEF ChoosePrimary
    <2>4. CASE Reset BY <2>4, DefaultSane DEF Reset
    <2>5. CASE PowerLoss BY <2>5 DEF PowerLoss, SwitchOff
    <2> QED BY <1>2, <2>1, <2>2, <2>3, <2>4, <2>5
         DEF Next, vars, doing, Erase, Program, WriteFails, Writing, Load, Adjust,
             SizeIsRight, FirstBoot, Calibrate, SetData, Restart
  <1>3. (TypeOK /\ LoadedSane) /\ [Next]_vars
          => [phase = "choose" /\ phase' # "choose" => phase' = "off" \/ Sane(ram')]_vars
    BY <1>2
  <1>4. (TypeOK /\ LoadedSane) /\ [Next]_vars => (TypeOK /\ LoadedSane)'
    BY TypeStep, LoadedSaneStep
  <1> QED BY <1>1, <1>3, <1>4, InitTyped, PTL DEF Spec, BootSanitises

-----------------------------------------------------------------------------
(* RAM and the primary copy. *)

Prefix(c, image) == \A n \in 1 .. at - 1 : flash[c][Layout[n]] = image[Layout[n]]

(* Without failed operations the primary holds what is in RAM, as far as   *)
(* it has been written.                                                    *)
Synced == failures = 0 =>
            /\ phase # "off" /\ ~(Writing /\ copy = "P") => flash["P"] = ram
            /\ Writing /\ copy = "P" => Prefix("P", ram)

(* The last part that is programmed completes the copy. *)
LEMMA ProgramCompletes ==
    ASSUME TypeOK, Program, NEW image \in Image, image = Source, Prefix(copy, image)
    PROVE  /\ flash' \in [Copies -> Image]
           /\ \A n \in 1 .. at : flash'[copy][Layout[n]] = image[Layout[n]]
           /\ at = Len(Layout) => flash'[copy] = image
  <1>1. at \in 1 .. 9 BY LayoutParts DEF Program, TypeOK
  <1>2. flash' \in [Copies -> Image] BY TypeStep DEF Next, TypeOK
  <1>3. copy \in Copies /\ flash[copy] \in Image BY DEF TypeOK
  <1>4. flash'[copy] = [flash[copy] EXCEPT ![Layout[at]] = image[Layout[at]]]
    BY <1>3 DEF Program, TypeOK
  <1>5. \A n \in 1 .. at : flash'[copy][Layout[n]] = image[Layout[n]]
    BY <1>1, <1>3, <1>4, LayoutParts DEF Prefix, Image
  <1>6. ASSUME at = Len(Layout) PROVE flash'[copy] = image
    <2>1. \A p \in Parts : flash'[copy][p] = image[p]
      BY <1>5, <1>6, LayoutParts
    <2>2. flash'[copy] \in Image BY <1>2, <1>3
    <2> QED BY <2>1, <2>2 DEF Image
  <1> QED BY <1>2, <1>5, <1>6

LEMMA SyncedStep == ASSUME TypeOK, Synced, [Next]_vars PROVE Synced'
  <1> SUFFICES ASSUME failures' = 0 PROVE Synced' BY DEF Synced
  <1>0. failures \in Nat /\ ("P" \in Copies /\ "S" \in Copies) BY DEF TypeOK, Copies
  <1>1. CASE UNCHANGED vars
    BY <1>1 DEF Synced, Prefix, Writing, vars, ramVars, doing, faults
  <1>2. CASE Erase
    BY <1>0, <1>2 DEF Erase, Synced, Prefix, Writing, ramVars, faults, TypeOK
  <1>3. CASE Program
    <2>1. failures = 0 /\ ram' = ram BY <1>3 DEF Program, faults, ramVars
    <2>2. at \in 1 .. 9 /\ Len(Layout) = 9 BY <1>3, LayoutParts DEF Program, TypeOK
    <2>3. CASE copy = "P"
      <3>1. Source = ram /\ ram \in Image /\ Prefix("P", ram)
        BY <1>3, <2>1, <2>3 DEF Source, TypeOK, Synced, Program
      <3>2. /\ \A n \in 1 .. at : flash'["P"][Layout[n]] = ram[Layout[n]]
            /\ at = Len(Layout) => flash'["P"] = ram
        BY <1>3, <2>3, <3>1, ProgramCompletes
      <3>3. CASE at < Len(Layout)
        <4>1. at' - 1 = at /\ phase' = phase /\ copy' = copy
          BY <1>3, <2>2, <3>3 DEF Program
        <4> QED BY <1>3, <2>1, <2>3, <3>2, <4>1 DEF Synced, Prefix, Writing, Program
      <3>4. CASE ~(at < Len(Layout))
        <4>1. flash'["P"] = ram BY <2>2, <3>2, <3>4
        <4>2. ~(Writing /\ copy = "P")'
          BY <1>3, <2>3, <3>4 DEF Program, WriteEnds, After, Writing
        <4> QED BY <2>1, <4>1, <4>2 DEF Synced
      <3> QED BY <3>3, <3>4
    <2>4. CASE copy = "S"
      <3>1. flash'["P"] = flash["P"] BY <1>0, <1>3, <2>4 DEF Program, TypeOK
      <3>2. flash["P"] = ram BY <1>3, <2>1, <2>4 DEF Synced, Program, Writing
      <3>3. ~(Writing /\ copy = "P")'
        BY <1>3, <2>4 DEF Program, WriteEnds, After, Writing
      <3> QED BY <2>1, <3>1, <3>2, <3>3 DEF Synced
    <2> QED BY <2>3, <2>4 DEF TypeOK, Copies
  <1>4. CASE WriteFails BY <1>0, <1>4 DEF WriteFails
  <1>5. CASE Load BY <1>5 DEF Load, Synced, Prefix, Writing
  <1>6. CASE ChooseBoth \/ SizeIsRight
    BY <1>6 DEF ChooseBoth, SizeIsRight, Synced, Writing, ramVars, faults
  <1>7. CASE ChooseSecondary \/ Reset \/ Adjust
    <2>1. at = 0 BY <1>7, LayoutParts DEF ChooseSecondary, Reset, Adjust, TypeOK, Writing
    <2> QED BY <1>7, <2>1
         DEF ChooseSecondary, Reset, Adjust, Synced, Prefix, Writing, faults
  <1>8. CASE ChoosePrimary BY <1>8 DEF ChoosePrimary, Synced, Writing, faults
  <1>9. CASE FirstBoot
    BY <1>9 DEF FirstBoot, Synced, Prefix, Writing, ramVars, doing, faults
  <1>10. ASSUME NEW k, NEW v, SetData(k, v) PROVE Synced'
    BY <1>10 DEF SetData, Synced, Prefix, Writing, faults
  <1>11. CASE Calibrate BY <1>10, <1>11 DEF Calibrate
  <1>12. CASE Restart \/ PowerLoss
    BY <1>12 DEF Restart, PowerLoss, SwitchOff, Synced, Writing
  <1> QED BY <1>1, <1>2, <1>3, <1>4, <1>5, <1>6, <1>7, <1>8, <1>9, <1>10, <1>11, <1>12
       DEF Next

(* What get_data() returns is what the next boot will find first, unless a *)
(* flash operation failed.                                                 *)
THEOREM FlashHoldsRamAlways == Spec => []FlashHoldsRam
  <1>1. Init => Synced BY DEF Init, Synced, Writing
  <1>2. (TypeOK /\ Synced) /\ [Next]_vars => (TypeOK /\ Synced)'
    BY TypeStep, SyncedStep
  <1>3. Synced => FlashHoldsRam BY DEF Synced, FlashHoldsRam, Writing
  <1> QED BY <1>1, <1>2, <1>3, InitTyped, PTL DEF Spec

-----------------------------------------------------------------------------
(* Before the first fault. *)

(* What the copies and RAM hold: the two copies differ only while one of   *)
(* them is written, and no copy is ever in need of repair from the other.  *)
Twins ==
    /\ phase # "restore"
    /\ phase = "off" => flash["P"] = flash["S"]
    /\ phase \in {"rewrite", "choose"} => second = ram /\ readOk = Copies
    /\ phase = "rewrite" /\ copy = "P" => ram = Recovered(flash["S"])
    /\ Writing /\ copy = "S" => Prefix("S", ram)
    /\ phase \in {"choose", "check", "ready"} => flash["S"] = ram
    /\ phase \in {"check", "reset", "adjust", "ready", "set"} => ram["digest"] = Magic
    /\ phase \in {"adjust", "ready", "set"} => ram["size"] = PdsSize

(* How that relates to the settings of before and after the latest change. *)
Kept ==
    /\ phase = "set" => booted
    /\ booted =>
         /\ new["digest"] = Magic /\ new["size"] = PdsSize
         /\ phase \notin {"reset", "adjust"}
         /\ phase = "off" \/ (phase = "rewrite" /\ copy = "P")
              => flash["S"] \in {new, Recovered(new)}
         /\ phase \in {"rewrite", "choose", "check"} => ram = Recovered(new)
         /\ phase = "ready" => ram \in {new, Recovered(new)}
         /\ phase = "set" => ram = new /\ (copy = "P" => flash["S"] = old)

Calm == NoFault => Twins /\ Kept

Safe == TypeOK /\ Synced /\ Calm

LEMMA InitSafe == Init => Safe
  <1> SUFFICES ASSUME Init PROVE Safe OBVIOUS
  <1>1. Synced BY DEF Init, Synced, Writing
  <1>2. flash["P"] = flash["S"] BY DEF Init, Copies
  <1>3. Twins /\ Kept BY <1>2 DEF Init, Twins, Kept, Writing
  <1> QED BY <1>1, <1>3, InitTyped DEF Safe, Calm

(* The programming of a copy, before the first fault. *)
LEMMA ProgramCalm ==
    ASSUME Safe, NoFault, Twins, Kept, Program PROVE Twins' /\ Kept'
  <1>0. TypeOK /\ "P" \in Copies /\ "S" \in Copies /\ failures = 0
    BY DEF Safe, Copies, NoFault
  <1>1. at \in 1 .. 9 /\ Len(Layout) = 9 BY <1>0, LayoutParts DEF Program, TypeOK
  <1>2. Source = ram /\ ram \in Image BY <1>0 DEF Source, Twins, TypeOK
  <1>3. ram' = ram /\ second' = second /\ readOk' = readOk BY DEF Program, ramVars
  <1>4. Writing BY DEF Program
  <1>5. CASE copy = "P"
    <2>1. Prefix("P", ram) BY <1>0, <1>4, <1>5 DEF Safe, Synced
    <2>2. flash'["S"] = flash["S"] BY <1>0, <1>5 DEF Program, TypeOK
    <2>3. CASE at < Len(Layout)
      <3>1. phase' = phase /\ copy' = "P" /\ UNCHANGED history BY <1>5, <2>3 DEF Program
      <3> QED BY <1>3, <1>4, <1>5, <2>2, <3>1 DEF Twins, Kept, Writing, history
    <2>4. CASE ~(at < Len(Layout))
      <3>1. phase' = phase /\ copy' = "S" /\ at' = 0 /\ UNCHANGED history
        BY <1>5, <2>4 DEF Program, WriteEnds, Twins
      <3>2. Twins' BY <1>3, <1>4, <1>5, <2>2, <3>1 DEF Twins, Writing, Prefix
      <3>3. Kept' BY <1>3, <1>4, <1>5, <2>2, <3>1 DEF Kept, Writing, history
      <3> QED BY <3>2, <3>3
    <2> QED BY <2>3, <2>4
  <1>6. CASE copy = "S"
    <2>1. Prefix("S", ram) BY <1>4, <1>6 DEF Twins
    <2>2. /\ \A n \in 1 .. at : flash'["S"][Layout[n]] = ram[Layout[n]]
          /\ at = Len(Layout) => flash'["S"] = ram
      BY <1>0, <1>2, <1>6, <2>1, ProgramCompletes
    <2>3. CASE at < Len(Layout)
      <3>1. phase' = phase /\ copy' = "S" /\ at' - 1 = at /\ UNCHANGED history
        BY <1>1, <1>6, <2>3 DEF Program
      <3>2. Twins' BY <1>3, <1>4, <1>6, <2>2, <3>1 DEF Twins, Writing, Prefix
      <3>3. Kept' BY <1>3, <1>4, <1>6, <3>1 DEF Kept, Writing, history
      <3> QED BY <3>2, <3>3
    <2>4. CASE ~(at < Len(Layout))
      <3>1. flash'["S"] = ram BY <1>1, <2>2, <2>4
      <3>2. /\ copy' = "P" /\ phase' = After(phase) /\ UNCHANGED <<new, booted>>
        BY <1>6, <2>4 DEF Program, WriteEnds
      <3>3. Twins' BY <1>3, <1>4, <3>1, <3>2 DEF Twins, After, Writing
      <3>4. Kept' BY <1>3, <1>4, <3>1, <3>2 DEF Kept, Twins, After, Writing
      <3> QED BY <3>3, <3>4
    <2> QED BY <2>3, <2>4
  <1> QED BY <1>0, <1>5, <1>6 DEF TypeOK, Copies

(* The phases of a boot, before the first fault. *)
LEMMA LoadCalm ==
    ASSUME Safe, NoFault, Twins, Kept, Load, NoFault' PROVE Twins' /\ Kept'
  <1>1. TypeOK /\ "P" \in Copies /\ "S" \in Copies BY DEF Safe, Copies
  <1>2. readOk' = Copies
    <2>1. failures = 0 /\ failures' = 0 BY DEF NoFault
    <2>2. PICK ok \in SUBSET Copies :
            /\ readOk' = ok
            /\ failures' = failures + (IF "P" \in ok THEN 0 ELSE 1)
                                    + (IF "S" \in ok THEN 0 ELSE 1)
      BY DEF Load
    <2>3. "P" \in ok /\ "S" \in ok BY <2>1, <2>2
    <2> QED BY <2>2, <2>3 DEF Copies
  <1>3. ram' = Recovered(flash["P"]) /\ second' = Recovered(flash["S"])
    BY <1>1, <1>2 DEF Load
  <1>4. flash["P"] = flash["S"] /\ flash["S"] \in Image BY <1>1 DEF Load, Twins, TypeOK
  <1>5. /\ phase = "off" /\ phase' = "rewrite" /\ copy' = "P"
        /\ flash' = flash /\ UNCHANGED history
    BY DEF Load
  <1>6. Twins' BY <1>2, <1>3, <1>4, <1>5 DEF Twins, Writing
  <1>7. booted => /\ flash["S"] \in {new, Recovered(new)} /\ new \in Image
    BY <1>1, <1>5 DEF Kept, TypeOK
  <1>8. booted => ram' = Recovered(new) BY <1>3, <1>4, <1>7, RecoveredTwice
  <1>9. Kept' BY <1>5, <1>7, <1>8 DEF Kept, history
  <1> QED BY <1>6, <1>9

LEMMA BootCalm ==
    ASSUME Safe, NoFault, Twins, Kept,
           \/ ChooseBoth \/ ChooseSecondary \/ ChoosePrimary \/ Reset
           \/ Adjust \/ SizeIsRight \/ FirstBoot
    PROVE  Twins' /\ Kept'
  <1>1. TypeOK /\ Synced /\ failures = 0 BY DEF Safe, NoFault
  <1>2. new \in Image BY <1>1 DEF TypeOK
  <1>3. /\ Recovered(new)["digest"] = new["digest"]
        /\ Recovered(new)["size"] = new["size"]
    BY <1>2, RecoveredKeeps
  <1>4. /\ Default["digest"] = Magic /\ Adjusted["digest"] = Magic
        /\ Adjusted["size"] = PdsSize
    BY PowerPositions, LayoutUnique DEF Default, Adjusted, Zero
  <1>5. phase = "choose" => (PrimaryGood <=> SecondaryGood)
    BY DEF Twins, PrimaryGood, SecondaryGood, Copies
  <1>6. CASE ChooseBoth
    <2>1. ram["digest"] = Magic BY <1>6 DEF ChooseBoth, PrimaryGood, IsValid
    <2> QED BY <1>6, <2>1 DEF ChooseBoth, Twins, Kept, Writing, ramVars, history
  <1>7. CASE ChooseSecondary \/ ChoosePrimary
    BY <1>5, <1>7 DEF ChooseSecondary, ChoosePrimary
  <1>8. CASE Reset
    <2>1. ~booted
      <3> SUFFICES ASSUME booted PROVE FALSE OBVIOUS
      <3>1. ram["digest"] = Magic BY <1>3, <1>8 DEF Reset, Kept
      <3> QED BY <1>8, <3>1 DEF Reset, Twins, PrimaryGood, IsValid, Copies
    <2> QED BY <1>4, <1>8, <2>1 DEF Reset, Twins, Kept, Writing, history
  <1>9. CASE Adjust
    <2>1. ~booted BY <1>3, <1>9 DEF Adjust, Kept
    <2> QED BY <1>4, <1>9, <2>1 DEF Adjust, Twins, Kept, Writing, history
  <1>10. CASE SizeIsRight
    BY <1>10 DEF SizeIsRight, Twins, Kept, Writing, ramVars, history
  <1>11. CASE FirstBoot
    BY <1>11 DEF FirstBoot, Twins, Kept, Writing, ramVars, doing, Prefix
  <1> QED BY <1>6, <1>7, <1>8, <1>9, <1>10, <1>11

LEMMA SetCalm ==
    ASSUME Safe, NoFault, Twins, Kept, NEW k \in Keys, NEW v, SetData(k, v)
    PROVE  Twins' /\ Kept'
  <1>1. ram \in Image /\ k \in Parts \ {"digest", "size"}
    BY DEF Safe, TypeOK, Keys
  <1>2. ram'["digest"] = Magic /\ ram'["size"] = ram["size"]
    BY <1>1, PowerPositions DEF SetData, Image
  <1>3. phase = "ready" /\ phase' = "set" /\ copy' = "P" /\ booted
    BY DEF SetData
  <1>4. new' = ram' /\ old' = ram /\ flash' = flash /\ booted' = booted BY DEF SetData
  <1>5. flash["S"] = ram /\ ram["size"] = PdsSize BY <1>3 DEF Twins
  <1>6. Twins' BY <1>2, <1>3, <1>5 DEF Twins, Writing
  <1>7. Kept' BY <1>2, <1>3, <1>4, <1>5 DEF Kept
  <1> QED BY <1>6, <1>7

(* A fault is never forgotten. *)
LEMMA FaultsStay == ASSUME TypeOK, [Next]_vars, NoFault' PROVE NoFault
  <1>1. losses \in Nat /\ failures \in Nat BY DEF TypeOK
  <1> QED
    BY <1>1 DEF Next, vars, NoFault, faults, Erase, Program, WriteFails, Load, ChooseBoth,
         ChooseSecondary, ChoosePrimary, Reset, Adjust, SizeIsRight, FirstBoot,
         Calibrate, SetData, SwitchOff, Restart, PowerLoss

LEMMA SafeStep == ASSUME Safe, [Next]_vars PROVE Safe'
  <1>1. TypeOK' /\ Synced' BY TypeStep, SyncedStep DEF Safe
  <1>2. losses \in Nat /\ failures \in Nat BY DEF Safe, TypeOK
  <1> SUFFICES ASSUME NoFault' PROVE Twins' /\ Kept' BY <1>1 DEF Safe, Calm
  <1>3. NoFault BY FaultsStay DEF Safe
  <1>4. Twins /\ Kept BY <1>3 DEF Safe, Calm
  <1>5. CASE UNCHANGED vars
    BY <1>4, <1>5 DEF Twins, Kept, Prefix, Writing, vars, ramVars, doing, history
  <1>6. CASE Erase
    <2>1. copy = "P" => flash'["S"] = flash["S"] BY <1>6 DEF Erase, Safe, TypeOK, Copies
    <2>2. at' = 1 /\ Writing /\ UNCHANGED <<ramVars, phase, copy, history>>
      BY <1>6 DEF Erase
    <2>3. copy \in {"P", "S"} BY DEF Safe, TypeOK, Copies
    <2>4. Twins' BY <1>4, <2>1, <2>2, <2>3 DEF Twins, Prefix, Writing, ramVars
    <2>5. Kept' BY <1>4, <2>1, <2>2, <2>3 DEF Kept, Writing, ramVars, history
    <2> QED BY <2>4, <2>5
  <1>7. CASE Program BY <1>3, <1>4, <1>7, ProgramCalm
  <1>8. CASE WriteFails BY <1>2, <1>8 DEF WriteFails, NoFault
  <1>9. CASE Load BY <1>3, <1>4, <1>9, LoadCalm
  <1>10. CASE \/ ChooseBoth \/ ChooseSecondary \/ ChoosePrimary \/ Reset
              \/ Adjust \/ SizeIsRight \/ FirstBoot
    BY <1>3, <1>4, <1>10, BootCalm
  <1>11. CASE Calibrate
    <2>1. {"low", "high", "complete"} \subseteq Keys BY PowerPositions DEF Keys
    <2> QED BY <1>3, <1>4, <1>11, <2>1, SetCalm DEF Calibrate
  <1>12. CASE \E setting \in Settings : SetData(setting[1], setting[2])
    BY <1>3, <1>4, <1>12, SetCalm, PdsConstants
  <1>13. CASE Restart
    <2>1. flash["P"] = ram /\ flash["S"] = ram
      BY <1>3, <1>4, <1>13 DEF Restart, Safe, Synced, NoFault, Twins, Writing
    <2>2. booted /\ phase = "ready" /\ phase' = "off" /\ flash' = flash /\ UNCHANGED history
      BY <1>13 DEF Restart, SwitchOff
    <2> QED BY <1>4, <2>1, <2>2 DEF Twins, Kept, Writing, history
  <1>14. CASE PowerLoss BY <1>2, <1>14 DEF PowerLoss, NoFault
  <1> QED BY <1>5, <1>6, <1>7, <1>8, <1>9, <1>10, <1>11, <1>12, <1>13, <1>14 DEF Next

(* The first loss of power leaves one copy with all of the settings of     *)
(* before or after the set_data() it interrupted, or with what the repair  *)
(* at boot made of them: for any settings and any history of changes,      *)
(* calibrations and restarts.                                              *)
THEOREM OneCopySurvivesAlways == Spec => OneCopySurvives
  <1>1. ASSUME Safe, NoFault, booted, phase # "off"
        PROVE  \E c \in Copies : flash[c] \in {old, new, Recovered(old), Recovered(new)}
    <2>1. Twins /\ Kept /\ Synced /\ TypeOK /\ failures = 0 BY <1>1 DEF Safe, Calm, NoFault
    <2>2. "P" \in Copies /\ "S" \in Copies BY DEF Copies
    <2>3. CASE Writing /\ copy = "P"
      <3>1. flash["S"] \in {old, new, Recovered(new)}
        BY <1>1, <2>1, <2>3 DEF Twins, Kept, Writing
      <3> QED BY <2>2, <3>1
    <2>4. CASE ~(Writing /\ copy = "P")
      <3>1. flash["P"] = ram BY <1>1, <2>1, <2>4 DEF Synced
      <3>2. ram \in {new, Recovered(new)}
        BY <1>1, <2>1 DEF Twins, Kept, TypeOK
      <3> QED BY <2>2, <3>1, <3>2
    <2> QED BY <2>3, <2>4
  <1>2. ASSUME Safe, Next, phase' = "off"
        PROVE  flash' = flash /\ phase # "off"
    <2>1. Restart \/ PowerLoss
      BY <1>2 DEF Next, Erase, Program, WriteFails, WriteEnds, After, Load, ChooseBoth,
           ChooseSecondary, ChoosePrimary, Reset, Adjust, SizeIsRight, FirstBoot,
           Calibrate, SetData, Writing, doing
    <2> QED BY <2>1 DEF Restart, PowerLoss, SwitchOff
  <1>3. Safe /\ [Next]_vars
          => [NoFault /\ booted /\ phase' = "off" =>
                \E c \in Copies :
                  flash'[c] \in {old, new, Recovered(old), Recovered(new)}]_vars
    BY <1>1, <1>2
  <1>4. Safe /\ [Next]_vars => Safe' BY SafeStep
  <1> QED BY InitSafe, <1>3, <1>4, PTL DEF Spec, OneCopySurvives

(* The repair at boot touches no other setting, so before the first fault  *)
(* a restart brings back what set_data() stored.                           *)
THEOREM OtherSettingsPersistAlways == Spec => []OtherSettingsPersist
  <1>1. ASSUME Safe PROVE OtherSettingsPersist
    <2>1. SUFFICES ASSUME phase = "ready", booted, NoFault
                   PROVE  \A k \in {"slot", "therm"} : ram[k] = new[k]
      BY DEF OtherSettingsPersist
    <2>2. new \in Image /\ ram \in {new, Recovered(new)}
      BY <1>1, <2>1 DEF Safe, Calm, Kept, TypeOK
    <2> QED BY <2>2, RecoveredKeeps
  <1> QED BY InitSafe, SafeStep, <1>1, PTL DEF Spec

-----------------------------------------------------------------------------
(* Items that an older firmware did not store. *)

(* An image whose size is right about itself: only items beyond the size   *)
(* it claims may read as erased flash.                                     *)
Filled(image) ==
    /\ image["size"] \in {OldSize, PdsSize}
    /\ \A p \in Parts : image[p] = Erased => Position(p) - 2 > image["size"]

(* Before the first fault, the image that the settings come from is        *)
(* filled wherever the digest makes the store believe it.                  *)
Genuine ==
    NoFault =>
      /\ phase = "off" \/ (phase = "rewrite" /\ copy = "P")
           => (IsValid(flash["S"]) => Filled(flash["S"]))
      /\ phase \in {"rewrite", "choose"} => (IsValid(ram) => Filled(ram))
      /\ phase \in {"check", "reset", "adjust", "ready", "set"} => Filled(ram)

LEMMA FirstPositions ==
    /\ "digest" \in Parts /\ "size" \in Parts /\ "therm" \in Parts
    /\ Position("digest") = 1 /\ Position("size") = 2 /\ Position("therm") = 9
  <1>1. Layout[1] = "digest" /\ Layout[2] = "size" /\ Layout[9] = "therm" BY DEF Layout
  <1> QED BY <1>1, Positions, LayoutParts

LEMMA DefaultValues ==
    \A p \in Parts : /\ Default[p] # Erased
                     /\ p \notin {"size", "therm"} => OldImage[p] # Erased
  BY Numbers DEF Default, OldImage, Zero, Magic, Erased

LEMMA DefaultFilled == Filled(Default) /\ Filled(OldImage)
  <1>1. Default["size"] = PdsSize BY FirstPositions DEF Default, Zero
  <1>2. OldImage["size"] = OldSize BY FirstPositions, ConstantImages DEF OldImage, Image
  <1>3. OldSize # Erased BY Numbers DEF Erased
  <1>4. Position("therm") - 2 > OldSize BY FirstPositions, Numbers
  <1> QED BY <1>1, <1>2, <1>3, <1>4, DefaultValues DEF Filled

LEMMA RecoveredFilled ==
    ASSUME NEW image \in Image, IsValid(image) => Filled(image), IsValid(Recovered(image))
    PROVE  Filled(Recovered(image))
  <1>1. /\ Recovered(image)["digest"] = image["digest"]
        /\ Recovered(image)["size"] = image["size"]
    BY RecoveredKeeps
  <1>2. Filled(image) BY <1>1 DEF IsValid
  <1>3. \A p \in Parts : Recovered(image)[p] \in {0, image[p]} BY DEF Recovered
  <1> QED BY <1>1, <1>2, <1>3 DEF Filled, Erased

LEMMA InitGenuine == Init => Genuine
  <1> SUFFICES ASSUME Init PROVE Genuine OBVIOUS
  <1>1. ~IsValid(Blank) BY FirstPositions DEF IsValid, Blank, Erased, Magic
  <1>2. flash["S"] \in {Blank, OldImage, Default} BY DEF Init, Copies
  <1> QED BY <1>1, <1>2, DefaultFilled DEF Init, Genuine

LEMMA GenuineStep == ASSUME Safe, Genuine, [Next]_vars PROVE Genuine'
  <1> SUFFICES ASSUME NoFault' PROVE Genuine' BY DEF Genuine
  <1>1. TypeOK /\ NoFault BY FaultsStay DEF Safe
  <1>2. Twins /\ Synced /\ failures = 0 BY <1>1 DEF Safe, Calm, NoFault
  <1>3. "P" \in Copies /\ "S" \in Copies BY DEF Copies
  <1> USE <1>1 DEF Genuine
  <1>4. CASE UNCHANGED vars BY <1>4 DEF vars, ramVars, doing
  <1>5. CASE Erase
    <2>1. UNCHANGED <<ram, phase, copy>> /\ Writing BY <1>5 DEF Erase, ramVars
    <2>2. copy # "S" => flash'["S"] = flash["S"] BY <1>3, <1>5 DEF Erase, TypeOK
    <2> QED BY <2>1, <2>2 DEF Writing
  <1>6. CASE Program
    <2>1. ram' = ram /\ Writing BY <1>6 DEF Program, ramVars
    <2>2. copy # "S" => flash'["S"] = flash["S"] BY <1>3, <1>6 DEF Program, TypeOK
    <2>3. \/ phase' = phase /\ copy' = copy
          \/ phase' = phase /\ copy' # "P"
          \/ phase' = After(phase) /\ phase # "restore"
      BY <1>2, <1>6 DEF Program, WriteEnds, Twins
    <2> QED BY <2>1, <2>2, <2>3 DEF After, Writing
  <1>7. CASE WriteFails BY <1>2, <1>7 DEF WriteFails, NoFault
  <1>8. CASE Load
    <2>1. /\ flash["S"] \in Image /\ flash' = flash
          /\ IsValid(flash["S"]) => Filled(flash["S"])
      BY <1>3, <1>8 DEF Load, TypeOK
    <2>2. phase' = "rewrite" /\ ram' = Recovered(flash["S"])
      <3>1. Twins' BY <1>8, SafeStep DEF Next, Safe, Calm
      <3> QED BY <1>8, <2>1, <3>1 DEF Load, Twins
    <2> QED BY <2>1, <2>2, RecoveredFilled
  <1>9. CASE ChooseBoth BY <1>9 DEF ChooseBoth, PrimaryGood, ramVars
  <1>10. CASE ChooseSecondary \/ ChoosePrimary
    BY <1>2, <1>10, SafeStep DEF ChooseSecondary, ChoosePrimary, Next, Safe, Calm, Twins
  <1>11. CASE Reset BY <1>11, DefaultFilled DEF Reset
  <1>12. CASE Adjust
    <2>1. Adjusted["size"] = PdsSize BY FirstPositions, DefaultFilled DEF Adjusted, Default, Zero
    <2>2. \A p \in Parts : Adjusted[p] # Erased
      BY <1>12, DefaultValues DEF Adjust, Adjusted, Filled
    <2> QED BY <1>12, <2>1, <2>2 DEF Adjust, Filled
  <1>13. CASE SizeIsRight BY <1>13 DEF SizeIsRight, ramVars
  <1>14. CASE FirstBoot BY <1>14 DEF FirstBoot, ramVars, doing
  <1>15. ASSUME NEW k \in Keys, NEW v \in Values, SetData(k, v) PROVE Genuine'
    <2>1. ram \in Image /\ k \in Parts \ {"digest", "size"} /\ Filled(ram) /\ phase' = "set"
      BY <1>15 DEF SetData, TypeOK, Keys
    <2>2. ram' = [ram EXCEPT ![k] = v, !["digest"] = Magic] BY <1>15 DEF SetData
    <2>3. v # Erased /\ Magic # Erased BY DEF Values, Erased, Magic
    <2>4. ram'["size"] = ram["size"] /\ \A p \in Parts : ram'[p] = Erased => ram[p] = Erased
      BY <2>1, <2>2, <2>3, FirstPositions DEF Image
    <2>5. Filled(ram') BY <2>1, <2>4 DEF Filled
    <2> QED BY <2>1, <2>5, <1>15 DEF SetData
  <1>16. CASE Calibrate
    <2>1. {"low", "high", "complete"} \subseteq Keys BY PowerPositions DEF Keys
    <2> QED BY <1>15, <1>16, <2>1 DEF Calibrate, Values
  <1>17. CASE \E setting \in Settings : SetData(setting[1], setting[2])
    BY <1>15, <1>17, PdsConstants
  <1>18. CASE Restart
    <2>1. flash["S"] = ram /\ Filled(ram) BY <1>2, <1>18 DEF Restart, Twins
    <2> QED BY <1>18, <2>1 DEF Restart, SwitchOff
  <1>19. CASE PowerLoss BY <1>18, <1>19, SafeStep DEF PowerLoss, NoFault, TypeOK
  <1> QED BY <1>4, <1>5, <1>6, <1>7, <1>8, <1>9, <1>10, <1>11, <1>12, <1>13, <1>14,
             <1>16, <1>17, <1>18, <1>19 DEF Next

(* Whatever an older firmware left in flash and however often the store is *)
(* restarted, before the first fault no item of a ready store reads as     *)
(* erased flash: adjust_pds() gives each one it did not find a default.    *)
THEOREM NothingErasedAlways == Spec => []NothingErased
  <1>1. Safe /\ Genuine /\ [Next]_vars => (Safe /\ Genuine)' BY SafeStep, GenuineStep
  <1>2. ASSUME Safe, Genuine PROVE NothingErased
    <2> SUFFICES ASSUME phase = "ready", NoFault PROVE \A p \in Parts : ram[p] # Erased
      BY DEF NothingErased
    <2>1. Filled(ram) /\ ram["size"] = 7
      BY <1>2, Numbers DEF Genuine, Safe, Calm, Twins
    <2> QED BY <2>1, Positions DEF Filled
  <1> QED BY InitSafe, InitGenuine, <1>1, <1>2, PTL DEF Spec
=============================================================================
