-------------------------- MODULE InterruptsProofs --------------------------
(***************************************************************************)
(* The theorems about src/int.cpp, src/ints.asm and the switches of mode:  *)
(* what holds for every set of lines that devices raise, however often,    *)
(* and whatever masks the BIOS left.                                       *)
(***************************************************************************)
EXTENDS Interrupts, TLAPS

-----------------------------------------------------------------------------
(* The invariant *)

\* The words that PIC_remap has still to write, by its step, and the vectors that
\* are in place (int.cpp:30-53).
Remapping ==
  /\ \/ step = 1 /\ icw[1] = 1 /\ icw[2] = 1
     \/ step = 2 /\ icw[1] = 2 /\ icw[2] = 1
     \/ step = 3 /\ icw[1] = 2 /\ icw[2] = 2
     \/ step = 4 /\ icw[1] = 3 /\ icw[2] = 2
     \/ step = 5 /\ icw[1] = 3 /\ icw[2] = 3
     \/ step = 6 /\ icw[1] = 4 /\ icw[2] = 3
     \/ step = 7 /\ icw[1] = 4 /\ icw[2] = 4
     \/ step = 8 /\ icw[1] = 1 /\ icw[2] = 4
     \/ step \in {9, 10} /\ icw[1] = 1 /\ icw[2] = 1
  /\ step > 3 => base[1] = Offset1
  /\ step > 4 => base[2] = Offset2

Before == {"stage2", "kernel", "toReal", "called", "cli"}
After == {"maskAll", "lidt", "addInt", "unmask", "sti", "run"}

\* What each part of the program has made ready for those that follow it.
Phases ==
  /\ pc = "remap" => Remapping
  /\ pc \in Before \cup After => icw[1] = 1 /\ icw[2] = 1
  /\ pc \in After => base[1] = Offset1 /\ base[2] = Offset2
  /\ pc \in After \cup {"cli", "remap"} => mode = "protected"
  /\ pc \in {"unmask", "sti", "run"} => gates = Gates
  /\ pc = "maskAll" => step \in {1, 2}
  /\ idtr = "idt" <=> pc \in {"addInt", "unmask", "sti", "run"}
  /\ idtr = "idt" => ~wild
  /\ intFlag => pc \in {"stage2", "kernel", "run"}

\* What the 8259s ask for was raised.
Raised == \A p \in Pic : \A b \in irr[p] : \E n \in Lines : PicOf(n) = p /\ BitOf(n) = b

\* At most one handler, in the running kernel, with interrupts off, and its line
\* in service until its EOIs.
Served ==
  frames # <<>> =>
    /\ pc = "run" /\ ~intFlag /\ Len(frames) = 1
    /\ frames[1].at \in {"body", "sendeoi"} =>
         /\ frames[1].irq \in Lines
         /\ BitOf(frames[1].irq) \in isr[PicOf(frames[1].irq)]

IInv == TypeOK /\ Phases /\ Raised /\ Served

-----------------------------------------------------------------------------
(* Lemmas *)

LEMMA RemapRows ==
  /\ DOMAIN RemapData = 1 .. 8 /\ Len(RemapData) = 8
  /\ RemapData[1] = <<1, Offset1>> /\ RemapData[2] = <<2, Offset2>>
  /\ RemapData[3] = <<1, 4>> /\ RemapData[4] = <<2, 2>>
  /\ RemapData[5] = <<1, 1>> /\ RemapData[6] = <<2, 1>>
  /\ RemapData[7] = <<1, a[1]>> /\ RemapData[8] = <<2, a[2]>>
BY DEF RemapData

\* Of lines of one controller one has the highest priority.
LEMMA HighestOfSome ==
  ASSUME NEW S \in SUBSET AllLines, S # {}
  PROVE  Highest(S) \in S
<1>1. \E b \in S : \A c \in S : b <= c
  <2>0. PICK x \in S : x \in 0 .. 7
    BY DEF AllLines
  <2>1. CASE 0 \in S  BY <2>1 DEF AllLines
  <2>2. CASE 0 \notin S /\ 1 \in S  BY <2>2 DEF AllLines
  <2>3. CASE S \cap {0, 1} = {} /\ 2 \in S  BY <2>3 DEF AllLines
  <2>4. CASE S \cap {0, 1, 2} = {} /\ 3 \in S  BY <2>4 DEF AllLines
  <2>5. CASE S \cap {0, 1, 2, 3} = {} /\ 4 \in S  BY <2>5 DEF AllLines
  <2>6. CASE S \cap {0, 1, 2, 3, 4} = {} /\ 5 \in S  BY <2>6 DEF AllLines
  <2>7. CASE S \cap {0, 1, 2, 3, 4, 5} = {} /\ 6 \in S  BY <2>7 DEF AllLines
  <2>8. CASE S \cap {0, 1, 2, 3, 4, 5, 6} = {} /\ 7 \in S  BY <2>8 DEF AllLines
  <2> QED BY <2>0, <2>1, <2>2, <2>3, <2>4, <2>5, <2>6, <2>7, <2>8
<1> QED BY <1>1 DEF Highest

\* The line that the processor is given is one that a device raised and that is
\* still requested.
LEMMA GrantedRaised ==
  ASSUME TypeOK, Raised, Interrupting
  PROVE  Granted \in Lines /\ BitOf(Granted) \in irr[PicOf(Granted)]
<1> DEFINE b == Highest(Requests(1))
<1>1. irr[1] \in SUBSET AllLines /\ irr[2] \in SUBSET AllLines
  BY DEF TypeOK, Pic
<1>2. Requests(1) \in SUBSET AllLines /\ Requests(1) # {}
  BY <1>1 DEF Interrupting, Requests, Through, Cascade, AllLines
<1>3. b \in Requests(1)
  BY <1>2, HighestOfSome
<1>4. CASE b = Cascade
  <2>1. Cascade \notin irr[1]
    BY LinesAssumption DEF Raised, Pic, PicOf, BitOf, Cascade
  <2>2. Through(2, irr[2]) # {}
    BY <1>3, <1>4, <2>1 DEF Requests, Through
  <2>3. Highest(Requests(2)) \in irr[2]
    BY <1>1, <2>2, HighestOfSome DEF Requests, Through
  <2>4. Granted = 8 + Highest(Requests(2))
    BY <1>4 DEF Granted
  <2> QED BY <1>1, <2>3, <2>4, LinesAssumption DEF Raised, Pic, PicOf, BitOf, AllLines
<1>5. CASE b # Cascade
  <2>1. b \in irr[1] /\ Granted = b
    BY <1>3, <1>5 DEF Requests, Through, Granted
  <2> QED BY <1>1, <2>1, LinesAssumption DEF Raised, Pic, PicOf, BitOf, AllLines
<1> QED BY <1>4, <1>5
\* A word written to a data port is the one that the 8259 waits for.
LEMMA WriteDataEffect ==
  ASSUME TypeOK, NEW p \in Pic, NEW v, WriteData(p, v)
  PROVE  /\ irr' = irr /\ isr' = isr
         /\ \A q \in Pic : q # p => base'[q] = base[q] /\ imr'[q] = imr[q] /\ icw'[q] = icw[q]
         /\ icw[p] = 1 => icw'[p] = 1 /\ base' = base /\ imr' = [imr EXCEPT ![p] = v]
         /\ icw[p] = 2 => icw'[p] = 3 /\ imr' = imr /\ base' = [base EXCEPT ![p] = v]
         /\ icw[p] = 3 => icw'[p] = 4 /\ imr' = imr /\ base' = base
         /\ icw[p] = 4 => icw'[p] = 1 /\ imr' = imr /\ base' = base
         /\ icw' \in [Pic -> 1 .. 4]
<1> DEFINE next == CASE icw[p] = 1 -> 1 [] icw[p] = 2 -> 3 [] icw[p] = 3 -> 4 [] icw[p] = 4 -> 1
<1>1. icw[p] \in 1 .. 4 /\ icw \in [Pic -> 1 .. 4] /\ base \in [Pic -> 0 .. 255]
      /\ imr \in [Pic -> SUBSET AllLines]
  BY DEF TypeOK
<1>2. icw' = [icw EXCEPT ![p] = next]
  BY DEF WriteData
<1>3. icw[p] = 1 => next = 1
  <2> SUFFICES ASSUME icw[p] = 1  PROVE next = 1  OBVIOUS
  <2>1. icw[p] # 2 /\ icw[p] # 3 /\ icw[p] # 4
    OBVIOUS
  <2> QED BY <2>1, Zenon
<1>4. icw[p] = 2 => next = 3
  <2> SUFFICES ASSUME icw[p] = 2  PROVE next = 3  OBVIOUS
  <2>1. icw[p] # 1 /\ icw[p] # 3 /\ icw[p] # 4
    OBVIOUS
  <2> QED BY <2>1, Zenon
<1>5. icw[p] = 3 => next = 4
  <2> SUFFICES ASSUME icw[p] = 3  PROVE next = 4  OBVIOUS
  <2>1. icw[p] # 2 /\ icw[p] # 1 /\ icw[p] # 4
    OBVIOUS
  <2> QED BY <2>1, Zenon
<1>6. icw[p] = 4 => next = 1
  <2> SUFFICES ASSUME icw[p] = 4  PROVE next = 1  OBVIOUS
  <2>1. icw[p] # 2 /\ icw[p] # 3 /\ icw[p] # 1
    OBVIOUS
  <2> QED BY <2>1, Zenon
<1> HIDE DEF next
<1>7. next \in 1 .. 4
  BY <1>1, <1>3, <1>4, <1>5, <1>6
<1>8. /\ base' = (IF icw[p] = 2 THEN [base EXCEPT ![p] = v] ELSE base)
      /\ imr' = (IF icw[p] = 1 THEN [imr EXCEPT ![p] = v] ELSE imr)
      /\ irr' = irr /\ isr' = isr
  BY DEF WriteData
<1> QED BY <1>1, <1>2, <1>3, <1>4, <1>5, <1>6, <1>7, <1>8


-----------------------------------------------------------------------------
(* The invariant is inductive *)

LEMMA InitInv == Init => IInv
<1> SUFFICES ASSUME Init  PROVE IInv  OBVIOUS
<1>1. TypeOK
  <2>1. frames \in Seq([irq : (-Offset1) .. 15, at : {"body", "sendeoi", "pic1", "iret"},
                        eax : {"live", "eoi"}])
    BY DEF Init
  <2>2. /\ base \in [Pic -> 0 .. 255] /\ icw \in [Pic -> 1 .. 4]
        /\ {irr, isr, imr, a} \subseteq [Pic -> SUBSET AllLines]
    BY LinesAssumption DEF Init, Pic, AllLines
  <2>3. raised \in [Lines -> 0 .. MaxRaises]
    BY LinesAssumption DEF Init
  <2>4. /\ pc = "stage2" /\ step = 0 /\ mode = "real" /\ idtr = "ivt" /\ gates = {}
        /\ eax = "live" /\ intFlag \in BOOLEAN /\ wild \in BOOLEAN
    BY Zenon DEF Init
  <2> QED BY <2>1, <2>2, <2>3, <2>4 DEF TypeOK
<1>2. Phases
  BY DEF Init, Phases, Before, After
<1>3. Raised /\ Served
  BY DEF Init, Raised, Served, Pic
<1> QED BY <1>1, <1>2, <1>3 DEF IInv

\* What the program does between interrupts leaves the handlers out of it.
LEMMA ProgramKeeps ==
  ASSUME IInv, Program
  PROVE  IInv'
<1> USE DEF IInv, Main, At, Before, After
<1>0. frames = <<>> /\ ~wild
  BY DEF Program, EnterProtected, ToReal, RealCall, BackToProtected, SaveMasks, RemapCommand,
         Remap, MaskAll, LoadIDTR, AddInts, Unmask, Sti, Compute
<1>1. CASE EnterProtected
  BY <1>1 DEF EnterProtected, TypeOK, Phases, Raised, Served, Remapping, pics
<1>2. CASE ToReal
  BY <1>2 DEF ToReal, TypeOK, Phases, Raised, Served, Remapping, pics
<1>3. CASE RealCall
  BY <1>3 DEF RealCall, TypeOK, Phases, Raised, Served, Remapping, pics
<1>4. CASE BackToProtected
  <2>1. TypeOK'
    <3>1. step + 1 < Int86Calls => step + 1 \in 0 .. 15
      BY DEF Int86Calls, TypeOK
    <3>2. intFlag' \in BOOLEAN
      BY <1>4, Zenon DEF BackToProtected
    <3> QED BY <1>4, <3>1, <3>2 DEF BackToProtected, TypeOK, pics
  <2>2. Phases'
    BY <1>4 DEF BackToProtected, Int86Calls, Phases, Remapping, pics
  <2>3. Raised' /\ Served'
    BY <1>4 DEF BackToProtected, Int86Calls, Raised, Served, pics
  <2> QED BY <2>1, <2>2, <2>3
<1>5. CASE SaveMasks
  <2>1. TypeOK'
    <3>1. intFlag' \in BOOLEAN
      BY <1>5, Zenon DEF SaveMasks
    <3> QED BY <1>5, <3>1 DEF SaveMasks, TypeOK, pics
  <2>2. Phases'
    BY <1>5 DEF SaveMasks, Phases, Remapping, pics
  <2>3. Raised' /\ Served'
    BY <1>5 DEF SaveMasks, Raised, Served, pics
  <2> QED BY <2>1, <2>2, <2>3
<1>6. CASE RemapCommand
  BY <1>6 DEF RemapCommand, WriteICW1, TypeOK, Phases, Raised, Served, Remapping, Pic, AllLines
<1>7. CASE Remap
  <2> DEFINE p == RemapData[step - 2][1]
             v == RemapData[step - 2][2]
  <2>1. pc = "remap" /\ step \in 3 .. 10 /\ p \in Pic /\ WriteData(p, v)
    BY <1>7, RemapRows DEF Remap, Pic, TypeOK
  <2>2. /\ IF step = 10 THEN pc' = "maskAll" /\ step' = 1 ELSE step' = step + 1 /\ pc' = pc
        /\ UNCHANGED <<mode, idtr, gates, a, intFlag, eax, frames, wild, raised>>
    BY <1>7, <2>1, RemapRows DEF Remap
  <2>3. irr' = irr /\ isr' = isr /\ icw' \in [Pic -> 1 .. 4] /\ Remapping /\ TypeOK
    BY <2>1, WriteDataEffect DEF Phases
  <2>4. /\ base' \in [Pic -> 0 .. 255] /\ imr' \in [Pic -> SUBSET AllLines]
        /\ (IF step = 10 THEN icw'[1] = 1 /\ icw'[2] = 1 /\ base'[1] = Offset1 /\ base'[2] = Offset2
                         ELSE Remapping')
    <3>1. base \in [Pic -> 0 .. 255] /\ imr \in [Pic -> SUBSET AllLines] /\ a \in [Pic -> SUBSET AllLines]
      BY DEF TypeOK
    <3>2. CASE step = 3
      BY <2>1, <2>2, <2>3, <3>1, <3>2, RemapRows, WriteDataEffect DEF Remapping, Pic, Offset1, Offset2
    <3>3. CASE step = 4
      BY <2>1, <2>2, <2>3, <3>1, <3>3, RemapRows, WriteDataEffect DEF Remapping, Pic, Offset1, Offset2
    <3>4. CASE step \in {5, 6}
      BY <2>1, <2>2, <2>3, <3>1, <3>4, RemapRows, WriteDataEffect DEF Remapping, Pic
    <3>5. CASE step \in {7, 8}
      BY <2>1, <2>2, <2>3, <3>1, <3>5, RemapRows, WriteDataEffect DEF Remapping, Pic
    <3>6. CASE step \in {9, 10}
      BY <2>1, <2>2, <2>3, <3>1, <3>6, RemapRows, WriteDataEffect DEF Remapping, Pic
    <3> QED BY <2>1, <3>2, <3>3, <3>4, <3>5, <3>6
  <2>5. TypeOK'
    <3>1. step' \in 0 .. 15 /\ pc' \in {"remap", "maskAll"}
      BY <2>1, <2>2
    <3> QED BY <2>2, <2>3, <2>4, <3>1 DEF TypeOK
  <2>6. Phases'
    <3>1. CASE step = 10
      <4>1. pc' = "maskAll" /\ step' = 1 /\ UNCHANGED <<mode, idtr, gates, intFlag, wild>>
        BY <2>2, <3>1
      <4>2. icw'[1] = 1 /\ icw'[2] = 1 /\ base'[1] = Offset1 /\ base'[2] = Offset2
        BY <2>4, <3>1
      <4> QED BY <2>1, <4>1, <4>2 DEF Phases
    <3>2. CASE step # 10
      BY <2>1, <2>2, <2>4, <3>2 DEF Phases
    <3> QED BY <3>1, <3>2
  <2>7. Raised' /\ Served'
    BY <1>0, <2>2, <2>3 DEF Raised, Served
  <2> QED BY <2>5, <2>6, <2>7
<1>8. CASE MaskAll
  <2>1. step \in Pic /\ WriteData(step, AllLines) /\ icw[1] = 1 /\ icw[2] = 1 /\ TypeOK
    BY <1>8 DEF MaskAll, Phases, Pic
  <2>2. irr' = irr /\ isr' = isr /\ base' = base /\ imr' = [imr EXCEPT ![step] = AllLines]
        /\ icw'[1] = 1 /\ icw'[2] = 1 /\ icw' \in [Pic -> 1 .. 4]
    BY <2>1, WriteDataEffect DEF Pic
  <2>3. TypeOK'
    BY <1>8, <2>1, <2>2 DEF MaskAll, TypeOK
  <2>4. Phases'
    BY <1>8, <2>1, <2>2 DEF MaskAll, Phases, Pic
  <2>5. Raised' /\ Served'
    BY <1>8, <2>2 DEF MaskAll, Raised, Served
  <2> QED BY <2>3, <2>4, <2>5
<1>9. CASE LoadIDTR
  BY <1>9 DEF LoadIDTR, TypeOK, Phases, Raised, Served, Remapping, pics
<1>10. CASE AddInts
  BY <1>10 DEF AddInts, Gates, TypeOK, Phases, Raised, Served, Remapping, pics
<1>11. CASE Unmask
  <2> DEFINE p == PicOf(step)
             v == imr[p] \ {BitOf(step)}
  <2>1. p \in Pic /\ WriteData(p, v) /\ icw[1] = 1 /\ icw[2] = 1 /\ TypeOK
    BY <1>11 DEF Unmask, ClearMask, PicOf, Pic, Phases
  <2>2. v \in SUBSET AllLines
    BY <2>1 DEF TypeOK
  <2> HIDE DEF p, v
  <2>3. irr' = irr /\ isr' = isr /\ base' = base /\ imr' = [imr EXCEPT ![p] = v]
        /\ icw'[1] = 1 /\ icw'[2] = 1 /\ icw' \in [Pic -> 1 .. 4]
    BY <2>1, WriteDataEffect DEF Pic
  <2>4. TypeOK'
    <3>1. imr' \in [Pic -> SUBSET AllLines]
      BY <2>1, <2>2, <2>3 DEF TypeOK
    <3>2. step' \in 0 .. 15 /\ pc' \in {"unmask", "sti"}
      BY <1>11, <2>1 DEF Unmask, LastLine, TypeOK
    <3> QED BY <1>11, <2>1, <2>3, <3>1, <3>2 DEF Unmask, TypeOK
  <2>5. Phases'
    BY <1>11, <2>3 DEF Unmask, Phases
  <2>6. Raised' /\ Served'
    BY <1>11, <2>3 DEF Unmask, Raised, Served
  <2> QED BY <2>4, <2>5, <2>6
<1>12. CASE Sti
  <2>1. TypeOK'
    BY <1>12 DEF Sti, TypeOK, Phases, Remapping, pics
  <2>2. Phases'
    <3>1. pc' = "run" /\ UNCHANGED <<step, mode, idtr, gates, wild, base, icw>>
      BY <1>12 DEF Sti, pics
    <3> QED BY <1>12, <3>1 DEF Sti, Phases
  <2>3. Raised' /\ Served'
    BY <1>12 DEF Sti, Raised, Served, pics
  <2> QED BY <2>1, <2>2, <2>3
<1>13. CASE Compute
  BY <1>13 DEF Compute, program, TypeOK, Phases, Raised, Served, Remapping, pics
<1> QED
  BY <1>1, <1>2, <1>3, <1>4, <1>5, <1>6, <1>7, <1>8, <1>9, <1>10, <1>11, <1>12, <1>13 DEF Program

LEMMA LineParts ==
  ASSUME NEW n \in Lines
  PROVE  /\ n \in 0 .. 15 /\ PicOf(n) \in Pic /\ BitOf(n) \in AllLines
         /\ PicOf(n) = 1 => n \in 0 .. 7 /\ BitOf(n) = n
         /\ PicOf(n) = 2 => n \in 8 .. 15 /\ BitOf(n) = n - 8
BY LinesAssumption DEF PicOf, BitOf, Pic, AllLines

LEMMA RaiseKeeps ==
  ASSUME IInv, NEW n \in Lines, Raise(n)
  PROVE  IInv'
<1> USE DEF IInv, program
<1>1. PicOf(n) \in Pic /\ BitOf(n) \in AllLines
  BY LinesAssumption DEF PicOf, BitOf, Pic, AllLines
<1>2. TypeOK'
  BY <1>1, LinesAssumption DEF Raise, TypeOK
<1>3. Phases'
  BY DEF Raise, Phases, Remapping
<1>4. Raised' /\ Served'
  BY <1>1 DEF Raise, Raised, Served, TypeOK
<1> QED BY <1>2, <1>3, <1>4

LEMMA BiosKeeps ==
  ASSUME IInv, BiosService
  PROVE  IInv'
<1> USE DEF IInv, program, BiosService
<1>1. irr' \in [Pic -> SUBSET AllLines] /\ \A p \in Pic : irr'[p] \subseteq irr[p]
  BY DEF TypeOK
<1>2. TypeOK'
  BY <1>1 DEF TypeOK
<1>3. Phases'
  BY DEF Phases, Remapping
<1>4. Raised' /\ Served'
  BY <1>1 DEF Raised, Served
<1> QED BY <1>2, <1>3, <1>4

\* An interrupt goes to the handler of the line that was granted, or the vectors
\* are still those of real mode.
LEMMA DeliverKeeps ==
  ASSUME IInv, Deliver
  PROVE  IInv'
<1> DEFINE n == Granted
           vector == base[PicOf(n)] + BitOf(n)
           frame == [irq |-> vector - Offset1, at |-> "body", eax |-> eax]
<1>1. n \in Lines /\ PicOf(n) \in Pic /\ BitOf(n) \in AllLines /\ n \in 0 .. 15
      /\ (PicOf(n) = 1 => n \in 0 .. 7 /\ BitOf(n) = n)
      /\ (PicOf(n) = 2 => n \in 8 .. 15 /\ BitOf(n) = n - 8)
  BY GrantedRaised, LineParts DEF IInv, Deliver
<1>2. idtr = "idt" => vector = 32 + n /\ vector \in gates /\ pc = "run"
  <2> SUFFICES ASSUME idtr = "idt"  PROVE vector = 32 + n /\ vector \in gates /\ pc = "run"
    OBVIOUS
  <2>1. pc = "run"
    BY DEF IInv, Phases, Deliver, Interrupting
  <2>2. base[1] = 32 /\ base[2] = 40 /\ gates = Gates
    BY <2>1 DEF IInv, Phases, After, Offset1, Offset2
  <2> HIDE DEF n
  <2>3. vector = 32 + n
    BY <1>1, <2>2 DEF Pic
  <2> QED BY <1>1, <2>1, <2>2, <2>3 DEF Gates
<1>3. frames = <<>>
  BY DEF IInv, Deliver, Interrupting, Served
<1> HIDE DEF n
<1>4. Acknowledge(n) /\ UNCHANGED <<program, eax, base, imr, icw, raised>>
      /\ (IF idtr = "idt" /\ vector \in gates
          THEN frames' = Append(frames, frame) /\ intFlag' = FALSE /\ wild' = wild
          ELSE wild' = TRUE /\ frames' = frames /\ intFlag' = intFlag)
  BY DEF Deliver, IntGate, n
<1>5. irr' \in [Pic -> SUBSET AllLines] /\ isr' \in [Pic -> SUBSET AllLines]
      /\ BitOf(n) \in isr'[PicOf(n)]
      /\ \A p \in Pic : irr'[p] \subseteq irr[p]
  <2>1. irr \in [Pic -> SUBSET AllLines] /\ isr \in [Pic -> SUBSET AllLines]
    BY DEF IInv, TypeOK
  <2>2. CASE PicOf(n) = 1
    BY <1>1, <1>4, <2>1, <2>2 DEF Acknowledge, Pic
  <2>3. CASE PicOf(n) = 2
    <3>1. isr' = <<isr[1] \cup {Cascade}, isr[2] \cup {BitOf(n)}>>
      BY <1>4, <2>3 DEF Acknowledge
    <3>2. isr' \in [Pic -> SUBSET AllLines] /\ BitOf(n) \in isr'[2]
      BY <1>1, <2>1, <3>1 DEF Pic, AllLines, Cascade
    <3> QED BY <1>1, <1>4, <2>1, <2>3, <3>2 DEF Acknowledge
  <2> QED BY <1>1, <2>2, <2>3 DEF Pic
<1>6. CASE idtr = "idt"
  <2>1. frames' = <<frame>> /\ intFlag' = FALSE /\ wild' = wild /\ frame.irq = n /\ pc = "run"
    <3>1. frames' = Append(<<>>, frame) /\ intFlag' = FALSE /\ wild' = wild
      BY <1>2, <1>3, <1>4, <1>6
    <3>2. frame.irq = n /\ pc = "run"
      BY <1>1, <1>2, <1>6 DEF Offset1
    <3> QED BY <3>1, <3>2
  <2>2. frame \in [irq : (-Offset1) .. 15, at : {"body", "sendeoi", "pic1", "iret"},
                   eax : {"live", "eoi"}]
    <3>1. eax \in {"live", "eoi"}
      BY DEF IInv, TypeOK
    <3>2. n \in (-Offset1) .. 15
      BY <1>1 DEF Offset1
    <3>3. frame.irq \in (-Offset1) .. 15
      BY <2>1, <3>2
    <3> QED BY <3>1, <3>3
  <2> HIDE DEF frame
  <2>3. frames' \in Seq([irq : (-Offset1) .. 15, at : {"body", "sendeoi", "pic1", "iret"},
                          eax : {"live", "eoi"}])
    BY <2>1, <2>2
  <2>4. TypeOK'
    BY <1>4, <1>5, <2>1, <2>3 DEF IInv, TypeOK, program
  <2>5. Phases' /\ Raised'
    BY <1>4, <1>5, <2>1 DEF IInv, Phases, Raised, Remapping, program
  <2>6. Served'
    BY <1>1, <1>4, <1>5, <2>1 DEF Served, program
  <2> QED BY <2>4, <2>5, <2>6 DEF IInv
<1>7. CASE idtr # "idt"
  <2>1. wild' = TRUE /\ frames' = frames /\ intFlag' = intFlag
    BY <1>4, <1>7
  <2>2. TypeOK'
    BY <1>4, <1>5, <2>1 DEF IInv, TypeOK, program
  <2>3. Phases' /\ Raised'
    BY <1>4, <1>5, <1>7, <2>1 DEF IInv, Phases, Raised, Remapping, program
  <2>4. Served'
    BY <1>3, <2>1 DEF Served
  <2> QED BY <2>2, <2>3, <2>4 DEF IInv
<1> QED BY <1>6, <1>7

\* A handler goes through its code once and to the iret, which leaves none.
LEMMA HandlerKeeps ==
  ASSUME IInv, Handler
  PROVE  IInv'
<1> DEFINE Frame == [irq : (-Offset1) .. 15, at : {"body", "sendeoi", "pic1", "iret"},
                     eax : {"live", "eoi"}]
<1>0. /\ frames # <<>> /\ Len(frames) = 1 /\ Top = frames[1] /\ frames \in Seq(Frame)
      /\ pc = "run" /\ ~intFlag /\ frames[1] \in Frame
  <2>1. frames # <<>>
    BY DEF Handler, Body, SendEOISlave, SendEOIMaster, Iret, Handling
  <2>2. pc = "run" /\ ~intFlag /\ Len(frames) = 1
    BY <2>1 DEF IInv, Served
  <2>3. frames \in Seq(Frame)
    BY DEF IInv, TypeOK
  <2> HIDE DEF Frame
  <2> QED BY <2>1, <2>2, <2>3 DEF Top
<1> HIDE DEF Frame
<1>1. ASSUME NEW l \in {"body", "sendeoi", "pic1", "iret"}, GoTo(l)
      PROVE  /\ frames' \in Seq(Frame) /\ Len(frames') = 1 /\ frames'[1].at = l
             /\ frames'[1].irq = frames[1].irq
  BY <1>0, <1>1 DEF GoTo, Frame
<1>2. ASSUME NEW p \in Pic, EndOfInterrupt(p)
      PROVE  isr' \in [Pic -> SUBSET AllLines]
  BY <1>2 DEF EndOfInterrupt, IInv, TypeOK
<1>3. CASE Body
  <2>1. PICK l \in {"sendeoi", "iret"} : GoTo(l) /\ eax' \in {"live", "eoi"}
    BY <1>3 DEF Body, IInv, TypeOK
  <2>2. UNCHANGED <<program, intFlag, wild, pics, raised>> /\ Top.at = "body"
    BY <1>3 DEF Body, Handling
  <2>3. TypeOK'
    BY <1>1, <2>1, <2>2 DEF IInv, TypeOK, program, pics, Frame
  <2>4. Phases' /\ Raised'
    BY <2>2 DEF IInv, Phases, Raised, Remapping, program, pics
  <2>5. Served'
    BY <1>0, <1>1, <2>1, <2>2 DEF IInv, Served, program, pics
  <2> QED BY <2>3, <2>4, <2>5 DEF IInv
<1>4. CASE SendEOISlave
  <2>1. GoTo("pic1") /\ isr' \in [Pic -> SUBSET AllLines]
        /\ UNCHANGED <<program, intFlag, eax, wild, base, irr, imr, icw, raised>>
    BY <1>2, <1>4 DEF SendEOISlave, Pic, IInv, TypeOK
  <2>2. frames' \in Seq(Frame)
    BY <1>1, <2>1
  <2>3. TypeOK'
    BY <2>1, <2>2 DEF IInv, TypeOK, program, Frame
  <2>4. Phases' /\ Raised'
    BY <2>1 DEF IInv, Phases, Raised, Remapping, program
  <2>5. Served'
    BY <1>0, <1>1, <2>1 DEF Served, program
  <2> QED BY <2>3, <2>4, <2>5 DEF IInv
<1>5. CASE SendEOIMaster
  <2>1. GoTo("iret") /\ isr' \in [Pic -> SUBSET AllLines]
        /\ UNCHANGED <<program, intFlag, eax, wild, base, irr, imr, icw, raised>>
    BY <1>2, <1>5 DEF SendEOIMaster, Pic
  <2>2. frames' \in Seq(Frame)
    BY <1>1, <2>1
  <2>3. TypeOK'
    BY <2>1, <2>2 DEF IInv, TypeOK, program, Frame
  <2>4. Phases' /\ Raised'
    BY <2>1 DEF IInv, Phases, Raised, Remapping, program
  <2>5. Served'
    BY <1>0, <1>1, <2>1 DEF Served, program
  <2> QED BY <2>3, <2>4, <2>5 DEF IInv
<1>6. CASE Iret
  <2>1. frames' = <<>> /\ intFlag' = TRUE /\ UNCHANGED <<program, eax, wild, pics, raised>>
    BY <1>0, <1>6 DEF Iret
  <2>2. intFlag' \in BOOLEAN
    BY <2>1, Zenon
  <2>3. TypeOK'
    BY <2>1, <2>2 DEF IInv, TypeOK, program, pics
  <2>4. Phases' /\ Raised'
    BY <1>0, <2>1 DEF IInv, Phases, Raised, Remapping, program, pics
  <2>5. Served'
    BY <2>1 DEF Served
  <2> QED BY <2>3, <2>4, <2>5 DEF IInv
<1> QED BY <1>3, <1>4, <1>5, <1>6 DEF Handler

LEMMA StepInv == IInv /\ [Next]_vars => IInv'
<1> SUFFICES ASSUME IInv, [Next]_vars  PROVE IInv'
  OBVIOUS
<1>1. CASE UNCHANGED vars
  <2> USE <1>1 DEF vars, program, pics
  <2>1. TypeOK'  BY DEF IInv, TypeOK
  <2>2. Phases'  BY DEF IInv, Phases, Remapping
  <2>3. Raised' /\ Served'  BY DEF IInv, Raised, Served
  <2> QED BY <2>1, <2>2, <2>3 DEF IInv
<1>2. CASE Crashed
  BY <1>1, <1>2 DEF Crashed
<1> QED
  BY <1>1, <1>2, ProgramKeeps, RaiseKeeps, BiosKeeps, DeliverKeeps, HandlerKeeps
  DEF Next, Processor, Devices

\* The conjunction that every step of processor and devices keeps.
THEOREM Invariant == Spec => []IInv
BY InitInv, StepInv, PTL DEF Spec

-----------------------------------------------------------------------------
(* What the runs check *)

\* The types, and no raised counter, frame or mask outside of them.
THEOREM InterruptTypes == Spec => []TypeOK
<1>1. IInv => TypeOK  BY DEF IInv
<1> QED BY <1>1, Invariant, PTL

\* Once the kernel's table is loaded, each interrupt is handled by the code of its
\* own line, which is in service (int.cpp:131-175).
THEOREM RightHandler == Spec => []HandlerOfItsLine
<1>1. IInv => HandlerOfItsLine
  <2> SUFFICES ASSUME IInv, idtr = "idt"
               PROVE  ~wild /\ \A i \in DOMAIN frames :
                        frames[i].at \in {"body", "sendeoi"} =>
                          /\ frames[i].irq \in Lines
                          /\ BitOf(frames[i].irq) \in isr[PicOf(frames[i].irq)]
    BY DEF HandlerOfItsLine
  <2>1. DOMAIN frames = 1 .. Len(frames) /\ (frames = <<>> <=> Len(frames) = 0)
    BY DEF IInv, TypeOK
  <2>2. \A i \in DOMAIN frames : i = 1 /\ frames # <<>>
    BY <2>1 DEF IInv, Served
  <2> QED BY <2>2 DEF IInv, Phases, Served
<1> QED BY <1>1, Invariant, PTL

\* Handlers do not nest (ints.asm, INT0 of int.h).
THEOREM HandlersAlone == Spec => []NoNesting
<1>1. IInv => NoNesting
  <2>1. ASSUME IInv, frames = <<>>  PROVE NoNesting  BY <2>1 DEF NoNesting
  <2>2. ASSUME IInv, frames # <<>>  PROVE NoNesting  BY <2>2 DEF IInv, Served, NoNesting
  <2> QED BY <2>1, <2>2
<1> QED BY <1>1, Invariant, PTL

-----------------------------------------------------------------------------
(* Services *)

\* What the master has in service for a line.
AtMaster(n) == IF n < 8 THEN n ELSE Cascade

\* Between handlers nothing is in service; in a handler what its EOIs still have
\* to end.
Ended ==
  /\ ~wild /\ frames = <<>> => isr[1] = {} /\ isr[2] = {}
  /\ frames # <<>> =>
       /\ frames[1].irq \in Lines
       /\ frames[1].at \in {"body", "sendeoi", "pic1"} => isr[1] = {AtMaster(frames[1].irq)}
       /\ frames[1].at \in {"body", "sendeoi"} /\ frames[1].irq > 7 => isr[2] = {frames[1].irq - 8}
       /\ frames[1].at = "pic1" \/ frames[1].irq < 8 => isr[2] = {}
       /\ frames[1].at = "iret" => isr[1] = {} /\ isr[2] = {}

\* An EOI ends the only service that there is.
LEMMA EndsOne ==
  ASSUME TypeOK, NEW p \in Pic, EndOfInterrupt(p), NEW b, isr[p] = {b}
  PROVE  isr'[p] = {} /\ \A q \in Pic : q # p => isr'[q] = isr[q]
<1>1. Highest({b}) = b
  BY DEF Highest, TypeOK, AllLines
<1> QED BY <1>1 DEF EndOfInterrupt, TypeOK

LEMMA StepEnded ==
  ASSUME 8 \notin Lines, IInv, Ended, [Next]_vars
  PROVE  Ended'
<1> USE DEF IInv
<1>1. CASE UNCHANGED vars \/ Crashed
  BY <1>1 DEF Crashed, vars, pics, Ended
<1>2. CASE Program
  <2>1. frames = <<>> /\ ~wild /\ frames' = <<>>
    BY <1>2 DEF Program, EnterProtected, ToReal, RealCall, BackToProtected, SaveMasks, RemapCommand,
                Remap, MaskAll, LoadIDTR, AddInts, Unmask, Sti, Compute, At, Main
  <2>2. isr' = isr \/ \E p \in Pic : isr' = [isr EXCEPT ![p] = {}]
    BY <1>2 DEF Program, EnterProtected, ToReal, RealCall, BackToProtected, SaveMasks, RemapCommand,
                Remap, MaskAll, LoadIDTR, AddInts, Unmask, Sti, Compute, pics, WriteICW1, WriteData,
                ClearMask
  <2> QED BY <2>1, <2>2 DEF Ended, TypeOK, Pic
<1>3. CASE BiosService \/ Devices
  BY <1>3 DEF BiosService, Devices, Raise, Ended
<1>4. CASE Deliver
  <2> DEFINE n == Granted
             vector == base[PicOf(n)] + BitOf(n)
  <2>1. frames = <<>> /\ ~wild /\ n \in Lines
    BY <1>4, GrantedRaised DEF Deliver, Interrupting, Served
  <2>2. isr[1] = {} /\ isr[2] = {} /\ isr \in [Pic -> SUBSET AllLines]
    BY <2>1 DEF Ended, TypeOK
  <2>3. CASE wild' = TRUE /\ frames' = frames
    BY <2>1, <2>3 DEF Ended
  <2>4. CASE ~ (wild' = TRUE /\ frames' = frames)
    <3>1. idtr = "idt" /\ frames' = Append(frames, [irq |-> vector - Offset1, at |-> "body", eax |-> eax])
      BY <1>4, <2>4 DEF Deliver
    <3>2. base[1] = 32 /\ base[2] = 40
      BY <3>1 DEF Phases, After, Offset1, Offset2
    <3>3. vector - Offset1 = n
      BY <2>1, <3>2, LineParts DEF Offset1, Pic
    <3>4. frames' = <<[irq |-> n, at |-> "body", eax |-> eax]>>
      BY <2>1, <3>1, <3>3
    <3>5. Acknowledge(n)
      BY <1>4 DEF Deliver
    <3> HIDE DEF n
    <3>6. n < 8 => isr'[1] = {n} /\ isr'[2] = {}
      BY <2>1, <2>2, <3>5, LineParts DEF Acknowledge, Pic
    <3>7. n > 7 => isr'[1] = {Cascade} /\ isr'[2] = {n - 8}
      <4> SUFFICES ASSUME n > 7  PROVE isr'[1] = {Cascade} /\ isr'[2] = {n - 8}  OBVIOUS
      <4>1. isr' = <<isr[1] \cup {Cascade}, isr[2] \cup {n - 8}>>
        BY <2>1, <3>5, LineParts DEF Acknowledge, Pic
      <4> QED BY <2>2, <4>1
    <3>8. frames'[1].irq = n /\ frames'[1].at = "body" /\ frames' # <<>> /\ n \in 0 .. 15
      BY <2>1, <3>4, LineParts
    <3> QED BY <2>1, <3>6, <3>7, <3>8 DEF Ended, AtMaster
  <2> QED BY <2>3, <2>4
<1>5. CASE Handler
  <2>1. frames # <<>> /\ Len(frames) = 1 /\ Top = frames[1]
    BY <1>5 DEF Served, Handler, Body, SendEOISlave, SendEOIMaster, Iret, Handling, Top
  <2>2. frames[1].irq \in Lines /\ frames[1].irq \in 0 .. 15 /\ frames[1].irq # 8 /\ ~wild
    BY <2>1, LineParts DEF Ended, Served, Phases
  <2> DEFINE Frame == [irq : (-Offset1) .. 15, at : {"body", "sendeoi", "pic1", "iret"},
                       eax : {"live", "eoi"}]
  <2>a. frames \in Seq(Frame)
    BY DEF TypeOK
  <2> HIDE DEF Frame
  <2>3. frames \in Seq(Frame) /\ frames[1] \in Frame
    BY <2>a, <2>1
  <2>4. ASSUME NEW l, GoTo(l)
        PROVE  frames'[1].at = l /\ frames'[1].irq = frames[1].irq /\ frames' # <<>>
    BY <2>1, <2>3, <2>4 DEF GoTo, Frame
  <2>5. CASE Body
    <3>1. GoTo("sendeoi") /\ isr' = isr /\ frames[1].at = "body"
      BY <2>1, <2>2, <2>5 DEF Body, Handling, pics
    <3> QED BY <2>1, <2>2, <2>4, <3>1 DEF Ended
  <2>6. CASE SendEOISlave
    <3>1. GoTo("pic1") /\ frames[1].at = "sendeoi"
          /\ (IF frames[1].irq > 8 THEN EndOfInterrupt(2) ELSE isr' = isr)
      BY <2>1, <2>6 DEF SendEOISlave, Handling, OnSlave
    <3>2. isr'[1] = isr[1] /\ isr'[2] = {}
      <4>1. CASE frames[1].irq > 8
        <5>1. isr[2] = {frames[1].irq - 8} /\ EndOfInterrupt(2)
          BY <2>1, <2>2, <3>1, <4>1 DEF Ended
        <5>2. 1 \in Pic /\ 2 \in Pic
          BY DEF Pic
        <5> QED BY <5>1, <5>2, EndsOne
      <4>2. CASE ~ (frames[1].irq > 8)
        BY <2>1, <2>2, <3>1, <4>2 DEF Ended
      <4> QED BY <4>1, <4>2
    <3> QED BY <2>1, <2>2, <2>4, <3>1, <3>2 DEF Ended
  <2>7. CASE SendEOIMaster
    <3>1. GoTo("iret") /\ frames[1].at = "pic1" /\ EndOfInterrupt(1)
      BY <2>1, <2>7 DEF SendEOIMaster, Handling
    <3>2. isr[1] = {AtMaster(frames[1].irq)} /\ isr[2] = {}
      BY <2>1, <3>1 DEF Ended
    <3>3. isr'[1] = {} /\ isr'[2] = {}
      BY <3>1, <3>2, EndsOne DEF Pic
    <3> QED BY <2>2, <2>4, <3>1, <3>3 DEF Ended
  <2>8. CASE Iret
    <3>1. frames' = <<>> /\ isr' = isr /\ frames[1].at = "iret"
      BY <2>1, <2>3, <2>8 DEF Iret, Handling, pics
    <3> QED BY <2>1, <3>1 DEF Ended
  <2> QED BY <1>5, <2>5, <2>6, <2>7, <2>8 DEF Handler
<1> QED BY <1>1, <1>2, <1>3, <1>4, <1>5 DEF Next, Processor

\* Where the clock's line 8 raises nothing, which sendeoi leaves in service at the
\* slave, the code between two interrupts owes no EOI (ints.asm:2-12).
THEOREM ServicesEnded ==
  ASSUME 8 \notin Lines
  PROVE  Spec => []ServiceEnded
<1>1. Init => Ended
  BY DEF Init, Ended
<1>2. IInv /\ Ended /\ [Next]_vars => Ended'
  BY StepEnded
<1>3. IInv /\ Ended => ServiceEnded
  <2> SUFFICES ASSUME IInv, Ended, pc = "run", frames = <<>>  PROVE isr = <<{}, {}>>
    BY DEF ServiceEnded
  <2>1. isr[1] = {} /\ isr[2] = {} /\ isr \in [1 .. 2 -> SUBSET AllLines]
    BY DEF IInv, Phases, Ended, TypeOK, Pic
  <2> QED BY <2>1
<1> QED BY <1>1, <1>2, <1>3, Invariant, PTL DEF Spec

-----------------------------------------------------------------------------
(* Requests *)

\* The mask that the loop of int.cpp:171-173 has taken off, and IF between handlers.
Unmasked ==
  /\ \A n \in 0 .. 15 : pc \in {"sti", "run"} \/ (pc = "unmask" /\ n < step)
                          => BitOf(n) \notin imr[PicOf(n)]
  /\ pc = "run" /\ frames = <<>> => intFlag

LEMMA LineOfPic ==
  ASSUME NEW n \in 0 .. 15
  PROVE  /\ PicOf(n) \in Pic /\ BitOf(n) \in AllLines
         /\ PicOf(n) = 1 => n \in 0 .. 7 /\ BitOf(n) = n
         /\ PicOf(n) = 2 => n \in 8 .. 15 /\ BitOf(n) = n - 8
BY DEF PicOf, BitOf, Pic, AllLines

LEMMA UnmaskTakesOff ==
  ASSUME IInv, Unmasked, Unmask
  PROVE  Unmasked'
<1> DEFINE p == PicOf(step)
           v == imr[p] \ {BitOf(step)}
<1>1. step \in 0 .. 15 /\ pc = "unmask" /\ frames = <<>> /\ WriteData(p, v)
  BY DEF Unmask, ClearMask, Main, IInv, TypeOK
<1>2. p \in Pic /\ icw[p] = 1
  BY <1>1, LineOfPic DEF IInv, Phases, After, Pic
<1> HIDE DEF v
<1>3. imr' = [imr EXCEPT ![p] = v] /\ imr \in [Pic -> SUBSET AllLines]
  BY <1>2, <1>1, WriteDataEffect DEF IInv, TypeOK
<1>4. \A q \in Pic : imr'[q] \subseteq imr[q]
  BY <1>2, <1>3 DEF v
<1>5. BitOf(step) \notin imr'[p]
  BY <1>2, <1>3 DEF v
<1>6. ASSUME NEW n \in 0 .. 15, pc' \in {"sti", "run"} \/ (pc' = "unmask" /\ n < step')
      PROVE  n <= step
  BY <1>1, <1>6 DEF Unmask, LastLine
<1>7. ASSUME NEW n \in 0 .. 15, n <= step
      PROVE  BitOf(n) \notin imr'[PicOf(n)]
  <2>1. CASE n = step
    BY <2>1, <1>5
  <2>2. CASE n < step
    BY <2>2, <1>1, <1>4, LineOfPic DEF Unmasked
  <2> QED BY <1>1, <1>7, <2>1, <2>2
<1>8. pc' # "run"
  BY <1>1 DEF Unmask
<1> QED BY <1>6, <1>7, <1>8 DEF Unmasked

LEMMA StepUnmasked == IInv /\ Unmasked /\ [Next]_vars => Unmasked'
<1> SUFFICES ASSUME IInv, Unmasked, [Next]_vars  PROVE Unmasked'
  OBVIOUS
<1>1. CASE UNCHANGED vars \/ Crashed
  BY <1>1 DEF Crashed, vars, program, pics, Unmasked
<1>2. CASE Program
  <2>1. CASE Unmask
    BY <2>1, UnmaskTakesOff
  <2>2. CASE Sti
    BY <2>2 DEF Sti, At, pics, Unmasked
  <2>3. CASE Compute
    BY <2>3 DEF Compute, program, pics, Unmasked
  <2>4. CASE AddInts
    <3>1. pc' = "unmask" /\ step' = 0
      BY <2>4 DEF AddInts, At
    <3> QED BY <3>1 DEF Unmasked
  <2>5. CASE EnterProtected \/ ToReal \/ RealCall \/ BackToProtected \/ SaveMasks
             \/ RemapCommand \/ Remap \/ MaskAll \/ LoadIDTR
    <3>1. pc' \notin {"unmask", "sti", "run"}
      BY <2>5 DEF EnterProtected, ToReal, RealCall, BackToProtected, SaveMasks, RemapCommand,
                  Remap, MaskAll, LoadIDTR, At
    <3> QED BY <3>1 DEF Unmasked
  <2> QED BY <1>2, <2>1, <2>2, <2>3, <2>4, <2>5 DEF Program
<1>3. CASE BiosService \/ Devices
  BY <1>3 DEF BiosService, Devices, Raise, program, Unmasked
<1>4. CASE Deliver
  <2>1. UNCHANGED <<pc, step, imr>>
    BY <1>4 DEF Deliver, program
  <2>2. frames' # <<>> \/ UNCHANGED <<frames, intFlag>>
    <3>1. frames \in Seq([irq : (-Offset1) .. 15, at : {"body", "sendeoi", "pic1", "iret"},
                          eax : {"live", "eoi"}])
      BY DEF IInv, TypeOK
    <3>2. UNCHANGED <<frames, intFlag>> \/ \E f : frames' = Append(frames, f)
      BY <1>4 DEF Deliver
    <3> QED BY <3>1, <3>2
  <2> QED BY <2>1, <2>2 DEF Unmasked
<1>5. CASE Handler
  <2>1. UNCHANGED <<pc, step, imr>>
    BY <1>5 DEF Handler, Body, SendEOISlave, SendEOIMaster, Iret, program, pics
  <2>2. intFlag' \/ frames' # <<>>
    <3>1. CASE Iret
      BY <3>1 DEF Iret
    <3>2. CASE ~Iret
      <4>1. frames # <<>> /\ \E l : GoTo(l)
        BY <1>5, <3>2 DEF Handler, Body, SendEOISlave, SendEOIMaster, Handling
      <4>2. frames \in Seq([irq : (-Offset1) .. 15, at : {"body", "sendeoi", "pic1", "iret"},
                            eax : {"live", "eoi"}])
        BY DEF IInv, TypeOK
      <4>3. Len(frames) \in DOMAIN frames
        BY <4>1, <4>2
      <4>4. DOMAIN frames' = DOMAIN frames
        BY <4>1 DEF GoTo
      <4> QED BY <4>3, <4>4
    <3> QED BY <3>1, <3>2
  <2> QED BY <2>1, <2>2 DEF Unmasked
<1> QED BY <1>1, <1>2, <1>3, <1>4, <1>5 DEF Next, Processor

\* A request of any line but the clock's finds its way to the processor open as
\* soon as no handler runs: this is the safety half of EveryRequestServed, which
\* needs the processor's fairness only to take it (int.cpp:171-174, ints.asm:2-12).
THEOREM RequestsGoThrough ==
  ASSUME 8 \notin Lines
  PROVE  Spec => []NeverHeldBack
<1>1. Init => Unmasked /\ Ended
  BY DEF Init, Unmasked, Ended
<1>2. IInv /\ Ended /\ [Next]_vars => Ended'
  BY StepEnded
<1>3. IInv /\ Ended /\ Unmasked => NeverHeldBack
  <2> SUFFICES ASSUME IInv, Ended, Unmasked, pc = "run", frames = <<>>,
                      NEW n \in Lines, BitOf(n) \in irr[PicOf(n)]
               PROVE  Interrupting
    BY DEF NeverHeldBack
  <2>1. isr[1] = {} /\ isr[2] = {} /\ intFlag
    BY DEF IInv, Phases, Ended, Unmasked
  <2>2. BitOf(n) \notin imr[PicOf(n)]
    BY LineParts DEF Unmasked
  <2>3. CASE PicOf(n) = 1
    <3>1. BitOf(n) \in Requests(1)
      BY <2>1, <2>2, <2>3 DEF Requests, Through
    <3> QED BY <2>1, <3>1 DEF Interrupting
  <2>4. CASE PicOf(n) = 2
    <3>1. Through(2, irr[2]) # {}
      BY <2>1, <2>2, <2>4 DEF Through
    <3>2. Cascade \notin imr[1]
      <4>1. 2 \in 0 .. 15 /\ PicOf(2) = 1 /\ BitOf(2) = Cascade
        BY DEF PicOf, BitOf, Cascade
      <4> QED BY <4>1 DEF Unmasked
    <3>3. Cascade \in Requests(1)
      BY <2>1, <3>1, <3>2 DEF Requests, Through
    <3> QED BY <2>1, <3>3 DEF Interrupting
  <2> QED BY <2>3, <2>4, LineParts DEF Pic
<1> QED BY <1>1, <1>2, <1>3, StepUnmasked, Invariant, PTL DEF Spec
=============================================================================
