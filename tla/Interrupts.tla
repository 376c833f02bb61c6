----------------------------- MODULE Interrupts -----------------------------
(***************************************************************************)
(* How an interrupt gets from a device to its handler: the two 8259s and   *)
(* the processor (external), the switches of mode of src/bootloader.asm    *)
(* and src/int86.cpp, initialize_interrupts of src/int.cpp, the entry and  *)
(* exit code of src/ints.asm.                                              *)
(*                                                                         *)
(* A line is 0 .. 7 on the master (1) and 8 .. 15 on the slave (2).  A     *)
(* step of the program is one access to a port, or a stretch of code that  *)
(* no interrupt can get into because IF is clear.                          *)
(***************************************************************************)
EXTENDS Integers, Sequences, FiniteSets

CONSTANTS
  Lines,        \* the lines that devices raise
  BiosMasks,    \* [1 .. 2 -> SUBSET (0 .. 7)], the masks the BIOS left
  MaxRaises     \* bound on how often a line is raised

Cascade == 2

ASSUME LinesAssumption ==
  /\ Lines \subseteq (0 .. 15) \ {Cascade}
  /\ BiosMasks \in [1 .. 2 -> SUBSET (0 .. 7)] /\ Cascade \notin BiosMasks[1]
  /\ MaxRaises \in Nat

VARIABLES
  pc,      \* where the program is
  step,    \* the next write of PIC_remap, the next line of the loop that unmasks
  mode,    \* "real" or "protected"
  idtr,    \* "ivt", the real mode vectors, or "idt"
  gates,   \* the vectors of idt that addInt filled
  intFlag,      \* the interrupt flag
  eax,     \* "live", what the interrupted code put there, or "eoi"
  frames,  \* the handlers entered and not left
  wild,    \* an interrupt went through a vector that holds no gate
  base, irr, isr, imr,  \* of each 8259
  icw,     \* the initialisation word it waits for, 1 when it works
  a,       \* a1 and a2 of PIC_remap
  raised   \* how often each line was raised

program == <<pc, step, mode, idtr, gates, a>>
pics == <<base, irr, isr, imr, icw>>
vars == <<program, intFlag, eax, frames, wild, pics, raised>>

Pic == 1 .. 2
AllLines == 0 .. 7
PicOf(n) == IF n < 8 THEN 1 ELSE 2
BitOf(n) == n % 8

Init ==
  /\ pc = "stage2" /\ step = 0 /\ mode = "real" /\ idtr = "ivt" /\ gates = {}
  /\ intFlag = TRUE /\ eax = "live" /\ frames = <<>> /\ wild = FALSE
  /\ base = <<8, 112>> /\ irr = <<{}, {}>> /\ isr = <<{}, {}>> /\ imr = BiosMasks
  /\ icw = <<1, 1>> /\ a = <<{}, {}>>
  /\ raised = [l \in Lines |-> 0]

-----------------------------------------------------------------------------
\* The 8259s.

\* A request goes through when it is not masked and nothing of its priority or a
\* higher one is in service.
Through(p, asked) == {b \in asked \ imr[p] : \A s \in isr[p] : b < s}
Requests(p) ==
  IF p = 2 THEN Through(2, irr[2])
  ELSE Through(1, irr[1] \cup (IF Through(2, irr[2]) # {} THEN {Cascade} ELSE {}))
Highest(S) == CHOOSE b \in S : \A c \in S : b <= c
Interrupting == intFlag /\ Requests(1) # {}

\* The line that the processor is given.
Granted == LET b == Highest(Requests(1))
           IN  IF b = Cascade THEN 8 + Highest(Requests(2)) ELSE b

Raise(n) ==
  /\ raised[n] < MaxRaises
  /\ raised' = [raised EXCEPT ![n] = @ + 1]
  /\ irr' = [irr EXCEPT ![PicOf(n)] = @ \cup {BitOf(n)}]
  /\ UNCHANGED <<program, intFlag, eax, frames, wild, base, isr, imr, icw>>

\* outb to the command port: ICW1 starts it all over, an EOI ends the service of
\* the highest priority.
WriteICW1(p) ==
  /\ icw' = [icw EXCEPT ![p] = 2]
  /\ irr' = [irr EXCEPT ![p] = {}] /\ isr' = [isr EXCEPT ![p] = {}]
  /\ imr' = [imr EXCEPT ![p] = {}]
  /\ UNCHANGED base
EndOfInterrupt(p) ==
  isr' = [isr EXCEPT ![p] = IF @ = {} THEN {} ELSE @ \ {Highest(@)}]

\* outb to the data port: the word it waits for, else the mask.
WriteData(p, v) ==
  /\ base' = IF icw[p] = 2 THEN [base EXCEPT ![p] = v] ELSE base
  /\ imr' = IF icw[p] = 1 THEN [imr EXCEPT ![p] = v] ELSE imr
  /\ icw' = [icw EXCEPT ![p] = CASE @ = 1 -> 1 [] @ = 2 -> 3 [] @ = 3 -> 4 [] @ = 4 -> 1]
  /\ UNCHANGED <<irr, isr>>

-----------------------------------------------------------------------------
\* The program.  It does nothing while an interrupt is being taken or handled.
Main == frames = <<>> /\ ~wild /\ ~Interrupting

At(label, next) == Main /\ pc = label /\ pc' = next

\* bootloader.asm goes to protected mode with IF as it is, and on to the kernel.
EnterProtected ==
  /\ At("stage2", "kernel") /\ mode' = "protected"
  /\ UNCHANGED <<step, idtr, gates, a, intFlag, eax, frames, wild, pics, raised>>

Int86Calls == 2

\* to_real: cli first.
ToReal ==
  /\ At("kernel", "toReal") /\ intFlag' = FALSE
  /\ UNCHANGED <<step, mode, idtr, gates, a, eax, frames, wild, pics, raised>>

\* enter and start of to_call_int.asm, the BIOS call, which leaves IF as it was.
RealCall ==
  /\ At("toReal", "called") /\ mode' = "real" /\ idtr' = "ivt"
  /\ UNCHANGED <<step, gates, a, intFlag, eax, frames, wild, pics, raised>>

\* hang: back to protected mode; k_main makes its other call or goes on.
BackToProtected ==
  /\ Main /\ pc = "called" /\ mode' = "protected" /\ intFlag' = FALSE
  /\ IF step + 1 < Int86Calls THEN pc' = "kernel" /\ step' = step + 1
                              ELSE pc' = "cli" /\ step' = 0
  /\ UNCHANGED <<idtr, gates, a, eax, frames, wild, pics, raised>>

\* initialize_interrupts, PIC_remap: the masks are saved.
SaveMasks ==
  /\ At("cli", "remap") /\ intFlag' = FALSE /\ a' = imr /\ step' = 1
  /\ UNCHANGED <<mode, idtr, gates, eax, frames, wild, pics, raised>>

Offset1 == 32
Offset2 == 40

\* The data that PIC_remap writes after the two ICW1, in the order of its code.
RemapData ==
  << <<1, Offset1>>, <<2, Offset2>>, <<1, 4>>, <<2, 2>>, <<1, 1>>, <<2, 1>>,
     <<1, a[1]>>, <<2, a[2]>> >>

RemapCommand ==
  /\ Main /\ pc = "remap" /\ step \in Pic
  /\ WriteICW1(step) /\ step' = step + 1
  /\ UNCHANGED <<pc, mode, idtr, gates, a, intFlag, eax, frames, wild, raised>>

Remap ==
  /\ Main /\ pc = "remap" /\ step - 2 \in DOMAIN RemapData
  /\ WriteData(RemapData[step - 2][1], RemapData[step - 2][2])
  /\ IF step - 2 = Len(RemapData) THEN pc' = "maskAll" /\ step' = 1
                                  ELSE step' = step + 1 /\ UNCHANGED pc
  /\ UNCHANGED <<mode, idtr, gates, a, intFlag, eax, frames, wild, raised>>

\* IRQ_set_mask(ALL), one controller after the other.
MaskAll ==
  /\ Main /\ pc = "maskAll"
  /\ WriteData(step, AllLines)
  /\ IF step = 2 THEN pc' = "lidt" /\ step' = 0 ELSE step' = 2 /\ UNCHANGED pc
  /\ UNCHANGED <<mode, idtr, gates, a, intFlag, eax, frames, wild, raised>>

LoadIDTR ==
  /\ At("lidt", "addInt") /\ idtr' = "idt"
  /\ UNCHANGED <<step, mode, gates, a, intFlag, eax, frames, wild, pics, raised>>

GatesShort == (0 .. 14) \cup (16 .. 19) \cup (32 .. 46)
Gates == (0 .. 14) \cup (16 .. 19) \cup (32 .. 47)

\* The calls of addInt, in a row.
AddInts ==
  /\ At("addInt", "unmask") /\ gates' = Gates /\ step' = 0
  /\ UNCHANGED <<mode, idtr, a, intFlag, eax, frames, wild, pics, raised>>

LinesOneMore == 16
LinesOfMaster == 7
LastLine == 15

\* IRQ_clear_mask(i): a read of the mask and a write.
ClearMaskFirst(n) == WriteData(1, imr[1] \ {BitOf(n)})
ClearMask(n) == WriteData(PicOf(n), imr[PicOf(n)] \ {BitOf(n)})

Unmask ==
  /\ Main /\ pc = "unmask"
  /\ ClearMask(step)
  /\ IF step = LastLine THEN pc' = "sti" /\ step' = 0 ELSE step' = step + 1 /\ UNCHANGED pc
  /\ UNCHANGED <<mode, idtr, gates, a, intFlag, eax, frames, wild, raised>>

Sti ==
  /\ At("sti", "run") /\ intFlag' = TRUE
  /\ UNCHANGED <<step, mode, idtr, gates, a, eax, frames, wild, pics, raised>>

\* The rest of k_main never ends; it computes in eax.
Compute ==
  /\ Main /\ pc = "run" /\ eax' = "live"
  /\ UNCHANGED <<program, intFlag, frames, wild, pics, raised>>

-----------------------------------------------------------------------------
\* An interrupt.

\* The 8259s turn the request into a service.
Acknowledge(n) ==
  /\ irr' = [irr EXCEPT ![PicOf(n)] = @ \ {BitOf(n)}]
  /\ isr' = IF PicOf(n) = 1 THEN [isr EXCEPT ![1] = @ \cup {n}]
            ELSE <<isr[1] \cup {Cascade}, isr[2] \cup {BitOf(n)}>>

\* In real mode the BIOS's own handler serves it and ends the service.
BiosService ==
  /\ ~wild /\ Interrupting /\ mode = "real"
  /\ irr' = [irr EXCEPT ![PicOf(Granted)] = @ \ {BitOf(Granted)}]
  /\ UNCHANGED <<program, intFlag, eax, frames, wild, base, isr, imr, icw, raised>>

\* addInt makes interrupt gates: IF is cleared until the iret.
TrapGate == intFlag
IntGate == FALSE

\* Through the gate into irq_n; through the real mode vectors into anything.
Deliver ==
  /\ ~wild /\ Interrupting /\ mode = "protected"
  /\ LET n == Granted
         vector == base[PicOf(n)] + BitOf(n)
     IN  /\ Acknowledge(n)
         /\ IF idtr = "idt" /\ vector \in gates
            THEN /\ frames' = Append(frames, [irq |-> vector - Offset1, at |-> "body", eax |-> eax])
                 /\ intFlag' = IntGate
                 /\ UNCHANGED wild
            ELSE wild' = TRUE /\ UNCHANGED <<frames, intFlag>>
  /\ UNCHANGED <<program, eax, base, imr, icw, raised>>

Top == frames[Len(frames)]
Handling(label) == frames # <<>> /\ ~wild /\ ~Interrupting /\ Top.at = label
GoTo(label) == frames' = [frames EXCEPT ![Len(frames)].at = label]

\* def of ints.asm: the registers saved, irqN called, the registers restored, and
\* then the number moved to eax.  A handler of an exception leaves at once.
Body ==
  /\ Handling("body")
  /\ IF Top.irq < 0 THEN GoTo("iret") /\ UNCHANGED eax
                    ELSE GoTo("sendeoi") /\ eax' = "eoi"
  /\ UNCHANGED <<program, intFlag, wild, pics, raised>>

\* sendeoi: `cmp eax, 0x8` and `jle .pic1`.
MasterOnly(n) == FALSE
OnSlave(n) == n > 8

SendEOISlave ==
  /\ Handling("sendeoi")
  /\ GoTo("pic1")
  /\ IF OnSlave(Top.irq) THEN EndOfInterrupt(2) ELSE UNCHANGED isr
  /\ UNCHANGED <<program, intFlag, eax, wild, base, irr, imr, icw, raised>>

SendEOIMaster ==
  /\ Handling("pic1")
  /\ GoTo("iret") /\ EndOfInterrupt(1)
  /\ UNCHANGED <<program, intFlag, eax, wild, base, irr, imr, icw, raised>>

Iret ==
  /\ Handling("iret")
  /\ frames' = SubSeq(frames, 1, Len(frames) - 1) /\ intFlag' = TRUE
  /\ UNCHANGED <<program, eax, wild, pics, raised>>

-----------------------------------------------------------------------------
Program ==
  \/ EnterProtected \/ ToReal \/ RealCall \/ BackToProtected \/ SaveMasks
  \/ RemapCommand \/ Remap \/ MaskAll \/ LoadIDTR \/ AddInts \/ Unmask \/ Sti \/ Compute
Handler == Body \/ SendEOISlave \/ SendEOIMaster \/ Iret
Devices == \E n \in Lines : Raise(n)
Processor == Program \/ BiosService \/ Deliver \/ Handler

\* Nothing is known of what runs from there on.
Crashed == wild /\ UNCHANGED vars

Next == Processor \/ Devices \/ Crashed

\* The processor goes on; the devices need not.
Spec == Init /\ [][Next]_vars /\ WF_vars(Processor)

-----------------------------------------------------------------------------
TypeOK ==
  /\ pc \in {"stage2", "kernel", "toReal", "called", "cli", "remap", "maskAll", "lidt",
             "addInt", "unmask", "sti", "run"}
  /\ step \in 0 .. 15 /\ mode \in {"real", "protected"} /\ idtr \in {"ivt", "idt"}
  /\ gates \subseteq 0 .. 255 /\ intFlag \in BOOLEAN /\ eax \in {"live", "eoi"} /\ wild \in BOOLEAN
  /\ frames \in Seq([irq : (-Offset1) .. 15, at : {"body", "sendeoi", "pic1", "iret"},
                     eax : {"live", "eoi"}])
  /\ base \in [Pic -> 0 .. 255] /\ icw \in [Pic -> 1 .. 4]
  /\ {irr, isr, imr, a} \subseteq [Pic -> SUBSET AllLines]
  /\ raised \in [Lines -> 0 .. MaxRaises]

\* Once the kernel's table is loaded every interrupt finds the handler of its own
\* line: the vectors, the gates and the masks are ready before IF is set again
\* (int.cpp:131-175).
HandlerOfItsLine ==
  idtr = "idt" =>
    /\ ~wild
    /\ \A i \in DOMAIN frames :
         frames[i].at \in {"body", "sendeoi"} =>
           /\ frames[i].irq \in Lines
           /\ BitOf(frames[i].irq) \in isr[PicOf(frames[i].irq)]

\* A handler runs from its gate to its iret alone (ints.asm, INT0 of int.h).
NoNesting == Len(frames) <= 1

\* The code between two interrupts is never left with a service unended, which
\* would hold back every request of the same or a lower priority.
ServiceEnded == pc = "run" /\ frames = <<>> => isr = <<{}, {}>>

\* Between two instructions of the running kernel no request is held back: the
\* loop of int.cpp:171-173 took the mask off every line and off the cascade, IF is set
\* again after each handler, and no service that is over bars the way.
NeverHeldBack ==
  pc = "run" /\ frames = <<>> /\ (\E n \in Lines : BitOf(n) \in irr[PicOf(n)]) => Interrupting

\* A request made of the running kernel gets to its handler.
EveryRequestServed ==
  \A n \in Lines : (pc = "run" /\ BitOf(n) \in irr[PicOf(n)]) ~> (BitOf(n) \notin irr[PicOf(n)])

\* The switch to protected mode is made with interrupts disabled, as pmode.inc:3
\* has it: no interrupt goes through the real mode vectors as if they were gates.
NeverWild == ~wild

\* A handler gives back the registers it saved (ints.asm:15-29).
EaxKept == [][Len(frames') < Len(frames) => eax' = Top.eax]_vars
=============================================================================
