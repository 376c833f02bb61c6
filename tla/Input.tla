------------------------------- MODULE Input -------------------------------
(***************************************************************************)
(* The mouse and the keyboard behind one output buffer: the 8042 and both  *)
(* devices (external), mouse_install of src/ps2mouse.cpp, irq12 of         *)
(* src/ints.cpp, getkey of src/ps2keyboard.cpp, and k_main of              *)
(* src/kernel.cpp from mouse_install on.                                   *)
(*                                                                         *)
(* The program is interrupted between any two steps.  A step is one access *)
(* to the 8042, one load of al for it, or one load or store of what is     *)
(* shared with irq12.  A handler leaves 0x20 in al (ints.asm:37), so that  *)
(* a value is lost that the program has there: a status that is lost reads *)
(* "empty", a byte that was to be sent goes out as 0x20.                   *)
(***************************************************************************)
EXTENDS Integers, Sequences

CONSTANTS
  RingSize,  \* the length of bytes, 128 in the code
  Keys,      \* the bytes that the keyboard sends unasked
  Moves,     \* the bytes that tell of a movement
  MaxLost,   \* bound on the bytes that go out as 0x20
  MaxEarly   \* bound on what the devices send unasked before the main loop

Byte == 0 .. 255

ASSUME InputAssumption ==
  /\ RingSize \in Nat /\ RingSize >= 3
  /\ Keys \subseteq Byte /\ Moves \subseteq Byte
  /\ MaxLost \in Nat /\ MaxEarly \in Nat

VARIABLES
  pc,         \* where the program is
  al,         \* the byte read and not stored, or loaded and not sent; 0x20 when there is none
  loaded,     \* al was loaded with the byte that is sent at pc
  status,     \* _status of mouse_install
  obf, port,  \* whether the output buffer holds a byte, and which it held last
  asserted,   \* IRQ 12
  command,    \* the command byte of the 8042
  expects,    \* where it sends the next byte for port 0x60
  streaming,  \* the mouse sends packets
  mouseOwes, kbdOwes,  \* the answers that the devices still have to give
  mousePos,   \* which byte of its packet the mouse sends next
  early,      \* how many bytes came unasked before the main loop
  bytes, bytes_count, i, mouse_dx, mouse_dy,  \* of irq12
  recent,     \* history: the last three bytes that irq12 read
  whole,      \* history: whether the bytes that irq12 counted are those of one packet
  cleared,    \* history: how often irq12 found bit 3 clear since it last lost step
  fresh,      \* history: which of dx and dy were written since they were loaded
  lost,       \* how many bytes went out as 0x20 before the main loop
  spoiled     \* history: an interrupt overwrote in al what the wait of k_main depends on

program == <<pc, loaded, status>>
controller == <<obf, port, asserted, command, expects>>
devices == <<streaming, mouseOwes, kbdOwes, mousePos, early>>
decoder == <<bytes, bytes_count, i, recent, whole>>
movement == <<mouse_dx, mouse_dy, fresh>>
vars == <<program, al, controller, devices, decoder, movement, cleared, lost, spoiled>>

\* What a device answers to a byte that it knows, and to any other.
ACK == 250
RESEND == 254
EOI == 32
\* The command byte as the BIOS leaves it.
CommandByte == 69

Bit(n, b) == (b \div 2^n) % 2 = 1
With(n, b) == IF Bit(n, b) THEN b ELSE b + 2^n
Without(n, b) == IF Bit(n, b) THEN b - 2^n ELSE b

\* Bits 4 and 5 disable the keyboard and the mouse, bit 1 enables IRQ 12.
kbdOn == ~Bit(4, command)
auxOn == ~Bit(5, command)
Irq12On == Bit(1, command)

\* A char, as an int.
Char(b) == IF b < 128 THEN b ELSE b - 256

\* Where a byte of the mouse stands: 0 .. 2 in a packet, or an answer.
OfPacket == 0 .. 2
OfAnswer == 3
NotMouse == 4

Init ==
  /\ pc = "enableAux" /\ al = EOI /\ loaded = FALSE /\ status = 0
  /\ obf = FALSE /\ port = [v |-> 0, pos |-> NotMouse] /\ asserted = FALSE
  /\ command = CommandByte /\ expects = "keyboard"
  /\ streaming = FALSE /\ mouseOwes = <<>> /\ kbdOwes = <<>> /\ mousePos = 0 /\ early = 0
  /\ bytes = [n \in 0 .. RingSize - 1 |-> 0] /\ bytes_count = 0 /\ i = 0
  /\ mouse_dx = 0 /\ mouse_dy = 0
  /\ recent = <<0, 0, 0>> /\ whole = TRUE /\ cleared = 0 /\ fresh = {} /\ lost = 0 /\ spoiled = FALSE

-----------------------------------------------------------------------------
\* The devices, and the interrupts that they make.

\* The byte goes to the buffer when that is empty; IRQ 12 comes later.
Arrive(b, p) ==
  /\ ~obf /\ obf' = TRUE /\ port' = [v |-> b, pos |-> p]
  /\ UNCHANGED <<program, al, asserted, command, expects, decoder, movement, cleared, lost, spoiled>>

Loop == {"poll", "read", "loadDy", "loadDx", "zeroDx", "zeroDy"}
InLoop == pc \in Loop

Unasked ==
  IF InLoop THEN early' = 0 ELSE early < MaxEarly /\ early' = early + 1

KeyByte ==
  /\ kbdOn /\ Unasked
  /\ \E k \in Keys : Arrive(k, NotMouse)
  /\ UNCHANGED <<streaming, mouseOwes, kbdOwes, mousePos>>

KeyboardAnswer ==
  /\ kbdOn /\ kbdOwes # <<>> /\ kbdOwes' = Tail(kbdOwes)
  /\ Arrive(Head(kbdOwes), NotMouse)
  /\ UNCHANGED <<streaming, mouseOwes, mousePos, early>>

\* Bit 3 of the first byte of a packet is always set.
PacketByte ==
  /\ auxOn /\ streaming /\ mouseOwes = <<>> /\ Unasked
  /\ \E b \in (IF mousePos = 0 THEN {8} ELSE Moves) : Arrive(b, mousePos)
  /\ mousePos' = (mousePos + 1) % 3
  /\ UNCHANGED <<streaming, mouseOwes, kbdOwes>>

MouseAnswer ==
  /\ auxOn /\ mouseOwes # <<>> /\ mouseOwes' = Tail(mouseOwes)
  /\ Arrive(Head(mouseOwes), OfAnswer)
  /\ UNCHANGED <<streaming, kbdOwes, mousePos, early>>

\* al holds a byte that is to be sent.
Loses == loaded /\ al # EOI
MayInterrupt == ~asserted /\ (Loses => lost < MaxLost)

Assert ==
  /\ obf /\ port.pos # NotMouse /\ Irq12On /\ MayInterrupt /\ asserted' = TRUE
  /\ UNCHANGED <<program, al, obf, port, command, expects, devices, decoder, movement, cleared, lost, spoiled>>

\* What is in al is the acknowledgement that k_main waits for, its command to the
\* keyboard, or the one that lets the keyboard send.
WaitDependsOnAl ==
  \/ pc = "ackStore" /\ al = ACK
  \/ loaded /\ pc \in {"enableKbd", "scanSet"}

\* A handler's end of interrupt takes the place of what is in al.
Overwrite ==
  /\ al' = EOI /\ spoiled' = (spoiled \/ WaitDependsOnAl)
  /\ lost' = IF Loses THEN lost + 1 ELSE lost

\* Any other interrupt.
Tick ==
  /\ MayInterrupt /\ al # EOI /\ Overwrite
  /\ UNCHANGED <<program, controller, devices, decoder, movement, cleared>>

-----------------------------------------------------------------------------
\* irq12.

\* bytes_count - k, or that plus 128 when it is negative.  Mutant: one too far back.
BackOneMore(count, k) == (count - k - 1) % RingSize
Back(count, k) == IF count - k < 0 THEN count - k + RingSize ELSE count - k

\* Mutant: the count never wraps.
NextCountUnwrapped(n) == n + 1
NextCount(n) == (n + 1) % RingSize

\* What i becomes when bit 3 of c1 is clear, and how that is told.  Mutants: no byte
\* is skipped; the wrong bit.
SkipNone == 0
Skip == -1
AlignedByBit0(c1) == Bit(0, c1)
Aligned(c1) == Bit(3, c1)

Irq12 ==
  /\ asserted
  /\ LET ring == [bytes EXCEPT ![bytes_count] = port.v]
         count == NextCount(bytes_count)
         c1 == ring[Back(count, 3)]
         c2 == ring[Back(count, 2)]
         c3 == ring[Back(count, 1)]
     IN  /\ bytes' = ring /\ bytes_count' = count
         /\ IF i + 1 = 3
            THEN /\ i' = IF Aligned(c1) THEN 0 ELSE Skip
                 /\ mouse_dy' = Char(c2) /\ mouse_dx' = -Char(c3) /\ fresh' = {"dx", "dy"}
            ELSE i' = i + 1 /\ UNCHANGED movement
         /\ cleared' = CASE port.pos = OfAnswer -> 0
                         [] port.pos # OfAnswer /\ i + 1 = 3 /\ ~Bit(3, c1) -> cleared + 1
                         [] OTHER -> cleared
  /\ recent' = <<recent[2], recent[3], port.v>>
  /\ whole' = (i \notin 0 .. 1 \/ (whole /\ port.pos = i))
  /\ obf' = FALSE /\ asserted' = FALSE /\ Overwrite
  /\ UNCHANGED <<program, port, command, expects, devices>>

-----------------------------------------------------------------------------
\* The program.

At(label) == ~asserted /\ pc = label
Goto(label, next) == At(label) /\ pc' = next /\ UNCHANGED <<loaded, status>>

\* 0xae re-enables the keyboard.  Mutant: it is disabled once more.
DisableIt == 173
EnableIt == 174

\* The bytes that the program sends: where it does, the port, the byte and where it
\* goes on.  Every write to 0x64 ends what the one before said of the next byte.
Outs == [
  enableAux  |-> [to |-> 100, b |-> 168, next |-> "askStatus"],
  askStatus  |-> [to |-> 100, b |-> 32, next |-> "readStatus"],
  setStatus  |-> [to |-> 100, b |-> 96, next |-> "sendStatus"],
  sendStatus |-> [to |-> 96, b |-> status, next |-> "toMouse"],
  toMouse    |-> [to |-> 100, b |-> 212, next |-> "defaults"],
  defaults   |-> [to |-> 96, b |-> 246, next |-> "defaultsAck"],
  toMouse2   |-> [to |-> 100, b |-> 212, next |-> "enable"],
  enable     |-> [to |-> 96, b |-> 244, next |-> "enableAck"],
  disableKbd |-> [to |-> 100, b |-> DisableIt, next |-> "drain"],
  enableKbd  |-> [to |-> 100, b |-> EnableIt, next |-> "scanSet"],
  scanSet    |-> [to |-> 96, b |-> 240, next |-> "ackPoll"],
  scanSet2   |-> [to |-> 96, b |-> 2, next |-> "poll"]]

\* out_byte: the load of al, and the out.
Load ==
  /\ ~asserted /\ pc \in DOMAIN Outs /\ ~loaded /\ loaded' = TRUE /\ al' = Outs[pc].b
  /\ UNCHANGED <<pc, status, controller, devices, decoder, movement, cleared, lost, spoiled>>

Out(to) ==
  /\ ~asserted /\ pc \in DOMAIN Outs /\ loaded /\ Outs[pc].to = to
  /\ pc' = Outs[pc].next /\ loaded' = FALSE /\ al' = EOI
  /\ UNCHANGED <<asserted, mousePos, early, decoder, movement, cleared>>

\* Port 0x64.  The answer to 0x20 needs an empty buffer.
Command ==
  /\ Out(100)
  /\ IF al = 32 /\ ~obf THEN obf' = TRUE /\ port' = [v |-> command, pos |-> NotMouse]
                        ELSE UNCHANGED <<obf, port>>
  /\ command' = CASE al = 168 -> Without(5, command)
                  [] al = 173 -> With(4, command)
                  [] al = 174 -> Without(4, command)
                  [] OTHER -> command
  /\ expects' = CASE al = 96 -> "command" [] al = 212 -> "mouse" [] OTHER -> "keyboard"
  /\ UNCHANGED <<status, streaming, mouseOwes, kbdOwes, lost, spoiled>>

\* Port 0x60.  The devices know their commands and the argument of 0xf0.  _status is
\* not used again; lost and spoiled are of what comes before the main loop.
Answer(b) == IF b >= 237 \/ b = 2 THEN ACK ELSE RESEND
Data ==
  /\ Out(96) /\ expects' = "keyboard"
  /\ command' = IF expects = "command" THEN al ELSE command
  /\ IF expects = "mouse"
     THEN /\ mouseOwes' = Append(mouseOwes, Answer(al))
          /\ streaming' = (al = 244 \/ (streaming /\ al # 246))
     ELSE UNCHANGED <<mouseOwes, streaming>>
  /\ kbdOwes' = IF expects = "keyboard" THEN Append(kbdOwes, Answer(al)) ELSE kbdOwes
  /\ status' = IF pc = "sendStatus" THEN 0 ELSE status
  /\ IF pc = "scanSet2" THEN lost' = 0 /\ spoiled' = FALSE ELSE UNCHANGED <<lost, spoiled>>
  /\ UNCHANGED <<obf, port>>

\* inb(0x60): an empty buffer gives what it held last.
ReadPort ==
  /\ obf' = FALSE
  /\ cleared' = IF obf /\ port.pos \in OfPacket THEN 0 ELSE cleared
  /\ UNCHANGED <<port, asserted, command, expects>>

\* mouse_wait(0) gives up in the end, so the read comes at any time.
ReadStatus ==
  /\ Goto("readStatus", "keepStatus") /\ ReadPort /\ al' = port.v
  /\ UNCHANGED <<devices, decoder, movement, lost, spoiled>>
\* _status = al | 2
KeepStatus ==
  /\ At("keepStatus") /\ pc' = "setStatus" /\ status' = With(1, al) /\ al' = EOI
  /\ UNCHANGED <<loaded, controller, devices, decoder, movement, cleared, lost, spoiled>>

\* mouse_read, which gives up like the other; its value goes nowhere.
MouseRead ==
  /\ (Goto("defaultsAck", "toMouse2") \/ Goto("enableAck", "disableKbd"))
  /\ ReadPort
  /\ UNCHANGED <<al, devices, decoder, movement, lost, spoiled>>

\* inb(0x64) & 1: seen only when there is a byte.
Sees == obf
Goes(label, next) ==
  /\ Goto(label, next)
  /\ UNCHANGED <<al, controller, devices, decoder, movement, cleared, lost, spoiled>>
Takes(label, next) ==
  /\ Goto(label, next) /\ ReadPort
  /\ UNCHANGED <<al, devices, decoder, movement, lost, spoiled>>

\* while (inb(0x64) & 1) inb(0x60)
Drain == \/ Sees /\ Goes("drain", "drainRead")
         \/ Takes("drainRead", "drain")
         \/ Goes("drain", "enableKbd")

\* while (c != 0xfa) with getkey: the poll, the read, the store to c.  c is 0xfa from
\* this loop on, so that the second one never waits.
AckPoll == \/ Sees /\ Goes("ackPoll", "ackRead")
           \/ Goes("ackPoll", "ackPoll")
AckRead ==
  /\ Goto("ackRead", "ackStore") /\ ReadPort /\ al' = port.v
  /\ UNCHANGED <<devices, decoder, movement, lost, spoiled>>
AckStore ==
  /\ Goto("ackStore", IF al = ACK THEN "scanSet2" ELSE "ackPoll") /\ al' = EOI
  /\ UNCHANGED <<controller, devices, decoder, movement, cleared, lost, spoiled>>

\* The main loop; what it reads as a key is only drawn.
GetKey == \/ Sees /\ Goes("poll", "read")
          \/ Takes("read", "loadDy")
          \/ Goes("poll", "loadDy")

Touch(label, next) ==
  /\ Goto(label, next)
  /\ UNCHANGED <<al, controller, devices, decoder, cleared, lost, spoiled>>
LoadDy == Touch("loadDy", "loadDx") /\ fresh' = fresh \ {"dy"} /\ UNCHANGED <<mouse_dx, mouse_dy>>
LoadDx == Touch("loadDx", "zeroDx") /\ fresh' = fresh \ {"dx"} /\ UNCHANGED <<mouse_dx, mouse_dy>>
ZeroDx == Touch("zeroDx", "zeroDy") /\ mouse_dx' = 0 /\ UNCHANGED <<mouse_dy, fresh>>
\* Mutant: mouse_dy is not zeroed.
NotZeroed == mouse_dy
Zeroed == 0
ZeroDy == Touch("zeroDy", "poll") /\ mouse_dy' = Zeroed /\ UNCHANGED <<mouse_dx, fresh>>

-----------------------------------------------------------------------------
Program ==
  \/ Load \/ Command \/ Data
  \/ ReadStatus \/ KeepStatus \/ MouseRead \/ Drain
  \/ AckPoll \/ AckRead \/ AckStore
  \/ GetKey \/ LoadDy \/ LoadDx \/ ZeroDx \/ ZeroDy

Next == Program \/ Irq12 \/ Tick \/ Assert \/ KeyByte \/ KeyboardAnswer \/ PacketByte \/ MouseAnswer

\* The processor goes on, and takes the interrupts; the controller and the devices
\* do what they were told to.  Nobody need press a key or move the mouse.
Spec ==
  /\ Init /\ [][Next]_vars
  /\ WF_vars(Program) /\ WF_vars(Irq12) /\ WF_vars(Assert) /\ WF_vars(KeyboardAnswer)

-----------------------------------------------------------------------------
TypeOK ==
  /\ pc \in DOMAIN Outs \cup {"readStatus", "keepStatus", "defaultsAck", "enableAck", "drain", "drainRead",
                             "ackPoll", "ackRead", "ackStore"} \cup Loop
  /\ al \in Byte /\ status \in Byte /\ command \in Byte
  /\ expects \in {"keyboard", "command", "mouse"} /\ port \in [v : Byte, pos : 0 .. NotMouse]
  /\ {obf, asserted, loaded, streaming, whole, spoiled} \subseteq BOOLEAN
  /\ mouseOwes \in Seq({ACK, RESEND}) /\ kbdOwes \in Seq({ACK, RESEND})
  /\ mousePos \in OfPacket /\ early \in 0 .. MaxEarly /\ lost \in 0 .. MaxLost
  /\ bytes \in [0 .. RingSize - 1 -> Byte] /\ bytes_count \in 0 .. RingSize - 1
  /\ i \in -1 .. 2 /\ mouse_dx \in -127 .. 128 /\ mouse_dy \in -128 .. 127
  /\ recent \in Byte \X Byte \X Byte /\ cleared \in Nat /\ fresh \subseteq {"dx", "dy"}

\* The byte of a packet that irq12 reads next, unless an answer comes first;
\* the decoder is in step when it expects that one and has counted those before it.
NextPos == IF obf /\ port.pos \in OfPacket THEN port.pos ELSE mousePos
InStep == NextPos = i % 3 /\ whole

\* irq12 loses step with the packets only by an answer to a command that it counts or
\* a byte that getkey, mouse_read or the drain takes, never by a packet alone:
\* no movement makes it skip a byte that it should not (ints.cpp:140-173).
LosesStep ==
  obf /\ ~obf' /\ (port.pos = OfAnswer \/ ~asserted)
InStepKept == [][InStep /\ ~InStep' => LosesStep]_vars

\* However step was lost, three packets whose checked byte has bit 3 clear bring it
\* back: the first may be made up of two, the others skip a byte each
\* (ints.cpp:168-170).
Recovered == cleared <= 3 /\ (cleared = 3 => InStep)

\* The three bytes of a packet are the last three read, also where bytes wraps
\* around (ints.cpp:138-158).
DecodesRecent ==
  [][fresh' = {"dx", "dy"} /\ asserted /\ i = 2 =>
       /\ mouse_dy' = Char(recent'[2]) /\ mouse_dx' = -Char(recent'[3])
       /\ (i' = -1) <=> ~Bit(3, recent'[1])]_vars

\* A movement is not added to the position a second time, wherever irq12 falls
\* between the loads and the stores of the loop (kernel.cpp:91-96).
AppliedOnce ==
  /\ pc = "loadDy" => mouse_dy = 0 \/ "dy" \in fresh
  /\ pc = "loadDx" => mouse_dx = 0 \/ "dx" \in fresh

\* k_main gets past its wait for the keyboard's acknowledgement, whatever the drain,
\* mouse_install and irq12 took and whichever of the bytes sent before went out as
\* 0x20, unless an interrupt overwrote in al one of the three that the wait depends
\* on: 0xae, 0xf0 or the acknowledgement itself (kernel.cpp:49-64, port.cpp:19-21).
AcksPassed == <>(InLoop \/ spoiled)
=============================================================================
