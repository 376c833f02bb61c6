---------------------------- MODULE InputProofs ----------------------------
(***************************************************************************)
(* The theorems about the mouse's decoder and the loop of k_main: what     *)
(* holds for every length of the ring, whatever keys are pressed, however  *)
(* the mouse moves and however many of the bytes sent go out as 0x20.      *)
(***************************************************************************)
EXTENDS Input, TLAPS

-----------------------------------------------------------------------------
(* The ring *)

LEMMA Wraps ==
  ASSUME NEW n \in 0 .. RingSize - 1
  PROVE  NextCount(n) = IF n + 1 = RingSize THEN 0 ELSE n + 1
<1>1. RingSize \in Nat /\ RingSize >= 3
  BY InputAssumption
<1>2. CASE n + 1 = RingSize
  BY <1>1, <1>2 DEF NextCount
<1>3. CASE n + 1 # RingSize
  BY <1>1, <1>3 DEF NextCount
<1> QED BY <1>2, <1>3

-----------------------------------------------------------------------------
(* The invariant *)

\* IRQ 12 stands for a byte of the mouse in the buffer, and that one is before the
\* next byte of its packet.
Pending ==
  /\ asserted => obf /\ port.pos # NotMouse
  /\ obf /\ port.pos \in OfPacket =>
       mousePos = (port.pos + 1) % 3 /\ (port.pos = 0 => port.v = 8)

\* IRQ 12 waits where one more byte may be lost.
Room == asserted /\ Loses => lost < MaxLost

\* The ring holds the bytes read last, behind bytes_count.
Ring == \A k \in 1 .. 3 : bytes[Back(bytes_count, k)] = recent[4 - k]

\* Of a packet that is being counted the first byte has bit 3 set.
Checked == whole /\ i \in {1, 2} => Bit(3, recent[4 - i])

\* The distance of the packets from the decoder.
Offset == (NextPos + 3 - i) % 3

\* Each decoding that finds bit 3 clear moves the decoder on by a byte; with bytes
\* of two packets only the first can be.
Recovering ==
  /\ cleared <= 3
  /\ cleared > 0 /\ Offset = 0 => whole
  /\ cleared = 2 => Offset \in {0, 2}
  /\ cleared = 3 => Offset = 0

\* A movement that the loop has read is not there any more when it comes back.
Applied ==
  /\ pc # "zeroDx" => mouse_dx = 0 \/ "dx" \in fresh
  /\ pc \notin {"loadDx", "zeroDx", "zeroDy"} => mouse_dy = 0 \/ "dy" \in fresh

IInv == TypeOK /\ Pending /\ Room /\ Ring /\ Checked /\ Recovering /\ Applied

-----------------------------------------------------------------------------
(* Types *)

\* The interrupt handler by its parts.
LEMMA Irq12Parts ==
  ASSUME TypeOK, Pending, Ring, Irq12
  PROVE  /\ asserted /\ obf /\ port.pos \in 0 .. 3
         /\ bytes' = [bytes EXCEPT ![bytes_count] = port.v] /\ bytes_count' = NextCount(bytes_count)
         /\ recent' = <<recent[2], recent[3], port.v>>
         /\ (IF i = 2 THEN /\ i' = (IF Bit(3, recent'[1]) THEN 0 ELSE -1)
                          /\ mouse_dy' = Char(recent'[2]) /\ mouse_dx' = -Char(recent'[3])
                          /\ fresh' = {"dx", "dy"}
                      ELSE i' = i + 1 /\ UNCHANGED movement)
         /\ port.pos = OfAnswer => cleared' = 0
         /\ port.pos # OfAnswer => cleared' = IF i = 2 /\ ~Bit(3, recent'[1]) THEN cleared + 1 ELSE cleared
         /\ i \notin 0 .. 1 => whole'
         /\ i \in 0 .. 1 => (whole' <=> whole /\ port.pos = i)
         /\ ~obf' /\ ~asserted' /\ Overwrite
         /\ UNCHANGED <<program, port, command, expects, devices>>
<1> DEFINE ring == [bytes EXCEPT ![bytes_count] = port.v]
           count == NextCount(bytes_count)
           c1 == ring[Back(count, 3)]
           c2 == ring[Back(count, 2)]
           c3 == ring[Back(count, 1)]
<1>1. /\ bytes \in [0 .. RingSize - 1 -> Byte] /\ bytes_count \in 0 .. RingSize - 1
      /\ port \in [v : Byte, pos : 0 .. NotMouse] /\ recent \in Byte \X Byte \X Byte /\ i \in -1 .. 2
  BY DEF TypeOK
<1>2. ring \in [0 .. RingSize - 1 -> Byte]
  BY <1>1
<1>3. c3 = port.v /\ c2 = bytes[Back(bytes_count, 1)] /\ c1 = bytes[Back(bytes_count, 2)]
  <2>1. ring[bytes_count] = port.v /\ \A m \in 0 .. RingSize - 1 : m # bytes_count => ring[m] = bytes[m]
    BY <1>1
  <2> HIDE DEF ring
  <2>2. /\ ring[Back(NextCount(bytes_count), 1)] = ring[bytes_count]
        /\ ring[Back(NextCount(bytes_count), 2)] = bytes[Back(bytes_count, 1)]
        /\ ring[Back(NextCount(bytes_count), 3)] = bytes[Back(bytes_count, 2)]
    <3>1. RingSize \in Nat /\ RingSize >= 3
      BY InputAssumption
    <3>2. CASE bytes_count + 1 = RingSize
      BY <1>1, <2>1, <3>1, <3>2, Wraps DEF Back
    <3>3. CASE bytes_count + 1 # RingSize
      BY <1>1, <2>1, <3>1, <3>3, Wraps DEF Back
    <3> QED BY <3>2, <3>3
  <2> QED BY <2>1, <2>2
<1>4. c1 = recent[2] /\ c2 = recent[3]
  BY <1>3 DEF Ring
<1>5. recent' = <<recent[2], recent[3], port.v>>
  BY DEF Irq12
<1>6. recent'[1] = c1 /\ recent'[2] = c2 /\ recent'[3] = c3
  BY <1>3, <1>4, <1>5
<1>7. (i + 1 = 3) <=> i = 2
  BY <1>1
<1> HIDE DEF ring, count, c1, c2, c3
<1>8. /\ bytes' = ring /\ bytes_count' = count
      /\ (IF i + 1 = 3 THEN /\ i' = (IF Bit(3, c1) THEN 0 ELSE -1)
                           /\ mouse_dy' = Char(c2) /\ mouse_dx' = -Char(c3)
                           /\ fresh' = {"dx", "dy"}
                       ELSE i' = i + 1 /\ UNCHANGED movement)
  BY DEF Irq12, Aligned, Skip, ring, count, c1, c2, c3
<1>9. cleared' = CASE port.pos = OfAnswer -> 0
                    [] port.pos # OfAnswer /\ i + 1 = 3 /\ ~Bit(3, c1) -> cleared + 1
                    [] OTHER -> cleared
  BY Zenon DEF Irq12, ring, count, c1
<1>10. /\ port.pos = OfAnswer => cleared' = 0
       /\ port.pos # OfAnswer /\ (i + 1 = 3 /\ ~Bit(3, c1)) => cleared' = cleared + 1
       /\ port.pos # OfAnswer /\ ~ (i + 1 = 3 /\ ~Bit(3, c1)) => cleared' = cleared
  BY <1>9, Zenon
<1>11. port.pos \in 0 .. 3 /\ asserted /\ obf
  BY <1>1 DEF Irq12, Pending, NotMouse
<1>12. /\ i \notin 0 .. 1 => whole'
       /\ i \in 0 .. 1 => (whole' <=> whole /\ port.pos = i)
       /\ ~obf' /\ ~asserted' /\ Overwrite
       /\ UNCHANGED <<program, port, command, expects, devices>>
  BY Zenon DEF Irq12
<1> QED BY <1>5, <1>6, <1>7, <1>8, <1>10, <1>11, <1>12 DEF ring, count

LEMMA ReadPortTypes ==
  ASSUME TypeOK, ReadPort
  PROVE  obf' \in BOOLEAN /\ cleared' \in Nat /\ UNCHANGED <<port, asserted, command, expects>>
<1>1. obf' \in BOOLEAN
  BY Zenon DEF ReadPort
<1>2. cleared' \in Nat
  BY DEF ReadPort, TypeOK
<1> QED BY <1>1, <1>2 DEF ReadPort

LEMMA EoiByte == EOI \in Byte
BY DEF EOI, Byte

LEMMA BitsByte ==
  \A b \in Byte : With(1, b) \in Byte /\ With(4, b) \in Byte /\ Without(4, b) \in Byte /\ Without(5, b) \in Byte
BY DEF With, Without, Bit, Byte

\* What the program sends are bytes, and from there it goes on to a read, another
\* byte or the poll of the main loop.
LEMMA OutsTypes ==
  ASSUME status \in Byte, NEW p \in DOMAIN Outs
  PROVE  /\ Outs[p].b \in Byte /\ p \notin Loop
         /\ Outs[p].next \in DOMAIN Outs \cup {"readStatus", "defaultsAck", "enableAck", "drain", "ackPoll", "poll"}
BY DEF Outs, Byte, Loop, DisableIt, EnableIt

LEMMA AnswerTypes == \A b : Answer(b) \in {ACK, RESEND}
BY DEF Answer

LEMMA OwedTypes ==
  ASSUME NEW q \in Seq({ACK, RESEND})
  PROVE  /\ \A b : Append(q, Answer(b)) \in Seq({ACK, RESEND})
         /\ q # <<>> => Head(q) \in Byte /\ Tail(q) \in Seq({ACK, RESEND})
<1>1. \A b : Append(q, Answer(b)) \in Seq({ACK, RESEND})
  BY AnswerTypes
<1>2. q # <<>> => Head(q) \in {ACK, RESEND} /\ Tail(q) \in Seq({ACK, RESEND})
  OBVIOUS
<1>3. {ACK, RESEND} \subseteq Byte
  BY DEF ACK, RESEND, Byte
<1> QED BY <1>1, <1>2, <1>3

LEMMA OverwriteTypes ==
  ASSUME TypeOK, Overwrite, Loses => lost < MaxLost
  PROVE  al' \in Byte /\ spoiled' \in BOOLEAN /\ lost' \in 0 .. MaxLost
<1>1. spoiled' \in BOOLEAN
  BY Zenon DEF Overwrite
<1>2. al' \in Byte
  BY EoiByte DEF Overwrite
<1>3. lost' \in 0 .. MaxLost
  <2>1. lost \in 0 .. MaxLost /\ MaxLost \in Nat
    BY InputAssumption DEF TypeOK
  <2>2. lost' = (IF Loses THEN lost + 1 ELSE lost)
    BY DEF Overwrite
  <2> HIDE DEF Loses
  <2> QED BY <2>1, <2>2
<1> QED BY <1>1, <1>2, <1>3

LEMMA TypesKept ==
  ASSUME TypeOK, Pending, Room, Ring, Recovering, Next
  PROVE  TypeOK'
<1> USE InputAssumption DEF At, Goto, controller, devices, decoder, movement, program
<1>0. (DOMAIN Outs)' = DOMAIN Outs
  BY DEF Outs
<1> USE <1>0
<1>1. CASE Load
  <2>1. loaded' \in BOOLEAN
    BY <1>1, Zenon DEF Load
  <2>2. al' \in Byte
    BY <1>1, OutsTypes DEF Load, TypeOK
  <2> QED BY <1>1, <2>1, <2>2 DEF Load, TypeOK
<1>2. CASE Command
  <2>1. obf' \in BOOLEAN /\ loaded' \in BOOLEAN
    BY <1>2, Zenon DEF Command, Out, TypeOK
  <2>2. port' \in [v : Byte, pos : 0 .. NotMouse]
    BY <1>2 DEF Command, TypeOK, NotMouse
  <2>3. command' \in Byte
    <3>1. command' \in {Without(5, command), With(4, command), Without(4, command), command}
      BY <1>2, Zenon DEF Command
    <3> QED BY <3>1, BitsByte DEF TypeOK
  <2>4. expects' \in {"keyboard", "command", "mouse"}
    BY <1>2, Zenon DEF Command
  <2>5. pc' \in DOMAIN Outs \cup {"readStatus", "defaultsAck", "enableAck", "drain", "ackPoll", "poll"}
        /\ al' \in Byte
    BY <1>2, OutsTypes, EoiByte DEF Command, Out, TypeOK
  <2>6. UNCHANGED <<asserted, mousePos, early, decoder, movement, cleared, status, streaming, mouseOwes,
                    kbdOwes, lost, spoiled>>
    BY <1>2, Zenon DEF Command, Out
  <2> QED BY <2>1, <2>2, <2>3, <2>4, <2>5, <2>6 DEF TypeOK, Loop
<1>3. CASE Data
  <2>1. loaded' \in BOOLEAN /\ streaming' \in BOOLEAN /\ spoiled' \in BOOLEAN
    BY <1>3, Zenon DEF Data, Out, TypeOK
  <2>2. status' \in Byte /\ command' \in Byte /\ expects' = "keyboard" /\ lost' \in 0 .. MaxLost
    BY <1>3 DEF Data, TypeOK, Byte
  <2>3. mouseOwes' \in Seq({ACK, RESEND}) /\ kbdOwes' \in Seq({ACK, RESEND})
    <3>1. mouseOwes' \in {mouseOwes, Append(mouseOwes, Answer(al))}
          /\ kbdOwes' \in {kbdOwes, Append(kbdOwes, Answer(al))}
      BY <1>3, Zenon DEF Data
    <3>2. mouseOwes \in Seq({ACK, RESEND}) /\ kbdOwes \in Seq({ACK, RESEND})
      BY DEF TypeOK
    <3>3. Append(mouseOwes, Answer(al)) \in Seq({ACK, RESEND}) /\ Append(kbdOwes, Answer(al)) \in Seq({ACK, RESEND})
      BY <3>2, OwedTypes
    <3> QED BY <3>1, <3>2, <3>3
  <2>5. pc' \in DOMAIN Outs \cup {"readStatus", "defaultsAck", "enableAck", "drain", "ackPoll", "poll"}
        /\ al' \in Byte
    BY <1>3, OutsTypes, EoiByte DEF Data, Out, TypeOK
  <2>6. UNCHANGED <<obf, port, asserted, mousePos, early, decoder, movement, cleared>>
    BY <1>3, Zenon DEF Data, Out
  <2> QED BY <2>1, <2>2, <2>3, <2>5, <2>6 DEF TypeOK, Loop
<1>4. CASE ReadStatus
  BY <1>4, ReadPortTypes DEF ReadStatus, TypeOK
<1>5. CASE KeepStatus
  <2>1. status' \in Byte /\ al' \in Byte
    BY <1>5, BitsByte, EoiByte DEF KeepStatus, TypeOK
  <2>2. pc' \in DOMAIN Outs
    BY <1>5 DEF KeepStatus, Outs
  <2> QED BY <1>5, <2>1, <2>2 DEF KeepStatus, TypeOK
<1>6. CASE MouseRead
  <2>1. pc' \in DOMAIN Outs
    BY <1>6 DEF MouseRead, Outs
  <2> QED BY <1>6, <2>1, ReadPortTypes DEF MouseRead, TypeOK
<1>8. CASE Drain
  <2>1. pc' \in DOMAIN Outs \cup {"drain", "drainRead"}
    BY <1>8 DEF Drain, Goes, Takes, Outs
  <2>2. UNCHANGED <<al, loaded, status, devices, decoder, movement, lost, spoiled>>
        /\ (UNCHANGED <<controller, cleared>> \/ ReadPort)
    BY <1>8 DEF Drain, Goes, Takes
  <2> QED BY <2>1, <2>2, ReadPortTypes DEF TypeOK
<1>11. CASE AckPoll
  BY <1>11 DEF AckPoll, Goes, TypeOK
<1>12. CASE AckRead
  BY <1>12, ReadPortTypes DEF AckRead, TypeOK
<1>13. CASE AckStore
  <2>1. pc' \in DOMAIN Outs \cup {"ackPoll"}
    BY <1>13 DEF AckStore, Outs
  <2> QED BY <1>13, <2>1, EoiByte DEF AckStore, TypeOK
<1>14. CASE GetKey
  <2>1. pc' \in Loop
    BY <1>14 DEF GetKey, Goes, Takes, Loop
  <2>2. UNCHANGED <<al, loaded, status, devices, decoder, movement, lost, spoiled>>
        /\ (UNCHANGED <<controller, cleared>> \/ ReadPort)
    BY <1>14 DEF GetKey, Goes, Takes
  <2> QED BY <2>1, <2>2, ReadPortTypes DEF TypeOK
<1>15. CASE LoadDy
  BY <1>15 DEF LoadDy, Touch, TypeOK, Loop
<1>16. CASE LoadDx
  BY <1>16 DEF LoadDx, Touch, TypeOK, Loop
<1>17. CASE ZeroDx
  BY <1>17 DEF ZeroDx, Touch, TypeOK, Loop
<1>18. CASE ZeroDy
  BY <1>18 DEF ZeroDy, Touch, Zeroed, TypeOK, Loop
<1>19. CASE Tick
  <2>1. al' \in Byte /\ spoiled' \in BOOLEAN /\ lost' \in 0 .. MaxLost
    BY <1>19, OverwriteTypes DEF Tick, MayInterrupt
  <2> QED BY <1>19, <2>1 DEF Tick, TypeOK
<1>20. CASE Assert
  BY <1>20 DEF Assert, TypeOK
<1>21. CASE KeyByte
  BY <1>21 DEF KeyByte, Arrive, Unasked, NotMouse, TypeOK
<1>22. CASE KeyboardAnswer
  <2>1. obf' \in BOOLEAN /\ port' \in [v : Byte, pos : 0 .. NotMouse]
    BY <1>22, OwedTypes DEF KeyboardAnswer, Arrive, NotMouse, TypeOK
  <2>2. kbdOwes' \in Seq({ACK, RESEND})
    BY <1>22, OwedTypes DEF KeyboardAnswer, TypeOK
  <2> QED BY <1>22, <2>1, <2>2 DEF KeyboardAnswer, Arrive, TypeOK
<1>23. CASE PacketByte
  <2>1. obf' \in BOOLEAN /\ port' \in [v : Byte, pos : 0 .. NotMouse]
    <3>1. PICK b \in (IF mousePos = 0 THEN {8} ELSE Moves) : Arrive(b, mousePos)
      BY <1>23 DEF PacketByte
    <3>2. b \in Byte
      BY InputAssumption DEF Byte
    <3>3. mousePos \in 0 .. NotMouse
      BY DEF TypeOK, OfPacket, NotMouse
    <3> QED BY <3>1, <3>2, <3>3 DEF Arrive
  <2> QED BY <1>23, <2>1 DEF PacketByte, Arrive, TypeOK, OfPacket, Unasked
<1>24. CASE MouseAnswer
  <2>1. obf' \in BOOLEAN /\ port' \in [v : Byte, pos : 0 .. NotMouse]
    BY <1>24, OwedTypes DEF MouseAnswer, Arrive, NotMouse, OfAnswer, TypeOK
  <2>2. mouseOwes' \in Seq({ACK, RESEND})
    BY <1>24, OwedTypes DEF MouseAnswer, TypeOK
  <2> QED BY <1>24, <2>1, <2>2 DEF MouseAnswer, Arrive, TypeOK
<1>25. CASE Irq12
  <2>0. bytes_count' \in 0 .. RingSize - 1
    <3>1. bytes_count' = NextCount(bytes_count)
      BY <1>25, Irq12Parts
    <3>2. bytes_count \in 0 .. RingSize - 1
      BY DEF TypeOK
    <3>3. RingSize \in Nat /\ RingSize >= 3
      BY InputAssumption
    <3>4. NextCount(bytes_count) = IF bytes_count + 1 = RingSize THEN 0 ELSE bytes_count + 1
      BY <3>2, Wraps
    <3> QED BY <3>1, <3>2, <3>3, <3>4
  <2>1. whole' \in BOOLEAN /\ obf' \in BOOLEAN /\ asserted' \in BOOLEAN
    BY <1>25, Zenon DEF Irq12
  <2>9. al' \in Byte /\ spoiled' \in BOOLEAN /\ lost' \in 0 .. MaxLost
    BY <1>25, OverwriteTypes DEF Irq12, Room
  <2>2. recent' \in Byte \X Byte \X Byte /\ bytes' \in [0 .. RingSize - 1 -> Byte]
    <3>1. /\ recent' = <<recent[2], recent[3], port.v>>
          /\ bytes' = [bytes EXCEPT ![bytes_count] = port.v]
      BY <1>25, Irq12Parts
    <3>2. port.v \in Byte
      BY DEF TypeOK
    <3>3. recent \in Byte \X Byte \X Byte
      BY DEF TypeOK
    <3>4. bytes \in [0 .. RingSize - 1 -> Byte]
      BY DEF TypeOK
    <3>5. recent' \in Byte \X Byte \X Byte
      BY <3>1, <3>2, <3>3
    <3> QED BY <3>1, <3>2, <3>4, <3>5
  <2>3. i' \in -1 .. 2 /\ mouse_dx' \in -127 .. 128 /\ mouse_dy' \in -128 .. 127
        /\ fresh' \subseteq {"dx", "dy"}
    <3>1. recent'[2] \in 0 .. 255 /\ recent'[3] \in 0 .. 255
      BY <2>2 DEF Byte
    <3>2. Char(recent'[2]) \in -128 .. 127 /\ -Char(recent'[3]) \in -127 .. 128
      BY <3>1 DEF Char
    <3>3. CASE i = 2
      BY <1>25, <3>2, <3>3, Irq12Parts
    <3>4. CASE i # 2
      <4>1. i' = i + 1 /\ UNCHANGED <<mouse_dx, mouse_dy, fresh>>
        BY <1>25, <3>4, Irq12Parts
      <4> QED BY <3>4, <4>1 DEF TypeOK
    <3> QED BY <3>3, <3>4
  <2>4. cleared' \in Nat
    <3>1. cleared' \in {0, cleared, cleared + 1}
      BY <1>25, Irq12Parts
    <3> QED BY <3>1 DEF TypeOK
  <2>5. UNCHANGED <<program, port, command, expects, streaming, mouseOwes, kbdOwes, mousePos, early>>
    BY <1>25, Irq12Parts
  <2> QED BY <2>0, <2>1, <2>2, <2>3, <2>4, <2>5, <2>9 DEF TypeOK
<1> QED BY <1>1, <1>2, <1>3, <1>4, <1>5, <1>6, <1>8, <1>11, <1>12, <1>13, <1>14, <1>15, <1>16, <1>17, <1>18, <1>19, <1>20, <1>21, <1>22, <1>23, <1>24, <1>25 DEF Next, Program

-----------------------------------------------------------------------------
(* The buffer, the ring and the decoder *)

\* The steps by what they do to the buffer and to what irq12 writes: it alone writes
\* the ring and the count, and nothing else happens while it is asserted.
LEMMA Steps ==
  ASSUME [Next]_vars, TypeOK, Pending
  PROVE  \/ Irq12
         \/ /\ UNCHANGED decoder
            /\ \/ UNCHANGED <<obf, port, mousePos, cleared>> /\ (asserted' => asserted \/ Assert)
               \/ ~asserted /\ ~asserted' /\ ReadPort /\ mousePos' = mousePos
               \/ ~asserted /\ asserted' = asserted /\ ~obf /\ obf' /\ cleared' = cleared
                  /\ \/ port'.pos \in {OfAnswer, NotMouse} /\ mousePos' = mousePos
                     \/ /\ port'.pos = mousePos /\ mousePos' = (mousePos + 1) % 3
                        /\ (mousePos = 0 => port'.v = 8)
<1> USE DEF decoder, controller, devices
<1>1. CASE UNCHANGED vars
  BY <1>1 DEF vars
<1>2. CASE Command
  <2>1. ~asserted /\ asserted' = asserted /\ UNCHANGED <<decoder, mousePos, cleared>>
    BY <1>2 DEF Command, Out
  <2>2. UNCHANGED <<obf, port>> \/ (~obf /\ obf' /\ port' = [v |-> command, pos |-> NotMouse])
    BY <1>2, Zenon DEF Command
  <2> QED BY <2>1, <2>2
<1>3. CASE ReadStatus \/ AckRead \/ MouseRead
  BY <1>3 DEF ReadStatus, AckRead, MouseRead, ReadPort, Goto, At
<1>4. CASE Load \/ Data \/ KeepStatus \/ AckPoll \/ AckStore
  BY <1>4 DEF Load, Data, Out, KeepStatus, AckPoll, AckStore, Goes, Goto, At
<1>5. CASE Drain \/ GetKey
  BY <1>5 DEF Drain, GetKey, Goes, Takes, ReadPort, Goto, At
<1>6. CASE LoadDy \/ LoadDx \/ ZeroDx \/ ZeroDy
  BY <1>6 DEF LoadDy, LoadDx, ZeroDx, ZeroDy, Touch, Goto, At
<1>7. CASE Tick \/ Assert
  BY <1>7 DEF Tick, Assert
<1>8. CASE KeyByte \/ KeyboardAnswer \/ MouseAnswer
  BY <1>8 DEF KeyByte, KeyboardAnswer, MouseAnswer, Arrive, Pending
<1>9. CASE PacketByte
  <2>1. PICK b \in (IF mousePos = 0 THEN {8} ELSE Moves) : Arrive(b, mousePos)
    BY <1>9 DEF PacketByte
  <2>2. port'.v = b /\ port'.pos = mousePos /\ ~obf /\ obf' /\ cleared' = cleared /\ asserted' = asserted
        /\ UNCHANGED decoder
    BY <2>1 DEF Arrive
  <2>3. mousePos' = (mousePos + 1) % 3 /\ ~asserted
    BY <1>9, <2>2 DEF PacketByte, Pending
  <2> QED BY <2>1, <2>2, <2>3
<1> QED BY <1>1, <1>2, <1>3, <1>4, <1>5, <1>6, <1>7, <1>8, <1>9 DEF Next, Program

LEMMA PendingKept ==
  ASSUME TypeOK, Pending, Ring, [Next]_vars
  PROVE  Pending'
<1>1. CASE Irq12
  BY <1>1, Irq12Parts DEF Pending
<1>2. CASE UNCHANGED <<obf, port, mousePos, cleared>> /\ (asserted' => asserted \/ Assert)
  BY <1>2 DEF Pending, Assert
<1>3. CASE ~asserted /\ ~asserted' /\ ReadPort /\ mousePos' = mousePos
  BY <1>3 DEF Pending, ReadPort
<1>4. CASE /\ ~asserted /\ asserted' = asserted /\ ~obf /\ obf'
           /\ \/ port'.pos \in {OfAnswer, NotMouse} /\ mousePos' = mousePos
              \/ /\ port'.pos = mousePos /\ mousePos' = (mousePos + 1) % 3
                 /\ (mousePos = 0 => port'.v = 8)
  BY <1>4 DEF Pending, OfAnswer, NotMouse, OfPacket
<1> QED BY <1>1, <1>2, <1>3, <1>4, Steps

\* Where IRQ 12 is asserted, it has just been or nothing happened.
LEMMA RoomKept ==
  ASSUME Pending, Room, ~Irq12, [Next]_vars
  PROVE  Room'
<1> USE DEF controller
<1>1. asserted' => Assert \/ UNCHANGED vars
  BY DEF Next, Program, Load, Command, Data, Out, ReadStatus, KeepStatus, MouseRead, Drain, AckPoll, AckRead,
         AckStore, GetKey, LoadDy, LoadDx, ZeroDx, ZeroDy, Goes, Takes, Touch, ReadPort, Goto, At, Tick,
         MayInterrupt, KeyByte, KeyboardAnswer, PacketByte, MouseAnswer, Arrive, Pending
<1>2. CASE Assert
  BY <1>2 DEF Assert, MayInterrupt, Room, Loses, program
<1>3. CASE UNCHANGED vars
  BY <1>3 DEF vars, Room, Loses, program
<1> QED BY <1>1, <1>2, <1>3 DEF Room

LEMMA RingKept ==
  ASSUME TypeOK, Pending, Ring, [Next]_vars
  PROVE  Ring'
<1>1. CASE Irq12
  <2>1. bytes_count \in 0 .. RingSize - 1 /\ RingSize \in Nat /\ RingSize >= 3
        /\ bytes \in [0 .. RingSize - 1 -> Byte]
    BY InputAssumption DEF TypeOK
  <2>2. bytes' = [bytes EXCEPT ![bytes_count] = port.v] /\ bytes_count' = NextCount(bytes_count)
        /\ recent' = <<recent[2], recent[3], port.v>>
    BY <1>1, Irq12Parts
  <2>3. bytes'[bytes_count] = port.v
        /\ \A m \in 0 .. RingSize - 1 : m # bytes_count => bytes'[m] = bytes[m]
    BY <2>1, <2>2
  <2>4. recent'[1] = recent[2] /\ recent'[2] = recent[3] /\ recent'[3] = port.v
    BY <2>2
  <2>5. bytes[Back(bytes_count, 1)] = recent[3] /\ bytes[Back(bytes_count, 2)] = recent[2]
    BY DEF Ring
  <2>6. CASE bytes_count + 1 = RingSize
    BY <2>1, <2>2, <2>3, <2>4, <2>5, <2>6, Wraps DEF Ring, Back
  <2>7. CASE bytes_count + 1 # RingSize
    BY <2>1, <2>2, <2>3, <2>4, <2>5, <2>7, Wraps DEF Ring, Back
  <2> QED BY <2>6, <2>7
<1>2. CASE UNCHANGED decoder
  BY <1>2 DEF decoder, Ring
<1> QED BY <1>1, <1>2, Steps

LEMMA BitOfEight == Bit(3, 8)
BY DEF Bit

\* The bytes that are counted as one packet begin with its first.
LEMMA CheckedKept ==
  ASSUME TypeOK, Pending, Ring, Checked, [Next]_vars
  PROVE  Checked'
<1>1. CASE Irq12
  <2>1. i \in -1 .. 2 /\ recent' = <<recent[2], recent[3], port.v>> /\ obf
    BY <1>1, Irq12Parts DEF TypeOK
  <2>2. recent'[2] = recent[3] /\ recent'[3] = port.v
    BY <2>1
  <2>3. CASE i = 2
    <3>1. i' \in {0, -1}
      BY <1>1, <2>3, Irq12Parts
    <3> QED BY <3>1 DEF Checked
  <2>4. CASE i = -1
    <3>1. i' = 0
      BY <1>1, <2>4, Irq12Parts
    <3> QED BY <3>1 DEF Checked
  <2>5. CASE i = 0 /\ whole'
    <3>1. i' = 1 /\ port.pos = 0
      BY <1>1, <2>5, Irq12Parts
    <3>2. port.v = 8
      BY <2>1, <3>1 DEF Pending, OfPacket
    <3> QED BY <2>2, <3>1, <3>2, BitOfEight DEF Checked
  <2>6. CASE i = 1 /\ whole'
    <3>1. i' = 2 /\ whole
      BY <1>1, <2>6, Irq12Parts
    <3>2. Bit(3, recent[3])
      BY <2>6, <3>1 DEF Checked
    <3> QED BY <2>2, <3>1, <3>2 DEF Checked
  <2>7. CASE ~whole'
    BY <2>7 DEF Checked
  <2> QED BY <2>1, <2>3, <2>4, <2>5, <2>6, <2>7
<1>2. CASE UNCHANGED decoder
  BY <1>2 DEF decoder, Checked
<1> QED BY <1>1, <1>2, Steps

LEMMA AppliedKept ==
  ASSUME TypeOK, Pending, Ring, Applied, [Next]_vars
  PROVE  Applied'
<1> USE DEF Applied, At, Goto, program
<1>1. CASE Irq12
  <2>1. pc' = pc /\ (fresh' = {"dx", "dy"} \/ UNCHANGED movement)
    BY <1>1, Irq12Parts DEF TypeOK
  <2> QED BY <2>1 DEF movement
<1>2. CASE UNCHANGED movement /\ pc' = pc
  BY <1>2 DEF movement
<1>3. CASE /\ UNCHANGED movement
           /\ pc # "zeroDx" /\ pc' \notin {"zeroDx", "loadDx"}
           /\ pc \notin {"loadDx", "zeroDx", "zeroDy"}
  BY <1>3 DEF movement
<1>4. CASE LoadDy  BY <1>4 DEF LoadDy, Touch
<1>5. CASE LoadDx  BY <1>5 DEF LoadDx, Touch
<1>6. CASE ZeroDx  BY <1>6 DEF ZeroDx, Touch
<1>7. CASE ZeroDy  BY <1>7 DEF ZeroDy, Touch, Zeroed
<1>8. CASE Command \/ Data
  <2>1. UNCHANGED movement /\ pc \in DOMAIN Outs /\ pc' = Outs[pc].next
    BY <1>8 DEF Command, Data, Out
  <2>2. pc \notin Loop
    BY <2>1, OutsTypes DEF TypeOK
  <2>3. pc' \in DOMAIN Outs \cup {"readStatus", "defaultsAck", "enableAck", "drain", "ackPoll", "poll"}
    BY <2>1, OutsTypes DEF TypeOK
  <2>4. pc' \in DOMAIN Outs => pc' \notin Loop
    BY OutsTypes DEF TypeOK
  <2> QED BY <1>3, <2>1, <2>2, <2>3, <2>4 DEF Loop
<1>9. CASE ReadStatus \/ KeepStatus \/ MouseRead \/ AckRead \/ AckStore \/ Drain \/ AckPoll \/ GetKey
  BY <1>3, <1>9 DEF ReadStatus, KeepStatus, MouseRead, AckRead, AckStore, Drain, AckPoll, GetKey, Goes, Takes
<1>10. CASE Load \/ Tick \/ Assert \/ KeyByte \/ KeyboardAnswer \/ PacketByte \/ MouseAnswer \/ UNCHANGED vars
  BY <1>2, <1>10 DEF Load, Tick, Assert, KeyByte, KeyboardAnswer, PacketByte, MouseAnswer, Arrive, vars
<1> QED
  BY <1>1, <1>4, <1>5, <1>6, <1>7, <1>8, <1>9, <1>10 DEF Next, Program

-----------------------------------------------------------------------------
(* Step *)

\* Where the mouse is after irq12 took a byte of a packet.
LEMMA NextAfterIrq12 ==
  ASSUME TypeOK, Pending, Ring, Irq12
  PROVE  /\ NextPos' = mousePos /\ mousePos \in 0 .. 2
         /\ port.pos \in 0 .. 2 => NextPos = port.pos /\ mousePos = (port.pos + 1) % 3
<1>1. ~obf' /\ mousePos' = mousePos /\ obf
  BY Irq12Parts DEF devices
<1> QED BY <1>1 DEF NextPos, Pending, OfPacket, TypeOK

\* All other steps leave it, but for a byte that someone else reads.
LEMMA NextElsewhere ==
  ASSUME TypeOK, Pending, [Next]_vars, ~Irq12, ~ (obf /\ ~obf' /\ port.pos \in OfPacket)
  PROVE  NextPos' = NextPos /\ cleared' = cleared
<1>1. CASE UNCHANGED <<obf, port, mousePos, cleared>>
  BY <1>1 DEF NextPos
<1>2. CASE ReadPort /\ mousePos' = mousePos
  BY <1>2 DEF NextPos, ReadPort
<1>3. CASE /\ ~obf /\ obf' /\ cleared' = cleared
           /\ \/ port'.pos \in {OfAnswer, NotMouse} /\ mousePos' = mousePos
              \/ port'.pos = mousePos
  BY <1>3 DEF NextPos, TypeOK, OfAnswer, NotMouse, OfPacket
<1> QED BY <1>1, <1>2, <1>3, Steps

\* In step, a packet leaves the decoder in step.
LEMMA PacketKeepsStep ==
  ASSUME TypeOK, Pending, Ring, Checked, Irq12, InStep, port.pos \in OfPacket
  PROVE  InStep' /\ cleared' = cleared
<1>1. NextPos = port.pos /\ mousePos = (port.pos + 1) % 3 /\ NextPos' = mousePos /\ i \in -1 .. 2
      /\ port.pos \in 0 .. 2
  BY NextAfterIrq12 DEF OfPacket, TypeOK
<1>2. port.pos = i % 3 /\ whole /\ port.pos # OfAnswer
  BY <1>1 DEF InStep, OfAnswer
<1>3. CASE i = 2
  <2>1. Bit(3, recent'[1])
    <3>1. recent' = <<recent[2], recent[3], port.v>> /\ Bit(3, recent[2])
      BY <1>2, <1>3, Irq12Parts DEF Checked
    <3> QED BY <3>1
  <2>2. i' = 0 /\ whole' /\ cleared' = cleared
    BY <1>2, <1>3, <2>1, Irq12Parts
  <2> QED BY <1>1, <1>2, <1>3, <2>2 DEF InStep
<1>4. CASE i = -1
  <2>1. i' = 0 /\ whole' /\ cleared' = cleared
    BY <1>2, <1>4, Irq12Parts
  <2> QED BY <1>1, <1>2, <1>4, <2>1 DEF InStep
<1>5. CASE i \in 0 .. 1
  <2>1. i' = i + 1 /\ whole' /\ cleared' = cleared
    BY <1>1, <1>2, <1>5, Irq12Parts
  <2> QED BY <1>1, <1>2, <1>5, <2>1 DEF InStep
<1> QED BY <1>1, <1>3, <1>4, <1>5

LEMMA OffsetZero ==
  ASSUME TypeOK, Pending
  PROVE  InStep <=> Offset = 0 /\ whole
<1>1. NextPos \in 0 .. 2 /\ i \in -1 .. 2
  BY DEF NextPos, TypeOK, OfPacket
<1>2. NextPos = i % 3 <=> (NextPos + 3 - i) % 3 = 0
  BY <1>1
<1> QED BY <1>2 DEF InStep, Offset

\* A packet that is decoded out of step brings the decoder a byte nearer, any other
\* byte of a packet leaves the distance.
LEMMA OffsetAfter ==
  ASSUME TypeOK, Pending, Ring, Irq12, port.pos \in OfPacket
  PROVE  /\ Offset \in 0 .. 2
         /\ cleared' = cleared => Offset' = Offset
         /\ cleared' # cleared => cleared' = cleared + 1 /\ Offset' = (Offset + 1) % 3 /\ i = 2 /\ whole'
<1>1. NextPos = port.pos /\ mousePos = (port.pos + 1) % 3 /\ NextPos' = mousePos /\ i \in -1 .. 2
      /\ port.pos \in 0 .. 2 /\ cleared \in Nat
  BY NextAfterIrq12 DEF OfPacket, TypeOK
<1>2. port.pos # OfAnswer
  BY <1>1 DEF OfAnswer
<1>3. CASE i = 2 /\ ~Bit(3, recent'[1])
  <2>1. i' = -1 /\ cleared' = cleared + 1 /\ whole'
    BY <1>2, <1>3, Irq12Parts
  <2> QED BY <1>1, <1>3, <2>1 DEF Offset
<1>4. CASE i = 2 /\ Bit(3, recent'[1])
  <2>1. i' = 0 /\ cleared' = cleared
    BY <1>2, <1>4, Irq12Parts
  <2> QED BY <1>1, <1>4, <2>1 DEF Offset
<1>5. CASE i # 2
  <2>1. i' = i + 1 /\ cleared' = cleared
    BY <1>2, <1>5, Irq12Parts
  <2> QED BY <1>1, <1>5, <2>1 DEF Offset
<1> QED BY <1>3, <1>4, <1>5

LEMMA RecoveringKept ==
  ASSUME TypeOK, Pending, Ring, Checked, Recovering, [Next]_vars
  PROVE  Recovering'
<1>0. cleared \in Nat
  BY DEF TypeOK
<1>1. CASE Irq12 /\ port.pos \in OfPacket
  <2>1. CASE InStep
    <3>1. InStep' /\ cleared' = cleared
      BY <1>1, <2>1, PacketKeepsStep
    <3>2. whole' /\ Offset' = Offset /\ Offset = 0
      BY <1>1, <2>1, <3>1, OffsetAfter, OffsetZero DEF InStep
    <3> QED BY <1>0, <3>1, <3>2 DEF Recovering
  <2>2. CASE ~InStep /\ cleared' = cleared
    <3>1. Offset' = Offset /\ (cleared > 0 => Offset # 0)
      BY <1>1, <2>2, OffsetAfter, OffsetZero DEF Recovering
    <3> QED BY <1>0, <2>2, <3>1 DEF Recovering
  <2>3. CASE ~InStep /\ cleared' # cleared
    <3>1. cleared' = cleared + 1 /\ Offset' = (Offset + 1) % 3 /\ whole' /\ Offset \in 0 .. 2
      BY <1>1, <2>3, OffsetAfter
    <3>2. cleared > 0 => Offset # 0
      BY <2>3, OffsetZero DEF Recovering
    <3> QED BY <1>0, <3>1, <3>2 DEF Recovering
  <2> QED BY <2>1, <2>2, <2>3
<1>2. CASE Irq12 /\ port.pos \notin OfPacket
  <2>1. cleared' = 0
    BY <1>2, Irq12Parts DEF OfPacket, OfAnswer
  <2> QED BY <2>1 DEF Recovering
<1>3. CASE ~Irq12 /\ obf /\ ~obf' /\ port.pos \in OfPacket
  <2>1. cleared' = 0
    BY <1>3, Steps DEF ReadPort
  <2> QED BY <2>1 DEF Recovering
<1>4. CASE ~Irq12 /\ ~ (obf /\ ~obf' /\ port.pos \in OfPacket)
  <2>1. NextPos' = NextPos /\ cleared' = cleared /\ UNCHANGED decoder
    BY <1>4, NextElsewhere, Steps
  <2> QED BY <2>1 DEF Recovering, Offset, decoder
<1> QED BY <1>1, <1>2, <1>3, <1>4

-----------------------------------------------------------------------------
(* The theorems *)

LEMMA InitInv == Init => IInv
<1> SUFFICES ASSUME Init  PROVE IInv  OBVIOUS
<1> USE InputAssumption
<1>1. TypeOK
  <2>1. {obf, asserted, loaded, streaming, whole, spoiled} \subseteq BOOLEAN
    BY Zenon DEF Init
  <2>2. al \in Byte /\ status \in Byte /\ command \in Byte /\ port \in [v : Byte, pos : 0 .. NotMouse] /\ recent \in Byte \X Byte \X Byte
        /\ bytes \in [0 .. RingSize - 1 -> Byte]
    BY DEF Init, EOI, CommandByte, Byte, NotMouse
  <2>4. pc \in DOMAIN Outs
    BY DEF Init, Outs
  <2>3. expects = "keyboard" /\ mouseOwes = <<>> /\ kbdOwes = <<>> /\ lost = 0 /\ mousePos = 0 /\ early = 0 /\ bytes_count = 0
        /\ i = 0 /\ mouse_dx = 0 /\ mouse_dy = 0 /\ cleared = 0 /\ fresh = {}
    BY DEF Init
  <2> QED BY <2>1, <2>2, <2>3, <2>4 DEF TypeOK, OfPacket
<1>2. Pending /\ Room /\ Checked /\ Recovering /\ Applied
  BY DEF Init, Pending, Room, Checked, Recovering, Applied
<1>3. Ring
  BY DEF Init, Ring, Back
<1> QED BY <1>1, <1>2, <1>3 DEF IInv

LEMMA StepInv == IInv /\ [Next]_vars => IInv'
<1> SUFFICES ASSUME IInv, [Next]_vars  PROVE IInv'
  OBVIOUS
<1>1. TypeOK'
  <2>1. CASE UNCHANGED vars
    BY <2>1 DEF IInv, TypeOK, Outs, vars, program, controller, devices, decoder, movement
  <2> QED BY <2>1, TypesKept DEF IInv
<1>2. Room'
  <2>1. CASE Irq12
    BY <2>1 DEF Irq12, Room
  <2> QED BY <2>1, RoomKept DEF IInv
<1> QED
  BY <1>1, <1>2, PendingKept, RingKept, CheckedKept, RecoveringKept, AppliedKept DEF IInv

\* The conjunction that every step of program, devices and irq12 keeps.
THEOREM Invariant == Spec => []IInv
BY InitInv, StepInv, PTL DEF Spec

\* The types; in particular bytes_count stays in the ring and i with the three bytes
\* of a packet (ints.cpp:138-173).
THEOREM InputTypes == Spec => []TypeOK
<1>1. IInv => TypeOK  BY DEF IInv
<1> QED BY <1>1, Invariant, PTL

\* The loop of k_main adds a movement once (kernel.cpp:91-96).
THEOREM AppliesOnce == Spec => []AppliedOnce
<1>1. IInv => AppliedOnce  BY DEF IInv, Applied, AppliedOnce
<1> QED BY <1>1, Invariant, PTL

\* After the third packet without bit 3 where it is looked for, the decoder is in
\* step (ints.cpp:168-170).
THEOREM Recovers == Spec => []Recovered
<1>1. IInv => Recovered
  <2>1. ASSUME IInv  PROVE InStep <=> Offset = 0 /\ whole
    BY <2>1, OffsetZero DEF IInv
  <2> QED BY <2>1 DEF IInv, Recovering, Recovered
<1> QED BY <1>1, Invariant, PTL

\* irq12 decodes the last three bytes it read, wherever the ring wraps
\* (ints.cpp:138-158).
THEOREM DecodesLast == Spec => DecodesRecent
<1>1. IInv /\ [Next]_vars =>
        [fresh' = {"dx", "dy"} /\ asserted /\ i = 2 =>
           /\ mouse_dy' = Char(recent'[2]) /\ mouse_dx' = -Char(recent'[3])
           /\ (i' = -1) <=> ~Bit(3, recent'[1])]_vars
  <2> SUFFICES ASSUME IInv, Next, asserted, i = 2
               PROVE  /\ mouse_dy' = Char(recent'[2]) /\ mouse_dx' = -Char(recent'[3])
                      /\ (i' = -1) <=> ~Bit(3, recent'[1])
    OBVIOUS
  <2>1. Irq12
    BY DEF IInv, Pending, Next, Program, Load, Command, Data, Out, ReadStatus, KeepStatus, MouseRead, Drain,
           AckPoll, AckRead, AckStore, GetKey, LoadDy, LoadDx, ZeroDx, ZeroDy, Goes, Takes, Touch, Goto, At,
           Tick, MayInterrupt, Assert, KeyByte, KeyboardAnswer, PacketByte, MouseAnswer, Arrive
  <2>2. i' = (IF Bit(3, recent'[1]) THEN 0 ELSE -1)
        /\ mouse_dy' = Char(recent'[2]) /\ mouse_dx' = -Char(recent'[3])
    BY <2>1, Irq12Parts DEF IInv
  <2> QED BY <2>2
<1> QED BY <1>1, Invariant, PTL DEF Spec, DecodesRecent

\* No packet makes irq12 lose step, whatever the mouse says in it
\* (ints.cpp:140-173).
THEOREM KeepsStep == Spec => InStepKept
<1>1. IInv /\ [Next]_vars => [InStep /\ ~InStep' => LosesStep]_vars
  <2> SUFFICES ASSUME IInv, Next, InStep, ~LosesStep  PROVE InStep'
    OBVIOUS
  <2>1. CASE Irq12
    <3>1. port.pos \in 0 .. 2
      BY <2>1, Irq12Parts DEF IInv, LosesStep, OfAnswer
    <3> QED BY <2>1, <3>1, PacketKeepsStep DEF IInv, OfPacket
  <2>2. CASE ~Irq12
    <3>1. obf /\ ~obf' => asserted
      BY DEF LosesStep
    <3>2. ~ (obf /\ ~obf' /\ port.pos \in OfPacket) /\ UNCHANGED decoder
      BY <2>2, <3>1, Steps DEF IInv
    <3>3. NextPos' = NextPos
      BY <2>2, <3>2, NextElsewhere DEF IInv
    <3> QED BY <3>2, <3>3 DEF InStep, decoder
  <2> QED BY <2>1, <2>2
<1> QED BY <1>1, Invariant, PTL DEF Spec, InStepKept
=============================================================================
