---------------------------- MODULE ModbusFrame ----------------------------
(***************************************************************************)
(* The bytes of the Modbus TCP link: the request that the STM32F429 client *)
(* builds, what the cloud server takes out of the bytes of one read, the   *)
(* response the server builds and the client's check of it.                *)
(*                                                                         *)
(* Buffers are sequences of bytes.  The sources index them from 0, so the  *)
(* operator At translates an offset of the sources.                        *)
(***************************************************************************)
EXTENDS Naturals, Sequences

Byte == { v \in Nat : v < 256 }      (* uint8_t *)
Word == { v \in Nat : v < 65536 }    (* uint16_t *)

RegCount   == 5                 (* REG_COUNT *)
FrameLen   == 24                (* SEND_FRAME_LEN *)
ReplyLen   == 12                (* RECV_FRAME_LEN *)
MinFrame   == 13                (* the shortest read the server looks at *)
ReadBuffer == 256               (* the server's buffer for one read *)
NumRegs    == 10                (* registers of the server *)

Regs   == 0 .. NumRegs - 1
Report == 0 .. RegCount - 1     (* indices of the reported registers *)

(* A sensor sample; the last register is the constant status word 0x0001. *)
Sample == { s \in [Report -> Word] : s[RegCount - 1] = 1 }

Hi(v) == v \div 256
Lo(v) == v % 256

At(b, off)     == b[off + 1]
WordAt(b, off) == At(b, off) * 256 + At(b, off + 1)

(***************************************************************************)
(* The request.  The length field is 16; byte 23, the last one sent, is    *)
(* never assigned and keeps the 0 of the static buffer.                    *)
(***************************************************************************)
Frame(id, s) ==
  << Hi(id), Lo(id),  0, 0,  0, 16,  1,  16,  0, 0,  0, RegCount,  10,
     Hi(s[0]), Lo(s[0]), Hi(s[1]), Lo(s[1]), Hi(s[2]), Lo(s[2]),
     Hi(s[3]), Lo(s[3]), Hi(s[4]), Lo(s[4]),  0 >>

(***************************************************************************)
(* What the server makes of the bytes b of one read.                       *)
(***************************************************************************)
Accepted(b) == Len(b) >= MinFrame /\ At(b, 7) = 16

Start(b) == WordAt(b, 8)
Count(b) == WordAt(b, 10)

(* Mutant of DataOff: the offset 12 the server used once. *)
DataOffShort(b, r) == MinFrame - 1 + 2 * (r - Start(b))

DataOff(b, r) == MinFrame + 2 * (r - Start(b))

(* The registers that the loop over 0 .. count-1 stores. *)
Targets(b) ==
  { r \in Regs : /\ Start(b) <= r
                 /\ r < Start(b) + Count(b)
                 /\ DataOff(b, r) + 1 < Len(b) }

(* The response echoes the transaction id, the unit id, the start and the  *)
(* count of the request.                                                   *)
Response(b) ==
  << At(b, 0), At(b, 1),  0, 0,  0, 6,  At(b, 6),  16,
     At(b, 8), At(b, 9),  At(b, 10), At(b, 11) >>

(* Mutant of ResponseOK: the length field of another response. *)
ResponseOKLonger(x) ==
  /\ At(x, 2) = 0 /\ At(x, 3) = 0
  /\ At(x, 4) = 0 /\ At(x, 5) = 7
  /\ At(x, 7) = 16

(* The client's check: protocol id, length and function code. *)
ResponseOK(x) ==
  /\ At(x, 2) = 0 /\ At(x, 3) = 0
  /\ At(x, 4) = 0 /\ At(x, 5) = 6
  /\ At(x, 7) = 16
=============================================================================
