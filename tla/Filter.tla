------------------------------- MODULE Filter -------------------------------
(***************************************************************************)
(* The discovery filter lldpd installs on every raw socket                *)
(* (LLDPD_FILTER_F in interfaces.c), the classic BPF machine that runs it *)
(* in the kernel, and the two descriptions of what it should accept: the  *)
(* pcap expressions in the comment above the program, and spec 4.4.       *)
(*                                                                         *)
(* A frame is its Ethernet header: the destination MAC as six bytes and   *)
(* the EtherType.  The source MAC is never loaded by the program.         *)
(***************************************************************************)
EXTENDS Integers, Sequences

Byte == 0..255
Pkt == [dst : [1..6 -> Byte], type : 0..65535]

\* The byte at offset off of the frame, as the kernel's skb data holds it.
PktByte(pkt, off) ==
    CASE off \in 0..5   -> pkt.dst[off + 1]
      [] off \in 6..11  -> 0
      [] off = 12       -> pkt.type \div 256
      [] off = 13       -> pkt.type % 256
HeaderLen == 14

-----------------------------------------------------------------------------
(* Classic BPF, the instructions the program uses: BPF_LD|BPF_H|BPF_ABS,  *)
(* BPF_LD|BPF_W|BPF_ABS (big-endian loads into A), BPF_JMP|BPF_JEQ|BPF_K  *)
(* (jump jt or jf instructions ahead) and BPF_RET|BPF_K.                  *)

LD_H_ABS == 40
LD_W_ABS == 32
JEQ_K    == 21
RET_K    == 6

\* The n bytes at offset off, big-endian, as the halves of a 32-bit word.
Load(pkt, off, n) ==
    LET Half(o) == PktByte(pkt, o) * 256 + PktByte(pkt, o + 1)
    IN  IF n = 2 THEN <<0, Half(off)>> ELSE <<Half(off), Half(off + 2)>>

\* sk_run_filter from instruction pc (0-based) with accumulator A; a load
\* past the end of the frame ends the program with 0.  Jumps go forward
\* only, so the recursion ends.
RECURSIVE Run(_, _, _, _)
Run(prog, pkt, pc, A) ==
    LET ins == prog[pc + 1]
        width == IF ins.code = LD_H_ABS THEN 2 ELSE 4
    IN  CASE ins.code \in {LD_H_ABS, LD_W_ABS} ->
                IF ins.k[2] + width > HeaderLen THEN 0
                ELSE Run(prog, pkt, pc + 1, Load(pkt, ins.k[2], width))
          [] ins.code = JEQ_K ->
                Run(prog, pkt, pc + 1 + (IF A = ins.k THEN ins.jt ELSE ins.jf), A)
          [] ins.code = RET_K -> ins.k

\* The socket keeps the frame when the program returns a nonzero length.
Accepts(prog, pkt) == Run(prog, pkt, 0, <<0, 0>>) # <<0, 0>>

\* k is a 32-bit word, kept as its two 16-bit halves (TLC's integers are
\* signed 32-bit).
Ins(code, jt, jf, khi, klo) == [code |-> code, jt |-> jt, jf |-> jf, k |-> <<khi, klo>>]

\* Mutant of LldpdFilterF: the LLDP branch's last jump is one short.
LldpdFilterFShortJump ==
    << Ins(40, 0, 0, 0, 12), Ins(21, 0, 4, 0, 35020),  \* { 0x28, 0, 0, 0x0000000c }, { 0x15, 0, 4, 0x000088cc }
       Ins(32, 0, 0, 0, 2), Ins(21, 0, 2, 49664, 14),  \* { 0x20, 0, 0, 0x00000002 }, { 0x15, 0, 2, 0xc200000e }
       Ins(40, 0, 0, 0, 0), Ins(21, 10, 12, 0, 384),  \* { 0x28, 0, 0, 0x00000000 }, { 0x15, 10, 12, 0x00000180 }
       Ins(32, 0, 0, 0, 2), Ins(21, 0, 2, 11008, 0),  \* { 0x20, 0, 0, 0x00000002 }, { 0x15, 0, 2, 0x2b000000 }
       Ins(40, 0, 0, 0, 0), Ins(21, 7, 8, 0, 224),  \* { 0x28, 0, 0, 0x00000000 }, { 0x15, 7, 8, 0x000000e0 }
       Ins(21, 1, 0, 3276, 52428), Ins(21, 0, 2, 33024, 256),  \* { 0x15, 1, 0, 0x0ccccccc }, { 0x15, 0, 2, 0x81000100 }
       Ins(40, 0, 0, 0, 0), Ins(21, 3, 4, 0, 256),  \* { 0x28, 0, 0, 0x00000000 }, { 0x15, 3, 4, 0x00000100 }
       Ins(21, 0, 3, 21196, 52428), Ins(40, 0, 0, 0, 0),  \* { 0x15, 0, 3, 0x52cccccc }, { 0x28, 0, 0, 0x00000000 }
       Ins(21, 0, 1, 0, 480), Ins(6, 0, 0, 0, 65535),  \* { 0x15, 0, 1, 0x000001e0 }, { 0x6, 0, 0, 0x0000ffff }
       Ins(6, 0, 0, 0, 0) >>  \* { 0x6, 0, 0, 0x00000000 }

\* LLDPD_FILTER_F: { code, jt, jf, k } per instruction.
LldpdFilterF ==
    << Ins(40, 0, 0, 0, 12), Ins(21, 0, 4, 0, 35020),  \* { 0x28, 0, 0, 0x0000000c }, { 0x15, 0, 4, 0x000088cc }
       Ins(32, 0, 0, 0, 2), Ins(21, 0, 2, 49664, 14),  \* { 0x20, 0, 0, 0x00000002 }, { 0x15, 0, 2, 0xc200000e }
       Ins(40, 0, 0, 0, 0), Ins(21, 11, 12, 0, 384),  \* { 0x28, 0, 0, 0x00000000 }, { 0x15, 11, 12, 0x00000180 }
       Ins(32, 0, 0, 0, 2), Ins(21, 0, 2, 11008, 0),  \* { 0x20, 0, 0, 0x00000002 }, { 0x15, 0, 2, 0x2b000000 }
       Ins(40, 0, 0, 0, 0), Ins(21, 7, 8, 0, 224),  \* { 0x28, 0, 0, 0x00000000 }, { 0x15, 7, 8, 0x000000e0 }
       Ins(21, 1, 0, 3276, 52428), Ins(21, 0, 2, 33024, 256),  \* { 0x15, 1, 0, 0x0ccccccc }, { 0x15, 0, 2, 0x81000100 }
       Ins(40, 0, 0, 0, 0), Ins(21, 3, 4, 0, 256),  \* { 0x28, 0, 0, 0x00000000 }, { 0x15, 3, 4, 0x00000100 }
       Ins(21, 0, 3, 21196, 52428), Ins(40, 0, 0, 0, 0),  \* { 0x15, 0, 3, 0x52cccccc }, { 0x28, 0, 0, 0x00000000 }
       Ins(21, 0, 1, 0, 480), Ins(6, 0, 0, 0, 65535),  \* { 0x15, 0, 1, 0x000001e0 }, { 0x6, 0, 0, 0x0000ffff }
       Ins(6, 0, 0, 0, 0) >>  \* { 0x6, 0, 0, 0x00000000 }

-----------------------------------------------------------------------------
(* What the filter should accept. *)

Mac(a, b, c, d, e, f) == <<a, b, c, d, e, f>>
LLDP_MULTICAST == Mac(1, 128, 194, 0, 0, 14)
ETH_P_LLDP == 35020   \* 0x88cc

\* The comment above the program: LLDP "ether proto 0x88cc and ether dst
\* 01:80:c2:00:00:0e", FDP, CDP, SONMP and EDP "ether dst ...".
CommentDsts == { Mac(1, 224, 82, 204, 204, 204), Mac(1, 0, 12, 204, 204, 204),
                 Mac(1, 0, 129, 0, 1, 0), Mac(0, 224, 43, 0, 0, 0) }
CommentMatch(pkt) ==
    \/ pkt.type = ETH_P_LLDP /\ pkt.dst = LLDP_MULTICAST
    \/ pkt.dst \in CommentDsts

\* Spec 4.4: the same list, with EDP at 01:e0:2b:00:00:00.
SpecDsts == { Mac(1, 224, 82, 204, 204, 204), Mac(1, 0, 12, 204, 204, 204),
              Mac(1, 0, 129, 0, 1, 0), Mac(1, 224, 43, 0, 0, 0) }
SpecMatch(pkt) ==
    \/ pkt.type = ETH_P_LLDP /\ pkt.dst = LLDP_MULTICAST
    \/ pkt.dst \in SpecDsts

\* Frames that reach every instruction on both of its outcomes: every
\* destination either description names, each with its first, second and
\* last byte changed (the program compares bytes 2-5 first, then 0-1),
\* and a broadcast; with the LLDP, ARP and IPv4 EtherTypes.
Named == {LLDP_MULTICAST} \cup CommentDsts \cup SpecDsts
TestDsts ==
    Named
    \cup {[m EXCEPT ![j] = (@ + 1) % 256] : m \in Named, j \in {1, 2, 6}}
    \cup {Mac(255, 255, 255, 255, 255, 255)}
TestFrames == [dst : TestDsts, type : {ETH_P_LLDP, 2054, 2048}]   \* 0x0806, 0x0800

=============================================================================
