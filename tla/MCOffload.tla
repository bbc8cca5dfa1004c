------------------------------ MODULE MCOffload ------------------------------
(* A card on the host, a card behind ssh and one nobody has a plugin for; a   *)
(* TCP flow out of the NAT and one back in, and one that is neither.          *)
EXTENDS Offload, TLC

CONSTANTS local, remote, none

MCCard == {local, remote, none}

MCKindOf ==
    local :> [slot |-> netronome.slot, acc_type |-> FLOW \cup COMPRESS]
    @@ remote :> [slot |-> liquidio.slot, acc_type |-> FLOW]
    @@ none :> [slot |-> <<"xilinx", "vu9p">>, acc_type |-> FLOW]

(* Every field has a value of its own, so that mixed-up texts show.           *)
Packet == [srcmac |-> 1, dstmac |-> 2, src_ip |-> 3, dst_ip |-> 4, src_port |-> 5, dst_port |-> 6]
Made == [f \in Field |-> Packet[f] + 6]

out == NatFlow(Packet, Made, 6, Outward)
in == NatFlow(Made, Packet, 6, Inward)
icmp == NatFlow(Packet, Made, 1, Outward)

MCRequest == {out, in, icmp}
MCBatch == {<<out, in>>, <<out, icmp>>}
MCContext == [switch : Switch, cookie : 0 .. 1]
=============================================================================
