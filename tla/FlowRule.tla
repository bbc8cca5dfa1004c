------------------------------ MODULE FlowRule ------------------------------
(****************************************************************************)
(* The flow a guest asks for (flow/acc_flow.h) and the rule the Open vSwitch *)
(* backend makes of it (acc_ovs_build_ofctl_rule).  A rule is two texts that *)
(* are put together from the texts of the flow's fields; every field is      *)
(* printed into a static buffer, all fields of one snprintf before any       *)
(* buffer is read, in an order C leaves open.  A text is abstracted to the   *)
(* value it shows; whether it fits its 1024 bytes is left out: it does.      *)
(****************************************************************************)
EXTENDS Integers

CONSTANTS
    Value,      \* values of header fields
    Protocol,   \* IP protocol numbers
    Request     \* the flows guests ask for

Field == {"srcmac", "dstmac", "src_ip", "dst_ip", "src_port", "dst_port"}

(* struct acc_flow: the fields the mask names and their values, the protocol, *)
(* and the fields the action updates.                                         *)
Flow == [mask : SUBSET Field, match : [Field -> Value], protocol : Protocol,
         update : SUBSET Field, set : [Field -> Value]]

ASSUME FlowAssumption == Request \subseteq Flow

(* The flows the patched NAT asks for: what it saw in the packet and what it  *)
(* makes of it, on the way out (source address) or back in (destination).     *)
NatFlow(packet, made, protocol, fields) ==
    [mask |-> fields, match |-> packet, protocol |-> protocol,
     update |-> fields, set |-> made]

Outward == {"srcmac", "dstmac", "src_ip", "src_port"}
Inward == {"srcmac", "dstmac", "dst_ip", "dst_port"}

-----------------------------------------------------------------------------

(* Mutant: one buffer for both hardware addresses. *)
PrintBufferShared ==
    [srcmac |-> "mac1", dstmac |-> "mac1", src_ip |-> "ip1", dst_ip |-> "ip2",
     src_port |-> "port1", dst_port |-> "port2"]

(* print_mac1 and the others: which static buffer a field is printed into.    *)
PrintBuffer ==
    [srcmac |-> "mac1", dstmac |-> "mac2", src_ip |-> "ip1", dst_ip |-> "ip2",
     src_port |-> "port1", dst_port |-> "port2"]

(* For every field of one snprintf the field whose text its buffer holds when *)
(* the buffer is read: the one of that buffer that was printed last.          *)
LastPrinted(fields) ==
    {last \in [fields -> fields] :
        \A f, g \in fields :
            /\ PrintBuffer[last[f]] = PrintBuffer[f]
            /\ PrintBuffer[f] = PrintBuffer[g] => last[f] = last[g]}

Texts(fields, value) ==
    {[f \in fields |-> value[last[f]]] : last \in LastPrinted(fields)}

Supported(flow) == flow.protocol \in {6, 17}

(* acc_ovs_build_ofctl_rule: the match, in two parts, and the action.  A flow *)
(* of another protocol has no rule.                                           *)
Build(flow) ==
    LET ports == flow.mask \cap {"src_port", "dst_port"}
        addresses == flow.mask \ ports
    IN  IF ~Supported(flow) THEN {}
        ELSE {[match |-> [protocol |-> flow.protocol, addresses |-> a, ports |-> p],
               action |-> u] :
                 a \in Texts(addresses, flow.match), p \in Texts(ports, flow.match),
                 u \in Texts(flow.update, flow.set)}

-----------------------------------------------------------------------------

(* What backends make of the flows guests ask for. *)
OvsRule == UNION {Build(flow) : flow \in Request}

(* What the rule of a flow should be: every field with its own value. *)
Shown(fields, value) == [f \in fields |-> value[f]]

MatchOf(flow) ==
    LET ports == flow.mask \cap {"src_port", "dst_port"}
    IN  [protocol |-> flow.protocol, addresses |-> Shown(flow.mask \ ports, flow.match),
         ports |-> Shown(ports, flow.match)]

ActionOf(flow) == Shown(flow.update, flow.set)
=============================================================================
