------------------------------ MODULE AddressPlan ------------------------------
(***************************************************************************)
(* The naming and addressing plan of internal/runtime/network_linux.go:    *)
(* what allocateWorkloadNetwork derives from the slot number it draws.     *)
(* Every slot owns one /30 block of 10.200.0.0/16, an interface name in    *)
(* the guest and one in the workload.  An address is represented by its    *)
(* last two octets, as the number 256 * third + fourth.                    *)
(***************************************************************************)
EXTENDS Integers, FiniteSets

MaxWorkloadNetworks == 16384

Slot == 0 .. MaxWorkloadNetworks - 1

\* Mutants: 32 blocks to an octet; blocks of one address.
ThirdOctetHalved(s) == s \div 32

FourthOctetUnscaled(s) == s % 64

ThirdOctet(s) == s \div 64

FourthOctet(s) == (s % 64) * 4

Address(third, fourth) == 256 * third + fourth

\* GuestAddress and Gateway: one address, with and without its prefix length.
GuestAddress(s) == Address(ThirdOctet(s), FourthOctet(s) + 1)

WorkloadAddress(s) == Address(ThirdOctet(s), FourthOctet(s) + 2)

\* The network part and the host part of an address under the prefix /30.
Subnet(address) == address \div 4

HostPart(address) == address % 4

\* The %04x of an interface name: kvh followed by four hexadecimal digits.
InterfaceDigits(s) ==
    << s \div 4096, (s \div 256) % 16, (s \div 16) % 16, s % 16 >>

-----------------------------------------------------------------------------
(* What the plan promises for two slots s and t.                           *)

\* Every octet written into an address string is at most 255, so that
\* netlink.ParseAddr never rejects what allocateWorkloadNetwork formatted.
OctetsInRange(s) ==
    /\ ThirdOctet(s) \in 0 .. 255
    /\ FourthOctet(s) + 2 \in 0 .. 255

\* Both ends of a veth pair lie in one /30 block, on its two usable host
\* addresses: neither is the network address nor the broadcast address.
EndsShareBlock(s) ==
    /\ Subnet(GuestAddress(s)) = Subnet(WorkloadAddress(s))
    /\ HostPart(GuestAddress(s)) = 1
    /\ HostPart(WorkloadAddress(s)) = 2

\* Different slots never share a block, so the guest's connected routes of two
\* workloads cannot overlap.
BlocksDisjoint(s, t) ==
    s # t => Subnet(GuestAddress(s)) # Subnet(GuestAddress(t))

\* Different slots never share an interface name.
NamesDiffer(s, t) ==
    s # t => InterfaceDigits(s) # InterfaceDigits(t)

WellFormedSlots == {s \in Slot : OctetsInRange(s) /\ EndsShareBlock(s)}

WellFormedBlocks == {Subnet(GuestAddress(s)) : s \in WellFormedSlots}

WellFormedNames == {InterfaceDigits(s) : s \in WellFormedSlots}

\* Whatever slots runs hold, they get well-formed addresses in different blocks
\* under different names: there are as many blocks and as many names of well-formed
\* slots as there are slots (network_linux.go:39-48).
PlanSound ==
    {Cardinality(WellFormedBlocks), Cardinality(WellFormedNames)} = {MaxWorkloadNetworks}
=============================================================================
