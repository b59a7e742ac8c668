--------------------------------- MODULE Pci ---------------------------------
(***************************************************************************)
(* Reading PCI configuration space (src/drivers/pci.c): an address is      *)
(* written to one port, 32 bits are read from another.                     *)
(*                                                                         *)
(* The bridge is external.  A byte of a device's configuration is named by *)
(* <<bus, device, function, offset>>, a value by the bytes it is made of.  *)
(***************************************************************************)
EXTENDS Integers, Sequences

CONSTANTS Places    \* the <<bus, device, function>> read from

ASSUME PciAssumption == Places \subseteq (0..255) \X (0..31) \X (0..7)

VARIABLES
    cf8,            \* the address port, without its highest bit, which enables it
    read            \* the last read: [width, place, offset, value]

pciVars == <<cf8, read>>
NoRead == [width |-> 0, place |-> <<0, 0, 0>>, offset |-> 0, value |-> <<>>]
PciInit == cf8 = 0 /\ read = NoRead

\* The four bytes that port 0xCFC yields.
Inl(address) ==
    [n \in 0..3 |-> <<(address \div 65536) % 256, (address \div 2048) % 32,
                      (address \div 256) % 8, (address % 256) + n>>]

\* Defect: the lowest two bits of the offset stay in the address.
AddressUnmasked(p, offset) == 65536 * p[1] + 2048 * p[2] + 256 * p[3] + offset

Address(p, offset) == 65536 * p[1] + 2048 * p[2] + 256 * p[3] + 4 * (offset \div 4)

\* The 16 bits selected by (offset & 2) * 8; pci_config_read_byte keeps the lower 8
\* of them, and pci_config_read_double has room for no more than 16.
Selected(width, offset, data) ==
    LET low == IF offset % 4 >= 2 THEN 2 ELSE 0
    IN  IF width = 8 THEN <<data[low]>> ELSE <<data[low], data[low + 1]>>

pci_config_read(width, p, offset) ==
    /\ cf8' = Address(p, offset)
    /\ read' = [width |-> width, place |-> p, offset |-> offset,
                value |-> Selected(width, offset, Inl(cf8'))]

\* The fields fill_device_descriptor and the pci_get functions read; pci_get_bar takes
\* an offset, not a number.
Fields == {<<16, 0>>, <<16, 2>>, <<16, 4>>, <<16, 6>>, <<8, 11>>, <<8, 10>>, <<8, 9>>, <<8, 8>>, <<32, 60>>}
          \cup {<<16, 16 + 4 * bar>> : bar \in 0..5}

PciStep == \E p \in Places, f \in Fields : pci_config_read(f[1], p, f[2])

\* A read of an even offset yields the bytes at that offset of that device, for
\* every bus, device and function; 16 bits, or 8.  At an odd offset, as that of the
\* class, the byte before it is returned.
ConfigRight ==
    read # NoRead /\ read.offset % 2 = 0 =>
        read.value = [n \in 1..(IF read.width = 8 THEN 1 ELSE 2) |->
                        read.place \o <<read.offset + n - 1>>]
=============================================================================
