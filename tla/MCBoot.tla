------------------------------- MODULE MCBoot -------------------------------
(* Nine pages: page 0, where boot_info is, the trampoline's, the kernel's,  *)
(* those above and the screen.  Two machines: one with the ACPI tables high *)
(* up, the other with less memory and the tables where the trampoline will  *)
(* go.  A boot CPU and two cores, a third that is disabled and an entry of  *)
(* another type in the table.                                               *)
EXTENDS Boot

MCMap(acpi, top) == [p \in 0 .. 8 |-> CASE p = acpi -> "acpi" [] p = 0 -> "boot"
                                        [] p > top -> "hole" [] OTHER -> "free"]
MCMaps == {MCMap(1, 6), MCMap(7, 7)}
MCModes == <<[pixels |-> 0, framebuffer |-> {7}], [pixels |-> 2, framebuffer |-> {8}],
             [pixels |-> 2, framebuffer |-> {7}]>>

Lapic(id, on) == [type |-> 0, id |-> id, enabled |-> on]
MCXsdt == << [signature |-> "FACP", entries |-> <<Lapic(9, TRUE)>>],
             [signature |-> "APIC",
              entries |-> <<Lapic(0, TRUE), [Lapic(8, TRUE) EXCEPT !.type = 1],
                            Lapic(1, TRUE), Lapic(3, FALSE), Lapic(2, TRUE)>>] >>
=============================================================================
