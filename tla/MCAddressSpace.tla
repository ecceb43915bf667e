--------------------------- MODULE MCAddressSpace ---------------------------
(* AddressSpace for TLC: pages of two bytes; the second segment shares a    *)
(* page with the first and has no bytes in the file.                        *)
EXTENDS AddressSpace, TLC

MCProgram == <<[va |-> 1, file_size |-> 2, mem_size |-> 2],
               [va |-> 3, file_size |-> 0, mem_size |-> 1]>>
MCSymmetry == Permutations(Proc) \cup Permutations(Thread)
MCUserStack == [va |-> 4, mem_size |-> 1]
=============================================================================
