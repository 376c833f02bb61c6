----------------------------- MODULE MCBootChain -----------------------------
(***************************************************************************)
(* Images that are just in the reach of the loaders and just out of it, on *)
(* the disk of 1 GiB that write.cpp makes and on disks of other sizes.     *)
(***************************************************************************)
EXTENDS BootChain

F(name, count) == [name |-> name, count |-> count]
Kernel(count) == F(Stage2Name, count)
Loader(count) == F(Stage1Name, count)
Volume == F("DGNOS", 0)

\* n entries that both loaders pass over.
Others(n, names) == [i \in 1 .. n |-> F(names[i], 1)]
Fifteen == <<"a", "b", "c", "d", "e", "f", "g", "h", "i", "j", "k", "l", "m", "n", "o">>

MiB == 2048    \* in sectors
Image(size, root) == [secs |-> size * MiB, root |-> root]

\* A disk on which clusters do not begin at multiples of their size.
Unaligned(root) == [secs |-> 2016 * MiB + 128, root |-> root]

GiBImages ==
  { <<Volume, Kernel(6), Loader(1)>>,               \* that of touch.txt
    <<Volume, Kernel(2), Loader(7)>>,               \* the longest stage 2
    <<Volume, Kernel(2), Loader(8)>>,
    <<Volume, Kernel(16), Loader(1)>>,              \* the longest kernel
    <<Volume, Kernel(17), Loader(1)>>,
    <<Volume, Loader(1)>>,                          \* no kernel
    <<Volume, Kernel(1)>>,                          \* no stage 2
    <<F("A", 122), Kernel(1), Loader(2)>>,          \* stage 2 ends at cluster 127
    <<F("A", 123), Kernel(1), Loader(2)>>,          \* and at 128
    <<F("A", 254), Kernel(1), Loader(2)>>,          \* its first one past 256
    <<Volume, Loader(1), F("a", 4087), Kernel(2)>>, \* up to sector 65527
    <<Volume, Loader(1), F("a", 4088), Kernel(2)>>, \* up to 65535: eax is left at 65536
    <<Loader(1)>> \o Others(14, Fifteen) \o <<Kernel(1)>>,
    <<Loader(1)>> \o Others(15, Fifteen) \o <<Kernel(1)>>,
    <<Kernel(1)>> \o Others(15, Fifteen) \o <<Loader(1)>>,
    <<Loader(1)>> \o Others(15, Fifteen) \o <<F("p", 400), Kernel(1)>> }

MCImages ==
  { Image(1024, root) : root \in GiBImages } \cup
  { Image(64, <<Volume, Kernel(32), Loader(14)>>),  \* four sectors in a cluster
    Image(64, <<Volume, Kernel(33), Loader(14)>>),
    Image(64, <<Volume, Kernel(6), Loader(15)>>),
    Image(256, <<Volume, Kernel(6), Loader(1)>>),
    Image(2016, <<F("A", 121), Kernel(1), Loader(1)>>), \* stage 2 in sector 65535
    Image(2016, <<F("A", 122), Kernel(1), Loader(1)>>), \* and in 65536
    Image(2048, <<Volume, Kernel(1), Loader(1)>>),  \* data_loc is no word
    Unaligned(<<F("A", 121), Kernel(1), Loader(1)>>),   \* stage 2 around sector 65536
    Unaligned(<<F("A", 122), Kernel(1), Loader(1)>>) }  \* and the kernel
=============================================================================
