-------------------------------- MODULE MCMmu -------------------------------
(* TLC instances of Mmu. Table 0 is the root, table 1 holds the pointer      *)
(* descriptors, table 2 the page descriptors; table 9 is outside RAM.        *)
EXTENDS Mmu

Table(t) == [dt |-> 2, addr |-> <<t, 0>>, frame |-> 0, W |-> FALSE,
             S |-> FALSE, G |-> FALSE, U |-> TRUE, M |-> FALSE]
Page(f) == [dt |-> 1, addr |-> <<0, 0>>, frame |-> f, W |-> FALSE,
            S |-> FALSE, G |-> FALSE, U |-> FALSE, M |-> FALSE]
Invalid == [Page(0) EXCEPT !.dt = 0]

\* Pages 0 and 16 share a slot and the page table of pointer 0; page 16 has a
\* pointer descriptor of its own.
TwoPages == {0, 16}
OneSlot == [p \in TwoPages |-> 0]
TwoRi == [p \in TwoPages |-> 0]
TwoPi == [p \in TwoPages |-> p \div 16]
TwoPgi == [p \in TwoPages |-> p \div 16]

TwoMem ==
  [a \in Addrs |-> CASE a = <<0, 0>> -> Table(1)
                     [] a[1] = 1 -> Table(2)
                     [] a[1] = 2 -> Page(a[2])
                     [] OTHER -> Invalid]

\* The pager removes the table of page 16, puts it outside RAM or write-protects
\* it; it maps page 0 read-only, or for the supervisor and global, or cleans it.
PagerEdits ==
  {<<<<1, 1>>, Invalid>>, <<<<1, 1>>, Table(9)>>, <<<<1, 1>>, [Table(2) EXCEPT !.W = TRUE]>>,
   <<<<2, 0>>, [Page(1) EXCEPT !.W = TRUE]>>,
   <<<<2, 0>>, [Page(0) EXCEPT !.S = TRUE, !.G = TRUE]>>,
   <<<<2, 0>>, Page(0)>>}
OneUse == {<<"user", "d">>}

\* The pager unmaps page 0, or maps it to page 16 by an indirect descriptor.
UnmapEdits ==
  {<<<<2, 0>>, Invalid>>,
   <<<<2, 0>>, [Page(0) EXCEPT !.dt = 2, !.addr = <<2, 1>>]>>}

\* A transparent register for the data of the user, read only, over page 16.
TransparentLoad ==
  {<<"d", 2, [E |-> TRUE, S |-> 0, W |-> TRUE, match |-> {16}]>>}
===============================================================================
