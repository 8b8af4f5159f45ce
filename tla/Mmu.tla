-------------------------------- MODULE Mmu ---------------------------------
(***************************************************************************)
(* The memory management unit of the 68040: the translation tables in      *)
(* memory, the transparent translation registers, the direct-mapped        *)
(* address translation caches d_atc and i_atc, and every operation on      *)
(* them (ptest, ptest_and_check, PTEST, PFLUSH*, MOVEC).                   *)
(*                                                                         *)
(* A page is a logical page number (addr >> 12), the key of the caches.    *)
(* The three indices addr_e cuts from it are the functions Ri, Pi and Pgi: *)
(* with 8K pages two page numbers have the same indices. A descriptor is a *)
(* record; `addr' is its address field, a table (upper levels) or another  *)
(* descriptor (indirect), and `frame' the physical page.                   *)
(*                                                                         *)
(* The MMU runs on the CPU thread, one instruction at a time: an access is *)
(* one step. What interleaves is the guest system: it edits tables, moves  *)
(* root pointers and flushes in any order, in any address space.           *)
(***************************************************************************)
EXTENDS Integers

CONSTANTS
  Pages, Frames, Tables, Index, Slots,
  Slot,        \* Slot[p]: addr & 0xf
  Ri, Pi, Pgi, \* the indices of a page in the three levels (addr_e)
  BadTables,   \* tables outside RAM: reading them raises BusError
  Edits,       \* <<address, descriptor>>: the table edits of the guest
  Roots,       \* the root tables the guest loads in URP and SRP
  TtrLoads,    \* <<kind, n, value>>: what the guest loads in the TTRs
  Uses,        \* bound: the <<space, kind>> of the accesses explored
  Dfcs,        \* bound: the values of DFC explored
  InitMem,     \* the tables the guest has built before it turns the MMU on
  InitPage, InitFrame, InitTable, InitIndex  \* what the zeroed caches hold

Spaces == {"user", "sys"}
Kinds == {"d", "i"}
Addrs == Tables \X Index

\* dt: 0 invalid, 1 and 3 resident, 2 indirect (a page) or resident (a table).
Desc == [dt : 0..3, addr : Addrs, frame : Frames,
         W : BOOLEAN, S : BOOLEAN, G : BOOLEAN, U : BOOLEAN, M : BOOLEAN]

\* A transparent translation register: S is 0 user, 1 supervisor, 2 both;
\* base and mask are the set of pages they match.
Ttr == [E : BOOLEAN, S : 0..2, W : BOOLEAN, match : SUBSET Pages]

Entry == [laddr : Pages, V : BOOLEAN, R : BOOLEAN, G : BOOLEAN, S : BOOLEAN,
          W : BOOLEAN, M : BOOLEAN, paddr : Frames, pg_addr : Addrs]

ASSUME MmuAssumption ==
  /\ Slot \in [Pages -> Slots]
  /\ Ri \in [Pages -> Index] /\ Pi \in [Pages -> Index]
  /\ Pgi \in [Pages -> Index]
  /\ BadTables \subseteq Tables
  /\ Roots \subseteq Tables
  /\ Edits \subseteq Addrs \X Desc
  /\ TtrLoads \subseteq Kinds \X (1..2) \X Ttr
  /\ Uses \subseteq Spaces \X Kinds
  /\ Dfcs \subseteq 0..7
  /\ InitMem \in [Addrs -> Desc]
  /\ InitPage \in Pages /\ InitFrame \in Frames
  /\ InitTable \in Roots /\ InitIndex \in Index

VARIABLES
  mem,     \* the descriptors in memory
  atc,     \* d_atc and i_atc: atc[space, kind, slot]
  root,    \* URP and SRP
  TCR_E,   \* the MMU is on
  ttr,     \* ITTR and DTTR: ttr[kind][1..2]
  stale,   \* history: <<space, page>> edited since the guest last flushed it
  pinned   \* history: those that PFLUSHN and PFLUSHAN need not refresh, having
           \* been global or without a table at the time

vars == <<mem, atc, root, TCR_E, ttr, stale, pinned>>

EmptyEntry ==
  [laddr |-> InitPage, V |-> FALSE, R |-> FALSE, G |-> FALSE, S |-> FALSE,
   W |-> FALSE, M |-> FALSE, paddr |-> InitFrame,
   pg_addr |-> <<InitTable, InitIndex>>]

Init ==
  /\ mem = InitMem
  /\ atc = [x \in Spaces \X Kinds \X Slots |-> EmptyEntry]
  /\ root = [s \in Spaces |-> InitTable]
  /\ TCR_E \in BOOLEAN
  /\ ttr = [k \in Kinds |-> [n \in 1..2 |->
              [E |-> FALSE, S |-> 0, W |-> FALSE, match |-> {}]]]
  /\ stale = {}
  /\ pinned = {}

-----------------------------------------------------------------------------
(* The table walk, over memory m from the root table rt.                   *)

RootAt(rt, p) == <<rt, Ri[p]>>
PtrAt(m, rt, p) == <<m[RootAt(rt, p)].addr[1], Pi[p]>>
PageAt(m, rt, p) == <<m[PtrAt(m, rt, p)].addr[1], Pgi[p]>>

\* atc_set follows one indirect descriptor, whatever it then finds there.
LeafAt(m, rt, p) ==
  LET g == PageAt(m, rt, p) IN IF m[g].dt = 2 THEN m[g].addr ELSE g

Bad(a) == a[1] \in BadTables
Present(m, a) == ~Bad(a) /\ m[a].dt >= 2      \* pdt_lookup finds a table

HasRoot(m, rt, p) == Present(m, RootAt(rt, p))
HasPtr(m, rt, p) == HasRoot(m, rt, p) /\ Present(m, PtrAt(m, rt, p))

\* How atc_search ends: "page", "absent" (no table), "invalid" (no page) or
\* "bus" (a descriptor outside RAM).
WalkEnd(m, rt, p) ==
  IF ~HasRoot(m, rt, p)
  THEN IF Bad(RootAt(rt, p)) THEN "bus" ELSE "absent"
  ELSE IF ~HasPtr(m, rt, p)
  THEN IF Bad(PtrAt(m, rt, p)) THEN "bus" ELSE "absent"
  ELSE IF Bad(PageAt(m, rt, p)) THEN "bus"
  ELSE IF m[PageAt(m, rt, p)].dt = 0 THEN "invalid"
  ELSE IF Bad(LeafAt(m, rt, p)) THEN "bus" ELSE "page"

\* The write protection of the page: any level may set it.
WriteProtected(m, rt, p) ==
  \/ m[RootAt(rt, p)].W \/ m[PtrAt(m, rt, p)].W \/ m[LeafAt(m, rt, p)].W

\* An access of this sort is allowed by the descriptors ("acceptable access").
Acceptable(m, rt, s, p, w) ==
  /\ ~(WriteProtected(m, rt, p) /\ w)
  /\ ~(m[LeafAt(m, rt, p)].S /\ s = "user")

-----------------------------------------------------------------------------
(* Defects the properties below must catch.                                *)

\* atc_set shifts the descriptor by 8 instead of 12.
MutLoadedShifted(e, s, p, w) ==
  LET l == LeafAt(mem, root[s], p) IN
  IF WalkEnd(mem, root[s], p) = "page"
  THEN [e EXCEPT !.laddr = p, !.V = TRUE, !.R = TRUE, !.paddr = 16 * mem[l].frame]
  ELSE e

\* atc_set does not assign G.
MutLoadedKeepsG(e, s, p, w) ==
  LET m == mem  rt == root[s]  l == LeafAt(m, rt, p) IN
  IF WalkEnd(m, rt, p) = "page"
  THEN [laddr |-> p, V |-> TRUE, R |-> TRUE, G |-> e.G, S |-> m[l].S,
        W |-> WriteProtected(m, rt, p),
        M |-> m[l].M \/ (w /\ Acceptable(m, rt, s, p, w)),
        paddr |-> m[l].frame, pg_addr |-> l]
  ELSE IF WalkEnd(m, rt, p) = "absent"
  THEN [e EXCEPT !.laddr = p, !.V = TRUE, !.R = FALSE]
  ELSE e

\* An entry is a hit whatever page it holds.
MutHit(c, s, k, p) == c[<<s, k, Slot[p]>>].V

\* Writes that are then refused mark the page modified.
MutModifies(e, s, w) == e.R /\ w /\ ~e.M

\* PTEST does not drop the entry first.
MutDropped(s, k, p) == atc

-----------------------------------------------------------------------------
(* ptest.                                                                  *)

TtrHits(x, s, p) ==
  x.E /\ (x.S = 0 => s = "user") /\ (x.S = 1 => s = "sys") /\ p \in x.match

\* ptest_ttr: the first register that matches, 0 if none does.
TtrOf(s, k, p) ==
  IF TtrHits(ttr[k][1], s, p) THEN 1
  ELSE IF TtrHits(ttr[k][2], s, p) THEN 2 ELSE 0

\* The access is decided by the caches and the tables.
Translated(s, k, p) == TCR_E /\ TtrOf(s, k, p) = 0

\* Caches c hold the page.
Hit(c, s, k, p) == c[<<s, k, Slot[p]>>].V /\ c[<<s, k, Slot[p]>>].laddr = p

\* A missing table leaves G and the other fields of the previous page in the
\* slot.
NotFound(e, p) == [e EXCEPT !.laddr = p, !.V = TRUE, !.R = FALSE]

\* The entry atc_set fills in.
Set(s, p, w) ==
  LET m == mem  rt == root[s]  l == LeafAt(m, rt, p) IN
  [laddr |-> p, V |-> TRUE, R |-> TRUE, G |-> m[l].G, S |-> m[l].S,
   W |-> WriteProtected(m, rt, p),
   M |-> m[l].M \/ (w /\ Acceptable(m, rt, s, p, w)),
   paddr |-> m[l].frame, pg_addr |-> l]

\* The slot after atc_search; an invalid page leaves it as it was.
Loaded(e, s, p, w) ==
  IF WalkEnd(mem, root[s], p) = "page" THEN Set(s, p, w)
  ELSE IF WalkEnd(mem, root[s], p) = "absent" THEN NotFound(e, p)
  ELSE e

\* The descriptors atc_search marks used, and the one it marks modified.
Used(s, p) ==
  LET m == mem  rt == root[s] IN
  {a \in {RootAt(rt, p)} : HasRoot(m, rt, p)}
  \cup {a \in {PtrAt(m, rt, p)} : HasPtr(m, rt, p)}
  \cup {a \in {LeafAt(m, rt, p)} : WalkEnd(m, rt, p) = "page"}

WalkModifies(s, p, w) ==
  {a \in {LeafAt(mem, root[s], p)} :
     /\ w
     /\ WalkEnd(mem, root[s], p) = "page"
     /\ Acceptable(mem, root[s], s, p, w)}

\* A first write through an entry marks its descriptor modified.
Modifies(e, s, w) ==
  e.R /\ w /\ ~e.W /\ ~e.M /\ ~(e.S /\ s = "user")

\* The entry ptest answers from, before it marks the page modified: c are the
\* caches to look in.
Searched(c, s, k, p, w) ==
  IF Hit(c, s, k, p) THEN c[<<s, k, Slot[p]>>] ELSE Loaded(c[<<s, k, Slot[p]>>], s, p, w)

BusFault(c, s, k, p) == ~Hit(c, s, k, p) /\ WalkEnd(mem, root[s], p) = "bus"

\* What ptest answers: B and R of the result.
PtestB(c, s, k, p) == Translated(s, k, p) /\ BusFault(c, s, k, p)
PtestR(c, s, k, p, w) ==
  IF TtrOf(s, k, p) # 0 THEN ~(w /\ ttr[k][TtrOf(s, k, p)].W)
  ELSE TCR_E => ~BusFault(c, s, k, p) /\ Searched(c, s, k, p, w).R

\* ptest_and_check lets the access through.
Granted(s, k, p, w) ==
  /\ PtestR(atc, s, k, p, w)
  /\ Translated(s, k, p) =>
       LET e == Searched(atc, s, k, p, w) IN
       ~(e.W /\ w) /\ ~(e.S /\ s = "user")

\* The tables with the descriptors in `used' marked used, those in `dirty'
\* marked modified.
WithUM(d, u, v) == [d EXCEPT !.U = u, !.M = v]
Marked(used, dirty) ==
  [a \in Addrs |->
     WithUM(mem[a], mem[a].U \/ a \in used, mem[a].M \/ a \in dirty)]

\* What ptest marks: all of a walk, or the page on the first write of an entry.
MarksUsed(c, s, k, p) == IF Hit(c, s, k, p) THEN {} ELSE Used(s, p)

EntryModifies(c, s, k, p, w) ==
  ~BusFault(c, s, k, p) /\ Modifies(Searched(c, s, k, p, w), s, w)

MarksModified(c, s, k, p, w) ==
  (IF Hit(c, s, k, p) THEN {} ELSE WalkModifies(s, p, w))
  \cup {a \in {Searched(c, s, k, p, w).pg_addr} : EntryModifies(c, s, k, p, w)}

\* The slot after ptest.
WithM(e, v) == [e EXCEPT !.M = v]
Answer(c, s, k, p, w) ==
  WithM(Searched(c, s, k, p, w),
        Searched(c, s, k, p, w).M \/ EntryModifies(c, s, k, p, w))

\* ptest's effect on the tables and the caches c.
Ptest(c, s, k, p, w) ==
  IF Translated(s, k, p)
  THEN /\ atc' = [c EXCEPT ![<<s, k, Slot[p]>>] = Answer(c, s, k, p, w)]
       /\ mem' = Marked(MarksUsed(c, s, k, p), MarksModified(c, s, k, p, w))
  ELSE atc' = c /\ mem' = mem

-----------------------------------------------------------------------------
(* The operations.                                                         *)

\* A load, a store, a locked load (w) or an instruction fetch.
Access(s, k, p, w) ==
  /\ k = "i" => ~w
  /\ Ptest(atc, s, k, p, w)
  /\ UNCHANGED <<root, TCR_E, ttr, stale, pinned>>

\* The space and cache a destination function code names.
DfcSpace(dfc) == IF dfc \in {1, 2} THEN "user" ELSE "sys"
DfcKind(dfc) == IF dfc \in {1, 5} THEN "d" ELSE "i"

Emptied(e) == [e EXCEPT !.V = FALSE]

\* op_ptest drops the slot, whatever page it holds, and walks again.
Dropped(s, k, p) ==
  [atc EXCEPT ![<<s, k, Slot[p]>>] = Emptied(atc[<<s, k, Slot[p]>>])]

OpPtest(dfc, p, w) ==
  /\ dfc \in {1, 2, 5, 6}
  /\ LET s == DfcSpace(dfc)  k == DfcKind(dfc) IN
     Ptest(Dropped(s, k, p), s, k, p, w)
  /\ UNCHANGED <<root, TCR_E, ttr, stale, pinned>>

\* The flushes always reach the supervisor's caches, and the user's too when
\* DFC is 1 or 2.
FlushedSpaces(dfc) == {"sys"} \cup (IF dfc \in {1, 2} THEN {"user"} ELSE {})

\* The cache positions a flush of page p examines.
Flushed(p, dfc) == FlushedSpaces(dfc) \X Kinds \X {Slot[p]}

Invalidate(positions, keepGlobal) ==
  atc' = [x \in DOMAIN atc |->
            IF x \in positions /\ ~(keepGlobal /\ atc[x].G)
            THEN Emptied(atc[x]) ELSE atc[x]]

\* The guest takes the flushed pages for refreshed; after PFLUSHN and PFLUSHAN
\* not those that were global or without a table.
Refresh(flushed, keepGlobal) ==
  LET done == IF keepGlobal THEN flushed \ pinned ELSE flushed IN
  stale' = stale \ done /\ pinned' = pinned \ done

Pflush(p, dfc, keepGlobal) ==
  /\ Invalidate({x \in Flushed(p, dfc) : atc[x].laddr = p}, keepGlobal)
  /\ Refresh(FlushedSpaces(dfc) \X {p}, keepGlobal)
  /\ UNCHANGED <<mem, root, TCR_E, ttr>>

PflushAll(dfc, keepGlobal) ==
  /\ Invalidate(FlushedSpaces(dfc) \X Kinds \X Slots, keepGlobal)
  /\ Refresh(FlushedSpaces(dfc) \X Pages, keepGlobal)
  /\ UNCHANGED <<mem, root, TCR_E, ttr>>

\* The descriptors a successful walk visits.
Path(m, rt, p) == {RootAt(rt, p), PtrAt(m, rt, p), LeafAt(m, rt, p)}

\* The tables m and n, from the roots rt and rn, say the same of page p, in
\* everything a cached entry depends on.
SameTr(m, rt, n, rn, p) ==
  /\ WalkEnd(m, rt, p) = WalkEnd(n, rn, p)
  /\ WalkEnd(m, rt, p) = "page" =>
       LET l == LeafAt(m, rt, p) IN
       /\ LeafAt(n, rn, p) = l
       /\ n[l].frame = m[l].frame
       /\ WriteProtected(n, rn, p) <=> WriteProtected(m, rt, p)
       /\ n[l].S = m[l].S /\ n[l].G = m[l].G /\ n[l].M = m[l].M
       /\ Path(n, rn, p) = Path(m, rt, p)
       /\ \A a \in Path(m, rt, p) : n[a].U = m[a].U

\* A flush that spares global entries may spare an entry loaded from this.
Spared(m, rt, p) ==
  \/ WalkEnd(m, rt, p) = "absent"
  \/ WalkEnd(m, rt, p) = "page" /\ m[LeafAt(m, rt, p)].G

\* An edit makes stale the pages of which the tables no longer say the same.
Restale(m, rt) ==
  LET changed == {x \in Spaces \X Pages :
                    ~SameTr(mem, root[x[1]], m, rt[x[1]], x[2])}
      kept == {x \in changed : Spared(mem, root[x[1]], x[2])
                                \/ Spared(m, rt[x[1]], x[2])}
  IN stale' = stale \cup changed /\ pinned' = pinned \cup kept

\* The guest stores a descriptor.
EditTable(a, d) ==
  /\ <<a, d>> \in Edits
  /\ mem' = [mem EXCEPT ![a] = d]
  /\ Restale([mem EXCEPT ![a] = d], root)
  /\ UNCHANGED <<atc, root, TCR_E, ttr>>

\* MOVEC to URP or SRP.
MovecRoot(s, t) ==
  /\ root' = [root EXCEPT ![s] = t]
  /\ Restale(mem, [root EXCEPT ![s] = t])
  /\ UNCHANGED <<mem, atc, TCR_E, ttr>>

\* MOVEC to TC.
MovecTcr(e) == TCR_E' = e /\ UNCHANGED <<mem, atc, root, ttr, stale, pinned>>

\* MOVEC to ITT0, ITT1, DTT0 or DTT1.
MovecTtr(k, n, x) ==
  /\ ttr' = [ttr EXCEPT ![k][n] = x]
  /\ UNCHANGED <<mem, atc, root, TCR_E, stale, pinned>>

Next ==
  \/ \E u \in Uses, p \in Pages, w \in BOOLEAN : Access(u[1], u[2], p, w)
  \/ \E dfc \in Dfcs, p \in Pages, w \in BOOLEAN : OpPtest(dfc, p, w)
  \/ \E dfc \in Dfcs, p \in Pages, n \in BOOLEAN : Pflush(p, dfc, n)
  \/ \E dfc \in Dfcs, n \in BOOLEAN : PflushAll(dfc, n)
  \/ \E x \in Edits : EditTable(x[1], x[2])
  \/ \E s \in Spaces, t \in Roots : MovecRoot(s, t)
  \/ \E e \in BOOLEAN : MovecTcr(e)
  \/ \E x \in TtrLoads : MovecTtr(x[1], x[2], x[3])

Spec == Init /\ [][Next]_vars

-----------------------------------------------------------------------------
(* Correctness.                                                            *)

TypeOK ==
  /\ mem \in [Addrs -> Desc]
  /\ atc \in [Spaces \X Kinds \X Slots -> Entry]
  /\ root \in [Spaces -> Tables]
  /\ TCR_E \in BOOLEAN
  /\ ttr \in [Kinds -> [1..2 -> Ttr]]
  /\ stale \subseteq Spaces \X Pages
  /\ pinned \subseteq stale

Fresh(s, p) == <<s, p>> \notin stale
Walk(s, p) == WalkEnd(mem, root[s], p)
Leaf(s, p) == LeafAt(mem, root[s], p)

\* The access is decided by the tables, none of which the guest has edited
\* without a flush, and they do not end in an invalid page (see
\* PtestSeesInvalid for those).
Settled(s, k, p) == Translated(s, k, p) /\ Fresh(s, p) /\ Walk(s, p) # "invalid"

\* A guest that flushes what it edits (PFLUSHN and PFLUSHAN not being enough
\* for global pages and for pages that had no table) gets for every access, in
\* both spaces and both caches, the answer and the frame of the tables as they
\* are now, although the slot is shared with other pages and atc_search leaves
\* parts of it behind (ptest, atc_search, pflush*_impl).
AccessAgrees ==
  \A s \in Spaces, k \in Kinds, p \in Pages, w \in BOOLEAN :
    Settled(s, k, p) =>
      /\ Granted(s, k, p, w)
           <=> Walk(s, p) = "page" /\ Acceptable(mem, root[s], s, p, w)
      /\ Granted(s, k, p, w) =>
           Searched(atc, s, k, p, w).paddr = mem[Leaf(s, p)].frame

\* An access through the caches marks as modified exactly the page it is
\* allowed to write, and leaves every table on its way marked as used, even
\* when the entry was loaded long before by a load (ptest's second half).
MarksExactly ==
  [][\A u \in Uses, p \in Pages, w \in BOOLEAN :
       Settled(u[1], u[2], p) /\ Access(u[1], u[2], p, w) =>
         LET ok == Walk(u[1], p) = "page" /\ Acceptable(mem, root[u[1]], u[1], p, w) IN
         /\ \A a \in Addrs :
              mem'[a].M <=> mem[a].M \/ (w /\ ok /\ a = Leaf(u[1], p))
         /\ ok => \A a \in Path(mem, root[u[1]], p) : mem'[a].U]_vars

\* PTEST answers from the tables as they are, flushed or not: it drops the slot
\* before it walks (op_ptest).
PtestSeesTables ==
  \A s \in Spaces, k \in Kinds, p \in Pages :
    Translated(s, k, p) /\ Walk(s, p) # "invalid" =>
      /\ PtestR(Dropped(s, k, p), s, k, p, FALSE) <=> Walk(s, p) = "page"
      /\ PtestB(Dropped(s, k, p), s, k, p) <=> Walk(s, p) = "bus"

\* PTEST reports a page whose descriptor is invalid as not resident (what
\* test/mmu/ptest.cc expects of R for X).
PtestSeesInvalid ==
  \A s \in Spaces, k \in Kinds, p \in Pages :
    Translated(s, k, p) /\ Walk(s, p) = "invalid" =>
      ~PtestR(Dropped(s, k, p), s, k, p, FALSE)

\* The entry says what the tables say; M may lag behind the descriptor.
Repeats(e, m, rt) ==
  LET p == e.laddr  l == LeafAt(m, rt, p) IN
  IF e.R
  THEN /\ WalkEnd(m, rt, p) = "page"
       /\ e.pg_addr = l /\ e.paddr = m[l].frame
       /\ e.S = m[l].S /\ e.G = m[l].G
       /\ e.W <=> WriteProtected(m, rt, p)
       /\ e.M => m[l].M
       /\ \A a \in Path(m, rt, p) : m[a].U
  ELSE WalkEnd(m, rt, p) = "absent"

\* A valid entry of space s is in the slot of its page; while the guest owes
\* no flush for it, it repeats the tables; and if a flush of the non-global
\* entries would spare it, the guest knows.
Sound(e, s, x) ==
  e.V =>
    /\ Slot[e.laddr] = x
    /\ Fresh(s, e.laddr) => Repeats(e, mem, root[s])
    /\ e.G /\ ~Fresh(s, e.laddr) => <<s, e.laddr>> \in pinned

\* The relation between the caches and the tables that makes the above true,
\* the fields atc_search leaves behind in a slot included (d_atc and i_atc).
Coherent ==
  /\ \A s \in Spaces, k \in Kinds, x \in Slots : Sound(atc[<<s, k, x>>], s, x)
  /\ \A s \in Spaces, p \in Pages :
       Spared(mem, root[s], p) /\ ~Fresh(s, p) => <<s, p>> \in pinned
=============================================================================
