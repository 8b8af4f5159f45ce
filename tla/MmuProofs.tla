----------------------------- MODULE MmuProofs ------------------------------
(***************************************************************************)
(* Proofs about Mmu: type correctness, the coherence of the caches with    *)
(* the tables (the inductive invariant), and what follows from it.         *)
(***************************************************************************)
EXTENDS Mmu, TLAPS

-----------------------------------------------------------------------------
(* The walk stays within the tables.                                       *)

\* Every descriptor address a walk computes is one (atc_search).
LEMMA WalkAddrs ==
  ASSUME NEW m \in [Addrs -> Desc], NEW rt \in Tables, NEW p \in Pages
  PROVE  /\ RootAt(rt, p) \in Addrs
         /\ PtrAt(m, rt, p) \in Addrs
         /\ PageAt(m, rt, p) \in Addrs
         /\ LeafAt(m, rt, p) \in Addrs
         /\ Path(m, rt, p) \subseteq Addrs
<1>1. RootAt(rt, p) \in Addrs
  BY MmuAssumption DEF RootAt, Addrs
<1>2. m[RootAt(rt, p)].addr \in Addrs
  BY <1>1 DEF Desc
<1>3. PtrAt(m, rt, p) \in Addrs
  BY <1>2, MmuAssumption DEF PtrAt, Addrs
<1>4. m[PtrAt(m, rt, p)].addr \in Addrs
  BY <1>3 DEF Desc
<1>5. PageAt(m, rt, p) \in Addrs
  BY <1>4, MmuAssumption DEF PageAt, Addrs
<1>6. LeafAt(m, rt, p) \in Addrs
  BY <1>5 DEF LeafAt, Desc
<1> QED BY <1>1, <1>3, <1>5, <1>6 DEF Path

\* A walk ends in one of four ways, and in a page only if every level is there.
LEMMA WalkEnds ==
  ASSUME NEW m, NEW rt, NEW p
  PROVE  /\ WalkEnd(m, rt, p) \in {"page", "absent", "invalid", "bus"}
         /\ WalkEnd(m, rt, p) = "page" => HasRoot(m, rt, p) /\ HasPtr(m, rt, p)
  BY DEF WalkEnd

\* The memories m and n differ at most in used and modified bits, and n has all
\* that m has.
Marks(m, n) ==
  \A a \in Addrs :
    /\ n[a].dt = m[a].dt /\ n[a].addr = m[a].addr /\ n[a].frame = m[a].frame
    /\ n[a].W = m[a].W /\ n[a].S = m[a].S /\ n[a].G = m[a].G
    /\ m[a].U => n[a].U
    /\ m[a].M => n[a].M

\* Marking descriptors does not change where a walk leads.
LEMMA MarkedWalk ==
  ASSUME NEW m \in [Addrs -> Desc], NEW n \in [Addrs -> Desc], Marks(m, n),
         NEW rt \in Tables, NEW p \in Pages
  PROVE  /\ PtrAt(n, rt, p) = PtrAt(m, rt, p)
         /\ PageAt(n, rt, p) = PageAt(m, rt, p)
         /\ LeafAt(n, rt, p) = LeafAt(m, rt, p)
         /\ Path(n, rt, p) = Path(m, rt, p)
         /\ WalkEnd(n, rt, p) = WalkEnd(m, rt, p)
         /\ WriteProtected(n, rt, p) <=> WriteProtected(m, rt, p)
         /\ Spared(n, rt, p) <=> Spared(m, rt, p)
<1>0. /\ RootAt(rt, p) \in Addrs /\ PtrAt(m, rt, p) \in Addrs
      /\ PageAt(m, rt, p) \in Addrs /\ LeafAt(m, rt, p) \in Addrs
  BY WalkAddrs
<1>1. PtrAt(n, rt, p) = PtrAt(m, rt, p)
  BY <1>0 DEF PtrAt, Marks
<1>2. PageAt(n, rt, p) = PageAt(m, rt, p)
  BY <1>0, <1>1 DEF PageAt, Marks
<1>3. LeafAt(n, rt, p) = LeafAt(m, rt, p)
  BY <1>0, <1>2 DEF LeafAt, Marks
<1>4. Path(n, rt, p) = Path(m, rt, p)
  BY <1>1, <1>3 DEF Path
<1>5. HasRoot(n, rt, p) <=> HasRoot(m, rt, p)
  BY <1>0 DEF HasRoot, Present, Marks
<1>6. HasPtr(n, rt, p) <=> HasPtr(m, rt, p)
  BY <1>0, <1>1, <1>5 DEF HasPtr, Present, Marks
<1>7. WalkEnd(n, rt, p) = WalkEnd(m, rt, p)
  <2>1. n[PageAt(m, rt, p)].dt = m[PageAt(m, rt, p)].dt
    BY <1>0 DEF Marks
  <2> QED BY <2>1, <1>1, <1>2, <1>3, <1>5, <1>6 DEF WalkEnd
<1>8. WriteProtected(n, rt, p) <=> WriteProtected(m, rt, p)
  BY <1>0, <1>1, <1>3 DEF WriteProtected, Marks
<1>9. Spared(n, rt, p) <=> Spared(m, rt, p)
  BY <1>0, <1>3, <1>7 DEF Spared, Marks
<1> QED BY <1>1, <1>2, <1>3, <1>4, <1>7, <1>8, <1>9

-----------------------------------------------------------------------------
(* Type correctness.                                                       *)

\* The entry ptest works with is an entry (atc_search, atc_set).
LEMMA SearchedType ==
  ASSUME TypeOK, NEW c \in [Spaces \X Kinds \X Slots -> Entry],
         NEW s \in Spaces, NEW k \in Kinds, NEW p \in Pages, NEW w \in BOOLEAN
  PROVE  Searched(c, s, k, p, w) \in Entry
<1> DEFINE e == c[<<s, k, Slot[p]>>]
           l == LeafAt(mem, root[s], p)
<1>1. Slot[p] \in Slots
  BY MmuAssumption
<1>2. e \in Entry
  BY <1>1
<1>3. l \in Addrs /\ mem[l] \in Desc
  BY WalkAddrs DEF TypeOK
<1>4. WriteProtected(mem, root[s], p) \in BOOLEAN
  BY DEF WriteProtected
<1>5. Acceptable(mem, root[s], s, p, w) \in BOOLEAN
  BY DEF Acceptable
<1>6. Set(s, p, w) \in Entry
  BY <1>3, <1>4, <1>5 DEF Set, Entry, Desc
<1>7. NotFound(e, p) \in Entry
  BY <1>2 DEF NotFound, Entry
<1> QED BY <1>2, <1>6, <1>7 DEF Searched, Loaded

\* A descriptor with other used and modified bits is a descriptor.
LEMMA WithUMDesc ==
  ASSUME NEW d \in Desc, NEW u \in BOOLEAN, NEW v \in BOOLEAN
  PROVE  /\ WithUM(d, u, v) \in Desc
         /\ WithUM(d, u, v).U = u /\ WithUM(d, u, v).M = v
         /\ WithUM(d, u, v).dt = d.dt /\ WithUM(d, u, v).addr = d.addr
         /\ WithUM(d, u, v).frame = d.frame /\ WithUM(d, u, v).W = d.W
         /\ WithUM(d, u, v).S = d.S /\ WithUM(d, u, v).G = d.G
  BY DEF Desc, WithUM

\* Marking keeps the tables tables, and marks.
LEMMA MarkedType ==
  ASSUME mem \in [Addrs -> Desc], NEW used, NEW dirty
  PROVE  /\ Marked(used, dirty) \in [Addrs -> Desc]
         /\ Marks(mem, Marked(used, dirty))
         /\ \A a \in Addrs : Marked(used, dirty)[a].U <=> mem[a].U \/ a \in used
         /\ \A a \in Addrs : Marked(used, dirty)[a].M <=> mem[a].M \/ a \in dirty
<1> DEFINE u(a) == mem[a].U \/ a \in used
           v(a) == mem[a].M \/ a \in dirty
<1>1. \A a \in Addrs : u(a) \in BOOLEAN /\ v(a) \in BOOLEAN /\ mem[a] \in Desc
  OBVIOUS
<1>2. Marked(used, dirty) = [a \in Addrs |-> WithUM(mem[a], u(a), v(a))]
  BY DEF Marked
<1>3. \A a \in Addrs : (mem[a].U => u(a)) /\ (mem[a].M => v(a))
  OBVIOUS
<1> HIDE DEF u, v
<1>4. \A a \in Addrs : Marked(used, dirty)[a] = WithUM(mem[a], u(a), v(a))
  BY <1>2
<1>5. Marked(used, dirty) \in [Addrs -> Desc]
  BY <1>1, <1>2, WithUMDesc
<1>6. \A a \in Addrs : Marked(used, dirty)[a].U = u(a)
                      /\ Marked(used, dirty)[a].M = v(a)
  BY <1>1, <1>4, WithUMDesc
<1>7. Marks(mem, Marked(used, dirty))
  BY <1>1, <1>3, <1>4, WithUMDesc DEF Marks
<1> QED BY <1>5, <1>6, <1>7 DEF u, v

\* The slot ptest writes back is an entry, that differs from the one it
\* answered from in M only.
LEMMA AnswerType ==
  ASSUME TypeOK, NEW c \in [Spaces \X Kinds \X Slots -> Entry],
         NEW s \in Spaces, NEW k \in Kinds, NEW p \in Pages, NEW w \in BOOLEAN
  PROVE  LET e == Searched(c, s, k, p, w)  f == Answer(c, s, k, p, w) IN
         /\ f \in Entry
         /\ f.laddr = e.laddr /\ f.V = e.V /\ f.R = e.R /\ f.G = e.G
         /\ f.S = e.S /\ f.W = e.W /\ f.paddr = e.paddr /\ f.pg_addr = e.pg_addr
         /\ f.M <=> e.M \/ EntryModifies(c, s, k, p, w)
<1> DEFINE e == Searched(c, s, k, p, w)
           v == e.M \/ EntryModifies(c, s, k, p, w)
<1>1. e \in Entry
  BY SearchedType
<1>2. v \in BOOLEAN
  OBVIOUS
<1>3. Answer(c, s, k, p, w) = WithM(e, v)
  BY DEF Answer
<1> HIDE DEF e, v
<1>4. /\ WithM(e, v) \in Entry /\ WithM(e, v).M = v
      /\ WithM(e, v).laddr = e.laddr /\ WithM(e, v).V = e.V
      /\ WithM(e, v).R = e.R /\ WithM(e, v).G = e.G /\ WithM(e, v).S = e.S
      /\ WithM(e, v).W = e.W /\ WithM(e, v).paddr = e.paddr
      /\ WithM(e, v).pg_addr = e.pg_addr
  BY <1>1, <1>2 DEF WithM, Entry
<1> QED BY <1>3, <1>4 DEF e, v

\* ptest leaves tables and caches well typed.
LEMMA PtestType ==
  ASSUME NEW c \in [Spaces \X Kinds \X Slots -> Entry],
         NEW s \in Spaces, NEW k \in Kinds, NEW p \in Pages, NEW w \in BOOLEAN
  PROVE  TypeOK /\ Ptest(c, s, k, p, w) =>
           /\ mem' \in [Addrs -> Desc]
           /\ atc' \in [Spaces \X Kinds \X Slots -> Entry]
<1> SUFFICES ASSUME TypeOK, Ptest(c, s, k, p, w)
             PROVE  /\ mem' \in [Addrs -> Desc]
                    /\ atc' \in [Spaces \X Kinds \X Slots -> Entry]
  OBVIOUS
<1>1. CASE ~Translated(s, k, p)
  BY <1>1 DEF Ptest, TypeOK
<1>2. CASE Translated(s, k, p)
  <2>1. atc' = [c EXCEPT ![<<s, k, Slot[p]>>] = Answer(c, s, k, p, w)]
    BY <1>2 DEF Ptest
  <2>2. Answer(c, s, k, p, w) \in Entry
    BY AnswerType
  <2>3. mem' = Marked(MarksUsed(c, s, k, p), MarksModified(c, s, k, p, w))
    BY <1>2 DEF Ptest
  <2>4. mem' \in [Addrs -> Desc]
    BY <2>3, MarkedType DEF TypeOK
  <2> QED BY <2>1, <2>2, <2>4
<1> QED BY <1>1, <1>2

\* Emptying a slot changes V only.
LEMMA EmptiedType ==
  ASSUME NEW e \in Entry
  PROVE  /\ Emptied(e) \in Entry /\ ~Emptied(e).V
         /\ Emptied(e).laddr = e.laddr /\ Emptied(e).G = e.G
  BY DEF Emptied, Entry

\* Dropping a slot leaves the caches well typed.
LEMMA DroppedType ==
  ASSUME TypeOK, NEW s \in Spaces, NEW k \in Kinds, NEW p \in Pages
  PROVE  /\ Dropped(s, k, p) \in [Spaces \X Kinds \X Slots -> Entry]
         /\ ~Dropped(s, k, p)[<<s, k, Slot[p]>>].V
         /\ \A y \in Spaces \X Kinds \X Slots :
              y # <<s, k, Slot[p]>> => Dropped(s, k, p)[y] = atc[y]
<1>1. <<s, k, Slot[p]>> \in Spaces \X Kinds \X Slots
  BY MmuAssumption
<1>2. atc[<<s, k, Slot[p]>>] \in Entry
  BY <1>1 DEF TypeOK
<1> QED BY <1>1, <1>2, EmptiedType DEF TypeOK, Dropped

\* Every operation keeps the state well typed.
LEMMA TypeStep == TypeOK /\ [Next]_vars => TypeOK'
<1> SUFFICES ASSUME TypeOK, [Next]_vars PROVE TypeOK'
  OBVIOUS
<1>1. ASSUME NEW u \in Uses, NEW p \in Pages, NEW w \in BOOLEAN,
             Access(u[1], u[2], p, w)
      PROVE  TypeOK'
  <2>1. u[1] \in Spaces /\ u[2] \in Kinds
    BY MmuAssumption
  <2>2. Ptest(atc, u[1], u[2], p, w) /\ UNCHANGED <<root, TCR_E, ttr, stale, pinned>>
    BY <1>1 DEF Access
  <2>3. mem' \in [Addrs -> Desc] /\ atc' \in [Spaces \X Kinds \X Slots -> Entry]
    <3> DEFINE s == u[1]  k == u[2]
    <3>1. s \in Spaces /\ k \in Kinds /\ Ptest(atc, s, k, p, w)
      BY <2>1, <2>2
    <3>2. atc \in [Spaces \X Kinds \X Slots -> Entry]
      BY DEF TypeOK
    <3> HIDE DEF s, k
    <3> QED BY <3>1, <3>2, PtestType
  <2> QED BY <2>2, <2>3 DEF TypeOK
<1>2. ASSUME NEW dfc \in Dfcs, NEW p \in Pages, NEW w \in BOOLEAN,
             OpPtest(dfc, p, w)
      PROVE  TypeOK'
  <2> DEFINE s == DfcSpace(dfc)  k == DfcKind(dfc)
  <2>1. s \in Spaces /\ k \in Kinds
    BY DEF DfcSpace, DfcKind, Spaces, Kinds
  <2>2. Ptest(Dropped(s, k, p), s, k, p, w)
        /\ UNCHANGED <<root, TCR_E, ttr, stale, pinned>>
    BY <1>2 DEF OpPtest
  <2>3. Dropped(s, k, p) \in [Spaces \X Kinds \X Slots -> Entry]
    BY <2>1, DroppedType
  <2> HIDE DEF s, k
  <2>4. mem' \in [Addrs -> Desc] /\ atc' \in [Spaces \X Kinds \X Slots -> Entry]
    BY <2>1, <2>2, <2>3, PtestType
  <2> QED BY <2>2, <2>4 DEF TypeOK
<1>3. ASSUME NEW positions, NEW flushed, NEW n, Invalidate(positions, n),
             Refresh(flushed, n), UNCHANGED <<mem, root, TCR_E, ttr>>
      PROVE  TypeOK'
  <2>1. \A x \in Spaces \X Kinds \X Slots : Emptied(atc[x]) \in Entry
    BY EmptiedType DEF TypeOK
  <2>2. atc' \in [Spaces \X Kinds \X Slots -> Entry]
    BY <1>3, <2>1 DEF Invalidate, TypeOK
  <2>3. stale' \subseteq Spaces \X Pages /\ pinned' \subseteq stale'
    BY <1>3 DEF Refresh, TypeOK
  <2> QED BY <1>3, <2>2, <2>3 DEF TypeOK
<1>4. ASSUME NEW m, NEW rt, Restale(m, rt)
      PROVE  stale' \subseteq Spaces \X Pages /\ pinned' \subseteq stale'
  BY <1>4 DEF Restale, TypeOK
<1>5. ASSUME NEW x \in Edits, EditTable(x[1], x[2]) PROVE TypeOK'
  <2>1. x[1] \in Addrs /\ x[2] \in Desc
    BY MmuAssumption
  <2>2. mem' \in [Addrs -> Desc]
    BY <1>5, <2>1 DEF EditTable, TypeOK
  <2>3. Restale([mem EXCEPT ![x[1]] = x[2]], root)
        /\ UNCHANGED <<atc, root, TCR_E, ttr>>
    BY <1>5 DEF EditTable
  <2> QED BY <1>4, <2>2, <2>3 DEF TypeOK
<1>6. ASSUME NEW s \in Spaces, NEW t \in Roots, MovecRoot(s, t) PROVE TypeOK'
  <2>1. root' \in [Spaces -> Tables]
    BY <1>6, MmuAssumption DEF MovecRoot, TypeOK
  <2>2. Restale(mem, [root EXCEPT ![s] = t]) /\ UNCHANGED <<mem, atc, TCR_E, ttr>>
    BY <1>6 DEF MovecRoot
  <2> QED BY <1>4, <2>1, <2>2 DEF TypeOK
<1>7. ASSUME NEW e \in BOOLEAN, MovecTcr(e) PROVE TypeOK'
  BY <1>7 DEF MovecTcr, TypeOK
<1>8. ASSUME NEW x \in TtrLoads, MovecTtr(x[1], x[2], x[3]) PROVE TypeOK'
  <2>1. x[1] \in Kinds /\ x[2] \in 1..2 /\ x[3] \in Ttr
    BY MmuAssumption
  <2>2. ttr' \in [Kinds -> [1..2 -> Ttr]]
    BY <1>8, <2>1 DEF MovecTtr, TypeOK
  <2> QED BY <1>8, <2>2 DEF MovecTtr, TypeOK
<1>9. CASE UNCHANGED vars
  BY <1>9 DEF vars, TypeOK
<1>10. ASSUME NEW dfc \in Dfcs, NEW p \in Pages, NEW n \in BOOLEAN, Pflush(p, dfc, n)
       PROVE  TypeOK'
  BY <1>3, <1>10 DEF Pflush
<1>11. ASSUME NEW dfc \in Dfcs, NEW n \in BOOLEAN, PflushAll(dfc, n) PROVE TypeOK'
  BY <1>3, <1>11 DEF PflushAll
<1> QED BY <1>1, <1>2, <1>5, <1>6, <1>7, <1>8, <1>9, <1>10, <1>11 DEF Next

\* The zeroed caches are well typed.
LEMMA TypeInit == Init => TypeOK
<1> SUFFICES ASSUME Init PROVE TypeOK
  OBVIOUS
<1>1. EmptyEntry \in Entry
  BY MmuAssumption DEF EmptyEntry, Entry, Addrs
<1>2. atc \in [Spaces \X Kinds \X Slots -> Entry]
  BY <1>1 DEF Init
<1>3. root \in [Spaces -> Tables] /\ mem \in [Addrs -> Desc]
  BY MmuAssumption DEF Init
<1>4. ttr \in [Kinds -> [1..2 -> Ttr]]
  <2>1. [E |-> FALSE, S |-> 0, W |-> FALSE, match |-> {}] \in Ttr
    BY DEF Ttr
  <2> QED BY <2>1 DEF Init
<1> QED BY <1>2, <1>3, <1>4 DEF Init, TypeOK

\* The state of the MMU stays well typed, whatever the guest does.
THEOREM TypeCorrect == Spec => []TypeOK
  BY TypeInit, TypeStep, PTL DEF Spec

-----------------------------------------------------------------------------
(* Coherence of the caches and the tables.                                 *)

\* Entries e and f differ at most in M and in V.
SamePage(e, f) ==
  /\ f.laddr = e.laddr /\ f.R = e.R /\ f.G = e.G /\ f.S = e.S /\ f.W = e.W
  /\ f.paddr = e.paddr /\ f.pg_addr = e.pg_addr

\* An entry still repeats the tables after descriptors are marked, with M set
\* where its own descriptor is marked modified.
LEMMA RepeatsMarked ==
  ASSUME NEW m \in [Addrs -> Desc], NEW n \in [Addrs -> Desc], Marks(m, n),
         NEW rt \in Tables, NEW e \in Entry, NEW f \in Entry, SamePage(e, f),
         f.M => e.M \/ n[e.pg_addr].M,
         Repeats(e, m, rt)
  PROVE  Repeats(f, n, rt)
<1> DEFINE p == e.laddr  l == LeafAt(m, rt, p)
<1>1. p \in Pages /\ e.pg_addr \in Addrs
  BY DEF Entry
<1>2. l \in Addrs /\ Path(m, rt, p) \subseteq Addrs
  BY <1>1, WalkAddrs
<1>3. /\ LeafAt(n, rt, p) = l
      /\ Path(n, rt, p) = Path(m, rt, p)
      /\ WalkEnd(n, rt, p) = WalkEnd(m, rt, p)
      /\ WriteProtected(n, rt, p) <=> WriteProtected(m, rt, p)
  BY <1>1, MarkedWalk
<1>4. CASE ~e.R
  <2>1. WalkEnd(m, rt, p) = "absent" /\ ~f.R
    BY <1>4 DEF Repeats, SamePage
  <2> QED BY <2>1, <1>3 DEF Repeats, SamePage
<1>5. CASE e.R
  <2>1. /\ WalkEnd(m, rt, p) = "page"
        /\ e.pg_addr = l /\ e.paddr = m[l].frame
        /\ e.S = m[l].S /\ e.G = m[l].G
        /\ e.W <=> WriteProtected(m, rt, p)
        /\ e.M => m[l].M
        /\ \A a \in Path(m, rt, p) : m[a].U
    BY <1>5 DEF Repeats
  <2>2. n[l].frame = m[l].frame /\ n[l].S = m[l].S /\ n[l].G = m[l].G
        /\ (m[l].M => n[l].M)
    BY <1>2 DEF Marks
  <2>3. \A a \in Path(m, rt, p) : n[a].U
    BY <1>2, <2>1 DEF Marks
  <2>4. f.M => n[l].M
    BY <2>1, <2>2
  <2>5. /\ f.laddr = p /\ f.R /\ f.pg_addr = l /\ f.paddr = n[l].frame
        /\ f.S = n[l].S /\ f.G = n[l].G
    BY <1>5, <2>1, <2>2 DEF SamePage
  <2>6. f.W <=> WriteProtected(n, rt, p)
    BY <1>3, <2>1 DEF SamePage
  <2> QED BY <1>3, <2>1, <2>3, <2>4, <2>5, <2>6 DEF Repeats
<1> QED BY <1>4, <1>5

\* An access changes at most the modified bit of the entry it is answered by.
LEMMA AnswerPage ==
  ASSUME TypeOK, NEW c \in [Spaces \X Kinds \X Slots -> Entry],
         NEW s \in Spaces, NEW k \in Kinds, NEW p \in Pages, NEW w \in BOOLEAN
  PROVE  /\ Searched(c, s, k, p, w) \in Entry
         /\ Answer(c, s, k, p, w) \in Entry
         /\ SamePage(Searched(c, s, k, p, w), Answer(c, s, k, p, w))
         /\ Answer(c, s, k, p, w).M
              <=> Searched(c, s, k, p, w).M \/ EntryModifies(c, s, k, p, w)
<1>1. Searched(c, s, k, p, w) \in Entry
  BY SearchedType
<1> DEFINE e == Searched(c, s, k, p, w)
           v == e.M \/ EntryModifies(c, s, k, p, w)
<1>2. e \in Entry /\ v \in BOOLEAN
  BY <1>1
<1>3. Answer(c, s, k, p, w) = WithM(e, v)
  BY DEF Answer
<1> HIDE DEF e, v
<1>4. /\ WithM(e, v) \in Entry /\ WithM(e, v).M = v
      /\ SamePage(e, WithM(e, v))
  BY <1>2 DEF WithM, Entry, SamePage
<1>5. /\ e \in Entry /\ Answer(c, s, k, p, w) \in Entry
      /\ SamePage(e, Answer(c, s, k, p, w))
      /\ Answer(c, s, k, p, w).M <=> v
  BY <1>2, <1>3, <1>4
<1> QED BY <1>5, Zenon DEF e, v

\* What a walk of the tables leaves in the slot repeats the marked tables.
LEMMA LoadedRepeats ==
  ASSUME TypeOK, NEW c \in [Spaces \X Kinds \X Slots -> Entry],
         NEW s \in Spaces, NEW k \in Kinds, NEW p \in Pages, NEW w \in BOOLEAN,
         ~Hit(c, s, k, p), WalkEnd(mem, root[s], p) \in {"page", "absent"}
  PROVE  LET n == Marked(MarksUsed(c, s, k, p), MarksModified(c, s, k, p, w)) IN
         /\ Repeats(Answer(c, s, k, p, w), n, root[s])
         /\ Answer(c, s, k, p, w).laddr = p
         /\ Spared(mem, root[s], p) \/ ~Answer(c, s, k, p, w).G
<1> DEFINE e == Searched(c, s, k, p, w)  f == Answer(c, s, k, p, w)
           rt == root[s]  l == LeafAt(mem, rt, p)
           used == MarksUsed(c, s, k, p)  dirty == MarksModified(c, s, k, p, w)
           n == Marked(used, dirty)  old == c[<<s, k, Slot[p]>>]
<1>1. /\ rt \in Tables /\ mem \in [Addrs -> Desc]
      /\ <<s, k, Slot[p]>> \in Spaces \X Kinds \X Slots
  BY MmuAssumption DEF TypeOK
<1>2. /\ e \in Entry /\ f \in Entry /\ SamePage(e, f)
      /\ f.M <=> e.M \/ EntryModifies(c, s, k, p, w)
  BY AnswerPage, Zenon
<1>3. /\ n \in [Addrs -> Desc] /\ Marks(mem, n)
      /\ \A a \in Addrs : n[a].U <=> mem[a].U \/ a \in used
      /\ \A a \in Addrs : n[a].M <=> mem[a].M \/ a \in dirty
  BY <1>1, MarkedType
<1>4. /\ LeafAt(n, rt, p) = l /\ Path(n, rt, p) = Path(mem, rt, p)
      /\ WalkEnd(n, rt, p) = WalkEnd(mem, rt, p)
      /\ WriteProtected(n, rt, p) <=> WriteProtected(mem, rt, p)
  BY <1>1, <1>3, MarkedWalk
<1>5. l \in Addrs /\ Path(mem, rt, p) \subseteq Addrs
  BY <1>1, WalkAddrs
<1>6. CASE WalkEnd(mem, rt, p) = "absent"
  <2>1. e = NotFound(old, p)
    BY <1>6 DEF Searched, Loaded
  <2>2. old \in Entry
    BY <1>1
  <2>3. e.laddr = p /\ ~e.R
    BY <2>1, <2>2 DEF NotFound, Entry
  <2>4. f.laddr = p /\ ~f.R
    BY <1>2, <2>3 DEF SamePage
  <2> QED BY <1>4, <1>6, <2>4 DEF Repeats, Spared
<1>7. CASE WalkEnd(mem, rt, p) = "page"
  <2>1. e = Set(s, p, w)
    BY <1>7 DEF Searched, Loaded
  <2>2. /\ e.laddr = p /\ e.R /\ e.G = mem[l].G /\ e.S = mem[l].S
        /\ e.paddr = mem[l].frame /\ e.pg_addr = l
        /\ e.W = WriteProtected(mem, rt, p)
        /\ e.M = (mem[l].M \/ (w /\ Acceptable(mem, rt, s, p, w)))
    BY <2>1 DEF Set
  <2>3. e.M \/ EntryModifies(c, s, k, p, w) => mem[l].M \/ l \in dirty
    BY <1>7, <2>2 DEF MarksModified, WalkModifies
  <2>4. f.M => n[l].M
    BY <1>2, <1>3, <1>5, <2>3
  <2>5. HasRoot(mem, rt, p) /\ HasPtr(mem, rt, p)
    BY <1>7, WalkEnds
  <2>6. \A a \in Path(mem, rt, p) : n[a].U
    BY <1>3, <1>5, <1>7, <2>5 DEF Path, MarksUsed, Used
  <2>7. n[l].frame = mem[l].frame /\ n[l].S = mem[l].S /\ n[l].G = mem[l].G
    BY <1>3, <1>5 DEF Marks
  <2>8. /\ f.laddr = p /\ f.R /\ f.G = n[l].G /\ f.S = n[l].S
        /\ f.paddr = n[l].frame /\ f.pg_addr = l
    BY <1>2, <2>2, <2>7 DEF SamePage
  <2>9. f.W <=> WriteProtected(n, rt, p)
    BY <1>2, <1>4, <2>2 DEF SamePage, WriteProtected
  <2>10. Repeats(f, n, rt)
    BY <1>4, <1>7, <2>4, <2>6, <2>8, <2>9 DEF Repeats
  <2>11. Spared(mem, rt, p) \/ ~f.G
    BY <1>7, <2>7, <2>8 DEF Spared
  <2> QED BY <2>8, <2>10, <2>11
<1> QED BY <1>6, <1>7

\* ptest keeps caches that are sound coherent.
LEMMA PtestCoherent ==
  ASSUME NEW c \in [Spaces \X Kinds \X Slots -> Entry],
         NEW s \in Spaces, NEW k \in Kinds, NEW p \in Pages, NEW w \in BOOLEAN
  PROVE  /\ TypeOK /\ Coherent /\ Ptest(c, s, k, p, w)
         /\ \A t \in Spaces, j \in Kinds, x \in Slots : Sound(c[<<t, j, x>>], t, x)
         /\ UNCHANGED <<root, stale, pinned>>
         => Coherent'
<1> SUFFICES ASSUME TypeOK, Coherent, Ptest(c, s, k, p, w),
                    \A t \in Spaces, j \in Kinds, x \in Slots :
                      Sound(c[<<t, j, x>>], t, x),
                    UNCHANGED <<root, stale, pinned>>
             PROVE  Coherent'
  OBVIOUS
<1>0. mem' \in [Addrs -> Desc] /\ atc' \in [Spaces \X Kinds \X Slots -> Entry]
  BY PtestType
<1>1. /\ mem \in [Addrs -> Desc] /\ mem' \in [Addrs -> Desc]
      /\ atc' \in [Spaces \X Kinds \X Slots -> Entry]
      /\ Slot[p] \in Slots /\ \A t \in Spaces : root[t] \in Tables
  BY <1>0, MmuAssumption DEF TypeOK
<1>2. Marks(mem, mem')
  <2>1. CASE Translated(s, k, p)
    BY <2>1, <1>1, MarkedType DEF Ptest
  <2>2. CASE ~Translated(s, k, p)
    BY <2>2 DEF Ptest, Marks
  <2> QED BY <2>1, <2>2
<1>3. \A t \in Spaces, q \in Pages :
        Spared(mem', root'[t], q) /\ ~Fresh(t, q)' => <<t, q>> \in pinned'
  <2> SUFFICES ASSUME NEW t \in Spaces, NEW q \in Pages,
                      Spared(mem', root[t], q), ~Fresh(t, q)
               PROVE  <<t, q>> \in pinned
    BY DEF Fresh
  <2>1. Spared(mem, root[t], q)
    BY <1>1, <1>2, MarkedWalk
  <2> QED BY <2>1 DEF Coherent
<1> DEFINE g == Answer(c, s, k, p, w)
           n == Marked(MarksUsed(c, s, k, p), MarksModified(c, s, k, p, w))
<1>4. g.V => /\ Slot[g.laddr] = Slot[p]
             /\ Fresh(s, g.laddr) => Repeats(g, n, root[s])
             /\ g.G /\ ~Fresh(s, g.laddr) => <<s, g.laddr>> \in pinned
  <2> SUFFICES ASSUME g.V
               PROVE  /\ Slot[g.laddr] = Slot[p]
                      /\ Fresh(s, g.laddr) => Repeats(g, n, root[s])
                      /\ g.G /\ ~Fresh(s, g.laddr) => <<s, g.laddr>> \in pinned
    OBVIOUS
  <2>1. Sound(c[<<s, k, Slot[p]>>], s, Slot[p])
    BY <1>1
  <2>2. Spared(mem, root[s], p) /\ ~Fresh(s, p) => <<s, p>> \in pinned
    BY DEF Coherent
  <2> DEFINE e == Searched(c, s, k, p, w)  old == c[<<s, k, Slot[p]>>]
             dirty == MarksModified(c, s, k, p, w)
  <2>3. /\ root[s] \in Tables /\ mem \in [Addrs -> Desc]
        /\ <<s, k, Slot[p]>> \in Spaces \X Kinds \X Slots
    BY MmuAssumption DEF TypeOK
  <2>4. CASE ~Hit(c, s, k, p) /\ WalkEnd(mem, root[s], p) \in {"page", "absent"}
    BY <2>2, <2>4, LoadedRepeats
  <2>5. CASE ~(~Hit(c, s, k, p) /\ WalkEnd(mem, root[s], p) \in {"page", "absent"})
    <3>1. e = old
      BY <2>5 DEF Searched, Loaded
    <3>2. /\ e \in Entry /\ g \in Entry /\ SamePage(e, g) /\ g.V = e.V
          /\ g.M <=> e.M \/ EntryModifies(c, s, k, p, w)
      <4>1. e \in Entry
        BY SearchedType
      <4>2. /\ g \in Entry /\ g.V = e.V /\ g.laddr = e.laddr /\ g.R = e.R
            /\ g.G = e.G /\ g.S = e.S /\ g.W = e.W /\ g.paddr = e.paddr
            /\ g.pg_addr = e.pg_addr
            /\ g.M <=> e.M \/ EntryModifies(c, s, k, p, w)
        BY AnswerType
      <4> HIDE DEF e, g
      <4> QED BY <4>1, <4>2 DEF SamePage
    <3>3. e.V /\ g.laddr = e.laddr /\ g.G = e.G
      BY <3>2 DEF SamePage
    <3>4. /\ Slot[e.laddr] = Slot[p]
          /\ Fresh(s, e.laddr) => Repeats(e, mem, root[s])
          /\ e.G /\ ~Fresh(s, e.laddr) => <<s, e.laddr>> \in pinned
      BY <2>1, <3>1, <3>3 DEF Sound
    <3>5. /\ n \in [Addrs -> Desc] /\ Marks(mem, n)
          /\ \A a \in Addrs : n[a].M <=> mem[a].M \/ a \in dirty
      BY <2>3, MarkedType
    <3>6. e.pg_addr \in Addrs
      BY <3>2 DEF Entry
    <3>7. EntryModifies(c, s, k, p, w) => n[e.pg_addr].M
      BY <3>5, <3>6 DEF MarksModified
    <3>8. Repeats(e, mem, root[s]) => Repeats(g, n, root[s])
      BY <2>3, <3>2, <3>5, <3>7, RepeatsMarked
    <3> QED BY <3>3, <3>4, <3>8
  <2> QED BY <2>4, <2>5
<1>5. ASSUME NEW t \in Spaces, NEW j \in Kinds, NEW x \in Slots
      PROVE  Sound(atc[<<t, j, x>>], t, x)'
  <2> DEFINE f == atc'[<<t, j, x>>]  e == c[<<t, j, x>>]
  <2> SUFFICES ASSUME f.V
               PROVE  /\ Slot[f.laddr] = x
                      /\ Fresh(t, f.laddr) => Repeats(f, mem', root[t])
                      /\ f.G /\ ~Fresh(t, f.laddr) => <<t, f.laddr>> \in pinned
    BY DEF Sound, Fresh
  <2>1. CASE Translated(s, k, p) /\ <<t, j, x>> = <<s, k, Slot[p]>>
    <3>1. f = Answer(c, s, k, p, w)
      BY <2>1, <1>1 DEF Ptest
    <3>2. mem' = Marked(MarksUsed(c, s, k, p), MarksModified(c, s, k, p, w))
      BY <2>1 DEF Ptest
    <3>3. t = s /\ x = Slot[p]
      BY <2>1
    <3>4. f = g /\ mem' = n
      BY <3>1, <3>2
    <3> HIDE DEF f, g, n
    <3> QED BY <1>4, <3>3, <3>4
  <2>2. CASE ~(Translated(s, k, p) /\ <<t, j, x>> = <<s, k, Slot[p]>>)
    <3>1. f = e
      BY <2>2, <1>1 DEF Ptest
    <3>2. Sound(e, t, x)
      OBVIOUS
    <3>3. e \in Entry
      OBVIOUS
    <3>4. Repeats(e, mem, root[t]) => Repeats(e, mem', root[t])
      BY <1>1, <1>2, <3>3, RepeatsMarked DEF SamePage
    <3> QED BY <3>1, <3>2, <3>4 DEF Sound
  <2> QED BY <2>1, <2>2
<1> QED BY <1>3, <1>5 DEF Coherent

\* A flush that examines every slot a page of the flushed ones may be in, and
\* empties it unless it may spare it, keeps the caches coherent: what it spares
\* is not taken for refreshed.
LEMMA FlushCoherent ==
  ASSUME NEW positions, NEW flushed, NEW keepGlobal \in BOOLEAN
  PROVE  /\ TypeOK /\ Coherent
         /\ Invalidate(positions, keepGlobal) /\ Refresh(flushed, keepGlobal)
         /\ UNCHANGED <<mem, root>>
         /\ \A s \in Spaces, k \in Kinds, x \in Slots :
              LET e == atc[<<s, k, x>>] IN
              <<s, e.laddr>> \in flushed /\ x = Slot[e.laddr]
                => <<s, k, x>> \in positions
         => Coherent'
<1> SUFFICES ASSUME TypeOK, Coherent,
                    Invalidate(positions, keepGlobal), Refresh(flushed, keepGlobal),
                    UNCHANGED <<mem, root>>,
                    \A s \in Spaces, k \in Kinds, x \in Slots :
                      LET e == atc[<<s, k, x>>] IN
                      <<s, e.laddr>> \in flushed /\ x = Slot[e.laddr]
                        => <<s, k, x>> \in positions
             PROVE  Coherent'
  OBVIOUS
<1> DEFINE done == IF keepGlobal THEN flushed \ pinned ELSE flushed
<1>1. stale' = stale \ done /\ pinned' = pinned \ done
  BY DEF Refresh
<1>2. \A s \in Spaces, p \in Pages :
        Spared(mem', root'[s], p) /\ ~Fresh(s, p)' => <<s, p>> \in pinned'
  <2> SUFFICES ASSUME NEW s \in Spaces, NEW p \in Pages,
                      Spared(mem, root[s], p), <<s, p>> \in stale \ done
               PROVE  <<s, p>> \in pinned \ done
    BY <1>1 DEF Fresh
  <2>1. <<s, p>> \in pinned
    BY DEF Coherent, Fresh
  <2> QED BY <2>1
<1>3. ASSUME NEW s \in Spaces, NEW k \in Kinds, NEW x \in Slots
      PROVE  Sound(atc[<<s, k, x>>], s, x)'
  <2> DEFINE y == <<s, k, x>>  e == atc[y]  f == atc'[y]
             cleared == y \in positions /\ ~(keepGlobal /\ e.G)
  <2>1. y \in DOMAIN atc /\ e \in Entry
    BY DEF TypeOK
  <2>2. f = IF cleared THEN Emptied(e) ELSE e
    BY <2>1 DEF Invalidate
  <2>3. CASE cleared
    <3>1. ~f.V
      BY <2>1, <2>2, <2>3, EmptiedType
    <3> QED BY <3>1 DEF Sound
  <2>4. CASE ~cleared
    <3>1. f = e
      BY <2>2, <2>4
    <3> SUFFICES ASSUME e.V
                 PROVE  /\ Slot[e.laddr] = x
                        /\ <<s, e.laddr>> \notin stale \ done
                             => Repeats(e, mem, root[s])
                        /\ e.G /\ <<s, e.laddr>> \in stale \ done
                             => <<s, e.laddr>> \in pinned \ done
      BY <1>1, <3>1 DEF Sound, Fresh
    <3>2. /\ Slot[e.laddr] = x
          /\ <<s, e.laddr>> \notin stale => Repeats(e, mem, root[s])
          /\ e.G /\ <<s, e.laddr>> \in stale => <<s, e.laddr>> \in pinned
      BY DEF Coherent, Sound, Fresh
    <3>3. <<s, e.laddr>> \in flushed => y \in positions
      BY <3>2
    <3>4. <<s, e.laddr>> \in stale => <<s, e.laddr>> \notin done
      BY <2>4, <3>2, <3>3
    <3> HIDE DEF e, done
    <3> QED BY <3>2, <3>4
  <2> QED BY <2>3, <2>4
<1> QED BY <1>2, <1>3 DEF Coherent

\* The tables say the same of a page: its entries repeat both.
LEMMA SameRepeats ==
  ASSUME NEW m, NEW rt, NEW n, NEW rn, NEW e, SameTr(m, rt, n, rn, e.laddr),
         Repeats(e, m, rt)
  PROVE  Repeats(e, n, rn)
<1> DEFINE p == e.laddr  l == LeafAt(m, rt, p)
<1>1. CASE ~e.R
  BY <1>1 DEF Repeats, SameTr
<1>2. CASE e.R
  <2>1. /\ WalkEnd(m, rt, p) = "page"
        /\ e.pg_addr = l /\ e.paddr = m[l].frame
        /\ e.S = m[l].S /\ e.G = m[l].G
        /\ e.W <=> WriteProtected(m, rt, p)
        /\ e.M => m[l].M
        /\ \A a \in Path(m, rt, p) : m[a].U
    BY <1>2 DEF Repeats
  <2>2. /\ WalkEnd(n, rn, p) = "page" /\ LeafAt(n, rn, p) = l
        /\ n[l].frame = m[l].frame
        /\ WriteProtected(n, rn, p) <=> WriteProtected(m, rt, p)
        /\ n[l].S = m[l].S /\ n[l].G = m[l].G /\ n[l].M = m[l].M
        /\ Path(n, rn, p) = Path(m, rt, p)
        /\ \A a \in Path(m, rt, p) : n[a].U = m[a].U
    BY <2>1 DEF SameTr
  <2> QED BY <1>2, <2>1, <2>2 DEF Repeats
<1> QED BY <1>1, <1>2

\* An edit of the tables or of a root keeps the caches coherent: the pages it
\* changes are stale.
LEMMA RestaleCoherent ==
  ASSUME TypeOK, Coherent, Restale(mem', root'), atc' = atc
  PROVE  Coherent'
<1> DEFINE changed == {x \in Spaces \X Pages :
                         ~SameTr(mem, root[x[1]], mem', root'[x[1]], x[2])}
           kept == {x \in changed : Spared(mem, root[x[1]], x[2])
                                     \/ Spared(mem', root'[x[1]], x[2])}
<1>1. stale' = stale \cup changed /\ pinned' = pinned \cup kept
  BY DEF Restale
<1>2. \A s \in Spaces, p \in Pages :
        Spared(mem', root'[s], p) /\ ~Fresh(s, p)' => <<s, p>> \in pinned'
  <2> SUFFICES ASSUME NEW s \in Spaces, NEW p \in Pages,
                      Spared(mem', root'[s], p), <<s, p>> \in stale \cup changed
               PROVE  <<s, p>> \in pinned \cup kept
    BY <1>1 DEF Fresh
  <2>1. CASE <<s, p>> \in changed
    BY <2>1
  <2>2. CASE <<s, p>> \notin changed
    <3>1. SameTr(mem, root[s], mem', root'[s], p)
      BY <2>2
    <3>2. Spared(mem, root[s], p)
      BY <3>1 DEF SameTr, Spared
    <3> QED BY <2>2, <3>2 DEF Coherent, Fresh
  <2> QED BY <2>1, <2>2
<1>3. ASSUME NEW s \in Spaces, NEW k \in Kinds, NEW x \in Slots
      PROVE  Sound(atc[<<s, k, x>>], s, x)'
  <2> DEFINE e == atc[<<s, k, x>>]  p == e.laddr
  <2> SUFFICES ASSUME e.V
               PROVE  /\ Slot[p] = x
                      /\ <<s, p>> \notin stale \cup changed
                           => Repeats(e, mem', root'[s])
                      /\ e.G /\ <<s, p>> \in stale \cup changed
                           => <<s, p>> \in pinned \cup kept
    BY <1>1 DEF Sound, Fresh
  <2>1. e \in Entry
    BY DEF TypeOK
  <2>2. p \in Pages
    BY <2>1 DEF Entry
  <2>3. /\ Slot[p] = x
        /\ <<s, p>> \notin stale => Repeats(e, mem, root[s])
        /\ e.G /\ <<s, p>> \in stale => <<s, p>> \in pinned
    BY DEF Coherent, Sound, Fresh
  <2>4. <<s, p>> \notin stale \cup changed => Repeats(e, mem', root'[s])
    <3> SUFFICES ASSUME <<s, p>> \notin stale, <<s, p>> \notin changed
                 PROVE  Repeats(e, mem', root'[s])
      OBVIOUS
    <3>1. SameTr(mem, root[s], mem', root'[s], p)
      BY <2>2
    <3> QED BY <2>3, <3>1, SameRepeats
  <2>5. <<s, p>> \notin stale /\ <<s, p>> \in changed /\ e.G => <<s, p>> \in kept
    <3> SUFFICES ASSUME <<s, p>> \notin stale, <<s, p>> \in changed, e.G
                 PROVE  <<s, p>> \in kept
      OBVIOUS
    <3>1. Repeats(e, mem, root[s])
      BY <2>3
    <3>2. Spared(mem, root[s], p)
      BY <3>1 DEF Repeats, Spared
    <3> QED BY <3>2
  <2> HIDE DEF e, p, changed, kept
  <2> QED BY <2>3, <2>4, <2>5
<1> QED BY <1>2, <1>3 DEF Coherent

\* Every operation keeps the caches coherent.
LEMMA CoherentStep == TypeOK /\ Coherent /\ [Next]_vars => Coherent'
<1> SUFFICES ASSUME TypeOK, Coherent, [Next]_vars PROVE Coherent'
  OBVIOUS
<1>1. atc \in [Spaces \X Kinds \X Slots -> Entry]
  BY DEF TypeOK
<1>2. \A t \in Spaces, j \in Kinds, x \in Slots : Sound(atc[<<t, j, x>>], t, x)
  BY DEF Coherent
<1>3. ASSUME NEW u \in Uses, NEW p \in Pages, NEW w \in BOOLEAN,
             Access(u[1], u[2], p, w)
      PROVE  Coherent'
  <2> DEFINE s == u[1]  k == u[2]
  <2>1. s \in Spaces /\ k \in Kinds
    BY MmuAssumption
  <2>2. Ptest(atc, s, k, p, w) /\ UNCHANGED <<root, stale, pinned>>
    BY <1>3 DEF Access
  <2> HIDE DEF s, k
  <2> QED BY <1>1, <1>2, <2>1, <2>2, PtestCoherent
<1>4. ASSUME NEW dfc \in Dfcs, NEW p \in Pages, NEW w \in BOOLEAN,
             OpPtest(dfc, p, w)
      PROVE  Coherent'
  <2> DEFINE s == DfcSpace(dfc)  k == DfcKind(dfc)  c == Dropped(s, k, p)
  <2>1. s \in Spaces /\ k \in Kinds
    BY DEF DfcSpace, DfcKind, Spaces, Kinds
  <2>2. Ptest(c, s, k, p, w) /\ UNCHANGED <<root, stale, pinned>>
    BY <1>4 DEF OpPtest
  <2> HIDE DEF s, k
  <2>3. /\ c \in [Spaces \X Kinds \X Slots -> Entry]
        /\ ~c[<<s, k, Slot[p]>>].V
        /\ \A y \in Spaces \X Kinds \X Slots :
             y # <<s, k, Slot[p]>> => c[y] = atc[y]
    BY <2>1, DroppedType
  <2> HIDE DEF c
  <2>4. \A t \in Spaces, j \in Kinds, x \in Slots : Sound(c[<<t, j, x>>], t, x)
    <3> SUFFICES ASSUME NEW t \in Spaces, NEW j \in Kinds, NEW x \in Slots
                 PROVE  Sound(c[<<t, j, x>>], t, x)
      OBVIOUS
    <3>1. CASE <<t, j, x>> = <<s, k, Slot[p]>>
      BY <2>3, <3>1 DEF Sound
    <3>2. CASE <<t, j, x>> # <<s, k, Slot[p]>>
      BY <1>2, <2>3, <3>2
    <3> QED BY <3>1, <3>2
  <2> QED BY <2>1, <2>2, <2>3, <2>4, PtestCoherent
<1>5. ASSUME NEW dfc \in Dfcs, NEW p \in Pages, NEW n \in BOOLEAN, Pflush(p, dfc, n)
      PROVE  Coherent'
  <2> DEFINE positions == {x \in Flushed(p, dfc) : atc[x].laddr = p}
             flushed == FlushedSpaces(dfc) \X {p}
  <2>1. Invalidate(positions, n) /\ Refresh(flushed, n) /\ UNCHANGED <<mem, root>>
    BY <1>5 DEF Pflush
  <2>2. \A s \in Spaces, k \in Kinds, x \in Slots :
          LET e == atc[<<s, k, x>>] IN
          <<s, e.laddr>> \in flushed /\ x = Slot[e.laddr] => <<s, k, x>> \in positions
    BY DEF Flushed
  <2> HIDE DEF positions, flushed
  <2> QED BY <2>1, <2>2, FlushCoherent
<1>6. ASSUME NEW dfc \in Dfcs, NEW n \in BOOLEAN, PflushAll(dfc, n)
      PROVE  Coherent'
  <2> DEFINE positions == FlushedSpaces(dfc) \X Kinds \X Slots
             flushed == FlushedSpaces(dfc) \X Pages
  <2>1. Invalidate(positions, n) /\ Refresh(flushed, n) /\ UNCHANGED <<mem, root>>
    BY <1>6 DEF PflushAll
  <2>2. \A s \in Spaces, k \in Kinds, x \in Slots :
          LET e == atc[<<s, k, x>>] IN
          <<s, e.laddr>> \in flushed /\ x = Slot[e.laddr] => <<s, k, x>> \in positions
    OBVIOUS
  <2> HIDE DEF positions, flushed
  <2> QED BY <2>1, <2>2, FlushCoherent
<1>7. ASSUME NEW x \in Edits, EditTable(x[1], x[2]) PROVE Coherent'
  <2>1. Restale(mem', root') /\ atc' = atc
    BY <1>7 DEF EditTable
  <2> QED BY <2>1, RestaleCoherent
<1>8. ASSUME NEW s \in Spaces, NEW t \in Roots, MovecRoot(s, t) PROVE Coherent'
  <2>1. Restale(mem', root') /\ atc' = atc
    BY <1>8 DEF MovecRoot
  <2> QED BY <2>1, RestaleCoherent
<1>9. ASSUME UNCHANGED <<mem, atc, root, stale, pinned>> PROVE Coherent'
  BY <1>9 DEF Coherent, Sound, Fresh
<1>10. ASSUME NEW e \in BOOLEAN, MovecTcr(e) PROVE Coherent'
  BY <1>9, <1>10 DEF MovecTcr
<1>11. ASSUME NEW x \in TtrLoads, MovecTtr(x[1], x[2], x[3]) PROVE Coherent'
  BY <1>9, <1>11 DEF MovecTtr
<1>12. CASE UNCHANGED vars
  BY <1>9, <1>12 DEF vars
<1> QED BY <1>3, <1>4, <1>5, <1>6, <1>7, <1>8, <1>10, <1>11, <1>12 DEF Next

\* The zeroed caches hold nothing.
LEMMA CoherentInit == Init => Coherent
<1>1. ~EmptyEntry.V
  BY DEF EmptyEntry
<1> QED BY <1>1 DEF Init, Coherent, Sound, Fresh

\* Whatever the guest does, and in every order, a valid entry is in the slot of
\* its page, repeats the tables while the guest owes no flush for the page, and
\* is known to the guest if PFLUSHN would spare it (d_atc and i_atc).
THEOREM Coherence == Spec => []Coherent
  BY CoherentInit, TypeInit, TypeStep, CoherentStep, PTL DEF Spec

-----------------------------------------------------------------------------
(* What follows from coherence.                                            *)

\* For a settled access ptest answers from what the tables say now.
LEMMA SettledEntry ==
  ASSUME TypeOK, Coherent, NEW s \in Spaces, NEW k \in Kinds, NEW p \in Pages,
         NEW w \in BOOLEAN, Settled(s, k, p)
  PROVE  LET e == Searched(atc, s, k, p, w)  l == LeafAt(mem, root[s], p) IN
         /\ Walk(s, p) = "page" =>
              /\ ~BusFault(atc, s, k, p)
              /\ e.R /\ e.paddr = mem[l].frame /\ e.pg_addr = l
              /\ e.W <=> WriteProtected(mem, root[s], p)
              /\ e.S = mem[l].S
              /\ ~Hit(atc, s, k, p) =>
                   (e.M <=> mem[l].M \/ (w /\ Acceptable(mem, root[s], s, p, w)))
              /\ Hit(atc, s, k, p) =>
                   (e.M => mem[l].M) /\ \A a \in Path(mem, root[s], p) : mem[a].U
         /\ Walk(s, p) # "page" => BusFault(atc, s, k, p) \/ ~e.R
<1> DEFINE e == Searched(atc, s, k, p, w)  l == LeafAt(mem, root[s], p)
           old == atc[<<s, k, Slot[p]>>]
<1>1. Slot[p] \in Slots
  BY MmuAssumption
<1>2. old \in Entry
  BY <1>1 DEF TypeOK
<1>3. Walk(s, p) \in {"page", "absent", "bus"}
  BY WalkEnds DEF Settled, Walk
<1>4. CASE Hit(atc, s, k, p)
  <2>1. e = old /\ old.V /\ old.laddr = p /\ ~BusFault(atc, s, k, p)
    BY <1>4 DEF Searched, Hit, BusFault
  <2>2. Sound(old, s, Slot[p])
    BY <1>1 DEF Coherent
  <2>3. Repeats(old, mem, root[s])
    BY <2>1, <2>2 DEF Sound, Settled
  <2> HIDE DEF old
  <2>4. CASE old.R
    <3>1. /\ Walk(s, p) = "page"
          /\ old.pg_addr = l /\ old.paddr = mem[l].frame /\ old.S = mem[l].S
          /\ old.W <=> WriteProtected(mem, root[s], p)
          /\ old.M => mem[l].M
          /\ \A a \in Path(mem, root[s], p) : mem[a].U
      BY <2>1, <2>3, <2>4 DEF Repeats, Walk
    <3> QED BY <1>4, <2>1, <2>4, <3>1
  <2>5. CASE ~old.R
    <3>1. Walk(s, p) = "absent"
      BY <2>1, <2>3, <2>5 DEF Repeats, Walk
    <3> QED BY <2>1, <2>5, <3>1
  <2> QED BY <2>4, <2>5
<1>5. CASE ~Hit(atc, s, k, p) /\ Walk(s, p) = "page"
  <2>1. e = Set(s, p, w)
    BY <1>5 DEF Searched, Loaded, Walk
  <2>2. /\ e.R /\ e.paddr = mem[l].frame /\ e.pg_addr = l
        /\ e.W = WriteProtected(mem, root[s], p) /\ e.S = mem[l].S
        /\ e.M = (mem[l].M \/ (w /\ Acceptable(mem, root[s], s, p, w)))
    BY <2>1 DEF Set
  <2>3. ~BusFault(atc, s, k, p)
    BY <1>5 DEF BusFault, Walk
  <2> HIDE DEF e
  <2>4. e.W <=> WriteProtected(mem, root[s], p)
    BY <2>2 DEF WriteProtected
  <2>5. e.M <=> mem[l].M \/ (w /\ Acceptable(mem, root[s], s, p, w))
    BY <2>2
  <2> QED BY <1>5, <2>2, <2>3, <2>4, <2>5 DEF e
<1>6. CASE ~Hit(atc, s, k, p) /\ Walk(s, p) = "absent"
  <2>1. e = NotFound(old, p)
    BY <1>6 DEF Searched, Loaded, Walk
  <2>2. ~e.R
    BY <1>2, <2>1 DEF NotFound, Entry
  <2> QED BY <1>6, <2>2
<1>7. CASE ~Hit(atc, s, k, p) /\ Walk(s, p) = "bus"
  BY <1>7 DEF BusFault, Walk
<1> QED BY <1>3, <1>4, <1>5, <1>6, <1>7

\* Coherent caches answer like the tables.
LEMMA Agrees == TypeOK /\ Coherent => AccessAgrees
<1> SUFFICES ASSUME TypeOK, Coherent, NEW s \in Spaces, NEW k \in Kinds,
                    NEW p \in Pages, NEW w \in BOOLEAN, Settled(s, k, p)
             PROVE  /\ Granted(s, k, p, w)
                         <=> Walk(s, p) = "page" /\ Acceptable(mem, root[s], s, p, w)
                    /\ Granted(s, k, p, w) =>
                         Searched(atc, s, k, p, w).paddr = mem[Leaf(s, p)].frame
  BY DEF AccessAgrees
<1> DEFINE e == Searched(atc, s, k, p, w)  l == LeafAt(mem, root[s], p)
<1>1. PtestR(atc, s, k, p, w) <=> ~BusFault(atc, s, k, p) /\ e.R
  BY DEF PtestR, Settled, Translated
<1>2. Granted(s, k, p, w) <=> /\ ~BusFault(atc, s, k, p) /\ e.R
                              /\ ~(e.W /\ w) /\ ~(e.S /\ s = "user")
  BY <1>1 DEF Granted, Settled
<1>3. CASE Walk(s, p) = "page"
  <2>1. /\ ~BusFault(atc, s, k, p) /\ e.R /\ e.paddr = mem[l].frame
        /\ e.W <=> WriteProtected(mem, root[s], p)
        /\ e.S = mem[l].S
    BY <1>3, SettledEntry
  <2> HIDE DEF e
  <2>2. Granted(s, k, p, w) <=> Acceptable(mem, root[s], s, p, w)
    BY <1>2, <2>1 DEF Acceptable
  <2> QED BY <1>3, <2>1, <2>2 DEF Leaf, e
<1>4. CASE Walk(s, p) # "page"
  <2>1. BusFault(atc, s, k, p) \/ ~e.R
    BY <1>4, SettledEntry
  <2> QED BY <1>2, <1>4, <2>1
<1> QED BY <1>3, <1>4

\* For every layout of the tables, every sharing of the slots and every
\* behaviour of the guest, a flushed page is answered from the tables
\* (ptest_and_check).
THEOREM Agreement == Spec => []AccessAgrees
  BY CoherentInit, TypeInit, TypeStep, CoherentStep, Agrees, PTL DEF Spec

\* PTEST, which drops the slot first, walks the tables as they are.
LEMMA Sees == TypeOK => PtestSeesTables
<1> SUFFICES ASSUME TypeOK, NEW s \in Spaces, NEW k \in Kinds, NEW p \in Pages,
                    Translated(s, k, p), Walk(s, p) # "invalid"
             PROVE  /\ PtestR(Dropped(s, k, p), s, k, p, FALSE) <=> Walk(s, p) = "page"
                    /\ PtestB(Dropped(s, k, p), s, k, p) <=> Walk(s, p) = "bus"
  BY DEF PtestSeesTables
<1> DEFINE c == Dropped(s, k, p)  old == c[<<s, k, Slot[p]>>]
<1>1. c \in [Spaces \X Kinds \X Slots -> Entry] /\ ~old.V
  BY DroppedType
<1>2. old \in Entry
  BY <1>1, MmuAssumption
<1> HIDE DEF c
<1>3. ~Hit(c, s, k, p)
  BY <1>1 DEF Hit
<1>4. Walk(s, p) \in {"page", "absent", "bus"}
  BY WalkEnds DEF Walk
<1>5. BusFault(c, s, k, p) <=> Walk(s, p) = "bus"
  BY <1>3 DEF BusFault, Walk
<1>6. Walk(s, p) = "page" => Searched(c, s, k, p, FALSE).R
  BY <1>3 DEF Searched, Loaded, Set, Walk
<1>7. Walk(s, p) = "absent" => ~Searched(c, s, k, p, FALSE).R
  <2> SUFFICES ASSUME Walk(s, p) = "absent" PROVE ~Searched(c, s, k, p, FALSE).R
    OBVIOUS
  <2>1. Searched(c, s, k, p, FALSE) = NotFound(old, p)
    BY <1>3 DEF Searched, Loaded, Walk
  <2>2. ~NotFound(old, p).R
    BY <1>2 DEF NotFound, Entry
  <2> QED BY <2>1, <2>2
<1>8. PtestR(c, s, k, p, FALSE)
        <=> ~BusFault(c, s, k, p) /\ Searched(c, s, k, p, FALSE).R
  BY DEF PtestR, Translated
<1>9. PtestB(c, s, k, p) <=> BusFault(c, s, k, p)
  BY DEF PtestB
<1> QED BY <1>4, <1>5, <1>6, <1>7, <1>8, <1>9 DEF c

\* PTEST answers from the tables in every state (op_ptest).
THEOREM PtestAgreement == Spec => []PtestSeesTables
  BY TypeInit, TypeStep, Sees, PTL DEF Spec

\* A settled access marks exactly what it should.
LEMMA Marking ==
  ASSUME TypeOK, Coherent, NEW s \in Spaces, NEW k \in Kinds, NEW p \in Pages,
         NEW w \in BOOLEAN, Settled(s, k, p), Access(s, k, p, w)
  PROVE  LET ok == Walk(s, p) = "page" /\ Acceptable(mem, root[s], s, p, w) IN
         /\ \A a \in Addrs :
              mem'[a].M <=> mem[a].M \/ (w /\ ok /\ a = Leaf(s, p))
         /\ ok => \A a \in Path(mem, root[s], p) : mem'[a].U
<1> DEFINE e == Searched(atc, s, k, p, w)  l == LeafAt(mem, root[s], p)
           used == MarksUsed(atc, s, k, p)  dirty == MarksModified(atc, s, k, p, w)
           acc == Acceptable(mem, root[s], s, p, w)
<1>1. mem' = Marked(used, dirty)
  BY DEF Access, Ptest, Settled
<1>2. /\ root[s] \in Tables /\ mem \in [Addrs -> Desc]
      /\ atc \in [Spaces \X Kinds \X Slots -> Entry]
  BY DEF TypeOK
<1>3. /\ l \in Addrs /\ Path(mem, root[s], p) \subseteq Addrs /\ Leaf(s, p) = l
  BY <1>2, WalkAddrs DEF Leaf
<1>4. /\ \A a \in Addrs : mem'[a].U <=> mem[a].U \/ a \in used
      /\ \A a \in Addrs : mem'[a].M <=> mem[a].M \/ a \in dirty
  BY <1>1, <1>2, MarkedType
<1>5. CASE Walk(s, p) # "page"
  <2>1. BusFault(atc, s, k, p) \/ ~e.R
    BY <1>5, SettledEntry
  <2>2. dirty = {}
    BY <1>5, <2>1 DEF MarksModified, EntryModifies, Modifies, WalkModifies, Walk
  <2> HIDE DEF dirty
  <2> QED BY <1>4, <1>5, <2>2
<1>6. CASE Walk(s, p) = "page"
  <2>1. /\ ~BusFault(atc, s, k, p)
        /\ e.R /\ e.pg_addr = l
        /\ e.W <=> WriteProtected(mem, root[s], p)
        /\ e.S = mem[l].S
        /\ ~Hit(atc, s, k, p) => (e.M <=> mem[l].M \/ (w /\ acc))
        /\ Hit(atc, s, k, p) =>
             (e.M => mem[l].M) /\ \A a \in Path(mem, root[s], p) : mem[a].U
    BY <1>6, SettledEntry
  <2> HIDE DEF e
  <2>2. EntryModifies(atc, s, k, p, w) <=> w /\ acc /\ ~e.M
    BY <2>1 DEF EntryModifies, Modifies, Acceptable, e
  <2>3. dirty = (IF Hit(atc, s, k, p) THEN {} ELSE WalkModifies(s, p, w))
                \cup {a \in {l} : EntryModifies(atc, s, k, p, w)}
    BY <2>1 DEF MarksModified, e
  <2>4. WalkModifies(s, p, w) = {a \in {l} : w /\ acc}
    BY <1>6 DEF WalkModifies, Walk
  <2>5. \A a \in Addrs : mem'[a].M <=> mem[a].M \/ (w /\ acc /\ a = l)
    <3>1. CASE Hit(atc, s, k, p)
      <4>1. dirty = {a \in {l} : w /\ acc /\ ~e.M}
        BY <2>2, <2>3, <3>1
      <4> HIDE DEF dirty, acc
      <4> QED BY <1>4, <2>1, <3>1, <4>1
    <3>2. CASE ~Hit(atc, s, k, p)
      <4>1. dirty = {a \in {l} : w /\ acc}
        BY <2>2, <2>3, <2>4, <3>2
      <4> HIDE DEF dirty, acc
      <4> QED BY <1>4, <4>1
    <3> QED BY <3>1, <3>2
  <2>6. \A a \in Path(mem, root[s], p) : mem'[a].U
    <3>1. CASE Hit(atc, s, k, p)
      BY <1>3, <1>4, <2>1, <3>1
    <3>2. CASE ~Hit(atc, s, k, p)
      <4>1. HasRoot(mem, root[s], p) /\ HasPtr(mem, root[s], p)
        BY <1>6, WalkEnds DEF Walk
      <4> QED BY <1>3, <1>4, <1>6, <3>2, <4>1 DEF Path, MarksUsed, Used, Walk
    <3> QED BY <3>1, <3>2
  <2> HIDE DEF acc
  <2> QED BY <1>3, <1>6, <2>5, <2>6 DEF acc
<1> QED BY <1>5, <1>6

\* The used and modified bits are exact, for every layout of the tables and
\* every history of the caches (the second half of ptest).
THEOREM ExactMarks == Spec => MarksExactly
<1>1. TypeOK /\ Coherent =>
        [\A u \in Uses, p \in Pages, w \in BOOLEAN :
           Settled(u[1], u[2], p) /\ Access(u[1], u[2], p, w) =>
             LET ok == Walk(u[1], p) = "page" /\ Acceptable(mem, root[u[1]], u[1], p, w) IN
             /\ \A a \in Addrs :
                  mem'[a].M <=> mem[a].M \/ (w /\ ok /\ a = Leaf(u[1], p))
             /\ ok => \A a \in Path(mem, root[u[1]], p) : mem'[a].U]_vars
  <2>1. ASSUME TypeOK, Coherent, NEW u \in Uses
        PROVE  u[1] \in Spaces /\ u[2] \in Kinds
    BY MmuAssumption
  <2> QED
    BY <2>1, Marking
<1> QED
  BY <1>1, CoherentInit, TypeInit, TypeStep, CoherentStep, PTL DEF Spec, MarksExactly
=============================================================================
