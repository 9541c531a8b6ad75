----------------------------- MODULE HpackTable -----------------------------
(* The HPACK encoder's dynamic table (h2/hpack/table.rs): a queue of slots,  *)
(* newest first, found through an open-addressing array of positions, one    *)
(* per header name, kept in Robin-Hood order; the slots of one name are      *)
(* chained from the oldest to the newest.  Positions are relative: the slot  *)
(* a position means is position + inserted, in machine words that wrap.      *)
EXTENDS Integers, Sequences, SequencesExt, FiniteSets

CONSTANTS
    Static,         \* the static table: a sequence of [name, value]; 61 entries
    SkipNames,      \* names whose values are never indexed
    Hash,           \* names -> hash of the name
    FirstRaw,       \* length of the first array: 8
    WordSize        \* values of a usize: 2^64

ASSUME TableAssumption ==
    /\ FirstRaw \in Nat \ {0} /\ WordSize \in Nat \ {0}
    /\ \A n \in DOMAIN Hash : Hash[n] \in Nat

NoIdx == -1                             \* no link
None == [index |-> NoIdx, hash |-> NoIdx]   \* an empty place
DynOffset == Len(Static) + 1
Wrap(n) == n % WordSize
Least(S) == CHOOSE n \in S : \A k \in S : n <= k

NewTable(max) == [indices |-> <<>>, slots |-> <<>>, inserted |-> 0, size |-> 0, max |-> max]

\* The array runs from 0 to Raw(t) - 1; usable_capacity.
Raw(t) == Len(t.indices)
At(t, i) == t.indices[(i % Raw(t)) + 1]
Put(t, i, pos) == [t EXCEPT !.indices[(i % Raw(t)) + 1] = pos]
Capacity(t) == Raw(t) - Raw(t) \div 4
RealIdx(t, index) == Wrap(index + t.inserted)
SlotAt(t, index) == t.slots[RealIdx(t, index) + 1]

DesiredPos(t, hash) == hash % Raw(t)
ProbeDistance(t, hash, i) == (i - DesiredPos(t, hash)) % Raw(t)

-----------------------------------------------------------------------------
(* Making room: evict, remove_phase_two, converge.                           *)

\* A mutant: the entries behind a removed one stay.
StayBehind(t, probe) == t

\* Entries behind a removed one move back until one is where it belongs.
RemovePhaseTwo(t, probe) ==
    LET moved == Least({j \in 1..Raw(t) :
                    \/ At(t, probe + j) = None
                    \/ ProbeDistance(t, At(t, probe + j).hash, probe + j) = 0})
    IN  [t EXCEPT !.indices = [i \in 1..Raw(t) |->
            LET off == (i - 1 - probe) % Raw(t)
            IN  IF off < moved - 1 THEN At(t, i)
                ELSE IF off = moved - 1 THEN None ELSE t.indices[i]]]

Evict(t, prev) ==
    LET posIdx == Wrap(Len(t.slots) - 1 - t.inserted)
        slot == Last(t.slots)
        u == [t EXCEPT !.slots = Front(@), !.size = @ - slot.header.len]
        home == DesiredPos(t, slot.hash)
        probe == home + Least({d \in 0..(Raw(t) - 1) :
                    At(t, home + d) # None /\ At(t, home + d).index = posIdx})
        pos == At(t, probe)
    IN  CASE slot.next # NoIdx -> Put(u, probe, [pos EXCEPT !.index = slot.next])
          [] slot.next = NoIdx /\ pos.index = prev ->
                Put(u, probe, [pos EXCEPT !.index = Wrap(0 - (t.inserted + 1))])
          [] OTHER -> RemovePhaseTwo(Put(u, probe, None), probe)

Converge(t, prev) ==
    FoldLeft(LAMBDA u, s : IF u.size > u.max THEN Evict(u, prev) ELSE u, t, t.slots)

UpdateSize(t, len, prev) == Converge([t EXCEPT !.size = @ + len], prev)

Resize(t, max) ==
    IF max = 0
    THEN [t EXCEPT !.max = 0, !.size = 0, !.slots = <<>>, !.inserted = 0,
                   !.indices = [i \in DOMAIN @ |-> None]]
    ELSE Converge([t EXCEPT !.max = max], NoIdx)

-----------------------------------------------------------------------------
(* Room in the array: reserve_one, grow.                                     *)

Reinsert(t, pos) ==
    IF pos = None THEN t
    ELSE LET home == DesiredPos(t, pos.hash)
         IN  Put(t, home + Least({d \in 0..(Raw(t) - 1) : At(t, home + d) = None}), pos)

Grow(t) ==
    LET ideal == {i \in 1..Raw(t) : t.indices[i] # None
                                    /\ ProbeDistance(t, t.indices[i].hash, i - 1) = 0}
        first == IF ideal = {} THEN 1 ELSE Least(ideal)
    IN  FoldLeft(Reinsert, [t EXCEPT !.indices = [i \in 1..(2 * Raw(t)) |-> None]],
                 SubSeq(t.indices, first, Raw(t)) \o SubSeq(t.indices, 1, first - 1))

ReserveOne(t) ==
    IF Len(t.slots) # Capacity(t) THEN t
    ELSE IF t.slots = <<>> THEN [t EXCEPT !.indices = [i \in 1..FirstRaw |-> None]]
    ELSE Grow(t)

-----------------------------------------------------------------------------
(* Indexing a header: what the table becomes and how the header is encoded,  *)
(* an Index: indexed, name, inserted, insertedValue, notIndexed.             *)

\* index_static: the entry with this value, else the first with this name.
IndexStatic(h) ==
    LET named == {i \in DOMAIN Static : Static[i].name = h.name}
        same == {i \in named : Static[i].value = h.value /\ h.value # ""}
    IN  CASE same # {} -> [n |-> Least(same), full |-> TRUE]
          [] same = {} /\ named # {} -> [n |-> Least(named), full |-> FALSE]
          [] OTHER -> [n |-> 0, full |-> FALSE]

Result(t, kind, n) == [table |-> t, kind |-> kind, n |-> n]

\* Index::new.
NotInserted(t, statik) ==
    CASE statik.n = 0 -> Result(t, "notIndexed", 0)
      [] statik.n # 0 /\ statik.full -> Result(t, "indexed", statik.n)
      [] OTHER -> Result(t, "name", statik.n)

Insert(t, h, hash) ==
    [t EXCEPT !.inserted = Wrap(@ + 1),
              !.slots = <<[header |-> h, hash |-> hash, next |-> NoIdx]>> \o @]

MayEnter(h) == ~h.sensitive

\* The chain of a name from its oldest slot: the first with the value, or the
\* newest.
Walk(t, index, h) ==
    FoldLeft(LAMBDA at, s : IF SlotAt(t, at).header.value = h.value \/ SlotAt(t, at).next = NoIdx
                            THEN at ELSE SlotAt(t, at).next, index, t.slots)

IndexOccupied(t, h, hash, start, statik) ==
    LET index == Walk(t, start, h)
        real == RealIdx(t, index)
        roomy == Insert(UpdateSize(t, h.len, index), h, hash)
        newReal == RealIdx(roomy, index)
        linked == IF newReal < Len(roomy.slots)
                  THEN [roomy EXCEPT !.slots[newReal + 1].next = Wrap(0 - roomy.inserted)]
                  ELSE roomy
    IN  IF t.slots[real + 1].header.value = h.value THEN Result(t, "indexed", real + DynOffset)
        ELSE IF ~MayEnter(h) THEN Result(t, "name", real + DynOffset)
        ELSE Result(linked, "insertedValue", IF statik.n # 0 THEN statik.n ELSE real + DynOffset)

\* After an eviction the place may be nearer home: how far to step back.
StepBack(t, probe, dist) ==
    Least({b \in 0..dist :
        \/ b = dist
        \/ /\ At(t, probe - b - 1) # None
           /\ ProbeDistance(t, At(t, probe - b - 1).hash, probe - b - 1) >= dist - b - 1})

\* The new position takes the place and pushes what was there forward.
Displace(t, probe, pos) ==
    LET free == Least({j \in 0..Raw(t) : At(t, probe + j) = None})
    IN  [t EXCEPT !.indices = [i \in 1..Raw(t) |->
            LET off == (i - 1 - probe) % Raw(t)
            IN  IF off = 0 THEN pos
                ELSE IF off <= free THEN At(t, i - 2) ELSE t.indices[i]]]

IndexVacant(t, h, hash, dist, probe, statik) ==
    LET roomy == UpdateSize(t, h.len, NoIdx)
        back == IF roomy.slots # t.slots THEN StepBack(roomy, probe, dist) ELSE 0
        full == Insert(roomy, h, hash)
        placed == Displace(full, probe - back, [index |-> Wrap(0 - full.inserted), hash |-> hash])
    IN  IF ~MayEnter(h) THEN NotInserted(t, statik)
        ELSE IF statik.n # 0 THEN Result(placed, "insertedValue", statik.n)
        ELSE Result(placed, "inserted", 0)

\* index_dynamic: probe from home until the name, a gap, or an entry nearer
\* its own home.
IndexDynamic(t0, h, statik) ==
    LET t == IF h.len + t0.size < t0.max \/ ~h.sensitive THEN ReserveOne(t0) ELSE t0
        hash == Hash[h.name]
        home == DesiredPos(t, hash)
        Richer(d) == ProbeDistance(t, At(t, home + d).hash, home + d) < d
        Mine(d) == At(t, home + d).hash = hash /\ SlotAt(t, At(t, home + d).index).header.name = h.name
        dist == Least({d \in 0..Raw(t) : At(t, home + d) = None \/ Richer(d) \/ Mine(d)})
        probe == home + dist
    IN  IF Raw(t) = 0 THEN NotInserted(t, statik)
        ELSE IF At(t, probe) = None \/ Richer(dist) THEN IndexVacant(t, h, hash, dist, probe, statik)
        ELSE IndexOccupied(t, h, hash, At(t, probe).index, statik)

IndexHeader(t, h) ==
    LET statik == IndexStatic(h)
    IN  IF \/ h.name \in SkipNames \/ (statik.n # 0 /\ statik.full) \/ h.len * 4 > t.max * 3
        THEN NotInserted(t, statik)
        ELSE IndexDynamic(t, h, statik)
=============================================================================
