------------------------------ MODULE Iterators ------------------------------
(***************************************************************************)
(* Iteration over a range of the store while it changes.                   *)
(* DbLogic::prepare_iter and prepare_reverse_iter collect an iterator for  *)
(* the memtable, the immutable memtable and every table, and DbIterator    *)
(* (iterate.rs, and sync/src/iterate.rs) merges them.  The iterator of the *)
(* memtable shares it with the writers: MemtableRef::get_mut hands out a   *)
(* mutable reference whether or not others hold the memtable.              *)
(*                                                                         *)
(* What is abstracted.                                                     *)
(*  - An entry is its sequence number; writes says what it is.  Memtables  *)
(*    and tables are sequences of entries in the order of their keys, and  *)
(*    so is what a TableIterator walks over, as SortedTable shows.         *)
(*  - A compaction is one step, in which both levels are locked, of the    *)
(*    tables Levels selects.                                               *)
(*  - Everything between two awaits is one step.  Where a writer runs at   *)
(*    the same time on another thread, its change of the shared memtable   *)
(*    is a data race besides.                                              *)
(***************************************************************************)
EXTENDS Integers, Sequences, FiniteSets, SequencesExt

CONSTANTS
  Keys,       \* a finite set of numbers above 0
  NumLevels,
  MaxWrites,  \* bound: the writes ever made
  MaxDeletes, \* bound: how many of them are deletions
  Ranges      \* the ranges that are asked for; no bound is 0

ASSUME IteratorsAssumption ==
  /\ Keys \subseteq Nat \ {0}
  /\ NumLevels \in Nat \ {0}
  /\ MaxWrites \in Nat
  /\ MaxDeletes \in Nat
  /\ Ranges \subseteq [min : Keys \cup {0}, max : Keys \cup {0}]

Level == 0 .. NumLevels - 1

VARIABLES
  writes,    \* what was written so far: key and deletion flag
  mems,      \* every memtable there was; the last one is the current one
  rotating,  \* a writer has taken the full memtable and holds its lock
  flushed,   \* how many memtables have left imm_memtables
  added,     \* the immutable memtable is on level 0 already
  levels,    \* the tables of each level
  it,        \* the iterator
  yields,    \* the entries the iterator has returned
  since,     \* history: the writes made when the iterator was prepared
  rounds     \* history: how often the sources were parsed

storeVars == <<writes, mems, rotating, flushed, added, levels>>
iterVars == <<it, yields, since, rounds>>
vars == <<storeVars, iterVars>>

KeyOf(e) == writes[e].key
HasImm == flushed + 1 < Len(mems)

\* The entry numbers of a set, in the order of their keys.
Sorted(E) == SetToSortSeq(E, LAMBDA a, b : KeyOf(a) < KeyOf(b))

\* key is 0 where min_key or max_key is None.
NoIterator == [pc |-> "idle", reverse |-> FALSE, min |-> 0, max |-> 0, level |-> 0,
               sources |-> <<>>, last_key |-> 0]

Init ==
  /\ writes = <<>>
  /\ mems = <<<<>>>>
  /\ rotating = FALSE
  /\ flushed = 0
  /\ added = FALSE
  /\ levels = [l \in Level |-> {}]
  /\ it = NoIterator
  /\ yields = <<>>
  /\ since = 0
  /\ rounds = 0

-----------------------------------------------------------------------------
(* The store.                                                               *)

\* Mutant: a new entry goes behind the others.
PutEntry_Append(m, e, key) == SelectSeq(m, LAMBDA x : KeyOf(x) # key) \o <<e>>

\* Memtable::put and delete: an entry with the same key is replaced in place.
PutEntry(m, e, key) ==
  LET before == SelectSeq(m, LAMBDA x : KeyOf(x) < key)
      after == SelectSeq(m, LAMBDA x : KeyOf(x) > key)
  IN  before \o <<e>> \o after

\* write_opts with one operation; full is the answer of is_full.
Write(key, del, full) ==
  LET e == Len(writes) + 1 IN
  /\ ~rotating
  /\ Len(writes) < MaxWrites
  /\ del => Cardinality({i \in DOMAIN writes : writes[i].del}) < MaxDeletes
  /\ writes' = Append(writes, [key |-> key, del |-> del])
  /\ mems' = [mems EXCEPT ![Len(mems)] = PutEntry(@, e, key)]
  /\ rotating' = full
  /\ UNCHANGED <<flushed, added, levels, iterVars>>

\* The writer waits until there is no immutable memtable, and adds its own.
PushImm ==
  /\ rotating
  /\ ~HasImm
  /\ mems' = Append(mems, <<>>)
  /\ rotating' = FALSE
  /\ UNCHANGED <<writes, flushed, added, levels, iterVars>>

\* do_memtable_compaction, in two steps.
FlushAdd ==
  /\ HasImm
  /\ ~added
  /\ levels' = [levels EXCEPT ![0] = @ \cup {mems[flushed + 1]}]
  /\ added' = TRUE
  /\ UNCHANGED <<writes, mems, rotating, flushed, iterVars>>

FlushPop ==
  /\ added
  /\ flushed' = flushed + 1
  /\ added' = FALSE
  /\ UNCHANGED <<writes, mems, rotating, levels, iterVars>>

MinKey(t) == KeyOf(t[1])
MaxKey(t) == KeyOf(t[Len(t)])
Overlap(t, u) == MinKey(t) <= MaxKey(u) /\ MinKey(u) <= MaxKey(t)

\* Level 0: all tables that overlap a selected one, of those there were when
\* they were selected.  Other levels: one table.
Selected(l, P) ==
  IF l > 0 THEN \E t \in levels[l] : P = {t}
  ELSE \E n \in 1 .. Len(writes) :
         LET T == {t \in levels[0] : \A i \in DOMAIN t : t[i] <= n}
         IN  P \subseteq T /\ \A t \in P, u \in T : Overlap(t, u) => u \in P

\* compact_level: for each key the entry with the largest sequence number.
Merge(T) ==
  LET E == UNION {{t[i] : i \in DOMAIN t} : t \in T}
  IN  Sorted({e \in E : \A f \in E : KeyOf(f) = KeyOf(e) => f <= e})

compact_level(l, P) ==
  LET C == {u \in levels[l + 1] : \E t \in P : Overlap(t, u)} IN
  /\ P # {}
  /\ Selected(l, P)
  /\ levels' = [levels EXCEPT ![l] = @ \ P,
                              ![l + 1] = (@ \ C) \cup {Merge(P \cup C)}]
  /\ UNCHANGED <<writes, mems, rotating, flushed, added, iterVars>>

-----------------------------------------------------------------------------
(* MemtableIterator and TableIterator.  next is the place of the entry the  *)
(* next step reads and cur the current entry, 0 if there is none.  A source *)
(* refers to memtable mem, or holds a table.                                *)

EntriesOf(src) == IF src.mem > 0 THEN mems[src.mem] ELSE src.table

at_end(src) ==
  IF it.reverse THEN src.next < 0 ELSE src.next > Len(EntriesOf(src)) + 1

StepIn(reverse, E, src) ==
  [src EXCEPT !.cur = IF src.next \in DOMAIN E THEN E[src.next] ELSE @,
              !.next = IF reverse THEN @ - 1 ELSE @ + 1]

NewSource(reverse, mem, table) ==
  LET E == IF mem > 0 THEN mems[mem] ELSE table
  IN  StepIn(reverse, E, [mem |-> mem, table |-> table, cur |-> 0,
                          next |-> IF reverse THEN Len(E) ELSE 1])

\* Step while the current key is one to be passed over.
RECURSIVE StepOver(_, _)
StepOver(src, drop) ==
  IF ~at_end(src) /\ src.cur > 0 /\ KeyOf(src.cur) \in drop
  THEN StepOver(StepIn(it.reverse, EntriesOf(src), src), drop)
  ELSE src

-----------------------------------------------------------------------------
(* prepare_iter and prepare_reverse_iter                                    *)

\* Both memtable locks are held while the memtables are collected.
prepare_iter(reverse, min, max) ==
  /\ it.pc = "idle"
  /\ ~rotating
  /\ min # 0 /\ max # 0 => min < max
  /\ it' = [NoIterator EXCEPT
              !.pc = "levels", !.reverse = reverse, !.min = min, !.max = max,
              !.sources = <<NewSource(reverse, Len(mems), <<>>)>> \o
                          (IF HasImm THEN <<NewSource(reverse, flushed + 1, <<>>)>>
                           ELSE <<>>)]
  /\ since' = Len(writes)
  /\ UNCHANGED <<storeVars, yields, rounds>>

Skipped(t) ==
  \/ it.min # 0 /\ MaxKey(t) < it.min
  \/ it.max # 0 /\ MinKey(t) > it.max

\* The tables of one level, under the lock of that level.
PrepareLevel ==
  LET tables == SetToSeq({t \in levels[it.level] : ~Skipped(t)}) IN
  /\ it.pc = "levels"
  /\ it' = [it EXCEPT
              !.sources = @ \o [i \in DOMAIN tables |->
                                  NewSource(it.reverse, 0, tables[i])],
              !.level = @ + 1,
              !.pc = IF it.level + 1 = NumLevels THEN "next" ELSE "levels"]
  /\ UNCHANGED <<storeVars, yields, since, rounds>>

-----------------------------------------------------------------------------
(* DbIterator::next.  One round parses all sources.  The shared memtable,   *)
(* the only one that changes, is the first of them: a write that comes      *)
(* between two sources is one that comes after the round.                   *)

\* Mutant: an iterator that is behind the others stays there.
Behind_Never(key) == FALSE

Behind(key) ==
  /\ it.last_key # 0
  /\ IF it.reverse THEN key >= it.last_key ELSE key <= it.last_key

\* Keys that come before the range, and keys that come after it.
BeforeRange(key) ==
  IF it.reverse THEN it.max # 0 /\ key > it.max ELSE it.min # 0 /\ key < it.min
AfterRange(key) ==
  IF it.reverse THEN it.min # 0 /\ key <= it.min ELSE it.max # 0 /\ key >= it.max

\* Mutant: of two entries for a key the one found first is taken.
Better_First(e, f) ==
  IF it.reverse THEN KeyOf(e) > KeyOf(f) ELSE KeyOf(e) < KeyOf(f)

\* Is entry e to be returned rather than f?
Better(e, f) ==
  \/ IF it.reverse THEN KeyOf(e) > KeyOf(f) ELSE KeyOf(e) < KeyOf(f)
  \/ KeyOf(e) = KeyOf(f) /\ e > f

parse_iter(src) == StepOver(src, {k \in Keys : Behind(k) \/ BeforeRange(k)})

\* The sources that offer an entry, and the first of those with the best one.
Candidates(sources) ==
  {p \in DOMAIN sources : /\ ~at_end(sources[p])
                          /\ ~AfterRange(KeyOf(sources[p].cur))}
Best(sources, p) ==
  \A q \in Candidates(sources) \ {p} :
    \/ Better(sources[p].cur, sources[q].cur)
    \/ p < q /\ ~Better(sources[q].cur, sources[p].cur)

\* An iterator that is not at its end but has no entry is not a valid one.
Invalid(sources) == \E p \in DOMAIN sources : ~at_end(sources[p]) /\ sources[p].cur = 0

\* Mutant: a deletion that is passed over does not count as the last key.
LastKey_Returned(src) ==
  IF src.mem = 0 /\ writes[src.cur].del THEN it.last_key ELSE KeyOf(src.cur)

LastKey(src) == KeyOf(src.cur)

\* A deletion is passed over if it comes from a table.  MemtableIterator
\* returns deletions like values.
next ==
  LET sources == [p \in DOMAIN it.sources |-> parse_iter(it.sources[p])] IN
  /\ it.pc = "next"
  /\ \/ /\ Invalid(sources)
        /\ it' = [it EXCEPT !.pc = "panic"]
        /\ UNCHANGED yields
     \/ /\ ~Invalid(sources)
        /\ Candidates(sources) = {}
        /\ it' = [it EXCEPT !.pc = "done", !.sources = sources]
        /\ UNCHANGED yields
     \/ /\ ~Invalid(sources)
        /\ \E p \in Candidates(sources) :
             LET src == sources[p] IN
             /\ Best(sources, p)
             /\ it' = [it EXCEPT !.sources = sources, !.last_key = LastKey(src)]
             /\ yields' = IF src.mem = 0 /\ writes[src.cur].del THEN yields
                          ELSE Append(yields, src.cur)
  /\ rounds' = rounds + 1
  /\ UNCHANGED <<storeVars, since>>

-----------------------------------------------------------------------------
\* A bound: the store is followed until the iteration has ended.  Once the
\* iterator has all its sources, only writes to the memtable it shares can
\* matter to it: its tables stay as they are when others replace them.
Collecting == it.pc \in {"idle", "levels"}
Shared == it.pc = "next" /\ it.sources[1].mem = Len(mems)

Next ==
  \/ Collecting /\ \E key \in Keys, del, full \in BOOLEAN : Write(key, del, full)
  \/ Shared /\ \E key \in Keys, del \in BOOLEAN : Write(key, del, FALSE)
  \/ Collecting /\ PushImm
  \/ Collecting /\ FlushAdd
  \/ Collecting /\ FlushPop
  \/ Collecting /\ \E l \in Level \ {NumLevels - 1} : \E P \in SUBSET levels[l] :
       compact_level(l, P)
  \/ \E reverse \in BOOLEAN, r \in Ranges : prepare_iter(reverse, r.min, r.max)
  \/ PrepareLevel
  \/ next

Spec == Init /\ [][Next]_vars

-----------------------------------------------------------------------------
(* Properties.                                                              *)

EntryNo == 1 .. Len(writes)
Source == [mem : 0 .. Len(mems), table : Seq(EntryNo), cur : {0} \cup EntryNo,
           next : Int]

\* Every variable has the shape of the field or local variable it models, and
\* memtables and tables are in the order of their keys, each key once.
IteratorsTypeOK ==
  /\ writes \in Seq([key : Keys, del : BOOLEAN])
  /\ mems \in Seq(Seq(EntryNo))
  /\ {rotating, added} \subseteq BOOLEAN
  /\ flushed \in 0 .. Len(mems) - 1
  /\ \A l \in Level : levels[l] \subseteq Seq(EntryNo)
  /\ it \in [pc : {"idle", "levels", "next", "done", "panic"}, reverse : BOOLEAN,
             min : Keys \cup {0}, max : Keys \cup {0}, level : 0 .. NumLevels,
             sources : Seq(Source), last_key : Keys \cup {0}]
  /\ yields \in Seq(EntryNo)
  /\ \A t \in UNION {levels[l] : l \in Level} \cup {mems[i] : i \in DOMAIN mems} :
       \A i \in 2 .. Len(t) : KeyOf(t[i - 1]) < KeyOf(t[i])

\* The iterator returns keys of its range only, in strictly ascending order, or
\* descending if it goes backwards, however the shared memtable is changed
\* under it.
YieldsInOrder ==
  /\ \A i \in DOMAIN yields : LET key == KeyOf(yields[i]) IN
       ~BeforeRange(key) /\ ~AfterRange(key)
  /\ \A i \in 2 .. Len(yields) :
       LET a == KeyOf(yields[i - 1])
           b == KeyOf(yields[i])
       IN  IF it.reverse THEN a > b ELSE a < b

\* The entry a key had when the iterator was prepared, 0 if it had none.
Newest(key) == Max({0} \cup {e \in 1 .. since : KeyOf(e) = key})

\* The values there were in the range at that time, and what was returned.
Live ==
  {e \in {Newest(k) : k \in {k \in Keys : ~BeforeRange(k) /\ ~AfterRange(k)}} :
     e > 0 /\ ~writes[e].del}
Returned == {yields[i] : i \in DOMAIN yields}

\* prepare_iter looks at the memtables and then at one level after the other,
\* while flushes and compactions move entries from those it has not looked at
\* yet to those it has, or the other way round.  If nobody writes meanwhile, the
\* iteration returns every value there is in the range, none that was replaced
\* or deleted, and does not panic.  (That it may return the deletions themselves
\* is what YieldsSnapshot is about.)
FindsNewest ==
  Len(writes) = since =>
    /\ it.pc # "panic"
    /\ it.pc = "done" => {e \in Returned : ~writes[e].del} = Live

\* sync/src/iterate.rs on DbIterator: "Allows iterating over a consistent
\* snapshot of the database".  sorted_table/iterator.rs on get_entry: "Returns
\* None if this refers to a deletion".  So what the iteration returns are the
\* values that were in the range when the iterator was prepared, no more and no
\* less.  It is not so: MemtableIterator returns deletions, and shares its
\* memtable with the writers.
YieldsSnapshot == it.pc = "done" => Returned = Live

\* The loop in next goes on until it has an entry to return or none is left, and
\* a round that finds a deletion returns nothing.  Every round gets past at least
\* one key, also while the shared memtable grows under the iterator: there are
\* never more rounds than keys, and one that finds the end.
RoundsBounded == rounds <= Cardinality(Keys) + 1
=============================================================================
