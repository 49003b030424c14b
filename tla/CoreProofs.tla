----------------------------- MODULE CoreProofs -----------------------------
(***************************************************************************)
(* The uops of a core, for every trace, all sizes and all knobs.           *)
(*                                                                         *)
(* A uop never overtakes its sources (module Map).  The argument: a slot   *)
(* is handed out again only after the uop in it was freed, so the number   *)
(* recorded with a pointer tells whether the pointer still means the same  *)
(* uop; and a freed uop is done.                                           *)
(*                                                                         *)
(* A core keeps the promise MapSpec (module Backend): it maps uops in      *)
(* trace order, issues none before check_srcs lets it, and frees each uop  *)
(* once, after it is done.  The hard part is "once".  The reorder buffer   *)
(* is a ring whose entries are never cleared, and the write buffer frees   *)
(* stores out of order.  The invariant says which uops the ring holds: the *)
(* youngest of those that were allocated, in order, so that the others     *)
(* have retired; and which of those the write buffer holds.                *)
(***************************************************************************)
EXTENDS Backend, TLAPS

\* The source a reader of u should have.
Source(u) == [slot |-> slot[u], num |-> Number(u)]

MapType ==
    /\ trace \in Traces /\ knobs \in Knobs
    /\ fetched \in 0..Len(trace)
    /\ slot \in Seq(Nat) /\ Len(slot) = fetched
    /\ held \in Seq(1..fetched)
    /\ pool \in Seq(1..Len(held))
    /\ srcs \in Seq(SUBSET [slot : 0..Len(held), num : Nat]) /\ Len(srcs) = fetched
    /\ reg_map \in [Registers -> [slot : 0..Len(held), num : Nat]]
    /\ mem_hash \in [Addresses -> 0..Len(held)]
    /\ executed \subseteq 1..fetched /\ done \subseteq executed /\ freed \subseteq done

\* A slot leads to its uop until the uop is freed and the slot given away.
SlotsRight ==
    /\ \A u \in 1..fetched : slot[u] \in 1..Len(held)
    /\ \A u \in 1..fetched : u \notin freed => held[slot[u]] = u
    /\ \A p \in 1..Len(held) : slot[held[p]] = p

\* The pool has slots of freed uops only, each once.
PoolRight ==
    /\ \A i \in 1..Len(pool) : held[pool[i]] \in freed
    /\ \A i, j \in 1..Len(pool) : pool[i] = pool[j] => i = j

\* The register map has the last writer of each register.
LastWriter(w, r, n) ==
    w \in 1..n /\ trace[w].dst = r /\ \A v \in (w + 1)..n : trace[v].dst # r

RegistersRight ==
    \A r \in Registers \ {0} : \A w \in 1..fetched :
        LastWriter(w, r, fetched) => reg_map[r] = Source(w)

\* The store table has the last store to each address unless it was freed.
LastStore(s, a, n) ==
    /\ s \in 1..n /\ Kind(s) \in Stores /\ trace[s].addr = a
    /\ \A t \in (s + 1)..n : ~(Kind(t) \in Stores /\ trace[t].addr = a)

StoresRight ==
    /\ \A a \in Addresses : \A s \in 1..fetched :
          LastStore(s, a, fetched) /\ s \notin freed => mem_hash[a] = slot[s]
    /\ \A a \in Addresses : mem_hash[a] # 0 =>
          /\ held[mem_hash[a]] \notin freed
          /\ LastStore(held[mem_hash[a]], a, fetched)

\* A fetched uop has its sources.
HasSources(u) ==
    /\ \A w \in Writers(u) : Source(w) \in srcs[u]
    /\ \A s \in Suppliers(u) : s \in freed \/ Source(s) \in srcs[u] \/ Mistaken(u, s)

SourcesRight == \A u \in 1..fetched : HasSources(u)

IInv == MapType /\ SlotsRight /\ PoolRight /\ RegistersRight /\ StoresRight
        /\ SourcesRight /\ SourcesAreDone

-----------------------------------------------------------------------------
(* The trace                                                               *)

LEMMA TraceType ==
    ASSUME trace \in Traces
    PROVE  /\ trace \in Seq(Uops) /\ Len(trace) \in Nat
           /\ \A u \in 1..Len(trace) : trace[u] \in Uops
           /\ \A u \in 1..Len(trace) : trace[u].addr \in Addresses
           /\ \A u \in 1..Len(trace) : trace[u].src \in Registers /\ trace[u].dst \in Registers
<1>1. trace \in Seq(Uops)
    BY MapAssumption
<1>2. Len(trace) \in Nat /\ DOMAIN trace = 1..Len(trace)
    BY <1>1
<1>3. \A u \in 1..Len(trace) : trace[u] \in Uops
    BY <1>1, <1>2
<1> QED
    BY <1>1, <1>2, <1>3 DEF Addresses, Registers

LEMMA InitHolds == MapInit => IInv
<1> SUFFICES ASSUME MapInit PROVE IInv
    OBVIOUS
<1>1. Len(trace) \in Nat
    BY TraceType DEF MapInit
<1>2. MapType
    BY <1>1 DEF MapInit, MapType, Invalid
<1>3. SlotsRight /\ PoolRight /\ RegistersRight /\ StoresRight
    BY DEF MapInit, SlotsRight, PoolRight, RegistersRight, StoresRight
<1>4. SourcesRight /\ SourcesAreDone
    BY DEF MapInit, SourcesRight, SourcesAreDone
<1> QED
    BY <1>2, <1>3, <1>4 DEF IInv

-----------------------------------------------------------------------------
(* Issuing and finishing                                                   *)

\* check_srcs waits for every source that is recorded and not freed.
LEMMA CheckedIsDone ==
    ASSUME IInv, NEW u \in 1..fetched, check_srcs(u), NEW w \in 1..fetched,
           Source(w) \in srcs[u]
    PROVE  w \in done
<1>1. CASE w \in freed
    BY <1>1 DEF IInv, MapType
<1>2. CASE w \notin freed
  <2>1. slot[w] # 0 /\ held[slot[w]] = w
      BY <1>2 DEF IInv, SlotsRight
  <2>2. m_valid(slot[w]) /\ m_uop_num(slot[w]) = Number(w)
      BY <2>1, <1>2 DEF m_valid, m_uop_num
  <2> QED
      BY <2>1, <2>2 DEF check_srcs, Source
<1> QED
    BY <1>1, <1>2

\* A step that maps and frees nothing keeps what is said of the mapping.
LEMMA MappingKept ==
    ASSUME IInv, UNCHANGED <<trace, knobs, fetched, freed, slot, held, pool, reg_map, mem_hash, srcs>>
    PROVE  /\ SlotsRight' /\ PoolRight' /\ RegistersRight' /\ StoresRight' /\ SourcesRight'
           /\ \A v : Writers(v)' = Writers(v) /\ Suppliers(v)' = Suppliers(v)
           /\ \A v, s : Mistaken(v, s)' = Mistaken(v, s)
<1>1. SlotsRight'
    BY DEF IInv, SlotsRight
<1>2. PoolRight'
    BY DEF IInv, PoolRight
<1>3. RegistersRight'
    BY DEF IInv, RegistersRight, LastWriter, Source, Registers
<1>4. StoresRight'
    BY DEF IInv, StoresRight, LastStore, Kind, Addresses
<1>5. \A v : Writers(v)' = Writers(v)
    BY DEF Writers
<1>6. \A v : Suppliers(v)' = Suppliers(v)
    BY DEF Suppliers, Kind, BYTE_OVERLAP
<1>7. \A v, s : Mistaken(v, s)' = Mistaken(v, s)
    BY DEF Mistaken
<1>8. \A s : Source(s)' = Source(s)
    BY DEF Source
<1>9. SourcesRight'
    BY <1>5, <1>6, <1>7, <1>8 DEF IInv, SourcesRight, HasSources
<1> QED
    BY <1>1, <1>2, <1>3, <1>4, <1>5, <1>6, <1>7, <1>9

LEMMA IssueStep == IInv /\ MapIssue => IInv'
<1> SUFFICES ASSUME IInv, MapIssue PROVE IInv'
    OBVIOUS
<1>1. PICK u \in 1..fetched : check_srcs(u) /\ executed' = executed \cup {u}
    BY DEF MapIssue
<1>2. UNCHANGED <<trace, knobs, fetched, freed, slot, held, pool, reg_map, mem_hash, srcs, done>>
    BY Zenon DEF MapIssue, fixed, mapVars
<1>3. MapType'
    BY <1>1, <1>2, Zenon DEF IInv, MapType, Registers, Addresses
<1>4. SlotsRight' /\ PoolRight' /\ RegistersRight' /\ StoresRight' /\ SourcesRight'
    BY <1>2, MappingKept
<1>5. /\ \A v : Writers(v)' = Writers(v) /\ Suppliers(v)' = Suppliers(v)
      /\ \A v, s : Mistaken(v, s)' = Mistaken(v, s)
    BY <1>2, MappingKept
<1>7. Writers(u) \subseteq 1..fetched /\ Suppliers(u) \subseteq 1..fetched
    BY DEF Writers, Suppliers, IInv, MapType
<1>8. Writers(u) \subseteq done /\ \A s \in Suppliers(u) : s \in done \/ Mistaken(u, s)
    BY <1>1, <1>7, CheckedIsDone, Zenon DEF IInv, SourcesRight, HasSources, MapType
<1>9. SourcesAreDone'
    BY <1>1, <1>2, <1>5, <1>8 DEF IInv, SourcesAreDone, MapType
<1> QED
    BY <1>3, <1>4, <1>9 DEF IInv

LEMMA FinishStep == IInv /\ MapFinish => IInv'
<1> SUFFICES ASSUME IInv, MapFinish PROVE IInv'
    OBVIOUS
<1>1. PICK finished \in SUBSET executed : done' = done \cup finished
    BY DEF MapFinish
<1>2. UNCHANGED <<trace, knobs, fetched, freed, slot, held, pool, reg_map, mem_hash, srcs, executed>>
    BY DEF MapFinish, fixed, mapVars
<1>3. MapType'
    BY <1>1, <1>2, Zenon DEF IInv, MapType, Registers, Addresses
<1>4. SlotsRight' /\ PoolRight' /\ RegistersRight' /\ StoresRight' /\ SourcesRight'
    BY <1>2, MappingKept
<1>5. /\ \A v : Writers(v)' = Writers(v) /\ Suppliers(v)' = Suppliers(v)
      /\ \A v, s : Mistaken(v, s)' = Mistaken(v, s)
    BY <1>2, MappingKept
<1>7. SourcesAreDone'
    BY <1>1, <1>2, <1>5 DEF IInv, SourcesAreDone, MapType
<1> QED
    BY <1>3, <1>4, <1>7 DEF IInv

-----------------------------------------------------------------------------
(* Freeing                                                                 *)

\* A slot p apart from those of a pool without doubles.
Apart(S, p, old) ==
    /\ p \in S /\ old \in Seq(S) /\ \A k \in 1..Len(old) : old[k] # p
    /\ \A k, l \in 1..Len(old) : old[k] = old[l] => k = l

\* A pool without doubles of the slot p and those of another pool.
Joined(S, p, old, all) ==
    /\ all \in Seq(S)
    /\ \A i \in 1..Len(all) : all[i] = p \/ \E k \in 1..Len(old) : all[i] = old[k]
    /\ \A i, j \in 1..Len(all) : all[i] = all[j] => i = j

LEMMA PoolGains ==
    ASSUME NEW S, NEW p, NEW old, Apart(S, p, old)
    PROVE  Joined(S, p, old, <<p>> \o old)
<1>0. /\ p \in S /\ old \in Seq(S) /\ \A k \in 1..Len(old) : old[k] # p
      /\ \A k, l \in 1..Len(old) : old[k] = old[l] => k = l
    BY DEF Apart
<1> USE <1>0
<1> DEFINE all == <<p>> \o old
<1>1. /\ all \in Seq(S) /\ Len(old) \in Nat /\ Len(all) = Len(old) + 1 /\ all[1] = p
      /\ \A i \in 1..Len(all) : i # 1 => i - 1 \in 1..Len(old) /\ all[i] = old[i - 1]
    OBVIOUS
<1> HIDE DEF all
<1>2. \A i \in 1..Len(all) : all[i] = p \/ \E k \in 1..Len(old) : all[i] = old[k]
    BY <1>1
<1>3. ASSUME NEW i \in 1..Len(all), NEW j \in 1..Len(all), all[i] = all[j] PROVE i = j
  <2>1. CASE i = 1 \/ j = 1
      BY <1>1, <1>3, <2>1
  <2>2. CASE i # 1 /\ j # 1
    <3>1. i - 1 = j - 1
        BY <1>1, <1>3, <2>2, Zenon
    <3> QED
        BY <3>1
  <2> QED
      BY <2>1, <2>2
<1> QED
    BY <1>1, <1>2, <1>3 DEF all, Joined

LEMMA FreeStep == IInv /\ MapFree => IInv'
<1> SUFFICES ASSUME IInv, NEW u \in done \ freed, free_uop_resources(u),
                    UNCHANGED <<fixed, executed, done>>
             PROVE  IInv'
    BY DEF MapFree
<1>1. /\ freed' = freed \cup {u} /\ mem_hash' = delete_store_hash_entry(u)
      /\ pool' = <<slot[u]>> \o pool
      /\ UNCHANGED <<trace, knobs, fetched, slot, held, reg_map, srcs, executed, done>>
    BY DEF free_uop_resources, fixed
<1>2. /\ u \in 1..fetched /\ u \in 1..Len(trace) /\ slot[u] \in 1..Len(held) /\ held[slot[u]] = u
      /\ slot[u] # 0 /\ Len(held) \in Nat
  <2>1. u \in 1..fetched /\ u \in 1..Len(trace) /\ Len(held) \in Nat
      BY TraceType DEF IInv, MapType
  <2>2. slot[u] \in 1..Len(held) /\ held[slot[u]] = u
      BY <2>1 DEF IInv, SlotsRight
  <2> QED
      BY <2>1, <2>2
<1>3. /\ pool' \in Seq(1..Len(held))
      /\ \A i \in 1..Len(pool') : pool'[i] = slot[u] \/ \E k \in 1..Len(pool) : pool'[i] = pool[k]
      /\ \A i, j \in 1..Len(pool') : pool'[i] = pool'[j] => i = j
  <2>1. pool \in Seq(1..Len(held)) /\ PoolRight
      BY DEF IInv, MapType
  <2>2. \A k \in 1..Len(pool) : pool[k] # slot[u]
      BY <1>2, <2>1 DEF PoolRight
  <2>3. \A k, l \in 1..Len(pool) : pool[k] = pool[l] => k = l
      BY <2>1 DEF PoolRight
  <2>4. Apart(1..Len(held), slot[u], pool)
      BY <1>2, <2>1, <2>2, <2>3 DEF Apart
  <2>5. Joined(1..Len(held), slot[u], pool, <<slot[u]>> \o pool)
      BY ONLY <2>4, PoolGains
  <2>6. Joined(1..Len(held), slot[u], pool, pool')
      BY ONLY <1>1, <2>5, Zenon
  <2> QED
      BY <2>6, Zenon DEF Joined
<1>4. /\ mem_hash' \in [Addresses -> 0..Len(held)]
      /\ \A a \in Addresses : mem_hash'[a] \in {0, mem_hash[a]}
      /\ \A a \in Addresses : mem_hash[a] # 0 => (mem_hash'[a] = 0 <=> held[mem_hash[a]] = u)
  <2>1. mem_hash \in [Addresses -> 0..Len(held)] /\ trace[u].addr \in Addresses
      BY <1>2, TraceType, Zenon DEF IInv, MapType
  <2>2. ASSUME NEW a \in Addresses, mem_hash[a] # 0
        PROVE  mem_hash'[a] = 0 <=> held[mem_hash[a]] = u
    <3>1. /\ LastStore(held[mem_hash[a]], a, fetched) /\ mem_hash[a] \in 1..Len(held)
          /\ slot[held[mem_hash[a]]] = mem_hash[a]
      <4>1. mem_hash[a] \in 1..Len(held)
          BY <1>2, <2>1, <2>2
      <4> QED
          BY <2>2, <4>1 DEF IInv, SlotsRight, StoresRight
    <3> QED
        BY <1>1, <1>2, <2>1, <2>2, <3>1, Zenon DEF LastStore, delete_store_hash_entry
  <2> QED
      BY <1>1, <1>2, <2>1, <2>2 DEF delete_store_hash_entry
<1>5. MapType'
  <2>1. Registers' = Registers /\ Addresses' = Addresses
      BY <1>1 DEF Registers, Addresses
  <2> QED
      BY <1>1, <1>3, <1>4, <2>1, Zenon DEF IInv, MapType
<1>6. SlotsRight'
    BY <1>1 DEF IInv, SlotsRight
<1>7. PoolRight'
    BY <1>1, <1>2, <1>3, Zenon DEF IInv, PoolRight
<1>8. RegistersRight'
    BY <1>1 DEF IInv, RegistersRight, LastWriter, Source, Registers
<1>9. StoresRight'
  <2>1. \A s, a : LastStore(s, a, fetched)' = LastStore(s, a, fetched)
      BY <1>1 DEF LastStore, Kind
  <2>2. \A a \in Addresses : \A s \in 1..fetched :
            LastStore(s, a, fetched) /\ s \notin freed' => mem_hash'[a] = slot[s]
    <3> SUFFICES ASSUME NEW a \in Addresses, NEW s \in 1..fetched,
                        LastStore(s, a, fetched), s \notin freed'
                 PROVE  mem_hash'[a] = slot[s]
        OBVIOUS
    <3>1. mem_hash[a] = slot[s]
        BY <1>1 DEF IInv, StoresRight
    <3>2. slot[s] # 0 /\ held[slot[s]] = s
        BY <1>1, <1>2 DEF IInv, SlotsRight
    <3> QED
        BY <1>1, <1>4, <3>1, <3>2, Zenon
  <2>3. \A a \in Addresses : mem_hash'[a] # 0 =>
            /\ held[mem_hash'[a]] \notin freed'
            /\ LastStore(held[mem_hash'[a]], a, fetched)
      BY <1>1, <1>4, Zenon DEF IInv, StoresRight
  <2>4. Addresses' = Addresses /\ fetched' = fetched /\ slot' = slot /\ held' = held
      BY <1>1, Zenon DEF Addresses
  <2> QED
      BY ONLY <2>1, <2>2, <2>3, <2>4 DEF StoresRight
<1>10. \A v : /\ Writers(v)' = Writers(v) /\ Suppliers(v)' = Suppliers(v)
              /\ \A s : Source(s)' = Source(s) /\ Mistaken(v, s)' = Mistaken(v, s)
    BY <1>1 DEF Writers, Suppliers, Mistaken, Source, Kind, BYTE_OVERLAP
<1>11. SourcesRight'
    BY <1>1, <1>10, Zenon DEF IInv, SourcesRight, HasSources
<1>12. SourcesAreDone'
    BY <1>1, <1>10 DEF IInv, MapType, SourcesAreDone
<1> QED
    BY <1>5, <1>6, <1>7, <1>8, <1>9, <1>11, <1>12 DEF IInv

-----------------------------------------------------------------------------
(* Fetching                                                                *)

LEMMA Appended ==
    ASSUME NEW S, NEW s \in Seq(S), NEW e \in S
    PROVE  /\ Append(s, e) \in Seq(S) /\ Len(s) \in Nat /\ Len(Append(s, e)) = Len(s) + 1
           /\ Append(s, e)[Len(s) + 1] = e
           /\ \A i \in 1..Len(s) : Append(s, e)[i] = s[i] /\ s[i] \in S
    OBVIOUS

LEMMA Popped ==
    ASSUME NEW S, NEW s \in Seq(S), s # <<>>
    PROVE  /\ Tail(s) \in Seq(S) /\ Head(s) = s[1] /\ Head(s) \in S /\ 1 \in 1..Len(s)
           /\ \A i \in 1..Len(Tail(s)) : /\ i \in Nat \ {0} /\ i + 1 \in 1..Len(s)
                                         /\ Tail(s)[i] = s[i + 1]
    OBVIOUS

LEMMA Larger ==
    ASSUME NEW m \in Nat, NEW n \in Nat, m <= n
    PROVE  /\ 0..m \subseteq 0..n /\ 1..m \subseteq 1..n
           /\ \A s \in Seq(1..m) : s \in Seq(1..n)
    OBVIOUS

\* The slot a fetched uop gets is new or was a freed uop's, and the others
\* keep their uops.
LEMMA FetchSlots ==
    ASSUME IInv, fetch
    PROVE  /\ fetched \in Nat /\ fetched + 1 \in 1..Len(trace) /\ fetched' = fetched + 1
           /\ Len(held) \in Nat /\ Len(held') \in Nat /\ Len(held) <= Len(held')
           /\ acquire_entry \in 1..Len(held') /\ held' \in Seq(1..(fetched + 1))
           /\ held'[acquire_entry] = fetched + 1
           /\ \A q \in 1..Len(held') :
                 q # acquire_entry => q \in 1..Len(held) /\ held'[q] = held[q]
           /\ acquire_entry \in 1..Len(held) => held[acquire_entry] \in freed
<1>1. /\ fetched \in Nat /\ fetched + 1 \in 1..Len(trace) /\ fetched' = fetched + 1
      /\ held \in Seq(1..fetched) /\ pool \in Seq(1..Len(held)) /\ Len(held) \in Nat
    BY TraceType DEF IInv, MapType, fetch
<1>2. held \in Seq(1..(fetched + 1)) /\ fetched + 1 \in 1..(fetched + 1)
    BY <1>1, Larger
<1>3. CASE pool = <<>>
  <2>1. acquire_entry = Len(held) + 1 /\ held' = Append(held, fetched + 1)
      BY <1>1, <1>3 DEF acquire_entry, fetch
  <2>2. /\ held' \in Seq(1..(fetched + 1)) /\ Len(held') = Len(held) + 1
        /\ held'[Len(held) + 1] = fetched + 1
        /\ \A i \in 1..Len(held) : held'[i] = held[i]
      BY ONLY <1>2, <2>1, Appended
  <2> QED
      BY <1>1, <2>1, <2>2
<1>4. CASE pool # <<>>
  <2>1. acquire_entry = Head(pool) /\ held' = [held EXCEPT ![acquire_entry] = fetched + 1]
      BY <1>1, <1>4 DEF acquire_entry, fetch
  <2>2. acquire_entry \in 1..Len(held) /\ held[acquire_entry] \in freed
      BY <1>1, <1>4, <2>1, Popped, Zenon DEF IInv, PoolRight
  <2>3. /\ held' \in Seq(1..(fetched + 1)) /\ Len(held') = Len(held)
        /\ held'[acquire_entry] = fetched + 1
        /\ \A i \in 1..Len(held) : i # acquire_entry => held'[i] = held[i]
      BY <1>2, <2>1, <2>2
  <2> QED
      BY <1>1, <2>2, <2>3
<1> QED
    BY <1>3, <1>4, Zenon

LEMMA FetchPool ==
    ASSUME IInv, fetch
    PROVE  /\ pool' \in Seq(1..Len(held'))
           /\ \A i \in 1..Len(pool') : pool'[i] # acquire_entry /\ held[pool'[i]] \in freed
           /\ \A i, j \in 1..Len(pool') : pool'[i] = pool'[j] => i = j
<1>1. pool \in Seq(1..Len(held)) /\ PoolRight
    BY DEF IInv, MapType
<1>2. pool \in Seq(1..Len(held'))
    BY <1>1, FetchSlots, Larger
<1>3. CASE pool = <<>>
    BY <1>2, <1>3 DEF fetch
<1>4. CASE pool # <<>>
  <2>1. pool' = Tail(pool) /\ acquire_entry = Head(pool)
      BY <1>4 DEF fetch, acquire_entry
  <2>2. /\ Tail(pool) \in Seq(1..Len(held')) /\ Head(pool) = pool[1] /\ 1 \in 1..Len(pool)
        /\ \A i \in 1..Len(Tail(pool)) : /\ i \in Nat \ {0} /\ i + 1 \in 1..Len(pool)
                                         /\ Tail(pool)[i] = pool[i + 1]
      BY <1>2, <1>4, Popped
  <2>3. ASSUME NEW i \in 1..Len(pool')
        PROVE  /\ i \in Nat \ {0} /\ i + 1 \in 1..Len(pool) /\ pool'[i] = pool[i + 1]
      BY <2>1, <2>2, Zenon
  <2>4. ASSUME NEW i \in 1..Len(pool')
        PROVE  pool'[i] # acquire_entry /\ held[pool'[i]] \in freed
    <3>1. i + 1 # 1
        BY <2>3
    <3> QED
        BY <1>1, <2>1, <2>2, <2>3, <3>1 DEF PoolRight
  <2>5. ASSUME NEW i \in 1..Len(pool'), NEW j \in 1..Len(pool'), pool'[i] = pool'[j]
        PROVE  i = j
    <3>1. i + 1 = j + 1
        BY <1>1, <2>3, <2>5 DEF PoolRight
    <3> QED
        BY <2>3, <3>1
  <2> QED
      BY <2>1, <2>2, <2>4, <2>5, Zenon
<1> QED
    BY <1>3, <1>4

\* The sources map_uop finds for uop u, and those with map_mem_dep's.
RegisterSources(u) ==
    (IF trace[u].src = 0 THEN {} ELSE {reg_map[trace[u].src]})
    \cup (IF IsMem(u) /\ ~knobs.ooo_stores THEN {Invalid} ELSE {})
AllSources(u) ==
    IF Kind(u) \in Loads THEN add_store_deps(u, acquire_entry, RegisterSources(u))
    ELSE RegisterSources(u)

SourceSet == [slot : 0..Len(held), num : Nat]

LEMMA SourceTypes ==
    ASSUME IInv, NEW u \in 1..Len(trace)
    PROVE  RegisterSources(u) \subseteq AllSources(u) /\ AllSources(u) \subseteq SourceSet
<1>1. RegisterSources(u) \subseteq SourceSet
  <2>1. trace[u].src \in Registers /\ Len(held) \in Nat
      BY TraceType DEF IInv, MapType
  <2>2. reg_map[trace[u].src] \in SourceSet
      BY <2>1 DEF IInv, MapType, SourceSet
  <2>3. Invalid \in SourceSet
      BY <2>1 DEF Invalid, SourceSet
  <2> QED
      BY <2>2, <2>3, Zenon DEF RegisterSources
<1>2. \A q \in 0..Len(held) : m_uop_num(q) \in Nat
  <2>1. Len(held) \in Nat /\ \A q \in 1..Len(held) : held[q] \in Nat \ {0}
    <3>1. held \in Seq(1..fetched) /\ fetched \in Nat
        BY DEF IInv, MapType
    <3> QED
        BY ONLY <3>1
  <2> QED
      BY <2>1 DEF m_uop_num, m_valid, Number
<1>3. \A a \in Addresses : mem_hash[a] \in 0..Len(held)
    BY DEF IInv, MapType
<1>4. ASSUME NEW own, NEW S, NEW hit, hit \subseteq 0..Len(held), S \subseteq SourceSet
      PROVE  S \subseteq add_src_from_uop(own, S, hit) /\ add_src_from_uop(own, S, hit) \subseteq SourceSet
  <2>1. \A q \in hit : [slot |-> q, num |-> m_uop_num(q)] \in SourceSet
      BY <1>2, <1>4 DEF SourceSet
  <2> QED
      BY <1>4, <2>1 DEF add_src_from_uop
<1>5. ASSUME NEW S, S \subseteq SourceSet
      PROVE  S \subseteq add_store_deps(u, acquire_entry, S) /\ add_store_deps(u, acquire_entry, S) \subseteq SourceSet
  <2> DEFINE pending == {a \in Addresses : mem_hash[a] # 0 /\ SameQuadword(a, trace[u].addr)}
             hit == {mem_hash[a] : a \in {b \in pending : BYTE_OVERLAP(held[mem_hash[b]], u)}}
             youngest == {p \in hit :
                             /\ \A q \in hit : m_uop_num(q) <= m_uop_num(p)
                             /\ pending = {trace[u].addr} \/ m_uop_num(p) > 0}
  <2>1. hit \subseteq 0..Len(held) /\ youngest \subseteq hit
      BY <1>3, Zenon
  <2>2. add_store_deps(u, acquire_entry, S)
        = add_src_from_uop(acquire_entry, S, IF knobs.ooo_stores THEN hit ELSE youngest)
      BY DEF add_store_deps
  <2> HIDE DEF hit, youngest
  <2>3. (IF knobs.ooo_stores THEN hit ELSE youngest) \subseteq 0..Len(held)
      BY <2>1, Zenon
  <2> QED
      BY <1>4, <1>5, <2>2, <2>3
<1> QED
    BY <1>1, <1>5 DEF AllSources

\* A store in flight is among the sources of a load it supplies, unless the
\* duplicate test was misled.
LEMMA StoreSources ==
    ASSUME IInv, fetched + 1 \in 1..Len(trace), Kind(fetched + 1) \in Loads,
           NEW s \in Suppliers(fetched + 1), s \notin freed
    PROVE  \/ Source(s) \in AllSources(fetched + 1)
           \/ \E i \in RegisterSources(fetched + 1) : i.slot = slot[s] \/ Number(s) = 0
<1> DEFINE u == fetched + 1
           S == RegisterSources(u)
           pending == {a \in Addresses : mem_hash[a] # 0 /\ SameQuadword(a, trace[u].addr)}
           hit == {mem_hash[a] : a \in {b \in pending : BYTE_OVERLAP(held[mem_hash[b]], u)}}
           youngest == {p \in hit :
                           /\ \A q \in hit : m_uop_num(q) <= m_uop_num(p)
                           /\ pending = {trace[u].addr} \/ m_uop_num(p) > 0}
           candidates == IF knobs.ooo_stores THEN hit ELSE youngest
           supplying == {t \in 1..(u - 1) :
                      /\ Kind(u) \in Loads /\ Kind(t) \in Stores
                      /\ SameQuadword(trace[t].addr, trace[u].addr) /\ BYTE_OVERLAP(t, u)
                      /\ \A v \in (t + 1)..(u - 1) :
                            ~(Kind(v) \in Stores /\ trace[v].addr = trace[t].addr)}
<1>1. fetched \in Nat /\ u - 1 = fetched /\ Len(trace) \in Nat /\ fetched <= Len(trace)
    BY TraceType DEF IInv, MapType
<1>2. s \in supplying /\ (knobs.ooo_stores \/ \A t \in supplying : t <= s)
    BY Zenon DEF Suppliers
<1>3. s \in 1..fetched /\ LastStore(s, trace[s].addr, fetched) /\ trace[s].addr \in Addresses
    BY <1>1, <1>2, TraceType DEF LastStore, IInv, MapType
<1>4. /\ slot[s] \in 1..Len(held) /\ held[slot[s]] = s /\ mem_hash[trace[s].addr] = slot[s]
      /\ slot[s] # 0 /\ Len(held) \in Nat
  <2>1. mem_hash[trace[s].addr] = slot[s]
      BY <1>3, Zenon DEF IInv, StoresRight
  <2>2. slot[s] \in 1..Len(held) /\ held[slot[s]] = s
      BY <1>3 DEF IInv, SlotsRight
  <2>3. Len(held) \in Nat
      BY DEF IInv, MapType
  <2> QED
      BY ONLY <2>1, <2>2, <2>3
<1>5. m_uop_num(slot[s]) = Number(s) /\ Number(s) \in Nat
    BY <1>3, <1>4 DEF m_uop_num, m_valid, Number
<1>6. slot[s] \in hit
    BY <1>2, <1>3, <1>4, Zenon
<1>7. ASSUME NEW q \in hit PROVE held[q] \in supplying /\ m_uop_num(q) = Number(held[q])
  <2>1. PICK b \in Addresses : /\ mem_hash[b] # 0 /\ SameQuadword(b, trace[u].addr)
                               /\ q = mem_hash[b] /\ BYTE_OVERLAP(held[q], u)
      BY Zenon
  <2>2. held[q] \notin freed /\ LastStore(held[q], b, fetched)
      BY <2>1, Zenon DEF IInv, StoresRight
  <2> QED
      BY <1>1, <2>1, <2>2, Zenon DEF LastStore, m_uop_num, m_valid
<1>8. ASSUME Number(s) # 0 PROVE slot[s] \in candidates
  <2>1. CASE knobs.ooo_stores
      BY <1>6, <2>1, Zenon
  <2>2. CASE ~knobs.ooo_stores
    <3>1. ASSUME NEW q \in hit PROVE m_uop_num(q) <= m_uop_num(slot[s])
      <4>1. held[q] <= s /\ held[q] \in 1..fetched
          BY <1>1, <1>2, <1>7, <2>2, <3>1, Zenon
      <4> HIDE DEF hit, supplying
      <4> QED
          BY <1>1, <1>3, <1>5, <1>7, <4>1 DEF Number
    <3>2. m_uop_num(slot[s]) > 0
        BY <1>5, <1>8
    <3> QED
        BY <1>6, <2>2, <3>1, <3>2, Zenon
  <2> QED
      BY <2>1, <2>2, Zenon
<1>9. AllSources(u) = add_src_from_uop(acquire_entry, S, candidates)
    BY Zenon DEF AllSources, add_store_deps
<1> HIDE DEF candidates, hit, pending, youngest, supplying, S
<1>10. CASE Number(s) = 0 /\ S = {} /\ knobs.ooo_stores
  <2>1. slot[s] \in candidates
      BY <1>6, <1>10, Zenon DEF candidates
  <2> QED
      BY <1>5, <1>9, <1>10, <2>1, Zenon DEF add_src_from_uop, Source
<1>11. CASE Number(s) = 0 /\ ~(S = {} /\ knobs.ooo_stores)
  <2>1. S # {}
      BY <1>11, Zenon DEF S, RegisterSources, IsMem, Memory
  <2> QED
      BY <1>11, <2>1, Zenon DEF S
<1>12. CASE Number(s) # 0
  <2>1. CASE \A i \in S : i.slot = acquire_entry \/ m_uop_num(i.slot) # m_uop_num(slot[s])
      BY <1>5, <1>8, <1>9, <1>12, <2>1, Zenon DEF add_src_from_uop, Source
  <2>2. ASSUME NEW i \in S, m_uop_num(i.slot) = m_uop_num(slot[s]) PROVE i.slot = slot[s]
    <3>1. i.slot \in 0..Len(held)
        BY SourceTypes, Zenon DEF S, SourceSet
    <3>2. i.slot # 0 /\ Number(held[i.slot]) = Number(s)
        BY <1>5, <1>12, <2>2 DEF m_uop_num, m_valid
    <3>3. i.slot \in 1..Len(held) /\ held[i.slot] \in 1..fetched
      <4>1. i.slot \in 1..Len(held)
          BY <1>4, <3>1, <3>2
      <4>2. \A q \in 1..Len(held) : held[q] \in 1..fetched
          BY DEF IInv, MapType
      <4> QED
          BY ONLY <4>1, <4>2, Zenon
    <3>4. held[i.slot] = s
        BY <1>3, <3>2, <3>3 DEF Number
    <3> QED
        BY <3>3, <3>4 DEF IInv, SlotsRight
  <2> QED
      BY <2>1, <2>2, Zenon DEF S
<1> QED
    BY <1>10, <1>11, <1>12, Zenon

LEMMA FetchAppends ==
    ASSUME IInv, fetch
    PROVE  /\ slot' \in Seq(Nat) /\ Len(slot') = fetched + 1 /\ slot'[fetched + 1] = acquire_entry
           /\ \A w \in 1..fetched : slot'[w] = slot[w]
           /\ srcs' \in Seq(SUBSET [slot : 0..Len(held'), num : Nat]) /\ Len(srcs') = fetched + 1
           /\ srcs'[fetched + 1] = AllSources(fetched + 1)
           /\ \A w \in 1..fetched : srcs'[w] = srcs[w]
<1>1. slot \in Seq(Nat) /\ Len(slot) = fetched /\ Len(srcs) = fetched /\ srcs \in Seq(SUBSET SourceSet)
    BY Zenon DEF IInv, MapType, SourceSet
<1>2. slot' = Append(slot, acquire_entry) /\ acquire_entry \in Nat
    BY FetchSlots DEF fetch
<1>3. srcs' = Append(srcs, AllSources(fetched + 1))
    BY DEF fetch, map_uop, AllSources, RegisterSources
<1>4. SourceSet \subseteq [slot : 0..Len(held'), num : Nat]
    BY FetchSlots, Larger, Zenon DEF SourceSet
<1> DEFINE T == [slot : 0..Len(held'), num : Nat]
<1>5. AllSources(fetched + 1) \in SUBSET T
    BY <1>4, FetchSlots, SourceTypes
<1>6. srcs \in Seq(SUBSET T)
    BY <1>1, <1>4
<1> HIDE DEF T
<1>7. /\ slot' \in Seq(Nat) /\ Len(slot') = fetched + 1 /\ slot'[fetched + 1] = acquire_entry
      /\ \A w \in 1..fetched : slot'[w] = slot[w]
    BY ONLY <1>1, <1>2, Appended
<1>8. /\ srcs' \in Seq(SUBSET T) /\ Len(srcs') = fetched + 1
      /\ srcs'[fetched + 1] = AllSources(fetched + 1)
      /\ \A w \in 1..fetched : srcs'[w] = srcs[w]
    BY ONLY <1>1, <1>3, <1>5, <1>6, Appended
<1> QED
    BY <1>7, <1>8 DEF T

LEMMA FetchStep == IInv /\ MapFetch => IInv'
<1> SUFFICES ASSUME IInv, fetch, UNCHANGED <<fixed, executed, done>> PROVE IInv'
    BY DEF MapFetch
<1>0. PICK u \in Nat : u = fetched + 1
    BY FetchSlots
<1> USE <1>0
<1>1. /\ UNCHANGED <<trace, knobs, executed, done, freed>>
      /\ u \in 1..Len(trace) /\ fetched \in Nat /\ fetched' = u
      /\ 1..fetched' = 1..fetched \cup {u} /\ u \notin 1..fetched
  <2>1. u \in 1..Len(trace) /\ fetched \in Nat /\ fetched' = u
      BY FetchSlots, Zenon
  <2> QED
      BY <2>1 DEF fetch, fixed
<1>2. Registers' = Registers /\ Addresses' = Addresses /\ \A v : Kind(v)' = Kind(v)
    BY <1>1, Zenon DEF Registers, Addresses, Kind
<1>3. /\ trace[u].addr \in Addresses /\ trace[u].dst \in Registers /\ trace[u].src \in Registers
      /\ Len(trace) \in Nat
    BY <1>1, TraceType, Zenon DEF IInv, MapType
<1>4. /\ reg_map' = IF trace[u].dst = 0 THEN reg_map
                    ELSE [reg_map EXCEPT ![trace[u].dst] = [slot |-> acquire_entry, num |-> Number(u)]]
      /\ mem_hash' = IF Kind(u) \in Stores THEN [mem_hash EXCEPT ![trace[u].addr] = acquire_entry]
                     ELSE mem_hash
    BY Zenon DEF fetch, map_uop, update_store_hash
<1>5. /\ \A w \in 1..fetched : Source(w)' = Source(w) /\ slot'[w] = slot[w]
      /\ Source(u)' = [slot |-> acquire_entry, num |-> Number(u)] /\ slot'[u] = acquire_entry
    BY FetchAppends, Zenon DEF Source, Number
<1>6. MapType'
  <2>1. reg_map' \in [Registers -> [slot : 0..Len(held'), num : Nat]]
    <3>1. acquire_entry \in 0..Len(held') /\ Number(u) \in Nat
        BY <1>1, FetchSlots DEF Number
    <3>2. reg_map \in [Registers -> [slot : 0..Len(held'), num : Nat]]
        BY FetchSlots, Larger, Zenon DEF IInv, MapType
    <3> QED
        BY <1>3, <1>4, <3>1, <3>2, Zenon
  <2>2. mem_hash' \in [Addresses -> 0..Len(held')]
    <3>1. acquire_entry \in 0..Len(held')
        BY FetchSlots
    <3>2. mem_hash \in [Addresses -> 0..Len(held')]
        BY FetchSlots, Larger, Zenon DEF IInv, MapType
    <3> QED
        BY <1>3, <1>4, <3>1, <3>2
  <2>3. executed \subseteq 1..u /\ done \subseteq executed /\ freed \subseteq done
      BY <1>1 DEF IInv, MapType
  <2>4. trace \in Traces /\ knobs \in Knobs /\ u \in 0..Len(trace)
      BY <1>1, <1>3 DEF IInv, MapType
  <2> QED
      BY <1>1, <1>2, <2>1, <2>2, <2>3, <2>4, FetchSlots, FetchPool, FetchAppends, Zenon DEF MapType
<1>7. SlotsRight'
  <2>1. \A w \in 1..fetched' : slot'[w] \in 1..Len(held')
      BY <1>1, <1>5, FetchSlots, Larger, Zenon DEF IInv, SlotsRight
  <2>2. ASSUME NEW w \in 1..fetched', w \notin freed PROVE held'[slot'[w]] = w
    <3>1. CASE w = u
        BY <1>5, <3>1, FetchSlots
    <3>2. CASE w \in 1..fetched
      <4>1. slot'[w] = slot[w] /\ slot[w] \in 1..Len(held) /\ held[slot[w]] = w
          BY <1>5, <2>2, <3>2 DEF IInv, SlotsRight
      <4>2. slot[w] # acquire_entry
          BY <2>2, <4>1, FetchSlots, Zenon
      <4>3. slot[w] \in 1..Len(held')
          BY <2>1, <4>1
      <4> QED
          BY <4>1, <4>2, <4>3, FetchSlots, Zenon
    <3> QED
        BY <1>1, <3>1, <3>2
  <2>3. ASSUME NEW q \in 1..Len(held') PROVE slot'[held'[q]] = q
    <3>1. CASE q = acquire_entry
        BY <1>5, <3>1, FetchSlots, Zenon
    <3>2. CASE q # acquire_entry
      <4>1. q \in 1..Len(held) /\ held'[q] = held[q]
          BY <3>2, FetchSlots, Zenon
      <4>2. held[q] \in 1..fetched /\ slot[held[q]] = q
        <5>1. \A r \in 1..Len(held) : held[r] \in 1..fetched
            BY DEF IInv, MapType
        <5> QED
            BY <4>1, <5>1, Zenon DEF IInv, SlotsRight
      <4> QED
          BY <1>5, <4>1, <4>2
    <3> QED
        BY <3>1, <3>2, Zenon
  <2> QED
      BY <1>1, <2>1, <2>2, <2>3, Zenon DEF SlotsRight
<1>8. PoolRight'
  <2>1. ASSUME NEW i \in 1..Len(pool') PROVE held'[pool'[i]] \in freed
    <3>1. pool'[i] \in 1..Len(held') /\ pool'[i] # acquire_entry /\ held[pool'[i]] \in freed
        BY FetchPool
    <3> QED
        BY <3>1, FetchSlots, Zenon
  <2> QED
      BY <1>1, <2>1, FetchPool, Zenon DEF PoolRight
<1>9. RegistersRight'
  <2> SUFFICES ASSUME NEW r \in Registers \ {0}, NEW w \in 1..fetched',
                      LastWriter(w, r, u)
               PROVE  reg_map'[r] = Source(w)'
      BY <1>1, <1>2 DEF RegistersRight, LastWriter
  <2>1. CASE w = u
      BY <1>3, <1>4, <1>5, <2>1, Zenon DEF LastWriter, IInv, MapType
  <2>2. CASE w \in 1..fetched
    <3>1. trace[u].dst # r /\ LastWriter(w, r, fetched)
        BY <1>1, <2>2 DEF LastWriter
    <3>2. reg_map[r] = Source(w)
        BY <2>2, <3>1, Zenon DEF IInv, RegistersRight
    <3>3. reg_map'[r] = reg_map[r]
        BY <1>4, <3>1, Zenon DEF IInv, MapType
    <3> QED
        BY <1>5, <2>2, <3>2, <3>3, Zenon
  <2> QED
      BY <1>1, <2>1, <2>2
<1>10. StoresRight'
  <2>1. \A s, a, n : LastStore(s, a, n)' = LastStore(s, a, n)
      BY <1>1, Zenon DEF LastStore, Kind
  <2>2. ASSUME NEW a \in Addresses, NEW s \in 1..fetched', LastStore(s, a, u), s \notin freed
        PROVE  mem_hash'[a] = slot'[s]
    <3>1. CASE s = u
        BY <1>3, <1>4, <1>5, <2>2, <3>1, Zenon DEF LastStore, IInv, MapType
    <3>2. CASE s \in 1..fetched
      <4>1. ~(Kind(u) \in Stores /\ trace[u].addr = a) /\ LastStore(s, a, fetched)
          BY <1>1, <2>2, <3>2 DEF LastStore
      <4>2. mem_hash[a] = slot[s]
          BY <2>2, <3>2, <4>1, Zenon DEF IInv, StoresRight
      <4>3. mem_hash'[a] = mem_hash[a]
          BY <1>4, <4>1, Zenon DEF IInv, MapType
      <4> QED
          BY <1>5, <3>2, <4>2, <4>3, Zenon
    <3> QED
        BY <1>1, <2>2, <3>1, <3>2, Zenon
  <2>3. ASSUME NEW a \in Addresses, mem_hash'[a] # 0
        PROVE  held'[mem_hash'[a]] \notin freed /\ LastStore(held'[mem_hash'[a]], a, u)
    <3>1. CASE Kind(u) \in Stores /\ trace[u].addr = a
      <4>1. mem_hash'[a] = acquire_entry /\ held'[acquire_entry] = u
          BY <1>3, <1>4, <3>1, FetchSlots, Zenon DEF IInv, MapType
      <4>2. u \notin freed
          BY <1>1, Zenon DEF IInv, MapType
      <4> QED
          BY <1>1, <3>1, <4>1, <4>2 DEF LastStore
    <3>2. CASE ~(Kind(u) \in Stores /\ trace[u].addr = a)
      <4>1. mem_hash'[a] = mem_hash[a]
          BY <1>4, <3>2, Zenon DEF IInv, MapType
      <4>2. mem_hash[a] \in 1..Len(held) /\ Len(held) \in Nat
        <5>1. mem_hash[a] \in 0..Len(held) /\ Len(held) \in Nat
            BY DEF IInv, MapType
        <5> QED
            BY <2>3, <4>1, <5>1
      <4>3. held[mem_hash[a]] \notin freed /\ LastStore(held[mem_hash[a]], a, fetched)
          BY <2>3, <4>1, Zenon DEF IInv, StoresRight
      <4>4. mem_hash[a] # acquire_entry /\ mem_hash[a] \in 1..Len(held')
        <5>1. /\ acquire_entry \in 1..Len(held) => held[acquire_entry] \in freed
              /\ Len(held') \in Nat /\ Len(held) <= Len(held')
            BY FetchSlots, Zenon
        <5>2. mem_hash[a] # acquire_entry
            BY <4>2, <4>3, <5>1, Zenon
        <5> QED
            BY ONLY <4>2, <5>1, <5>2
      <4>5. held'[mem_hash'[a]] = held[mem_hash[a]]
          BY <4>1, <4>4, FetchSlots, Zenon
      <4>6. LastStore(held[mem_hash[a]], a, u)
        <5>1. u = fetched + 1 /\ fetched \in Nat
            BY <1>1
        <5> QED
            BY ONLY <3>2, <4>3, <5>1 DEF LastStore
      <4> QED
          BY <4>3, <4>5, <4>6, Zenon
    <3> QED
        BY <3>1, <3>2, Zenon
  <2> QED
      BY <1>1, <1>2, <2>1, <2>2, <2>3, Zenon DEF StoresRight
<1>11. \A v : Writers(v)' = Writers(v) /\ Suppliers(v)' = Suppliers(v)
  <2>1. trace' = trace /\ knobs' = knobs
      BY <1>1, Zenon
  <2>2. ASSUME NEW v PROVE Writers(v)' = Writers(v)
      BY ONLY <2>1, Zenon DEF Writers
  <2>3. ASSUME NEW v PROVE Suppliers(v)' = Suppliers(v)
      BY ONLY <2>1, Zenon DEF Suppliers, Kind, BYTE_OVERLAP
  <2> QED
      BY <2>2, <2>3, Zenon
<1>12. ASSUME NEW v \in 1..fetched
       PROVE  Writers(v) \subseteq 1..fetched /\ Suppliers(v) \subseteq 1..fetched
  <2>1. Writers(v) \subseteq 1..(v - 1)
      BY Zenon DEF Writers
  <2>2. Suppliers(v) \subseteq 1..(v - 1)
      BY Zenon DEF Suppliers
  <2>3. 1..(v - 1) \subseteq 1..fetched
      BY <1>1
  <2> QED
      BY <2>1, <2>2, <2>3, Zenon
<1>13. \A v, s \in 1..fetched : Mistaken(v, s)' = Mistaken(v, s) /\ srcs'[v] = srcs[v]
    BY <1>5, FetchAppends, Zenon DEF Mistaken
<1>14. SourcesRight'
  <2>1. ASSUME NEW v \in 1..fetched PROVE HasSources(v)'
      BY <1>1, <1>5, <1>11, <1>12, <1>13 DEF IInv, SourcesRight, HasSources
  <2>2. HasSources(u)'
    <3>1. srcs'[u] = AllSources(u) /\ RegisterSources(u) \subseteq AllSources(u)
        BY <1>1, FetchAppends, SourceTypes, Zenon
    <3>2. Writers(u) \subseteq 1..fetched /\ Suppliers(u) \subseteq 1..fetched
        BY <1>1 DEF Writers, Suppliers
    <3>3. ASSUME NEW w \in Writers(u) PROVE Source(w) \in srcs'[u]
      <4>1. trace[u].src \in Registers \ {0} /\ LastWriter(w, trace[u].src, fetched)
          BY <1>1, <1>3 DEF Writers, LastWriter
      <4>2. reg_map[trace[u].src] = Source(w)
          BY <3>2, <4>1 DEF IInv, RegistersRight
      <4> QED
          BY <3>1, <4>1, <4>2, Zenon DEF RegisterSources
    <3>4. ASSUME NEW s \in Suppliers(u), s \notin freed
          PROVE  Source(s) \in srcs'[u] \/ Mistaken(u, s)'
      <4>1. Kind(u) \in Loads
          BY Zenon DEF Suppliers
      <4>2. CASE Source(s) \in AllSources(u)
          BY <3>1, <4>2, Zenon
      <4>3. CASE \E i \in RegisterSources(u) : i.slot = slot[s] \/ Number(s) = 0
        <5>1. \E i \in srcs'[u] : i.slot = slot'[s] \/ Number(s) = 0
            BY <1>5, <3>1, <3>2, <4>3, Zenon
        <5>2. [slot |-> slot'[s], num |-> Number(s)] = Source(s)
            BY <1>5, <3>2, Zenon DEF Source
        <5> QED
            BY <5>1, <5>2, Zenon DEF Mistaken, Number
      <4> QED
          BY <1>1, <3>4, <4>1, <4>2, <4>3, StoreSources, Zenon
    <3> QED
        BY <1>1, <1>5, <1>11, <3>2, <3>3, <3>4, Zenon DEF HasSources
  <2> QED
      BY <1>1, <2>1, <2>2, Zenon DEF SourcesRight
<1>15. SourcesAreDone'
    BY <1>1, <1>11, <1>12, <1>13, Zenon DEF IInv, MapType, SourcesAreDone
<1> QED
    BY <1>6, <1>7, <1>8, <1>9, <1>10, <1>14, <1>15 DEF IInv

-----------------------------------------------------------------------------
(* The theorem                                                             *)

LEMMA StutterStep == IInv /\ UNCHANGED <<fixed, mapVars, executed, done>> => IInv'
<1> SUFFICES ASSUME IInv, UNCHANGED <<trace, knobs, fetched, freed, slot, held, pool, reg_map,
                                      mem_hash, srcs, executed, done>>
             PROVE  IInv'
    BY Zenon DEF fixed, mapVars
<1>1. MapType'
    BY Zenon DEF IInv, MapType, Registers, Addresses
<1>2. /\ SlotsRight' /\ PoolRight' /\ RegistersRight' /\ StoresRight' /\ SourcesRight'
      /\ \A v : Writers(v)' = Writers(v) /\ Suppliers(v)' = Suppliers(v)
      /\ \A v, s : Mistaken(v, s)' = Mistaken(v, s)
    BY MappingKept, Zenon
<1>3. SourcesAreDone'
    BY <1>2 DEF IInv, SourcesAreDone
<1> QED
    BY <1>1, <1>2, <1>3, Zenon DEF IInv

\* The invariant holds in every state of a core that keeps MapSpec.
LEMMA MapAlways == MapSpec => []IInv
<1>1. MapInit => IInv
    BY InitHolds
<1>2. IInv /\ [MapNext]_<<fixed, mapVars, executed, done>> => IInv'
    BY FetchStep, IssueStep, FinishStep, FreeStep, StutterStep DEF MapNext
<1> QED
    BY <1>1, <1>2, PTL DEF MapSpec

\* For every trace, every setting of KNOB_MEM_OOO_STORES and every order in
\* which finished uops are freed, a uop is issued only when the last writer of
\* its source register is done, and a load only when the stores in flight
\* that supply it are, up to the stores the duplicate test of
\* map_c::add_src_from_uop misses; however the slots of the uop pool are
\* handed out again (map_c, schedule_c::check_srcs, pool_c).
THEOREM SourcesAlwaysDone == MapSpec => []SourcesAreDone
<1>1. IInv => SourcesAreDone
    BY Zenon DEF IInv
<1> QED
    BY <1>1, MapAlways, PTL

-----------------------------------------------------------------------------
(* The reorder buffer                                                      *)

Size == 2 * RobSize
Filled == {e \in Index : rob[e] # 0}
Retired == 1..(allocated - entries)

Ring ==
    /\ fetched \in Nat /\ allocated \in 0..fetched
    /\ free \in 0..RobSize /\ entries <= allocated
    /\ first \in Index /\ last = (first + entries) % Size
    /\ rob \in [Index -> 0..allocated]
    /\ \A k \in 0..(entries - 1) : rob[(first + k) % Size] = allocated - entries + 1 + k

\* Entries wait in the queues while they are in the ring.
Waiting ==
    /\ sched \in Seq(Filled)
    /\ alloc_q \in [Queue -> Seq(Filled)]
    /\ num_per_sched \in [Queue -> Int]

\* Only retired uops are freed, and the write buffer has others than those.
WriteBuffer ==
    /\ freed \subseteq Retired
    /\ scan \in Nat \ {0}
    /\ wb \in Seq(Retired \ freed)
    /\ \A i, j \in 1..Len(wb) : wb[i] = wb[j] => i = j

BInv == Ring /\ Waiting /\ WriteBuffer

-----------------------------------------------------------------------------
(* Rings and sequences                                                     *)

LEMMA Sizes == RobSize \in Nat \ {0} /\ SchedSize \in Nat \ {0} /\ SchedRate \in Nat \ {0}
    BY BackendAssumption

LEMMA Wraps ==
    ASSUME NEW M \in Nat \ {0}, NEW x \in 0..(2 * M - 1)
    PROVE  x % M = IF x < M THEN x ELSE x - M
    OBVIOUS

LEMMA RingPush ==
    ASSUME NEW N \in Nat \ {0}, NEW M \in Nat \ {0}, M = 2 * N, NEW f \in 0..(M - 1), NEW n \in 0..(N - 1)
    PROVE  /\ (f + n) % M \in 0..(M - 1)
           /\ (((f + n) % M) + 1) % M = (f + (n + 1)) % M
           /\ \A k \in 0..(n - 1) : (f + k) % M # (f + n) % M /\ (f + k) % M \in 0..(M - 1)
<1>1. \A x \in 0..(2 * M - 1) : x % M = IF x < M THEN x ELSE x - M
    BY Wraps, Zenon
<1>2. \A k \in 0..(n + 1) : f + k \in 0..(2 * M - 1)
    OBVIOUS
<1>3. \A k \in 0..(n + 1) : (f + k) % M = IF f + k < M THEN f + k ELSE f + k - M
    BY <1>1, <1>2
<1>4. (f + (n + 1)) % M = IF f + (n + 1) < M THEN f + (n + 1) ELSE f + (n + 1) - M
  <2>1. n + 1 \in 0..(n + 1)
      OBVIOUS
  <2> QED
      BY ONLY <1>3, <2>1, Zenon
<1>5. (f + n) % M \in 0..(M - 1)
    BY <1>3
<1>6. (((f + n) % M) + 1) % M = IF ((f + n) % M) + 1 < M THEN ((f + n) % M) + 1 ELSE ((f + n) % M) + 1 - M
    BY <1>1, <1>5
<1> QED
    BY <1>3, <1>4, <1>5, <1>6

LEMMA RingPop ==
    ASSUME NEW N \in Nat \ {0}, NEW M \in Nat \ {0}, M = 2 * N, NEW f \in 0..(M - 1), NEW n \in 1..N
    PROVE  /\ (f + 1) % M \in 0..(M - 1) /\ (f + 0) % M = f
           /\ (((f + 1) % M) + (n - 1)) % M = (f + n) % M
           /\ \A k \in 0..(n - 2) : (((f + 1) % M) + k) % M = (f + (k + 1)) % M
<1>1. \A x \in 0..(2 * M - 1) : x % M = IF x < M THEN x ELSE x - M
    BY Wraps, Zenon
<1>2. (f + 1) % M = IF f + 1 < M THEN f + 1 ELSE f + 1 - M
  <2>1. f + 1 \in 0..(2 * M - 1)
      OBVIOUS
  <2> QED
      BY <1>1, <2>1
<1>3. ASSUME NEW k \in 0..(n - 1) PROVE (((f + 1) % M) + k) % M = (f + (k + 1)) % M
  <2>1. (f + (k + 1)) % M = IF f + (k + 1) < M THEN f + (k + 1) ELSE f + (k + 1) - M
    <3>1. f + (k + 1) \in 0..(2 * M - 1)
        OBVIOUS
    <3> QED
        BY ONLY <1>1, <3>1
  <2>2. (((f + 1) % M) + k) % M
        = IF ((f + 1) % M) + k < M THEN ((f + 1) % M) + k ELSE ((f + 1) % M) + k - M
      BY <1>1, <1>2
  <2> QED
      BY <1>2, <2>1, <2>2
<1>4. (f + 0) % M = f
    BY <1>1
<1>5. n - 1 \in 0..(n - 1) /\ (n - 1) + 1 = n /\ \A k \in 0..(n - 2) : k \in 0..(n - 1)
    OBVIOUS
<1>6. \A k \in 0..(n - 1) : (((f + 1) % M) + k) % M = (f + (k + 1)) % M
    BY <1>3
<1>7. (((f + 1) % M) + (n - 1)) % M = (f + n) % M
    BY ONLY <1>5, <1>6, Zenon
<1>8. (f + 1) % M \in 0..(M - 1)
    BY <1>2
<1> QED
    BY ONLY <1>4, <1>5, <1>6, <1>7, <1>8, Zenon

LEMMA Subsequence ==
    ASSUME NEW S, NEW s \in Seq(S), NEW m \in 0..Len(s)
    PROVE  SubSeq(s, 1, m) \in Seq(S) /\ SubSeq(s, m + 1, Len(s)) \in Seq(S)
    OBVIOUS

LEMMA Concatenation ==
    ASSUME NEW S, NEW s \in Seq(S), NEW t \in Seq(S)
    PROVE  s \o t \in Seq(S) /\ Len(s \o t) = Len(s) + Len(t) /\ Len(s) \in Nat /\ Len(t) \in Nat
    OBVIOUS

LEMMA Removed ==
    ASSUME NEW S, NEW s \in Seq(S), NEW i \in 1..Len(s)
    PROVE  /\ Erased(s, i) \in Seq(S) /\ Len(Erased(s, i)) = Len(s) - 1
           /\ \A k \in 1..(Len(s) - 1) : Erased(s, i)[k] = IF k < i THEN s[k] ELSE s[k + 1]
<1>1. /\ SubSeq(s, 1, i - 1) \in Seq(S) /\ Len(SubSeq(s, 1, i - 1)) = i - 1
      /\ \A k \in 1..(i - 1) : SubSeq(s, 1, i - 1)[k] = s[k]
    OBVIOUS
<1>2. /\ SubSeq(s, i + 1, Len(s)) \in Seq(S) /\ Len(SubSeq(s, i + 1, Len(s))) = Len(s) - i
      /\ \A k \in 1..(Len(s) - i) : SubSeq(s, i + 1, Len(s))[k] = s[i + k]
    OBVIOUS
<1> DEFINE a == SubSeq(s, 1, i - 1)
           b == SubSeq(s, i + 1, Len(s))
<1>3. Erased(s, i) = a \o b
    BY DEF Erased
<1>4. /\ a \in Seq(S) /\ b \in Seq(S) /\ Len(a) = i - 1 /\ Len(b) = Len(s) - i
      /\ \A k \in 1..(i - 1) : a[k] = s[k]
      /\ \A k \in 1..(Len(s) - i) : b[k] = s[i + k]
    BY <1>1, <1>2
<1> HIDE DEF a, b
<1>5. a \o b \in Seq(S) /\ Len(a \o b) = Len(s) - 1
  <2>1. a \o b \in Seq(S) /\ Len(a \o b) = Len(a) + Len(b)
      BY ONLY <1>4, Concatenation, Zenon
  <2> QED
      BY <1>4, <2>1
<1>6. ASSUME NEW k \in 1..(Len(s) - 1)
      PROVE  (a \o b)[k] = IF k < i THEN s[k] ELSE s[k + 1]
  <2>1. CASE k < i
      BY <1>4, <1>5, <2>1
  <2>2. CASE ~(k < i)
    <3>1. k - (i - 1) \in 1..(Len(s) - i) /\ i + (k - (i - 1)) = k + 1
        BY <2>2
    <3>2. (a \o b)[k] = b[k - (i - 1)]
        BY <1>4, <1>5, <2>2
    <3> QED
        BY <1>4, <2>2, <3>1, <3>2, Zenon
  <2> QED
      BY <2>1, <2>2, Zenon
<1> QED
    BY <1>3, <1>5, <1>6, Zenon

-----------------------------------------------------------------------------
(* The invariant                                                           *)

LEMMA SizeType == Size \in Nat \ {0} /\ Index = 0..(Size - 1) /\ Size = 2 * RobSize
    BY Sizes DEF Size, Index

LEMMA InitInv == Init => BInv
<1> SUFFICES ASSUME Init PROVE BInv
    OBVIOUS
<1>1. entries = 0
    BY Sizes DEF Init, entries
<1>2. (0 + 0) % Size = 0
    BY SizeType, Wraps
<1>3. Ring
    BY <1>1, <1>2, Sizes, SizeType DEF Init, MapInit, Ring
<1>4. Waiting
    BY DEF Init, Waiting
<1>5. WriteBuffer
    BY <1>1 DEF Init, MapInit, WriteBuffer, Retired
<1> QED
    BY <1>3, <1>4, <1>5 DEF BInv

\* Steps that leave the ring alone.
LEMMA RingKept ==
    ASSUME Ring, UNCHANGED <<fetched, allocated, robVars>>
    PROVE  Ring' /\ Filled' = Filled /\ Retired' = Retired
<1>1. UNCHANGED <<fetched, allocated, rob, first, last, free>>
    BY Zenon DEF robVars
<1> QED
    BY <1>1 DEF Ring, Filled, Retired, entries, Size, Index

LEMMA QuietStep ==
    ASSUME BInv, UNCHANGED <<fetched, allocated, robVars, freed, alloc_q, sched, num_per_sched, wb>>,
           scan' \in Nat \ {0}
    PROVE  BInv'
<1>1. Ring' /\ Filled' = Filled /\ Retired' = Retired
    BY RingKept, Zenon DEF BInv
<1> QED
    BY <1>1, Zenon DEF BInv, Waiting, WriteBuffer, Queue

LEMMA FetchUop ==
    ASSUME BInv, fetch_uop
    PROVE  BInv'
<1>1. /\ fetched' = fetched + 1 /\ freed' = freed
      /\ UNCHANGED <<allocated, rob, first, last, free, alloc_q, sched, num_per_sched, scan, wb>>
    BY Zenon DEF fetch_uop, fetch, robVars, schedVars, wbVars
<1>2. Ring'
    BY <1>1, Sizes DEF BInv, Ring, entries, Size, Index
<1>3. Filled' = Filled /\ Retired' = Retired
    BY <1>1, Zenon DEF Filled, Retired, entries, Index
<1> QED
    BY <1>1, <1>2, <1>3, Zenon DEF BInv, Waiting, WriteBuffer, Queue

\* Issued entries leave the scheduler's list.
LEMMA Scheduled ==
    ASSUME BInv, NEW i \in 1..Len(sched), NEW issued \in BOOLEAN, uop_schedule(i, issued)
    PROVE  /\ sched' \in Seq(Filled)
           /\ \/ executed' = executed
              \/ /\ rob[sched[i]] \in 1..fetched /\ check_srcs(rob[sched[i]])
                 /\ executed' = executed \cup {rob[sched[i]]}
<1>1. sched \in Seq(Filled) /\ sched[i] \in Filled
    BY DEF BInv, Waiting
<1>2. rob[sched[i]] \in 1..fetched
    BY <1>1 DEF BInv, Ring, Filled
<1>3. Erased(sched, i) \in Seq(Filled)
    BY <1>1, Removed
<1>4. sched' = sched \/ sched' = Erased(sched, i)
    BY Zenon DEF uop_schedule
<1>5. executed' = executed \/ /\ check_srcs(rob[sched[i]])
                              /\ executed' = executed \cup {rob[sched[i]]}
    BY Zenon DEF uop_schedule, schedulable
<1> QED
    BY <1>1, <1>2, <1>3, <1>4, <1>5, Zenon

LEMMA ScheduleStep ==
    ASSUME BInv, schedule_ooo \/ schedule_io
    PROVE  /\ BInv'
           /\ MapIssue \/ UNCHANGED <<fixed, mapVars, executed, done>>
<1>1. UNCHANGED <<trace, knobs, done, mapVars, allocated, robVars, alloc_q, wb>>
    BY DEF schedule_ooo, schedule_io, wbVars
<1>2. scan \in Nat \ {0} /\ Len(sched) \in Nat
    BY DEF BInv, WriteBuffer, Waiting
<1>3. \E i \in 1..Len(sched), issued \in BOOLEAN : uop_schedule(i, issued)
  <2>1. CASE schedule_ooo
      BY <1>2, <2>1 DEF schedule_ooo
  <2>2. CASE schedule_io
    <3>1. DOMAIN sched = 1..Len(sched)
        BY DEF BInv, Waiting
    <3> QED
        BY <2>2, <3>1 DEF schedule_io
  <2> QED
      BY <2>1, <2>2, Zenon
<1>4. PICK i \in 1..Len(sched), issued \in BOOLEAN : uop_schedule(i, issued)
    BY <1>3, Zenon
<1>5. scan' \in Nat \ {0}
    BY <1>2 DEF schedule_ooo, schedule_io
<1>6. sched' \in Seq(Filled)
    BY <1>4, Scheduled, Zenon
<1>9. num_per_sched' \in [Queue -> Int]
  <2>1. num_per_sched \in [Queue -> Int]
      BY DEF BInv, Waiting
  <2>2. \/ UNCHANGED num_per_sched
        \/ num_per_sched' = [num_per_sched EXCEPT ![allocq(rob[sched[i]])] = @ - 1]
      BY <1>4, Zenon DEF uop_schedule
  <2> QED
      BY ONLY <2>1, <2>2
<1>7. BInv'
  <2>1. Ring' /\ Filled' = Filled /\ Retired' = Retired
      BY <1>1, RingKept, Zenon DEF BInv, mapVars
  <2> QED
      BY <1>1, <1>5, <1>6, <1>9, <2>1, Zenon DEF BInv, Waiting, WriteBuffer, Queue, mapVars
<1>8. MapIssue \/ UNCHANGED <<fixed, mapVars, executed, done>>
    BY <1>1, <1>4, Scheduled, Zenon DEF MapIssue, fixed
<1> QED
    BY <1>7, <1>8, Zenon

LEMMA MovedBounded ==
    ASSUME BInv, NEW q \in Queue
    PROVE  Moved(q) \in 0..Len(alloc_q[q])
<1>1. Len(alloc_q[q]) \in Nat /\ num_per_sched[q] \in Int
    BY DEF BInv, Waiting
<1> QED
    BY <1>1, Sizes DEF Moved

LEMMA AdvanceStep ==
    ASSUME BInv, advance
    PROVE  BInv'
<1>1. /\ UNCHANGED <<mapVars, allocated, robVars, wb>> /\ scan' = 1
      /\ num_per_sched' = [q \in Queue |-> num_per_sched[q] + Moved(q)]
      /\ sched' = sched \o SubSeq(alloc_q["gen"], 1, Moved("gen"))
                        \o SubSeq(alloc_q["mem"], 1, Moved("mem"))
      /\ alloc_q' = [q \in Queue |-> SubSeq(alloc_q[q], Moved(q) + 1, Len(alloc_q[q]))]
    BY Zenon DEF advance, wbVars
<1>2. sched \in Seq(Filled) /\ alloc_q \in [Queue -> Seq(Filled)] /\ {"gen", "mem"} \subseteq Queue
    BY DEF BInv, Waiting, Queue, Queues, Range
<1>3. \A q \in Queue : Moved(q) \in 0..Len(alloc_q[q])
    BY MovedBounded
<1>4. ASSUME NEW q \in Queue
      PROVE  /\ SubSeq(alloc_q[q], 1, Moved(q)) \in Seq(Filled)
             /\ SubSeq(alloc_q[q], Moved(q) + 1, Len(alloc_q[q])) \in Seq(Filled)
  <2>1. alloc_q[q] \in Seq(Filled) /\ Moved(q) \in 0..Len(alloc_q[q])
      BY <1>2, <1>3, Zenon
  <2> QED
      BY ONLY <2>1, Subsequence, Zenon
<1>5. sched' \in Seq(Filled)
  <2>1. /\ SubSeq(alloc_q["gen"], 1, Moved("gen")) \in Seq(Filled)
        /\ SubSeq(alloc_q["mem"], 1, Moved("mem")) \in Seq(Filled)
      BY <1>2, <1>4
  <2>2. sched \o SubSeq(alloc_q["gen"], 1, Moved("gen")) \in Seq(Filled)
      BY ONLY <1>2, <2>1, Concatenation, Zenon
  <2> QED
      BY ONLY <1>1, <2>1, <2>2, Concatenation, Zenon
<1>6. alloc_q' \in [Queue -> Seq(Filled)]
    BY <1>1, <1>4, Zenon
<1>7. Ring' /\ Filled' = Filled /\ Retired' = Retired
    BY <1>1, RingKept, Zenon DEF BInv, mapVars
<1>8. num_per_sched' \in [Queue -> Int]
  <2>1. num_per_sched \in [Queue -> Int] /\ \A q \in Queue : Moved(q) \in Int
      BY <1>2, <1>3 DEF BInv, Waiting
  <2> QED
      BY ONLY <1>1, <2>1
<1> QED
    BY <1>1, <1>5, <1>6, <1>7, <1>8 DEF BInv, Waiting, WriteBuffer, Queue, mapVars

LEMMA SeqGrows ==
    ASSUME NEW S, NEW T, S \subseteq T, NEW s \in Seq(S)
    PROVE  s \in Seq(T)
    OBVIOUS

LEMMA AllocateStep ==
    ASSUME BInv, allocate_uop
    PROVE  BInv'
<1> DEFINE u == allocated + 1
           q == allocq(u)
<1>1. /\ allocated < fetched /\ free > 0
      /\ alloc_q' = [alloc_q EXCEPT ![q] = Append(@, last)]
      /\ rob' = [rob EXCEPT ![last] = u]
      /\ last' = (last + 1) % Size /\ free' = free - 1 /\ allocated' = u
      /\ UNCHANGED <<first, sched, num_per_sched, scan, wb, fetched, freed>>
    BY Zenon DEF allocate_uop, inc_index, mapVars, wbVars, Size
<1>2. /\ fetched \in Nat /\ allocated \in 0..fetched /\ free \in 0..RobSize
      /\ entries <= allocated /\ first \in Index /\ last = (first + entries) % Size
      /\ rob \in [Index -> 0..allocated]
      /\ \A k \in 0..(entries - 1) : rob[(first + k) % Size] = allocated - entries + 1 + k
    BY Zenon DEF BInv, Ring
<1>3. /\ entries \in 0..(RobSize - 1) /\ entries' = entries + 1
      /\ allocated' - entries' = allocated - entries /\ Retired' = Retired
    BY <1>1, <1>2, Sizes DEF entries, Retired
<1>4. /\ last \in Index /\ (last + 1) % Size = (first + (entries + 1)) % Size
      /\ \A k \in 0..(entries - 1) : (first + k) % Size # last /\ (first + k) % Size \in Index
  <2> DEFINE n == entries
  <2>1. n \in 0..(RobSize - 1) /\ first \in 0..(Size - 1) /\ RobSize \in Nat \ {0}
        /\ Size \in Nat \ {0} /\ Size = 2 * RobSize
      BY <1>2, <1>3, SizeType, Sizes, Zenon
  <2> HIDE DEF n
  <2>2. /\ (first + n) % Size \in 0..(Size - 1)
        /\ (((first + n) % Size) + 1) % Size = (first + (n + 1)) % Size
        /\ \A k \in 0..(n - 1) : /\ (first + k) % Size # (first + n) % Size
                                /\ (first + k) % Size \in 0..(Size - 1)
      BY ONLY <2>1, RingPush
  <2> QED
      BY ONLY <1>2, <2>2, SizeType, Zenon DEF n
<1>5. rob' \in [Index -> 0..allocated'] /\ rob'[last] = u
      /\ \A e \in Index : e # last => rob'[e] = rob[e]
    BY <1>1, <1>2, <1>4
<1>6. \A k \in 0..(entries' - 1) : rob'[(first + k) % Size] = allocated' - entries' + 1 + k
  <2> SUFFICES ASSUME NEW k \in 0..entries
               PROVE  rob'[(first + k) % Size] = allocated - entries + 1 + k
      BY <1>3
  <2>1. CASE k = entries
      BY <1>2, <1>3, <1>5, <2>1
  <2>2. CASE k # entries
    <3>1. k \in 0..(entries - 1)
        BY <1>3, <2>2
    <3> QED
        BY <1>2, <1>4, <1>5, <3>1, Zenon
  <2> QED
      BY <2>1, <2>2, Zenon
<1>7. Ring'
  <2>1. free' \in 0..RobSize /\ entries' <= allocated' /\ allocated' \in 0..fetched'
      BY <1>1, <1>2, <1>3, Sizes
  <2>2. last' = (first' + entries') % Size
      BY <1>1, <1>3, <1>4, Zenon
  <2> QED
      BY <1>1, <1>2, <1>5, <1>6, <2>1, <2>2, Zenon DEF Ring, Size, Index
<1>8. Filled \subseteq Filled' /\ last \in Filled'
  <2>1. u # 0 /\ Index' = Index
      BY <1>2 DEF Index
  <2> QED
      BY <1>4, <1>5, <2>1, Zenon DEF Filled
<1>9. Waiting'
  <2>1. sched \in Seq(Filled) /\ alloc_q \in [Queue -> Seq(Filled)] /\ Queue' = Queue
        /\ num_per_sched' \in [Queue -> Int]
      BY <1>1, Zenon DEF BInv, Waiting, Queue, Queues
  <2>2. sched' \in Seq(Filled')
      BY <1>1, <1>8, <2>1, SeqGrows, Zenon
  <2>3. ASSUME NEW r \in Queue PROVE alloc_q[r] \in Seq(Filled')
    <3>1. alloc_q[r] \in Seq(Filled)
        BY <2>1
    <3> QED
        BY ONLY <1>8, <3>1, SeqGrows, Zenon
  <2>4. ASSUME NEW r \in Queue PROVE Append(alloc_q[r], last) \in Seq(Filled')
      BY <1>8, <2>3
  <2>5. alloc_q' \in [Queue -> Seq(Filled')]
    <3> HIDE DEF q
    <3> QED
        BY <1>1, <2>1, <2>3, <2>4, Zenon
  <2> QED
      BY <2>1, <2>2, <2>5, Zenon DEF Waiting
<1>10. WriteBuffer'
    BY <1>1, <1>3, Zenon DEF BInv, WriteBuffer
<1> QED
    BY <1>7, <1>9, <1>10, Zenon DEF BInv

\* The front of the ring is the oldest uop that has not retired.
LEMMA PopStep ==
    ASSUME Ring, entries > 0, pop, UNCHANGED <<rob, last, allocated, fetched>>
    PROVE  /\ Ring' /\ Filled' = Filled
           /\ Retired' = Retired \cup {front} /\ front \notin Retired
<1>1. /\ fetched \in Nat /\ allocated \in 0..fetched /\ free \in 0..RobSize
      /\ entries <= allocated /\ first \in Index /\ last = (first + entries) % Size
      /\ rob \in [Index -> 0..allocated]
      /\ \A k \in 0..(entries - 1) : rob[(first + k) % Size] = allocated - entries + 1 + k
    BY Zenon DEF Ring
<1>2. first' = (first + 1) % Size /\ free' = free + 1
    BY Zenon DEF pop, inc_index, Size
<1>3. entries \in 1..RobSize /\ entries' = entries - 1
    BY <1>1, <1>2, Sizes DEF entries
<1>4. /\ first' \in Index /\ (first + 0) % Size = first
      /\ (first' + (entries - 1)) % Size = (first + entries) % Size
      /\ \A k \in 0..(entries - 2) : (first' + k) % Size = (first + (k + 1)) % Size
  <2> DEFINE n == entries
  <2>1. n \in 1..RobSize /\ first \in 0..(Size - 1) /\ RobSize \in Nat \ {0}
        /\ Size \in Nat \ {0} /\ Size = 2 * RobSize
      BY <1>1, <1>3, SizeType, Sizes, Zenon
  <2> HIDE DEF n
  <2>2. (first + 1) % Size \in 0..(Size - 1) /\ (first + 0) % Size = first
      BY ONLY <2>1, RingPop
  <2>3. (((first + 1) % Size) + (n - 1)) % Size = (first + n) % Size
      BY ONLY <2>1, RingPop
  <2>4. \A k \in 0..(n - 2) : (((first + 1) % Size) + k) % Size = (first + (k + 1)) % Size
      BY ONLY <2>1, RingPop
  <2> QED
      BY ONLY <1>2, <2>2, <2>3, <2>4, SizeType, Zenon DEF n
<1>5. front = allocated - entries + 1
  <2>1. 0 \in 0..(entries - 1)
      BY <1>3
  <2>2. rob[(first + 0) % Size] = allocated - entries + 1 + 0
      BY ONLY <1>1, <2>1, Zenon
  <2> QED
      BY <1>1, <1>3, <1>4, <2>2 DEF front
<1>6. \A k \in 0..(entries' - 1) : rob[(first' + k) % Size] = allocated - entries' + 1 + k
  <2> SUFFICES ASSUME NEW k \in 0..(entries - 2)
               PROVE  rob[(first' + k) % Size] = allocated - (entries - 1) + 1 + k
      BY <1>3
  <2>1. k + 1 \in 0..(entries - 1)
      BY <1>3
  <2>2. rob[(first + (k + 1)) % Size] = allocated - entries + 1 + (k + 1)
      BY ONLY <1>1, <2>1, Zenon
  <2> QED
      BY <1>1, <1>3, <1>4, <2>2
<1>7. Ring'
  <2>1. free' \in 0..RobSize /\ entries' <= allocated'
      BY <1>1, <1>2, <1>3, Sizes DEF entries
  <2>2. last' = (first' + entries') % Size
      BY <1>1, <1>3, <1>4, Zenon
  <2> QED
      BY <1>1, <1>4, <1>6, <2>1, <2>2, Zenon DEF Ring, Size, Index
<1>8. Retired' = Retired \cup {front} /\ front \notin Retired
    BY <1>1, <1>3, <1>5 DEF Retired
<1> QED
    BY <1>7, <1>8, Zenon DEF Filled, Index

Distinct(s) == \A i, j \in 1..Len(s) : s[i] = s[j] => i = j

LEMMA AppendDistinct ==
    ASSUME NEW S, NEW T, S \subseteq T, NEW s \in Seq(S), Distinct(s), NEW x \in T \ S
    PROVE  Append(s, x) \in Seq(T) /\ Distinct(Append(s, x))
<1>1. s \in Seq(T)
    BY SeqGrows, Zenon
<1>2. /\ Append(s, x) \in Seq(T) /\ Len(Append(s, x)) = Len(s) + 1 /\ Len(s) \in Nat
      /\ Append(s, x)[Len(s) + 1] = x
      /\ \A i \in 1..Len(s) : Append(s, x)[i] = s[i] /\ s[i] # x
    BY <1>1
<1> QED
    BY <1>2 DEF Distinct

LEMMA RemoveDistinct ==
    ASSUME NEW S, NEW s \in Seq(S), Distinct(s), NEW i \in 1..Len(s)
    PROVE  Erased(s, i) \in Seq(S \ {s[i]}) /\ Distinct(Erased(s, i))
<1> DEFINE r == Erased(s, i)
<1>1. /\ r \in Seq(S) /\ Len(r) = Len(s) - 1
      /\ \A k \in 1..(Len(s) - 1) : r[k] = IF k < i THEN s[k] ELSE s[k + 1]
    BY Removed, Zenon
<1> HIDE DEF r
<1>2. Len(s) \in Nat
    OBVIOUS
<1>3. \A k \in 1..Len(r) : r[k] # s[i]
    BY <1>1, <1>2 DEF Distinct
<1>4. Distinct(r)
    BY <1>1, <1>2 DEF Distinct
<1>5. r \in Seq(S \ {s[i]})
    BY <1>1, <1>3
<1> QED
    BY <1>4, <1>5 DEF r

LEMMA RetireStep ==
    ASSUME BInv, retire_uop
    PROVE  /\ BInv'
           /\ MapFree \/ UNCHANGED <<fixed, mapVars, executed, done>>
<1>1. /\ entries > 0 /\ pop /\ UNCHANGED <<rob, last, allocated, alloc_q, sched, num_per_sched, scan>>
      /\ UNCHANGED <<trace, knobs, executed, done>>
    BY Zenon DEF retire_uop, can_retire, schedVars
<1>2. fetched' = fetched
    BY Zenon DEF retire_uop, mapVars, free_uop_resources
<1>3. /\ Ring' /\ Filled' = Filled
      /\ Retired' = Retired \cup {front} /\ front \notin Retired
    BY <1>1, <1>2, PopStep, Zenon DEF BInv
<1>4. /\ freed \subseteq Retired /\ scan \in Nat \ {0} /\ wb \in Seq(Retired \ freed) /\ Distinct(wb)
    BY Zenon DEF BInv, WriteBuffer, Distinct
<1>5. Waiting'
    BY <1>1, <1>3, Zenon DEF BInv, Waiting, Queue
<1>6. CASE knobs.use_wb /\ Kind(front) \in Stores
  <2>1. UNCHANGED mapVars /\ freed' = freed /\ (wb' = wb \/ wb' = Append(wb, front))
      BY <1>6, Zenon DEF retire_uop, mapVars
  <2>2. Retired \ freed \subseteq Retired' \ freed' /\ front \in (Retired' \ freed') \ (Retired \ freed)
      BY <1>3, <1>4, <2>1
  <2>3. wb' \in Seq(Retired' \ freed') /\ Distinct(wb')
    <3>1. wb \in Seq(Retired' \ freed')
        BY ONLY <1>4, <2>2, SeqGrows
    <3>2. Append(wb, front) \in Seq(Retired' \ freed') /\ Distinct(Append(wb, front))
        BY ONLY <1>4, <2>2, AppendDistinct, Zenon
    <3> QED
        BY <1>4, <2>1, <3>1, <3>2, Zenon
  <2> QED
      BY <1>1, <1>3, <1>4, <1>5, <2>1, <2>3, Zenon DEF BInv, WriteBuffer, Distinct, fixed
<1>7. CASE ~(knobs.use_wb /\ Kind(front) \in Stores)
  <2>1. free_uop_resources(front) /\ wb' = wb /\ front \in done
      BY <1>7, Zenon DEF retire_uop, can_retire, enters_wb
  <2>2. freed' = freed \cup {front}
      BY <2>1, Zenon DEF free_uop_resources
  <2>3. Retired' \ freed' = Retired \ freed /\ freed' \subseteq Retired'
      BY <1>3, <1>4, <2>2, Zenon
  <2>4. MapFree
      BY <1>1, <1>3, <1>4, <2>1, Zenon DEF MapFree, fixed
  <2> QED
      BY <1>1, <1>3, <1>4, <1>5, <2>1, <2>3, <2>4, Zenon DEF BInv, WriteBuffer, Distinct
<1> QED
    BY <1>6, <1>7, Zenon

LEMMA DrainStep ==
    ASSUME BInv, drain_store
    PROVE  /\ BInv'
           /\ MapFree \/ UNCHANGED <<fixed, mapVars, executed, done>>
<1>1. /\ scan <= Len(wb) /\ UNCHANGED <<trace, knobs, executed, done>>
      /\ UNCHANGED <<allocated, robVars, alloc_q, sched, num_per_sched>>
    BY Zenon DEF drain_store
<1>2. /\ freed \subseteq Retired /\ scan \in Nat \ {0} /\ wb \in Seq(Retired \ freed) /\ Distinct(wb)
    BY DEF BInv, WriteBuffer, Distinct
<1>3. scan \in 1..Len(wb) /\ Len(wb) \in Nat
    BY <1>1, <1>2
<1>4. CASE may_drain(scan)
  <2>1. /\ free_uop_resources(wb[scan]) /\ wb' = Erased(wb, scan) /\ scan' = scan
        /\ wb[scan] \in done
      BY <1>4, Zenon DEF drain_store, may_drain
  <2>2. fetched' = fetched /\ freed' = freed \cup {wb[scan]}
      BY <2>1 DEF free_uop_resources
  <2>3. wb[scan] \in Retired \ freed
      BY <1>2, <1>3
  <2>4. Ring' /\ Filled' = Filled /\ Retired' = Retired
      BY <1>1, <2>2, RingKept, Zenon DEF BInv
  <2>5. wb' \in Seq((Retired \ freed) \ {wb[scan]}) /\ Distinct(wb')
    <3>1. /\ Erased(wb, scan) \in Seq((Retired \ freed) \ {wb[scan]})
          /\ Distinct(Erased(wb, scan))
        BY ONLY <1>2, <1>3, RemoveDistinct, Zenon
    <3> QED
        BY <2>1, <3>1, Zenon
  <2>6. (Retired \ freed) \ {wb[scan]} = Retired' \ freed' /\ freed' \subseteq Retired'
      BY <1>2, <2>2, <2>3, <2>4, Zenon
  <2>7. MapFree
      BY <1>1, <2>1, <2>3, Zenon DEF MapFree, fixed
  <2> QED
      BY <1>1, <1>2, <2>1, <2>4, <2>5, <2>6, <2>7, Zenon DEF BInv, Waiting, Queue, WriteBuffer, Distinct
<1>5. CASE ~may_drain(scan)
  <2>1. /\ UNCHANGED <<wb, mapVars>> /\ scan' \in {Len(wb) + 1, scan + 1}
      BY <1>5, Zenon DEF drain_store
  <2>2. scan' \in Nat \ {0}
      BY <1>2, <1>3, <2>1
  <2>3. BInv'
      BY <1>1, <2>1, <2>2, QuietStep, Zenon DEF mapVars
  <2> QED
      BY <1>1, <2>1, <2>3, Zenon DEF fixed
<1> QED
    BY <1>4, <1>5, Zenon

-----------------------------------------------------------------------------
(* Every step of a core is a step of MapSpec, or none                      *)

LEMMA CoreStep ==
    ASSUME BInv, Next
    PROVE  BInv' /\ (MapNext \/ UNCHANGED <<fixed, mapVars, executed, done>>)
<1>1. CASE complete
  <2>1. /\ \E finished \in SUBSET (executed \ done) : done' = done \cup finished
        /\ UNCHANGED <<trace, knobs, allocated, executed, mapVars, robVars, alloc_q, sched, num_per_sched, scan, wb>>
      BY <1>1 DEF complete, schedVars, wbVars
  <2>2. scan \in Nat \ {0}
      BY Zenon DEF BInv, WriteBuffer
  <2>3. BInv'
      BY <2>1, <2>2, QuietStep, Zenon DEF mapVars
  <2>4. MapFinish
      BY <2>1 DEF MapFinish, fixed
  <2> QED
      BY <2>3, <2>4, Zenon DEF MapNext
<1>2. CASE retire_uop
    BY <1>2, RetireStep, Zenon DEF MapNext
<1>3. CASE drain_store
    BY <1>3, DrainStep, Zenon DEF MapNext
<1>4. CASE schedule_ooo \/ schedule_io
    BY <1>4, ScheduleStep, Zenon DEF MapNext
<1>5. CASE advance
    BY <1>5, AdvanceStep, Zenon DEF advance, fixed
<1>6. CASE allocate_uop
    BY <1>6, AllocateStep, Zenon DEF allocate_uop, fixed
<1>7. CASE fetch_uop
  <2>1. MapFetch
      BY <1>7, Zenon DEF fetch_uop, MapFetch, fixed
  <2> QED
      BY <1>7, <2>1, FetchUop, Zenon DEF MapNext
<1>8. CASE retire_end \/ drain_wb \/ allocate_end \/ fetch_end
  <2>1. /\ UNCHANGED <<trace, knobs, allocated, executed, done, mapVars, robVars, alloc_q, sched, num_per_sched, wb>>
        /\ scan' = scan \/ scan' = 1
      BY <1>8, Zenon DEF retire_end, drain_wb, allocate_end, fetch_end, schedVars, wbVars
  <2>2. scan' \in Nat \ {0}
      BY <2>1 DEF BInv, WriteBuffer
  <2>3. BInv'
      BY <2>1, <2>2, QuietStep, Zenon DEF mapVars
  <2> QED
      BY <2>1, <2>3, Zenon DEF fixed
<1> QED
    BY <1>1, <1>2, <1>3, <1>4, <1>5, <1>6, <1>7, <1>8, Zenon DEF Next

LEMMA CoreStepOrStutter ==
    ASSUME BInv, [Next]_vars
    PROVE  BInv' /\ [MapNext]_<<fixed, mapVars, executed, done>>
<1>1. CASE Next
    BY <1>1, CoreStep, Zenon
<1>2. CASE UNCHANGED vars
  <2>1. /\ UNCHANGED <<trace, knobs, allocated, executed, done, mapVars, robVars,
                       alloc_q, sched, num_per_sched, scan, wb>>
      BY <1>2, Zenon DEF vars, schedVars, wbVars
  <2>2. scan' \in Nat \ {0}
      BY <2>1, Zenon DEF BInv, WriteBuffer
  <2>3. BInv'
      BY <2>1, <2>2, QuietStep DEF mapVars
  <2> QED
      BY <2>1, <2>3, Zenon DEF fixed
<1> QED
    BY <1>1, <1>2, Zenon

LEMMA RingAlways == Spec => []BInv
    BY InitInv, CoreStepOrStutter, PTL DEF Spec

\* A core keeps the promise dependence tracking relies on: whatever the widths,
\* buffer sizes, scheduler and knobs, it maps uops in trace order, issues a uop
\* only when check_srcs lets it, and frees each uop once, after it is done
\* (frontend_c, schedule_c, retire_c::run_a_cycle, drain_wb).
THEOREM CoreImplementsMap == Spec => MapSpec
<1>1. BInv /\ [Next]_vars => [MapNext]_<<fixed, mapVars, executed, done>>
    BY CoreStepOrStutter, Zenon
<1>2. Init => MapInit
    BY DEF Init
<1> QED
    BY <1>1, <1>2, RingAlways, PTL DEF Spec, MapSpec

\* On a core, too, no uop is issued before the writer of its register and, for
\* a load, the stores that supply it are done (map_c, schedule_c::check_srcs).
THEOREM CoreSourcesDone == Spec => []SourcesAreDone
    BY CoreImplementsMap, SourcesAlwaysDone, PTL

-----------------------------------------------------------------------------
(* Live entries of the ring hold uops that have not retired                *)

Live == {e \in Index : InRob(e) < entries}

\* The entry k places after entry f of a ring of M, and how far e is from f.
Place(f, k, M) == (f + k) % M
Distance(e, f, M) == (e - f) % M

LEMMA RelativeIndex ==
    ASSUME NEW M \in Nat \ {0}, NEW f \in 0..(M - 1)
    PROVE  /\ \A e \in 0..(M - 1) : Distance(e, f, M) \in 0..(M - 1) /\ Place(f, Distance(e, f, M), M) = e
           /\ \A k \in 0..(M - 1) : Place(f, k, M) \in 0..(M - 1) /\ Distance(Place(f, k, M), f, M) = k
<1>1. \A x \in 0..(2 * M - 1) : x % M = IF x < M THEN x ELSE x - M
    BY Wraps, Zenon
<1>2. ASSUME NEW e \in 0..(M - 1) PROVE (e - f) % M = IF e < f THEN e - f + M ELSE e - f
    OBVIOUS
<1>3. ASSUME NEW e \in 0..(M - 1) PROVE (e - f) % M \in 0..(M - 1) /\ (f + ((e - f) % M)) % M = e
    BY <1>1, <1>2
<1>4. ASSUME NEW k \in 0..(M - 1) PROVE (f + k) % M \in 0..(M - 1) /\ (((f + k) % M) - f) % M = k
  <2>1. (f + k) % M = IF f + k < M THEN f + k ELSE f + k - M
      BY <1>1
  <2>2. (f + k) % M \in 0..(M - 1)
      BY <2>1
  <2>3. (((f + k) % M) - f) % M = IF (f + k) % M < f THEN ((f + k) % M) - f + M ELSE ((f + k) % M) - f
      BY <1>2, <2>2, Zenon
  <2> QED
      BY <2>1, <2>2, <2>3
<1> QED
    BY <1>3, <1>4 DEF Place, Distance

\* What becomes of the distances when the ring's start moves on.
LEMMA NextPlace ==
    ASSUME NEW M \in Nat \ {0}, NEW f \in 0..(M - 1), NEW g, g = Place(f, 1, M)
    PROVE  /\ Distance(f, f, M) = 0 /\ Distance(f, g, M) = M - 1
           /\ \A e \in 0..(M - 1) : e # f => Distance(e, g, M) = Distance(e, f, M) - 1
<1>1. g = IF f + 1 < M THEN f + 1 ELSE 0
  <2>1. \A x \in 0..(2 * M - 1) : x % M = IF x < M THEN x ELSE x - M
      BY Wraps, Zenon
  <2> QED
      BY <2>1 DEF Place
<1>2. g \in 0..(M - 1)
    BY <1>1
<1>3. ASSUME NEW h \in 0..(M - 1), NEW e \in 0..(M - 1)
      PROVE  Distance(e, h, M) = IF e < h THEN e - h + M ELSE e - h
    BY DEF Distance
<1>4. /\ Distance(f, f, M) = IF f < f THEN f - f + M ELSE f - f
      /\ Distance(f, g, M) = IF f < g THEN f - g + M ELSE f - g
      /\ \A e \in 0..(M - 1) : /\ Distance(e, g, M) = IF e < g THEN e - g + M ELSE e - g
                               /\ Distance(e, f, M) = IF e < f THEN e - f + M ELSE e - f
    BY <1>2, <1>3, Zenon
<1> QED
    BY <1>1, <1>4

\* The ring in these terms.
LEMMA RingTerms ==
    ASSUME Ring
    PROVE  /\ first \in 0..(Size - 1) /\ Size \in Nat \ {0} /\ entries \in 0..(Size - 1)
           /\ allocated \in Nat /\ entries <= allocated /\ last = Place(first, entries, Size)
           /\ \A e : InRob(e) = Distance(e, first, Size)
           /\ \A k \in 0..(entries - 1) : rob[Place(first, k, Size)] = allocated - entries + 1 + k
<1>1. first \in 0..(Size - 1) /\ Size \in Nat \ {0} /\ allocated \in Nat /\ entries <= allocated
    BY SizeType DEF Ring
<1>2. entries \in 0..(Size - 1)
    BY SizeType, Sizes DEF Ring, entries
<1>3. last = Place(first, entries, Size) /\ \A e : InRob(e) = Distance(e, first, Size)
    BY Zenon DEF Ring, Place, InRob, Distance, Size
<1>4. \A k \in 0..(entries - 1) : rob[Place(first, k, Size)] = allocated - entries + 1 + k
    BY Zenon DEF Ring, Place
<1> QED
    BY <1>1, <1>2, <1>3, <1>4, Zenon

\* The entries of the ring, by their distance from the first.
LEMMA LiveEntries ==
    ASSUME Ring
    PROVE  /\ \A e \in Live : InRob(e) \in 0..(entries - 1) /\ rob[e] = allocated - entries + 1 + InRob(e)
           /\ \A u \in (allocated - entries + 1)..allocated : \E e \in Live : rob[e] = u
           /\ \A d, e \in Live : rob[d] = rob[e] => d = e
<1> DEFINE n == entries
<1>1. /\ first \in 0..(Size - 1) /\ Size \in Nat \ {0} /\ n \in 0..(Size - 1)
      /\ allocated \in Nat /\ n <= allocated
      /\ \A e : InRob(e) = Distance(e, first, Size)
      /\ \A k \in 0..(n - 1) : rob[Place(first, k, Size)] = allocated - n + 1 + k
    BY RingTerms, Zenon
<1>2. Live = {e \in 0..(Size - 1) : Distance(e, first, Size) < n}
    BY <1>1, SizeType, Zenon DEF Live
<1>3. /\ \A e \in 0..(Size - 1) : /\ Distance(e, first, Size) \in 0..(Size - 1)
                                  /\ Place(first, Distance(e, first, Size), Size) = e
      /\ \A k \in 0..(Size - 1) : /\ Place(first, k, Size) \in 0..(Size - 1)
                                  /\ Distance(Place(first, k, Size), first, Size) = k
    BY <1>1, RelativeIndex, Zenon
<1> HIDE DEF n
<1>4. ASSUME NEW e \in Live
      PROVE  InRob(e) \in 0..(n - 1) /\ rob[e] = allocated - n + 1 + InRob(e)
             /\ Place(first, InRob(e), Size) = e
  <2>1. InRob(e) \in 0..(n - 1) /\ Place(first, InRob(e), Size) = e
      BY <1>1, <1>2, <1>3
  <2> QED
      BY <1>1, <2>1, Zenon
<1>5. ASSUME NEW u \in (allocated - n + 1)..allocated PROVE \E e \in Live : rob[e] = u
  <2>1. u - (allocated - n + 1) \in 0..(n - 1)
        /\ allocated - n + 1 + (u - (allocated - n + 1)) = u
      BY <1>1
  <2>2. PICK k \in 0..(n - 1) : allocated - n + 1 + k = u
      BY <2>1, Zenon
  <2>3. Place(first, k, Size) \in Live
      BY <1>1, <1>2, <1>3, <2>2
  <2> QED
      BY <1>1, <2>2, <2>3, Zenon
<1>6. ASSUME NEW d \in Live, NEW e \in Live, rob[d] = rob[e] PROVE d = e
  <2>1. InRob(d) = InRob(e)
      BY <1>1, <1>4, <1>6
  <2> QED
      BY <1>4, <2>1, Zenon
<1> QED
    BY <1>4, <1>5, <1>6, Zenon DEF n

\* A new entry is live after the others.
LEMMA LiveGrows ==
    ASSUME Ring, free > 0, first' = first, free' = free - 1,
           rob' = [rob EXCEPT ![last] = allocated + 1]
    PROVE  /\ Live' = Live \cup {last} /\ last \notin Live /\ last \in Index
           /\ rob'[last] = allocated + 1
           /\ \A e \in Live : rob'[e] = rob[e]
<1>1. /\ first \in 0..(Size - 1) /\ Size \in Nat \ {0} /\ entries \in 0..(Size - 1)
      /\ last = Place(first, entries, Size)
      /\ \A e : InRob(e) = Distance(e, first, Size)
    BY RingTerms, Zenon
<1>2. entries' = entries + 1
    BY Sizes DEF Ring, entries
<1>3. \A e : InRob(e)' = Distance(e, first, Size)
    BY DEF InRob, Distance, Size
<1>4. /\ \A e \in 0..(Size - 1) : /\ Distance(e, first, Size) \in 0..(Size - 1)
                                  /\ Place(first, Distance(e, first, Size), Size) = e
      /\ \A k \in 0..(Size - 1) : /\ Place(first, k, Size) \in 0..(Size - 1)
                                  /\ Distance(Place(first, k, Size), first, Size) = k
    BY <1>1, RelativeIndex, Zenon
<1>5. last \in 0..(Size - 1) /\ Distance(last, first, Size) = entries
    BY <1>1, <1>4, Zenon
<1>6. Live = {e \in 0..(Size - 1) : Distance(e, first, Size) < entries}
    BY <1>1, SizeType, Zenon DEF Live
<1>7. Live' = {e \in 0..(Size - 1) : Distance(e, first, Size) < entries + 1}
    BY <1>2, <1>3, SizeType, Zenon DEF Live, Index
<1>8. \A e \in 0..(Size - 1) : Distance(e, first, Size) = entries => e = last
    BY <1>1, <1>4, Zenon
<1> DEFINE d(e) == Distance(e, first, Size)
           n == entries
<1>9. Live' = Live \cup {last} /\ last \notin Live
  <2>1. \A e \in 0..(Size - 1) : d(e) \in Nat /\ (d(e) = n => e = last)
      BY <1>4, <1>8
  <2>2. n \in Nat /\ d(last) = n
      BY <1>1, <1>5
  <2>3. Live = {e \in 0..(Size - 1) : d(e) < n} /\ Live' = {e \in 0..(Size - 1) : d(e) < n + 1}
      BY <1>6, <1>7, Zenon
  <2> HIDE DEF d, n
  <2>4. \A e \in 0..(Size - 1) : d(e) < n + 1 <=> d(e) < n \/ e = last
      BY <2>1, <2>2
  <2> QED
      BY <1>5, <2>1, <2>2, <2>3, <2>4
<1>10. last \in Index /\ Live \subseteq Index /\ rob \in [Index -> 0..allocated]
    BY <1>5, SizeType, Zenon DEF Ring, Live
<1> QED
    BY <1>9, <1>10, Zenon

\* The first entry leaves the ring, and all others are one nearer to its start.
LEMMA LiveShrinks ==
    ASSUME Ring, entries > 0, first' = inc_index(first), free' = free + 1
    PROVE  /\ Live' = Live \ {first} /\ first \in Live
           /\ rob[first] = allocated - entries + 1
<1>1. /\ first \in 0..(Size - 1) /\ Size \in Nat \ {0} /\ entries \in 1..(Size - 1)
      /\ \A e : InRob(e) = Distance(e, first, Size)
      /\ \A k \in 0..(entries - 1) : rob[Place(first, k, Size)] = allocated - entries + 1 + k
    BY RingTerms
<1>2. entries' = entries - 1
    BY Sizes DEF Ring, entries
<1>3. first' = Place(first, 1, Size) /\ \A e : InRob(e)' = Distance(e, first', Size)
    BY Zenon DEF InRob, Distance, Size, inc_index, Place
<1>4. /\ Distance(first, first, Size) = 0
      /\ Distance(first, first', Size) = Size - 1
      /\ \A e \in 0..(Size - 1) : e # first =>
            Distance(e, first', Size) = Distance(e, first, Size) - 1
    BY ONLY <1>1, <1>3, NextPlace
<1>5. \A e \in 0..(Size - 1) : Distance(e, first, Size) \in 0..(Size - 1)
    BY <1>1, RelativeIndex, Zenon
<1>6. Live = {e \in 0..(Size - 1) : Distance(e, first, Size) < entries}
    BY <1>1, SizeType, Zenon DEF Live
<1>7. Live' = {e \in 0..(Size - 1) : Distance(e, first', Size) < entries - 1}
    BY <1>2, <1>3, SizeType, Zenon DEF Live, Index
<1>8. \A e \in 0..(Size - 1) : Distance(e, first', Size) < entries - 1 <=> Distance(e, first, Size) < entries /\ e # first
    BY <1>1, <1>4, <1>5
<1>9. Live' = Live \ {first} /\ first \in Live
    BY <1>1, <1>4, <1>6, <1>7, <1>8, Zenon
<1>10. rob[first] = allocated - entries + 1
  <2>1. InRob(first) = 0
      BY <1>1, <1>4, Zenon
  <2>2. allocated \in Nat
      BY DEF Ring
  <2> QED
      BY <1>1, <1>9, <2>1, <2>2, LiveEntries
<1> QED
    BY <1>9, <1>10

LEMMA LiveKept ==
    ASSUME UNCHANGED robVars
    PROVE  Live' = Live
    BY Zenon DEF robVars, Live, InRob, entries, Index

-----------------------------------------------------------------------------
(* Sequences of entries; `v' gives the uop of an entry and `c' its queue   *)

Elements(s) == {s[i] : i \in 1..Len(s)}
Ordered(s, v, c) == \A i, j \in 1..Len(s) : i < j /\ c[s[i]] = c[s[j]] => v[s[i]] < v[s[j]]
Before(S, T, v, c) == \A x \in S, y \in T : c[x] = c[y] => v[x] < v[y]

LEMMA ElementsIn ==
    ASSUME NEW S, NEW s
    PROVE  /\ s \in Seq(S) => Elements(s) \subseteq S
           /\ \A T : s \in Seq(S) /\ Elements(s) \subseteq T => s \in Seq(T)
<1> SUFFICES ASSUME s \in Seq(S)
             PROVE  /\ Elements(s) \subseteq S
                    /\ \A T : Elements(s) \subseteq T => s \in Seq(T)
    BY Zenon
<1>1. /\ Len(s) \in Nat /\ s = [i \in 1..Len(s) |-> s[i]]
      /\ \A i \in 1..Len(s) : s[i] \in S
    OBVIOUS
<1>2. ASSUME NEW T, Elements(s) \subseteq T PROVE s \in Seq(T)
  <2>1. \A i \in 1..Len(s) : s[i] \in T
      BY <1>2, Zenon DEF Elements
  <2> QED
      BY <1>1, <2>1
<1> QED
    BY <1>1, <1>2, Zenon DEF Elements

\* Order depends on the uops and queues of the elements only.
LEMMA OrderAgrees ==
    ASSUME NEW S, NEW s \in Seq(S), NEW v, NEW c, NEW w, NEW d,
           \A e \in S : v[e] = w[e] /\ c[e] = d[e]
    PROVE  Ordered(s, v, c) <=> Ordered(s, w, d)
<1>1. \A i \in 1..Len(s) : s[i] \in S
    OBVIOUS
<1>2. \A i \in 1..Len(s) : v[s[i]] = w[s[i]] /\ c[s[i]] = d[s[i]]
    BY <1>1, Zenon
<1> QED
    BY ONLY <1>2, Zenon DEF Ordered

LEMMA BeforeAgrees ==
    ASSUME NEW S, NEW A, NEW B, A \subseteq S, B \subseteq S, NEW v, NEW c, NEW w, NEW d,
           \A e \in S : v[e] = w[e] /\ c[e] = d[e]
    PROVE  Before(A, B, v, c) <=> Before(A, B, w, d)
    BY Zenon DEF Before

\* s is p followed by r.
Joins(p, r, s) ==
    /\ Len(p) \in Nat /\ Len(r) \in Nat /\ Len(s) = Len(p) + Len(r)
    /\ \A i \in 1..Len(p) : p[i] = s[i]
    /\ \A i \in 1..Len(r) : r[i] = s[Len(p) + i]

LEMMA OrderOfParts ==
    ASSUME NEW p, NEW r, NEW s, Joins(p, r, s), NEW v, NEW c
    PROVE  /\ Elements(s) = Elements(p) \cup Elements(r)
           /\ Ordered(s, v, c) <=> /\ Ordered(p, v, c) /\ Ordered(r, v, c)
                                   /\ Before(Elements(p), Elements(r), v, c)
<1> DEFINE l == Len(p)
           n == Len(r)
<1>1. /\ l \in Nat /\ n \in Nat /\ Len(s) = l + n
      /\ \A i \in 1..l : p[i] = s[i]
      /\ \A i \in 1..n : r[i] = s[l + i]
    BY Zenon DEF Joins
<1>2. /\ Elements(p) = {p[i] : i \in 1..l} /\ Elements(r) = {r[i] : i \in 1..n}
      /\ Elements(s) = {s[i] : i \in 1..(l + n)}
    BY <1>1, Zenon DEF Elements
<1>3. /\ Ordered(p, v, c) <=> \A i, j \in 1..l : i < j /\ c[p[i]] = c[p[j]] => v[p[i]] < v[p[j]]
      /\ Ordered(r, v, c) <=> \A i, j \in 1..n : i < j /\ c[r[i]] = c[r[j]] => v[r[i]] < v[r[j]]
      /\ Ordered(s, v, c) <=> \A i, j \in 1..(l + n) : i < j /\ c[s[i]] = c[s[j]] => v[s[i]] < v[s[j]]
    BY <1>1, Zenon DEF Ordered
<1> HIDE DEF l, n
<1>4. /\ \A i \in 1..l : i \in 1..(l + n) /\ p[i] = s[i]
      /\ \A i \in 1..n : l + i \in 1..(l + n) /\ r[i] = s[l + i]
      /\ \A i \in 1..l, j \in 1..n : i < l + j
      /\ \A i, j \in 1..n : i < j <=> l + i < l + j
      /\ \A k \in 1..(l + n) : k \in 1..l \/ \E i \in 1..n : k = l + i
  <2>1. ASSUME NEW k \in 1..(l + n), ~(k \in 1..l) PROVE \E i \in 1..n : k = l + i
    <3>1. k - l \in 1..n /\ k = l + (k - l)
        BY ONLY <1>1, <2>1
    <3> QED
        BY <3>1, Zenon
  <2>2. /\ \A i \in 1..l : i \in 1..(l + n) /\ p[i] = s[i]
        /\ \A i \in 1..n : l + i \in 1..(l + n) /\ r[i] = s[l + i]
        /\ \A i \in 1..l, j \in 1..n : i < l + j
        /\ \A i, j \in 1..n : i < j <=> l + i < l + j
      BY ONLY <1>1
  <2> QED
      BY ONLY <2>1, <2>2, Zenon
<1>5. Elements(s) = Elements(p) \cup Elements(r)
    BY ONLY <1>2, <1>4
<1>6. ASSUME Ordered(s, v, c)
      PROVE  Ordered(p, v, c) /\ Ordered(r, v, c) /\ Before(Elements(p), Elements(r), v, c)
  <2>1. Ordered(p, v, c)
      BY ONLY <1>3, <1>4, <1>6, Zenon
  <2>2. Ordered(r, v, c)
      BY ONLY <1>3, <1>4, <1>6
  <2>3. Before(Elements(p), Elements(r), v, c)
    <3> SUFFICES ASSUME NEW x \in Elements(p), NEW y \in Elements(r), c[x] = c[y]
                 PROVE  v[x] < v[y]
        BY Zenon DEF Before
    <3>1. PICK i \in 1..l : x = p[i]
        BY <1>2, Zenon
    <3>2. PICK j \in 1..n : y = r[j]
        BY <1>2, Zenon
    <3>3. /\ i \in 1..(l + n) /\ l + j \in 1..(l + n) /\ i < l + j
          /\ x = s[i] /\ y = s[l + j] /\ c[s[i]] = c[s[l + j]]
        BY ONLY <1>4, <3>1, <3>2, c[x] = c[y], Zenon
    <3> QED
        BY ONLY <1>3, <1>6, <3>3, Zenon
  <2> QED
      BY <2>1, <2>2, <2>3, Zenon
<1>7. ASSUME Ordered(p, v, c), Ordered(r, v, c), Before(Elements(p), Elements(r), v, c)
      PROVE  Ordered(s, v, c)
  <2> SUFFICES ASSUME NEW i \in 1..(l + n), NEW j \in 1..(l + n), i < j, c[s[i]] = c[s[j]]
               PROVE  v[s[i]] < v[s[j]]
      BY <1>3, Zenon
  <2>0. i < j /\ c[s[i]] = c[s[j]] /\ i \in 1..(l + n) /\ j \in 1..(l + n) /\ l \in Nat
      BY <1>1, Zenon
  <2>1. CASE i \in 1..l /\ j \in 1..l
      BY ONLY <1>3, <1>4, <1>7, <2>0, <2>1, Zenon
  <2>2. CASE i \in 1..l /\ \E k \in 1..n : j = l + k
    <3>1. PICK k \in 1..n : j = l + k
        BY <2>2, Zenon
    <3>2. p[i] = s[i] /\ r[k] = s[j] /\ p[i] \in Elements(p) /\ r[k] \in Elements(r)
        BY ONLY <1>2, <1>4, <2>2, <3>1, Zenon
    <3> QED
        BY ONLY <1>7, <2>0, <3>2, Zenon DEF Before
  <2>3. CASE (\E k \in 1..n : i = l + k) /\ \E k \in 1..n : j = l + k
    <3>1. PICK a \in 1..n : i = l + a
        BY <2>3, Zenon
    <3>2. PICK b \in 1..n : j = l + b
        BY <2>3, Zenon
    <3>3. a < b /\ r[a] = s[i] /\ r[b] = s[j]
        BY ONLY <1>4, <2>0, <3>1, <3>2, Zenon
    <3> QED
        BY ONLY <1>3, <1>7, <2>0, <3>1, <3>2, <3>3, Zenon
  <2>4. ~(j \in 1..l /\ \E k \in 1..n : i = l + k)
      BY ONLY <2>0
  <2> QED
      BY ONLY <1>4, <2>0, <2>1, <2>2, <2>3, <2>4, Zenon
<1> QED
    BY <1>5, <1>6, <1>7, Zenon

LEMMA PartsJoin ==
    ASSUME NEW S, NEW s \in Seq(S), NEW m \in 0..Len(s)
    PROVE  Joins(SubSeq(s, 1, m), SubSeq(s, m + 1, Len(s)), s)
<1>1. /\ Len(SubSeq(s, 1, m)) = m /\ m \in Nat
      /\ \A i \in 1..m : SubSeq(s, 1, m)[i] = s[i]
    OBVIOUS
<1>2. /\ Len(SubSeq(s, m + 1, Len(s))) = Len(s) - m
      /\ Len(s) - m \in Nat /\ Len(s) = m + (Len(s) - m)
      /\ \A i \in 1..(Len(s) - m) : SubSeq(s, m + 1, Len(s))[i] = s[m + i]
    OBVIOUS
<1> QED
    BY ONLY <1>1, <1>2, Zenon DEF Joins

LEMMA ConcatJoins ==
    ASSUME NEW S, NEW p \in Seq(S), NEW r \in Seq(S)
    PROVE  Joins(p, r, p \o r)
    BY DEF Joins

\* r is s without its i-th element; v gives the elements numbers.
Shortens(S, s, i, r) == s \in Seq(S) /\ i \in 1..Len(s) /\ r = Erased(s, i)
Loses(r, s, x) == Elements(r) = Elements(s) \ {x}
Valued(S, v) == \A x \in S : v[x] \in Nat

LEMMA OrderedRemoved ==
    ASSUME NEW S, NEW s, NEW i, NEW r, Shortens(S, s, i, r),
           NEW v, Valued(S, v), NEW c, Ordered(s, v, c)
    PROVE  /\ r \in Seq(S \ {s[i]}) /\ Ordered(r, v, c)
           /\ Loses(r, s, s[i])
           /\ Len(r) = Len(s) - 1
<1>1. /\ r \in Seq(S) /\ Len(r) = Len(s) - 1 /\ Len(s) \in Nat /\ i \in 1..Len(s)
      /\ \A k \in 1..(Len(s) - 1) : r[k] = IF k < i THEN s[k] ELSE s[k + 1]
  <2>1. s \in Seq(S) /\ Len(s) \in Nat /\ i \in 1..Len(s) /\ r = Erased(s, i)
      BY DEF Shortens
  <2>2. /\ Erased(s, i) \in Seq(S) /\ Len(Erased(s, i)) = Len(s) - 1
        /\ \A k \in 1..(Len(s) - 1) : Erased(s, i)[k] = IF k < i THEN s[k] ELSE s[k + 1]
      BY ONLY <2>1, Removed, Zenon
  <2> QED
      BY <2>1, <2>2, Zenon
<1>2. \A k \in 1..Len(s) : s[k] \in S /\ v[s[k]] \in Nat
    BY DEF Shortens, Valued
<1>o. Ordered(s, v, c)
    BY Zenon
<1>3. \A j, k \in 1..Len(s) : j # k => s[j] # s[k]
  <2>1. \A j, k \in 1..Len(s) : j < k => s[j] # s[k]
      BY ONLY <1>2, <1>o DEF Ordered
  <2>2. \A j, k \in 1..Len(s) : j # k => j < k \/ k < j
      BY ONLY <1>1
  <2> QED
      BY ONLY <2>1, <2>2, Zenon
\* where an element of r was in s
<1> DEFINE at(k) == IF k < i THEN k ELSE k + 1
<1>4. /\ \A k \in 1..Len(r) : at(k) \in 1..Len(s) /\ at(k) # i /\ r[k] = s[at(k)]
      /\ \A j, k \in 1..Len(r) : j < k => at(j) < at(k)
    BY ONLY <1>1
<1> HIDE DEF at
<1>5. Ordered(r, v, c)
    BY ONLY <1>4, <1>o, Zenon DEF Ordered
<1>6. ASSUME NEW k \in 1..Len(s), k # i PROVE s[k] \in Elements(r)
  <2>1. CASE k < i
    <3>1. k \in 1..Len(r) /\ r[k] = s[k]
        BY ONLY <1>1, <1>6, <2>1
    <3> QED
        BY <3>1, Zenon DEF Elements
  <2>2. CASE ~(k < i)
    <3>1. k - 1 \in 1..Len(r) /\ (k - 1) + 1 = k /\ ~(k - 1 < i)
        BY ONLY <1>1, <1>6, <2>2
    <3>2. r[k - 1] = s[k]
        BY ONLY <1>1, <3>1, Zenon
    <3> QED
        BY <3>1, <3>2, Zenon DEF Elements
  <2> QED
      BY <2>1, <2>2
<1>7. Elements(r) = Elements(s) \ {s[i]}
  <2>1. Elements(r) = {r[k] : k \in 1..Len(r)} /\ Elements(s) = {s[k] : k \in 1..Len(s)}
      BY Zenon DEF Elements
  <2>2. i \in 1..Len(s)
      BY <1>1, Zenon
  <2>3. \A k \in 1..Len(s) : k # i => s[k] \in Elements(r)
      BY <1>6, Zenon
  <2> QED
      BY ONLY <1>3, <1>4, <2>1, <2>2, <2>3
<1>8. r \in Seq(S \ {s[i]})
  <2>1. Elements(r) \subseteq S \ {s[i]}
      BY <1>2, <1>7, Zenon DEF Elements
  <2> QED
      BY ONLY <1>1, <2>1, ElementsIn
<1> QED
    BY <1>1, <1>5, <1>7, <1>8 DEF Loses

\* r is s and then x, which is later than the elements of s.
Extends(S, s, x, r) == s \in Seq(S) /\ x \in S /\ r = Append(s, x)
Later(s, v, x) == \A y \in Elements(s) : v[y] < v[x]
Gains(r, s, x) == Elements(r) = Elements(s) \cup {x}

LEMMA OrderedAppend ==
    ASSUME NEW S, NEW s, NEW x, NEW r, Extends(S, s, x, r),
           NEW v, NEW c, Ordered(s, v, c), Later(s, v, x)
    PROVE  r \in Seq(S) /\ Ordered(r, v, c) /\ Gains(r, s, x)
<1>1. /\ r \in Seq(S) /\ Len(s) \in Nat /\ Len(r) = Len(s) + 1 /\ r[Len(s) + 1] = x
      /\ \A i \in 1..Len(s) : r[i] = s[i]
    BY DEF Extends
<1>2. Elements(r) = Elements(s) \cup {x}
  <2>1. /\ \A k \in 1..Len(r) : k \in 1..Len(s) \/ k = Len(s) + 1
        /\ \A k \in 1..Len(s) : k \in 1..Len(r)
        /\ Len(s) + 1 \in 1..Len(r)
      BY ONLY <1>1
  <2> QED
      BY ONLY <1>1, <2>1, Zenon DEF Elements
<1>3. Ordered(r, v, c)
  <2> SUFFICES ASSUME NEW i \in 1..Len(r), NEW j \in 1..Len(r), i < j, c[r[i]] = c[r[j]]
               PROVE  v[r[i]] < v[r[j]]
      BY Zenon DEF Ordered
  <2>1. i \in 1..Len(s) /\ r[i] = s[i] /\ (j \in 1..Len(s) \/ j = Len(s) + 1)
      BY ONLY <1>1, i \in 1..Len(r), j \in 1..Len(r), i < j
  <2>2. CASE j \in 1..Len(s)
      BY <1>1, <2>1, <2>2, Zenon DEF Ordered
  <2>3. CASE j = Len(s) + 1
      BY <1>1, <2>1, <2>3, Zenon DEF Later, Elements
  <2> QED
      BY <2>1, <2>2, <2>3, Zenon
<1> QED
    BY <1>1, <1>2, <1>3, Zenon DEF Gains

-----------------------------------------------------------------------------
(* The write buffer                                                        *)

\* Uops are issued before they retire.  One that retired was freed or is a
\* store of the write buffer, which is in trace order; the reorder buffer
\* never takes a write buffer for empty that is not.
Flow ==
    /\ executed \subseteq 1..allocated /\ Retired \subseteq executed
    /\ \A u \in Retired \ freed : Kind(u) \in Stores /\ u \in Elements(wb)
    /\ \A i, j \in 1..Len(wb) : i < j => wb[i] < wb[j]
    /\ ~knobs.use_wb => wb = <<>>
    /\ stage = "schedule" /\ wb_empty => wb = <<>>


Older(s) == \A i, j \in 1..Len(s) : i < j => s[i] < s[j]

LEMMA OlderRemoved ==
    ASSUME NEW S, S \subseteq Nat, NEW s \in Seq(S), Older(s), NEW i \in 1..Len(s), NEW r, r = Erased(s, i)
    PROVE  Older(r) /\ Elements(r) = Elements(s) \ {s[i]}
<1> DEFINE v == [x \in S |-> x]
           c == [x \in S |-> 0]
<1>1. Valued(S, v) /\ \A x \in S : v[x] = x /\ c[x] = 0
    BY Zenon DEF Valued
<1> HIDE DEF v, c
<1>2. Shortens(S, s, i, r) /\ \A k \in 1..Len(s) : s[k] \in S
    BY DEF Shortens
<1>3. Ordered(s, v, c)
    BY <1>1, <1>2, Zenon DEF Ordered, Older
<1>4. r \in Seq(S \ {s[i]}) /\ Ordered(r, v, c) /\ Elements(r) = Elements(s) \ {s[i]}
  <2>1. Shortens(S, s, i, r) /\ Valued(S, v) /\ Ordered(s, v, c)
      BY <1>1, <1>2, <1>3
  <2>2. Ordered(r, v, c)
      BY ONLY <2>1, OrderedRemoved, Zenon
  <2>3. Loses(r, s, s[i])
      BY ONLY <2>1, OrderedRemoved, Zenon
  <2>4. r \in Seq(S \ {s[i]})
      BY ONLY <2>1, OrderedRemoved, Zenon
  <2> QED
      BY <2>2, <2>3, <2>4, Zenon DEF Loses
<1>5. \A k \in 1..Len(r) : r[k] \in S
    BY ONLY <1>4
<1>6. Older(r)
    BY ONLY <1>1, <1>4, <1>5, Zenon DEF Ordered, Older
<1> QED
    BY <1>4, <1>6, Zenon

LEMMA OlderAppend ==
    ASSUME NEW S, NEW s \in Seq(S), Older(s), NEW x, \A y \in Elements(s) : y < x
    PROVE  Older(Append(s, x)) /\ Elements(Append(s, x)) = Elements(s) \cup {x}
<1> DEFINE r == Append(s, x)
<1>1. /\ Len(s) \in Nat /\ Len(r) = Len(s) + 1 /\ r[Len(s) + 1] = x
      /\ \A i \in 1..Len(s) : r[i] = s[i]
    OBVIOUS
<1> HIDE DEF r
<1>2. Elements(r) = Elements(s) \cup {x}
    BY <1>1 DEF Elements
<1>3. \A i \in 1..Len(s) : s[i] < x
    BY Zenon DEF Elements
<1>4. Older(r)
    BY <1>1, <1>3 DEF Older
<1> QED
    BY <1>2, <1>4, Zenon DEF r

\* Uops keep their kinds.
LEMMA KindKept ==
    ASSUME Next \/ UNCHANGED vars
    PROVE  trace' = trace /\ knobs' = knobs /\ \A u : Kind(u)' = Kind(u) /\ IsMem(u)' = IsMem(u)
<1>1. trace' = trace /\ knobs' = knobs
    BY Zenon DEF Next, complete, retire_uop, retire_end, drain_store, drain_wb, schedule_ooo, schedule_io,
           advance, allocate_uop, allocate_end, fetch_uop, fetch_end, vars
<1> QED
    BY <1>1 DEF Kind, IsMem

\* What it takes to retire a uop, and where it goes.
LEMMA RetiredUop ==
    ASSUME BInv, IInv, Flow, retire_uop
    PROVE  /\ front \in executed /\ front = allocated - entries + 1
           /\ Retired' = Retired \cup {front} /\ front \notin Retired
           /\ \/ knobs.use_wb /\ Kind(front) \in Stores /\ freed' = freed /\ wb' = Append(wb, front)
              \/ ~(knobs.use_wb /\ Kind(front) \in Stores) /\ freed' = freed \cup {front} /\ wb' = wb
<1>1. /\ entries > 0 /\ pop /\ UNCHANGED <<rob, last, allocated>>
    BY Zenon DEF retire_uop, can_retire
<1>2. fetched' = fetched
    BY Zenon DEF retire_uop, mapVars, free_uop_resources
<1>3. Retired' = Retired \cup {front} /\ front \notin Retired
    BY <1>1, <1>2, PopStep, Zenon DEF BInv
<1>4. front = allocated - entries + 1
    BY <1>1, LiveShrinks DEF BInv, pop, front
<1>5. front \in executed
    BY Zenon DEF retire_uop, can_retire, enters_wb, IInv, MapType
<1>6. CASE knobs.use_wb /\ Kind(front) \in Stores
    BY <1>3, <1>4, <1>5, <1>6, Zenon DEF retire_uop, enters_wb, mapVars
<1>7. CASE ~(knobs.use_wb /\ Kind(front) \in Stores)
    BY <1>3, <1>4, <1>5, <1>7, Zenon DEF retire_uop, enters_wb, free_uop_resources
<1> QED
    BY <1>6, <1>7, Zenon

LEMMA RetireFlow ==
    ASSUME BInv, IInv, Flow, retire_uop
    PROVE  Flow'
<1>1. /\ front \in executed /\ front = allocated - entries + 1
      /\ Retired' = Retired \cup {front} /\ front \notin Retired
      /\ \/ knobs.use_wb /\ Kind(front) \in Stores /\ freed' = freed /\ wb' = Append(wb, front)
         \/ ~(knobs.use_wb /\ Kind(front) \in Stores) /\ freed' = freed \cup {front} /\ wb' = wb
    BY RetiredUop, Zenon
<1>2. /\ UNCHANGED <<knobs, allocated, executed, stage>> /\ stage = "retire"
      /\ \A u : Kind(u)' = Kind(u)
    BY KindKept, Zenon DEF retire_uop, Next
<1>3. wb \in Seq(Retired \ freed) /\ \A y \in Elements(wb) : y < front
  <2>1. wb \in Seq(Retired \ freed)
      BY Zenon DEF BInv, WriteBuffer
  <2>2. Elements(wb) \subseteq Retired \ freed
      BY ONLY <2>1, ElementsIn, Zenon
  <2>3. allocated \in Nat /\ entries \in Nat /\ entries <= allocated
      BY RingTerms DEF BInv
  <2>4. \A y \in Retired : y < front
      BY <1>1, <2>3 DEF Retired
  <2> QED
      BY ONLY <2>1, <2>2, <2>4, Zenon
<1>4. /\ Older(wb) => Older(Append(wb, front))
      /\ Older(wb) => Elements(Append(wb, front)) = Elements(wb) \cup {front}
    BY <1>3, OlderAppend, Zenon
<1>5. /\ executed \subseteq 1..allocated /\ Retired \subseteq executed
      /\ \A u \in Retired \ freed : Kind(u) \in Stores /\ u \in Elements(wb)
      /\ Older(wb) /\ (~knobs.use_wb => wb = <<>>)
    BY DEF Flow, Older
<1>6. Older(wb') /\ Elements(wb) \subseteq Elements(wb') /\ (front \in freed' \/ front \in Elements(wb'))
    BY <1>1, <1>4, <1>5, Zenon
<1>7. freed \subseteq freed'
    BY <1>1, Zenon
<1>8. \A u \in Retired' \ freed' : Kind(u)' \in Stores /\ u \in Elements(wb')
    BY <1>1, <1>2, <1>5, <1>6, <1>7, Zenon
<1>9. (~knobs.use_wb)' => wb' = <<>>
    BY <1>1, <1>2, <1>5, Zenon
<1> QED
    BY <1>1, <1>2, <1>5, <1>6, <1>8, <1>9, Zenon DEF Flow, Older, Elements

LEMMA DrainFlow ==
    ASSUME BInv, Flow, drain_store
    PROVE  /\ Flow'
           /\ \/ freed' = freed
              \/ /\ scan \in 1..Len(wb) /\ may_drain(scan)
                 /\ freed' = freed \cup {wb[scan]}
<1>1. /\ UNCHANGED <<knobs, allocated, executed, stage, robVars>> /\ stage = "drain"
      /\ scan <= Len(wb) /\ \A u : Kind(u)' = Kind(u)
    BY KindKept, Zenon DEF drain_store, Next
<1>2. /\ executed \subseteq 1..allocated /\ Retired \subseteq executed
      /\ \A u \in Retired \ freed : Kind(u) \in Stores /\ u \in Elements(wb)
      /\ Older(wb) /\ (~knobs.use_wb => wb = <<>>)
    BY Zenon DEF Flow, Older
<1>3. Retired' = Retired
    BY <1>1 DEF Retired, entries, robVars
<1>4. wb \in Seq(Retired \ freed) /\ Retired \ freed \subseteq Nat /\ scan \in 1..Len(wb)
  <2>1. wb \in Seq(Retired \ freed) /\ scan \in Nat \ {0}
      BY Zenon DEF BInv, WriteBuffer
  <2>2. allocated \in Nat /\ entries \in Nat /\ Retired \subseteq Nat
      BY RingTerms DEF BInv, Retired
  <2>3. scan \in 1..Len(wb)
      BY <1>1, <2>1
  <2> QED
      BY ONLY <2>1, <2>2, <2>3, Zenon
<1>5. CASE may_drain(scan)
  <2>1. wb' = Erased(wb, scan) /\ freed' = freed \cup {wb[scan]}
      BY <1>5, Zenon DEF drain_store, free_uop_resources
  <2>2. Older(wb') /\ Elements(wb') = Elements(wb) \ {wb[scan]}
      BY ONLY <1>2, <1>4, <2>1, OlderRemoved, Zenon
  <2>3. \A u \in Retired' \ freed' : Kind(u)' \in Stores /\ u \in Elements(wb')
      BY <1>1, <1>2, <1>3, <2>1, <2>2, Zenon
  <2>4. wb # <<>>
      BY <1>4
  <2>5. Flow'
      BY <1>1, <1>2, <1>3, <2>2, <2>3, <2>4, Zenon DEF Flow, Older, Elements
  <2> QED
      BY <1>4, <1>5, <2>1, <2>5, Zenon
<1>6. CASE ~may_drain(scan)
  <2>1. wb' = wb /\ freed' = freed
      BY <1>6, Zenon DEF drain_store, mapVars
  <2> QED
      BY <1>1, <1>2, <1>3, <2>1, Zenon DEF Flow, Older, Elements
<1> QED
    BY <1>5, <1>6, Zenon

LEMMA QuietFlow ==
    ASSUME Flow, UNCHANGED <<trace, knobs, executed, allocated, robVars, freed, wb>>,
           stage' = "schedule" /\ wb_empty' => wb = <<>>
    PROVE  Flow'
<1>1. Retired' = Retired /\ \A u : Kind(u)' = Kind(u)
    BY Zenon DEF Retired, entries, robVars, Kind
<1> QED
    BY <1>1, Zenon DEF Flow, Elements

\* A uop that may be issued has been allocated and was not issued before.
LEMMA FlowStep ==
    ASSUME BInv, IInv, Flow, Next
    PROVE  Flow'
<1>1. CASE retire_uop
    BY <1>1, RetireFlow, Zenon
<1>2. CASE drain_store
    BY <1>2, DrainFlow, Zenon
<1>3. CASE schedule_ooo \/ schedule_io
  <2>1. /\ UNCHANGED <<knobs, stage, allocated, robVars, wb, wb_empty>> /\ UNCHANGED freed
        /\ \A u : Kind(u)' = Kind(u)
      BY <1>3, KindKept, Zenon DEF schedule_ooo, schedule_io, wbVars, mapVars
  <2>2. executed' = executed \/ \E i \in 1..Len(sched) : executed' = executed \cup {rob[sched[i]]}
    <3>1. scan \in Nat \ {0} /\ Len(sched) \in Nat /\ DOMAIN sched = 1..Len(sched)
        BY DEF BInv, WriteBuffer, Waiting
    <3>2. CASE schedule_ooo
      <4>1. PICK issued \in BOOLEAN : uop_schedule(scan, issued)
          BY <3>2, Zenon DEF schedule_ooo
      <4>2. scan \in 1..Len(sched)
          BY <3>1, <3>2 DEF schedule_ooo
      <4> QED
          BY <4>1, <4>2, Zenon DEF uop_schedule
    <3>3. CASE schedule_io
        BY <3>1, <3>3, Zenon DEF schedule_io, uop_schedule
    <3> QED
        BY <1>3, <3>2, <3>3, Zenon
  <2>3. \A i \in 1..Len(sched) : rob[sched[i]] \in 1..allocated
      BY DEF BInv, Waiting, Filled, Ring
  <2>4. executed' \subseteq 1..allocated /\ executed \subseteq executed'
      BY <2>2, <2>3, Zenon DEF Flow
  <2>5. Retired' = Retired
      BY <2>1, Zenon DEF Retired, entries, robVars
  <2> QED
      BY <2>1, <2>4, <2>5, Zenon DEF Flow, Elements
<1>4. CASE allocate_uop
  <2>1. /\ UNCHANGED <<knobs, stage, executed, wb, freed>> /\ stage = "allocate"
        /\ allocated' = allocated + 1 /\ free' = free - 1
        /\ \A u : Kind(u)' = Kind(u)
      BY <1>4, KindKept, Zenon DEF allocate_uop, wbVars, mapVars
  <2>2. allocated \in Nat /\ RobSize \in Nat /\ free \in Nat
      BY Sizes DEF BInv, Ring
  <2>3. Retired' = Retired /\ 1..allocated \subseteq 1..allocated'
      BY <2>1, <2>2 DEF Retired, entries
  <2> QED
      BY <2>1, <2>3, Zenon DEF Flow, Elements
<1>5. CASE complete \/ retire_end \/ drain_wb \/ advance \/ allocate_end \/ fetch_uop \/ fetch_end
  <2>1. UNCHANGED <<trace, knobs, executed, allocated, robVars, freed, wb>>
      BY <1>5, Zenon DEF complete, retire_end, drain_wb, advance, allocate_end, fetch_uop, fetch, fetch_end,
                  wbVars, mapVars
  <2>2. stage' = "schedule" /\ wb_empty' => wb = <<>>
      BY <1>5, Zenon DEF complete, retire_end, drain_wb, advance, allocate_end, fetch_uop, fetch_end
  <2> QED
      BY <2>1, <2>2, QuietFlow, Zenon
<1> QED
    BY <1>1, <1>2, <1>3, <1>4, <1>5, Zenon DEF Next

\* What a store release waits for in the write buffer.
LEMMA ReleaseStep ==
    ASSUME BInv, IInv, Flow, ReleaseDrainsLast, Next
    PROVE  ReleaseDrainsLast'
<1>1. trace' = trace /\ knobs' = knobs /\ \A u : Kind(u)' = Kind(u)
    BY KindKept, Zenon
<1>2. allocated \in Nat /\ entries \in Nat /\ entries <= allocated
    BY RingTerms DEF BInv
<1>3. /\ \A u \in Retired \ freed : Kind(u) \in Stores /\ u \in Elements(wb)
      /\ Older(wb) /\ (~knobs.use_wb => wb = <<>>)
    BY Zenon DEF Flow, Older
<1>4. CASE retire_uop
  <2>1. /\ front = allocated - entries + 1
        /\ \/ freed' = freed
           \/ ~(knobs.use_wb /\ Kind(front) \in Stores) /\ freed' = freed \cup {front}
      BY <1>4, RetiredUop, Zenon
  <2>2. CASE Kind(front) = "ST_REL" /\ freed' # freed
    <3>1. wb = <<>>
        BY <1>3, <2>1, <2>2, Zenon DEF Stores
    <3>2. Elements(wb) = {}
        BY <3>1 DEF Elements
    <3>3. Retired \subseteq freed
        BY <1>3, <3>2, Zenon
    <3>4. \A s \in 1..(front - 1) : s \in freed
        BY <1>2, <2>1, <3>3 DEF Retired
    <3> QED
        BY <1>1, <2>1, <3>4, Zenon DEF ReleaseDrainsLast
  <2>3. CASE ~(Kind(front) = "ST_REL" /\ freed' # freed)
      BY <1>1, <2>1, <2>3, Zenon DEF ReleaseDrainsLast
  <2> QED
      BY <2>2, <2>3, Zenon
<1>5. CASE drain_store
  <2>1. \/ freed' = freed
        \/ /\ scan \in 1..Len(wb) /\ may_drain(scan)
           /\ freed' = freed \cup {wb[scan]}
      BY <1>5, DrainFlow, Zenon
  <2>2. CASE knobs.acq_rel /\ Kind(wb[scan]) = "ST_REL" /\ freed' # freed
    <3>1. scan = 1 /\ 1 \in 1..Len(wb) /\ freed' = freed \cup {wb[1]}
        BY <2>1, <2>2, Zenon DEF may_drain
    <3>2. wb \in Seq(Retired \ freed)
        BY Zenon DEF BInv, WriteBuffer
    <3>3. wb[1] \in Retired /\ \A i \in 1..Len(wb) : wb[i] \in Nat /\ wb[1] <= wb[i]
      <4>1. \A i \in 1..Len(wb) : wb[i] \in Retired /\ wb[i] \in Nat
          BY <1>2, <3>2 DEF Retired
      <4>2. Len(wb) \in Nat
          BY <3>2
      <4> QED
          BY <1>3, <3>1, <4>1, <4>2 DEF Older
    <3>4. \A s \in 1..(wb[1] - 1) : s \in Retired /\ s \notin Elements(wb)
        BY <1>2, <3>3 DEF Retired, Elements
    <3>5. \A s \in 1..(wb[1] - 1) : s \in freed
        BY <1>3, <3>4, Zenon
    <3> QED
        BY <1>1, <3>1, <3>5, Zenon DEF ReleaseDrainsLast
  <2>3. CASE ~(knobs.acq_rel /\ Kind(wb[scan]) = "ST_REL" /\ freed' # freed)
      BY <1>1, <2>1, <2>3, Zenon DEF ReleaseDrainsLast
  <2> QED
      BY <2>2, <2>3, Zenon
<1>6. CASE ~retire_uop /\ ~drain_store
  <2>1. freed' = freed
      BY <1>6, Zenon DEF Next, complete, retire_end, drain_wb, schedule_ooo, schedule_io,
             advance, allocate_uop, allocate_end, fetch_uop, fetch, fetch_end, mapVars
  <2> QED
      BY <1>1, <2>1, Zenon DEF ReleaseDrainsLast
<1> QED
    BY <1>4, <1>5, <1>6, Zenon

LEMMA FlowInit == Init => Flow /\ ReleaseDrainsLast
<1> SUFFICES ASSUME Init PROVE Flow /\ ReleaseDrainsLast
    BY Zenon
<1>1. /\ executed = {} /\ freed = {} /\ allocated = 0 /\ wb = <<>> /\ stage = "memory" /\ free = RobSize
    BY Zenon DEF Init, MapInit
<1>2. Retired = {}
    BY <1>1, Sizes DEF Retired, entries
<1> QED
    BY <1>1, <1>2 DEF Flow, ReleaseDrainsLast

LEMMA FlowAlways == Spec => [](BInv /\ IInv /\ Flow /\ ReleaseDrainsLast)
<1>1. Spec => []IInv
    BY CoreImplementsMap, MapAlways, PTL
<1>2. ASSUME BInv, IInv, Flow, ReleaseDrainsLast, [Next]_vars
      PROVE  Flow' /\ ReleaseDrainsLast'
  <2>1. CASE Next
      BY <1>2, <2>1, FlowStep, ReleaseStep, Zenon
  <2>2. CASE UNCHANGED vars
    <3>1. UNCHANGED <<trace, knobs, executed, allocated, robVars, freed, wb>> /\ UNCHANGED <<stage, wb_empty>>
        BY <2>2, Zenon DEF vars, mapVars, wbVars
    <3>2. Flow'
        BY <1>2, <3>1, QuietFlow, Zenon DEF Flow
    <3>3. ReleaseDrainsLast'
        BY <1>2, <3>1 DEF ReleaseDrainsLast, Kind
    <3> QED
        BY <3>2, <3>3, Zenon
  <2> QED
      BY <1>2, <2>1, <2>2, Zenon
<1> QED
    BY <1>1, <1>2, RingAlways, FlowInit, PTL DEF Spec

\* With versions a store release leaves the write buffer after every older
\* store, in whatever order the other stores drain ("if current uop is store
\* release and is oldest in wb, drain it", retire_c::drain_wb).
THEOREM ReleasesDrainLast == Spec => []ReleaseDrainsLast
    BY FlowAlways, PTL
=============================================================================
