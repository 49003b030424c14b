--------------------------------- MODULE Map ---------------------------------
(***************************************************************************)
(* Dependences between uops (map.cc) and the pool the uops live in         *)
(* (pool_c of utils.h, uop_c::allocate and free).                          *)
(*                                                                         *)
(* When a uop is fetched it gets a slot of the pool, and map_c records its *)
(* sources: the last writer of each source register, and for a load the    *)
(* stores in flight that overlap it.  A source is a pointer to a slot with *)
(* the number the uop in the slot had.  The register map is never cleared, *)
(* so the slot may have been freed and handed out again since; the         *)
(* scheduler tells by the number (check_srcs).  The store table holds bare *)
(* pointers, and freeing a store removes them.                             *)
(*                                                                         *)
(* MapSpec says what the rest of a core does with a uop: it issues it when *)
(* its sources are ready, finishes it, and frees finished uops in any      *)
(* order.  Backend is one core that does so.                               *)
(*                                                                         *)
(* One thread on its own, on the right path.  KNOB_MEM_OBEY_STORE_DEP is   *)
(* set (its default) and KNOB_MEM_OOO_STORES is knobs.ooo_stores.          *)
(***************************************************************************)
EXTENDS Integers, Sequences

CONSTANTS
    Traces,           \* what may be fetched: sequences of [kind, dst, src, addr, size]
    Knobs             \* configurations: records with a field ooo_stores

VARIABLES
    trace, knobs,     \* fixed during a run
    fetched,          \* uops 1..fetched have been fetched
    freed,            \* uops returned to the pool
    slot,             \* the slot each fetched uop was given
    held,             \* the uop last written to each slot, in order of first use
    pool,             \* released slots, last released first
    reg_map,          \* m_reg_map: register -> source for its readers
    mem_hash,         \* m_oracle_mem_hash: first byte of a store -> slot, or 0
    srcs,             \* m_map_src_info of each fetched uop
    executed, done    \* uops with m_exec_cycle, with m_done_cycle reached

mapVars == <<fetched, freed, slot, held, pool, reg_map, mem_hash, srcs>>

Stores == {"ST", "ST_REL"}       \* ST_REL is a MEM_ST whose m_bar_type is REL_BAR
Loads == {"LD", "LD_ACQ"}        \* LD_ACQ is a MEM_LD whose m_bar_type is ACQ_BAR
Memory == Stores \cup Loads

Uops == [kind : STRING, dst : Nat, src : Nat, addr : Nat, size : Nat]

ASSUME MapAssumption ==
    /\ \A t \in Traces : t \in Seq(Uops)
    /\ \A k \in Knobs : k.ooo_stores \in BOOLEAN

Kind(u) == trace[u].kind
IsMem(u) == Kind(u) \in Memory
Number(u) == u - 1               \* m_uop_num: the trace reader counts from zero
Addresses == {trace[u].addr : u \in DOMAIN trace}
Registers == {trace[u].src : u \in DOMAIN trace} \cup {trace[u].dst : u \in DOMAIN trace}

\* m_invalid_uop, the source of a register nobody has written: slot 0.
Invalid == [slot |-> 0, num |-> 0]

-----------------------------------------------------------------------------
(* The pool                                                                *)

acquire_entry == IF pool = <<>> THEN Len(held) + 1 ELSE Head(pool)

\* What a pointer to slot p finds.
m_valid(p) == p # 0 /\ held[p] \notin freed
m_uop_num(p) == IF m_valid(p) THEN Number(held[p]) ELSE 0

-----------------------------------------------------------------------------
(* Fetching: map_uop and map_mem_dep                                       *)

BYTE_OVERLAP(s, l) ==
    /\ trace[s].addr < trace[l].addr + trace[l].size
    /\ trace[l].addr < trace[s].addr + trace[s].size
SameQuadword(a, b) == a \div 8 = b \div 8

\* A store becomes a source unless a source of the uop has its number.  The
\* numbers compared are those of the uops now in the slots; the slot own has
\* the uop itself by now, which is younger than any store.
add_src_from_uop(own, sources, stores) ==
    sources \cup {[slot |-> q, num |-> m_uop_num(q)] : q \in {r \in stores :
        \A i \in sources : i.slot = own \/ m_uop_num(i.slot) # m_uop_num(r)}}

\* The stores of the quadword that overlap the load, or the youngest of them.
\* The search for the youngest starts from number zero, and is skipped when
\* one store is pending, at the load's own address.
add_store_deps(u, own, sources) ==
    LET pending == {a \in Addresses : mem_hash[a] # 0 /\ SameQuadword(a, trace[u].addr)}
        hit == {mem_hash[a] : a \in {b \in pending : BYTE_OVERLAP(held[mem_hash[b]], u)}}
        youngest == {p \in hit :
                        /\ \A q \in hit : m_uop_num(q) <= m_uop_num(p)
                        /\ pending = {trace[u].addr} \/ m_uop_num(p) > 0}
    IN  add_src_from_uop(own, sources, IF knobs.ooo_stores THEN hit ELSE youngest)

update_store_hash(u, p) ==
    IF Kind(u) \in Stores THEN [mem_hash EXCEPT ![trace[u].addr] = p] ELSE mem_hash

\* map_uop reads the register map, and then the entry of the last store, which
\* nothing ever sets, before it enters the uop as the writer of its register.
map_uop(u, p) ==
    LET registers == IF trace[u].src = 0 THEN {} ELSE {reg_map[trace[u].src]}
        last_store == IF IsMem(u) /\ ~knobs.ooo_stores THEN {Invalid} ELSE {}
        sources == registers \cup last_store
    IN  /\ reg_map' = IF trace[u].dst = 0 THEN reg_map
                      ELSE [reg_map EXCEPT ![trace[u].dst] = [slot |-> p, num |-> Number(u)]]
        /\ srcs' = Append(srcs, IF Kind(u) \in Loads THEN add_store_deps(u, p, sources)
                                ELSE sources)
        /\ mem_hash' = update_store_hash(u, p)

MapInit ==
    /\ trace \in Traces /\ knobs \in Knobs
    /\ executed = {} /\ done = {}
    /\ fetched = 0 /\ freed = {} /\ slot = <<>> /\ held = <<>> /\ pool = <<>> /\ srcs = <<>>
    /\ reg_map = [r \in Registers |-> Invalid]
    /\ mem_hash = [a \in Addresses |-> 0]

\* The frontend takes the next uop of the trace.
fetch ==
    /\ fetched < Len(trace)
    /\ fetched' = fetched + 1
    /\ slot' = Append(slot, acquire_entry)
    /\ held' = IF pool = <<>> THEN Append(held, fetched')
               ELSE [held EXCEPT ![acquire_entry] = fetched']
    /\ pool' = IF pool = <<>> THEN pool ELSE Tail(pool)
    /\ map_uop(fetched + 1, acquire_entry)
    /\ UNCHANGED freed

-----------------------------------------------------------------------------
(* Waiting for sources, and freeing                                        *)

\* check_srcs: the uop is not held back by a source that is not valid, or
\* whose slot another uop has now.
check_srcs(u) ==
    \A i \in srcs[u] : m_valid(i.slot) /\ m_uop_num(i.slot) = i.num => held[i.slot] \in done

\* Mutant: the entry is removed although a younger store has taken it over.
delete_store_hash_entryAnyOwner(u) ==
    IF Kind(u) \in Stores THEN [mem_hash EXCEPT ![trace[u].addr] = 0] ELSE mem_hash

\* The entry of a store is removed, unless a younger store has it now.
delete_store_hash_entry(u) ==
    IF Kind(u) \in Stores /\ mem_hash[trace[u].addr] = slot[u]
    THEN [mem_hash EXCEPT ![trace[u].addr] = 0] ELSE mem_hash

free_uop_resources(u) ==
    /\ freed' = freed \cup {u}
    /\ mem_hash' = delete_store_hash_entry(u)
    /\ pool' = <<slot[u]>> \o pool
    /\ UNCHANGED <<fetched, slot, held, reg_map, srcs>>

-----------------------------------------------------------------------------
(* What a core does with the uops                                          *)

fixed == <<trace, knobs>>

\* The frontend fetches and maps the next uop.
MapFetch == fetch /\ UNCHANGED <<fixed, executed, done>>

\* The scheduler issues a uop whose sources are ready.
MapIssue ==
    /\ \E u \in 1..fetched : check_srcs(u) /\ executed' = executed \cup {u}
    /\ UNCHANGED <<fixed, mapVars, done>>

\* Memory and functional units finish issued uops.
MapFinish ==
    /\ \E finished \in SUBSET executed : done' = done \cup finished
    /\ UNCHANGED <<fixed, mapVars, executed>>

\* Retirement or the write buffer frees finished uops, in any order.
MapFree ==
    /\ \E u \in done \ freed : free_uop_resources(u)
    /\ UNCHANGED <<fixed, executed, done>>

MapNext == MapFetch \/ MapIssue \/ MapFinish \/ MapFree

\* What a core promises to the dependence tracking: it starts with an empty map,
\* maps the uops in trace order, issues none before check_srcs lets it, and
\* frees each uop once, after it is done (frontend_c, schedule_c, retire_c).
MapSpec == MapInit /\ [][MapNext]_<<fixed, mapVars, executed, done>>

-----------------------------------------------------------------------------
(* What the recorded sources stand for                                     *)

\* The last writer of u's source register, if there is one.
Writers(u) ==
    {w \in 1..(u - 1) : /\ trace[u].src # 0 /\ trace[w].dst = trace[u].src
                        /\ \A v \in (w + 1)..(u - 1) : trace[v].dst # trace[u].src}

\* The stores of load u's quadword that overlap it, less those a later store
\* with the same first byte has replaced; without KNOB_MEM_OOO_STORES the
\* youngest only.
Suppliers(u) ==
    LET stores == {s \in 1..(u - 1) :
                      /\ Kind(u) \in Loads /\ Kind(s) \in Stores
                      /\ SameQuadword(trace[s].addr, trace[u].addr) /\ BYTE_OVERLAP(s, u)
                      /\ \A t \in (s + 1)..(u - 1) :
                            ~(Kind(t) \in Stores /\ trace[t].addr = trace[s].addr)}
    IN  IF knobs.ooo_stores THEN stores ELSE {s \in stores : \A t \in stores : t <= s}

\* The test of add_src_from_uop was misled about store s: a register source of
\* u points to the slot s has now but was another uop's, or s has number zero,
\* the number m_invalid_uop and every free slot has.
Mistaken(u, s) ==
    /\ [slot |-> slot[s], num |-> Number(s)] \notin srcs[u]
    /\ \E i \in srcs[u] : i.slot = slot[s] \/ Number(s) = 0

\* A uop is issued after the last writer of its source register is done, and a
\* load after the stores in flight that supply it, although the slots of the
\* recorded sources are handed out again (map_c, schedule_c::check_srcs).  The
\* exception is a store the duplicate test of add_src_from_uop takes for one
\* of the load's register sources: it compares the numbers now in the slots.
SourcesAreDone ==
    \A u \in executed :
        /\ Writers(u) \subseteq done
        /\ \A s \in Suppliers(u) : s \in done \/ Mistaken(u, s)
=============================================================================
