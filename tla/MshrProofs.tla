----------------------------- MODULE MshrProofs -----------------------------
(***************************************************************************)
(* Proofs about the miss-status entries, for any number of cores, entries, *)
(* lines and clients.                                                      *)
(***************************************************************************)
EXTENDS Mshr, TLAPS

\* Only requests marked MEM_MERGED are on a merge list.
MergedOnly == \A e \in Entries : \A x \in merge[e] : req[x].place = "merged"

\* Each uop named by a request is waiting for it, and named only there.
UopsWait ==
    /\ \A e \in Entries : req[e].uop \in Loads =>
            /\ Live(e) /\ req[e].type = "DFETCH"
            /\ client[req[e].uop].state = "waiting"
            /\ client[req[e].uop].line = req[e].line
    /\ \A e, f \in Entries : req[e].uop \in Loads /\ req[e].uop = req[f].uop => e = f
    /\ \A u \in Loads : client[u].state = "waiting" =>
            \E e \in Entries : req[e].uop = u

\* init() has cleared the fields of every entry that is not in use.
UnusedIsClear == \A e \in Entries : ~Live(e) => req[e] = InitReq

Inv == TypeOK /\ FreeIffUnused /\ UnusedIsClear /\ MergedOnly /\ UopsWait

-----------------------------------------------------------------------------

\* The requests a done function reaches are all in flight.
LEMMA UnderIsLive ==
    ASSUME MergedOnly, TypeOK, NEW e \in Entries, Live(e)
    PROVE  \A x \in Under(e) : x \in Entries /\ Live(x)
<1> DEFINE L == {x \in Entries : Live(x)}
<1>1. L \in SUBSET Entries /\ e \in L
  OBVIOUS
<1>2. ASSUME NEW y \in L
      PROVE  merge[y] \subseteq L
  <2>1. merge[y] \subseteq Entries
    BY DEF TypeOK
  <2>2. \A x \in merge[y] : req[x].place = "merged"
    BY DEF MergedOnly
  <2> QED
    BY <2>1, <2>2 DEF Live
<1>3. \A x \in Under(e) : x \in L
  BY <1>1, <1>2, Zenon DEF Under
<1> QED
  BY <1>3

\* A request reaches itself.
LEMMA UnderItself ==
    ASSUME NEW e \in Entries
    PROVE  e \in Under(e) /\ Under(e) \subseteq Entries
BY DEF Under

\* flush_prefetch takes requests that are in flight, unmerged prefetches.
LEMMA FlushedAreLive ==
    ASSUME TypeOK, NEW c \in Cores, NEW e \in Flushed(c)
    PROVE  /\ e \in Entries /\ Live(e) /\ e \in mshr[c]
           /\ req[e].type = "DPRF" /\ req[e].place # "merged"
<1>1. e \in flush_prefetch(c)
  BY DEF Flushed
<1>2. mshr[c] \subseteq Entries
  BY DEF TypeOK
<1> QED
  BY <1>1, <1>2 DEF flush_prefetch, Queues, Live

\* What Move does to the fields of a request.
LEMMA MoveFacts ==
    ASSUME TypeOK, NEW e \in Entries, Move(e)
    PROVE  /\ req[e].place \notin {"none", "merged"}
           /\ \E p \in Places \ {"none", "merged"} : req' = [req EXCEPT ![e].place = p]
<1>1. req[e].place \in {"in", "out", "noc", "llc", "reply"}
  BY DEF Move, NextPlaces
<1>2. \A q \in {"in", "out", "noc", "llc", "reply"} :
        NextPlaces[q] \subseteq Places \ {"none", "merged"}
  BY DEF NextPlaces, Places, Queues
<1> QED
  BY <1>1, <1>2, Zenon DEF Move

-----------------------------------------------------------------------------

\* The lists and requests the constructor sets up satisfy the invariant.
LEMMA InitInv == Init => Inv
<1> SUFFICES ASSUME Init PROVE Inv
  OBVIOUS
<1> USE ConstantsAssumption
<1>0. 0 \in Cores
  BY DEF Cores
<1>1. TypeOK
  BY <1>0, Zenon DEF Init, TypeOK, InitReq, IdleClient, Types, Places
<1>2. FreeIffUnused
  <2>1. \A e \in Entries : ~Live(e) /\ Home[e] \in Cores
    BY DEF Init, Live, InitReq
  <2>2. \A e \in Entries, c \in Cores : e \in freeList[c] <=> Home[e] = c
    BY DEF Init
  <2> QED
    BY <2>1, <2>2 DEF FreeIffUnused
<1>3. MergedOnly
  BY DEF Init, MergedOnly
<1>4. UopsWait
  BY DEF Init, UopsWait, InitReq, IdleClient, Clients
<1>5. UnusedIsClear
  BY DEF Init, UnusedIsClear
<1> QED
  BY <1>1, <1>2, <1>3, <1>4, <1>5 DEF Inv

\* A request that takes an entry keeps the invariant, whether it is merged,
\* queued or put off, and whatever the flush before it freed.
LEMMA AllocateKeeps ==
    ASSUME Inv, NEW c \in Cores, NEW e \in freeList[c] \cup Flushed(c),
           NEW m \in Entries \cup {None}, NEW t \in Types, NEW l \in Lines,
           NEW u \in Clients \cup {None}, Allocate(c, e, m, t, l, u),
           u \in Loads => t = "DFETCH" /\ client[u].state # "waiting",
           client' = IF u = None THEN client ELSE Accepted(u, l)
    PROVE  Inv'
<1> USE ConstantsAssumption
<1> DEFINE F == Flushed(c)
           new == [type |-> t, line |-> l, core |-> c, uop |-> u,
                   place |-> IF m # None THEN "merged"
                             ELSE IF StillFull(c) THEN "retry" ELSE "in",
                   at |-> c]
<1>1. /\ \A x \in F : /\ x \in Entries /\ Live(x) /\ x \in mshr[c]
                      /\ req[x].type = "DPRF" /\ req[x].place # "merged"
      /\ F \subseteq Entries
  BY FlushedAreLive DEF Inv
<1>2. /\ e \in Entries /\ req[e].place # "merged"
      /\ e \in freeList[c] => ~Live(e)
  BY <1>1 DEF Inv, TypeOK, FreeIffUnused, Live
<1>3. /\ 0 \in Cores
      /\ InitReq \in [type : Types, line : Lines \cup {None}, core : Cores,
                      uop : Clients \cup {None}, place : Places, at : Cores]
      /\ new \in [type : Types, line : Lines \cup {None}, core : Cores,
                  uop : Clients \cup {None}, place : Places, at : Cores]
  BY DEF Cores, InitReq, Types, Places, Queues
<1>4. /\ req'[e] = new
      /\ \A x \in F : x # e => req'[x] = InitReq
      /\ \A x \in Entries : x # e /\ x \notin F => req'[x] = req[x]
      /\ req' \in [Entries -> [type : Types, line : Lines \cup {None},
                   core : Cores, uop : Clients \cup {None}, place : Places,
                   at : Cores]]
  BY <1>1, <1>2, <1>3, Zenon DEF Allocate, FlushedReq, Inv, TypeOK
<1>5. /\ \A x \in Entries : x = e => Live(x)'
      /\ \A x \in F : x # e => ~Live(x)'
      /\ \A x \in Entries : x # e /\ x \notin F => (Live(x)' <=> Live(x))
  <2>1. new.place # "none" /\ InitReq.place = "none"
    BY DEF InitReq
  <2> QED
    BY <1>1, <1>4, <2>1 DEF Live
<1>6. /\ freeList' \in [Cores -> SUBSET Entries]
      /\ freeList'[c] = (freeList[c] \cup F) \ {e}
      /\ \A d \in Cores : d # c => freeList'[d] = freeList[d]
  BY <1>1 DEF Allocate, Unallocated, Inv, TypeOK
<1>7. TypeOK'
  <2>1. mshr' \in [Cores -> SUBSET Entries]
    BY <1>1, <1>2 DEF Allocate, Inv, TypeOK
  <2>2. merge' \in [Entries -> SUBSET Entries]
    BY <1>2 DEF Allocate, Joined, Inv, TypeOK
  <2>3. stopPrefetch' \in BOOLEAN
    BY DEF Allocate
  <2>4. client' \in [Clients ->
         [state : {"idle", "waiting", "denied", "unfilled", "filled"},
          line : Lines \cup {None}]]
    BY DEF Accepted, Inv, TypeOK
  <2> QED
    BY <1>4, <1>6, <2>1, <2>2, <2>3, <2>4 DEF TypeOK
<1>8. FreeIffUnused'
  <2>1. \A x \in Entries, d \in Cores :
            x \in freeList'[d] <=> IF x = e THEN FALSE
                                   ELSE IF x \in F THEN d = c
                                   ELSE x \in freeList[d]
    <3> SUFFICES ASSUME NEW x \in Entries, NEW d \in Cores
                 PROVE  x \in freeList'[d] <=> IF x = e THEN FALSE
                                   ELSE IF x \in F THEN d = c
                                   ELSE x \in freeList[d]
      OBVIOUS
    <3>1. x \in F => x \notin freeList[d]
      BY <1>1 DEF Inv, FreeIffUnused
    <3>2. x = e /\ d # c => x \notin freeList[d]
      BY <1>1 DEF Inv, FreeIffUnused
    <3> QED
      BY <1>6, <3>1, <3>2
  <2> QED
    BY <1>5, <2>1 DEF Inv, FreeIffUnused
<1>9. MergedOnly'
  <2> SUFFICES ASSUME NEW x \in Entries, NEW y \in merge'[x]
               PROVE  req'[y].place = "merged"
    BY DEF MergedOnly
  <2>1. CASE m # None /\ x = m /\ y = e
    BY <1>4, <2>1
  <2>2. CASE y \in merge[x]
    <3>1. y \in Entries /\ req[y].place = "merged"
      BY <2>2, Zenon DEF Inv, TypeOK, MergedOnly
    <3> QED
      BY <1>1, <1>2, <1>4, <3>1
  <2> QED
    BY <2>1, <2>2 DEF Allocate, Joined, Inv, TypeOK
<1>10. UopsWait'
  <2>1. /\ \A x \in Entries : x \in F => req[x].uop \notin Loads
        /\ e \in freeList[c] => req[e].uop \notin Loads
    BY <1>1, <1>2 DEF Inv, UopsWait
  <2>2. InitReq.uop \notin Loads /\ new.uop = u /\ new.line = l /\ new.type = t
    BY Zenon DEF InitReq, Clients
  <2>3. \A x \in Entries : x # e /\ req'[x].uop \in Loads =>
            /\ x \notin F /\ req'[x] = req[x] /\ req[x].uop # u
    BY <1>4, <2>2 DEF Inv, UopsWait
  <2>4. \A v \in Loads : v # u => client'[v] = client[v]
    BY DEF Accepted, Inv, TypeOK, Clients
  <2>5. u \in Loads => client'[u].state = "waiting" /\ client'[u].line = l
    BY Zenon DEF Accepted, Inv, TypeOK, Clients
  <2>6. ASSUME NEW x \in Entries, req'[x].uop \in Loads
        PROVE  /\ Live(x)' /\ req'[x].type = "DFETCH"
               /\ client'[req'[x].uop].state = "waiting"
               /\ client'[req'[x].uop].line = req'[x].line
    <3>1. CASE x = e
      BY <1>4, <1>5, <2>2, <2>5, <2>6, <3>1
    <3>2. CASE x # e
      BY <1>5, <2>3, <2>4, <2>6, <3>2 DEF Inv, UopsWait
    <3> QED
      BY <3>1, <3>2, Zenon
  <2>7. ASSUME NEW x \in Entries, NEW y \in Entries, req'[x].uop \in Loads,
               req'[x].uop = req'[y].uop
        PROVE  x = y
    <3>1. CASE x # e /\ y # e
      BY <2>3, <2>7, <3>1 DEF Inv, UopsWait
    <3>2. CASE x = e \/ y = e
      BY <1>4, <2>2, <2>3, <2>7, <3>2
    <3> QED
      BY <3>1, <3>2, Zenon
  <2>8. ASSUME NEW v \in Loads, client'[v].state = "waiting"
        PROVE  \E x \in Entries : req'[x].uop = v
    <3>1. CASE v = u
      BY <1>2, <1>4, <2>2, <3>1, Zenon
    <3>2. CASE v # u
      <4>1. PICK x \in Entries : req[x].uop = v
        BY <2>4, <2>8, <3>2 DEF Inv, UopsWait
      <4>2. x # e /\ x \notin F
        BY <2>1, <4>1, Zenon
      <4> QED
        BY <1>4, <4>1, <4>2, Zenon
    <3> QED
      BY <3>1, <3>2, Zenon
  <2> QED
    BY <2>6, <2>7, <2>8 DEF UopsWait
<1>11. UnusedIsClear'
  <2>1. InitReq' = InitReq
    BY DEF InitReq
  <2> QED
    BY <1>4, <1>5, <2>1 DEF Inv, UnusedIsClear
<1> QED
  BY <1>7, <1>8, <1>9, <1>10, <1>11 DEF Inv

\* A flush alone, with the answer its caller gets, keeps the invariant.
LEMMA FlushKeeps ==
    ASSUME Inv, NEW c \in Cores, FlushOnly(c),
           client' \in [Clients ->
             [state : {"idle", "waiting", "denied", "unfilled", "filled"},
              line : Lines \cup {None}]],
           \A v \in Loads : \/ client'[v] = client[v]
                            \/ /\ client[v].state # "waiting"
                               /\ client'[v].state # "waiting"
    PROVE  Inv'
<1> USE ConstantsAssumption
<1> DEFINE F == Flushed(c)
<1>1. /\ \A x \in F : /\ x \in Entries /\ Live(x)
                      /\ req[x].type = "DPRF" /\ req[x].place # "merged"
      /\ F \subseteq Entries
  BY FlushedAreLive DEF Inv
<1>2. \A x \in Entries : req'[x] = IF x \in F THEN InitReq ELSE req[x]
  BY DEF FlushOnly, FlushedReq
<1>3. /\ 0 \in Cores
      /\ InitReq \in [type : Types, line : Lines \cup {None}, core : Cores,
                      uop : Clients \cup {None}, place : Places, at : Cores]
  BY DEF Cores, InitReq, Types, Places, Queues
<1>4. TypeOK'
  <2>1. req' \in [Entries -> [type : Types, line : Lines \cup {None},
                   core : Cores, uop : Clients \cup {None}, place : Places,
                   at : Cores]]
    BY <1>3 DEF FlushOnly, FlushedReq, Inv, TypeOK
  <2>2. /\ mshr' \in [Cores -> SUBSET Entries]
        /\ freeList' \in [Cores -> SUBSET Entries]
    BY <1>1 DEF FlushOnly, Inv, TypeOK
  <2>3. stopPrefetch' \in BOOLEAN /\ merge' \in [Entries -> SUBSET Entries]
    BY Zenon DEF FlushOnly, Inv, TypeOK
  <2> QED
    BY <2>1, <2>2, <2>3 DEF TypeOK
<1>5. FreeIffUnused'
  <2>1. \A x \in Entries : Live(x)' <=> Live(x) /\ x \notin F
    BY <1>1, <1>2 DEF Live, InitReq
  <2>2. \A x \in Entries, d \in Cores :
          x \in freeList'[d] <=> IF x \in F THEN c = d ELSE x \in freeList[d]
    <3>1. /\ freeList'[c] = freeList[c] \cup F
          /\ \A d \in Cores : d # c => freeList'[d] = freeList[d]
      BY Zenon DEF FlushOnly, Inv, TypeOK
    <3> QED
      BY <1>1, <3>1 DEF Inv, FreeIffUnused
  <2> QED
    BY <1>1, <2>1, <2>2 DEF Inv, FreeIffUnused
<1>6. MergedOnly'
  BY <1>1, <1>2, Zenon DEF FlushOnly, Inv, MergedOnly, TypeOK
<1>7. UopsWait'
  <2>1. \A x \in Entries : req'[x].uop \in Loads => x \notin F /\ req'[x] = req[x]
    BY <1>2 DEF InitReq, Clients
  <2>2. \A x \in Entries : req[x].uop \in Loads => x \notin F
    BY <1>1, Zenon DEF Inv, UopsWait
  <2>3. \A x \in Entries : req'[x].uop \in Loads => client'[req[x].uop] = client[req[x].uop]
    BY <2>1 DEF Inv, UopsWait
  <2>4. \A x \in Entries : x \notin F => (Live(x)' <=> Live(x))
    BY <1>2, Zenon DEF Live
  <2>5. \A x \in Entries : req'[x].uop \in Loads =>
            /\ Live(x)' /\ req'[x].type = "DFETCH"
            /\ client'[req'[x].uop].state = "waiting"
            /\ client'[req'[x].uop].line = req'[x].line
    BY <2>1, <2>3, <2>4 DEF Inv, UopsWait
  <2>6. \A x, y \in Entries : req'[x].uop \in Loads /\ req'[x].uop = req'[y].uop => x = y
    BY <2>1 DEF Inv, UopsWait
  <2>7. ASSUME NEW v \in Loads, client'[v].state = "waiting"
        PROVE  \E x \in Entries : req'[x].uop = v
    <3>1. client[v].state = "waiting"
      BY <2>7
    <3>2. PICK x \in Entries : req[x].uop = v
      BY <3>1 DEF Inv, UopsWait
    <3> QED
      BY <1>2, <2>2, <3>2
  <2> QED
    BY <2>5, <2>6, <2>7, Zenon DEF UopsWait
<1>8. UnusedIsClear'
  <2>1. InitReq' = InitReq
    BY DEF InitReq
  <2> QED
    BY <1>2, <2>1 DEF Inv, UnusedIsClear, Live
<1> QED
  BY <1>4, <1>5, <1>6, <1>7, <1>8 DEF Inv

\* The done functions keep the invariant, whichever ports are busy.
LEMMA CompleteKeeps ==
    ASSUME Inv, NEW e \in Entries, NEW busy \in SUBSET MayBeBusy(e),
           Complete(e, busy)
    PROVE  Inv'
<1> USE ConstantsAssumption
<1> DEFINE G == Served(e, busy)
           W == WokenClients(Woken(e, busy))
<1>1. \A x \in Under(e) : x \in Entries /\ Live(x)
  <2>1. Live(e)
    BY DEF Complete, Live
  <2> QED
    BY <2>1, UnderIsLive DEF Inv
<1>2. G \subseteq Entries /\ \A x \in G : Live(x)
  BY <1>1 DEF Served
<1>3. /\ free_req(G) /\ merge' = Unserved(G)
      /\ client' = [u \in Clients |->
            IF u \in W THEN [client[u] EXCEPT !.state = "filled"] ELSE client[u]]
      /\ UNCHANGED stopPrefetch
  BY DEF Complete
<1> HIDE DEF G, W
<1>4. \A x \in Entries : req'[x] = IF x \in G THEN InitReq ELSE req[x]
  BY <1>3 DEF free_req
<1>5. /\ 0 \in Cores
      /\ InitReq \in [type : Types, line : Lines \cup {None}, core : Cores,
                      uop : Clients \cup {None}, place : Places, at : Cores]
  BY DEF Cores, InitReq, Types, Places, Queues
<1>6. TypeOK'
  <2>1. req' \in [Entries -> [type : Types, line : Lines \cup {None},
                   core : Cores, uop : Clients \cup {None}, place : Places,
                   at : Cores]]
    BY <1>3, <1>5 DEF free_req, Inv, TypeOK
  <2>2. /\ mshr' \in [Cores -> SUBSET Entries]
        /\ freeList' \in [Cores -> SUBSET Entries]
    BY <1>2, <1>3 DEF free_req, Inv, TypeOK
  <2>3. merge' \in [Entries -> SUBSET Entries]
    BY <1>3 DEF Unserved, Inv, TypeOK
  <2>4. client' \in [Clients ->
         [state : {"idle", "waiting", "denied", "unfilled", "filled"},
          line : Lines \cup {None}]]
    BY <1>3, Zenon DEF Inv, TypeOK
  <2>5. stopPrefetch' \in BOOLEAN
    BY <1>3 DEF Inv, TypeOK
  <2> QED
    BY <2>1, <2>2, <2>3, <2>4, <2>5 DEF TypeOK
<1>7. FreeIffUnused'
  <2>1. \A x \in Entries : Live(x)' <=> Live(x) /\ x \notin G
    BY <1>2, <1>4 DEF Live, InitReq
  <2>2. \A x \in Entries, d \in Cores :
          x \in freeList'[d] <=>
            IF x \in G THEN req[x].core = d ELSE x \in freeList[d]
    BY <1>2, <1>3 DEF free_req, Inv, FreeIffUnused
  <2>3. \A x \in Entries : req[x].core \in Cores
    BY DEF Inv, TypeOK
  <2> QED
    BY <1>2, <2>1, <2>2, <2>3 DEF Inv, FreeIffUnused
<1>8. MergedOnly'
  <2> SUFFICES ASSUME NEW x \in Entries, NEW y \in merge'[x]
               PROVE  req'[y].place = "merged"
    BY DEF MergedOnly
  <2>1. y \in merge[x] /\ y \notin G
    BY <1>3 DEF Unserved
  <2>2. y \in Entries /\ req[y].place = "merged"
    BY <2>1, Zenon DEF Inv, TypeOK, MergedOnly
  <2> QED
    BY <1>4, <2>1, <2>2
<1>9. UopsWait'
  <2>1. \A x \in Entries : req'[x].uop \in Loads => x \notin G /\ req'[x] = req[x]
    BY <1>4 DEF InitReq, Clients
  <2>2. \A v \in Loads : v \in W <=> \E x \in G : req[x].uop = v
    <3> SUFFICES ASSUME NEW v \in Loads
                 PROVE  v \in W <=> \E x \in Woken(e, busy) : req[x].uop = v /\ x \in G
      BY DEF Woken, G, Served
    <3>1. v \in W <=> \E x \in Woken(e, busy) : req[x].uop = v
      BY DEF W, WokenClients
    <3>2. ASSUME NEW x \in Woken(e, busy), req[x].uop = v
          PROVE  x \in G
      <4>1. x \in Entries
        BY <1>1, Zenon DEF Woken
      <4>2. req[x].type = "DFETCH"
        BY <3>2, <4>1 DEF Inv, UopsWait
      <4> QED
        BY <4>2 DEF Woken, G
    <3> QED
      BY <3>1, <3>2
  <2>3. \A v \in Clients : v \notin W => client'[v] = client[v]
    BY <1>3
  <2>4. \A v \in Clients : v \in W => client'[v].state = "filled"
    BY <1>3, Zenon DEF Inv, TypeOK
  <2>5. \A x \in Entries : req'[x].uop \in Loads => req[x].uop \notin W
    BY <1>2, <2>1, <2>2, Zenon DEF Inv, UopsWait
  <2>6. \A x \in Entries : x \notin G => (Live(x)' <=> Live(x))
    BY <1>4, Zenon DEF Live
  <2>7. \A x \in Entries : req'[x].uop \in Loads =>
            /\ Live(x)' /\ req'[x].type = "DFETCH"
            /\ client'[req'[x].uop].state = "waiting"
            /\ client'[req'[x].uop].line = req'[x].line
    BY <2>1, <2>3, <2>5, <2>6 DEF Inv, UopsWait, Clients
  <2>8. \A x, y \in Entries : req'[x].uop \in Loads /\ req'[x].uop = req'[y].uop => x = y
    BY <2>1 DEF Inv, UopsWait
  <2>9. ASSUME NEW v \in Loads, client'[v].state = "waiting"
        PROVE  \E x \in Entries : req'[x].uop = v
    <3>1. v \notin W /\ client[v].state = "waiting"
      BY <2>3, <2>4, <2>9, Zenon DEF Clients
    <3>2. PICK x \in Entries : req[x].uop = v
      BY <3>1 DEF Inv, UopsWait
    <3>3. x \notin G
      BY <2>2, <3>1, <3>2, Zenon
    <3> QED
      BY <1>4, <3>2, <3>3
  <2> QED
    BY <2>7, <2>8, <2>9, Zenon DEF UopsWait
<1>10. UnusedIsClear'
  <2>1. InitReq' = InitReq
    BY DEF InitReq
  <2> QED
    BY <1>4, <2>1 DEF Inv, UnusedIsClear, Live
<1> QED
  BY <1>6, <1>7, <1>8, <1>9, <1>10 DEF Inv

\* Promoting a prefetch hands it the uop and moves it nowhere.
LEMMA PromoteKeeps ==
    ASSUME Inv, NEW u \in Clients, NEW l \in Lines, Promote(u, l)
    PROVE  Inv'
<1> USE ConstantsAssumption
<1> DEFINE t == RequestType(u)
           c == ClientCore[u]
<1>1. PICK m \in MatchingReqs(l) :
            req[m].type = "DPRF" /\ adjust_req(m, t, l, u, c)
  BY DEF Promote
<1>2. m \in Entries /\ req[m].line = l
  BY DEF MatchingReqs, search_req, Inv, TypeOK
<1>3. /\ u \in Loads => t = "DFETCH"
      /\ t \in Types /\ c \in Cores
      /\ client[u].state # "waiting"
  BY Zenon DEF RequestType, Types, CanAsk, Promote
<1> HIDE DEF t, c
<1>4. Live(m)
  BY <1>1, <1>2 DEF Inv, UnusedIsClear, InitReq
<1> DEFINE R == [type : Types, line : Lines \cup {None}, core : Cores,
                 uop : Clients \cup {None}, place : Places, at : Cores]
           r == [req[m] EXCEPT !.type = t, !.line = l, !.core = c, !.uop = u]
<1>5. /\ req' = [req EXCEPT ![m] = r]
      /\ req[m] \in R /\ req \in [Entries -> R]
  BY <1>1, <1>2 DEF adjust_req, Inv, TypeOK
<1>6. /\ r \in R
      /\ r.place = req[m].place /\ r.uop = u /\ r.line = l /\ r.type = t
  BY <1>3, <1>5, Zenon
<1>60. /\ req' \in [Entries -> R] /\ req'[m] = r
       /\ \A x \in Entries : x # m => req'[x] = req[x]
  BY <1>2, <1>5, <1>6
<1> HIDE DEF R, r
<1>7. \A x \in Entries : req'[x].place = req[x].place /\ (Live(x)' <=> Live(x))
  BY <1>6, <1>60 DEF Live
<1>8. /\ client' \in [Clients ->
         [state : {"idle", "waiting", "denied", "unfilled", "filled"},
          line : Lines \cup {None}]]
      /\ client'[u].state = "waiting" /\ client'[u].line = l
      /\ \A v \in Clients : v # u => client'[v] = client[v]
  BY DEF Promote, Accepted, Inv, TypeOK
<1>9. UNCHANGED <<mshr, freeList, merge, stopPrefetch>>
  BY DEF Promote
<1>10. TypeOK'
  BY <1>60, <1>8, <1>9 DEF Inv, TypeOK, R
<1>11. FreeIffUnused'
  BY <1>7, <1>9 DEF Inv, FreeIffUnused
<1>12. UnusedIsClear'
  <2>1. InitReq' = InitReq
    BY DEF InitReq
  <2> QED
    BY <1>4, <1>60, <1>7, <2>1 DEF Inv, UnusedIsClear
<1>13. MergedOnly'
  BY <1>7, <1>9 DEF Inv, MergedOnly, TypeOK
<1>14. UopsWait'
  <2>1. req[m].uop \notin Loads
    BY <1>1, <1>2, Zenon DEF Inv, UopsWait
  <2>2. \A x \in Entries : req[x].uop \in Loads => req[x].uop # u
    BY <1>3, Zenon DEF Inv, UopsWait
  <2>3. \A x \in Entries : req'[x].uop \in Loads =>
            /\ Live(x)' /\ req'[x].type = "DFETCH"
            /\ client'[req'[x].uop].state = "waiting"
            /\ client'[req'[x].uop].line = req'[x].line
    <3> SUFFICES ASSUME NEW x \in Entries, req'[x].uop \in Loads
                 PROVE  /\ Live(x)' /\ req'[x].type = "DFETCH"
                        /\ client'[req'[x].uop].state = "waiting"
                        /\ client'[req'[x].uop].line = req'[x].line
      BY Zenon
    <3>1. CASE x = m
      BY <1>3, <1>4, <1>6, <1>60, <1>7, <1>8, <3>1, Zenon
    <3>2. CASE x # m
      BY <1>60, <1>7, <1>8, <2>2, <3>2 DEF Inv, UopsWait, Clients
    <3> QED
      BY <3>1, <3>2, Zenon
  <2>4. \A x, y \in Entries : req'[x].uop \in Loads /\ req'[x].uop = req'[y].uop => x = y
    BY <1>6, <1>60, <2>2 DEF Inv, UopsWait
  <2>5. ASSUME NEW v \in Loads, client'[v].state = "waiting"
        PROVE  \E x \in Entries : req'[x].uop = v
    <3>1. CASE v = u
      BY <1>2, <1>6, <1>60, <3>1, Zenon
    <3>2. CASE v # u
      <4>1. PICK x \in Entries : req[x].uop = v
        BY <1>8, <2>5, <3>2 DEF Inv, UopsWait, Clients
      <4> QED
        BY <1>60, <2>1, <4>1, Zenon
    <3> QED
      BY <3>1, <3>2, Zenon
  <2> QED
    BY <2>3, <2>4, <2>5 DEF UopsWait
<1> QED
  BY <1>10, <1>11, <1>12, <1>13, <1>14, Zenon DEF Inv

\* A request that only changes its place keeps the invariant.
LEMMA PlaceKeeps ==
    ASSUME Inv, NEW e \in Entries, req[e].place \notin {"none", "merged"},
           NEW p \in Places \ {"none", "merged"},
           req' = [req EXCEPT ![e].place = p],
           UNCHANGED <<mshr, freeList, merge, stopPrefetch, client>>
    PROVE  Inv'
<1>1. /\ req'[e] = [req[e] EXCEPT !.place = p]
      /\ \A x \in Entries : x # e => req'[x] = req[x]
      /\ req' \in [Entries -> [type : Types, line : Lines \cup {None},
                   core : Cores, uop : Clients \cup {None}, place : Places,
                   at : Cores]]
  <2>1. req \in [Entries -> [type : Types, line : Lines \cup {None},
                  core : Cores, uop : Clients \cup {None}, place : Places,
                  at : Cores]]
    BY Zenon DEF Inv, TypeOK
  <2> QED
    BY ONLY <2>1, e \in Entries, p \in Places \ {"none", "merged"},
            req' = [req EXCEPT ![e].place = p]
<1>2. /\ req'[e].place = p /\ req'[e].uop = req[e].uop
      /\ req'[e].type = req[e].type /\ req'[e].line = req[e].line
  BY <1>1 DEF Inv, TypeOK
<1>3. \A x \in Entries : (Live(x)' <=> Live(x)) /\ req'[x].uop = req[x].uop
         /\ req'[x].type = req[x].type /\ req'[x].line = req[x].line
  BY <1>1, <1>2 DEF Live
<1>4. TypeOK'
  BY <1>1 DEF Inv, TypeOK
<1>5. FreeIffUnused'
  BY <1>3 DEF Inv, FreeIffUnused
<1>6. UnusedIsClear'
  <2>1. InitReq' = InitReq
    BY DEF InitReq
  <2> QED
    BY <1>1, <1>3, <2>1 DEF Inv, UnusedIsClear, Live
<1>7. MergedOnly'
  BY <1>1 DEF Inv, MergedOnly, TypeOK
<1>8. UopsWait'
  BY <1>3 DEF Inv, UopsWait
<1> QED
  BY <1>4, <1>5, <1>6, <1>7, <1>8 DEF Inv

\* Every step of the cores, the caches and the network keeps the invariant.
LEMMA NextKeeps == Inv /\ [Next]_vars => Inv'
<1> SUFFICES ASSUME Inv, [Next]_vars PROVE Inv'
  OBVIOUS
<1> USE ConstantsAssumption
<1>0. ASSUME NEW u \in Clients
      PROVE  /\ RequestType(u) \in Types
             /\ u \in Loads => RequestType(u) = "DFETCH"
             /\ ClientCore[u] \in Cores /\ u # None
  BY DEF RequestType, Types, Clients
<1>1. CASE UNCHANGED vars
  BY <1>1 DEF vars, Inv, TypeOK, FreeIffUnused, UnusedIsClear, MergedOnly,
              UopsWait, Live, InitReq
<1>2. ASSUME NEW u \in Clients, NEW l \in Lines, Promote(u, l)
      PROVE  Inv'
  BY <1>2, PromoteKeeps, Zenon
<1>3. ASSUME NEW u \in Clients, NEW l \in Lines, DemandMiss(u, l)
      PROVE  Inv'
  <2> DEFINE c == ClientCore[u]
  <2>1. PICK m \in Entries \cup {None}, e \in freeList[c] \cup Flushed(c) :
            Allocate(c, e, m, RequestType(u), l, u)
    <3>1. MatchingReqs(l) \subseteq Entries
      BY DEF MatchingReqs, search_req, Inv, TypeOK
    <3> QED
      BY <1>3, <3>1 DEF DemandMiss
  <2>2. client' = Accepted(u, l) /\ client[u].state # "waiting"
    BY <1>3, Zenon DEF DemandMiss, CanAsk
  <2> QED
    BY <1>0, <2>1, <2>2, AllocateKeeps, Zenon
<1>4. ASSUME NEW u \in Clients, NEW l \in Lines, DemandRefused(u, l)
      PROVE  Inv'
  <2>1. FlushOnly(ClientCore[u]) /\ client' = Refused(u, l)
        /\ client[u].state # "waiting"
    BY <1>4, Zenon DEF DemandRefused, CanAsk
  <2>2. client' \in [Clients ->
             [state : {"idle", "waiting", "denied", "unfilled", "filled"},
              line : Lines \cup {None}]]
    BY <2>1, Zenon DEF Refused, Inv, TypeOK
  <2>3. \A v \in Loads : \/ client'[v] = client[v]
                         \/ /\ client[v].state # "waiting"
                            /\ client'[v].state # "waiting"
    BY <2>1 DEF Refused, Inv, TypeOK, Clients
  <2> QED
    BY <1>0, <2>1, <2>2, <2>3, FlushKeeps, Zenon
<1>5. ASSUME NEW c \in Cores, NEW l \in Lines, Prefetch(c, l)
      PROVE  Inv'
  <2>1. CASE FlushOnly(c)
    BY <1>5, <2>1, FlushKeeps, Zenon DEF Prefetch, Inv, TypeOK
  <2>2. CASE \E e \in FreeAtFirst(c) : Allocate(c, e, None, "DPRF", l, None)
    <3>1. PICK e \in freeList[c] \cup Flushed(c) :
            Allocate(c, e, None, "DPRF", l, None)
      BY <2>2, Zenon DEF FreeAtFirst
    <3>2. "DPRF" \in Types /\ None \notin Loads /\ client' = client
      BY <1>5, Zenon DEF Types, Clients, Prefetch
    <3> QED
      BY <3>1, <3>2, AllocateKeeps, Zenon
  <2> QED
    BY <1>5, <2>1, <2>2, Zenon DEF Prefetch
<1>6. ASSUME PrefetchAgain
      PROVE  Inv'
  BY <1>6, Zenon DEF PrefetchAgain, Inv, TypeOK, FreeIffUnused, UnusedIsClear,
              MergedOnly, UopsWait, Live, InitReq
<1>7. ASSUME NEW e \in Entries, Retry(e)
      PROVE  Inv'
  <2>1. "in" \in Places \ {"none", "merged"}
    BY DEF Places, Queues
  <2> QED
    BY <1>7, <2>1, PlaceKeeps, Zenon DEF Retry
<1>8. ASSUME NEW e \in Entries, Move(e)
      PROVE  Inv'
  BY <1>8, MoveFacts, PlaceKeeps, Zenon DEF Move, Inv
<1>9. ASSUME NEW e \in Entries, NEW busy \in SUBSET MayBeBusy(e), Complete(e, busy)
      PROVE  Inv'
  BY <1>9, CompleteKeeps
<1> QED
  BY <1>1, <1>2, <1>3, <1>4, <1>5, <1>6, <1>7, <1>8, <1>9 DEF Next, DropPrefetch

\* The invariant holds at every step of every run.
LEMMA AlwaysInv == Spec => []Inv
BY InitInv, NextKeeps, PTL DEF Spec

\* No entry of any free list is in use and every other entry is, whatever is
\* promoted, flushed, merged or freed on whichever core's lists.
THEOREM FreeListsAreExact == Spec => []FreeIffUnused
<1>1. Inv => FreeIffUnused
  BY DEF Inv
<1> QED
  BY <1>1, AlwaysInv, PTL

\* A uop that new_mem_req accepted is carried by exactly one request, for its
\* line, until the done function wakes it: with any number of cores, any
\* merging across cores, and prefetching on or off.
THEOREM NoUopIsDropped == Spec => []WaitingLoadHasEntry
<1>1. Inv => WaitingLoadHasEntry
  <2> SUFFICES ASSUME Inv, NEW u \in Loads, client[u].state = "waiting"
               PROVE  \E e \in Entries :
                        /\ Live(e) /\ req[e].uop = u /\ req[e].line = client[u].line
                        /\ \A f \in Entries : req[f].uop = u => f = e
    BY DEF WaitingLoadHasEntry
  <2>1. PICK e \in Entries : req[e].uop = u
    BY DEF Inv, UopsWait
  <2> QED
    BY <2>1 DEF Inv, UopsWait
<1> QED
  BY <1>1, AlwaysInv, PTL

-----------------------------------------------------------------------------

\* Nothing makes a core take over an entry of another: there are no
\* prefetches to promote, or there is no other core.
NoTakeover == Prefetching => NumCores = 1

HomeInv ==
    /\ Inv /\ EntriesStayHome /\ NoTakeover
    /\ \A e \in Entries : Live(e) => req[e].core = Home[e]
    /\ ~Prefetching => \A e \in Entries : req[e].type # "DPRF"

\* The constructor puts every entry on its own core's free list.
LEMMA HomeInit == NoTakeover /\ Init => HomeInv
<1> SUFFICES ASSUME NoTakeover, Init PROVE HomeInv
  OBVIOUS
<1>1. \A e \in Entries : ~Live(e) /\ req[e].type # "DPRF"
  BY DEF Init, Live, InitReq
<1>2. EntriesStayHome
  BY <1>1 DEF Init, EntriesStayHome
<1> QED
  BY <1>1, <1>2, InitInv DEF HomeInv

\* Freeing and allocating on the lists of one core.
LEMMA HomeAllocate ==
    ASSUME HomeInv, Inv', NEW c \in Cores, NEW e \in freeList[c] \cup Flushed(c),
           NEW m, NEW t \in Types, NEW l, NEW u, Allocate(c, e, m, t, l, u),
           t = "DPRF" => Prefetching
    PROVE  HomeInv'
<1> USE ConstantsAssumption
<1> DEFINE F == Flushed(c)
<1>1. /\ \A x \in F : x \in Entries /\ Live(x) /\ x \in mshr[c]
      /\ F \subseteq Entries
  BY FlushedAreLive DEF HomeInv, Inv
<1>2. e \in Entries /\ Home[e] = c /\ \A x \in F : Home[x] = c
  BY <1>1, Zenon DEF HomeInv, EntriesStayHome, Inv, TypeOK
<1>3. /\ req'[e].place # "none" /\ req'[e].core = c /\ req'[e].type = t
      /\ \A x \in F : x # e => req'[x] = InitReq
      /\ \A x \in Entries : x # e /\ x \notin F => req'[x] = req[x]
  BY <1>1, <1>2, Zenon DEF Allocate, FlushedReq, HomeInv, Inv, TypeOK
<1>4. \A x \in Entries : Live(x)' <=> x = e \/ (Live(x) /\ x \notin F)
  BY <1>1, <1>2, <1>3 DEF Live, InitReq
<1>5. /\ mshr'[c] = (mshr[c] \ F) \cup {e}
      /\ freeList'[c] = (freeList[c] \cup F) \ {e}
      /\ \A d \in Cores : d # c => mshr'[d] = mshr[d] /\ freeList'[d] = freeList[d]
  <2>1. /\ mshr' = [mshr EXCEPT ![c] = (@ \ F) \cup {e}]
        /\ freeList' = [freeList EXCEPT ![c] = (freeList[c] \cup F) \ {e}]
    BY Zenon DEF Allocate, Unallocated
  <2>2. mshr \in [Cores -> SUBSET Entries] /\ freeList \in [Cores -> SUBSET Entries]
    BY Zenon DEF HomeInv, Inv, TypeOK
  <2> HIDE DEF F
  <2> QED
    BY ONLY <2>1, <2>2, c \in Cores, Zenon
<1> HIDE DEF F
<1>6. EntriesStayHome'
  <2> SUFFICES ASSUME NEW x \in Entries, NEW d \in Cores
               PROVE  /\ x \in mshr'[d] <=> (d = Home[x] /\ Live(x)')
                      /\ x \in freeList'[d] <=> (d = Home[x] /\ ~Live(x)')
    BY Zenon DEF EntriesStayHome
  <2>1. /\ x \in mshr[d] <=> (d = Home[x] /\ Live(x))
        /\ x \in freeList[d] <=> (d = Home[x] /\ ~Live(x))
    BY Zenon DEF HomeInv, EntriesStayHome
  <2>2. CASE d = c
    BY <1>1, <1>2, <1>4, <1>5, <2>1, <2>2, Zenon
  <2>3. CASE d # c
    <3>1. mshr'[d] = mshr[d] /\ freeList'[d] = freeList[d] /\ d # Home[e]
      BY <1>2, <1>5, <2>3, Zenon
    <3>2. x = e \/ x \in F => d # Home[x]
      BY <1>2, <2>3, Zenon
    <3> QED
      BY <1>4, <2>1, <3>1, <3>2, Zenon
  <2> QED
    BY <2>2, <2>3, Zenon
<1>7. \A x \in Entries : Live(x)' => req'[x].core = Home[x]
  BY <1>2, <1>3, <1>4, Zenon DEF HomeInv
<1>8. ~Prefetching => \A x \in Entries : req'[x].type # "DPRF"
  <2>1. InitReq.type # "DPRF"
    BY Zenon DEF InitReq
  <2>2. ~Prefetching => \A x \in Entries : req[x].type # "DPRF"
    BY Zenon DEF HomeInv
  <2> QED
    BY <1>3, <2>1, <2>2, Zenon
<1> QED
  BY <1>6, <1>7, <1>8 DEF HomeInv, NoTakeover

\* flush_prefetch frees a core's entries on that core's lists.
LEMMA HomeFlush ==
    ASSUME HomeInv, Inv', NEW c \in Cores, FlushOnly(c)
    PROVE  HomeInv'
<1> USE ConstantsAssumption
<1> DEFINE F == Flushed(c)
<1>1. \A x \in F : x \in Entries /\ Live(x) /\ x \in mshr[c]
  BY FlushedAreLive, Zenon DEF HomeInv, Inv
<1>2. \A x \in F : Home[x] = c
  BY <1>1 DEF HomeInv, EntriesStayHome
<1>3. \A x \in Entries : req'[x] = IF x \in F THEN InitReq ELSE req[x]
  BY Zenon DEF FlushOnly, FlushedReq
<1>4. \A x \in Entries : Live(x)' <=> Live(x) /\ x \notin F
  BY <1>1, <1>3 DEF Live, InitReq
<1>5. /\ mshr'[c] = mshr[c] \ F /\ freeList'[c] = freeList[c] \cup F
      /\ \A d \in Cores : d # c => mshr'[d] = mshr[d] /\ freeList'[d] = freeList[d]
  <2>1. mshr' = [mshr EXCEPT ![c] = @ \ F] /\ freeList' = [freeList EXCEPT ![c] = @ \cup F]
    BY Zenon DEF FlushOnly
  <2>2. mshr \in [Cores -> SUBSET Entries] /\ freeList \in [Cores -> SUBSET Entries]
    BY Zenon DEF HomeInv, Inv, TypeOK
  <2> HIDE DEF F
  <2> QED
    BY ONLY <2>1, <2>2, c \in Cores
<1> HIDE DEF F
<1>6. EntriesStayHome'
  <2> SUFFICES ASSUME NEW x \in Entries, NEW d \in Cores
               PROVE  /\ x \in mshr'[d] <=> (d = Home[x] /\ Live(x)')
                      /\ x \in freeList'[d] <=> (d = Home[x] /\ ~Live(x)')
    BY Zenon DEF EntriesStayHome
  <2>1. /\ x \in mshr[d] <=> (d = Home[x] /\ Live(x))
        /\ x \in freeList[d] <=> (d = Home[x] /\ ~Live(x))
    BY Zenon DEF HomeInv, EntriesStayHome
  <2> QED
    BY <1>1, <1>2, <1>4, <1>5, <2>1, Zenon
<1>7. \A x \in Entries : Live(x)' => req'[x].core = Home[x]
  BY <1>3, <1>4, Zenon DEF HomeInv
<1>8. ~Prefetching => \A x \in Entries : req'[x].type # "DPRF"
  <2>1. InitReq.type # "DPRF"
    BY Zenon DEF InitReq
  <2>2. ~Prefetching => \A x \in Entries : req[x].type # "DPRF"
    BY Zenon DEF HomeInv
  <2> QED
    BY <1>3, <2>1, <2>2, Zenon
<1> QED
  BY <1>6, <1>7, <1>8, Zenon DEF HomeInv, NoTakeover

\* free_req of each served request uses the lists of the core it names.
LEMMA HomeComplete ==
    ASSUME HomeInv, Inv', NEW e \in Entries, NEW busy, Complete(e, busy)
    PROVE  HomeInv'
<1> DEFINE G == Served(e, busy)
<1>1. \A x \in G : x \in Entries /\ Live(x)
  <2>1. Live(e)
    BY DEF Complete, Live
  <2> QED
    BY <2>1, UnderIsLive DEF Served, HomeInv, Inv
<1>2. free_req(G)
  BY Zenon DEF Complete
<1> HIDE DEF G
<1>3. \A x \in Entries : req'[x] = IF x \in G THEN InitReq ELSE req[x]
  BY <1>2, Zenon DEF free_req
<1>4. \A x \in Entries : Live(x)' <=> Live(x) /\ x \notin G
  BY <1>1, <1>3 DEF Live, InitReq
<1>5. \A x \in Entries, d \in Cores :
        /\ x \in mshr'[d] <=> x \in mshr[d] /\ ~(x \in G /\ req[x].core = d)
        /\ x \in freeList'[d] <=> x \in freeList[d] \/ (x \in G /\ req[x].core = d)
  BY <1>2, Zenon DEF free_req
<1>6. EntriesStayHome'
  <2> SUFFICES ASSUME NEW x \in Entries, NEW d \in Cores
               PROVE  /\ x \in mshr'[d] <=> (d = Home[x] /\ Live(x)')
                      /\ x \in freeList'[d] <=> (d = Home[x] /\ ~Live(x)')
    BY Zenon DEF EntriesStayHome
  <2>1. /\ x \in mshr[d] <=> (d = Home[x] /\ Live(x))
        /\ x \in freeList[d] <=> (d = Home[x] /\ ~Live(x))
        /\ Live(x) => req[x].core = Home[x]
    BY Zenon DEF HomeInv, EntriesStayHome
  <2> QED
    BY <1>1, <1>4, <1>5, <2>1, Zenon
<1>7. \A x \in Entries : Live(x)' => req'[x].core = Home[x]
  BY <1>3, <1>4 DEF HomeInv
<1>8. ~Prefetching => \A x \in Entries : req'[x].type # "DPRF"
  <2>1. InitReq.type # "DPRF"
    BY DEF InitReq
  <2>2. ~Prefetching => \A x \in Entries : req[x].type # "DPRF"
    BY Zenon DEF HomeInv
  <2> QED
    BY <1>3, <2>1, <2>2, Zenon
<1> QED
  BY <1>6, <1>7, <1>8, Zenon DEF HomeInv, NoTakeover

\* Steps that leave the lists alone and change no entry's use or core.
LEMMA HomeSame ==
    ASSUME HomeInv, Inv', UNCHANGED <<mshr, freeList>>,
           \A x \in Entries : /\ (Live(x)' <=> Live(x))
                              /\ Live(x) => req'[x].core = req[x].core
                              /\ req'[x].type = "DPRF" => req[x].type = "DPRF"
    PROVE  HomeInv'
<1>1. EntriesStayHome'
  BY Zenon DEF HomeInv, EntriesStayHome
<1> QED
  BY <1>1, Zenon DEF HomeInv, NoTakeover

\* Without takeovers every step keeps each entry on its core's lists.
LEMMA HomeNext == HomeInv /\ [Next]_vars => HomeInv'
<1> SUFFICES ASSUME HomeInv, [Next]_vars PROVE HomeInv'
  OBVIOUS
<1> USE ConstantsAssumption
<1>0. Inv'
  BY NextKeeps, Zenon DEF HomeInv
<1>1. CASE UNCHANGED vars
  BY <1>0, <1>1, HomeSame, Zenon DEF vars, Live
<1>2. ASSUME NEW u \in Clients, NEW l \in Lines, Promote(u, l)
      PROVE  HomeInv'
  <2>1. PICK m \in MatchingReqs(l) :
            req[m].type = "DPRF" /\ adjust_req(m, RequestType(u), l, u, ClientCore[u])
    BY <1>2, Zenon DEF Promote
  <2>2. m \in Entries /\ Prefetching
    BY <2>1 DEF MatchingReqs, search_req, HomeInv, Inv, TypeOK
  <2>3. \A c \in Cores : c = 0
    BY <2>2 DEF HomeInv, NoTakeover, Cores
  <2>4. /\ req \in [Entries -> [type : Types, line : Lines \cup {None},
                   core : Cores, uop : Clients \cup {None}, place : Places,
                   at : Cores]]
        /\ ClientCore[u] \in Cores
    BY DEF HomeInv, Inv, TypeOK
  <2>5. /\ req'[m].place = req[m].place /\ req'[m].core = ClientCore[u]
        /\ \A x \in Entries : x # m => req'[x] = req[x]
    BY <2>1, <2>2, <2>4 DEF adjust_req
  <2>6. req'[m].core = req[m].core
    BY <2>2, <2>3, <2>4, <2>5
  <2>7. \A x \in Entries : (Live(x)' <=> Live(x)) /\ req'[x].core = req[x].core
    BY <2>2, <2>5, <2>6, Zenon DEF Live
  <2>8. UNCHANGED <<mshr, freeList>>
    BY <1>2, Zenon DEF Promote
  <2>9. EntriesStayHome'
    BY <2>7, <2>8, Zenon DEF HomeInv, EntriesStayHome
  <2> QED
    BY <1>0, <2>2, <2>7, <2>9, Zenon DEF HomeInv, NoTakeover
<1>3. ASSUME NEW u \in Clients, NEW l \in Lines, DemandMiss(u, l)
      PROVE  HomeInv'
  <2> DEFINE c == ClientCore[u]
  <2>1. PICK m \in Entries \cup {None}, e \in freeList[c] \cup Flushed(c) :
            Allocate(c, e, m, RequestType(u), l, u)
    <3>1. MatchingReqs(l) \subseteq Entries
      BY DEF MatchingReqs, search_req, HomeInv, Inv, TypeOK
    <3> QED
      BY <1>3, <3>1 DEF DemandMiss
  <2>2. RequestType(u) \in Types /\ RequestType(u) # "DPRF" /\ c \in Cores
    BY DEF RequestType, Types
  <2> QED
    BY <1>0, <2>1, <2>2, HomeAllocate, Zenon
<1>4. ASSUME NEW u \in Clients, NEW l \in Lines, DemandRefused(u, l)
      PROVE  HomeInv'
  <2>1. FlushOnly(ClientCore[u]) /\ ClientCore[u] \in Cores
    BY <1>4 DEF DemandRefused
  <2> QED
    BY <1>0, <2>1, HomeFlush, Zenon
<1>5. ASSUME NEW c \in Cores, NEW l \in Lines, Prefetch(c, l)
      PROVE  HomeInv'
  <2>1. CASE FlushOnly(c)
    BY <1>0, <2>1, HomeFlush, Zenon
  <2>2. CASE \E e \in FreeAtFirst(c) : Allocate(c, e, None, "DPRF", l, None)
    <3>1. PICK e \in freeList[c] \cup Flushed(c) :
            Allocate(c, e, None, "DPRF", l, None)
      BY <2>2 DEF FreeAtFirst
    <3>2. "DPRF" \in Types /\ Prefetching
      BY <1>5, Zenon DEF Prefetching, Types, Prefetch
    <3> QED
      BY <1>0, <3>1, <3>2, HomeAllocate, Zenon
  <2> QED
    BY <1>5, <2>1, <2>2 DEF Prefetch
<1>6. ASSUME PrefetchAgain
      PROVE  HomeInv'
  BY <1>0, <1>6, HomeSame DEF PrefetchAgain, Live
<1>7. ASSUME NEW e \in Entries, NEW p \in Places \ {"none", "merged"},
             req[e].place # "none", req' = [req EXCEPT ![e].place = p],
             UNCHANGED <<mshr, freeList>>
      PROVE  HomeInv'
  <2>1. req \in [Entries -> [type : Types, line : Lines \cup {None},
                   core : Cores, uop : Clients \cup {None}, place : Places,
                   at : Cores]]
    BY DEF HomeInv, Inv, TypeOK
  <2>2. \A x \in Entries : /\ req'[x].core = req[x].core
                           /\ req'[x].type = req[x].type
                           /\ req'[x].place = IF x = e THEN p ELSE req[x].place
    BY <1>7, <2>1
  <2> QED
    BY <1>0, <1>7, <2>2, HomeSame, Zenon DEF Live
<1>8. ASSUME NEW e \in Entries, Retry(e)
      PROVE  HomeInv'
  <2>1. "in" \in Places \ {"none", "merged"}
    BY DEF Places, Queues
  <2> QED
    BY <1>7, <1>8, <2>1, Zenon DEF Retry
<1>9. ASSUME NEW e \in Entries, Move(e)
      PROVE  HomeInv'
  BY <1>7, <1>9, MoveFacts, Zenon DEF Move, HomeInv, Inv
<1>10. ASSUME NEW e \in Entries, NEW busy \in SUBSET MayBeBusy(e), Complete(e, busy)
      PROVE  HomeInv'
  BY <1>0, <1>10, HomeComplete
<1> QED
  BY <1>1, <1>2, <1>3, <1>4, <1>5, <1>6, <1>8, <1>9, <1>10 DEF Next, DropPrefetch

\* As long as no core can take over a prefetch of another, m_mshr and
\* m_mshr_free_list are per core: every entry stays on the two lists of the
\* core it was created for, on the one if it is in use and on the other if
\* it is not.
THEOREM EntriesKeepTheirCore == NoTakeover /\ Spec => []EntriesStayHome
<1>1. HomeInv => EntriesStayHome
  BY DEF HomeInv
<1> QED
  BY <1>1, HomeInit, HomeNext, PTL DEF Spec
=============================================================================
