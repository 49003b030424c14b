----------------------------- MODULE DcuProofs -----------------------------
(***************************************************************************)
(* The data caches, for every set of lines and requests, every number of   *)
(* ways, all queue sizes and every choice of disabled caches: a request is *)
(* in one queue at a time, no write-back queue rejects a victim, and a     *)
(* modified line stays modified until its write-back is retired.           *)
(***************************************************************************)
EXTENDS Dcu, FiniteSetTheorems, TLAPS

\* The input queues below L2 hold every request of the core, so that insert()
\* never puts a request from the network off.
LargeInputs == \A k \in 3 .. 4 : Cardinality(Reqs) <= InSize[k]

States == {"free", "NEW", "OUTQUEUE_NEW", "IN_NOC", "NOC_DONE", "FILL_NEW",
           "FILL_WAIT_DONE", "FILL_WAIT_FILL", "OUT_FILL", "OUT_WB"}
Request ==
    [type : {"none", "DFETCH", "DSTORE", "WB"}, line : Lines \cup {NoLine},
     state : States, msg : {"none", "NEW", "FILL"}]
Marks == {"none", "clean", "dirty"}

TypeOK ==
    /\ disabled \subseteq Levels
    /\ cache \in [Levels -> [Lines -> Marks]]
    /\ queue \in [Places -> SUBSET Ids]
    /\ req \in [Ids -> Request]

\* What a request may be, and where: write-backs never enter an input queue,
\* nor call a done function, and nothing goes up from L2 by the network.
Roles(i) ==
    /\ i \in Reqs => req[i].type # "WB"
    /\ i \in Wbs => req[i].type \in {"none", "WB"}
    /\ Live(i) => req[i].line \in Lines
    /\ i \in queue[<<2, "out">>] => req[i].state # "OUT_FILL"
    /\ i \in Wbs => /\ req[i].state # "FILL_WAIT_DONE"
                    /\ \A k \in Levels : /\ i \notin queue[<<k, "in">>]
                                         /\ i \notin queue[<<k, "retry">>]
                                         /\ i \in queue[<<k, "out">>] => req[i].state # "OUTQUEUE_NEW"
                    /\ \A k \in 2 .. MEM_MC : i \in queue[<<k, "net">>] => req[i].msg = "FILL"

\* The place of request i is p and no other.
At(i, p) == \A q \in Places : i \in queue[q] <=> q = p
Nowhere(i) == \A q \in Places : i \notin queue[q]

OnePlace(i) == IF Live(i) THEN \E p \in Places : At(i, p) ELSE Nowhere(i)

IInv ==
    /\ TypeOK
    /\ \A i \in Ids : Roles(i) /\ OnePlace(i)
    /\ WbNeverRejected

-----------------------------------------------------------------------------

(* Facts about the state.                                                  *)

LEMMA PlaceNames ==
    /\ \A k \in Levels : /\ <<k, "in">> \in Places /\ <<k, "out">> \in Places
                         /\ <<k, "fill">> \in Places /\ <<k, "wb">> \in Places
                         /\ <<k, "retry">> \in Places
    /\ \A k \in 2 .. MEM_MC : <<k, "net">> \in Places
  BY DEF Places

LEMMA WbPlaces ==
    /\ \A k \in Levels : <<k, "wb">> \in Places /\ <<k, "wb">>[2] = "wb"
    /\ \A k, h \in Levels : <<k, "wb">> = <<h, "wb">> => k = h
  BY PlaceNames, Zenon

\* A request that is in a queue is live, and in no other.
LEMMA Located ==
    ASSUME IInv, NEW i \in Ids, NEW p \in Places, i \in queue[p]
    PROVE  Live(i) /\ At(i, p)
<1>1. Roles(i) /\ OnePlace(i)
  BY DEF IInv
<1>2. Live(i)
  BY <1>1 DEF OnePlace, Nowhere
<1>3. PICK q \in Places : At(i, q)
  BY <1>1, <1>2 DEF OnePlace
<1>. QED  BY <1>2, <1>3 DEF At

\* InOnePlace is the invariant OnePlace in terms of cardinalities.
LEMMA OnePlaceCounts ==
    ASSUME \A i \in Ids : OnePlace(i)
    PROVE  InOnePlace
<1>1. SUFFICES ASSUME NEW i \in Ids
               PROVE  Cardinality(PlacesOf(i)) = IF Live(i) THEN 1 ELSE 0
  BY DEF InOnePlace
<1>2. CASE Live(i)
  <2>1. PICK p \in Places : At(i, p)
    BY <1>2 DEF OnePlace
  <2>2. PlacesOf(i) = {p}
    BY <2>1 DEF At, PlacesOf
  <2>. QED  BY <1>2, <2>2, FS_Singleton
<1>3. CASE ~Live(i)
  <2>1. PlacesOf(i) = {}
    BY <1>3 DEF OnePlace, Nowhere, PlacesOf
  <2>. QED  BY <1>3, <2>1, FS_EmptySet
<1>. QED  BY <1>2, <1>3

\* The queues are finite.
LEMMA QueuesFinite ==
    ASSUME TypeOK, NEW p \in Places
    PROVE  IsFiniteSet(queue[p]) /\ Cardinality(queue[p]) \in Nat
  BY ConstantsAssumption, FS_Subset, FS_CardinalityType DEF TypeOK

-----------------------------------------------------------------------------

(* What can become of a request in a step.                                 *)

\* It stays as and where it is.
Same(i) == req'[i] = req[i] /\ \A p \in Places : i \in queue'[p] <=> i \in queue[p]

LEMMA SameOk ==
    ASSUME NEW i \in Ids, Roles(i), OnePlace(i), Same(i)
    PROVE  Roles(i)' /\ OnePlace(i)'
<1>1. Live(i)' <=> Live(i)
  BY DEF Same, Live
<1>2. OnePlace(i)'
  BY <1>1 DEF OnePlace, Same, At, Nowhere
<1>3. Roles(i)'
  BY <1>1, PlaceNames DEF Roles, Same, Levels, MEM_MC
<1>. QED  BY <1>2, <1>3

\* It is freed.
LEMMA FreedOk ==
    ASSUME NEW i \in Ids, req'[i] = Free, \A p \in Places : i \notin queue'[p]
    PROVE  Roles(i)' /\ OnePlace(i)'
<1>1. ~Live(i)'
  BY DEF Live, Free
<1>2. OnePlace(i)'
  BY <1>1 DEF OnePlace, Nowhere
<1>3. Roles(i)'
  BY <1>1, PlaceNames DEF Roles, Free, Levels, MEM_MC
<1>. QED  BY <1>2, <1>3

\* It is made as a write-back of line l, in the write-back queue of level k.
LEMMA FreshOk ==
    ASSUME NEW i \in Wbs, NEW k \in Levels, NEW l \in Lines,
           req'[i] = [type |-> "WB", line |-> l, state |-> "NEW", msg |-> "none"],
           At(i, <<k, "wb">>)'
    PROVE  Roles(i)' /\ OnePlace(i)'
<1>1. Live(i)' /\ i \notin Reqs /\ i \in Ids
  BY ConstantsAssumption DEF Live, Ids
<1>2. OnePlace(i)'
  BY <1>1, PlaceNames, Zenon DEF OnePlace
<1>3. \A p \in Places : i \in queue'[p] => p[2] = "wb"
  BY DEF At
<1>4. Roles(i)'
  BY <1>1, <1>3, PlaceNames DEF Roles, Levels, MEM_MC
<1>. QED  BY <1>2, <1>4

\* It goes to p, with another state and message type.
Goes(i, p) ==
    /\ At(i, p)'
    /\ req'[i].type = req[i].type /\ req'[i].line = req[i].line

LEMMA GoesOk ==
    ASSUME NEW i \in Ids, Roles(i), Live(i), NEW p \in Places, Goes(i, p),
           p = <<2, "out">> => req'[i].state # "OUT_FILL",
           i \in Wbs => /\ p[2] \notin {"in", "retry"}
                        /\ req'[i].state # "FILL_WAIT_DONE"
                        /\ p[2] = "out" => req'[i].state # "OUTQUEUE_NEW"
                        /\ p[2] = "net" => req'[i].msg = "FILL"
    PROVE  Roles(i)' /\ OnePlace(i)'
<1>1. Live(i)'
  BY DEF Live, Goes
<1>2. OnePlace(i)'
  BY <1>1 DEF OnePlace, Goes
<1>3. \A q \in Places : i \in queue'[q] => q = p
  BY DEF At, Goes
<1>4. Roles(i)'
  BY <1>1, <1>3, PlaceNames DEF Roles, Goes, Live, Levels, MEM_MC
<1>. QED  BY <1>2, <1>4

-----------------------------------------------------------------------------

(* The invariant, one request at a time.                                   *)

LEMMA StepOk ==
    ASSUME IInv, TypeOK', WbNeverRejected',
           \A i \in Ids : Same(i) \/ (Roles(i)' /\ OnePlace(i)')
    PROVE  IInv'
<1>1. ASSUME NEW i \in Ids
      PROVE  Roles(i)' /\ OnePlace(i)'
  <2>1. Roles(i) /\ OnePlace(i)
    BY DEF IInv
  <2>. QED  BY <2>1, SameOk
<1>. QED  BY <1>1 DEF IInv

\* No write-back is added.
LEMMA WbShrinks ==
    ASSUME TypeOK, WbNeverRejected, WbSize \in Nat,
           \A k \in Levels : queue'[<<k, "wb">>] \subseteq queue[<<k, "wb">>]
    PROVE  WbNeverRejected'
<1>1. SUFFICES ASSUME NEW k \in Levels
               PROVE  Cardinality(queue'[<<k, "wb">>]) <= WbSize
  BY Zenon DEF WbNeverRejected
<1>2. <<k, "wb">> \in Places
  BY PlaceNames, Zenon
<1>3. IsFiniteSet(queue[<<k, "wb">>]) /\ Cardinality(queue[<<k, "wb">>]) \in Nat
  BY <1>2, QueuesFinite
<1>4. /\ Cardinality(queue'[<<k, "wb">>]) <= Cardinality(queue[<<k, "wb">>])
      /\ Cardinality(queue'[<<k, "wb">>]) \in Nat
  BY <1>3, FS_Subset, FS_CardinalityType
<1>5. Cardinality(queue[<<k, "wb">>]) <= WbSize
  BY DEF WbNeverRejected
<1>. QED  BY <1>3, <1>4, <1>5

LEMMA MovedEffect ==
    ASSUME IInv, NEW i \in Ids, NEW p \in Places, NEW q \in Places,
           p # q, q[2] # "wb", i \in queue[p], queue' = Moved(i, p, q)
    PROVE  /\ queue' \in [Places -> SUBSET Ids]
           /\ At(i, q)'
           /\ \A j \in Ids \ {i} : \A x \in Places : j \in queue'[x] <=> j \in queue[x]
           /\ WbNeverRejected'
<1>1. queue \in [Places -> SUBSET Ids]
  BY DEF IInv, TypeOK
<1>2. /\ queue' \in [Places -> SUBSET Ids]
      /\ \A x \in Places : queue'[x] = IF x = q THEN queue[q] \cup {i}
                                       ELSE IF x = p THEN queue[p] \ {i} ELSE queue[x]
  BY <1>1 DEF Moved
<1>3. At(i, p)
  BY Located
<1>4. At(i, q)'
  BY <1>2, <1>3 DEF At
<1>5. ASSUME NEW k \in Levels
      PROVE  queue'[<<k, "wb">>] \subseteq queue[<<k, "wb">>]
  <2>1. <<k, "wb">> \in Places /\ <<k, "wb">>[2] = "wb"
    BY PlaceNames, Zenon
  <2>2. <<k, "wb">> # q
    BY <2>1
  <2>. QED  BY <1>2, <2>1, <2>2
<1>6. WbNeverRejected'
  BY <1>5, WbShrinks, ConstantsAssumption DEF IInv
<1>7. \A j \in Ids \ {i} : \A x \in Places : j \in queue'[x] <=> j \in queue[x]
  BY <1>2
<1>. QED  BY <1>2, <1>4, <1>6, <1>7

\* A request moves, its state and message type change, and the marks of the
\* caches may.
LEMMA MoveOk ==
    ASSUME IInv, NEW i \in Ids, NEW p \in Places, NEW q \in Places,
           p # q, q[2] # "wb", i \in queue[p], queue' = Moved(i, p, q),
           req' \in [Ids -> Request], \A j \in Ids \ {i} : req'[j] = req[j],
           req'[i].type = req[i].type, req'[i].line = req[i].line,
           disabled' = disabled, cache' \in [Levels -> [Lines -> Marks]],
           q = <<2, "out">> => req'[i].state # "OUT_FILL",
           i \in Wbs => /\ q[2] \notin {"in", "retry"}
                        /\ req'[i].state # "FILL_WAIT_DONE"
                        /\ q[2] = "out" => req'[i].state # "OUTQUEUE_NEW"
                        /\ q[2] = "net" => req'[i].msg = "FILL"
    PROVE  IInv'
<1>1. /\ queue' \in [Places -> SUBSET Ids]
      /\ At(i, q)'
      /\ \A j \in Ids \ {i} : \A x \in Places : j \in queue'[x] <=> j \in queue[x]
      /\ WbNeverRejected'
  BY MovedEffect
<1>2. TypeOK'
  BY <1>1 DEF IInv, TypeOK
<1>3. \A j \in Ids \ {i} : Same(j)
  BY <1>1 DEF Same
<1>4. Roles(i) /\ Live(i) /\ Goes(i, q)
  BY <1>1, Located DEF IInv, Goes
<1>5. Roles(i)' /\ OnePlace(i)'
  BY <1>4, GoesOk
<1>. QED  BY <1>1, <1>2, <1>3, <1>5, StepOk

-----------------------------------------------------------------------------

(* The actions that move a request.                                        *)

LEMMA RetryOk ==
    ASSUME IInv, NEW k \in 2 .. 4, NEW i \in Ids, Retry(k, i)
    PROVE  IInv'
<1>1. k \in Levels /\ <<k, "retry">> \in Places /\ <<k, "in">> \in Places
  BY PlaceNames DEF Levels
<1>2. i \in queue[<<k, "retry">>] /\ queue' = Moved(i, <<k, "retry">>, <<k, "in">>)
      /\ req' = req /\ cache' = cache /\ disabled' = disabled
  BY DEF Retry
<1>3. i \notin Wbs
  BY <1>1, <1>2, Zenon DEF IInv, Roles
<1>. QED  BY <1>1, <1>2, <1>3, MoveOk, Zenon DEF IInv, TypeOK

\* A request whose state alone changes keeps its type.
LEMMA StateChange ==
    ASSUME TypeOK, NEW i \in Ids, NEW s \in States, req' = [req EXCEPT ![i].state = s]
    PROVE  /\ req' \in [Ids -> Request] /\ \A j \in Ids \ {i} : req'[j] = req[j]
           /\ req'[i].type = req[i].type /\ req'[i].line = req[i].line
           /\ req'[i].state = s /\ req'[i].msg = req[i].msg
  BY DEF TypeOK, Request

LEMMA ProcessWbOk ==
    ASSUME IInv, NEW k \in Levels, NEW i \in Ids, ProcessWb(k, i)
    PROVE  IInv'
<1>1. cache' \in [Levels -> [Lines -> Marks]] /\ disabled' = disabled
  BY DEF IInv, TypeOK, ProcessWb
<1>2. CASE k = 1
  <2>1. <<k, "wb">> \in Places /\ <<2, "fill">> \in Places /\ i \in queue[<<k, "wb">>]
    BY <1>2, PlaceNames DEF Levels, ProcessWb
  <2>2. queue' = Moved(i, <<k, "wb">>, <<2, "fill">>) /\ req' = [req EXCEPT ![i].state = "FILL_NEW"]
    BY <1>2 DEF ProcessWb
  <2>3. /\ req' \in [Ids -> Request] /\ \A j \in Ids \ {i} : req'[j] = req[j]
        /\ req'[i].type = req[i].type /\ req'[i].line = req[i].line
        /\ req'[i].state = "FILL_NEW"
    BY <2>2, StateChange, Zenon DEF IInv, States
  <2>. QED  BY <1>1, <2>1, <2>2, <2>3, MoveOk
<1>3. CASE k # 1
  <2>1. <<k, "wb">> \in Places /\ <<k, "out">> \in Places /\ i \in queue[<<k, "wb">>]
    BY <1>3, PlaceNames DEF Levels, ProcessWb
  <2>2. queue' = Moved(i, <<k, "wb">>, <<k, "out">>) /\ req' = [req EXCEPT ![i].state = "OUT_WB"]
    BY <1>3 DEF ProcessWb
  <2>3. /\ req' \in [Ids -> Request] /\ \A j \in Ids \ {i} : req'[j] = req[j]
        /\ req'[i].type = req[i].type /\ req'[i].line = req[i].line
        /\ req'[i].state = "OUT_WB"
    BY <2>2, StateChange, Zenon DEF IInv, States
  <2>. QED  BY <1>1, <2>1, <2>2, <2>3, MoveOk, Zenon
<1>. QED  BY <1>2, <1>3

\* ToOut, whatever the caller does to the marks: a write-back comes from a
\* fill queue, and a fill of L2 does not come here.
LEMMA ToOutOk ==
    ASSUME IInv, NEW k \in Levels, NEW i \in Ids, NEW from \in {"in", "fill"}, NEW s \in States,
           i \in queue[<<k, from>>], ToOut(k, i, from, s),
           disabled' = disabled, cache' \in [Levels -> [Lines -> Marks]],
           k = 2 => s # "OUT_FILL",
           i \in Wbs => s \notin {"OUTQUEUE_NEW", "FILL_WAIT_DONE"}
    PROVE  IInv'
<1>. DEFINE p == <<k, from>>
            q == <<k, "out">>
<1>1. p \in Places /\ q \in Places /\ p # q /\ q[2] = "out" /\ i \in queue[p]
  BY PlaceNames, Zenon
<1>2. queue' = Moved(i, p, q) /\ req' = [req EXCEPT ![i].state = s]
  BY DEF ToOut
<1>3. q = <<2, "out">> => k = 2
  OBVIOUS
<1>. HIDE DEF p, q
<1>4. /\ req' \in [Ids -> Request] /\ \A j \in Ids \ {i} : req'[j] = req[j]
      /\ req'[i].type = req[i].type /\ req'[i].line = req[i].line /\ req'[i].state = s
  BY <1>2, StateChange, Zenon DEF IInv
<1>. QED  BY <1>1, <1>2, <1>3, <1>4, MoveOk, Zenon

LEMMA ProcessOutOk ==
    ASSUME IInv, NEW k \in 2 .. 4, NEW i \in Ids, ProcessOut(k, i)
    PROVE  IInv'
<1>. DEFINE to == IF req[i].state = "OUT_FILL" THEN k - 1 ELSE k + 1
            msg == IF req[i].state = "OUTQUEUE_NEW" THEN "NEW" ELSE "FILL"
<1>1. k \in Levels /\ <<k, "out">> \in Places /\ i \in queue[<<k, "out">>]
  BY PlaceNames DEF Levels, ProcessOut
<1>2. Roles(i)
  BY DEF IInv
<1>3. k = 2 => req[i].state # "OUT_FILL"
  BY <1>1, <1>2 DEF Roles
<1>4. to \in 2 .. MEM_MC
  BY <1>3 DEF MEM_MC
<1>5. i \in Wbs => msg = "FILL"
  BY <1>1, <1>2, Zenon DEF Roles
<1>6. msg \in {"NEW", "FILL"}
  OBVIOUS
<1>7. /\ queue' = Moved(i, <<k, "out">>, <<to, "net">>)
      /\ req' = [req EXCEPT ![i].state = "IN_NOC", ![i].msg = msg]
      /\ cache' \in [Levels -> [Lines -> Marks]] /\ disabled' = disabled
  BY DEF ProcessOut, IInv, TypeOK
<1>. HIDE DEF to, msg
<1>8. /\ req' \in [Ids -> Request] /\ \A j \in Ids \ {i} : req'[j] = req[j]
      /\ req'[i].type = req[i].type /\ req'[i].line = req[i].line
      /\ req'[i].state = "IN_NOC" /\ req'[i].msg = msg
  BY <1>6, <1>7, Zenon DEF IInv, TypeOK, Request, States
<1>9. <<to, "net">> \in Places
  BY <1>4, PlaceNames
<1>. QED  BY <1>1, <1>5, <1>7, <1>8, <1>9, MoveOk, Zenon

\* A hit leaves the marks well formed.
LEMMA HitCacheType ==
    ASSUME TypeOK, NEW k \in Levels, NEW i \in Ids
    PROVE  HitCache(k, i) \in [Levels -> [Lines -> Marks]]
  BY Zenon DEF TypeOK, HitCache, Marks

LEMMA InHitOk ==
    ASSUME IInv, NEW k \in 3 .. 4, NEW i \in Ids, InHit(k, i)
    PROVE  IInv'
<1>1. k \in Levels /\ k # 2 /\ i \in queue[<<k, "in">>]
  BY DEF Levels, InHit
<1>2. cache' \in [Levels -> [Lines -> Marks]] /\ disabled' = disabled
  BY <1>1, HitCacheType DEF InHit, IInv
<1>3. i \notin Wbs
  BY <1>1, Zenon DEF IInv, Roles
<1>4. CASE ToOut(k, i, "in", "OUT_FILL")
  BY <1>1, <1>2, <1>3, <1>4, ToOutOk, Zenon DEF States
<1>5. CASE UNCHANGED <<queue, req>>
  <2>1. \A j \in Ids : Same(j)
    BY <1>5 DEF Same
  <2>2. TypeOK' /\ WbNeverRejected'
    BY <1>2, <1>5 DEF IInv, TypeOK, WbNeverRejected
  <2>. QED  BY <2>1, <2>2, StepOk
<1>. QED  BY <1>4, <1>5 DEF InHit

LEMMA InMissOk ==
    ASSUME IInv, NEW k \in 2 .. 4, NEW i \in Ids, InMiss(k, i)
    PROVE  IInv'
<1>1. k \in Levels /\ <<k, "in">> \in Places /\ i \in queue[<<k, "in">>]
  BY PlaceNames DEF Levels, InMiss
<1>2. cache' \in [Levels -> [Lines -> Marks]] /\ disabled' = disabled
  BY DEF InMiss, IInv, TypeOK
<1>3. i \notin Wbs
  BY <1>1, Zenon DEF IInv, Roles
<1>4. ToOut(k, i, "in", "OUTQUEUE_NEW")
  BY DEF InMiss
<1>. QED  BY <1>1, <1>2, <1>3, <1>4, ToOutOk, Zenon DEF States

LEMMA FillWaitFillOk ==
    ASSUME IInv, NEW k \in 3 .. 4, NEW i \in Ids, FillWaitFill(k, i)
    PROVE  IInv'
<1>1. k \in Levels /\ k # 2 /\ i \in queue[<<k, "fill">>]
  BY DEF Levels, FillWaitFill
<1>2. cache' \in [Levels -> [Lines -> Marks]] /\ disabled' = disabled
  BY DEF FillWaitFill, IInv, TypeOK
<1>3. ToOut(k, i, "fill", "OUT_FILL")
  BY DEF FillWaitFill
<1>. QED  BY <1>1, <1>2, <1>3, ToOutOk, Zenon DEF States

LEMMA ReceiveFillOk ==
    ASSUME IInv, NEW k \in 2 .. 4, NEW i \in Ids, ReceiveFill(k, i)
    PROVE  IInv'
<1>1. /\ <<k, "net">> \in Places /\ <<k, "fill">> \in Places
      /\ i \in queue[<<k, "net">>]
  BY PlaceNames DEF Levels, MEM_MC, ReceiveFill
<1>2. /\ queue' = Moved(i, <<k, "net">>, <<k, "fill">>)
      /\ req' = [req EXCEPT ![i].state = "FILL_NEW"]
      /\ cache' \in [Levels -> [Lines -> Marks]] /\ disabled' = disabled
  BY DEF ReceiveFill, IInv, TypeOK
<1>3. /\ req' \in [Ids -> Request] /\ \A j \in Ids \ {i} : req'[j] = req[j]
      /\ req'[i].type = req[i].type /\ req'[i].line = req[i].line
      /\ req'[i].state = "FILL_NEW"
  BY <1>2, StateChange, Zenon DEF IInv, States
<1>. QED  BY <1>1, <1>2, <1>3, MoveOk

\* The input queue of a lower level has room for every request it lacks.
LEMMA InputHasRoom ==
    ASSUME IInv, LargeInputs, NEW k \in 3 .. 4, NEW i \in Reqs,
           i \notin queue[<<k, "in">>]
    PROVE  ~InFull(k)
<1>1. k \in Levels /\ <<k, "in">> \in Places /\ InSize[k] \in Nat
  BY PlaceNames, ConstantsAssumption DEF Levels
<1>2. queue[<<k, "in">>] \subseteq Reqs \ {i}
  BY <1>1, Zenon DEF IInv, TypeOK, Roles, Ids
<1>3. IsFiniteSet(Reqs)
  BY ConstantsAssumption, FS_Subset DEF Ids
<1>4. /\ IsFiniteSet(Reqs \ {i}) /\ Cardinality(Reqs) \in Nat
      /\ Cardinality(Reqs \ {i}) = Cardinality(Reqs) - 1
  BY <1>3, FS_RemoveElement, FS_CardinalityType
<1>5. /\ Cardinality(queue[<<k, "in">>]) <= Cardinality(Reqs \ {i})
      /\ Cardinality(queue[<<k, "in">>]) \in Nat
  BY <1>2, <1>4, FS_Subset, FS_CardinalityType
<1>6. Cardinality(Reqs) <= InSize[k]
  BY DEF LargeInputs
<1>. QED  BY <1>1, <1>4, <1>5, <1>6 DEF InFull

LEMMA ReceiveNewOk ==
    ASSUME IInv, LargeInputs, NEW k \in 3 .. 4, NEW i \in Ids, ReceiveNew(k, i)
    PROVE  IInv'
<1>1. /\ k \in Levels /\ k \in 2 .. MEM_MC /\ <<k, "net">> \in Places
      /\ <<k, "in">> \in Places /\ i \in queue[<<k, "net">>]
  BY PlaceNames DEF Levels, MEM_MC, ReceiveNew
<1>2. i \in Reqs /\ i \notin Wbs
  BY <1>1 DEF IInv, Roles, Ids, ReceiveNew
<1>3. i \notin queue[<<k, "in">>]
  <2>1. At(i, <<k, "net">>)
    BY <1>1, Located
  <2>. QED  BY <1>1, <2>1 DEF At
<1>4. ~InFull(k)
  BY <1>2, <1>3, InputHasRoom
<1>5. /\ queue' = Moved(i, <<k, "net">>, <<k, "in">>)
      /\ req' = [req EXCEPT ![i].state = "NOC_DONE"]
      /\ cache' \in [Levels -> [Lines -> Marks]] /\ disabled' = disabled
  BY <1>4 DEF ReceiveNew, IInv, TypeOK
<1>6. /\ req' \in [Ids -> Request] /\ \A j \in Ids \ {i} : req'[j] = req[j]
      /\ req'[i].type = req[i].type /\ req'[i].line = req[i].line
  BY <1>5, StateChange, Zenon DEF IInv, States
<1>. QED  BY <1>1, <1>2, <1>5, <1>6, MoveOk

\* A request is taken out of the only queue it is in, and freed.
LEMMA FreeOk ==
    ASSUME IInv, NEW i \in Ids, NEW p \in Places, i \in queue[p],
           queue' = [queue EXCEPT ![p] = @ \ {i}], req' = [req EXCEPT ![i] = Free],
           disabled' = disabled, cache' \in [Levels -> [Lines -> Marks]]
    PROVE  IInv'
<1>1. queue \in [Places -> SUBSET Ids] /\ req \in [Ids -> Request]
  BY DEF IInv, TypeOK
<1>2. At(i, p)
  BY Located
<1>3. Free \in Request
  BY DEF Free, Request, States
<1>4. TypeOK'
  BY <1>1, <1>3 DEF IInv, TypeOK
<1>5. \A x \in Places : queue'[x] = IF x = p THEN queue[p] \ {i} ELSE queue[x]
  BY <1>1
<1>6. req'[i] = Free /\ \A x \in Places : i \notin queue'[x]
  BY <1>1, <1>2, <1>5 DEF At
<1>7. \A j \in Ids \ {i} : Same(j)
  BY <1>1, <1>5, Zenon DEF Same
<1>8. ASSUME NEW k \in Levels
      PROVE  queue'[<<k, "wb">>] \subseteq queue[<<k, "wb">>]
  <2>1. <<k, "wb">> \in Places
    BY PlaceNames, Zenon
  <2>. QED  BY <1>5, <2>1
<1>9. WbNeverRejected'
  BY <1>8, WbShrinks, ConstantsAssumption DEF IInv
<1>. QED  BY <1>4, <1>6, <1>7, <1>9, FreedOk, StepOk, Zenon

LEMMA DramOk ==
    ASSUME IInv, NEW i \in Ids, Dram(i)
    PROVE  IInv'
<1>1. /\ <<MEM_MC, "net">> \in Places /\ <<MEM_LLC, "net">> \in Places
      /\ <<MEM_MC, "net">> # <<MEM_LLC, "net">> /\ i \in queue[<<MEM_MC, "net">>]
  BY PlaceNames DEF MEM_MC, MEM_LLC, Dram
<1>2. cache' \in [Levels -> [Lines -> Marks]] /\ disabled' = disabled
  BY DEF Dram, IInv, TypeOK
<1>3. CASE req[i].type = "WB"
  <2>1. /\ queue' = [queue EXCEPT ![<<MEM_MC, "net">>] = @ \ {i}]
        /\ req' = [req EXCEPT ![i] = Free]
    BY <1>3 DEF Dram
  <2>. QED  BY <1>1, <1>2, <2>1, FreeOk, Zenon
<1>4. CASE req[i].type # "WB"
  <2>1. /\ queue' = Moved(i, <<MEM_MC, "net">>, <<MEM_LLC, "net">>)
        /\ req' = [req EXCEPT ![i].msg = "FILL"]
    BY <1>4 DEF Dram
  <2>2. /\ req' \in [Ids -> Request] /\ \A j \in Ids \ {i} : req'[j] = req[j]
        /\ req'[i].type = req[i].type /\ req'[i].line = req[i].line
        /\ req'[i].state = req[i].state /\ req'[i].msg = "FILL"
    BY <2>1, Zenon DEF IInv, TypeOK, Request
  <2>3. i \in Wbs => req[i].state # "FILL_WAIT_DONE"
    BY DEF IInv, Roles
  <2>. QED  BY <1>1, <1>2, <2>1, <2>2, <2>3, MoveOk
<1>. QED  BY <1>3, <1>4

LEMMA StoreHitOk ==
    ASSUME IInv, NEW l \in Lines, StoreHit(l)
    PROVE  IInv'
<1>1. cache' \in [Levels -> [Lines -> Marks]]
  BY DEF StoreHit, IInv, TypeOK, Levels, Marks
<1>2. UNCHANGED <<queue, req, disabled>>
  BY DEF StoreHit
<1>3. \A j \in Ids : Same(j)
  BY <1>2 DEF Same
<1>4. TypeOK' /\ WbNeverRejected'
  BY <1>1, <1>2 DEF IInv, TypeOK, WbNeverRejected
<1>. QED  BY <1>3, <1>4, StepOk

\* A new request enters the input or the retry queue of L2.
LEMMA MissOk ==
    ASSUME IInv, NEW t \in {"DFETCH", "DSTORE"}, NEW l \in Lines, NEW i \in Reqs, Miss(t, l, i)
    PROVE  IInv'
<1>. DEFINE r == [type |-> t, line |-> l, state |-> "NEW", msg |-> "none"]
<1>1. PICK p \in Places : p = Entry(2) /\ p[2] \in {"in", "retry"}
  BY PlaceNames DEF Entry, Levels
<1>2. /\ queue' = [queue EXCEPT ![p] = @ \cup {i}] /\ req' = [req EXCEPT ![i] = r]
      /\ UNCHANGED <<disabled, cache>> /\ ~Live(i)
  BY <1>1 DEF Miss
<1>3. r \in Request /\ r.type = t /\ r.line = l
  BY DEF Request, States
<1>4. i \in Ids /\ i \notin Wbs /\ Nowhere(i)
  BY <1>2, ConstantsAssumption, Zenon DEF IInv, OnePlace, Ids
<1>. HIDE DEF r
<1>5. TypeOK'
  BY <1>1, <1>2, <1>3, <1>4, Zenon DEF IInv, TypeOK
<1>6. \A x \in Places : queue'[x] = IF x = p THEN queue[p] \cup {i} ELSE queue[x]
  BY <1>1, <1>2, Zenon DEF IInv, TypeOK
<1>7. \A j \in Ids \ {i} : Same(j)
  BY <1>2, <1>6, Zenon DEF IInv, TypeOK, Same
<1>8. Roles(i)' /\ OnePlace(i)'
  <2>1. req'[i] = r
    BY <1>2, <1>4 DEF IInv, TypeOK
  <2>2. At(i, p)'
    BY <1>4, <1>6 DEF At, Nowhere
  <2>3. Live(i)' /\ req'[i].type # "WB" /\ req'[i].line = l
    BY <2>1, <1>3 DEF Live
  <2>4. p # <<2, "out">>
    BY <1>1
  <2>5. i \notin queue'[<<2, "out">>]
    BY <2>2, <2>4, PlaceNames DEF At, Levels
  <2>. QED  BY <1>1, <1>4, <2>2, <2>3, <2>5, Zenon DEF Roles, OnePlace
<1>9. WbNeverRejected'
  <2>1. ASSUME NEW k \in Levels
        PROVE  queue'[<<k, "wb">>] \subseteq queue[<<k, "wb">>]
    <3>1. <<k, "wb">> \in Places /\ <<k, "wb">>[2] = "wb"
      BY PlaceNames, Zenon
    <3>2. <<k, "wb">> # p
      BY <1>1, <3>1
    <3>. QED  BY <1>6, <3>1, <3>2, Zenon
  <2>. QED  BY <2>1, WbShrinks, ConstantsAssumption, Zenon DEF IInv
<1>. QED  BY <1>5, <1>7, <1>8, <1>9, StepOk, Zenon

-----------------------------------------------------------------------------

(* Filling a line.                                                         *)

\* After a fill every dirty line of the cache is still dirty or the victim to
\* be written back, and the line of a write-back is dirty.
LEMMA FillsFacts ==
    ASSUME TypeOK, NEW k \in Levels, NEW i \in Ids, req[i].line \in Lines,
           NEW f \in Fills(k, i)
    PROVE  /\ f.lines \in [Lines -> Marks] /\ f.wb \in Lines \cup {NoLine}
           /\ \A x \in Lines : cache[k][x] = "dirty" => f.lines[x] = "dirty" \/ f.wb = x
           /\ k \notin disabled /\ req[i].type = "WB" => f.lines[req[i].line] = "dirty"
<1>. DEFINE l == req[i].line
<1>1. cache[k] \in [Lines -> Marks] /\ Mark(i) \in Marks /\ MergedMark(k, i) \in Marks
      /\ (req[i].type = "WB" => Mark(i) = "dirty" /\ MergedMark(k, i) = "dirty")
      /\ (cache[k][l] = "dirty" => MergedMark(k, i) = "dirty")
  BY DEF TypeOK, Marks, Mark, MergedMark
<1>2. CASE k \in disabled
  BY <1>1, <1>2 DEF Fills
<1>3. CASE k \notin disabled /\ l \in Present(k)
  <2>1. f = [lines |-> [cache[k] EXCEPT ![l] = MergedMark(k, i)], wb |-> NoLine]
    BY <1>3 DEF Fills
  <2>2. /\ f.lines = [cache[k] EXCEPT ![l] = MergedMark(k, i)] /\ f.wb = NoLine
    BY <2>1
  <2>. QED  BY <1>1, <1>3, <2>2
<1>4. CASE k \notin disabled /\ l \notin Present(k)
  <2>1. PICK v \in Victims(k) :
          f = [lines |-> [x \in Lines |-> IF x = l THEN Mark(i)
                                          ELSE IF x = v THEN "none" ELSE cache[k][x]],
               wb |-> WriteBack(k, v)]
    BY <1>4 DEF Fills
  <2>2. /\ f.lines = [x \in Lines |-> IF x = l THEN Mark(i)
                                      ELSE IF x = v THEN "none" ELSE cache[k][x]]
        /\ f.wb = WriteBack(k, v)
    BY <2>1
  <2>3. cache[k][l] = "none"
    BY <1>4, Zenon DEF Present
  <2>4. f.wb \in Lines \cup {NoLine}
    BY <2>2, Zenon DEF WriteBack
  <2>5. f.lines \in [Lines -> Marks]
    BY <1>1, <2>2 DEF Marks
  <2>6. ASSUME NEW x \in Lines, cache[k][x] = "dirty"
        PROVE  f.lines[x] = "dirty" \/ f.wb = x
    BY <1>1, <2>2, <2>3, <2>6, Zenon DEF WriteBack
  <2>7. req[i].type = "WB" => f.lines[l] = "dirty"
    BY <1>1, <2>2
  <2>. QED  BY <2>4, <2>5, <2>6, <2>7
<1>. QED  BY <1>2, <1>3, <1>4

\* A write-back gets a name that no request has.
LEMMA NewWbNames ==
    ASSUME NEW l, NEW taken, NEW n \in NewWb(l, taken)
    PROVE  \/ l = NoLine /\ n = {}
           \/ l # NoLine /\ \E w \in Wbs \ taken : ~Live(w) /\ n = {w}
  BY DEF NewWb

\* A write-back queue with room takes one more.
LEMMA WbGrows ==
    ASSUME TypeOK, NEW k \in Levels, ~WbFull(k), NEW w,
           queue'[<<k, "wb">>] \subseteq queue[<<k, "wb">>] \cup {w}
    PROVE  Cardinality(queue'[<<k, "wb">>]) <= WbSize
<1>. DEFINE S == queue[<<k, "wb">>]
            T == queue'[<<k, "wb">>]
<1>1. IsFiniteSet(S) /\ Cardinality(S) \in Nat
  BY QueuesFinite, PlaceNames, Zenon
<1>2. WbSize \in Nat /\ ~(Cardinality(S) >= WbSize)
  BY ConstantsAssumption DEF WbFull
<1>. HIDE DEF S, T
<1>3. IsFiniteSet(S \cup {w}) /\ (Cardinality(S \cup {w}) = Cardinality(S) \/ Cardinality(S \cup {w}) = Cardinality(S) + 1)
  BY <1>1, FS_AddElement
<1>4. T \subseteq S \cup {w}
  BY DEF S, T
<1>5. Cardinality(T) <= Cardinality(S \cup {w}) /\ Cardinality(T) \in Nat
  BY <1>3, <1>4, FS_Subset, FS_CardinalityType
<1>6. Cardinality(T) <= WbSize
  BY <1>1, <1>2, <1>3, <1>5
<1>. QED  BY <1>6 DEF T

NewRequest(l) == [type |-> "WB", line |-> l, state |-> "NEW", msg |-> "none"]

\* The requests other than i after write-backs n of l and m of g are made, and
\* the queues after n enters that of level k and m that of level h.
RequestsGain(i, n, l, m, g) ==
    /\ req' \in [Ids -> Request]
    /\ \A j \in Ids \ {i} : req'[j] = IF j \in m THEN NewRequest(g)
                                      ELSE IF j \in n THEN NewRequest(l) ELSE req[j]
QueuesGain(i, k, n, h, m) ==
    /\ queue' \in [Places -> SUBSET Ids]
    /\ \A x \in Places : \A j \in Ids \ {i} :
          j \in queue'[x] <=> \/ j \in queue[x]
                              \/ x = <<k, "wb">> /\ j \in n
                              \/ x = <<h, "wb">> /\ j \in m
    /\ \A x \in Levels : i \notin queue'[<<x, "wb">>]

\* A fill of level k makes the write-back n of line l; the done function called
\* with it, of level h, makes the write-back m of line g.  The request itself
\* is dealt with by the last two assumptions.
LEMMA FillOk ==
    ASSUME IInv, NEW i \in Ids, Live(i),
           NEW k \in Levels, NEW l \in Lines \cup {NoLine}, NEW n \in NewWb(l, {}),
           NEW h \in Levels, NEW g \in Lines \cup {NoLine}, NEW m \in NewWb(g, n),
           h # k, ~WbFull(k), m # {} => ~WbFull(h),
           disabled' = disabled, cache' \in [Levels -> [Lines -> Marks]],
           RequestsGain(i, n, l, m, g), QueuesGain(i, k, n, h, m),
           Roles(i)' /\ OnePlace(i)'
    PROVE  IInv'
<1>1. TypeOK'
  BY DEF IInv, TypeOK, RequestsGain, QueuesGain
<1>2. ASSUME NEW j \in n
      PROVE  j \in Wbs /\ j \in Ids \ {i} /\ ~Live(j) /\ n = {j} /\ l \in Lines /\ j \notin m
  <2>1. l \in Lines /\ \E w \in Wbs : ~Live(w) /\ n = {w}
    BY NewWbNames
  <2>2. j \notin m
    BY NewWbNames
  <2>. QED  BY <2>1, <2>2 DEF Ids
<1>3. ASSUME NEW j \in m
      PROVE  j \in Wbs /\ j \in Ids \ {i} /\ ~Live(j) /\ m = {j} /\ g \in Lines
  <2>1. g \in Lines /\ \E w \in Wbs : ~Live(w) /\ m = {w}
    BY NewWbNames
  <2>. QED  BY <2>1 DEF Ids
<1>4. ASSUME NEW j \in n
      PROVE  Roles(j)' /\ OnePlace(j)'
  <2>1. j \in Wbs /\ j \in Ids \ {i} /\ Nowhere(j) /\ l \in Lines /\ j \notin m
    BY <1>2, Zenon DEF IInv, OnePlace
  <2>2. req'[j] = NewRequest(l)
    BY <2>1, Zenon DEF RequestsGain
  <2>3. At(j, <<k, "wb">>)'
    BY <2>1, PlaceNames, Zenon DEF At, Nowhere, QueuesGain
  <2>. QED  BY <2>1, <2>2, <2>3, FreshOk, Zenon DEF NewRequest
<1>5. ASSUME NEW j \in m
      PROVE  Roles(j)' /\ OnePlace(j)'
  <2>1. j \in Wbs /\ j \in Ids \ {i} /\ Nowhere(j) /\ g \in Lines /\ j \notin n
    BY <1>2, <1>3, Zenon DEF IInv, OnePlace
  <2>2. req'[j] = NewRequest(g)
    BY <2>1, Zenon DEF RequestsGain
  <2>3. At(j, <<h, "wb">>)'
    BY <2>1, PlaceNames, Zenon DEF At, Nowhere, QueuesGain
  <2>. QED  BY <2>1, <2>2, <2>3, FreshOk, Zenon DEF NewRequest
<1>6. \A j \in Ids \ {i} : j \notin n /\ j \notin m => Same(j)
  BY Zenon DEF Same, RequestsGain, QueuesGain
<1>7. ASSUME NEW x \in Levels
      PROVE  Cardinality(queue'[<<x, "wb">>]) <= WbSize
  <2>1. <<x, "wb">> \in Places
    BY PlaceNames, Zenon
  <2>2. \A j \in Ids : j \in queue'[<<x, "wb">>] =>
            j \in queue[<<x, "wb">>] \/ (x = k /\ j \in n) \/ (x = h /\ j \in m)
    BY <2>1, WbPlaces DEF QueuesGain
  <2>3. queue'[<<x, "wb">>] \subseteq Ids
    BY <2>1 DEF QueuesGain
  <2>4. CASE x = k
    <3>1. PICK w : n \subseteq {w}
      BY <1>2, Zenon
    <3>. QED  BY <2>2, <2>3, <2>4, <3>1, WbGrows DEF IInv
  <2>5. CASE x = h /\ m # {}
    <3>1. PICK w : m \subseteq {w}
      BY <1>3, Zenon
    <3>. QED  BY <2>2, <2>3, <2>5, <3>1, WbGrows, Zenon DEF IInv
  <2>6. CASE x # k /\ (x = h => m = {})
    <3>1. queue'[<<x, "wb">>] \subseteq queue[<<x, "wb">>]
      BY <2>2, <2>3, <2>6
    <3>2. IsFiniteSet(queue[<<x, "wb">>]) /\ Cardinality(queue[<<x, "wb">>]) \in Nat
      BY <2>1, QueuesFinite DEF IInv
    <3>3. Cardinality(queue'[<<x, "wb">>]) <= Cardinality(queue[<<x, "wb">>])
          /\ Cardinality(queue'[<<x, "wb">>]) \in Nat
      BY <3>1, <3>2, FS_Subset, FS_CardinalityType, Zenon
    <3>4. Cardinality(queue[<<x, "wb">>]) <= WbSize /\ WbSize \in Nat
      BY ConstantsAssumption, Zenon DEF IInv, WbNeverRejected
    <3>. QED  BY <3>2, <3>3, <3>4
  <2>. QED  BY <2>4, <2>5, <2>6, Zenon
<1>8. WbNeverRejected'
  BY <1>7, Zenon DEF WbNeverRejected
<1>. QED  BY <1>1, <1>4, <1>5, <1>6, <1>8, StepOk

LEMMA WithWbFacts ==
    ASSUME NEW r \in [Ids -> Request], NEW l \in Lines \cup {NoLine}, NEW n
    PROVE  /\ WithWb(r, n, l) \in [Ids -> Request]
           /\ \A j \in Ids : WithWb(r, n, l)[j] = IF j \in n THEN NewRequest(l) ELSE r[j]
<1>1. NewRequest(l) \in Request
  BY DEF NewRequest, Request, States
<1>2. WithWb(r, n, l) = [j \in Ids |-> IF j \in n THEN NewRequest(l) ELSE r[j]]
  BY DEF WithWb, NewRequest
<1>. QED  BY <1>1, <1>2, Zenon

\* A live request is none of the new write-backs.
LEMMA LiveNotNew ==
    ASSUME NEW i, Live(i), NEW l, NEW taken, NEW n \in NewWb(l, taken)
    PROVE  i \notin n /\ n \subseteq Ids
  BY NewWbNames DEF Ids

\* Requests r after the state of i changed.
LEMMA StateSet ==
    ASSUME NEW r \in [Ids -> Request], NEW i \in Ids, NEW s \in States, NEW q,
           q = [r EXCEPT ![i].state = s]
    PROVE  /\ q \in [Ids -> Request] /\ \A j \in Ids \ {i} : q[j] = r[j]
           /\ q[i].type = r[i].type /\ q[i].line = r[i].line /\ q[i].state = s
  BY DEF Request

\* Requests r after i is freed.
LEMMA FreeSet ==
    ASSUME NEW r \in [Ids -> Request], NEW i \in Ids, NEW q, q = [r EXCEPT ![i] = Free]
    PROVE  q \in [Ids -> Request] /\ q[i] = Free /\ \A j \in Ids \ {i} : q[j] = r[j]
<1>1. Free \in Request
  BY DEF Free, Request, States
<1>. QED  BY <1>1, Zenon

\* The requests after one write-back is made and i is freed or changes state.
LEMMA FreeGain ==
    ASSUME IInv, NEW i \in Ids, NEW l \in Lines \cup {NoLine}, NEW n,
           req' = [WithWb(req, n, l) EXCEPT ![i] = Free]
    PROVE  req'[i] = Free /\ RequestsGain(i, n, l, {}, NoLine)
<1>. DEFINE w == WithWb(req, n, l)
<1>1. req \in [Ids -> Request]
  BY DEF IInv, TypeOK
<1>2. /\ w \in [Ids -> Request]
      /\ \A j \in Ids : w[j] = IF j \in n THEN NewRequest(l) ELSE req[j]
  BY ONLY <1>1, WithWbFacts, l \in Lines \cup {NoLine}
<1>3. req' = [w EXCEPT ![i] = Free]
  OBVIOUS
<1>. HIDE DEF w
<1>4. req' \in [Ids -> Request] /\ req'[i] = Free /\ \A j \in Ids \ {i} : req'[j] = w[j]
  BY ONLY <1>2, <1>3, FreeSet, i \in Ids, Zenon
<1>. QED  BY ONLY <1>2, <1>4, Zenon DEF RequestsGain

Restated(i, n, l, s) == req' = [WithWb(req, n, l) EXCEPT ![i].state = s]

LEMMA StateGain ==
    ASSUME IInv, NEW i \in Ids, NEW l \in Lines \cup {NoLine}, NEW n, i \notin n,
           NEW s \in States, Restated(i, n, l, s)
    PROVE  /\ RequestsGain(i, n, l, {}, NoLine)
           /\ req'[i].type = req[i].type /\ req'[i].line = req[i].line /\ req'[i].state = s
<1>. DEFINE w == WithWb(req, n, l)
<1>1. req \in [Ids -> Request]
  BY ONLY IInv, Zenon DEF IInv, TypeOK
<1>2. /\ w \in [Ids -> Request]
      /\ \A j \in Ids : w[j] = IF j \in n THEN NewRequest(l) ELSE req[j]
  BY ONLY <1>1, WithWbFacts, l \in Lines \cup {NoLine}
<1>3. req' = [w EXCEPT ![i].state = s]
  BY DEF Restated
<1>. HIDE DEF w
<1>4. /\ req' \in [Ids -> Request] /\ \A j \in Ids \ {i} : req'[j] = w[j]
      /\ req'[i].type = w[i].type /\ req'[i].line = w[i].line /\ req'[i].state = s
  BY ONLY <1>2, <1>3, StateSet, i \in Ids, s \in States
<1>. QED  BY ONLY <1>2, <1>4, i \in Ids, i \notin n, Zenon DEF RequestsGain

\* The requests after two write-backs are made and i is freed.
LEMMA FreeGainTwo ==
    ASSUME IInv, NEW i \in Ids, NEW l \in Lines \cup {NoLine}, NEW n,
           NEW g \in Lines \cup {NoLine}, NEW m,
           req' = [WithWb(WithWb(req, n, l), m, g) EXCEPT ![i] = Free]
    PROVE  req'[i] = Free /\ RequestsGain(i, n, l, m, g)
<1>. DEFINE w == WithWb(req, n, l)
            z == WithWb(w, m, g)
<1>1. req \in [Ids -> Request]
  BY DEF IInv, TypeOK
<1>2. /\ w \in [Ids -> Request]
      /\ \A j \in Ids : w[j] = IF j \in n THEN NewRequest(l) ELSE req[j]
  BY ONLY <1>1, WithWbFacts, l \in Lines \cup {NoLine}
<1>3. req' = [z EXCEPT ![i] = Free]
  BY Zenon
<1>. HIDE DEF w
<1>4. /\ z \in [Ids -> Request]
      /\ \A j \in Ids : z[j] = IF j \in m THEN NewRequest(g) ELSE w[j]
  BY ONLY <1>2, WithWbFacts, g \in Lines \cup {NoLine}
<1>. HIDE DEF z
<1>5. req' \in [Ids -> Request] /\ req'[i] = Free /\ \A j \in Ids \ {i} : req'[j] = z[j]
  BY ONLY <1>3, <1>4, FreeSet, i \in Ids, Zenon
<1>. QED  BY ONLY <1>2, <1>4, <1>5, Zenon DEF RequestsGain

\* The queues after i is taken from p and n and m are added.
QueuesFree(i, p, k, n, h, m) ==
    /\ queue' \in [Places -> SUBSET Ids]
    /\ \A x \in Places : queue'[x] = IF x = p THEN queue[p] \ {i}
                                     ELSE IF x = <<k, "wb">> THEN queue[x] \cup n
                                     ELSE IF x = <<h, "wb">> THEN queue[x] \cup m
                                     ELSE queue[x]

LEMMA QueuesFreeIs ==
    ASSUME queue \in [Places -> SUBSET Ids], NEW i, NEW p \in Places, p[2] # "wb",
           NEW k \in Levels, NEW h \in Levels, k # h,
           NEW n \in SUBSET Ids, NEW m \in SUBSET Ids,
           queue' = [queue EXCEPT ![p] = @ \ {i}, ![<<k, "wb">>] = @ \cup n,
                                  ![<<h, "wb">>] = @ \cup m]
    PROVE  QueuesFree(i, p, k, n, h, m)
<1>. DEFINE a == <<k, "wb">>
            b == <<h, "wb">>
<1>1. a \in Places /\ b \in Places /\ p # a /\ p # b /\ a # b
  BY WbPlaces
<1>2. queue' = [queue EXCEPT ![p] = @ \ {i}, ![a] = @ \cup n, ![b] = @ \cup m]
  OBVIOUS
<1>. HIDE DEF a, b
<1>3. /\ queue' \in [Places -> SUBSET Ids]
      /\ \A x \in Places : queue'[x] = IF x = p THEN queue[p] \ {i}
                                       ELSE IF x = a THEN queue[x] \cup n
                                       ELSE IF x = b THEN queue[x] \cup m
                                       ELSE queue[x]
  BY ONLY <1>1, <1>2, queue \in [Places -> SUBSET Ids], n \in SUBSET Ids, m \in SUBSET Ids, Zenon
<1>. QED  BY <1>3, Zenon DEF QueuesFree, a, b

\* The request leaves queue p and is freed while write-backs are made.
LEMMA FillFreesOk ==
    ASSUME IInv, NEW i \in Ids, NEW p \in Places, i \in queue[p], p[2] # "wb",
           NEW k \in Levels, NEW l \in Lines \cup {NoLine}, NEW n \in NewWb(l, {}),
           NEW h \in Levels, NEW g \in Lines \cup {NoLine}, NEW m \in NewWb(g, n),
           h # k, ~WbFull(k), m # {} => ~WbFull(h),
           disabled' = disabled, cache' \in [Levels -> [Lines -> Marks]],
           QueuesFree(i, p, k, n, h, m), RequestsGain(i, n, l, m, g), req'[i] = Free
    PROVE  IInv'
<1>1. At(i, p) /\ Live(i) /\ i \notin n /\ i \notin m
  BY Located, LiveNotNew
<1>2. <<k, "wb">> \in Places /\ <<h, "wb">> \in Places
      /\ p # <<k, "wb">> /\ p # <<h, "wb">> /\ <<k, "wb">> # <<h, "wb">>
  BY WbPlaces
<1>3. \A x \in Places : i \notin queue'[x]
  BY <1>1, Zenon DEF At, QueuesFree
<1>4. Roles(i)' /\ OnePlace(i)'
  BY <1>3, FreedOk, Zenon
<1>5. QueuesGain(i, k, n, h, m)
  <2>1. \A x \in Places : \A j \in Ids \ {i} :
            j \in queue'[x] <=> \/ j \in queue[x]
                                \/ x = <<k, "wb">> /\ j \in n
                                \/ x = <<h, "wb">> /\ j \in m
    BY <1>2, Zenon DEF QueuesFree
  <2>2. \A x \in Levels : i \notin queue'[<<x, "wb">>]
    BY <1>3, WbPlaces, Zenon
  <2>. QED  BY <2>1, <2>2, Zenon DEF QueuesGain, QueuesFree
<1>. QED  BY <1>1, <1>4, <1>5, FillOk

\* The same with one write-back.
LEMMA FillFreesOneOk ==
    ASSUME IInv, NEW i \in Ids, NEW p \in Places, i \in queue[p], p[2] # "wb",
           NEW k \in Levels, NEW l \in Lines \cup {NoLine}, NEW n \in NewWb(l, {}), ~WbFull(k),
           disabled' = disabled, cache' \in [Levels -> [Lines -> Marks]],
           queue' = [queue EXCEPT ![p] = @ \ {i}, ![<<k, "wb">>] = @ \cup n],
           req' = [WithWb(req, n, l) EXCEPT ![i] = Free]
    PROVE  IInv'
<1>1. PICK h \in Levels : h # k
  BY DEF Levels
<1>2. {} \in NewWb(NoLine, n)
  BY Zenon DEF NewWb
<1>3. <<k, "wb">> \in Places /\ queue \in [Places -> SUBSET Ids] /\ p # <<k, "wb">>
      /\ req \in [Ids -> Request]
  BY WbPlaces, Zenon DEF IInv, TypeOK
<1>4. n \subseteq Ids
  BY Located, LiveNotNew, Zenon
<1>5. QueuesFree(i, p, k, n, h, {})
  BY <1>3, <1>4, Zenon DEF QueuesFree
<1>6. req'[i] = Free /\ RequestsGain(i, n, l, {}, NoLine)
  BY FreeGain, Zenon
<1>. QED  BY <1>1, <1>2, <1>5, <1>6, FillFreesOk, Zenon

\* The request stays in the fill queue, or goes from there to the output
\* queue, while a write-back is made.
LEMMA FillGoesOk ==
    ASSUME IInv, NEW k \in Levels, NEW i \in Reqs, i \in queue[<<k, "fill">>],
           NEW l \in Lines \cup {NoLine}, NEW n \in NewWb(l, {}), ~WbFull(k),
           NEW s \in States, NEW p \in Places,
           disabled' = disabled, cache' \in [Levels -> [Lines -> Marks]],
           \A h : QueuesGain(i, k, n, h, {}),
           At(i, p)', p[2] \in {"fill", "out"},
           req' = [WithWb(req, n, l) EXCEPT ![i].state = s],
           p = <<2, "out">> => s # "OUT_FILL"
    PROVE  IInv'
<1>0. i \in Ids /\ i \notin Wbs /\ <<k, "fill">> \in Places
  BY PlaceNames, ConstantsAssumption, Zenon DEF Ids
<1>1. Live(i) /\ i \notin n
  BY <1>0, Located, LiveNotNew
<1>2. Roles(i) /\ TypeOK
  BY <1>0 DEF IInv
<1>3. /\ RequestsGain(i, n, l, {}, NoLine)
      /\ req'[i].type = req[i].type /\ req'[i].line = req[i].line /\ req'[i].state = s
  <2>1. Restated(i, n, l, s)
    BY DEF Restated
  <2>2. i \in Ids /\ i \notin n
    BY <1>0, <1>1, Zenon
  <2>. QED  BY ONLY <2>1, <2>2, StateGain, IInv, s \in States, l \in Lines \cup {NoLine}
<1>4. Goes(i, p)
  BY <1>3 DEF Goes
<1>5. Roles(i)' /\ OnePlace(i)'
  BY <1>0, <1>1, <1>2, <1>3, <1>4, GoesOk, Zenon
<1>6. PICK h \in Levels : h # k
  BY DEF Levels
<1>7. {} \in NewWb(NoLine, n)
  BY Zenon DEF NewWb
<1>. QED  BY <1>0, <1>1, <1>3, <1>5, <1>6, <1>7, FillOk, Zenon

-----------------------------------------------------------------------------

(* The actions that fill a line.                                           *)

\* A live request has a line, and dcu_c::done fills it when there is room.
LEMMA LiveLine ==
    ASSUME IInv, NEW i \in Ids, NEW p \in Places, i \in queue[p]
    PROVE  req[i].line \in Lines
  BY Located, Zenon DEF IInv, Roles

LEMMA DoneFacts ==
    ASSUME NEW i, NEW g \in done(i)
    PROVE  ~WbFull(1) /\ g \in Fills(1, i)
  BY Zenon DEF done

LEMMA InDoneOk ==
    ASSUME IInv, NEW i \in Ids, InDone(i)
    PROVE  IInv'
<1>1. /\ 1 \in Levels /\ 2 \in Levels /\ TypeOK /\ disabled' = disabled
      /\ <<2, "in">> \in Places /\ <<2, "in">>[2] # "wb" /\ i \in queue[<<2, "in">>]
  BY PlaceNames DEF Levels, InDone, IInv
<1>2. HitCache(2, i) \in [Levels -> [Lines -> Marks]]
  BY <1>1, HitCacheType, Zenon
<1>3. CASE cache' = HitCache(2, i) /\ UNCHANGED <<queue, req>>
  <2>1. \A j \in Ids : Same(j)
    BY <1>3, Zenon DEF Same
  <2>2. TypeOK' /\ WbNeverRejected'
    BY <1>1, <1>2, <1>3, Zenon DEF IInv, TypeOK, WbNeverRejected
  <2>. QED  BY <2>1, <2>2, StepOk, Zenon
<1>4. ASSUME NEW f \in done(i), NEW n \in NewWb(f.wb, {}),
             cache' = [HitCache(2, i) EXCEPT ![1] = f.lines],
             queue' = [queue EXCEPT ![<<2, "in">>] = @ \ {i}, ![<<1, "wb">>] = @ \cup n],
             req' = [WithWb(req, n, f.wb) EXCEPT ![i] = Free]
      PROVE  IInv'
  <2>1. ~WbFull(1) /\ f \in Fills(1, i) /\ req[i].line \in Lines
    BY <1>1, DoneFacts, LiveLine
  <2>2. f.lines \in [Lines -> Marks] /\ f.wb \in Lines \cup {NoLine}
    BY ONLY <1>1, <2>1, FillsFacts, i \in Ids
  <2>3. cache' \in [Levels -> [Lines -> Marks]]
    BY ONLY <1>1, <1>2, <2>2, cache' = [HitCache(2, i) EXCEPT ![1] = f.lines]
  <2>. QED  BY <1>1, <1>4, <2>1, <2>2, <2>3, FillFreesOneOk, Zenon
<1>. QED  BY <1>3, <1>4, Zenon DEF InDone

LEMMA FillWaitDoneOk ==
    ASSUME IInv, NEW i \in Ids, FillWaitDone(i)
    PROVE  IInv'
<1>1. /\ 1 \in Levels /\ 2 \in Levels /\ TypeOK /\ disabled' = disabled
      /\ <<2, "fill">> \in Places /\ <<2, "fill">>[2] # "wb" /\ i \in queue[<<2, "fill">>]
  BY PlaceNames DEF Levels, FillWaitDone, IInv
<1>2. SUFFICES
        ASSUME NEW g \in done(i), NEW n \in NewWb(g.wb, {}),
               cache' = [cache EXCEPT ![1] = g.lines],
               queue' = [queue EXCEPT ![<<2, "fill">>] = @ \ {i}, ![<<1, "wb">>] = @ \cup n],
               req' = [WithWb(req, n, g.wb) EXCEPT ![i] = Free]
        PROVE  IInv'
  BY Zenon DEF FillWaitDone
<1>3. ~WbFull(1) /\ g \in Fills(1, i) /\ req[i].line \in Lines
  BY <1>1, DoneFacts, LiveLine
<1>4. g.lines \in [Lines -> Marks] /\ g.wb \in Lines \cup {NoLine}
  BY ONLY <1>1, <1>3, FillsFacts, i \in Ids
<1>5. cache' \in [Levels -> [Lines -> Marks]]
  BY <1>1, <1>2, <1>4 DEF TypeOK
<1>. QED  BY <1>1, <1>2, <1>3, <1>4, <1>5, FillFreesOneOk, Zenon

\* FillL2, the line goes on to L1.
LEMMA FillL2DoneOk ==
    ASSUME IInv, NEW i \in Ids, i \in queue[<<2, "fill">>], ~WbFull(2), disabled' = disabled,
           NEW f \in Fills(2, i), NEW n \in NewWb(f.wb, {}),
           NEW g \in done(i), NEW m \in NewWb(g.wb, n),
           cache' = [cache EXCEPT ![1] = g.lines, ![2] = f.lines],
           queue' = [queue EXCEPT ![<<2, "fill">>] = @ \ {i}, ![<<2, "wb">>] = @ \cup n,
                                  ![<<1, "wb">>] = @ \cup m],
           req' = [WithWb(WithWb(req, n, f.wb), m, g.wb) EXCEPT ![i] = Free]
    PROVE  IInv'
<1>1. /\ 1 \in Levels /\ 2 \in Levels /\ TypeOK /\ req \in [Ids -> Request]
      /\ <<2, "fill">> \in Places /\ <<2, "fill">>[2] # "wb"
      /\ <<1, "wb">> \in Places /\ <<2, "wb">> \in Places
  BY PlaceNames DEF Levels, IInv, TypeOK
<1>2. ~WbFull(1) /\ g \in Fills(1, i) /\ req[i].line \in Lines /\ Live(i)
  BY <1>1, DoneFacts, LiveLine, Located, Zenon
<1>3. g.lines \in [Lines -> Marks] /\ g.wb \in Lines \cup {NoLine}
  BY ONLY <1>1, <1>2, FillsFacts, i \in Ids, Zenon
<1>4. f.lines \in [Lines -> Marks] /\ f.wb \in Lines \cup {NoLine}
  BY ONLY <1>1, <1>2, FillsFacts, i \in Ids, f \in Fills(2, i), Zenon
<1>5. cache' \in [Levels -> [Lines -> Marks]]
  BY <1>1, <1>3, <1>4, Zenon DEF TypeOK
<1>6. n \subseteq Ids /\ m \subseteq Ids
  BY <1>2, LiveNotNew, Zenon
<1>10. PICK p \in Places, k \in Levels, h \in Levels :
          /\ p = <<2, "fill">> /\ k = 2 /\ h = 1 /\ k # h
          /\ p[2] # "wb" /\ ~WbFull(k) /\ ~WbFull(h) /\ i \in queue[p]
  BY ONLY <1>1, <1>2, i \in queue[<<2, "fill">>], ~WbFull(2)
<1>7. QueuesFree(i, p, k, n, h, m)
  <2>1. /\ queue \in [Places -> SUBSET Ids]
        /\ queue' = [queue EXCEPT ![p] = @ \ {i}, ![<<k, "wb">>] = @ \cup n,
                                  ![<<h, "wb">>] = @ \cup m]
    BY <1>1, <1>10 DEF TypeOK
  <2>. QED  BY ONLY <1>6, <1>10, <2>1, QueuesFreeIs, Zenon
<1>8. req'[i] = Free /\ RequestsGain(i, n, f.wb, m, g.wb)
  <2>1. req' = [WithWb(WithWb(req, n, f.wb), m, g.wb) EXCEPT ![i] = Free]
    OBVIOUS
  <2>. QED  BY ONLY <1>3, <1>4, <2>1, FreeGainTwo, IInv, i \in Ids, Zenon
<1>. QED  BY ONLY <1>3, <1>4, <1>5, <1>7, <1>8, <1>10, FillFreesOk, IInv, i \in Ids, Zenon,
                  disabled' = disabled, n \in NewWb(f.wb, {}), m \in NewWb(g.wb, n)

\* A write-back is made and the request stays.
LEMMA FillStays ==
    ASSUME IInv, NEW k \in Levels, NEW i \in Reqs, i \in queue[<<k, "fill">>], ~WbFull(k),
           NEW f \in Fills(k, i), NEW n \in NewWb(f.wb, {}), NEW s \in States,
           disabled' = disabled, cache' = [cache EXCEPT ![k] = f.lines],
           queue' = [queue EXCEPT ![<<k, "wb">>] = @ \cup n],
           req' = [WithWb(req, n, f.wb) EXCEPT ![i].state = s]
    PROVE  IInv'
<1>1. /\ TypeOK /\ <<k, "fill">> \in Places /\ <<k, "fill">>[2] = "fill"
      /\ <<k, "wb">> \in Places /\ <<k, "wb">> # <<k, "fill">> /\ i \in Ids
      /\ queue \in [Places -> SUBSET Ids]
  BY PlaceNames, Zenon DEF IInv, Ids, TypeOK
<1>2. req[i].line \in Lines /\ Live(i) /\ At(i, <<k, "fill">>)
  BY <1>1, LiveLine, Located
<1>3. f.lines \in [Lines -> Marks] /\ f.wb \in Lines \cup {NoLine}
  BY ONLY <1>1, <1>2, FillsFacts, k \in Levels, f \in Fills(k, i)
<1>4. cache' \in [Levels -> [Lines -> Marks]]
  BY <1>1, <1>3, Zenon DEF TypeOK
<1>5. n \subseteq Ids /\ i \notin n
  BY <1>2, LiveNotNew, Zenon
<1>6. /\ queue' \in [Places -> SUBSET Ids]
      /\ \A x \in Places : queue'[x] = IF x = <<k, "wb">> THEN queue[x] \cup n ELSE queue[x]
  BY <1>1, <1>5, Zenon
<1>7. At(i, <<k, "fill">>)'
  BY <1>2, <1>5, <1>6 DEF At
<1>8. ASSUME NEW x \in Levels
      PROVE  i \notin queue'[<<x, "wb">>]
  BY <1>7, WbPlaces DEF At
<1>9. ASSUME NEW h
      PROVE  QueuesGain(i, k, n, h, {})
  BY <1>6, <1>8 DEF QueuesGain
<1>10. <<k, "fill">> # <<2, "out">>
  OBVIOUS
<1>. QED  BY <1>1, <1>3, <1>4, <1>7, <1>9, <1>10, FillGoesOk, Zenon

LEMMA FillL2Ok ==
    ASSUME IInv, NEW i \in Ids, FillL2(i)
    PROVE  IInv'
<1>1. /\ 2 \in Levels /\ TypeOK /\ disabled' = disabled /\ ~WbFull(2)
      /\ <<2, "fill">> \in Places /\ <<2, "fill">>[2] # "wb" /\ i \in queue[<<2, "fill">>]
  BY PlaceNames DEF Levels, FillL2, FillAllowed, IInv
<1>2. Live(i) /\ req[i].line \in Lines
  BY <1>1, Located, LiveLine
<1>3. req[i].type # "WB" => i \in Reqs
  BY <1>2, Zenon DEF IInv, Roles, Ids, Live
<1>4. SUFFICES
        ASSUME NEW f \in Fills(2, i), NEW n \in NewWb(f.wb, {}),
               \/ /\ req[i].type # "WB"
                  /\ \E g \in done(i) : \E m \in NewWb(g.wb, n) :
                       /\ cache' = [cache EXCEPT ![1] = g.lines, ![2] = f.lines]
                       /\ queue' = [queue EXCEPT ![<<2, "fill">>] = @ \ {i},
                                                 ![<<2, "wb">>] = @ \cup n,
                                                 ![<<1, "wb">>] = @ \cup m]
                       /\ req' = [WithWb(WithWb(req, n, f.wb), m, g.wb) EXCEPT ![i] = Free]
               \/ /\ req[i].type # "WB"
                  /\ cache' = [cache EXCEPT ![2] = f.lines]
                  /\ queue' = [queue EXCEPT ![<<2, "wb">>] = @ \cup n]
                  /\ req' = [WithWb(req, n, f.wb) EXCEPT ![i].state = "FILL_WAIT_DONE"]
               \/ /\ req[i].type = "WB"
                  /\ cache' = [cache EXCEPT ![2] = f.lines]
                  /\ queue' = [queue EXCEPT ![<<2, "fill">>] = @ \ {i}, ![<<2, "wb">>] = @ \cup n]
                  /\ req' = [WithWb(req, n, f.wb) EXCEPT ![i] = Free]
        PROVE  IInv'
  BY Zenon DEF FillL2
<1>5. f.lines \in [Lines -> Marks] /\ f.wb \in Lines \cup {NoLine}
  BY ONLY <1>1, <1>2, FillsFacts, i \in Ids, f \in Fills(2, i), Zenon
<1>6. ASSUME NEW g \in done(i), NEW m \in NewWb(g.wb, n),
             cache' = [cache EXCEPT ![1] = g.lines, ![2] = f.lines],
             queue' = [queue EXCEPT ![<<2, "fill">>] = @ \ {i}, ![<<2, "wb">>] = @ \cup n,
                                    ![<<1, "wb">>] = @ \cup m],
             req' = [WithWb(WithWb(req, n, f.wb), m, g.wb) EXCEPT ![i] = Free]
      PROVE  IInv'
  BY ONLY <1>1, <1>4, <1>6, FillL2DoneOk, IInv, i \in Ids, Zenon
<1>7. ASSUME req[i].type # "WB", cache' = [cache EXCEPT ![2] = f.lines],
             queue' = [queue EXCEPT ![<<2, "wb">>] = @ \cup n],
             req' = [WithWb(req, n, f.wb) EXCEPT ![i].state = "FILL_WAIT_DONE"]
      PROVE  IInv'
  <2>1. PICK s \in States : s = "FILL_WAIT_DONE"
    BY DEF States
  <2>2. req' = [WithWb(req, n, f.wb) EXCEPT ![i].state = s]
    BY <1>7, <2>1
  <2>3. PICK k \in Levels :
          /\ k = 2 /\ i \in queue[<<k, "fill">>] /\ ~WbFull(k) /\ f \in Fills(k, i)
          /\ cache' = [cache EXCEPT ![k] = f.lines]
          /\ queue' = [queue EXCEPT ![<<k, "wb">>] = @ \cup n]
    BY <1>1, <1>7, Zenon
  <2>4. i \in Reqs
    BY <1>3, <1>7
  <2>. QED  BY ONLY <1>1, <2>2, <2>3, <2>4, FillStays, IInv, n \in NewWb(f.wb, {}), s \in States, Zenon
<1>8. ASSUME cache' = [cache EXCEPT ![2] = f.lines],
             queue' = [queue EXCEPT ![<<2, "fill">>] = @ \ {i}, ![<<2, "wb">>] = @ \cup n],
             req' = [WithWb(req, n, f.wb) EXCEPT ![i] = Free]
      PROVE  IInv'
  <2>1. cache' \in [Levels -> [Lines -> Marks]]
    BY <1>1, <1>5, <1>8 DEF TypeOK
  <2>. QED  BY ONLY <1>1, <1>5, <1>8, <2>1, FillFreesOneOk, IInv, i \in Ids, n \in NewWb(f.wb, {}), Zenon
<1>. QED  BY <1>4, <1>6, <1>7, <1>8, Zenon

\* A write-back is made and the line goes up.
LEMMA FillBelowUp ==
    ASSUME IInv, NEW k \in Levels, k # 2, NEW i \in Reqs, i \in queue[<<k, "fill">>], ~WbFull(k),
           NEW f \in Fills(k, i), NEW n \in NewWb(f.wb, {}),
           disabled' = disabled, cache' = [cache EXCEPT ![k] = f.lines],
           queue' = [queue EXCEPT ![<<k, "fill">>] = @ \ {i}, ![<<k, "wb">>] = @ \cup n,
                                  ![<<k, "out">>] = @ \cup {i}],
           req' = [WithWb(req, n, f.wb) EXCEPT ![i].state = "OUT_FILL"]
    PROVE  IInv'
<1>1. PICK p \in Places, q \in Places, b \in Places :
        /\ p = <<k, "fill">> /\ q = <<k, "out">> /\ b = <<k, "wb">>
        /\ p # q /\ p # b /\ q # b /\ q[2] = "out" /\ q # <<2, "out">>
  <2>1. /\ <<k, "fill">> \in Places /\ <<k, "out">> \in Places /\ <<k, "wb">> \in Places
        /\ <<k, "out">> # <<2, "out">>
    BY PlaceNames, Zenon
  <2>2. /\ <<k, "fill">> # <<k, "out">> /\ <<k, "fill">> # <<k, "wb">>
        /\ <<k, "out">> # <<k, "wb">> /\ <<k, "out">>[2] = "out"
    OBVIOUS
  <2>. QED  BY ONLY <2>1, <2>2
<1>2. TypeOK /\ i \in Ids /\ queue \in [Places -> SUBSET Ids]
  BY DEF IInv, Ids, TypeOK
<1>3. req[i].line \in Lines /\ Live(i) /\ At(i, p)
  BY <1>1, <1>2, LiveLine, Located
<1>4. f.lines \in [Lines -> Marks] /\ f.wb \in Lines \cup {NoLine}
  BY ONLY <1>2, <1>3, FillsFacts, k \in Levels, f \in Fills(k, i)
<1>5. cache' \in [Levels -> [Lines -> Marks]]
  BY <1>2, <1>4, Zenon DEF TypeOK
<1>6. n \subseteq Ids /\ i \notin n
  BY <1>3, LiveNotNew, Zenon
<1>7. queue' = [queue EXCEPT ![p] = @ \ {i}, ![b] = @ \cup n, ![q] = @ \cup {i}]
  BY <1>1, Zenon
<1>8. /\ queue' \in [Places -> SUBSET Ids]
      /\ \A x \in Places : queue'[x] = IF x = p THEN queue[x] \ {i}
                                       ELSE IF x = b THEN queue[x] \cup n
                                       ELSE IF x = q THEN queue[x] \cup {i} ELSE queue[x]
  BY ONLY <1>1, <1>2, <1>6, <1>7, Zenon
<1>9. At(i, q)'
  BY ONLY <1>1, <1>3, <1>6, <1>8 DEF At
<1>10. ASSUME NEW x \in Levels
       PROVE  i \notin queue'[<<x, "wb">>]
  <2>1. <<x, "wb">> \in Places /\ <<x, "wb">>[2] = "wb"
    BY WbPlaces
  <2>2. <<x, "wb">> # q
    BY <1>1, <2>1
  <2>. QED  BY ONLY <1>9, <2>1, <2>2 DEF At
<1>11. ASSUME NEW h
       PROVE  QueuesGain(i, k, n, h, {})
  BY ONLY <1>1, <1>8, <1>10 DEF QueuesGain
<1>12. PICK s \in States : s = "OUT_FILL"
  BY DEF States
<1>13. req' = [WithWb(req, n, f.wb) EXCEPT ![i].state = s]
  BY <1>12, Zenon
<1>. QED  BY ONLY <1>1, <1>4, <1>5, <1>9, <1>11, <1>13, FillGoesOk, IInv, k \in Levels, i \in Reqs, Zenon,
                  i \in queue[<<k, "fill">>], ~WbFull(k), n \in NewWb(f.wb, {}), s \in States,
                  disabled' = disabled

LEMMA FillBelowOk ==
    ASSUME IInv, NEW k \in 3 .. 4, NEW i \in Ids, FillBelow(k, i)
    PROVE  IInv'
<1>1. /\ k \in Levels /\ k # 2 /\ TypeOK /\ disabled' = disabled /\ ~WbFull(k)
      /\ <<k, "fill">> \in Places /\ <<k, "fill">>[2] # "wb" /\ i \in queue[<<k, "fill">>]
  BY PlaceNames DEF Levels, FillBelow, FillAllowed, IInv
<1>2. Live(i) /\ req[i].line \in Lines
  BY <1>1, Located, LiveLine
<1>3. req[i].type # "WB" => i \in Reqs
  BY <1>2, Zenon DEF IInv, Roles, Ids, Live
<1>4. SUFFICES
        ASSUME NEW f \in Fills(k, i), NEW n \in NewWb(f.wb, {}),
               cache' = [cache EXCEPT ![k] = f.lines],
               \/ /\ req[i].type = "WB"
                  /\ queue' = [queue EXCEPT ![<<k, "fill">>] = @ \ {i}, ![<<k, "wb">>] = @ \cup n]
                  /\ req' = [WithWb(req, n, f.wb) EXCEPT ![i] = Free]
               \/ /\ req[i].type # "WB"
                  /\ queue' = [queue EXCEPT ![<<k, "fill">>] = @ \ {i}, ![<<k, "wb">>] = @ \cup n,
                                            ![<<k, "out">>] = @ \cup {i}]
                  /\ req' = [WithWb(req, n, f.wb) EXCEPT ![i].state = "OUT_FILL"]
               \/ /\ req[i].type # "WB"
                  /\ queue' = [queue EXCEPT ![<<k, "wb">>] = @ \cup n]
                  /\ req' = [WithWb(req, n, f.wb) EXCEPT ![i].state = "FILL_WAIT_FILL"]
        PROVE  IInv'
  BY Zenon DEF FillBelow
<1>5. f.lines \in [Lines -> Marks] /\ f.wb \in Lines \cup {NoLine}
  BY ONLY <1>1, <1>2, FillsFacts, i \in Ids, f \in Fills(k, i)
<1>6. ASSUME queue' = [queue EXCEPT ![<<k, "fill">>] = @ \ {i}, ![<<k, "wb">>] = @ \cup n],
             req' = [WithWb(req, n, f.wb) EXCEPT ![i] = Free]
      PROVE  IInv'
  <2>1. cache' \in [Levels -> [Lines -> Marks]]
    BY <1>1, <1>4, <1>5 DEF TypeOK
  <2>. QED  BY ONLY <1>1, <1>5, <1>6, <2>1, FillFreesOneOk, IInv, i \in Ids, n \in NewWb(f.wb, {}), Zenon
<1>7. ASSUME req[i].type # "WB",
             queue' = [queue EXCEPT ![<<k, "fill">>] = @ \ {i}, ![<<k, "wb">>] = @ \cup n,
                                    ![<<k, "out">>] = @ \cup {i}],
             req' = [WithWb(req, n, f.wb) EXCEPT ![i].state = "OUT_FILL"]
      PROVE  IInv'
  BY ONLY <1>1, <1>3, <1>4, <1>7, FillBelowUp, IInv, Zenon
<1>8. ASSUME req[i].type # "WB",
             queue' = [queue EXCEPT ![<<k, "wb">>] = @ \cup n],
             req' = [WithWb(req, n, f.wb) EXCEPT ![i].state = "FILL_WAIT_FILL"]
      PROVE  IInv'
  <2>1. PICK s \in States : s = "FILL_WAIT_FILL"
    BY DEF States
  <2>2. req' = [WithWb(req, n, f.wb) EXCEPT ![i].state = s]
    BY <1>8, <2>1
  <2>3. i \in Reqs
    BY <1>3, <1>8
  <2>4. cache' = [cache EXCEPT ![k] = f.lines]
    BY <1>4
  <2>. QED  BY ONLY <1>1, <1>8, <2>2, <2>3, <2>4, FillStays, IInv, f \in Fills(k, i), Zenon,
                    n \in NewWb(f.wb, {}), s \in States
<1>. QED  BY <1>4, <1>6, <1>7, <1>8, Zenon

-----------------------------------------------------------------------------

LEMMA InitOk ==
    ASSUME Init
    PROVE  IInv
<1>1. TypeOK
  BY ConstantsAssumption DEF Init, TypeOK, Free, Request, States, Marks
<1>2. ASSUME NEW i \in Ids
      PROVE  Roles(i) /\ OnePlace(i)
  <2>1. req[i] = Free /\ ~Live(i) /\ \A p \in Places : queue[p] = {}
    BY Zenon DEF Init, Live, Free
  <2>2. \A k \in Levels : /\ i \notin queue[<<k, "in">>] /\ i \notin queue[<<k, "retry">>]
                          /\ i \notin queue[<<k, "out">>]
    BY <2>1, PlaceNames, Zenon
  <2>3. \A k \in 2 .. MEM_MC : i \notin queue[<<k, "net">>]
    BY <2>1, PlaceNames, Zenon
  <2>4. 2 \in Levels
    BY DEF Levels
  <2>5. OnePlace(i)
    BY <2>1, Zenon DEF OnePlace, Nowhere
  <2>6. req[i].type = "none" /\ req[i].state = "free"
    BY <2>1 DEF Free
  <2>7. Roles(i)
    BY ONLY <2>1, <2>2, <2>3, <2>4, <2>6, Zenon DEF Roles
  <2>. QED  BY <2>5, <2>7
<1>3. WbNeverRejected
  <2>1. SUFFICES ASSUME NEW k \in Levels
                 PROVE  Cardinality(queue[<<k, "wb">>]) <= WbSize
    BY Zenon DEF WbNeverRejected
  <2>2. queue[<<k, "wb">>] = {}
    BY PlaceNames, Zenon DEF Init
  <2>. QED  BY <2>2, FS_EmptySet, ConstantsAssumption
<1>. QED  BY <1>1, <1>2, <1>3 DEF IInv

LEMMA NextOk ==
    ASSUME LargeInputs, IInv, [Next]_vars
    PROVE  IInv'
<1>1. CASE UNCHANGED vars
  BY <1>1 DEF vars, IInv, TypeOK, Roles, OnePlace, At, Nowhere, Live, WbNeverRejected
<1>2. ASSUME NEW l \in Lines, StoreHit(l)
      PROVE  IInv'
  BY <1>2, StoreHitOk, Zenon
<1>3. ASSUME NEW t \in {"DFETCH", "DSTORE"}, NEW l \in Lines, NEW i \in Reqs, Miss(t, l, i)
      PROVE  IInv'
  BY <1>3, MissOk, Zenon
<1>4. ASSUME NEW i \in Ids, Step(i)
      PROVE  IInv'
  <2>1. ASSUME NEW k \in 2 .. 4, \/ Retry(k, i) \/ ProcessOut(k, i)
                                 \/ InMiss(k, i) \/ ReceiveFill(k, i)
        PROVE  IInv'
    BY <2>1, RetryOk, ProcessOutOk, InMissOk, ReceiveFillOk, Zenon
  <2>2. ASSUME NEW k \in Levels, ProcessWb(k, i)
        PROVE  IInv'
    BY <2>2, ProcessWbOk, Zenon
  <2>3. ASSUME NEW k \in 3 .. 4, \/ InHit(k, i) \/ FillBelow(k, i)
                                 \/ FillWaitFill(k, i) \/ ReceiveNew(k, i)
        PROVE  IInv'
    BY <2>3, InHitOk, FillBelowOk, FillWaitFillOk, ReceiveNewOk, Zenon
  <2>4. CASE InDone(i) \/ FillL2(i) \/ FillWaitDone(i) \/ Dram(i)
    BY <2>4, InDoneOk, FillL2Ok, FillWaitDoneOk, DramOk, Zenon
  <2>. QED  BY <1>4, <2>1, <2>2, <2>3, <2>4, Zenon DEF Step
<1>. QED  BY <1>1, <1>2, <1>3, <1>4 DEF Next

LEMMA Invariance == LargeInputs => (Spec => []IInv)
<1>. SUFFICES ASSUME LargeInputs
              PROVE  Spec => []IInv
  OBVIOUS
<1>1. Init => IInv
  BY InitOk
<1>2. IInv /\ [Next]_vars => IInv'
  BY NextOk, Zenon
<1>. QED  BY <1>1, <1>2, PTL DEF Spec

-----------------------------------------------------------------------------

(* A modified line stays modified until its write-back is retired.         *)

DirtyStep == \A l \in Lines : Modified(l) /\ ~Modified(l)' => Retired(l)

\* Dirty lines of the caches stay dirty in some cache, but for those of S.
DirtyBut(S) ==
    \A k \in Levels, l \in Lines \ S :
        cache[k][l] = "dirty" => \E h \in Levels : cache'[h][l] = "dirty"

\* A write-back stays as it is.
WbKept(i) == Live(i) => Live(i)' /\ req'[i].line = req[i].line

LEMMA KeptDirty ==
    ASSUME DirtyBut({}), \A i \in Wbs : WbKept(i)
    PROVE  DirtyStep
  BY Zenon DEF DirtyStep, DirtyBut, WbKept, Modified

\* The lines of the new write-backs n and m may be cleaned in the caches, and
\* a write-back that is freed leaves a dirty line or is retired.
LEMMA GainDirty ==
    ASSUME IInv, NEW i \in Ids, Live(i),
           NEW l \in Lines \cup {NoLine}, NEW n \in NewWb(l, {}),
           NEW g \in Lines \cup {NoLine}, NEW m \in NewWb(g, n),
           RequestsGain(i, n, l, m, g), DirtyBut({l, g}),
           i \in Wbs => \/ \E h \in Levels : cache'[h][req[i].line] = "dirty"
                        \/ Retired(req[i].line)
    PROVE  DirtyStep
<1>1. SUFFICES ASSUME NEW x \in Lines, Modified(x), ~Modified(x)'
               PROVE  Retired(x)
  BY Zenon DEF DirtyStep
<1>2. /\ n \subseteq Wbs /\ m \subseteq Wbs /\ i \notin n /\ i \notin m /\ n \cap m = {}
      /\ \A w \in n \cup m : ~Live(w)
      /\ l # NoLine => n # {}
      /\ g # NoLine => m # {}
  BY NewWbNames, LiveNotNew
<1>3. CASE x = l
  <2>1. PICK w \in n : w \in Wbs /\ w \in Ids \ {i} /\ w \notin m
    BY <1>2, <1>3, ConstantsAssumption, Zenon DEF Ids
  <2>2. req'[w] = NewRequest(x)
    BY <1>3, <2>1 DEF RequestsGain
  <2>3. req'[w].type = "WB" /\ req'[w].line = x
    BY ONLY <2>2 DEF NewRequest
  <2>. QED  BY <1>1, <2>1, <2>3, Zenon DEF Modified, Live
<1>4. CASE x = g
  <2>1. PICK w \in m : w \in Wbs /\ w \in Ids \ {i}
    BY <1>2, <1>4, ConstantsAssumption, Zenon DEF Ids
  <2>2. req'[w] = NewRequest(x)
    BY <1>4, <2>1 DEF RequestsGain
  <2>3. req'[w].type = "WB" /\ req'[w].line = x
    BY ONLY <2>2 DEF NewRequest
  <2>. QED  BY <1>1, <2>1, <2>3 DEF Modified, Live
<1>5. CASE x \notin {l, g} /\ \E k \in Levels : cache[k][x] = "dirty"
  BY <1>1, <1>5 DEF DirtyBut, Modified
<1>6. ASSUME NEW w \in Wbs, Live(w), req[w].line = x
      PROVE  Retired(x)
  <2>1. CASE w = i
    BY <1>1, <1>6, <2>1, Zenon DEF Modified
  <2>2. CASE w # i
    <3>1. req'[w] = req[w]
      BY <1>2, <1>6, <2>2, Zenon DEF RequestsGain, Ids
    <3>. QED  BY <1>1, <1>6, <3>1, Zenon DEF Modified, Live
  <2>. QED  BY <2>1, <2>2, Zenon
<1>. QED  BY <1>1, <1>3, <1>4, <1>5, <1>6, Zenon DEF Modified

\* The actions that move a request keep the marks and every write-back.
LEMMA StateKeeps ==
    ASSUME TypeOK, NEW i \in Ids, NEW s \in States, req' = [req EXCEPT ![i].state = s]
    PROVE  \A j \in Wbs : WbKept(j)
<1>1. \A j \in Ids : req'[j].type = req[j].type /\ req'[j].line = req[j].line
  BY StateChange, Zenon
<1>. QED  BY <1>1, Zenon DEF WbKept, Live, Ids

LEMMA MoveDirty ==
    ASSUME IInv, NEW k, NEW i \in Ids,
           \/ Retry(k, i) \/ ProcessWb(k, i) \/ ProcessOut(k, i) \/ InMiss(k, i)
           \/ FillWaitFill(k, i) \/ ReceiveFill(k, i) \/ ReceiveNew(k, i)
    PROVE  DirtyStep
<1>1. cache' = cache
  BY Zenon DEF Retry, ProcessWb, ProcessOut, InMiss, FillWaitFill, ReceiveFill, ReceiveNew
<1>2. DirtyBut({}) /\ TypeOK
  BY <1>1, Zenon DEF DirtyBut, IInv
<1>3. CASE Retry(k, i)
  BY <1>2, <1>3, KeptDirty, Zenon DEF Retry, WbKept, Live
<1>4. CASE ProcessOut(k, i)
  <2>1. \A j \in Ids : req'[j].type = req[j].type /\ req'[j].line = req[j].line
    BY <1>2, <1>4, Zenon DEF ProcessOut, TypeOK, Request
  <2>. QED  BY <1>2, <2>1, KeptDirty, Zenon DEF WbKept, Live, Ids
<1>5. CASE \/ ProcessWb(k, i) \/ InMiss(k, i) \/ FillWaitFill(k, i)
           \/ ReceiveFill(k, i) \/ ReceiveNew(k, i)
  <2>1. PICK s \in States : req' = [req EXCEPT ![i].state = s]
    BY <1>5 DEF ProcessWb, InMiss, FillWaitFill, ReceiveFill, ReceiveNew, ToOut, States
  <2>. QED  BY <1>2, <2>1, StateKeeps, KeptDirty, Zenon
<1>. QED  BY <1>3, <1>4, <1>5, Zenon

LEMMA HitCacheKeeps ==
    ASSUME TypeOK, NEW k \in Levels, NEW i \in Ids, NEW h \in Levels, NEW x \in Lines,
           cache[h][x] = "dirty"
    PROVE  HitCache(k, i)[h][x] = "dirty"
  BY DEF TypeOK, HitCache

LEMMA InHitDirty ==
    ASSUME IInv, NEW k \in 3 .. 4, NEW i \in Ids, InHit(k, i)
    PROVE  DirtyStep
<1>1. TypeOK /\ k \in Levels
  BY DEF IInv, Levels
<1>2. DirtyBut({})
  BY <1>1, HitCacheKeeps, Zenon DEF DirtyBut, InHit
<1>3. CASE ToOut(k, i, "in", "OUT_FILL")
  <2>1. PICK s \in States : req' = [req EXCEPT ![i].state = s]
    BY <1>3, Zenon DEF ToOut, States
  <2>. QED  BY <1>1, <1>2, <2>1, StateKeeps, KeptDirty, Zenon
<1>4. CASE UNCHANGED <<queue, req>>
  BY <1>2, <1>4, KeptDirty, Zenon DEF WbKept, Live
<1>. QED  BY <1>3, <1>4 DEF InHit

\* The memory controller frees a write-back that it has.
LEMMA DramDirty ==
    ASSUME IInv, NEW i \in Ids, Dram(i)
    PROVE  DirtyStep
<1>1. TypeOK /\ DirtyBut({}) /\ i \in queue[<<MEM_MC, "net">>]
  BY DEF IInv, DirtyBut, Dram
<1>2. CASE req[i].type = "WB"
  <2>1. i \in Wbs
    BY <1>2, Zenon DEF IInv, Roles, Ids
  <2>2. \A j \in Wbs \ {i} : req'[j] = req[j]
    BY <1>1, <1>2, Zenon DEF Dram, TypeOK, Ids
  <2>3. ASSUME NEW l \in Lines, Modified(l), ~Modified(l)'
        PROVE  Retired(l)
    <3>1. req[i].line = l
      BY <1>1, <2>2, <2>3, Zenon DEF Modified, DirtyBut, Live
    <3>. QED  BY <1>1, <1>2, <2>1, <3>1, Zenon DEF Retired
  <2>. QED  BY <2>3, Zenon DEF DirtyStep
<1>3. CASE req[i].type # "WB"
  <2>1. \A j \in Ids : req'[j].type = req[j].type /\ req'[j].line = req[j].line
    BY <1>1, <1>3 DEF Dram, TypeOK, Request
  <2>. QED  BY <1>1, <2>1, KeptDirty, Zenon DEF WbKept, Live, Ids
<1>. QED  BY <1>2, <1>3, Zenon

\* The core's own actions make lines dirty and requests.
LEMMA CoreDirty ==
    ASSUME IInv, NEW l \in Lines,
           StoreHit(l) \/ \E t \in {"DFETCH", "DSTORE"}, i \in Reqs : Miss(t, l, i)
    PROVE  DirtyStep
<1>1. TypeOK /\ 1 \in Levels
  BY DEF IInv, Levels
<1>2. DirtyBut({})
  BY <1>1 DEF StoreHit, Miss, DirtyBut, TypeOK
<1>3. \A j \in Wbs : req'[j] = req[j]
  BY <1>1, ConstantsAssumption, Zenon DEF StoreHit, Miss, TypeOK, Ids
<1>. QED  BY <1>2, <1>3, KeptDirty, Zenon DEF WbKept, Live

\* One cache is filled: its victim is clean or has a write-back now, and the
\* line of a write-back is dirty there unless the cache is disabled.
LEMMA FillDirty ==
    ASSUME IInv, NEW k \in Levels, NEW i \in Ids, NEW p \in Places, i \in queue[p],
           NEW f \in Fills(k, i), NEW n \in NewWb(f.wb, {}),
           RequestsGain(i, n, f.wb, {}, NoLine), cache'[k] = f.lines,
           \A h \in Levels \ {k}, x \in Lines : cache[h][x] = "dirty" => cache'[h][x] = "dirty",
           i \in Wbs => p = <<k, "fill">>
    PROVE  DirtyStep
<1>1. Live(i) /\ req[i].line \in Lines /\ TypeOK /\ Roles(i)
  BY Located, LiveLine, Zenon DEF IInv
<1>2. /\ f.wb \in Lines \cup {NoLine}
      /\ \A x \in Lines : cache[k][x] = "dirty" => f.lines[x] = "dirty" \/ f.wb = x
      /\ k \notin disabled /\ req[i].type = "WB" => f.lines[req[i].line] = "dirty"
  BY ONLY <1>1, FillsFacts, k \in Levels, i \in Ids, f \in Fills(k, i)
<1>3. DirtyBut({f.wb, NoLine})
  BY <1>2, Zenon DEF DirtyBut
<1>4. {} \in NewWb(NoLine, n) /\ NoLine \in Lines \cup {NoLine}
  BY Zenon DEF NewWb
<1>5. ASSUME i \in Wbs
      PROVE  (\E h \in Levels : cache'[h][req[i].line] = "dirty") \/ Retired(req[i].line)
  <2>1. req[i].type = "WB" /\ i \in queue[<<k, "fill">>]
    BY <1>1, <1>5, Zenon DEF Roles, Live
  <2>. QED  BY <1>1, <1>2, <1>5, <2>1, Zenon DEF Retired
<1>. QED  BY ONLY <1>1, <1>2, <1>3, <1>4, <1>5, GainDirty, IInv, i \in Ids, n \in NewWb(f.wb, {}), Zenon,
                  RequestsGain(i, n, f.wb, {}, NoLine)

LEMMA InDoneDirty ==
    ASSUME IInv, NEW i \in Ids, InDone(i)
    PROVE  DirtyStep
<1>1. /\ 1 \in Levels /\ 2 \in Levels /\ TypeOK
      /\ <<2, "in">> \in Places /\ i \in queue[<<2, "in">>]
  BY PlaceNames DEF Levels, InDone, IInv
<1>2. i \notin Wbs
  BY <1>1, Zenon DEF IInv, Roles
<1>3. /\ HitCache(2, i) \in [Levels -> [Lines -> Marks]]
      /\ \A h \in Levels, x \in Lines : cache[h][x] = "dirty" => HitCache(2, i)[h][x] = "dirty"
  BY <1>1, HitCacheType, HitCacheKeeps
<1>4. CASE cache' = HitCache(2, i) /\ UNCHANGED <<queue, req>>
  BY <1>3, <1>4, KeptDirty DEF DirtyBut, WbKept, Live
<1>5. ASSUME NEW f \in done(i), NEW n \in NewWb(f.wb, {}),
             cache' = [HitCache(2, i) EXCEPT ![1] = f.lines],
             req' = [WithWb(req, n, f.wb) EXCEPT ![i] = Free]
      PROVE  DirtyStep
  <2>1. f \in Fills(1, i) /\ req[i].line \in Lines
    BY <1>1, DoneFacts, LiveLine, Zenon
  <2>2. f.wb \in Lines \cup {NoLine}
    BY ONLY <1>1, <2>1, FillsFacts, i \in Ids, Zenon
  <2>3. RequestsGain(i, n, f.wb, {}, NoLine)
    BY <1>5, <2>2, FreeGain, Zenon
  <2>4. /\ cache'[1] = f.lines
        /\ \A h \in Levels \ {1} : cache'[h] = HitCache(2, i)[h]
    BY ONLY <1>1, <1>3, <1>5, Zenon
  <2>5. \A h \in Levels \ {1}, x \in Lines : cache[h][x] = "dirty" => cache'[h][x] = "dirty"
    BY ONLY <1>3, <2>4, Zenon
  <2>6. cache'[1] = f.lines
    BY <2>4, Zenon
  <2>. QED  BY ONLY <1>1, <1>2, <2>1, <2>3, <2>5, <2>6, FillDirty, IInv, i \in Ids,
                    n \in NewWb(f.wb, {})
<1>. QED  BY <1>4, <1>5, Zenon DEF InDone

LEMMA FillWaitDoneDirty ==
    ASSUME IInv, NEW i \in Ids, FillWaitDone(i)
    PROVE  DirtyStep
<1>1. /\ 1 \in Levels /\ 2 \in Levels /\ TypeOK
      /\ <<2, "fill">> \in Places /\ i \in queue[<<2, "fill">>]
  BY PlaceNames DEF Levels, FillWaitDone, IInv
<1>2. i \notin Wbs
  BY Zenon DEF IInv, Roles, FillWaitDone
<1>3. SUFFICES
        ASSUME NEW g \in done(i), NEW n \in NewWb(g.wb, {}),
               cache' = [cache EXCEPT ![1] = g.lines],
               req' = [WithWb(req, n, g.wb) EXCEPT ![i] = Free]
        PROVE  DirtyStep
  BY Zenon DEF FillWaitDone
<1>4. g \in Fills(1, i) /\ req[i].line \in Lines
  BY <1>1, DoneFacts, LiveLine
<1>5. g.wb \in Lines \cup {NoLine}
  BY ONLY <1>1, <1>4, FillsFacts, i \in Ids
<1>6. RequestsGain(i, n, g.wb, {}, NoLine)
  BY <1>3, <1>5, FreeGain
<1>7. cache'[1] = g.lines /\ \A h \in Levels \ {1} : cache'[h] = cache[h]
  BY <1>1, <1>3 DEF TypeOK
<1>. QED  BY ONLY <1>1, <1>2, <1>4, <1>6, <1>7, FillDirty, IInv, i \in Ids, n \in NewWb(g.wb, {}), Zenon

\* FillL2, the line goes on to L1: both victims are written back if dirty.
LEMMA FillL2DoneDirty ==
    ASSUME IInv, NEW i \in Reqs, i \in queue[<<2, "fill">>],
           NEW f \in Fills(2, i), NEW n \in NewWb(f.wb, {}),
           NEW g \in done(i), NEW m \in NewWb(g.wb, n),
           cache' = [cache EXCEPT ![1] = g.lines, ![2] = f.lines],
           req' = [WithWb(WithWb(req, n, f.wb), m, g.wb) EXCEPT ![i] = Free]
    PROVE  DirtyStep
<1>1. /\ 1 \in Levels /\ 2 \in Levels /\ TypeOK /\ <<2, "fill">> \in Places
      /\ i \in Ids /\ i \notin Wbs
  BY PlaceNames, ConstantsAssumption DEF Levels, IInv, Ids
<1>2. g \in Fills(1, i) /\ req[i].line \in Lines /\ Live(i)
  BY <1>1, DoneFacts, LiveLine, Located
<1>3. /\ g.lines \in [Lines -> Marks] /\ g.wb \in Lines \cup {NoLine}
      /\ \A x \in Lines : cache[1][x] = "dirty" => g.lines[x] = "dirty" \/ g.wb = x
  BY ONLY <1>1, <1>2, FillsFacts
<1>4. /\ f.lines \in [Lines -> Marks] /\ f.wb \in Lines \cup {NoLine}
      /\ \A x \in Lines : cache[2][x] = "dirty" => f.lines[x] = "dirty" \/ f.wb = x
  BY ONLY <1>1, <1>2, FillsFacts, f \in Fills(2, i)
<1>5. /\ cache'[1] = g.lines /\ cache'[2] = f.lines
      /\ \A h \in Levels \ {1, 2} : cache'[h] = cache[h]
  BY <1>1 DEF TypeOK
<1>6. DirtyBut({f.wb, g.wb})
  BY ONLY <1>1, <1>3, <1>4, <1>5, Zenon DEF DirtyBut
<1>7. RequestsGain(i, n, f.wb, m, g.wb)
  <2>1. req' = [WithWb(WithWb(req, n, f.wb), m, g.wb) EXCEPT ![i] = Free]
    OBVIOUS
  <2>. QED  BY ONLY <1>1, <1>3, <1>4, <2>1, FreeGainTwo, IInv, Zenon
<1>. QED  BY ONLY <1>1, <1>2, <1>3, <1>4, <1>6, <1>7, GainDirty, IInv, Zenon,
                  n \in NewWb(f.wb, {}), m \in NewWb(g.wb, n)

\* The fills from the queue of level k that fill no other cache.
LEMMA FillQueueDirty ==
    ASSUME IInv, NEW k \in Levels, NEW i \in Ids, i \in queue[<<k, "fill">>],
           NEW f \in Fills(k, i), NEW n \in NewWb(f.wb, {}),
           cache' = [cache EXCEPT ![k] = f.lines],
           \/ req' = [WithWb(req, n, f.wb) EXCEPT ![i] = Free]
           \/ \E s \in States : Restated(i, n, f.wb, s)
    PROVE  DirtyStep
<1>1. TypeOK /\ <<k, "fill">> \in Places
  BY PlaceNames, Zenon DEF IInv
<1>2. req[i].line \in Lines /\ Live(i) /\ i \notin n
  BY <1>1, LiveLine, Located, LiveNotNew
<1>3. f.wb \in Lines \cup {NoLine}
  BY ONLY <1>1, <1>2, FillsFacts, k \in Levels, i \in Ids, f \in Fills(k, i)
<1>4. RequestsGain(i, n, f.wb, {}, NoLine)
  BY <1>2, <1>3, FreeGain, StateGain, Zenon
<1>5. cache'[k] = f.lines /\ \A h \in Levels \ {k} : cache'[h] = cache[h]
  BY <1>1, Zenon DEF TypeOK
<1>. QED  BY ONLY <1>1, <1>4, <1>5, FillDirty, IInv, i \in Ids, k \in Levels,
                  i \in queue[<<k, "fill">>], f \in Fills(k, i), n \in NewWb(f.wb, {})

LEMMA FillL2Dirty ==
    ASSUME IInv, NEW i \in Ids, FillL2(i)
    PROVE  DirtyStep
<1>1. /\ i \in queue[<<2, "fill">>] /\ 2 \in Levels
      /\ req[i].type # "WB" => i \in Reqs
  <2>1. i \in queue[<<2, "fill">>] /\ <<2, "fill">> \in Places /\ 2 \in Levels
    BY PlaceNames DEF FillL2, Levels
  <2>. QED  BY <2>1, Located, Zenon DEF IInv, Roles, Ids, Live
<1>2. SUFFICES
        ASSUME NEW f \in Fills(2, i), NEW n \in NewWb(f.wb, {}),
               \/ /\ req[i].type # "WB"
                  /\ \E g \in done(i) : \E m \in NewWb(g.wb, n) :
                       /\ cache' = [cache EXCEPT ![1] = g.lines, ![2] = f.lines]
                       /\ req' = [WithWb(WithWb(req, n, f.wb), m, g.wb) EXCEPT ![i] = Free]
               \/ /\ cache' = [cache EXCEPT ![2] = f.lines]
                  /\ Restated(i, n, f.wb, "FILL_WAIT_DONE")
               \/ /\ cache' = [cache EXCEPT ![2] = f.lines]
                  /\ req' = [WithWb(req, n, f.wb) EXCEPT ![i] = Free]
        PROVE  DirtyStep
  BY Zenon DEF FillL2, Restated
<1>3. "FILL_WAIT_DONE" \in States
  BY DEF States
<1>. QED  BY ONLY <1>1, <1>2, <1>3, FillL2DoneDirty, FillQueueDirty, IInv, i \in Ids, Zenon

LEMMA FillBelowDirty ==
    ASSUME IInv, NEW k \in 3 .. 4, NEW i \in Ids, FillBelow(k, i)
    PROVE  DirtyStep
<1>1. k \in Levels /\ i \in queue[<<k, "fill">>]
  BY DEF Levels, FillBelow
<1>2. "OUT_FILL" \in States /\ "FILL_WAIT_FILL" \in States
  BY DEF States
<1>3. SUFFICES
        ASSUME NEW f \in Fills(k, i), NEW n \in NewWb(f.wb, {}),
               cache' = [cache EXCEPT ![k] = f.lines],
               \/ req' = [WithWb(req, n, f.wb) EXCEPT ![i] = Free]
               \/ Restated(i, n, f.wb, "OUT_FILL")
               \/ Restated(i, n, f.wb, "FILL_WAIT_FILL")
        PROVE  DirtyStep
  BY Zenon DEF FillBelow, Restated
<1>. QED  BY <1>1, <1>2, <1>3, FillQueueDirty, Zenon

LEMMA NextDirty ==
    ASSUME IInv, Next
    PROVE  DirtyStep
<1>1. ASSUME NEW i \in Ids, Step(i)
      PROVE  DirtyStep
  BY <1>1, MoveDirty, InHitDirty, InDoneDirty, FillL2Dirty, FillWaitDoneDirty,
     FillBelowDirty, DramDirty DEF Step
<1>. QED  BY <1>1, CoreDirty DEF Next

\* When the input queues below L2 hold every request of the core, a live
\* request is in exactly one queue or router and a freed one in none: the
\* pushes, pops and packets of dcu_c neither lose nor duplicate a request.
THEOREM RequestsInOnePlace == LargeInputs => (Spec => []InOnePlace)
<1>1. IInv => InOnePlace
  BY OnePlaceCounts, Zenon DEF IInv
<1>. QED  BY <1>1, Invariance, PTL

\* Under the same condition, the ASSERT(0) behind the push of a victim on a
\* write-back queue is never reached, whatever the queue sizes.
THEOREM VictimsAlwaysFit == LargeInputs => (Spec => []WbNeverRejected)
<1>1. IInv => WbNeverRejected
  BY DEF IInv
<1>. QED  BY <1>1, Invariance, PTL

\* Under the same condition, the last trace of a store, a dirty line or a
\* write-back under way, is lost only where a write-back is retired by memory
\* or taken for filled by a disabled cache.
THEOREM StoresSurvive == LargeInputs => (Spec => DirtyUntilRetired)
<1>. SUFFICES ASSUME LargeInputs
              PROVE  Spec => DirtyUntilRetired
  OBVIOUS
<1>1. Spec => []IInv
  BY Invariance, Zenon
<1>2. IInv /\ [Next]_vars => [DirtyStep]_vars
  BY NextDirty, Zenon
<1>3. Spec => [][DirtyStep]_vars
  BY <1>1, <1>2, PTL DEF Spec
<1>. QED  BY <1>3, Zenon DEF DirtyUntilRetired, DirtyStep
============================================================================
