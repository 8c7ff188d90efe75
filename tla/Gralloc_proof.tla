---------------------------- MODULE Gralloc_proof -----------------------------
(***************************************************************************)
(* Proofs about Gralloc, for every set of addresses, buffer objects, usages*)
(* and formats.                                                            *)
(***************************************************************************)
EXTENDS Gralloc, WellFoundedInduction, TLAPS

-------------------------------------------------------------------------------
(* The inductive invariant.                                                *)

BoType == [alive : BOOLEAN, handle : Handles \cup {Absent}, user_data : BOOLEAN,
           lock_count : Nat, locked_for : SUBSET UsageBits, map_data : BOOLEAN]

\* An address without a handle has no buffer object.
HandleInv == \A h \in Handles : hnd[h].of = "none" => ~Registered(h)

\* What a buffer object and its bo_data_t hold: a mapping is that of the only
\* lock.
GoodData(data) ==
  /\ ~data.user_data => data.lock_count = 0
  /\ data.lock_count = 0 => data.locked_for = {}
  /\ data.map_data <=> data.locked_for \cap SwBits # {}
  /\ data.map_data => data.lock_count = 1

DataInv == \A b \in Bos : GoodData(bo[b]) /\ (bo[b].alive => bo[b].handle \in Handles)

\* What clients hold of a registered handle is what its buffer object counts.
GrantInv ==
  \A h \in Handles :
    /\ Registered(h) => bo[map[h]].lock_count = granted[h].sw + granted[h].hw + leaked[h]
    /\ ~Registered(h) => granted[h] = NoGrant /\ leaked[h] = 0
    /\ granted[h].sw > 0 => Registered(h) /\ bo[map[h]].map_data

IInv == TypeOK /\ EntriesLive /\ LostOnlyToNull /\ HandleInv /\ DataInv /\ GrantInv

-------------------------------------------------------------------------------
(* The parts of the calls.                                                 *)

\* A process that starts satisfies the invariant, the first time and again.
LEMMA InitInv == Init => IInv
<1> SUFFICES ASSUME Init PROVE IInv
  OBVIOUS
<1>1. TypeOK
  <2>1. bo \in [Bos -> BoType]
    BY DEF Init, NoBo, BoType
  <2>2. hnd \in [Handles -> [of : {"none", "alloc", "client"}, usage : SUBSET UsageBits,
                           format : Formats \cup {"none"}]]
    BY DEF Init, NoHandle
  <2> QED BY <2>1, <2>2 DEF Init, TypeOK, NoGrant, BoType
<1>2. \A h \in Handles : ~Registered(h)
  BY NameAssumption DEF Init, Registered
<1>3. EntriesLive /\ HandleInv
  BY <1>2 DEF EntriesLive, HandleInv
<1>4. LostOnlyToNull /\ DataInv
  BY DEF Init, LostOnlyToNull, DataInv, GoodData, NoBo
<1>5. \A h \in Handles : granted[h] = NoGrant /\ ~(granted[h].sw > 0) /\ leaked[h] = 0
  <2> SUFFICES ASSUME NEW h \in Handles
               PROVE  granted[h] = NoGrant /\ ~(granted[h].sw > 0) /\ leaked[h] = 0
    OBVIOUS
  <2>1. granted[h] = NoGrant /\ leaked[h] = 0
    BY DEF Init
  <2> QED BY <2>1 DEF NoGrant
<1>6. GrantInv
  BY <1>2, <1>5, Zenon DEF GrantInv
<1> QED BY <1>1, <1>3, <1>4, <1>6 DEF IInv

LEMMA DieInv == Die => IInv'
<1> SUFFICES ASSUME Die PROVE IInv'
  OBVIOUS
<1>1. TypeOK'
  <2>1. bo' \in [Bos -> BoType]
    BY DEF Die, NoBo, BoType
  <2>2. hnd' \in [Handles -> [of : {"none", "alloc", "client"}, usage : SUBSET UsageBits,
                           format : Formats \cup {"none"}]]
    BY DEF Die, NoHandle
  <2> QED BY <2>1, <2>2 DEF Die, TypeOK, NoGrant, BoType
<1>2. \A h \in Handles : ~Registered(h)'
  BY NameAssumption DEF Die, Registered
<1>3. EntriesLive' /\ HandleInv'
  BY <1>2 DEF EntriesLive, HandleInv
<1>4. LostOnlyToNull' /\ DataInv'
  BY DEF Die, LostOnlyToNull, DataInv, GoodData, NoBo
<1>5. GrantInv'
  BY <1>2 DEF Die, GrantInv, NoGrant
<1> QED BY <1>1, <1>3, <1>4, <1>5 DEF IInv

\* gbm_free keeps everything but what says that a handle has its object.
LEMMA FreeInv ==
  ASSUME IInv, NEW h \in Handles, GbmFree(h)
  PROVE  /\ map' \in [Handles -> Bos \cup {Null, Absent}]
         /\ bo' \in [Bos -> BoType]
         /\ granted' \in [Handles -> [sw : Nat, hw : Nat]]
         /\ leaked' \in [Handles -> Nat]
         /\ ~Registered(h)' /\ \A g \in Handles \ {h} : map'[g] = map[g]
         /\ EntriesLive' /\ LostOnlyToNull' /\ DataInv' /\ GrantInv'
<1>1. TypeOK /\ EntriesLive /\ LostOnlyToNull /\ DataInv /\ GrantInv
  BY DEF IInv
<1>2. map' \in [Handles -> Bos \cup {Null, Absent}]
  BY <1>1 DEF GbmFree, LookedUp, TypeOK
<1>3. granted' = [granted EXCEPT ![h] = NoGrant] /\ granted' \in [Handles -> [sw : Nat, hw : Nat]]
  BY <1>1 DEF GbmFree, TypeOK, NoGrant
<1>4. leaked' = [leaked EXCEPT ![h] = 0] /\ leaked' \in [Handles -> Nat]
  BY <1>1 DEF GbmFree, TypeOK
<1>5. NoBo \in BoType
  BY DEF NoBo, BoType
<1>6. bo' \in [Bos -> BoType]
  BY <1>1, <1>5 DEF GbmFree, TypeOK, BoType
<1>7. map'[h] \in {Null, Absent} /\ \A g \in Handles \ {h} : map'[g] = map[g]
  BY <1>1 DEF GbmFree, LookedUp, TypeOK, Registered
<1>8. \A b \in Bos : bo'[b] = IF Registered(h) /\ b = map[h] THEN NoBo ELSE bo[b]
  BY <1>1 DEF GbmFree, TypeOK, Registered
<1>9. \A g \in Handles \ {h} : map[g] \in Bos => bo'[map[g]] = bo[map[g]]
  BY <1>1, <1>8 DEF EntriesLive, Registered
<1>10. EntriesLive'
  BY <1>1, <1>7, <1>9, NameAssumption DEF EntriesLive, Registered
<1>11. LostOnlyToNull'
  <2> SUFFICES ASSUME NEW b \in Bos, bo'[b].alive PROVE map'[bo'[b].handle] \in {b, Null}
    BY DEF LostOnlyToNull
  <2>1. bo'[b] = bo[b] /\ ~(Registered(h) /\ b = map[h])
    BY <1>8 DEF NoBo
  <2>2. map[bo[b].handle] \in {b, Null}
    BY <1>1, <2>1 DEF LostOnlyToNull
  <2>3. CASE bo[b].handle = h
    BY <1>1, <2>1, <2>2, <2>3, NameAssumption DEF GbmFree, LookedUp, TypeOK, Registered
  <2>4. CASE bo[b].handle # h
    <3>1. bo[b].handle \in Handles
      BY <1>1, <2>1 DEF DataInv
    <3> QED BY <1>1, <1>7, <2>1, <2>2, <2>4, <3>1
  <2> QED BY <2>3, <2>4
<1>12. DataInv'
  BY <1>1, <1>8 DEF DataInv, GoodData, NoBo
<1>13. GrantInv'
  <2> SUFFICES ASSUME NEW g \in Handles
               PROVE  /\ Registered(g)' => bo'[map'[g]].lock_count
                                           = granted'[g].sw + granted'[g].hw + leaked'[g]
                      /\ ~Registered(g)' => granted'[g] = NoGrant /\ leaked'[g] = 0
                      /\ granted'[g].sw > 0 => Registered(g)' /\ bo'[map'[g]].map_data
    BY DEF GrantInv
  <2>1. CASE g = h
    BY <1>1, <1>3, <1>4, <1>7, <2>1, NameAssumption DEF Registered, NoGrant, TypeOK
  <2>2. CASE g # h
    <3>1. map'[g] = map[g] /\ granted'[g] = granted[g] /\ leaked'[g] = leaked[g]
      BY <1>1, <1>3, <1>4, <1>7, <2>2 DEF TypeOK
    <3>2. map[g] \in Bos => bo'[map[g]] = bo[map[g]]
      BY <1>9, <2>2
    <3> QED BY <1>1, <3>1, <3>2 DEF GrantInv, Registered
  <2> QED BY <2>1, <2>2
<1> QED BY <1>2, <1>3, <1>4, <1>6, <1>7, <1>10, <1>11, <1>12, <1>13, NameAssumption DEF Registered

\* A new buffer object at an address without one. If the address has no entry
\* it gets one, else it keeps the null one.
LEMMA NewBoInv ==
  ASSUME IInv, NEW h \in Handles, NEW b \in Bos, ~bo[b].alive, ~Registered(h),
         bo' = [bo EXCEPT ![b] = [NoBo EXCEPT !.alive = TRUE, !.handle = h]],
         map' = [map EXCEPT ![h] = IF map[h] = Absent THEN b ELSE map[h]],
         UNCHANGED <<granted, leaked>>
  PROVE  /\ map' \in [Handles -> Bos \cup {Null, Absent}]
         /\ bo' \in [Bos -> BoType]
         /\ \A g \in Handles \ {h} : map'[g] = map[g]
         /\ EntriesLive' /\ LostOnlyToNull' /\ DataInv' /\ GrantInv'
<1>1. TypeOK /\ EntriesLive /\ LostOnlyToNull /\ DataInv /\ GrantInv
  BY DEF IInv
<1> DEFINE new == [NoBo EXCEPT !.alive = TRUE, !.handle = h]
<1>2. /\ new \in BoType
      /\ new.alive /\ new.handle = h /\ ~new.user_data /\ new.lock_count = 0
      /\ new.locked_for = {} /\ ~new.map_data
  BY DEF NoBo, BoType
<1>3. bo'[b] = new /\ \A c \in Bos \ {b} : bo'[c] = bo[c]
  BY <1>1 DEF TypeOK
<1> HIDE DEF new
<1>4. map' \in [Handles -> Bos \cup {Null, Absent}]
  BY <1>1 DEF TypeOK
<1>5. bo' \in [Bos -> BoType]
  BY <1>1, <1>2 DEF TypeOK, BoType, new
<1>6. map'[h] \in {b, Null} /\ \A g \in Handles \ {h} : map'[g] = map[g]
  BY <1>1 DEF TypeOK, Registered
<1>7. \A g \in Handles \ {h} : map[g] \in Bos => map[g] # b /\ bo'[map[g]] = bo[map[g]]
  BY <1>1, <1>3 DEF EntriesLive, Registered
<1>8. EntriesLive'
  <2> SUFFICES ASSUME NEW g \in Handles, map'[g] \in Bos
               PROVE  bo'[map'[g]].alive /\ bo'[map'[g]].handle = g
    BY DEF EntriesLive, Registered
  <2>1. CASE g = h
    BY <1>2, <1>3, <1>6, <2>1, NameAssumption
  <2>2. CASE g # h
    BY <1>1, <1>6, <1>7, <2>2 DEF EntriesLive, Registered
  <2> QED BY <2>1, <2>2
<1>9. LostOnlyToNull'
  <2> SUFFICES ASSUME NEW c \in Bos, bo'[c].alive PROVE map'[bo'[c].handle] \in {c, Null}
    BY DEF LostOnlyToNull
  <2>1. CASE c = b
    BY <1>2, <1>3, <1>6, <2>1
  <2>2. CASE c # b
    <3>1. bo'[c] = bo[c] /\ bo[c].handle \in Handles /\ map[bo[c].handle] \in {c, Null}
      BY <1>1, <1>3, <2>2 DEF LostOnlyToNull, DataInv
    <3>2. CASE bo[c].handle = h
      BY <3>1, <3>2, <1>1, NameAssumption DEF Registered, TypeOK
    <3>3. CASE bo[c].handle # h
      BY <3>1, <3>3, <1>6
    <3> QED BY <3>2, <3>3
  <2> QED BY <2>1, <2>2
<1>10. DataInv'
  BY ZenonT(40), <1>1, <1>2, <1>3 DEF DataInv, GoodData
<1>11. GrantInv'
  <2> SUFFICES ASSUME NEW g \in Handles
               PROVE  /\ Registered(g)' => bo'[map'[g]].lock_count
                                           = granted[g].sw + granted[g].hw + leaked[g]
                      /\ ~Registered(g)' => granted[g] = NoGrant /\ leaked[g] = 0
                      /\ granted[g].sw > 0 => Registered(g)' /\ bo'[map'[g]].map_data
    BY DEF GrantInv
  <2>1. CASE g = h
    <3>1. granted[h] = NoGrant /\ leaked[h] = 0 /\ granted[h].sw = 0 /\ granted[h].hw = 0
      BY <1>1 DEF GrantInv, NoGrant
    <3>2. CASE map'[h] = b
      <4>1. bo'[map'[h]].lock_count = 0
        BY <1>2, <1>3, <3>2
      <4> QED BY <2>1, <3>1, <3>2, <4>1 DEF Registered
    <3>3. CASE map'[h] = Null
      BY <2>1, <3>1, <3>3, NameAssumption DEF Registered
    <3> QED BY <1>6, <3>2, <3>3
  <2>2. CASE g # h
    BY <1>1, <1>6, <1>7, <2>2 DEF GrantInv, Registered
  <2> QED BY <2>1, <2>2
<1> QED BY <1>4, <1>5, <1>6, <1>8, <1>9, <1>10, <1>11

\* The data of one registered handle's buffer object changes with the grants of
\* that handle, and operator[] may leave null entries.
LEMMA DataStep ==
  ASSUME IInv, NEW h \in Handles, Registered(h), NEW data \in BoType,
         data.alive = bo[map[h]].alive, data.handle = bo[map[h]].handle,
         GoodData(data),
         bo' = [bo EXCEPT ![map[h]] = data],
         map' = LookedUp(h),
         NEW sw \in Nat, NEW hw \in Nat, NEW lost \in Nat,
         granted' = [granted EXCEPT ![h] = [sw |-> sw, hw |-> hw]],
         leaked' = [leaked EXCEPT ![h] = lost],
         data.lock_count = sw + hw + lost,
         sw > 0 => data.map_data,
         UNCHANGED <<gbm, opened, hnd>>
  PROVE  IInv'
<1>1. TypeOK /\ EntriesLive /\ LostOnlyToNull /\ HandleInv /\ DataInv /\ GrantInv
  BY DEF IInv
<1>2. map' = map
  BY <1>1, NameAssumption DEF LookedUp, Registered, TypeOK
<1>3. bo'[map[h]] = data /\ \A c \in Bos \ {map[h]} : bo'[c] = bo[c]
  BY <1>1 DEF TypeOK, Registered
<1>4. TypeOK'
  BY <1>1, <1>2 DEF TypeOK, Registered, BoType
<1>5. \A g \in Handles \ {h} : map[g] \in Bos => bo'[map[g]] = bo[map[g]]
  BY <1>1, <1>3 DEF EntriesLive, Registered
<1>6. EntriesLive'
  BY <1>1, <1>2, <1>3 DEF EntriesLive, Registered
<1>7. LostOnlyToNull'
  BY <1>1, <1>2, <1>3 DEF LostOnlyToNull, Registered
<1>8. HandleInv'
  BY <1>1, <1>2 DEF HandleInv, Registered
<1>9. DataInv'
  <2> SUFFICES ASSUME NEW c \in Bos
               PROVE  GoodData(bo'[c]) /\ (bo'[c].alive => bo'[c].handle \in Handles)
    BY DEF DataInv
  <2>1. CASE c = map[h]
    BY <1>1, <1>3, <2>1 DEF DataInv
  <2>2. CASE c # map[h]
    BY <1>1, <1>3, <2>2 DEF DataInv
  <2> QED BY <2>1, <2>2
<1>10. GrantInv'
  <2> SUFFICES ASSUME NEW g \in Handles
               PROVE  /\ Registered(g) => bo'[map[g]].lock_count
                                           = granted'[g].sw + granted'[g].hw + leaked'[g]
                      /\ ~Registered(g) => granted'[g] = NoGrant /\ leaked'[g] = 0
                      /\ granted'[g].sw > 0 => Registered(g) /\ bo'[map[g]].map_data
    BY <1>2 DEF GrantInv, Registered
  <2>1. CASE g = h
    <3>1. granted'[h] = [sw |-> sw, hw |-> hw] /\ leaked'[h] = lost
      BY <1>1 DEF TypeOK
    <3> QED BY <1>3, <2>1, <3>1
  <2>2. CASE g # h
    <3>1. granted'[g] = granted[g] /\ leaked'[g] = leaked[g]
      BY <1>1, <2>2 DEF TypeOK
    <3> QED BY <1>1, <1>5, <2>2, <3>1 DEF GrantInv, Registered
  <2> QED BY <2>1, <2>2
<1> QED BY <1>4, <1>6, <1>7, <1>8, <1>9, <1>10 DEF IInv

\* A call on a handle that is not registered: at most a null entry.
LEMMA LookedUpInv ==
  ASSUME IInv, NEW h \in Handles, hnd[h].of # "none", ~Registered(h), map' = LookedUp(h),
         UNCHANGED <<gbm, opened, hnd, bo, granted, leaked>>
  PROVE  IInv'
<1>1. TypeOK /\ EntriesLive /\ LostOnlyToNull /\ HandleInv /\ DataInv /\ GrantInv
  BY DEF IInv
<1>2. /\ map' \in [Handles -> Bos \cup {Null, Absent}]
      /\ ~Registered(h)' /\ map'[h] = Null
      /\ \A g \in Handles \ {h} : map'[g] = map[g]
  BY <1>1, NameAssumption DEF TypeOK, LookedUp, Registered
<1>3. TypeOK'
  BY <1>1, <1>2 DEF TypeOK
<1>4. \A g \in Handles : (Registered(g)' <=> Registered(g)) /\ (Registered(g) => map'[g] = map[g])
  BY <1>2 DEF Registered
<1>5. EntriesLive'
  BY <1>1, <1>4 DEF EntriesLive
<1>6. LostOnlyToNull'
  BY <1>1, <1>2 DEF LostOnlyToNull, DataInv
<1>7. HandleInv' /\ DataInv'
  BY <1>1, <1>4 DEF HandleInv, DataInv
<1>8. GrantInv'
  BY <1>1, <1>4 DEF GrantInv
<1> QED BY <1>3, <1>5, <1>6, <1>7, <1>8 DEF IInv

-------------------------------------------------------------------------------
(* The calls.                                                              *)

LEMMA OpenInv == IInv /\ (Open \/ Close) => IInv'
<1> SUFFICES ASSUME IInv, Open \/ Close PROVE IInv'
  OBVIOUS
<1>1. UNCHANGED <<hnd, map, bo, granted, leaked>> /\ gbm' \in {"null", "live", "destroyed"}
      /\ opened' \in BOOLEAN
  BY DEF Open, Close, GbmInit, IInv, TypeOK
<1>2. TypeOK' /\ EntriesLive' /\ LostOnlyToNull'
  BY <1>1 DEF IInv, TypeOK, EntriesLive, LostOnlyToNull, Registered
<1>3. HandleInv' /\ DataInv' /\ GrantInv'
  BY <1>1 DEF IInv, HandleInv, DataInv, GrantInv, Registered
<1> QED BY <1>2, <1>3 DEF IInv

LEMMA AllocInv ==
  ASSUME IInv, NEW h \in Handles, NEW usage \in Usages, NEW format \in Formats,
         Alloc(h, usage, format)
  PROVE  IInv'
<1>1. ~Registered(h) /\ TypeOK
  BY DEF IInv, HandleInv, Alloc
<1>2. PICK b \in Bos : /\ ~bo[b].alive
                       /\ bo' = [bo EXCEPT ![b] = [NoBo EXCEPT !.alive = TRUE, !.handle = h]]
                       /\ map' = [map EXCEPT ![h] = IF map[h] = Absent THEN b ELSE map[h]]
  BY DEF Alloc
<1>3. UNCHANGED <<gbm, opened, granted, leaked>>
  BY DEF Alloc
<1>4. /\ map' \in [Handles -> Bos \cup {Null, Absent}]
      /\ bo' \in [Bos -> BoType]
      /\ \A g \in Handles \ {h} : map'[g] = map[g]
      /\ EntriesLive' /\ LostOnlyToNull' /\ DataInv' /\ GrantInv'
  BY <1>1, <1>2, <1>3, NewBoInv
<1>5. hnd' = [hnd EXCEPT ![h] = [of |-> "alloc", usage |-> usage, format |-> format]]
  BY DEF Alloc
<1>6. TypeOK'
  BY <1>1, <1>3, <1>4, <1>5, UsageAssumption DEF TypeOK, BoType
<1>7. HandleInv'
  BY <1>1, <1>4, <1>5 DEF IInv, HandleInv, TypeOK, Registered
<1> QED BY <1>4, <1>6, <1>7 DEF IInv

LEMMA ReleaseInv ==
  ASSUME IInv, NEW h \in Handles, Free(h) \/ Unregister(h)
  PROVE  IInv'
<1>1. GbmFree(h) /\ UNCHANGED <<gbm, opened>> /\ hnd' \in {hnd, [hnd EXCEPT ![h] = NoHandle]}
  BY DEF Free, Unregister
<1>2. /\ map' \in [Handles -> Bos \cup {Null, Absent}]
      /\ bo' \in [Bos -> BoType]
      /\ granted' \in [Handles -> [sw : Nat, hw : Nat]]
      /\ leaked' \in [Handles -> Nat]
      /\ ~Registered(h)' /\ \A g \in Handles \ {h} : map'[g] = map[g]
      /\ EntriesLive' /\ LostOnlyToNull' /\ DataInv' /\ GrantInv'
  BY <1>1, FreeInv
<1>3. hnd' \in [Handles -> [of : {"none", "alloc", "client"}, usage : SUBSET UsageBits,
                           format : Formats \cup {"none"}]]
  BY <1>1 DEF IInv, TypeOK, NoHandle
<1>4. TypeOK'
  BY <1>1, <1>2, <1>3 DEF TypeOK, IInv, BoType
<1>5. HandleInv'
  BY <1>1, <1>2 DEF IInv, HandleInv, TypeOK, Registered, NoHandle
<1> QED BY <1>2, <1>4, <1>5 DEF IInv

LEMMA CloneInv ==
  ASSUME IInv, NEW h \in Handles,
         DeleteClone(h) \/ \E usage \in Usages, format \in Formats : Clone(h, usage, format)
  PROVE  IInv'
<1>1. UNCHANGED <<gbm, opened, map, bo, granted, leaked>> /\ ~Registered(h)
  BY DEF DeleteClone, Clone, IInv, HandleInv
<1>2. PICK new \in [of : {"none", "alloc", "client"}, usage : SUBSET UsageBits,
                    format : Formats \cup {"none"}] : hnd' = [hnd EXCEPT ![h] = new]
  BY UsageAssumption DEF DeleteClone, Clone, NoHandle
<1>3. TypeOK' /\ HandleInv'
  BY <1>1, <1>2 DEF IInv, TypeOK, HandleInv, Registered
<1>4. EntriesLive' /\ LostOnlyToNull' /\ DataInv' /\ GrantInv'
  BY <1>1 DEF IInv, EntriesLive, LostOnlyToNull, DataInv, GrantInv, Registered
<1> QED BY <1>3, <1>4 DEF IInv

LEMMA RegisterInv ==
  ASSUME IInv, NEW h \in Handles, Register(h)
  PROVE  IInv'
<1>1. /\ hnd[h].of # "none" /\ UNCHANGED <<opened, hnd, granted, leaked>>
      /\ gbm' \in {"null", "live", "destroyed"}
  BY DEF Register, GbmInit, IInv, TypeOK
<1>2. CASE map[h] = Absent
  <2>1. ~Registered(h)
    BY <1>2, NameAssumption DEF Registered
  <2>2. PICK b \in Bos : /\ ~bo[b].alive
                         /\ bo' = [bo EXCEPT ![b] = [NoBo EXCEPT !.alive = TRUE, !.handle = h]]
                         /\ map' = [map EXCEPT ![h] = IF map[h] = Absent THEN b ELSE map[h]]
    BY <1>2 DEF Register
  <2>3. /\ map' \in [Handles -> Bos \cup {Null, Absent}]
        /\ bo' \in [Bos -> BoType]
        /\ \A g \in Handles \ {h} : map'[g] = map[g]
        /\ EntriesLive' /\ LostOnlyToNull' /\ DataInv' /\ GrantInv'
    BY <1>1, <2>1, <2>2, NewBoInv
  <2>4. TypeOK'
    BY <1>1, <2>3 DEF IInv, TypeOK, BoType
  <2>5. HandleInv'
    BY <1>1, <2>3 DEF IInv, HandleInv, Registered
  <2> QED BY <2>3, <2>4, <2>5 DEF IInv
<1>3. CASE map[h] # Absent
  <2>1. UNCHANGED <<bo, map>>
    BY <1>3 DEF Register
  <2>2. TypeOK' /\ EntriesLive' /\ LostOnlyToNull'
    BY <1>1, <2>1 DEF IInv, TypeOK, EntriesLive, LostOnlyToNull, Registered
  <2>3. HandleInv' /\ DataInv' /\ GrantInv'
    BY <1>1, <2>1 DEF IInv, HandleInv, DataInv, GrantInv, Registered
  <2> QED BY <2>2, <2>3 DEF IInv
<1> QED BY <1>2, <1>3

\* What holds of the data of a registered handle before a lock or an unlock.
LEMMA DataFacts ==
  ASSUME IInv, NEW h \in Handles, Registered(h)
  PROVE  /\ bo[map[h]] \in BoType /\ GoodData(bo[map[h]])
         /\ bo[map[h]].lock_count = granted[h].sw + granted[h].hw + leaked[h]
         /\ granted[h].sw > 0 => bo[map[h]].map_data
         /\ granted[h].sw \in Nat /\ granted[h].hw \in Nat /\ leaked[h] \in Nat
BY DEF IInv, TypeOK, DataInv, GrantInv, Registered, BoType

\* One way to write a change of the grants of a handle.
LEMMA GrantForms ==
  ASSUME granted \in [Handles -> [sw : Nat, hw : Nat]], NEW h \in Handles, NEW n
  PROVE  /\ granted = [granted EXCEPT ![h] = [sw |-> granted[h].sw, hw |-> granted[h].hw]]
         /\ [granted EXCEPT ![h].sw = n]
            = [granted EXCEPT ![h] = [sw |-> n, hw |-> granted[h].hw]]
         /\ [granted EXCEPT ![h].hw = n]
            = [granted EXCEPT ![h] = [sw |-> granted[h].sw, hw |-> n]]
<1>1. granted[h] = [sw |-> granted[h].sw, hw |-> granted[h].hw]
  OBVIOUS
<1>2. [granted[h] EXCEPT !.sw = n] = [sw |-> n, hw |-> granted[h].hw]
  BY <1>1
<1>3. [granted[h] EXCEPT !.hw = n] = [sw |-> granted[h].sw, hw |-> n]
  BY <1>1
<1> QED BY <1>1, <1>2, <1>3

LEMMA LockInv ==
  ASSUME IInv, NEW h \in Handles, NEW usage \in Usages, NEW ycbcr \in BOOLEAN,
         Lock(h, usage, ycbcr)
  PROVE  IInv'
<1> DEFINE old == bo[map[h]]
           sw == granted[h].sw
           hw == granted[h].hw
           lost == leaked[h]
<1>1. hnd[h].of # "none" /\ map' = LookedUp(h) /\ UNCHANGED <<gbm, opened, hnd>>
  BY DEF Lock
<1>2. granted \in [Handles -> [sw : Nat, hw : Nat]] /\ leaked \in [Handles -> Nat]
  BY DEF IInv, TypeOK
<1>3. CASE UNCHANGED <<bo, granted, leaked>>
  <2>1. CASE Registered(h)
    <3>1. map' = map
      BY <1>1, <2>1, NameAssumption DEF LookedUp, Registered, IInv, TypeOK
    <3>2. TypeOK' /\ EntriesLive' /\ LostOnlyToNull'
      BY <1>1, <1>3, <3>1 DEF IInv, TypeOK, EntriesLive, LostOnlyToNull, Registered
    <3>3. HandleInv' /\ DataInv' /\ GrantInv'
      BY <1>1, <1>3, <3>1 DEF IInv, HandleInv, DataInv, GrantInv, Registered
    <3> QED BY <3>2, <3>3 DEF IInv
  <2>2. CASE ~Registered(h)
    BY <1>1, <1>3, <2>2, LookedUpInv
  <2> QED BY <2>1, <2>2
<1>4. CASE /\ Registered(h)
           /\ bo' = [bo EXCEPT ![map[h]] = Refused(old, usage)]
           /\ UNCHANGED <<granted, leaked>>
  <2>1. /\ old \in BoType /\ GoodData(old) /\ old.lock_count = sw + hw + lost
        /\ sw > 0 => old.map_data
        /\ sw \in Nat /\ hw \in Nat /\ lost \in Nat
    BY <1>4, DataFacts
  <2> HIDE DEF old, sw, hw, lost
  <2> DEFINE data == Refused(old, usage)
  <2>2. /\ data \in BoType /\ data.user_data /\ data.alive = old.alive /\ data.handle = old.handle
        /\ data.lock_count = old.lock_count /\ data.locked_for = old.locked_for
        /\ data.map_data = old.map_data
    BY <2>1 DEF Refused, BoType
  <2>3. bo' = [bo EXCEPT ![map[h]] = data]
    BY <1>4 DEF old
  <2> HIDE DEF data
  <2>4. GoodData(data)
    BY <2>1, <2>2 DEF GoodData
  <2>5. /\ granted' = [granted EXCEPT ![h] = [sw |-> sw, hw |-> hw]]
        /\ leaked' = [leaked EXCEPT ![h] = lost]
    BY <1>2, <1>4, GrantForms DEF sw, hw, lost
  <2>6. data.lock_count = sw + hw + lost /\ (sw > 0 => data.map_data)
    BY <2>1, <2>2
  <2>7. data.alive = bo[map[h]].alive /\ data.handle = bo[map[h]].handle
    BY <2>2 DEF old
  <2> QED BY <1>1, <1>4, <2>1, <2>2, <2>3, <2>4, <2>5, <2>6, <2>7, DataStep
<1>5. CASE /\ Registered(h) /\ Compatible(old, usage) /\ Maps(old, usage)
           /\ bo' = [bo EXCEPT ![map[h]] = Locked(old, usage)]
           /\ \/ leaked' = [leaked EXCEPT ![h] = @ + 1] /\ UNCHANGED granted
              \/ /\ granted' = IF usage \cap SwBits # {} THEN [granted EXCEPT ![h].sw = @ + 1]
                               ELSE [granted EXCEPT ![h].hw = @ + 1]
                 /\ UNCHANGED leaked
  <2>1. /\ old \in BoType /\ GoodData(old) /\ old.lock_count = sw + hw + lost
        /\ sw > 0 => old.map_data
        /\ sw \in Nat /\ hw \in Nat /\ lost \in Nat
    BY <1>5, DataFacts
  <2> HIDE DEF old, sw, hw, lost
  <2> DEFINE data == Locked(old, usage)
  <2>2. /\ data \in BoType /\ data.user_data /\ data.alive = old.alive /\ data.handle = old.handle
        /\ data.lock_count = old.lock_count + 1 /\ data.locked_for = usage \cup old.locked_for
        /\ data.map_data <=> old.map_data \/ (usage \cup old.locked_for) \cap SwBits # {}
    <3> DEFINE all == usage \cup old.locked_for
               mapped == old.map_data \/ all \cap SwBits # {}
    <3>1. data = [old EXCEPT !.user_data = TRUE, !.lock_count = old.lock_count + 1,
                             !.locked_for = all, !.map_data = mapped]
      BY <2>1 DEF Locked, BoType
    <3>2. mapped \in BOOLEAN /\ all \in SUBSET UsageBits /\ old.lock_count + 1 \in Nat
      BY <2>1, UsageAssumption DEF BoType
    <3> HIDE DEF data, mapped, all
    <3>3. /\ data \in BoType /\ data.user_data /\ data.alive = old.alive
          /\ data.handle = old.handle /\ data.lock_count = old.lock_count + 1
          /\ data.locked_for = all /\ data.map_data = mapped
      BY <2>1, <3>1, <3>2 DEF BoType
    <3> QED BY <3>3 DEF mapped, all
  <2>3. bo' = [bo EXCEPT ![map[h]] = data] /\ Compatible(old, usage) /\ Maps(old, usage)
    BY <1>5 DEF old
  <2> HIDE DEF data
  <2> SUFFICES ASSUME NEW newSw \in Nat, NEW newHw \in Nat, NEW newLost \in Nat,
                      granted' = [granted EXCEPT ![h] = [sw |-> newSw, hw |-> newHw]],
                      leaked' = [leaked EXCEPT ![h] = newLost],
                      newSw + newHw + newLost = sw + hw + lost + 1,
                      newSw > sw => usage \cap SwBits # {}
               PROVE  IInv'
    <3>1. CASE leaked' = [leaked EXCEPT ![h] = @ + 1] /\ UNCHANGED granted
      <4>1. granted' = [granted EXCEPT ![h] = [sw |-> sw, hw |-> hw]]
            /\ leaked' = [leaked EXCEPT ![h] = lost + 1]
        BY <1>2, <3>1, GrantForms DEF sw, hw, lost
      <4>2. sw + hw + (lost + 1) = sw + hw + lost + 1 /\ lost + 1 \in Nat /\ ~(sw > sw)
        BY <2>1
      <4> QED BY <2>1, <4>1, <4>2
    <3>2. CASE usage \cap SwBits # {} /\ granted' = [granted EXCEPT ![h].sw = @ + 1]
               /\ UNCHANGED leaked
      <4>1. granted' = [granted EXCEPT ![h] = [sw |-> sw + 1, hw |-> hw]]
            /\ leaked' = [leaked EXCEPT ![h] = lost]
        BY <1>2, <3>2, GrantForms DEF sw, hw, lost
      <4>2. (sw + 1) + hw + lost = sw + hw + lost + 1 /\ sw + 1 \in Nat
        BY <2>1
      <4> QED BY <2>1, <3>2, <4>1, <4>2
    <3>3. CASE granted' = [granted EXCEPT ![h].hw = @ + 1] /\ UNCHANGED leaked
      <4>1. granted' = [granted EXCEPT ![h] = [sw |-> sw, hw |-> hw + 1]]
            /\ leaked' = [leaked EXCEPT ![h] = lost]
        BY <1>2, <3>3, GrantForms DEF sw, hw, lost
      <4>2. sw + (hw + 1) + lost = sw + hw + lost + 1 /\ hw + 1 \in Nat /\ ~(sw > sw)
        BY <2>1
      <4> QED BY <2>1, <4>1, <4>2
    <3> QED BY <1>5, <3>1, <3>2, <3>3
  <2>4. ~old.map_data
    BY <2>1, <2>3 DEF Maps, GoodData
  <2>5. data.map_data <=> data.locked_for \cap SwBits # {}
    BY <2>2, <2>4
  <2>6. data.map_data => data.lock_count = 1
    <3> SUFFICES ASSUME data.map_data PROVE old.lock_count = 0
      BY <2>2
    <3>1. old.locked_for \cap SwBits = {}
      BY <2>1, <2>4 DEF GoodData
    <3>2. usage \cap SwBits # {}
      BY <2>2, <2>4, <3>1
    <3>3. ~(usage \subseteq old.locked_for)
      BY <3>1, <3>2
    <3> QED BY <2>3, <3>3 DEF Compatible
  <2>7. data.lock_count = newSw + newHw + newLost /\ data.lock_count # 0
    BY <2>1, <2>2
  <2>8. GoodData(data)
    BY <2>2, <2>5, <2>6, <2>7 DEF GoodData
  <2>9. newSw > 0 => data.map_data
    <3>1. sw = 0
      BY <2>1, <2>4
    <3> QED BY <2>2, <3>1
  <2>10. data.alive = bo[map[h]].alive /\ data.handle = bo[map[h]].handle
    BY <2>2 DEF old
  <2>11. data \in BoType /\ bo' = [bo EXCEPT ![map[h]] = data]
    BY <2>2, <2>3
  <2>12. data.lock_count = newSw + newHw + newLost
    BY <2>7
  <2>13. Registered(h) /\ map' = LookedUp(h) /\ UNCHANGED <<gbm, opened, hnd>>
    BY <1>1, <1>5
  <2> QED BY <2>8, <2>9, <2>10, <2>11, <2>12, <2>13, DataStep
<1>6. \/ UNCHANGED <<bo, granted, leaked>>
      \/ /\ Registered(h)
         /\ bo' = [bo EXCEPT ![map[h]] = Refused(old, usage)]
         /\ UNCHANGED <<granted, leaked>>
      \/ /\ Registered(h) /\ Compatible(old, usage) /\ Maps(old, usage)
         /\ bo' = [bo EXCEPT ![map[h]] = Locked(old, usage)]
         /\ \/ leaked' = [leaked EXCEPT ![h] = @ + 1] /\ UNCHANGED granted
            \/ /\ granted' = IF usage \cap SwBits # {} THEN [granted EXCEPT ![h].sw = @ + 1]
                             ELSE [granted EXCEPT ![h].hw = @ + 1]
               /\ UNCHANGED leaked
  BY DEF Lock
<1> HIDE DEF old
<1> QED BY <1>3, <1>4, <1>5, <1>6

LEMMA UnlockInv ==
  ASSUME IInv, NEW h \in Handles, Unlock(h)
  PROVE  IInv'
<1>1. hnd[h].of # "none" /\ map' = LookedUp(h) /\ UNCHANGED <<gbm, opened, hnd>>
  BY DEF Unlock
<1>2. granted \in [Handles -> [sw : Nat, hw : Nat]] /\ leaked \in [Handles -> Nat]
  BY DEF IInv, TypeOK
<1>3. CASE ~Registered(h)
  <2>1. granted[h] = NoGrant /\ ~(granted[h].sw > 0) /\ ~(granted[h].hw > 0) /\ leaked[h] = 0
    BY <1>3 DEF IInv, GrantInv, NoGrant
  <2>2. bo' = bo /\ granted' = granted /\ leaked' = [leaked EXCEPT ![h] = 0]
    BY <1>3, <2>1 DEF Unlock
  <2>3. leaked' = leaked
    BY <1>2, <2>1, <2>2
  <2> QED BY <1>1, <1>3, <2>2, <2>3, LookedUpInv
<1>4. CASE Registered(h)
  <2> DEFINE old == bo[map[h]]
             data == Unlocked(old)
             sw == granted[h].sw
             hw == granted[h].hw
             lost == leaked[h]
  <2>1. /\ old \in BoType /\ GoodData(old) /\ old.lock_count = sw + hw + lost
        /\ sw > 0 => old.map_data
        /\ sw \in Nat /\ hw \in Nat /\ lost \in Nat
    BY <1>4, DataFacts
  <2> HIDE DEF old, sw, hw, lost
  <2>2. old.user_data /\ bo' = [bo EXCEPT ![map[h]] = data]
    BY <1>4 DEF Unlock, old
  <2> SUFFICES ASSUME NEW newSw \in Nat, NEW newHw \in Nat, NEW newLost \in Nat,
                      granted' = [granted EXCEPT ![h] = [sw |-> newSw, hw |-> newHw]],
                      leaked' = [leaked EXCEPT ![h] = newLost],
                      newSw + newHw + newLost = IF sw + hw + lost = 0 THEN 0
                                                ELSE sw + hw + lost - 1,
                      newSw > 0 => sw > 1
               PROVE  IInv'
    <3>1. sw \in {0, 1}
      BY <2>1 DEF GoodData
    <3>2. CASE sw > 0 /\ granted' = [granted EXCEPT ![h].sw = @ - 1] /\ UNCHANGED leaked
      <4>1. granted' = [granted EXCEPT ![h] = [sw |-> sw - 1, hw |-> hw]]
            /\ leaked' = [leaked EXCEPT ![h] = lost]
        BY <1>2, <3>2, GrantForms DEF sw, hw, lost
      <4>2. (sw - 1) + hw + lost = sw + hw + lost - 1 /\ sw + hw + lost # 0
            /\ sw - 1 \in Nat /\ ~(sw - 1 > 0)
        BY <2>1, <3>1, <3>2 DEF sw
      <4> QED BY <2>1, <4>1, <4>2
    <3>3. CASE hw > 0 /\ granted' = [granted EXCEPT ![h].hw = @ - 1] /\ UNCHANGED leaked
      <4>1. granted' = [granted EXCEPT ![h] = [sw |-> sw, hw |-> hw - 1]]
            /\ leaked' = [leaked EXCEPT ![h] = lost]
        BY <1>2, <3>3, GrantForms DEF sw, hw, lost
      <4>2. sw + (hw - 1) + lost = sw + hw + lost - 1 /\ sw + hw + lost # 0
            /\ hw - 1 \in Nat /\ ~(sw > 0)
        BY <2>1, <3>1, <3>3 DEF GoodData
      <4> QED BY <2>1, <4>1, <4>2
    <3>4. CASE /\ granted[h] = NoGrant /\ UNCHANGED granted
               /\ leaked' = [leaked EXCEPT ![h] = IF leaked[h] > 0 THEN @ - 1 ELSE 0]
      <4> DEFINE less == IF lost > 0 THEN lost - 1 ELSE 0
      <4>1. sw = 0 /\ hw = 0
        BY <3>4 DEF NoGrant, sw, hw
      <4>2. granted' = [granted EXCEPT ![h] = [sw |-> sw, hw |-> hw]]
            /\ leaked' = [leaked EXCEPT ![h] = less]
        BY <1>2, <3>4, GrantForms DEF sw, hw, lost
      <4>3. sw + hw + less = (IF sw + hw + lost = 0 THEN 0 ELSE sw + hw + lost - 1)
            /\ less \in Nat /\ ~(sw > 0)
        BY <2>1, <4>1
      <4> HIDE DEF less
      <4> QED BY <2>1, <4>1, <4>2, <4>3
    <3> QED BY <1>4, <3>2, <3>3, <3>4 DEF Unlock, sw, hw
  <2>3. /\ data \in BoType /\ data.user_data = old.user_data /\ data.alive = old.alive
        /\ data.handle = old.handle
        /\ data.lock_count = IF old.lock_count = 0 THEN 0 ELSE old.lock_count - 1
        /\ data.locked_for = IF old.lock_count \in {0, 1} THEN {} ELSE old.locked_for
    <3>1. CASE old.lock_count = 0
      BY <2>1, <3>1 DEF Unlocked, GoodData
    <3>2. CASE old.lock_count # 0
      <4> DEFINE mapped == old.map_data /\ old.locked_for \cap SwBits = {}
                 for == IF old.lock_count = 1 THEN {} ELSE old.locked_for
      <4>1. data = [old EXCEPT !.map_data = mapped, !.lock_count = old.lock_count - 1,
                               !.locked_for = for]
        BY <2>1, <3>2 DEF Unlocked, BoType
      <4>2. mapped \in BOOLEAN /\ for \in SUBSET UsageBits /\ old.lock_count - 1 \in Nat
        BY <2>1, <3>2 DEF BoType
      <4>3. for = IF old.lock_count \in {0, 1} THEN {} ELSE old.locked_for
        BY <3>2
      <4> HIDE DEF data, mapped, for
      <4> QED BY <2>1, <3>2, <4>1, <4>2, <4>3 DEF BoType
    <3> QED BY <3>1, <3>2
  <2>4. ~data.map_data
    <3>1. CASE old.lock_count = 0
      BY <2>1, <3>1 DEF Unlocked, GoodData
    <3>2. CASE old.lock_count # 0
      BY <2>1, <3>2 DEF Unlocked, BoType, GoodData
    <3> QED BY <3>1, <3>2
  <2> HIDE DEF data
  <2>5. data.locked_for \cap SwBits = {}
    <3>1. CASE old.lock_count \in {0, 1}
      BY <2>3, <3>1
    <3>2. CASE old.lock_count \notin {0, 1}
      BY <2>1, <2>3, <3>2 DEF GoodData
    <3> QED BY <3>1, <3>2
  <2>6. data.lock_count = 0 => data.locked_for = {}
    BY <2>1, <2>3 DEF BoType
  <2>7. GoodData(data)
    BY <2>2, <2>3, <2>4, <2>5, <2>6 DEF GoodData
  <2>8. data.lock_count = newSw + newHw + newLost /\ ~(newSw > 0)
    BY <2>1, <2>3 DEF GoodData
  <2>9. data.alive = bo[map[h]].alive /\ data.handle = bo[map[h]].handle
    BY <2>3 DEF old
  <2> QED BY <1>1, <1>4, <2>2, <2>3, <2>7, <2>8, <2>9, DataStep
<1> QED BY <1>3, <1>4

LEMMA StepInv == IInv /\ [Next]_vars => IInv'
<1> SUFFICES ASSUME IInv, [Next]_vars PROVE IInv'
  OBVIOUS
<1>1. CASE Open \/ Close
  BY <1>1, OpenInv
<1>2. ASSUME NEW h \in Handles, Free(h) \/ Unregister(h) PROVE IInv'
  BY <1>2, ReleaseInv
<1>3. ASSUME NEW h \in Handles, DeleteClone(h) PROVE IInv'
  BY <1>3, CloneInv
<1>4. ASSUME NEW h \in Handles, Register(h) PROVE IInv'
  BY <1>4, RegisterInv
<1>5. ASSUME NEW h \in Handles, Unlock(h) PROVE IInv'
  BY <1>5, UnlockInv
<1>6. ASSUME NEW h \in Handles, RegisterDies(h) \/ UnlockDies(h) PROVE IInv'
  BY <1>6, DieInv DEF RegisterDies, UnlockDies
<1>7. ASSUME NEW h \in Handles, NEW format \in Formats, AllocDies(h, format) PROVE IInv'
  BY <1>7, DieInv DEF AllocDies
<1>8. ASSUME NEW h \in Handles, NEW usage \in Usages, NEW format \in Formats, Alloc(h, usage, format)
      PROVE  IInv'
  BY <1>8, AllocInv
<1>9. ASSUME NEW h \in Handles, NEW usage \in Usages, NEW format \in Formats, Clone(h, usage, format)
      PROVE  IInv'
  BY <1>9, CloneInv
<1>10. ASSUME NEW h \in Handles, NEW usage \in Usages, NEW ycbcr \in BOOLEAN, Lock(h, usage, ycbcr)
       PROVE  IInv'
  BY <1>10, LockInv
<1>11. CASE UNCHANGED vars
  <2>1. TypeOK' /\ EntriesLive' /\ LostOnlyToNull'
    BY <1>11 DEF vars, IInv, TypeOK, EntriesLive, LostOnlyToNull, Registered
  <2>2. HandleInv' /\ DataInv' /\ GrantInv'
    BY <1>11 DEF vars, IInv, HandleInv, DataInv, GrantInv, Registered
  <2> QED BY <2>1, <2>2 DEF IInv
<1> QED BY <1>1, <1>2, <1>3, <1>4, <1>5, <1>6, <1>7, <1>8, <1>9, <1>10, <1>11 DEF Next

LEMMA InvHolds == Spec => []IInv
BY InitInv, StepInv, PTL DEF Spec

-------------------------------------------------------------------------------
(* The properties.                                                         *)

\* The types hold whatever the clients do (gralloc_gbm.cpp:547 keeps the count
\* from falling below zero).
THEOREM TypeCorrect == Spec => []TypeOK
<1>1. IInv => TypeOK
  BY DEF IInv
<1> QED BY <1>1, InvHolds, PTL

\* The map names living objects only, each under its own address
\* (gralloc_gbm.cpp:337, 463).
THEOREM MapLive == Spec => []EntriesLive
<1>1. IInv => EntriesLive
  BY DEF IInv
<1> QED BY <1>1, InvHolds, PTL

\* An object is lost only where operator[] has left a null entry
\* (gralloc_gbm.cpp:346).
THEOREM NothingElseLost == Spec => []LostOnlyToNull
<1>1. IInv => LostOnlyToNull
  BY DEF IInv
<1> QED BY <1>1, InvHolds, PTL

\* An address that was given to a client stays mapped until it unlocks
\* (gralloc_gbm.cpp:357, 509, 550).
THEOREM GrantsMapped == Spec => []MappedWhileGranted
<1>1. IInv => MappedWhileGranted
  BY DEF IInv, DataInv, GoodData, GrantInv, MappedWhileGranted, Registered
<1> QED BY <1>1, InvHolds, PTL

\* Locks add up, those of the failed calls of lock_ycbcr included
\* (gralloc_gbm.cpp:526, 553, 610).
THEOREM LocksAddUp == Spec => []LocksAccounted
<1>1. IInv => LocksAccounted
  BY DEF IInv, DataInv, GoodData, GrantInv, LocksAccounted, Registered
<1> QED BY <1>1, InvHolds, PTL

\* The map and the buffer objects fit together both ways.
THEOREM MapIsExact == Spec => []MapExact
  BY MapLive, NothingElseLost, PTL DEF MapExact

-------------------------------------------------------------------------------
(* The size of a buffer that is to hold a blob.                            *)

\* A set of natural numbers that is not empty has a least element.
LEMMA LeastNumber ==
  ASSUME NEW S \in SUBSET Nat, S # {}
  PROVE  \E n \in S : \A k \in S : n <= k
<1>1. IsWellFoundedOn(OpToRel(<, Nat), Nat)
  BY NatLessThanWellFounded, Zenon
<1>2. PICK n \in S : \A k \in S : ~ (<<k, n>> \in OpToRel(<, Nat))
  BY <1>1, WFMin, Zenon
<1>3. \A k \in S : k < n => <<k, n>> \in OpToRel(<, Nat)
  BY Zenon DEF OpToRel
<1>4. \A k \in S : ~(k < n)
  BY <1>2, <1>3, Zenon
<1> QED
  BY <1>4

\* There is a square root, rounded down.
LEMMA SquareRootFacts ==
  ASSUME NEW n \in Nat
  PROVE  LET r == SquareRoot(n) IN r \in 0 .. n /\ r * r <= n /\ n < (r + 1) * (r + 1)
<1> DEFINE S == {r \in Nat : n < (r + 1) * (r + 1)}
<1>1. n \in S
  <2>1. (n + 1) * (n + 1) = n * n + 2 * n + 1 /\ n * n \in Nat
    BY SMT
  <2> QED
    BY <2>1
<1>2. PICK r \in S : \A k \in S : r <= k
  BY <1>1, LeastNumber
<1>3. r \in 0 .. n /\ n < (r + 1) * (r + 1)
  BY <1>1, <1>2
<1>4. r * r <= n
  <2>1. CASE r = 0
    BY <2>1
  <2>2. CASE r # 0
    <3>1. r - 1 \in Nat /\ r - 1 \notin S
      BY <1>2, <2>2
    <3>2. ~(n < ((r - 1) + 1) * ((r - 1) + 1))
      BY <3>1
    <3>3. (r - 1) + 1 = r /\ r * r \in Nat
      BY <1>3
    <3> QED
      BY <3>2, <3>3
  <2> QED
    BY <2>1, <2>2
<1> QED
  BY <1>3, <1>4 DEF SquareRoot

\* The loop over heights, as a function of the height it starts with.
Lowered(blob, width, h) ==
  [height \in Int |->
     IF width * height = blob THEN height
     ELSE IF width * height < blob THEN height + 1
     ELSE h[height - 1]]

\* Where it ends when it starts too high.
FirstFit(blob, width) ==
  IF width * (blob \div width) = blob THEN blob \div width ELSE (blob \div width) + 1

\* Up to the quotient a buffer is no larger than the blob, above it larger.
LEMMA QuotientFacts ==
  ASSUME NEW blob \in Nat, NEW width \in Nat \ {0}
  PROVE  LET q == blob \div width IN
         /\ q \in Nat /\ width * q \in Nat /\ width * q <= blob /\ blob < width * q + width
         /\ width * (q + 1) = width * q + width
         /\ \A h \in Int : width * h \in Int
         /\ \A h \in Int : h <= q => width * h <= blob
         /\ \A h \in Int : h > q => width * h > blob
<1> DEFINE q == blob \div width
<1>1. q \in Int /\ blob % width \in 0 .. width - 1 /\ blob = width * q + (blob % width)
  BY SMT
<1>2. q \in Nat
  BY SMT
<1> HIDE DEF q
<1>3. width * q \in Int /\ width * (q + 1) = width * q + width
  BY <1>2
<1>4. width * q <= blob /\ blob < width * q + width
  BY <1>1, <1>3
<1>5. \A h \in Int : width * h \in Int
  OBVIOUS
<1>6. ASSUME NEW h \in Int, h <= q
      PROVE  width * h <= width * q
  <2>1. q - h \in Nat /\ width * (q - h) \in Nat /\ width * (q - h) = width * q - width * h
    BY <1>2, <1>6
  <2> QED
    BY <1>3, <1>5, <2>1
<1>7. ASSUME NEW h \in Int, h > q
      PROVE  width * h >= width * q + width
  <2>1. h - (q + 1) \in Nat /\ width * (h - (q + 1)) \in Nat
        /\ width * (h - (q + 1)) = width * h - width * (q + 1)
    BY <1>2, <1>7
  <2> QED
    BY <1>3, <1>5, <2>1
<1> QED
  BY <1>2, <1>3, <1>4, <1>5, <1>6, <1>7 DEF q

\* The loop is well defined for every width: there is a function that does what
\* it does.
LEMMA LoopExists ==
  ASSUME NEW blob \in Nat, NEW width \in Nat \ {0}
  PROVE  \E h : h = Lowered(blob, width, h)
<1> DEFINE q == blob \div width
           g == [height \in Int |->
                   IF height > q THEN FirstFit(blob, width)
                   ELSE IF width * height = blob THEN height ELSE height + 1]
<1>1. /\ q \in Nat /\ width * q <= blob
      /\ \A h \in Int : width * h \in Int
      /\ \A h \in Int : h <= q => width * h <= blob
      /\ \A h \in Int : h > q => width * h > blob
  BY QuotientFacts
<1>2. g[q] = FirstFit(blob, width)
  BY <1>1 DEF FirstFit
<1>3. ASSUME NEW height \in Int
      PROVE  g[height] = IF width * height = blob THEN height
                         ELSE IF width * height < blob THEN height + 1
                         ELSE g[height - 1]
  <2>1. CASE height > q
    <3>1. g[height] = FirstFit(blob, width) /\ width * height > blob /\ width * height \in Int
      BY <1>1, <2>1
    <3>2. g[height - 1] = FirstFit(blob, width)
      <4>1. CASE height - 1 > q
        BY <1>1, <4>1
      <4>2. CASE height - 1 = q
        BY <1>1, <1>2, <4>2
      <4> QED
        BY <1>1, <2>1, <4>1, <4>2
    <3> QED
      BY <3>1, <3>2
  <2>2. CASE height <= q
    BY <1>1, <2>2
  <2> QED
    BY <1>1, <2>1, <2>2
<1>4. g = [height \in Int |-> g[height]]
  OBVIOUS
<1> HIDE DEF g
<1>5. g = Lowered(blob, width, g)
  BY <1>3, <1>4 DEF Lowered
<1> QED
  BY <1>5

\* Started above the quotient it ends at the same height, however high.
LEMMA LoopResult ==
  ASSUME NEW blob \in Nat, NEW width \in Nat \ {0}, NEW h, h = Lowered(blob, width, h),
         NEW start \in Nat, start > blob \div width
  PROVE  h[start] = FirstFit(blob, width)
<1> DEFINE q == blob \div width
           S == {k \in Nat : k >= q /\ h[k] # FirstFit(blob, width)}
<1>1. /\ q \in Nat /\ width * q <= blob /\ width * q \in Nat
      /\ \A k \in Int : width * k \in Int
      /\ \A k \in Int : k > q => width * k > blob
  BY QuotientFacts
<1>2. \A k \in Int : h[k] = IF width * k = blob THEN k
                            ELSE IF width * k < blob THEN k + 1
                            ELSE h[k - 1]
  BY DEF Lowered
<1>3. h[q] = FirstFit(blob, width)
  BY <1>1, <1>2 DEF FirstFit
<1> HIDE DEF q
<1>4. S = {}
  <2> SUFFICES ASSUME S # {} PROVE FALSE
    OBVIOUS
  <2>1. PICK k \in S : \A m \in S : k <= m
    BY LeastNumber
  <2>2. k \in Nat /\ k > q /\ h[k] # FirstFit(blob, width)
    BY <1>1, <1>3, <2>1
  <2>3. h[k] = h[k - 1]
    BY <1>1, <1>2, <2>2
  <2>4. k - 1 \in Nat /\ k - 1 >= q /\ k - 1 \notin S
    BY <1>1, <2>1, <2>2
  <2>5. h[k - 1] = FirstFit(blob, width)
    BY <2>4
  <2> QED
    BY <2>2, <2>3, <2>5
<1>5. start >= q /\ start \notin S
  BY <1>1, <1>4 DEF q
<1> QED
  BY <1>5

\* The width is the square root rounded up to the next eight.
LEMMA WidthFacts ==
  ASSUME NEW blob \in Nat \ {0}
  PROVE  LET s == SquareRoot(blob)
             width == ((s + 7) \div 8) * 8
         IN  /\ s \in Nat /\ s * s <= blob /\ blob < (s + 1) * (s + 1)
             /\ width \in Nat \ {0} /\ s <= width /\ (width = s <=> s % 8 = 0)
<1> DEFINE s == SquareRoot(blob)
           width == ((s + 7) \div 8) * 8
<1>1. s \in Nat /\ s * s <= blob /\ blob < (s + 1) * (s + 1)
  BY SquareRootFacts
<1> HIDE DEF s
<1>2. width \in Nat /\ s <= width /\ (width = s <=> s % 8 = 0)
  BY <1>1
<1>3. s # 0
  BY <1>1
<1> QED
  BY <1>1, <1>2, <1>3 DEF s

\* find_closest_size for every blob: the buffer is less than a row too large, or
\* at most one too small, and the latter only where the width is the square root
\* and one more row would be needed.
LEMMA SizeIsClose ==
  ASSUME NEW blob \in Nat \ {0}
  PROVE  LET width == FindClosestSize(blob)[1]
             height == FindClosestSize(blob)[2]
         IN  /\ width * height - blob \in -width .. width - 1
             /\ width * height < blob <=>
                  SquareRoot(blob) % 8 = 0 /\ blob > SquareRoot(blob) * (SquareRoot(blob) + 1)
<1> DEFINE s == SquareRoot(blob)
           width == ((s + 7) \div 8) * 8
           h == CHOOSE f : f = Lowered(blob, width, f)
           q == blob \div width
<1>1. /\ s \in Nat /\ s * s <= blob /\ blob < (s + 1) * (s + 1)
      /\ width \in Nat \ {0} /\ s <= width /\ (width = s <=> s % 8 = 0)
  BY WidthFacts
<1>2. FindClosestSize(blob) = <<width, h[width]>>
  BY DEF FindClosestSize, Lowered
<1> HIDE DEF width, s
<1>3. h = Lowered(blob, width, h)
  BY <1>1, LoopExists
<1> HIDE DEF h
<1>4. /\ q \in Nat /\ width * q \in Nat /\ width * q <= blob /\ blob < width * q + width
      /\ width * (q + 1) = width * q + width
      /\ \A k \in Int : k <= q => width * k <= blob
  BY <1>1, QuotientFacts
<1>5. CASE width > q
  <2>1. h[width] = FirstFit(blob, width)
    BY <1>1, <1>3, <1>5, LoopResult
  <2>4. s % 8 # 0
    <3> SUFFICES ASSUME width = s PROVE FALSE
      BY <1>1
    <3>1. width - (q + 1) \in Nat /\ width * (width - (q + 1)) \in Nat
          /\ width * (width - (q + 1)) = width * width - width * (q + 1)
      BY <1>1, <1>4, <1>5
    <3>2. width * width <= blob /\ width * width \in Nat
      BY <1>1
    <3>3. width * width >= width * (q + 1) /\ width * (q + 1) > blob
      <4>1. width * (q + 1) \in Int /\ width * (q + 1) > blob
        BY <1>1, <1>4
      <4> HIDE DEF q
      <4> QED
        BY <3>1, <3>2, <4>1
    <3>4. width * (q + 1) \in Int
      BY <1>1, <1>4
    <3> HIDE DEF q
    <3> QED
      BY <1>1, <3>2, <3>3, <3>4
  <2>2. CASE width * q = blob
    <3>1. width * h[width] = blob
      BY <2>1, <2>2 DEF FirstFit
    <3> QED
      BY <1>1, <1>2, <2>4, <3>1 DEF s
  <2>3. CASE width * q # blob
    <3>1. h[width] = q + 1
      BY <2>1, <2>3 DEF FirstFit
    <3>2. width * h[width] - blob \in 1 .. width - 1
      BY <1>1, <1>4, <2>3, <3>1
    <3> HIDE DEF q
    <3>3. width * h[width] \in Int
      BY <1>1, <1>4, <3>1
    <3>4. ~(width * h[width] < blob)
      BY <3>2, <3>3
    <3>5. width * h[width] - blob \in -width .. width - 1
      BY <1>1, <3>2, <3>3
    <3> QED
      BY <1>2, <2>4, <3>4, <3>5 DEF s
  <2> QED
    BY <2>2, <2>3
<1>6. CASE width <= q
  <2>1. width * width <= blob /\ width * width \in Nat
    BY <1>1, <1>4, <1>6
  <2>2. width = s
    <3> SUFFICES ASSUME width >= s + 1 PROVE FALSE
      BY <1>1
    <3>1. width * width >= (s + 1) * (s + 1)
      BY <1>1
    <3> QED
      BY <1>1, <2>1, <3>1
  <2>3. h[width] = IF width * width = blob THEN width
                   ELSE IF width * width < blob THEN width + 1
                   ELSE h[width - 1]
    BY <1>1, <1>3 DEF Lowered
  <2>4. CASE width * width = blob
    <3>1. width * h[width] = blob /\ s * (s + 1) = width * width + width
      BY <1>1, <2>1, <2>2, <2>3, <2>4
    <3>2. width * h[width] - blob \in -width .. width - 1 /\ ~(blob > s * (s + 1))
      BY <1>1, <2>1, <2>4, <3>1
    <3> QED
      BY <1>2, <2>4, <3>1, <3>2 DEF s
  <2>5. CASE width * width < blob
    <3>1. h[width] = width + 1 /\ width * (width + 1) = width * width + width
      BY <1>1, <2>3, <2>5
    <3>2. (s + 1) * (s + 1) = width * width + 2 * width + 1
      BY <1>1, <2>2
    <3>3. width * h[width] - blob \in -width .. width - 1
      BY <1>1, <2>1, <2>5, <3>1, <3>2
    <3>4. s % 8 = 0 /\ (width * h[width] < blob <=> blob > s * (s + 1))
      BY <1>1, <2>1, <2>2, <3>1
    <3> QED
      BY <1>2, <3>3, <3>4 DEF s
  <2> QED
    BY <1>1, <2>1, <2>4, <2>5
<1> QED
  BY <1>1, <1>4, <1>5, <1>6

\* For blobs of any size the search for a height ends, less than a row is wasted,
\* and the blobs whose buffer is too small are known exactly.
THEOREM BlobSizes == Spec => []BlobSizeClose
<1>1. BlobSizesClose
  BY SizeIsClose, BoundAssumption DEF BlobSizesClose
<1>2. BlobSizeClose
  BY <1>1 DEF BlobSizeClose
<1> QED
  BY <1>2, PTL
===============================================================================
