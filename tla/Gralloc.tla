------------------------------- MODULE Gralloc --------------------------------
(***************************************************************************)
(* The graphics memory HAL: gralloc.cpp and gralloc_gbm.cpp.               *)
(*                                                                         *)
(* One process uses the module, as an allocator (alloc, free) or a mapper  *)
(* (registerBuffer, lock, unlock, unregisterBuffer) or both. Each call runs*)
(* under dmod->mutex from its first to its last access, hence is an action,*)
(* but for the closing of the device, which takes no lock.                 *)
(*                                                                         *)
(* A handle is named by its address: when it is freed the next one may get *)
(* the same, while gbm_bo_handle_map, whose keys are addresses, lives on.  *)
(* gbm_bo_from_handle reads it with operator[], which inserts a null entry *)
(* for an address that has none.                                           *)
(*                                                                         *)
(* granted and leaked are history variables: the locks that clients have   *)
(* been told they hold, and those taken by calls that then failed.         *)
(*                                                                         *)
(* A definition marked Variant is no part of the model: it is the one      *)
(* below it with a plausible mistake, and shows that a property sees it.   *)
(***************************************************************************)
EXTENDS Integers

CONSTANTS
  Handles,    \* the addresses of native handles
  Bos,        \* the buffer objects of GBM, a bound of the model
  Usages,     \* the sets of usage bits clients ask for
  Formats,    \* the pixel formats clients ask for
  MaxLocks,   \* the locks that clients hold of a buffer, a bound of the model
  MaxBlob,    \* the widths of blobs that are checked, a bound of the model
  Null,       \* an entry of the map without buffer object
  Absent      \* no entry

SwBits == {"SW_READ", "SW_WRITE"}

\* Besides reading in software, what lock lets pass unchecked (texture stands
\* for frame buffers and encoders too).
ExemptBits == {"SW_READ", "HW_TEXTURE"}

UsageBits == SwBits \cup {"HW_TEXTURE", "HW_RENDER"}

ASSUME UsageAssumption == Usages \subseteq SUBSET UsageBits
ASSUME NameAssumption == Null \notin Bos /\ Absent \notin Bos /\ Null # Absent
ASSUME BoundAssumption == MaxLocks \in Nat /\ MaxBlob \in Nat

VARIABLES
  gbm,      \* dmod->gbm: "null", "live", or "destroyed" but not null
  opened,   \* the alloc device is open
  hnd,      \* the native handles: whose they are, their usage and format
  map,      \* gbm_bo_handle_map
  bo,       \* the buffer objects with their bo_data_t
  granted,  \* how many locks clients hold, with an address and without
  leaked    \* how many locks no client knows of

vars == <<gbm, opened, hnd, map, bo, granted, leaked>>

NoHandle == [of |-> "none", usage |-> {}, format |-> "none"]

\* user_data is whether gbm_bo_set_user_data has been called.
NoBo == [alive |-> FALSE, handle |-> Absent, user_data |-> FALSE,
         lock_count |-> 0, locked_for |-> {}, map_data |-> FALSE]

NoGrant == [sw |-> 0, hw |-> 0]

TypeOK ==
  /\ gbm \in {"null", "live", "destroyed"}
  /\ opened \in BOOLEAN
  /\ hnd \in [Handles -> [of : {"none", "alloc", "client"}, usage : SUBSET UsageBits,
                           format : Formats \cup {"none"}]]
  /\ map \in [Handles -> Bos \cup {Null, Absent}]
  /\ bo \in [Bos -> [alive : BOOLEAN, handle : Handles \cup {Absent}, user_data : BOOLEAN,
                      lock_count : Nat, locked_for : SUBSET UsageBits, map_data : BOOLEAN]]
  /\ granted \in [Handles -> [sw : Nat, hw : Nat]]
  /\ leaked \in [Handles -> Nat]

Init ==
  /\ gbm = "null"
  /\ opened = FALSE
  /\ hnd = [h \in Handles |-> NoHandle]
  /\ map = [h \in Handles |-> Absent]
  /\ bo = [b \in Bos |-> NoBo]
  /\ granted = [h \in Handles |-> NoGrant]
  /\ leaked = [h \in Handles |-> 0]

-------------------------------------------------------------------------------
(* Formats and sizes.                                                      *)

\* GBM has a format for these; it creates nothing of format 0.
HasGbmFormat(format) ==
  format \in {"RGBA_8888", "RGBX_8888", "RGB_888", "RGB_565", "BGRA_8888", "YV12",
              "RGBA_FP16", "RGBA_1010102", "BLOB"}

Bpp(format) ==
  CASE format = "RGBA_FP16" -> 8
    [] format \in {"RGBA_8888", "RGBX_8888", "BGRA_8888", "RGBA_1010102"} -> 4
    [] format = "RGB_888" -> 3
    [] format \in {"RGB_565", "YCbCr_422_I"} -> 2
    [] format \in {"YV12", "YCbCr_422_SP", "YCrCb_420_SP", "YCbCr_420_888"} -> 1
    [] OTHER -> 0

HasPlanes(format) == format \in {"YCrCb_420_SP", "YCbCr_420_888", "YV12"}

SquareRoot(n) == CHOOSE r \in 0 .. n : r * r <= n /\ n < (r + 1) * (r + 1)

\* Variant: the last step down is not taken back.
ClosestSizeBelow(blob) ==
  LET width == ((SquareRoot(blob) + 7) \div 8) * 8
      Height[height \in Int] == IF width * height <= blob THEN height ELSE Height[height - 1]
  IN <<width, Height[width]>>

FindClosestSize(blob) ==
  LET width == ((SquareRoot(blob) + 7) \div 8) * 8
      Height[height \in Int] ==
        IF width * height = blob THEN height
        ELSE IF width * height < blob THEN height + 1
        ELSE Height[height - 1]
  IN <<width, Height[width]>>

-------------------------------------------------------------------------------
(* Parts of the calls.                                                     *)

\* The map after operator[] has been used on it.
LookedUp(h) == [map EXCEPT ![h] = IF map[h] = Absent THEN Null ELSE map[h]]

Registered(h) == map[h] \in Bos

\* gbm_init succeeds. An open that fails leaves all as it was.
GbmInit == gbm' = IF gbm = "null" THEN "live" ELSE gbm

\* The process ends and is started again.
Die ==
  /\ gbm' = "null" /\ opened' = FALSE
  /\ hnd' = [h \in Handles |-> NoHandle]
  /\ map' = [h \in Handles |-> Absent]
  /\ bo' = [b \in Bos |-> NoBo]
  /\ granted' = [h \in Handles |-> NoGrant]
  /\ leaked' = [h \in Handles |-> 0]

\* Variant: the entry of the map stays.
GbmFreeKeepsEntry(h) ==
  /\ map' = LookedUp(h)
  /\ bo' = IF Registered(h) THEN [bo EXCEPT ![map[h]] = NoBo] ELSE bo
  /\ granted' = [granted EXCEPT ![h] = NoGrant]
  /\ leaked' = [leaked EXCEPT ![h] = 0]

\* gbm_free: bo_data_t goes with its buffer object.
GbmFree(h) ==
  /\ map' = IF Registered(h) THEN [map EXCEPT ![h] = Absent] ELSE LookedUp(h)
  /\ bo' = IF Registered(h) THEN [bo EXCEPT ![map[h]] = NoBo] ELSE bo
  /\ granted' = [granted EXCEPT ![h] = NoGrant]
  /\ leaked' = [leaked EXCEPT ![h] = 0]

UsageAllowed(h, usage) == usage \subseteq hnd[h].usage \/ hnd[h].usage \cap ExemptBits # {}

Compatible(data, usage) == data.lock_count = 0 \/ usage \subseteq data.locked_for

\* Variant: a buffer object is mapped again.
MapsAlways(data, usage) == TRUE

\* gbm_map, if a bit of software is among the usages, old and new.
Maps(data, usage) == (usage \cup data.locked_for) \cap SwBits # {} => ~data.map_data

\* Variant: the lock is counted before the buffer object is mapped.
RefusedCounted(data, usage) ==
  [data EXCEPT !.user_data = TRUE,
               !.lock_count = IF Compatible(data, usage) THEN @ + 1 ELSE @]

\* What a lock leaves of bo_data_t when it returns an error.
Refused(data, usage) == [data EXCEPT !.user_data = TRUE]

Locked(data, usage) ==
  LET all == usage \cup data.locked_for IN
  [data EXCEPT !.user_data = TRUE, !.lock_count = @ + 1, !.locked_for = all,
               !.map_data = @ \/ all \cap SwBits # {}]

Unlocked(data) ==
  IF data.lock_count = 0 THEN data
  ELSE [data EXCEPT !.map_data = @ /\ data.locked_for \cap SwBits = {},
                    !.lock_count = @ - 1,
                    !.locked_for = IF data.lock_count = 1 THEN {} ELSE @]

-------------------------------------------------------------------------------
(* The allocator.                                                          *)

Open ==
  /\ ~opened
  /\ GbmInit /\ opened' = TRUE
  /\ UNCHANGED <<hnd, map, bo, granted, leaked>>

\* Assumed of the framework: it frees its buffers before. gbm is not reset.
Close ==
  /\ opened /\ \A h \in Handles : hnd[h].of = "none"
  /\ gbm' = "destroyed" /\ opened' = FALSE
  /\ UNCHANGED <<hnd, map, bo, granted, leaked>>

\* emplace does nothing if the address has an entry, be it null.
Alloc(h, usage, format) ==
  /\ opened /\ gbm = "live" /\ hnd[h].of = "none"
  /\ HasGbmFormat(format)
  /\ hnd' = [hnd EXCEPT ![h] = [of |-> "alloc", usage |-> usage, format |-> format]]
  /\ \E b \in Bos : /\ ~bo[b].alive
                    /\ bo' = [bo EXCEPT ![b] = [NoBo EXCEPT !.alive = TRUE, !.handle = h]]
                    /\ map' = [map EXCEPT ![h] = IF map[h] = Absent THEN b ELSE map[h]]
  /\ UNCHANGED <<gbm, opened, granted, leaked>>

\* The stride in pixels is a division by Bpp, or the device is gone.
AllocDies(h, format) ==
  /\ opened /\ hnd[h].of = "none"
  /\ gbm = "destroyed" \/ (HasGbmFormat(format) /\ Bpp(format) = 0)
  /\ Die

\* Assumed of clients, here and in Unregister: no lock is held.
Free(h) ==
  /\ opened /\ hnd[h].of = "alloc" /\ granted[h] = NoGrant
  /\ GbmFree(h)
  /\ hnd' = [hnd EXCEPT ![h] = NoHandle]
  /\ UNCHANGED <<gbm, opened>>

-------------------------------------------------------------------------------
(* The mapper and its clients.                                             *)

\* A client makes a handle of the one another process has sent ...
Clone(h, usage, format) ==
  /\ hnd[h].of = "none" /\ HasGbmFormat(format)
  /\ hnd' = [hnd EXCEPT ![h] = [of |-> "client", usage |-> usage, format |-> format]]
  /\ UNCHANGED <<gbm, opened, map, bo, granted, leaked>>

\* ... and deletes it when it is not registered, or no longer.
DeleteClone(h) ==
  /\ hnd[h].of = "client" /\ ~Registered(h)
  /\ hnd' = [hnd EXCEPT ![h] = NoHandle]
  /\ UNCHANGED <<gbm, opened, map, bo, granted, leaked>>

\* A handle with an entry is refused, be it null.
Register(h) ==
  /\ hnd[h].of # "none" /\ gbm # "destroyed"
  /\ GbmInit
  /\ IF map[h] = Absent
     THEN \E b \in Bos : /\ ~bo[b].alive
                         /\ bo' = [bo EXCEPT ![b] = [NoBo EXCEPT !.alive = TRUE, !.handle = h]]
                         /\ map' = [map EXCEPT ![h] = b]
     ELSE UNCHANGED <<bo, map>>
  /\ UNCHANGED <<opened, hnd, granted, leaked>>

RegisterDies(h) == hnd[h].of # "none" /\ gbm = "destroyed" /\ map[h] = Absent /\ Die

Unregister(h) ==
  /\ hnd[h].of # "none" /\ granted[h] = NoGrant
  /\ GbmFree(h)
  /\ UNCHANGED <<gbm, opened, hnd>>

\* lock, and lock_ycbcr, which fails after the lock if the format has no
\* planes. GBM may fail to map.
Lock(h, usage, ycbcr) ==
  /\ hnd[h].of # "none" /\ granted[h].sw + granted[h].hw + leaked[h] < MaxLocks
  /\ map' = LookedUp(h)
  /\ \/ /\ ~Registered(h) \/ ~UsageAllowed(h, usage)
        /\ UNCHANGED <<bo, granted, leaked>>
     \/ /\ Registered(h) /\ UsageAllowed(h, usage)
        /\ \/ ~Compatible(bo[map[h]], usage) \/ ~Maps(bo[map[h]], usage)
           \/ (usage \cup bo[map[h]].locked_for) \cap SwBits # {}
        /\ bo' = [bo EXCEPT ![map[h]] = Refused(bo[map[h]], usage)]
        /\ UNCHANGED <<granted, leaked>>
     \/ /\ Registered(h) /\ UsageAllowed(h, usage)
        /\ Compatible(bo[map[h]], usage) /\ Maps(bo[map[h]], usage)
        /\ bo' = [bo EXCEPT ![map[h]] = Locked(bo[map[h]], usage)]
        /\ IF ycbcr /\ ~HasPlanes(hnd[h].format)
           THEN leaked' = [leaked EXCEPT ![h] = @ + 1] /\ UNCHANGED granted
           ELSE /\ granted' = IF usage \cap SwBits # {} THEN [granted EXCEPT ![h].sw = @ + 1]
                              ELSE [granted EXCEPT ![h].hw = @ + 1]
                /\ UNCHANGED leaked
  /\ UNCHANGED <<gbm, opened, hnd>>

\* Assumed of clients: while locks are held, only who holds one unlocks.
Unlock(h) ==
  /\ hnd[h].of # "none"
  /\ Registered(h) => bo[map[h]].user_data
  /\ map' = LookedUp(h)
  /\ bo' = IF Registered(h) THEN [bo EXCEPT ![map[h]] = Unlocked(bo[map[h]])] ELSE bo
  /\ \/ granted[h].sw > 0 /\ granted' = [granted EXCEPT ![h].sw = @ - 1] /\ UNCHANGED leaked
     \/ granted[h].hw > 0 /\ granted' = [granted EXCEPT ![h].hw = @ - 1] /\ UNCHANGED leaked
     \/ /\ granted[h] = NoGrant
        /\ leaked' = [leaked EXCEPT ![h] = IF leaked[h] > 0 THEN @ - 1 ELSE 0]
        /\ UNCHANGED granted
  /\ UNCHANGED <<gbm, opened, hnd>>

\* bo_data is read before it is known to be there.
UnlockDies(h) == hnd[h].of # "none" /\ Registered(h) /\ ~bo[map[h]].user_data /\ Die

-------------------------------------------------------------------------------
Next ==
  \/ Open \/ Close
  \/ \E h \in Handles :
       \/ Free(h) \/ DeleteClone(h) \/ Register(h) \/ RegisterDies(h) \/ Unregister(h)
       \/ Unlock(h) \/ UnlockDies(h)
       \/ \E format \in Formats : AllocDies(h, format)
       \/ \E usage \in Usages, format \in Formats : Alloc(h, usage, format) \/ Clone(h, usage, format)
       \/ \E usage \in Usages, ycbcr \in BOOLEAN : Lock(h, usage, ycbcr)

Spec == Init /\ [][Next]_vars

-------------------------------------------------------------------------------
(* Properties.                                                             *)

\* The map names living buffer objects only, and each under the one address it
\* was made for, however addresses are used again (gralloc_gbm.cpp:337, 463).
EntriesLive ==
  \A h \in Handles : Registered(h) => bo[map[h]].alive /\ bo[map[h]].handle = h

\* No buffer object is lost, unless a call on an unknown handle has left a null
\* entry at its address before (gralloc_gbm.cpp:346): then the entry is still
\* there, and nobody can ever name the object to free it.
LostOnlyToNull ==
  \A b \in Bos : bo[b].alive => map[bo[b].handle] \in {b, Null}

\* Hence the map and the buffer objects fit together both ways.
MapExact == EntriesLive /\ LostOnlyToNull

\* A client that was given an address keeps the mapping until it unlocks: it
\* then holds the only lock, through any mix of locks and failures
\* (gralloc_gbm.cpp:357, 509, 550).
MappedWhileGranted ==
  \A h \in Handles : granted[h].sw > 0 =>
    Registered(h) /\ bo[map[h]].map_data /\ bo[map[h]].lock_count = 1

\* A buffer object is locked as often as clients hold it and lock_ycbcr has
\* failed on it, and an unlocked one keeps neither usage nor mapping
\* (gralloc_gbm.cpp:526, 553, 610).
LocksAccounted ==
  \A h \in Handles :
    /\ Registered(h) => LET data == bo[map[h]] IN
         /\ data.lock_count = granted[h].sw + granted[h].hw + leaked[h]
         /\ data.lock_count = 0 => data.locked_for = {} /\ ~data.map_data
    /\ ~Registered(h) => granted[h] = NoGrant

\* The size found for a blob (gralloc_gbm.cpp:211) wastes less than a row. It is
\* not always large enough: too small, by a row at most, is that of the blobs
\* whose root is a multiple of 8 and that end in the upper half of what lies
\* between its square and the next, as 73 to 80 do, and of no others.
BlobSizesClose ==
  \A blob \in 1 .. MaxBlob :
    LET root == SquareRoot(blob)
        width == FindClosestSize(blob)[1]
        height == FindClosestSize(blob)[2]
    IN /\ width * height - blob \in -width .. width - 1
       /\ width * height < blob <=> root % 8 = 0 /\ blob > root * (root + 1)

BlobSizeClose == \A h \in Handles : hnd[h].format = "BLOB" => BlobSizesClose
===============================================================================
