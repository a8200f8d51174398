-------------------------- MODULE MemoryStoreProofs --------------------------
(***************************************************************************)
(* Theorems about MemoryStore: what Save and Delete acknowledged survives a *)
(* crash, and a search answers right although entries come and go while it  *)
(* reads - for every number of entries, limit, selection, failing writes    *)
(* and crashes.                                                            *)
(***************************************************************************)
EXTENDS MemoryStore, WellFoundedInduction, TLAPS

(* A set of entries has a newest one: the least of their distances to the last. *)
LEMMA NewestExists ==
  ASSUME NEW s, s \subseteq EntryIds, s # {}
  PROVE  Newest(s) \in s /\ \A other \in s : other <= Newest(s)
<1> DEFINE T == {MaxEntries - e : e \in s}
<1>1. /\ \A e \in s : e \in Int /\ MaxEntries - e \in Nat /\ MaxEntries - e \in T
      /\ \A x \in T : \E e \in s : x = MaxEntries - e
  BY MemoryAssumption DEF EntryIds
<1>2. T \subseteq Nat /\ T # {}
  BY <1>1
<1>3. PICK R : R = OpToRel(<, Nat)
  OBVIOUS
<1>4. IsWellFoundedOn(R, Nat)
  BY <1>3, NatLessThanWellFounded
<1>5. \A x, y \in Nat : <<y, x>> \in R <=> y < x
  BY <1>3 DEF OpToRel
<1> HIDE DEF T
<1>6. PICK x \in T : \A y \in T : ~ (<<y, x>> \in R)
  BY <1>2, <1>4, WFMin
<1>7. ASSUME NEW y \in T PROVE x <= y
  <2>1. x \in Nat /\ y \in Nat /\ ~ (<<y, x>> \in R)
    BY <1>2, <1>6
  <2>2. ~ (y < x)
    BY <1>5, <2>1
  <2> QED
    BY <2>1, <2>2
<1>8. PICK e \in s : x = MaxEntries - e
  BY <1>1
<1>9. \A other \in s : other <= e
  BY <1>1, <1>7, <1>8, MemoryAssumption
<1> QED
  BY <1>8, <1>9 DEF Newest

LEMMA MemTyped ==
  ASSUME MemoryTypeOK
  PROVE  /\ search.pc \in {"idle", "reading", "answered"}
         /\ search.left \subseteq EntryIds /\ search.owed \subseteq EntryIds
         /\ search.gone \subseteq EntryIds
         /\ search.found \in Seq(EntryIds) /\ Len(search.found) \in Nat
         /\ DOMAIN search.found = 1 .. Len(search.found)
         /\ \A k \in DOMAIN search.found : search.found[k] \in EntryIds
         /\ EntryIds \subseteq Nat /\ Limit \in Nat
<1>1. /\ search.pc \in {"idle", "reading", "answered"}
      /\ search.left \subseteq EntryIds /\ search.owed \subseteq EntryIds
      /\ search.gone \subseteq EntryIds /\ search.found \in Seq(EntryIds)
  BY DEF MemoryTypeOK
<1>2. /\ Len(search.found) \in Nat /\ DOMAIN search.found = 1 .. Len(search.found)
      /\ \A k \in DOMAIN search.found : search.found[k] \in EntryIds
  BY <1>1
<1>3. EntryIds \subseteq Nat /\ Limit \in Nat
  BY MemoryAssumption DEF EntryIds
<1> QED
  BY <1>1, <1>2, <1>3

(* The read of one entry, when the loop is not over. *)
LEMMA ReadEffect ==
  ASSUME MemoryTypeOK, ReadNext, ~SearchOver
  PROVE  /\ Newest(search.left) \in search.left
         /\ \A e \in search.left : e <= Newest(search.left)
         /\ search'.pc = "reading" /\ search'.owed = search.owed /\ search'.gone = search.gone
         /\ search'.left = search.left \ {Newest(search.left)}
         /\ search'.found = IF Newest(search.left) \in Selected \cap entryFile
                              THEN Append(search.found, Newest(search.left)) ELSE search.found
         /\ search'.found \in Seq(EntryIds)
         /\ search' \in [pc: {"idle", "reading", "answered"}, left: SUBSET EntryIds,
                         found: Seq(EntryIds), owed: SUBSET EntryIds, gone: SUBSET EntryIds]
<1> DEFINE found == IF Newest(search.left) \in Selected \cap entryFile
                      THEN Append(search.found, Newest(search.left)) ELSE search.found
           left == search.left \ {Newest(search.left)}
<1>1. search.left # {}
  BY DEF SearchOver
<1>2. Newest(search.left) \in search.left /\ \A e \in search.left : e <= Newest(search.left)
  BY <1>1, MemTyped, NewestExists
<1>3. search' = [search EXCEPT !.left = left, !.found = found] /\ search.pc = "reading"
  BY DEF ReadNext
<1>4. found \in Seq(EntryIds) /\ left \subseteq EntryIds
  BY <1>2, MemTyped
<1>5. search \in [pc: {"idle", "reading", "answered"}, left: SUBSET EntryIds, found: Seq(EntryIds),
                  owed: SUBSET EntryIds, gone: SUBSET EntryIds]
  BY DEF MemoryTypeOK
<1>6. /\ search'.pc = "reading" /\ search'.owed = search.owed /\ search'.gone = search.gone
      /\ search'.left = left /\ search'.found = found
      /\ search' \in [pc: {"idle", "reading", "answered"}, left: SUBSET EntryIds,
                      found: Seq(EntryIds), owed: SUBSET EntryIds, gone: SUBSET EntryIds]
  <2> HIDE DEF found, left
  <2> QED
    BY <1>3, <1>4, <1>5
<1> QED
  BY <1>2, <1>4, <1>6

LEMMA MemoryTypeStep == MemoryTypeOK /\ [MemoryNext]_memVars => MemoryTypeOK'
<1> SUFFICES ASSUME MemoryTypeOK, [MemoryNext]_memVars PROVE MemoryTypeOK'
  OBVIOUS
<1>1. ASSUME NEW e \in EntryIds, WriteEntry(e) PROVE MemoryTypeOK'
  BY <1>1 DEF WriteEntry, MemFail, MemoryTypeOK
<1>2. ASSUME NEW e \in EntryIds, IndexEntry(e) PROVE MemoryTypeOK'
  BY <1>2 DEF IndexEntry, PersistIndex, MemFail, MemoryTypeOK
<1>3. ASSUME NEW e \in EntryIds, RemoveEntry(e) PROVE MemoryTypeOK'
  BY <1>3 DEF RemoveEntry, MemFail, MemoryTypeOK
<1>4. ASSUME NEW e \in EntryIds, UnindexEntry(e) PROVE MemoryTypeOK'
  BY <1>4 DEF UnindexEntry, PersistIndex, MemFail, MemoryTypeOK
<1>5. CASE BeginSearch
  <2>1. search' \in [pc: {"idle", "reading", "answered"}, left: SUBSET EntryIds,
                     found: Seq(EntryIds), owed: SUBSET EntryIds, gone: SUBSET EntryIds]
    <3>1. <<>> \in Seq(EntryIds) /\ idx \subseteq EntryIds
      BY DEF MemoryTypeOK
    <3>2. {e \in Selected : saving[e] = "saved" /\ deleting[e] = "no"} \subseteq EntryIds
      BY MemoryAssumption
    <3> QED
      BY <1>5, <3>1, <3>2 DEF BeginSearch
  <2> QED
    BY <1>5, <2>1 DEF BeginSearch, MemoryTypeOK
<1>6. CASE ReadNext
  <2>1. CASE SearchOver
    BY <1>6, <2>1 DEF ReadNext, MemoryTypeOK
  <2>2. CASE ~SearchOver
    BY <1>6, <2>2, ReadEffect DEF ReadNext, MemoryTypeOK
  <2> QED
    BY <2>1, <2>2
<1>7. CASE EndSearch
  BY <1>7 DEF EndSearch, NoSearch, MemoryTypeOK
<1>8. CASE ReopenStore
  BY <1>8 DEF ReopenStore, NoSearch, MemoryTypeOK
<1>9. CASE UNCHANGED memVars
  BY <1>9 DEF memVars, MemoryTypeOK
<1> QED
  BY <1>1, <1>2, <1>3, <1>4, <1>5, <1>6, <1>7, <1>8, <1>9 DEF MemoryNext

-----------------------------------------------------------------------------
(* What is acknowledged *)

LEMMA StoreStep == MemoryTypeOK /\ StoreInv /\ [MemoryNext]_memVars => StoreInv'
<1> SUFFICES ASSUME MemoryTypeOK, StoreInv, [MemoryNext]_memVars PROVE StoreInv'
  OBVIOUS
<1> USE DEF StoreInv, StoreIsDurable
<1>t. /\ saving \in [EntryIds -> {"new", "written", "saved", "error"}]
      /\ deleting \in [EntryIds -> {"no", "removed", "deleted", "error"}]
      /\ \A e \in idx \union diskIdx : e \in EntryIds /\ saving[e] \in {"saved", "error"}
  BY DEF MemoryTypeOK
<1>1. ASSUME NEW e \in EntryIds, WriteEntry(e) PROVE StoreInv'
  BY <1>1, <1>t DEF WriteEntry
<1>2. ASSUME NEW e \in EntryIds, IndexEntry(e) PROVE StoreInv'
  BY <1>2, <1>t DEF IndexEntry, PersistIndex
<1>3. ASSUME NEW e \in EntryIds, RemoveEntry(e) PROVE StoreInv'
  BY <1>3, <1>t DEF RemoveEntry
<1>4. ASSUME NEW e \in EntryIds, UnindexEntry(e) PROVE StoreInv'
  BY <1>4, <1>t DEF UnindexEntry, PersistIndex
<1>5. CASE ReopenStore
  BY <1>5, <1>t DEF ReopenStore
<1>6. CASE UNCHANGED <<entryFile, idx, diskIdx, saving, deleting>>
  BY <1>6
<1> QED
  BY <1>1, <1>2, <1>3, <1>4, <1>5, <1>6
  DEF MemoryNext, BeginSearch, ReadNext, EndSearch, memVars

-----------------------------------------------------------------------------
(* What a search answers *)

(* The conjuncts of SearchInv, for a search that does not read. *)
LEMMA SearchKept ==
  ASSUME MemoryTypeOK, SearchInv,
         search' = search \/ search' = [search EXCEPT !.owed = @ \cap entryFile'],
         search'.owed \subseteq entryFile',
         \A e \in EntryIds : deleting[e] = "deleted" => deleting'[e] = "deleted"
  PROVE  SearchInv'
<1>1. /\ search'.found = search.found /\ search'.left = search.left /\ search'.pc = search.pc
      /\ search'.gone = search.gone /\ search'.owed \subseteq search.owed
  BY DEF MemoryTypeOK
<1> QED
  BY <1>1, MemTyped DEF SearchInv, SearchOver

LEMMA SearchStep ==
  MemoryTypeOK /\ StoreInv /\ SearchInv /\ [MemoryNext]_memVars => SearchInv'
<1> SUFFICES ASSUME MemoryTypeOK, StoreInv, SearchInv, [MemoryNext]_memVars PROVE SearchInv'
  OBVIOUS
<1>t. deleting \in [EntryIds -> {"no", "removed", "deleted", "error"}]
  BY DEF MemoryTypeOK
<1>o. search.owed \subseteq entryFile
  BY DEF SearchInv
<1>1. ASSUME NEW e \in EntryIds, WriteEntry(e) PROVE SearchInv'
  BY <1>1, <1>o, SearchKept DEF WriteEntry
<1>2. ASSUME NEW e \in EntryIds, IndexEntry(e) PROVE SearchInv'
  BY <1>2, <1>o, SearchKept DEF IndexEntry
<1>3. ASSUME NEW e \in EntryIds, RemoveEntry(e) PROVE SearchInv'
  <2>1. \A f \in EntryIds : deleting[f] = "deleted" => deleting'[f] = "deleted"
    BY <1>3, <1>t DEF RemoveEntry
  <2>2. CASE entryFile' = entryFile \ {e} /\ search' = [search EXCEPT !.owed = @ \ {e}]
    <3>1. search.owed \ {e} = search.owed \cap entryFile'
      BY <1>o, <2>2
    <3>2. search' = [search EXCEPT !.owed = @ \cap entryFile'] /\ search'.owed = search.owed \ {e}
      BY <2>2, <3>1 DEF MemoryTypeOK
    <3> QED
      BY <1>o, <2>1, <2>2, <3>2, SearchKept
  <2>3. CASE entryFile' = entryFile /\ search' = search
    BY <1>o, <2>1, <2>3, SearchKept
  <2> QED
    BY <1>3, <2>2, <2>3 DEF RemoveEntry
<1>4. ASSUME NEW e \in EntryIds, UnindexEntry(e) PROVE SearchInv'
  <2>1. \A f \in EntryIds : deleting[f] = "deleted" => deleting'[f] = "deleted"
    BY <1>4, <1>t DEF UnindexEntry, PersistIndex
  <2> QED
    BY <1>4, <1>o, <2>1, SearchKept DEF UnindexEntry
<1>5. CASE BeginSearch
  <2>1. /\ search'.pc = "reading" /\ search'.left = idx /\ search'.found = <<>>
        /\ search'.owed = {e \in Selected : saving[e] = "saved" /\ deleting[e] = "no"}
        /\ search'.gone = {e \in EntryIds : deleting[e] = "deleted"}
        /\ UNCHANGED <<entryFile, deleting>>
    BY <1>5 DEF BeginSearch
  <2>2. \A e \in search'.owed : e \in Selected \cap entryFile \cap idx
    BY <2>1, MemoryAssumption DEF StoreInv, StoreIsDurable
  <2>3. DOMAIN search'.found = {} /\ Len(search'.found) = 0
    BY <2>1
  <2> QED
    BY <2>1, <2>2, <2>3, MemTyped DEF SearchInv
<1>6. CASE ReadNext /\ SearchOver
  <2>1. /\ search'.pc = "answered" /\ search'.left = search.left /\ search'.found = search.found
        /\ search'.owed = search.owed /\ search'.gone = search.gone
        /\ UNCHANGED <<entryFile, deleting>>
    BY <1>6 DEF ReadNext, MemoryTypeOK
  <2> QED
    BY <1>6, <2>1 DEF SearchInv, SearchOver
<1>7. CASE ReadNext /\ ~SearchOver
  <2>1. PICK e \in search.left : e = Newest(search.left)
    BY <1>7, ReadEffect
  <2>2. /\ \A other \in search.left : other <= e
        /\ search'.pc = "reading" /\ search'.owed = search.owed /\ search'.gone = search.gone
        /\ search'.left = search.left \ {e}
        /\ search'.found = IF e \in Selected \cap entryFile THEN Append(search.found, e) ELSE search.found
    BY <1>7, <2>1, ReadEffect
  <2>3. UNCHANGED <<entryFile, deleting>>
    BY <1>7 DEF ReadNext
  <2>4. search.left \subseteq Nat /\ e \in EntryIds /\ e \in Nat
    BY <2>1, MemTyped
  <2>5. \A other \in search.left \ {e} : e > other
    BY <2>2, <2>4
  <2>6. CASE e \notin Selected \cap entryFile
    BY <2>2, <2>3, <2>6 DEF SearchInv
  <2>7. CASE e \in Selected \cap entryFile
    <3>1. PICK n \in Nat : n = Len(search.found) /\ DOMAIN search.found = 1 .. n
      BY MemTyped
    <3>2. /\ Len(search'.found) = n + 1 /\ DOMAIN search'.found = 1 .. n + 1
          /\ (\A k \in 1 .. n : search'.found[k] = search.found[k]) /\ search'.found[n + 1] = e
      BY <2>2, <2>4, <2>7, <3>1, MemTyped
    <3>3. /\ \A j, k \in 1 .. n : j < k => search.found[j] > search.found[k]
          /\ \A k \in 1 .. n : search.found[k] \in Selected \ search.gone
          /\ \A k \in 1 .. n : \A other \in search.left : search.found[k] > other
          /\ \A other \in search.owed : \/ other \in search.left
                                      \/ \E k \in 1 .. n : search.found[k] = other
      BY <3>1 DEF SearchInv
    <3>4. \A k \in 1 .. n + 1 : k \in 1 .. n \/ k = n + 1
      BY <3>1
    <3>5. e \notin search.gone
      BY <2>4, <2>7 DEF SearchInv, StoreInv, StoreIsDurable
    <3>6. \A j, k \in 1 .. n + 1 : j < k => search'.found[j] > search'.found[k]
      <4> SUFFICES ASSUME NEW j \in 1 .. n + 1, NEW k \in 1 .. n + 1, j < k
                   PROVE  search'.found[j] > search'.found[k]
        OBVIOUS
      <4>1. j \in 1 .. n
        BY <3>1
      <4> QED
        BY <2>1, <3>2, <3>3, <3>4, <4>1
    <3>7. \A k \in 1 .. n + 1 : search'.found[k] \in Selected \ search'.gone
      BY <2>2, <2>7, <3>2, <3>3, <3>4, <3>5
    <3>8. \A k \in 1 .. n + 1 : \A other \in search'.left : search'.found[k] > other
      BY <2>2, <2>5, <3>2, <3>3, <3>4
    <3>9. \A other \in search'.owed :
            other \in search'.left \/ \E k \in 1 .. n + 1 : search'.found[k] = other
      <4> SUFFICES ASSUME NEW other \in search.owed, other \notin search.left \ {e}
                   PROVE  \E k \in 1 .. n + 1 : search'.found[k] = other
        BY <2>2
      <4>1. CASE other = e
        BY <3>1, <3>2, <4>1
      <4>2. CASE other # e
        <5>1. PICK k \in 1 .. n : search.found[k] = other
          BY <3>3, <4>2
        <5>2. k \in 1 .. n + 1
          BY <3>1
        <5> QED
          BY <3>2, <5>1, <5>2
      <4> QED
        BY <4>1, <4>2
    <3>10. Limit > 0 => n + 1 <= Limit
      BY <1>7, <3>1, MemTyped DEF SearchOver
    <3>11. /\ \A other \in search'.owed : other \in Selected \cap entryFile'
           /\ \A other \in search'.gone : deleting'[other] = "deleted"
      BY <2>2, <2>3 DEF SearchInv
    <3> QED
      BY <2>2, <3>2, <3>6, <3>7, <3>8, <3>9, <3>10, <3>11 DEF SearchInv
  <2> QED
    BY <2>6, <2>7
<1>8. CASE search' = NoSearch
  <2>1. /\ search'.pc = "idle" /\ search'.owed = {} /\ search'.gone = {} /\ search'.found = <<>>
        /\ Len(<<>>) = 0 /\ DOMAIN search'.found = {}
    BY <1>8 DEF NoSearch
  <2> QED
    BY <2>1, MemTyped DEF SearchInv
<1>9. CASE UNCHANGED memVars
  BY <1>9, <1>o, SearchKept DEF memVars
<1> QED
  BY <1>1, <1>2, <1>3, <1>4, <1>5, <1>6, <1>7, <1>8, <1>9 DEF MemoryNext, EndSearch, ReopenStore

-----------------------------------------------------------------------------
(* The theorems *)

LEMMA MemoryStart == MemoryInit => MemoryTypeOK /\ StoreInv /\ SearchInv
<1> SUFFICES ASSUME MemoryInit PROVE MemoryTypeOK /\ StoreInv /\ SearchInv
  OBVIOUS
<1>1. /\ search.pc = "idle" /\ search.owed = {} /\ search.gone = {} /\ search.found = <<>>
      /\ Len(<<>>) = 0 /\ DOMAIN search.found = {}
  BY DEF NoSearch, MemoryInit
<1>2. SearchInv
  BY <1>1, MemoryAssumption DEF SearchInv
<1>3. MemoryTypeOK /\ StoreInv
  BY DEF MemoryInit, NoSearch, MemoryTypeOK, StoreInv, StoreIsDurable
<1> QED
  BY <1>2, <1>3

(* Every reachable state is well typed: an index, in memory or on disk, lists  *)
(* only entries whose file was written.                                        *)
THEOREM MemoryTypeCorrect == MemorySpec => []MemoryTypeOK
BY MemoryStart, MemoryTypeStep, PTL DEF MemorySpec

(* An entry whose Save returned has its file and is in both indexes until it is *)
(* deleted, and one whose Delete returned is gone, crashes and failing writes   *)
(* notwithstanding.                                                             *)
THEOREM StoreDurable == MemorySpec => []StoreIsDurable
<1>1. StoreInv => StoreIsDurable
  BY DEF StoreInv
<1> QED
  BY <1>1, MemoryStart, MemoryTypeStep, StoreStep, PTL DEF MemorySpec

(* A search answers the newest selected entries, without a gap and without one  *)
(* that was deleted before, although entries come and go while it reads.        *)
THEOREM SearchRight == MemorySpec => []SearchIsRight
<1>1. MemoryTypeOK /\ SearchInv => SearchIsRight
  <2> SUFFICES ASSUME MemoryTypeOK, SearchInv, search.pc = "answered"
               PROVE  LET hit == {search.found[k] : k \in DOMAIN search.found}
                      IN /\ \A j, k \in DOMAIN search.found : j < k => search.found[j] > search.found[k]
                         /\ hit \subseteq Selected \ search.gone
                         /\ Limit > 0 => Len(search.found) <= Limit
                         /\ \A e \in search.owed \ hit :
                              Limit > 0 /\ Len(search.found) = Limit /\ \A f \in hit : f > e
    BY DEF SearchIsRight
  <2> DEFINE hit == {search.found[k] : k \in DOMAIN search.found}
  <2>1. hit \subseteq Selected \ search.gone
    BY DEF SearchInv
  <2>2. ASSUME NEW e \in search.owed \ hit
        PROVE  Limit > 0 /\ Len(search.found) = Limit /\ \A f \in hit : f > e
    <3>1. e \in search.left
      BY <2>2 DEF SearchInv
    <3>2. Limit > 0 /\ Len(search.found) >= Limit /\ Len(search.found) <= Limit
      BY <3>1 DEF SearchInv, SearchOver
    <3>3. \A f \in hit : f > e
      BY <3>1 DEF SearchInv
    <3> QED
      BY <3>2, <3>3, MemTyped
  <2> QED
    BY <2>1, <2>2 DEF SearchInv
<1> QED
  BY <1>1, MemoryStart, MemoryTypeStep, StoreStep, SearchStep, PTL DEF MemorySpec
=============================================================================
