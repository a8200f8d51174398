----------------------------- MODULE MemoryStore -----------------------------
(***************************************************************************)
(* The memory store (internal/memory/store.go) behind the memory routes     *)
(* (internal/daemon/routes_memory.go): one file for each entry, and an      *)
(* index that is kept in memory and rewritten at each change.               *)
(*                                                                         *)
(* The lock protects the index only: the entry's file is written before it  *)
(* is taken and removed before it is taken, and a search reads the files    *)
(* one by one after it has copied the index.  Entries are numbered by their *)
(* creation time.  What a text or tag query selects is a set here.          *)
(***************************************************************************)
EXTENDS Naturals, Sequences, FiniteSets

CONSTANTS
  MaxEntries,     \* bound: entries ever saved
  Selected,       \* those that the query and the tags select
  Limit,          \* limit of the search, 0 for none
  MaxMemFaults,   \* bound: writes that fail
  MaxMemCrashes,  \* bound: daemon crashes
  MaxSearches     \* bound: searches

EntryIds == 1 .. MaxEntries

ASSUME MemoryAssumption ==
  /\ MaxEntries \in Nat /\ Selected \subseteq EntryIds /\ Limit \in Nat
  /\ MaxMemFaults \in Nat /\ MaxMemCrashes \in Nat /\ MaxSearches \in Nat

VARIABLES
  entryFile,   \* entries whose file exists
  idx,         \* Store.idx: entries listed in memory
  diskIdx,     \* index.json
  saving,      \* progress of Save, by entry
  deleting,    \* progress of Delete, by entry
  search,      \* the search in progress: entries to read, results, what it owes
  memFaults, memCrashes, searches

memVars == <<entryFile, idx, diskIdx, saving, deleting, search,
             memFaults, memCrashes, searches>>

-----------------------------------------------------------------------------
NoSearch == [pc |-> "idle", left |-> {}, found |-> <<>>, owed |-> {}, gone |-> {}]

MemFail == memFaults < MaxMemFaults /\ memFaults' = memFaults + 1

MemoryInit ==
  /\ entryFile = {} /\ idx = {} /\ diskIdx = {}
  /\ saving = [e \in EntryIds |-> "new"] /\ deleting = [e \in EntryIds |-> "no"]
  /\ search = NoSearch
  /\ memFaults = 0 /\ memCrashes = 0 /\ searches = 0

(* persistIndex, with the lock held: the change in memory stays in any case. *)
PersistIndex(op, e, done) ==
  \/ diskIdx' = idx' /\ op' = [op EXCEPT ![e] = done] /\ UNCHANGED memFaults
  \/ MemFail /\ op' = [op EXCEPT ![e] = "error"] /\ UNCHANGED diskIdx

(* Save: the file first, ... *)
WriteEntry(e) ==
  /\ saving[e] = "new" /\ \A earlier \in 1 .. e - 1 : saving[earlier] # "new"
  /\ \/ /\ entryFile' = entryFile \union {e} /\ UNCHANGED memFaults
        /\ saving' = [saving EXCEPT ![e] = "written"]
     \/ /\ MemFail /\ UNCHANGED entryFile
        /\ saving' = [saving EXCEPT ![e] = "error"]
  /\ UNCHANGED <<idx, diskIdx, deleting, search, memCrashes, searches>>

(* Fault: the index that is written is the one from before. *)
IndexEntryLate(e) ==
  /\ saving[e] = "written"
  /\ idx' = idx \union {e} /\ diskIdx' = idx
  /\ saving' = [saving EXCEPT ![e] = "saved"]
  /\ UNCHANGED <<entryFile, deleting, search, memFaults, memCrashes, searches>>

(* ... then the index.  An error here leaves the entry listed in memory. *)
IndexEntry(e) ==
  /\ saving[e] = "written"
  /\ idx' = idx \union {e}
  /\ PersistIndex(saving, e, "saved")
  /\ UNCHANGED <<entryFile, deleting, search, memCrashes, searches>>

(* Delete: the file first, whether it is still there or not, ... *)
RemoveEntry(e) ==
  /\ (deleting[e] = "no" /\ e \in idx) \/ deleting[e] = "error"
  /\ \/ /\ entryFile' = entryFile \ {e} /\ UNCHANGED memFaults
        /\ deleting' = [deleting EXCEPT ![e] = "removed"]
        /\ search' = [search EXCEPT !.owed = @ \ {e}]
     \/ /\ MemFail /\ deleting' = [deleting EXCEPT ![e] = "error"]
        /\ UNCHANGED <<entryFile, search>>
  /\ UNCHANGED <<idx, diskIdx, saving, memCrashes, searches>>

(* ... then the index, which is filtered in place. *)
UnindexEntry(e) ==
  /\ deleting[e] = "removed"
  /\ idx' = idx \ {e}
  /\ PersistIndex(deleting, e, "deleted")
  /\ UNCHANGED <<entryFile, saving, search, memCrashes, searches>>

(* The copy of the index is read in the order of the sort: the newest first. *)
Newest(s) == CHOOSE e \in s : \A other \in s : other <= e

(* Search copies the index; owed and gone note what was saved, and what was
   deleted, before it began. *)
BeginSearch ==
  /\ search.pc = "idle" /\ searches < MaxSearches /\ searches' = searches + 1
  /\ search' = [pc |-> "reading", left |-> idx, found |-> <<>>,
                owed |-> {e \in Selected : saving[e] = "saved" /\ deleting[e] = "no"},
                gone |-> {e \in EntryIds : deleting[e] = "deleted"}]
  /\ UNCHANGED <<entryFile, idx, diskIdx, saving, deleting, memFaults, memCrashes>>

(* Fault: an entry that cannot be read ends the search. *)
ReadNextStopping ==
  /\ search.pc = "reading"
  /\ LET e == Newest(search.left) IN
       search' = IF search.left = {} \/ e \notin entryFile
                   THEN [search EXCEPT !.pc = "answered"]
                   ELSE [search EXCEPT !.left = @ \ {e},
                           !.found = IF e \in Selected THEN Append(@, e) ELSE @]
  /\ UNCHANGED <<entryFile, idx, diskIdx, saving, deleting, memFaults, memCrashes, searches>>

(* The loop is over: nothing is left to read, or the limit is reached. *)
SearchOver == search.left = {} \/ (Limit > 0 /\ Len(search.found) >= Limit)

(* One entry of the loop: what cannot be read is passed over. *)
ReadNext ==
  /\ search.pc = "reading"
  /\ LET e == Newest(search.left)
     IN search' = IF SearchOver THEN [search EXCEPT !.pc = "answered"]
                    ELSE [search EXCEPT !.left = @ \ {e},
                            !.found = IF e \in Selected \cap entryFile THEN Append(@, e) ELSE @]
  /\ UNCHANGED <<entryFile, idx, diskIdx, saving, deleting, memFaults, memCrashes, searches>>

EndSearch ==
  /\ search.pc = "answered" /\ search' = NoSearch
  /\ UNCHANGED <<entryFile, idx, diskIdx, saving, deleting, memFaults, memCrashes, searches>>

(* NewStore after a crash: the index is what the disk holds. *)
ReopenStore ==
  /\ memCrashes < MaxMemCrashes /\ memCrashes' = memCrashes + 1
  /\ idx' = diskIdx /\ search' = NoSearch
  /\ saving' = [e \in EntryIds |-> IF saving[e] = "written" THEN "error" ELSE saving[e]]
  /\ deleting' = [e \in EntryIds |-> IF deleting[e] = "removed" THEN "error" ELSE deleting[e]]
  /\ UNCHANGED <<entryFile, diskIdx, memFaults, searches>>

MemoryNext ==
  \/ \E e \in EntryIds : WriteEntry(e) \/ IndexEntry(e) \/ RemoveEntry(e) \/ UnindexEntry(e)
  \/ BeginSearch \/ ReadNext \/ EndSearch \/ ReopenStore

MemorySpec == MemoryInit /\ [][MemoryNext]_memVars

-----------------------------------------------------------------------------
(* Correctness. *)

(* Every variable keeps to its domain; an entry is listed only once its file
   was written, and the index on disk lists no entry that memory never listed. *)
MemoryTypeOK ==
  /\ entryFile \subseteq EntryIds /\ idx \subseteq EntryIds /\ diskIdx \subseteq EntryIds
  /\ saving \in [EntryIds -> {"new", "written", "saved", "error"}]
  /\ deleting \in [EntryIds -> {"no", "removed", "deleted", "error"}]
  /\ \A e \in idx \union diskIdx : saving[e] \in {"saved", "error"}
  /\ search \in [pc: {"idle", "reading", "answered"}, left: SUBSET EntryIds, found: Seq(EntryIds),
                 owed: SUBSET EntryIds, gone: SUBSET EntryIds]

(* An entry whose Save returned, and nobody deletes, survives a crash at any
   time, whatever other writes fail: its file exists and both indexes list it.
   An entry whose deletion returned is in neither index and has no file. *)
StoreIsDurable ==
  \A e \in EntryIds :
    /\ saving[e] = "saved" /\ deleting[e] = "no" => e \in entryFile \cap idx \cap diskIdx
    /\ deleting[e] = "deleted" => e \notin entryFile \union idx \union diskIdx

(* The inductive invariant behind it: a deletion begins only of an entry that was
   listed, and removes the file before anything else; a file that was written
   stays until then. *)
StoreInv ==
  /\ StoreIsDurable
  /\ \A e \in EntryIds :
       /\ deleting[e] # "no" => saving[e] \in {"saved", "error"}
       /\ deleting[e] = "removed" => e \notin entryFile
       /\ saving[e] = "written" => e \in entryFile

(* What a search answers, though entries come and go while it reads: no entry
   twice, newest first, none that was deleted before it began, and every
   selected entry that was saved before it began and is not deleted meanwhile,
   unless the limit filled up with newer ones. *)
SearchIsRight ==
  search.pc = "answered" =>
    LET hit == {search.found[k] : k \in DOMAIN search.found}
    IN /\ \A j, k \in DOMAIN search.found : j < k => search.found[j] > search.found[k]
       /\ hit \subseteq Selected \ search.gone
       /\ Limit > 0 => Len(search.found) <= Limit
       /\ \A e \in search.owed \ hit :
            Limit > 0 /\ Len(search.found) = Limit /\ \A f \in hit : f > e

(* The inductive invariant behind it: what was found is newer than what is left;
   what the search owes has a file, and is found or left; what was gone has none. *)
SearchInv ==
  LET found == search.found
  IN /\ \A j, k \in DOMAIN found : j < k => found[j] > found[k]
     /\ \A k \in DOMAIN found : found[k] \in Selected \ search.gone
     /\ \A k \in DOMAIN found, e \in search.left : found[k] > e
     /\ Limit > 0 => Len(found) <= Limit
     /\ \A e \in search.owed :
          e \in Selected \cap entryFile /\ (e \in search.left \/ \E k \in DOMAIN found : found[k] = e)
     /\ \A e \in search.gone : deleting[e] = "deleted"
     /\ search.pc = "answered" => SearchOver
=============================================================================
