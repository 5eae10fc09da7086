----------------------------- MODULE Collection -----------------------------
(***************************************************************************)
(* PTP::Collection (src/ptp/collect.cpp) over its intrusive list           *)
(* (src/ptp/list.cpp), as a Trutella node uses it from three threads:      *)
(*   - the console, whose AddShared/RemoveShared/UpdateShared/Rescan call  *)
(*     Rescan: a sweep of the previously scanned entries under the         *)
(*     m_entries lock, then a scan of the shared directories under the     *)
(*     m_dirs lock that Adds one entry per matching file;                  *)
(*   - a GetThread whose FetchKey Adds the group key as a data entry;      *)
(*   - a HostThread in HandleSearchRequest, which walks the collection     *)
(*     twice with Find(str, entry): once to count the matching entries    *)
(*     and size the reply, once to write them.                             *)
(* Find locks m_dirs, not m_entries, so its walk runs beside the sweep.   *)
(* The list is kept as the next/prev pointers of its elements, so a walker *)
(* that reaches an entry the sweep removed follows that entry's self-link. *)
(* Memory of a deleted entry keeps its last contents.                      *)
(***************************************************************************)
EXTENDS Naturals, FiniteSets

CONSTANTS
    Files,       \* regular files under the shared directory that match its filter
    FileGroup,   \* FileGroup[f]: the group (context) the directory is shared with
    KeyEntry,    \* the name of a data entry /secure/G/key
    NullCtx,     \* a NULL context: the key entry is made with Entry(name, data, size)
    SearchGroup, \* the group of the search request being answered
    MaxRescans, MaxFetches, MaxSearches

Console == "console"
Fetcher == "fetch"
Searcher == "search"
Threads == {Console, Fetcher, Searcher}
None == "none"

\* Element 0 is the list's sentinel m_head; elements 1.. are entries in
\* allocation order (new Entry).
MHead == 0
MaxObjs == Cardinality(Files) * MaxRescans + MaxFetches
Objs == 1 .. MaxObjs
Ptrs == 0 .. MaxObjs

VARIABLES
    nxt, prv,   \* m_next, m_prev of the sentinel and of every entry
    attr,       \* attr[o]: [id, name, rescanned] of entry o
    alloc,      \* entries allocated so far
    freed,      \* entries deleted
    mid,        \* m_id, the id counter
    msize,      \* m_size
    lockE,      \* holder of the m_entries mutex
    lockD,      \* holder of the m_dirs mutex
    pc,         \* pc[t]: where thread t is
    loc,        \* loc[t]: the id an Add of thread t has read from m_id
    new,        \* new[t]: [name, rescanned] of the entry thread t is adding
    ctmp,       \* the sweep's next pointer (__tmp_x of PTP_LIST_FOREACH)
    todo,       \* files the scan has still to Add
    rescans, fetches, searches,
    from,       \* the entry passed to Find as from (MHead for NULL)
    stmp,       \* the Find walk's next pointer
    sstart,     \* Find's start flag
    found,      \* the entry the last Find returned
    pass,       \* 1 while counting, 2 while writing the reply
    count,      \* count[1]: entries counted; count[2]: entries written
    uaf         \* some thread read a deleted entry

vars == <<nxt, prv, attr, alloc, freed, mid, msize, lockE, lockD, pc, loc,
          new, ctmp, todo, rescans, fetches, searches, from, stmp,
          sstart, found, pass, count, uaf>>

Names == Files \cup {KeyEntry}
Attr == [id : Nat, name : Names, rescanned : BOOLEAN]

\* Entry::GetContext: a scanned file carries its directory's group, the
\* key entry the group it is the key of.
Ctx(o) == IF attr[o].name = KeyEntry THEN NullCtx ELSE FileGroup[attr[o].name]

\* The entries reachable from the sentinel, i.e. the members of m_entries.
RECURSIVE Walk(_, _)
Walk(o, seen) == IF o = MHead \/ o \in seen THEN seen
                 ELSE Walk(nxt[o], seen \cup {o})
Live == Walk(nxt[MHead], {})

TypeOK ==
    /\ nxt \in [Ptrs -> Ptrs] /\ prv \in [Ptrs -> Ptrs]
    /\ attr \in [Objs -> Attr]
    /\ alloc \in 0 .. MaxObjs /\ freed \subseteq Objs
    /\ mid \in 0 .. MaxObjs /\ msize \in 0 .. MaxObjs
    /\ lockE \in Threads \cup {None} /\ lockD \in Threads \cup {None}
    /\ pc \in [Threads -> {"idle", "sweep", "scan_lock", "scan", "add_rd",
                           "add_wr", "add_ins", "find", "walk", "examine"}]
    /\ loc \in [Threads -> Nat]
    /\ new \in [Threads -> [name : Names, rescanned : BOOLEAN]]
    /\ ctmp \in Ptrs /\ todo \subseteq Files
    /\ from \in Ptrs /\ stmp \in Ptrs /\ sstart \in BOOLEAN /\ found \in Ptrs
    /\ pass \in {1, 2} /\ count \in [{1, 2} -> Nat]
    /\ uaf \in BOOLEAN

Init ==
    /\ nxt = [o \in Ptrs |-> o] /\ prv = [o \in Ptrs |-> o]
    /\ attr = [o \in Objs |-> [id |-> 0, name |-> KeyEntry, rescanned |-> FALSE]]
    /\ alloc = 0 /\ freed = {}
    /\ mid = 0 /\ msize = 0
    /\ lockE = None /\ lockD = None
    /\ pc = [t \in Threads |-> "idle"]
    /\ loc = [t \in Threads |-> 0]
    /\ new = [t \in Threads |-> [name |-> KeyEntry, rescanned |-> FALSE]]
    /\ ctmp = MHead /\ todo = {}
    /\ rescans = 0 /\ fetches = 0 /\ searches = 0
    /\ from = MHead /\ stmp = MHead /\ sstart = FALSE /\ found = MHead
    /\ pass = 1 /\ count = [i \in {1, 2} |-> 0]
    /\ uaf = FALSE

(***************************************************************************)
(* List::Insert(entry) at the head and List::Remove(entry), which leaves   *)
(* the removed entry linked to itself.  Both run under the list lock.     *)
(***************************************************************************)
Insert(o) ==
    /\ nxt' = [nxt EXCEPT ![o] = nxt[MHead], ![MHead] = o]
    /\ prv' = [prv EXCEPT ![o] = MHead, ![nxt[MHead]] = o]

\* Mutant: next->m_prev = prev is lost.
RemoveNoPrev(x) ==
    /\ nxt' = [nxt EXCEPT ![prv[x]] = nxt[x], ![x] = x]
    /\ prv' = [prv EXCEPT ![x] = x]

\* Mutant: prev->m_next = next is lost.
RemoveNoNext(x) ==
    /\ nxt' = [nxt EXCEPT ![x] = x]
    /\ prv' = [prv EXCEPT ![nxt[x]] = prv[x], ![x] = x]

Remove(x) ==
    /\ nxt' = [nxt EXCEPT ![prv[x]] = nxt[x], ![x] = x]
    /\ prv' = [prv EXCEPT ![nxt[x]] = prv[x], ![x] = x]

(***************************************************************************)
(* Collection::Add(entry): id = m_id++ outside any lock (a load and a      *)
(* store), then Insert and m_size++ under the m_entries lock.  The caller  *)
(* continues at Ret(t).                                                    *)
(***************************************************************************)
Ret(t) == IF t = Console THEN "scan" ELSE "idle"

AddRead(t) ==
    /\ pc[t] = "add_rd"
    /\ loc' = [loc EXCEPT ![t] = mid]
    /\ pc' = [pc EXCEPT ![t] = "add_wr"]
    /\ UNCHANGED <<nxt, prv, attr, alloc, freed, mid, msize, lockE, lockD, new,
                   ctmp, todo, rescans, fetches, searches, from, stmp,
                   sstart, found, pass, count, uaf>>

AddWrite(t) ==
    /\ pc[t] = "add_wr"
    /\ mid' = loc[t] + 1
    /\ pc' = [pc EXCEPT ![t] = "add_ins"]
    /\ UNCHANGED <<nxt, prv, attr, alloc, freed, msize, lockE, lockD, loc, new,
                   ctmp, todo, rescans, fetches, searches, from, stmp,
                   sstart, found, pass, count, uaf>>

AddInsert(t) ==
    /\ pc[t] = "add_ins"
    /\ lockE = None
    /\ alloc < MaxObjs
    /\ LET o == alloc + 1 IN
       /\ alloc' = o
       /\ attr' = [attr EXCEPT ![o] = [id |-> loc[t], name |-> new[t].name,
                                       rescanned |-> new[t].rescanned]]
       /\ Insert(o)
    /\ msize' = msize + 1
    /\ pc' = [pc EXCEPT ![t] = Ret(t)]
    /\ UNCHANGED <<freed, mid, lockE, lockD, loc, new, ctmp, todo, rescans,
                   fetches, searches, from, stmp, sstart, found, pass,
                   count, uaf>>

(***************************************************************************)
(* Collection::Rescan on the console thread.  RescanBegin locks m_entries, *)
(* zeroes m_size and starts PTP_LIST_FOREACH; each SweepStep reads the     *)
(* next pointer, then removes and deletes an entry a scan made or counts   *)
(* one that was added directly.  The scan then holds m_dirs while Scan and *)
(* ScanDir Add an entry, flagged m_rescanned, for every matching file.     *)
(***************************************************************************)
\* Mutant: m_size is not zeroed before the sweep counts the kept entries.
RescanBeginNoReset ==
    /\ pc[Console] = "idle" /\ rescans < MaxRescans
    /\ lockE = None
    /\ lockE' = Console
    /\ UNCHANGED msize
    /\ ctmp' = nxt[MHead]
    /\ pc' = [pc EXCEPT ![Console] = "sweep"]
    /\ UNCHANGED <<nxt, prv, attr, alloc, freed, mid, lockD, loc, new, todo,
                   rescans, fetches, searches, from, stmp, sstart, found, pass,
                   count, uaf>>

RescanBegin ==
    /\ pc[Console] = "idle" /\ rescans < MaxRescans
    /\ lockE = None
    /\ lockE' = Console
    /\ msize' = 0
    /\ ctmp' = nxt[MHead]
    /\ pc' = [pc EXCEPT ![Console] = "sweep"]
    /\ UNCHANGED <<nxt, prv, attr, alloc, freed, mid, lockD, loc, new, todo,
                   rescans, fetches, searches, from, stmp, sstart, found, pass,
                   count, uaf>>

\* Mutant: the next pointer is read after the body, from the removed entry.
SweepStepLateNext ==
    /\ pc[Console] = "sweep" /\ ctmp # MHead
    /\ LET x == ctmp IN
       /\ IF attr[x].rescanned
          THEN /\ Remove(x)
               /\ ctmp' = x
               /\ freed' = freed \cup {x}
               /\ UNCHANGED msize
          ELSE /\ ctmp' = nxt[x]
               /\ msize' = msize + 1
               /\ UNCHANGED <<nxt, prv, freed>>
    /\ UNCHANGED <<attr, alloc, mid, lockE, lockD, pc, loc, new, todo, rescans,
                   fetches, searches, from, stmp, sstart, found, pass,
                   count, uaf>>

SweepStep ==
    /\ pc[Console] = "sweep" /\ ctmp # MHead
    /\ LET x == ctmp IN
       /\ ctmp' = nxt[x]
       /\ IF attr[x].rescanned
          THEN /\ Remove(x)
               /\ freed' = freed \cup {x}
               /\ UNCHANGED msize
          ELSE /\ msize' = msize + 1
               /\ UNCHANGED <<nxt, prv, freed>>
    /\ UNCHANGED <<attr, alloc, mid, lockE, lockD, pc, loc, new, todo, rescans,
                   fetches, searches, from, stmp, sstart, found, pass,
                   count, uaf>>

SweepEnd ==
    /\ pc[Console] = "sweep" /\ ctmp = MHead
    /\ lockE' = None
    /\ pc' = [pc EXCEPT ![Console] = "scan_lock"]
    /\ UNCHANGED <<nxt, prv, attr, alloc, freed, mid, msize, lockD, loc, new,
                   ctmp, todo, rescans, fetches, searches, from, stmp,
                   sstart, found, pass, count, uaf>>

ScanLock ==
    /\ pc[Console] = "scan_lock" /\ lockD = None
    /\ lockD' = Console
    /\ todo' = Files
    /\ pc' = [pc EXCEPT ![Console] = "scan"]
    /\ UNCHANGED <<nxt, prv, attr, alloc, freed, mid, msize, lockE, loc, new,
                   ctmp, rescans, fetches, searches, from, stmp, sstart,
                   found, pass, count, uaf>>

\* Mutant: ScanDir does not set entry->m_rescanned before Add.
ScanFileUnflagged(f) ==
    /\ pc[Console] = "scan" /\ f \in todo
    /\ todo' = todo \ {f}
    /\ new' = [new EXCEPT ![Console] = [name |-> f, rescanned |-> FALSE]]
    /\ pc' = [pc EXCEPT ![Console] = "add_rd"]
    /\ UNCHANGED <<nxt, prv, attr, alloc, freed, mid, msize, lockE, lockD, loc,
                   ctmp, rescans, fetches, searches, from, stmp, sstart,
                   found, pass, count, uaf>>

ScanFile(f) ==
    /\ pc[Console] = "scan" /\ f \in todo
    /\ todo' = todo \ {f}
    /\ new' = [new EXCEPT ![Console] = [name |-> f, rescanned |-> TRUE]]
    /\ pc' = [pc EXCEPT ![Console] = "add_rd"]
    /\ UNCHANGED <<nxt, prv, attr, alloc, freed, mid, msize, lockE, lockD, loc,
                   ctmp, rescans, fetches, searches, from, stmp, sstart,
                   found, pass, count, uaf>>

ScanEnd ==
    /\ pc[Console] = "scan" /\ todo = {}
    /\ lockD' = None
    /\ rescans' = rescans + 1
    /\ pc' = [pc EXCEPT ![Console] = "idle"]
    /\ UNCHANGED <<nxt, prv, attr, alloc, freed, mid, msize, lockE, loc, new,
                   ctmp, todo, fetches, searches, from, stmp, sstart,
                   found, pass, count, uaf>>

\* FetchKey on a GetThread: the downloaded key becomes the data entry
\* /secure/G/key, Added with m_rescanned clear.
FetchKey ==
    /\ pc[Fetcher] = "idle" /\ fetches < MaxFetches
    /\ fetches' = fetches + 1
    /\ new' = [new EXCEPT ![Fetcher] = [name |-> KeyEntry, rescanned |-> FALSE]]
    /\ pc' = [pc EXCEPT ![Fetcher] = "add_rd"]
    /\ UNCHANGED <<nxt, prv, attr, alloc, freed, mid, msize, lockE, lockD, loc,
                   ctmp, todo, rescans, searches, from, stmp, sstart,
                   found, pass, count, uaf>>

(***************************************************************************)
(* HandleSearchRequest on a HostThread: pass 1 counts the entries of the   *)
(* searched group that Find(str, entry) returns, and gives up if there are *)
(* none; pass 2 walks again and writes each such entry into the reply      *)
(* buffer sized by pass 1.  Every entry's name is taken to match str.      *)
(***************************************************************************)
SearchBegin ==
    /\ pc[Searcher] = "idle" /\ searches < MaxSearches
    /\ searches' = searches + 1
    /\ pass' = 1
    /\ count' = [i \in {1, 2} |-> 0]
    /\ from' = MHead
    /\ pc' = [pc EXCEPT ![Searcher] = "find"]
    /\ UNCHANGED <<nxt, prv, attr, alloc, freed, mid, msize, lockE, lockD, loc,
                   new, ctmp, todo, rescans, fetches, stmp, sstart,
                   found, uaf>>

\* Collection::Find(pat, from): lock m_dirs, start = (from == NULL), and
\* begin PTP_LIST_FOREACH over m_entries.
FindBegin ==
    /\ pc[Searcher] = "find" /\ lockD = None
    /\ lockD' = Searcher
    /\ stmp' = nxt[MHead]
    /\ sstart' = (from = MHead)
    /\ pc' = [pc EXCEPT ![Searcher] = "walk"]
    /\ UNCHANGED <<nxt, prv, attr, alloc, freed, mid, msize, lockE, loc, new,
                   ctmp, todo, rescans, fetches, searches, from, found,
                   pass, count, uaf>>

\* One iteration: i = __tmp, __tmp = i->GetNext(); if start, the name of i
\* is matched and Find returns i, else start is set once i == from.
FindStep ==
    /\ pc[Searcher] = "walk" /\ stmp # MHead
    /\ LET i == stmp IN
       /\ stmp' = nxt[i]
       /\ uaf' = (uaf \/ i \in freed)
       /\ IF sstart
          THEN /\ found' = i
               /\ lockD' = None
               /\ pc' = [pc EXCEPT ![Searcher] = "examine"]
               /\ UNCHANGED sstart
          ELSE /\ sstart' = (i = from)
               /\ UNCHANGED <<found, lockD, pc>>
    /\ UNCHANGED <<nxt, prv, attr, alloc, freed, mid, msize, lockE, loc, new,
                   ctmp, todo, rescans, fetches, searches, from, pass,
                   count>>

\* The walk reaches the sentinel: Find returns NULL and the pass ends.
FindEnd ==
    /\ pc[Searcher] = "walk" /\ stmp = MHead
    /\ lockD' = None
    /\ found' = MHead
    /\ IF pass = 1 /\ count[1] > 0
       THEN /\ pass' = 2
            /\ from' = MHead
            /\ pc' = [pc EXCEPT ![Searcher] = "find"]
       ELSE /\ pc' = [pc EXCEPT ![Searcher] = "idle"]
            /\ UNCHANGED <<pass, from>>
    /\ UNCHANGED <<nxt, prv, attr, alloc, freed, mid, msize, lockE, loc, new,
                   ctmp, todo, rescans, fetches, searches, stmp, sstart,
                   count, uaf>>

\* The caller reads entry->GetContext() (and in pass 2 its id, size and
\* name) and calls Find(str, entry) again.
Examine ==
    /\ pc[Searcher] = "examine"
    /\ uaf' = (uaf \/ found \in freed)
    /\ count' = IF Ctx(found) = SearchGroup
                THEN [count EXCEPT ![pass] = @ + 1] ELSE count
    /\ from' = found
    /\ pc' = [pc EXCEPT ![Searcher] = "find"]
    /\ UNCHANGED <<nxt, prv, attr, alloc, freed, mid, msize, lockE, lockD, loc,
                   new, ctmp, todo, rescans, fetches, searches, stmp,
                   sstart, found, pass>>

\* Every thread is idle and has made all its calls.
Finished ==
    /\ \A t \in Threads : pc[t] = "idle"
    /\ rescans = MaxRescans /\ fetches = MaxFetches /\ searches = MaxSearches
    /\ UNCHANGED vars

Adding(t) == AddRead(t) \/ AddWrite(t) \/ AddInsert(t)

Next ==
    \/ RescanBegin \/ SweepStep \/ SweepEnd \/ ScanLock
    \/ \E f \in Files : ScanFile(f)
    \/ ScanEnd \/ FetchKey
    \/ \E t \in {Console, Fetcher} : Adding(t)
    \/ SearchBegin \/ FindBegin \/ FindStep \/ FindEnd \/ Examine
    \/ Finished

\* Once a thread is inside a call it keeps being scheduled; the calls
\* themselves (a rescan, a download, a search request) are not forced.
Fairness ==
    /\ WF_vars(SweepStep) /\ WF_vars(SweepEnd) /\ WF_vars(ScanLock)
    /\ WF_vars(\E f \in Files : ScanFile(f)) /\ WF_vars(ScanEnd)
    /\ \A t \in {Console, Fetcher} : WF_vars(Adding(t))
    /\ WF_vars(FindBegin) /\ WF_vars(FindStep) /\ WF_vars(FindEnd)
    /\ WF_vars(Examine)

Spec == Init /\ [][Next]_vars /\ Fairness

=============================================================================
