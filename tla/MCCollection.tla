---------------------------- MODULE MCCollection ----------------------------
(***************************************************************************)
(* Two matching files in one directory shared with group g, two rescans,   *)
(* one FetchKey of g's key and one search request of g.                    *)
(***************************************************************************)
EXTENDS Collection, Sequences

CONSTANTS f1, f2, g, k

MCFiles == {f1, f2}
MCFileGroup == [f \in MCFiles |-> g]

\* The pointers of m_entries form one ring through the sentinel: every
\* member's successor points back at it, and no member has been deleted.
\* Insert and Remove run under the m_entries lock from the console and the
\* GetThread while Find's walks read the pointers without it.
ListWellFormed ==
    /\ \A o \in Live \cup {MHead} : prv[nxt[o]] = o
    /\ Live \cap freed = {}

\* After a completed Rescan every matching file on disk has exactly one
\* entry: the sweep removed all entries of the previous scan and ScanDir
\* Added one per file, even with FetchKey's entry inserted meanwhile.
OneEntryPerFile ==
    rescans > 0 /\ pc[Console] = "idle" =>
        \A f \in Files : Cardinality({o \in Live : attr[o].name = f}) = 1

\* No two entries of the collection have the same id (spec 4.H and 5:
\* the id counter is mutated under the structure's lock).  Add does
\* m_id++ before taking the m_entries lock, from the console's scan and
\* from FetchKey's GetThread.
UniqueIds ==
    \A o1, o2 \in Live : o1 # o2 => attr[o1].id # attr[o2].id

\* No thread reads an entry the sweep of Rescan has deleted: Find holds
\* m_dirs while it walks m_entries, and the sweep holds only m_entries.
NoUseAfterFree == ~uaf

\* HandleSearchRequest never writes more entries into the reply than its
\* first pass counted and sized the buffer for.
ReplyFits == count[2] <= count[1]

\* m_entries as seen from the sentinel: the entries m_next leads through.
RECURSIVE Chain(_, _)
Chain(o, seen) == IF o = MHead \/ o \in seen THEN <<>>
                  ELSE <<o>> \o Chain(nxt[o], seen \cup {o})
Abstract == INSTANCE ListSpec WITH Elems <- Objs, elems <- Chain(nxt[MHead], {})

\* List::Insert and List::Remove, rewiring m_next and m_prev under the
\* m_entries lock while the sweep and Find walk the same pointers, implement
\* the sequence of ListSpec: every step leaves the order of m_entries as
\* it was, puts one new entry at its head or takes out exactly one entry.
ListRefinesSequence == Abstract!Spec

\* Every Rescan's sweep reaches the sentinel and releases m_entries:
\* PTP_LIST_FOREACH reads the next pointer before the body removes the
\* entry, so the self-link Remove leaves behind is never followed.
SweepEnds == pc[Console] = "sweep" ~> pc[Console] = "scan_lock"

=============================================================================
