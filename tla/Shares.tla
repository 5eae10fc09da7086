-------------------------------- MODULE Shares --------------------------------
(***************************************************************************)
(* Trutella's shared directories (src/samples/trutella/trut.cpp) over the  *)
(* directory half of PTP::Collection (src/ptp/collect.cpp), driven by the  *)
(* console (src/samples/trutella/console.cpp) on one thread.  The state is *)
(* a record s:                                                             *)
(*   shared   Trut::m_shared, head first: [sid, path, ext, group];        *)
(*   dirs     Collection::m_dirs, head first: [path, ext, ctx];           *)
(*   entries  Collection::m_entries, head first: [name, id, ctx,           *)
(*            rescanned], name a file or, for a key data entry, a group;  *)
(*   mid      m_id;  nsid  the next Shared allocated;                      *)
(*   disk     the files that exist;  group  the console's s_group;         *)
(*   groups   groups[g]: "none" (not in m_groups), "pending" (a FindKey   *)
(*            reply started a key Get), "nokey" (the Get failed) or        *)
(*            "keyed";                                                     *)
(* and three history fields kept for the properties only: seen, the disk  *)
(* at the last Rescan; keys, the data entries Added, head first; dup,     *)
(* AddShared was given a path already shared.                              *)
(* A directory is a model value with its subdirectories Sub[d] and files  *)
(* Listing[d] in readdir order; a path outside DOMAIN Sub fails opendir.  *)
(* A file's name is the character sequence FName[f]; an extension list is *)
(* a character sequence, or None for NULL.                                 *)
(***************************************************************************)
EXTENDS Integers, Sequences

CONSTANTS None, Upper(_), Sub, Listing, FName

LOCAL G == INSTANCE Glob
LOCAL SE == INSTANCE SequencesExt

Dirs == DOMAIN Sub

\* CmpExt(name, ext) = 0: NULL and "" match every name.
Matches(f, ext) == G!CmpExt(FName[f], IF ext = None THEN <<>> ELSE ext) = 0

(***************************************************************************)
(* Collection::Add(entry): id = m_id++, then Insert at the head.           *)
(***************************************************************************)
AddEntry(s, e) == [s EXCEPT !.entries = <<[e EXCEPT !.id = s.mid]>> \o @,
                            !.mid = @ + 1]

\* Add(path, ext, context) inserts a Dir at the head of m_dirs; Remove(path)
\* deletes every Dir of that path.
CollectionAdd(s, path, ext, ctx) ==
    [s EXCEPT !.dirs = <<[path |-> path, ext |-> ext, ctx |-> ctx]>> \o @]
CollectionRemove(s, path) == [s EXCEPT !.dirs = SelectSeq(@, LAMBDA d : d.path # path)]

(***************************************************************************)
(* Scan(parent): a copy of parent starts the scan list; each directory     *)
(* taken from its head that opendir can open is appended to done and its  *)
(* subdirectories, with ext NULL and parent's context, are Inserted at    *)
(* the head in readdir order.  Then ScanDir(d, parent) runs on every done *)
(* directory in order.  There is no visited set: Sub must be a forest.    *)
(***************************************************************************)
RECURSIVE ScanWalk(_, _)
ScanWalk(scan, done) ==
    IF scan = <<>> THEN done
    ELSE LET d == Head(scan)
             kids == [k \in DOMAIN Sub[d.path] |->
                         [path |-> Sub[d.path][k], ext |-> None, ctx |-> d.ctx]]
         IN  IF d.path \notin Dirs THEN ScanWalk(Tail(scan), done)
             ELSE ScanWalk(SE!Reverse(kids) \o Tail(scan), Append(done, d))

\* Mutant: the Win32 ScanDir, which filters with d->m_ext, NULL below the
\* top directory.
ScanDirWin32(s, d, parent) ==
    LET add(acc, f) ==
            IF f \in acc.disk /\ Matches(f, d.ext)
            THEN AddEntry(acc, [name |-> f, id |-> 0, ctx |-> d.ctx, rescanned |-> TRUE])
            ELSE acc
    IN  SE!FoldLeft(add, s, Listing[d.path])

\* ScanDir(d, parent): every existing file of d whose name passes CmpExt
\* with parent's list is Added as an Entry with d's context, m_rescanned set.
ScanDir(s, d, parent) ==
    LET add(acc, f) ==
            IF f \in acc.disk /\ Matches(f, parent.ext)
            THEN AddEntry(acc, [name |-> f, id |-> 0, ctx |-> d.ctx, rescanned |-> TRUE])
            ELSE acc
    IN  SE!FoldLeft(add, s, Listing[d.path])

Scan(s, parent) ==
    LET dir(acc, d) == ScanDir(acc, d, parent)
    IN  SE!FoldLeft(dir, s, ScanWalk(<<parent>>, <<>>))

\* Rescan: the sweep deletes every entry a scan made and keeps the others,
\* then every Dir of m_dirs, head first, is scanned.
Rescan(s) ==
    SE!FoldLeft(Scan, [s EXCEPT !.entries = SelectSeq(@, LAMBDA e : ~e.rescanned),
                                !.seen = s.disk],
                s.dirs)

(***************************************************************************)
(* Trut's shared directories.  Each call ends in RescanAllShared.          *)
(***************************************************************************)
Live(s, sid) == {k \in DOMAIN s.shared : s.shared[k].sid = sid}

AddShared(s, path, ext, group) ==
    LET sh == [sid |-> s.nsid, path |-> path, ext |-> ext, group |-> group]
        s1 == [s EXCEPT !.shared = <<sh>> \o @, !.nsid = @ + 1,
                        !.dup = @ \/ \E k \in DOMAIN s.shared : s.shared[k].path = path]
    IN  Rescan(CollectionAdd(s1, path, ext, group))

\* A Shared is passed by pointer; only a listed one is ever passed.
RemoveShared(s, sid) ==
    IF Live(s, sid) = {} THEN s
    ELSE LET sh == s.shared[CHOOSE k \in Live(s, sid) : TRUE]
         IN  Rescan(CollectionRemove([s EXCEPT !.shared = SelectSeq(@, LAMBDA x : x.sid # sid)],
                                     sh.path))

\* Mutant: the old Dir is kept, m_collect.Remove is not called.
UpdateSharedKeepDir(s, sid, ext, group) ==
    IF Live(s, sid) = {} THEN s
    ELSE LET k == CHOOSE k \in Live(s, sid) : TRUE
             s1 == [s EXCEPT !.shared[k].ext = ext, !.shared[k].group = group]
         IN  Rescan(CollectionAdd(s1, s.shared[k].path, ext, group))

UpdateShared(s, sid, ext, group) ==
    IF Live(s, sid) = {} THEN s
    ELSE LET k == CHOOSE k \in Live(s, sid) : TRUE
             s1 == [CollectionRemove(s, s.shared[k].path)
                       EXCEPT !.shared[k].ext = ext, !.shared[k].group = group]
         IN  Rescan(CollectionAdd(s1, s.shared[k].path, ext, group))

RescanAllShared(s) == Rescan(s)

(***************************************************************************)
(* Groups, as far as they touch the console.  JoinGroup(name, wait, join):*)
(* a group that is new or has a key is (re)searched for its key; if a     *)
(* reply came within wait it returns and the key Get calls join later, if *)
(* the group already had its key it returns with no call at all, else it  *)
(* creates the key, Adds it as a data entry and calls join(JOIN_CREATED). *)
(* A group without a key gets join(JOIN_OK) at once.  FetchKey, on the    *)
(* Get's thread, sets the key and Adds it (GET_DONE) or fails, and calls  *)
(* join either way.  The console's Joined sets s_group whatever the       *)
(* status.  answered: some peer replied to the key search within wait.    *)
(***************************************************************************)
KeyEntry(g) == [name |-> g, id |-> 0, ctx |-> None, rescanned |-> FALSE]
AddKey(s, g) == [AddEntry(s, KeyEntry(g)) EXCEPT !.keys = <<KeyEntry(g)>> \o @]

JoinGroup(s, g, answered) ==
    LET st == s.groups[g]
    IN  CASE st = "keyed"              -> s
          [] st = "none" /\ answered   -> [s EXCEPT !.groups[g] = "pending"]
          [] st = "none" /\ ~answered  ->
                 [AddKey(s, g) EXCEPT !.groups[g] = "keyed", !.group = g]
          [] st \in {"pending", "nokey"} -> [s EXCEPT !.group = g]

FetchKey(s, g, ok) ==
    IF s.groups[g] # "pending" THEN s
    ELSE IF ok THEN [AddKey(s, g) EXCEPT !.groups[g] = "keyed", !.group = g]
    ELSE [s EXCEPT !.groups[g] = "nokey", !.group = g]

\* LeaveGroup(group): NULL is ignored.
LeaveGroup(s, g) == IF g = None THEN s ELSE [s EXCEPT !.groups[g] = "none"]

(***************************************************************************)
(* HandleCmds: one command line, cmd with arg (None when missing).  A     *)
(* command that needs arg and has none is skipped.  open, search, get,    *)
(* show and help change none of this state.                                *)
(***************************************************************************)
Command(s, cmd, arg, b) ==
    CASE cmd = "share" -> IF arg = None THEN s ELSE AddShared(s, arg, None, s.group)
      [] cmd = "join"  -> IF arg = None THEN s ELSE JoinGroup([s EXCEPT !.group = None], arg, b)
      [] cmd = "leave" -> [LeaveGroup(s, s.group) EXCEPT !.group = None]
      [] OTHER         -> s

(***************************************************************************)
(* A token [op, a, ext, grp, k, ok] is a console line (op the command, a  *)
(* its argument, ok whether the key search was answered), a call of       *)
(* another caller of the Trut API ("AddShared", "RemoveShared",           *)
(* "UpdateShared", "RescanAllShared"; k names a Shared by allocation), a  *)
(* key Get of group a finishing ("fetched", ok for GET_DONE), or file a   *)
(* vanishing from disk ("unlink").                                         *)
(***************************************************************************)
Step(s, t) ==
    CASE t.op = "AddShared"       -> AddShared(s, t.a, t.ext, t.grp)
      [] t.op = "RemoveShared"    -> RemoveShared(s, t.k)
      [] t.op = "UpdateShared"    -> UpdateShared(s, t.k, t.ext, t.grp)
      [] t.op = "RescanAllShared" -> RescanAllShared(s)
      [] t.op = "fetched"         -> FetchKey(s, t.a, t.ok)
      [] t.op = "unlink"          -> [s EXCEPT !.disk = @ \ {t.a}]
      [] OTHER                    -> Command(s, t.op, t.a, t.ok)

RECURSIVE Run(_, _)
Run(s, argv) == IF argv = <<>> THEN s ELSE Run(Step(s, Head(argv)), Tail(argv))

\* Trut(store): no shares, no directories, no entries, no groups.
Start(files, groups) ==
    [shared |-> <<>>, dirs |-> <<>>, entries |-> <<>>, mid |-> 0, nsid |-> 0,
     disk |-> files, group |-> None, groups |-> [g \in groups |-> "none"],
     seen |-> files, keys |-> <<>>, dup |-> FALSE]

=============================================================================
