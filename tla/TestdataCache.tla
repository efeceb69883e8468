--------------------------- MODULE TestdataCache ---------------------------
(***************************************************************************)
(* The node's cache of one problem's test data (testdata/cache.go,         *)
(* cleanup.go, manage.go): Ensure downloads a new version and swaps it in, *)
(* the cleaner removes the problem under the client's lock, and the web    *)
(* console (or the cleaner of a former runtime, which has a lock of its    *)
(* own) removes it without.  The node can be killed between any two calls  *)
(* of the file system.                                                     *)
(***************************************************************************)
EXTENDS Integers

CONSTANT MaxVersion    \* bound on the versions the server publishes

Versions == 1 .. MaxVersion

\* A directory of cases: its version, and whether all the cases are there.
Tree == [ver : Versions, whole : BOOLEAN]
NoTree == [ver |-> 0, whole |-> FALSE]
Whole(v) == [ver |-> v, whole |-> TRUE]
Torn(t) == [t EXCEPT !.whole = FALSE]

VARIABLES
    published,  \* the server's version
    dir,        \* testdata
    old,        \* testdata.old
    tmp,        \* testdata-new-*
    version,    \* data-version, 0 when it is missing or empty
    phase,      \* Ensure: "idle", "ask", "unzip", "backup", "swap",
                \*   "trunc", "write", "purge", "load", "got", "error"
    local,      \* localVersion
    remote,     \* remoteVersion
    loaded,     \* what LoadCases read
    remover,    \* "none", "cleaner", "console"
    listed,     \* the entries it has still to remove
    damaged     \* a removal was cut off by a crash or an error, or met an
                \*   Ensure, and no download has replaced the data since

ensureVars == <<phase, local, remote, loaded>>
removeVars == <<remover, listed>>
diskVars == <<dir, old, tmp, version>>
cacheVars == <<published, diskVars, ensureVars, removeVars, damaged>>

Locked == phase \notin {"idle", "got", "error"} \/ remover = "cleaner"

\* The server is external: a new version now and then.
Publish ==
    /\ published < MaxVersion
    /\ published' = published + 1
    /\ UNCHANGED <<diskVars, ensureVars, removeVars, damaged>>

-----------------------------------------------------------------------------
(* Ensure *)

Goto(s) == phase' = s

ReadVersion ==
    /\ ~Locked
    /\ local' = version /\ remote' = 0 /\ loaded' = NoTree
    /\ Goto("ask")
    /\ damaged' = (damaged \/ remover = "console")
    /\ UNCHANGED <<published, diskVars, removeVars>>

\* The answer is "not modified", a zip or an error; without a usable
\* X-Data-Version the version stays the local one.
Ask ==
    /\ phase = "ask"
    /\ \/ Goto(IF local = published THEN "load" ELSE "unzip") /\ remote' = published
       \/ Goto("error") /\ UNCHANGED remote
    /\ UNCHANGED <<published, diskVars, local, loaded, removeVars, damaged>>

\* The data come out of the zip whole or not at all: an entry that may not be
\* there, or cannot be written, is an error.
UnzipSafe(v) == {Whole(v), NoTree}

\* The zip is copied, unpacked beside the data and loaded as a test; a
\* temporary directory that fails is removed.
Unzip ==
    /\ phase = "unzip"
    /\ tmp' \in UnzipSafe(remote)
    /\ Goto(IF tmp' = NoTree THEN "error" ELSE "backup")
    /\ UNCHANGED <<published, dir, old, version, local, remote, loaded, removeVars, damaged>>

\* os.RemoveAll(oldDir), then the data is renamed away.
Backup ==
    /\ phase = "backup"
    /\ \/ old' = dir /\ dir' = NoTree /\ Goto("swap") /\ UNCHANGED tmp
       \/ old' = NoTree /\ tmp' = NoTree /\ Goto("error") /\ UNCHANGED dir
    /\ UNCHANGED <<published, version, local, remote, loaded, removeVars, damaged>>

\* A failed rename puts the old data back, if that can be done.
Swap ==
    /\ phase = "swap"
    /\ \/ tmp # NoTree /\ dir' = tmp /\ Goto("trunc") /\ UNCHANGED old
       \/ /\ Goto("error")
          /\ \/ dir' = old /\ old' = NoTree
             \/ UNCHANGED <<dir, old>>
    /\ tmp' = NoTree
    /\ UNCHANGED <<published, version, local, remote, loaded, removeVars, damaged>>

\* os.WriteFile truncates the file and writes it.
TruncVersion ==
    /\ phase = "trunc"
    /\ version' = 0 /\ Goto("write")
    /\ UNCHANGED <<published, dir, old, tmp, local, remote, loaded, removeVars, damaged>>

WriteVersion ==
    /\ phase = "write"
    /\ \/ version' = remote /\ Goto("purge") /\ damaged' = (remover = "console" \/ (damaged /\ dir # Whole(remote)))
       \/ Goto("error") /\ UNCHANGED <<version, damaged>>
    /\ UNCHANGED <<published, dir, old, tmp, local, remote, loaded, removeVars>>

Purge ==
    /\ phase = "purge"
    /\ old' = NoTree /\ Goto("load")
    /\ UNCHANGED <<published, dir, tmp, version, local, remote, loaded, removeVars, damaged>>

\* LoadCases takes the pairs it finds, and fails when there are none.
LoadCases ==
    /\ phase = "load"
    /\ \/ dir # NoTree /\ loaded' = dir /\ Goto("got")
       \/ dir = NoTree /\ Goto("error") /\ UNCHANGED loaded
    /\ UNCHANGED <<published, diskVars, local, remote, removeVars, damaged>>

-----------------------------------------------------------------------------
(* Removal of the problem's directory: os.RemoveAll lists it and removes the
   entries one by one in any order, a directory file by file. *)

Entries ==
    {e \in {"version", "dir", "old", "tmp"} :
        CASE e = "version" -> version # 0
          [] e = "dir" -> dir # NoTree
          [] e = "old" -> old # NoTree
          [] e = "tmp" -> tmp # NoTree}

\* Faulty variant: the cleaner does not take the lock either.
RemoveUnlocked(who) ==
    /\ remover = "none"
    /\ remover' = who /\ listed' = Entries
    /\ damaged' = (damaged \/ (who = "console" /\ Locked))
    /\ UNCHANGED <<published, diskVars, ensureVars>>

RemoveBegins(who) ==
    /\ remover = "none"
    /\ who = "cleaner" => ~Locked
    /\ remover' = who /\ listed' = Entries
    /\ damaged' = (damaged \/ (who = "console" /\ Locked))
    /\ UNCHANGED <<published, diskVars, ensureVars>>

RemoveVersion ==
    /\ "version" \in listed
    /\ version' = 0
    /\ listed' = listed \ {"version"}
    /\ UNCHANGED <<published, dir, old, tmp, ensureVars, remover, damaged>>

\* The files of a directory, then the directory itself: a new one that took its
\* name in between is not empty and stays.
Shrinks(e, t, t2) ==
    /\ e \in listed
    /\ \/ t # NoTree /\ t.whole /\ t2 = Torn(t) /\ UNCHANGED listed
       \/ /\ t2 = IF t # NoTree /\ ~t.whole THEN NoTree ELSE t
          /\ listed' = listed \ {e}

RemoveDir ==
    /\ Shrinks("dir", dir, dir')
    /\ UNCHANGED <<published, old, tmp, version, ensureVars, remover, damaged>>

RemoveTmp ==
    /\ Shrinks("tmp", tmp, tmp')
    /\ UNCHANGED <<published, dir, old, version, ensureVars, remover, damaged>>

RemoveOld ==
    /\ "old" \in listed
    /\ old' = NoTree
    /\ listed' = listed \ {"old"}
    /\ UNCHANGED <<published, dir, tmp, version, ensureVars, remover, damaged>>

\* An entry that cannot be removed ends the removal with an error.
RemoveEnds ==
    /\ remover # "none"
    /\ remover' = "none" /\ listed' = {}
    /\ damaged' = (damaged \/ listed # {})
    /\ UNCHANGED <<published, diskVars, ensureVars>>

-----------------------------------------------------------------------------

\* The node is killed; it starts again with what is on the disk.  A temporary
\* directory that is left over has no reader.
Kill ==
    /\ phase' = "idle" /\ local' = 0 /\ remote' = 0 /\ loaded' = NoTree
    /\ remover' = "none" /\ listed' = {}
    /\ tmp' = NoTree
    /\ damaged' = (damaged \/ remover # "none")
    /\ UNCHANGED <<published, dir, old, version>>

CacheInit ==
    /\ published = 1
    /\ dir = NoTree /\ old = NoTree /\ tmp = NoTree /\ version = 0
    /\ phase = "idle" /\ local = 0 /\ remote = 0 /\ loaded = NoTree
    /\ remover = "none" /\ listed = {} /\ damaged = FALSE

CacheNext ==
    \/ Publish \/ Kill
    \/ ReadVersion \/ Ask \/ Unzip \/ Backup \/ Swap \/ TruncVersion \/ WriteVersion
    \/ Purge \/ LoadCases
    \/ \E who \in {"cleaner", "console"} : RemoveBegins(who)
    \/ RemoveVersion \/ RemoveDir \/ RemoveTmp \/ RemoveOld \/ RemoveEnds

CacheSpec == CacheInit /\ [][CacheNext]_cacheVars

-----------------------------------------------------------------------------
(* Properties *)

HitIsWhole ==
    version = published /\ remover = "none" /\ ~damaged => dir = Whole(version)

JudgedWithWholeData == phase = "got" /\ ~damaged => loaded = Whole(remote)

\* A task is judged with all the cases of the version that Ensure returns, and
\* the version file never vouches for data that is not there: when the server
\* would answer "not modified", the directory holds all the cases of that
\* version, whatever crash or failed rename came before.  Excepted is what a
\* removal without the lock, or one cut off by a crash or an error, has touched:
\* LoadCases cannot tell that cases are missing.
DataIsWhole == HitIsWhole /\ JudgedWithWholeData
=============================================================================
