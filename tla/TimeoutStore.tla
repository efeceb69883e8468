---------------------------- MODULE TimeoutStore ----------------------------
(***************************************************************************)
(* The file store of go-judge with a time to live (filestore/timeout.go    *)
(* over filestore/file_local.go) and its users: uploads and copied out     *)
(* files (New, write, Add), downloads and copied in files (Get), deletions *)
(* (Remove) and the expiry loop.                                           *)
(*                                                                         *)
(* The local store has its own lock.  Timeout calls it before it takes the *)
(* lock of its heap in Add, Remove and Get, and under that lock in the     *)
(* expiry, so between the two steps of a call anything may happen.  The    *)
(* heap finds the entry with the earliest time; here it gives for every id *)
(* the age of its entry.  Ages stop at Ttl + 1, when the entry is due, so  *)
(* that time goes on for ever.                                             *)
(***************************************************************************)
EXTENDS Integers

CONSTANTS
    FileIds,      \* ids that generateID may give, each once
    Ttl           \* timeout, in ticks

\* newFileStore wraps the store only when FileTimeout is positive.
ASSUME StoreAssumption == Ttl \in Nat \ {0}

VARIABLES
    disk,         \* ids that have a file in dir
    name,         \* ids in the name map of the local store
    heap,         \* id |-> ticks since the time of its entry, Absent for none
    adder,        \* per id: "free", "new" (created), "named" (inner Add done), "added", "aborted"
    caller,       \* per id, one more client: "none", "getting", "removing" (inner call done)
    locked,       \* the expiry loop holds Timeout.mu
    due,          \* the entries that were over when it read the time
    storeOpen,    \* done is not closed
    \* history
    served,       \* id |-> ticks since an Add, or a Get that found the entry, was answered
    removedBy,    \* ids that a Remove of a client has taken
    failed        \* ids whose file os.Remove could not remove

localVars == <<disk, name>>
expiryVars == <<locked, due, storeOpen>>
storeVars == <<localVars, heap, adder, caller, expiryVars, served, removedBy, failed>>

Absent == -1
Aged(age) == IF age = Absent \/ age > Ttl THEN age ELSE age + 1

\* Another holder of Timeout.mu is in its critical section only within one action,
\* except the expiry loop, which keeps it from one removal to the next.
Unlocked == ~locked

\* fileLocalStore.Remove: it fails for a file that is gone or that cannot be removed.
InnerRemove(i) ==
    IF i \notin disk
    THEN name' = name \ {i} /\ UNCHANGED <<disk, failed>>
    ELSE \/ disk' = disk \ {i} /\ name' = name \ {i} /\ UNCHANGED failed
         \/ failed' = failed \cup {i} /\ UNCHANGED <<disk, name>>

-----------------------------------------------------------------------------
(* New, then Add of the path *)

New(i) ==
    /\ adder[i] = "free"
    /\ adder' = [adder EXCEPT ![i] = "new"]
    /\ disk' = disk \cup {i}
    /\ UNCHANGED <<name, heap, caller, expiryVars, served, removedBy, failed>>

\* The writer of a new file fails: filePost removes the file by its path.
Abort(i) ==
    /\ adder[i] = "new"
    /\ adder' = [adder EXCEPT ![i] = "aborted"]
    /\ disk' = disk \ {i}
    /\ UNCHANGED <<name, heap, caller, expiryVars, served, removedBy, failed>>

\* In gRPC's FileAdd the error of the Write is another err than the one that the
\* deferred function looks at: the file stays, without a name.
FileAddFails(i) ==
    /\ adder[i] = "new"
    /\ adder' = [adder EXCEPT ![i] = "aborted"]
    /\ UNCHANGED <<localVars, heap, caller, expiryVars, served, removedBy, failed>>

\* fileLocalStore.Add does not look whether the file still exists.
InnerAdd(i) ==
    /\ adder[i] = "new"
    /\ adder' = [adder EXCEPT ![i] = "named"]
    /\ name' = name \cup {i}
    /\ UNCHANGED <<disk, heap, caller, expiryVars, served, removedBy, failed>>

Push(i) ==
    /\ adder[i] = "named" /\ Unlocked
    /\ adder' = [adder EXCEPT ![i] = "added"]
    /\ heap' = [heap EXCEPT ![i] = 0]
    /\ served' = [served EXCEPT ![i] = 0]
    /\ UNCHANGED <<disk, name, caller, expiryVars, removedBy, failed>>

-----------------------------------------------------------------------------
(* Get and Remove *)

\* List shows every file of the directory, one that is still written included, so
\* a client may use every id that New has given.
Known(i) == adder[i] # "free"

InnerGet(i) ==
    /\ caller[i] = "none" /\ Known(i) /\ i \in disk
    /\ caller' = [caller EXCEPT ![i] = "getting"]
    /\ UNCHANGED <<disk, name, heap, adder, expiryVars, served, removedBy, failed>>

Refresh(i) ==
    /\ caller[i] = "getting" /\ Unlocked
    /\ caller' = [caller EXCEPT ![i] = "none"]
    /\ IF heap[i] # Absent
       THEN heap' = [heap EXCEPT ![i] = 0] /\ served' = [served EXCEPT ![i] = 0]
       ELSE UNCHANGED <<heap, served>>
    /\ UNCHANGED <<disk, name, adder, expiryVars, removedBy, failed>>

RemoveInner(i) ==
    /\ caller[i] = "none" /\ Known(i)
    /\ InnerRemove(i)
    /\ caller' = [caller EXCEPT ![i] = "removing"]
    /\ removedBy' = removedBy \cup {i}
    /\ UNCHANGED <<heap, adder, expiryVars, served>>

RemoveEntry(i) ==
    /\ caller[i] = "removing" /\ Unlocked
    /\ caller' = [caller EXCEPT ![i] = "none"]
    /\ heap' = [heap EXCEPT ![i] = Absent]
    /\ UNCHANGED <<disk, name, adder, expiryVars, served, removedBy, failed>>

-----------------------------------------------------------------------------
(* checkTimeoutAndRemove *)

ExpiryStarts ==
    /\ storeOpen /\ Unlocked
    /\ locked' = TRUE
    /\ due' = {i \in FileIds : heap[i] > Ttl}
    /\ UNCHANGED <<disk, name, heap, adder, caller, storeOpen, served, removedBy, failed>>

\* Faulty variant: the entry goes and the file stays.
ExpireEntryOnly ==
    /\ locked
    /\ \E i \in due :
         /\ heap' = [heap EXCEPT ![i] = Absent]
         /\ due' = due \ {i}
    /\ UNCHANGED <<disk, name, failed, adder, caller, locked, storeOpen, served, removedBy>>

\* The result of the inner Remove is not looked at: the entry goes in any case.
ExpireOne ==
    /\ locked
    /\ \E i \in due :
         /\ InnerRemove(i)
         /\ heap' = [heap EXCEPT ![i] = Absent]
         /\ due' = due \ {i}
    /\ UNCHANGED <<adder, caller, locked, storeOpen, served, removedBy>>

ExpiryEnds ==
    /\ locked /\ due = {}
    /\ locked' = FALSE
    /\ UNCHANGED <<disk, name, heap, adder, caller, due, storeOpen, served, removedBy, failed>>

\* Close stops the loop and waits for it; the other operations go on.
CloseStore ==
    /\ storeOpen /\ Unlocked
    /\ storeOpen' = FALSE
    /\ UNCHANGED <<disk, name, heap, adder, caller, locked, due, served, removedBy, failed>>

TimePasses ==
    /\ heap' = [i \in FileIds |-> Aged(heap[i])]
    /\ served' = [i \in FileIds |-> Aged(served[i])]
    /\ UNCHANGED <<disk, name, adder, caller, expiryVars, removedBy, failed>>

-----------------------------------------------------------------------------

StoreInit ==
    /\ disk = {} /\ name = {}
    /\ heap = [i \in FileIds |-> Absent]
    /\ adder = [i \in FileIds |-> "free"]
    /\ caller = [i \in FileIds |-> "none"]
    /\ locked = FALSE /\ due = {} /\ storeOpen = TRUE
    /\ served = [i \in FileIds |-> Absent] /\ removedBy = {} /\ failed = {}

Pending(i) == InnerAdd(i) \/ Push(i) \/ Refresh(i) \/ RemoveEntry(i)

StoreNext ==
    \/ \E i \in FileIds : New(i) \/ Abort(i) \/ FileAddFails(i) \/ InnerGet(i) \/ RemoveInner(i) \/ Pending(i)
    \/ ExpiryStarts \/ ExpireOne \/ ExpiryEnds \/ CloseStore \/ TimePasses

\* Calls that have begun end, the ticker fires and time goes on.
StoreFairness ==
    /\ \A i \in FileIds : WF_storeVars(InnerAdd(i)) /\ WF_storeVars(Pending(i))
    /\ WF_storeVars((\E i \in FileIds : heap[i] > Ttl) /\ ExpiryStarts)
    /\ WF_storeVars(ExpireOne) /\ WF_storeVars(ExpiryEnds) /\ WF_storeVars(TimePasses)

StoreSpec == StoreInit /\ [][StoreNext]_storeVars /\ StoreFairness

-----------------------------------------------------------------------------
(* Properties *)

\* A client may use the id it got for the whole time to live: the file is there
\* until Ttl after the last answer of Add, or of a Get that found the entry,
\* whatever the other clients and the expiry do in the meantime, unless a client
\* removed it (a Get that the expiry overtakes between its two steps is answered
\* with a file that is gone) ...
TtlHonoured ==
    \A i \in FileIds :
       served[i] \in 0 .. Ttl /\ i \notin removedBy => i \in disk

\* ... and a file that was added goes at last, unless it is asked for again and again, it
\* cannot be removed or the store is closed.
FilesExpire ==
    \A i \in FileIds :
       adder[i] = "added" ~> i \notin disk \/ i \in failed \/ ~storeOpen \/ caller[i] = "getting"

\* Both: not too early, and not never.
StorePromise == []TtlHonoured /\ FilesExpire
=============================================================================
