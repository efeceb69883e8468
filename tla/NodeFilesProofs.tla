--------------------------- MODULE NodeFilesProofs --------------------------
(***************************************************************************)
(* What the node keeps on its disk over crashes, failed writes and power   *)
(* losses, each for any number of requests, versions and identities: the   *)
(* test data of a problem (TestdataCache), the identity and the one-time   *)
(* token (Enrollment), the configuration (NodeConsole), and how the        *)
(* process that writes them ends.                                          *)
(***************************************************************************)
EXTENDS TestdataCache, Enrollment, NodeConsole, FiniteSetTheorems, TLAPS

-----------------------------------------------------------------------------
(* The test data *)

Swapping == {"unzip", "backup", "swap", "trunc", "write"}
Loading == {"purge", "load"}
Resting == {"idle", "got", "error"}

CacheTypeOK ==
    /\ published \in Nat \ {0} /\ version \in Nat /\ local \in Nat /\ remote \in Nat
    /\ phase \in Resting \cup {"ask"} \cup Swapping \cup Loading
    /\ remover \in {"none", "cleaner", "console"}

\* The server's version only grows, and the file has none that it did not give;
\* while Ensure works it is the one that was read, until the new one is written.
VersionOK ==
    /\ version <= published /\ local <= published /\ remote <= published
    /\ phase \notin Resting /\ version # 0 => version = IF phase \in Loading THEN remote ELSE local
    /\ phase \in Swapping => local < remote

\* Nothing is removed while Ensure works, unless it is marked; a removal takes
\* the version with it.
RemovalOK ==
    /\ remover = "none" => listed = {}
    /\ remover = "cleaner" => phase \in Resting
    /\ ~damaged /\ remover # "none" =>
          /\ phase \in Resting
          /\ version # 0 => "version" \in listed

\* Where the new data is on its way to its place.
DataOK ==
    ~damaged =>
       /\ phase = "ask" => version = local
       /\ phase \in {"backup", "swap"} => tmp = Whole(remote)
       /\ phase \in {"trunc", "write"} \cup Loading => dir = Whole(remote)

CacheInv == CacheTypeOK /\ VersionOK /\ RemovalOK /\ DataOK /\ DataIsWhole

\* Each step of Ensure, of a removal, of the server and a crash.
LEMMA CacheKeeps ==
    ASSUME CacheInv, [CacheNext]_cacheVars
    PROVE  CacheInv'
  <1> USE DEF CacheInv, CacheTypeOK, VersionOK, RemovalOK, DataOK, DataIsWhole, HitIsWhole,
              JudgedWithWholeData, Swapping, Loading, Resting, diskVars, ensureVars, removeVars
  <1>1. CASE UNCHANGED cacheVars
    BY <1>1 DEF cacheVars
  <1>2. CASE Publish
    BY <1>2 DEF Publish
  <1>3. CASE Kill
    <2>1. ~damaged' => ~damaged /\ remover = "none"
      BY <1>3, Zenon DEF Kill
    <2> QED
      BY <1>3, <2>1 DEF Kill
  <1>4. CASE ReadVersion
    <2>1. ~damaged' => ~damaged /\ remover # "console"
      BY <1>4, Zenon DEF ReadVersion
    <2> QED
      BY <1>4, <2>1 DEF ReadVersion, Goto, Locked
  <1>5. CASE Ask
    BY <1>5 DEF Ask, Goto
  <1>6. CASE Unzip
    BY <1>6 DEF Unzip, UnzipSafe, Goto
  <1>7. CASE Backup
    BY <1>7 DEF Backup, Goto
  <1>8. CASE Swap
    BY <1>8 DEF Swap, Goto
  <1>9. CASE TruncVersion
    BY <1>9 DEF TruncVersion, Goto
  <1>10. CASE WriteVersion
    BY <1>10 DEF WriteVersion, Goto
  <1>11. CASE Purge
    BY <1>11 DEF Purge, Goto
  <1>12. CASE LoadCases
    BY <1>12 DEF LoadCases, Goto, NoTree, Whole
  <1>13. ASSUME NEW who \in {"cleaner", "console"}, RemoveBegins(who)
         PROVE  CacheInv'
    BY <1>13 DEF RemoveBegins, Locked, Entries
  <1>14. CASE RemoveVersion
    BY <1>14 DEF RemoveVersion
  <1>15. CASE RemoveDir
    BY <1>15 DEF RemoveDir, Shrinks
  <1>16. CASE RemoveTmp
    BY <1>16 DEF RemoveTmp, Shrinks
  <1>17. CASE RemoveOld
    BY <1>17 DEF RemoveOld
  <1>18. CASE RemoveEnds
    <2>1. ~damaged' => ~damaged /\ listed = {}
      BY <1>18, Zenon DEF RemoveEnds
    <2> QED
      BY <1>18, <2>1 DEF RemoveEnds
  <1> QED
    BY <1>1, <1>2, <1>3, <1>4, <1>5, <1>6, <1>7, <1>8, <1>9, <1>10, <1>11, <1>12, <1>13, <1>14,
       <1>15, <1>16, <1>17, <1>18
    DEF CacheNext

\* The invariant of the test data, from the first start of the node.
THEOREM CacheInvariance == CacheSpec => []CacheInv
  <1>1. CacheInit => CacheInv
    BY DEF CacheInit, CacheInv, CacheTypeOK, VersionOK, RemovalOK, DataOK, DataIsWhole, HitIsWhole,
           JudgedWithWholeData, Swapping, Loading, Resting
  <1> QED
    BY <1>1, CacheKeeps, PTL DEF CacheSpec

\* A task is judged with all the cases of the version that Ensure returns, and
\* data-version vouches for a whole directory, after any crash and any failed
\* rename of Ensure (testdata/cache.go), for any number of versions.
THEOREM TestdataIsWhole == CacheSpec => []DataIsWhole
  <1>1. CacheInv => DataIsWhole
    BY DEF CacheInv
  <1> QED
    BY <1>1, CacheInvariance, PTL

-----------------------------------------------------------------------------
(* The identity *)

\* What an identity file, or memory, holds: nothing, or a named identity.
Identity == {None} \cup [id : Nat \ {0}, name : NodeNames, node : BOOLEAN]

\* The states in which run has an identity.
HasIdentity == {"enroll", "submit", "backoff", "answered", "apply", "applySync", "consume", "enrolled"}

Same(s, t) == s.id = t.id /\ s.name = t.name

EnrolTypeOK ==
    /\ lastId \in Nat /\ cfgName \in NodeNames
    /\ mem \in Identity /\ draft \in Identity /\ idFile \in Identity /\ safeFile \in Identity
    /\ enrolAt \in HasIdentity \cup {"off", "create", "createSync"}
    /\ enrolAt \in HasIdentity => mem # None

\* An identity is made only where there is none, and a file that is synced can
\* be read.
FilesOK ==
    /\ safeFile # None => idFile # None
    /\ enrolAt = "create" => idFile = None
    /\ enrolAt = "createSync" => safeFile = None /\ idFile = draft
    /\ enrolAt \in {"create", "createSync"} => draft # None

\* Memory has its name; what is written for a registered node is the identity
\* in memory, with the node.
MemoryOK ==
    /\ enrolAt \in HasIdentity => nodeName = mem.name
    /\ enrolAt \in {"apply", "applySync"} => draft # None /\ Same(draft, mem) /\ draft.node
    /\ enrolAt = "applySync" => idFile = draft
    /\ enrolAt = "consume" => safeFile.node

\* No one has asked for an identity that is not on stable storage.
StableOK ==
    /\ Proof(None, "") \notin offered
    /\ ~unsynced =>
          /\ safeFile # None => Same(idFile, safeFile)
          /\ enrolAt \in HasIdentity => safeFile # None /\ Same(mem, safeFile)

EnrolInv == EnrolTypeOK /\ FilesOK /\ MemoryOK /\ StableOK /\ OneNodePerToken

\* The records that are compared.
LEMMA Records ==
    /\ None.id = 0 /\ None.name = "" /\ ~None.node
    /\ \A s, t : Same(s, t) => Proof(s, s.name) = Proof(t, t.name)
    /\ \A st \in Identity : st # None => st.id # 0 /\ st.name \in NodeNames /\ st.name # ""
  BY EnrolAssumption DEF None, Proof, Identity, Same

\* Open makes an identity with the configured name.
LEMMA NewIdentity ==
    ASSUME NEW n \in Nat, NEW name \in NodeNames
    PROVE  /\ n + 1 \in Nat
           /\ LET t == [id |-> n + 1, name |-> name, node |-> FALSE] IN t \in Identity /\ t # None
  <1> DEFINE t == [id |-> n + 1, name |-> name, node |-> FALSE]
  <1>1. n + 1 \in Nat \ {0}
    OBVIOUS
  <1>2. t \in [id : Nat \ {0}, name : NodeNames, node : BOOLEAN]
    BY <1>1
  <1>3. t.id # None.id
    BY <1>1 DEF None
  <1> QED
    BY <1>1, <1>2, <1>3, Zenon DEF Identity

\* ApplyEnrollment adds the node to a copy of the identity.
LEMMA WithNode ==
    ASSUME NEW st \in Identity, st # None
    PROVE  LET t == [st EXCEPT !.node = TRUE] IN
           t \in Identity /\ t # None /\ Same(t, st) /\ t.node
  BY DEF Identity, None, Same

\* What a run with an identity asks the server to register.
LEMMA ProofIsStable ==
    ASSUME EnrolInv, enrolAt \in HasIdentity
    PROVE  /\ Proof(mem, nodeName) # Proof(None, "")
           /\ ~unsynced => Proof(safeFile, safeFile.name) = Proof(mem, nodeName)
  <1>1. mem.id # 0 /\ nodeName = mem.name
    BY Records DEF EnrolInv, EnrolTypeOK, MemoryOK
  <1>2. Proof(mem, nodeName) # Proof(None, "")
    BY <1>1 DEF Proof, None
  <1>3. ~unsynced => Same(safeFile, mem)
    BY DEF EnrolInv, StableOK, Same
  <1> QED
    BY <1>1, <1>2, <1>3, Records

\* What the console, the start of the run and its end do.
LEMMA OpenKeeps ==
    ASSUME EnrolInv,
           \/ Configure \/ SetupBootstrap \/ OpenExisting \/ OpenNew \/ Opened \/ OpenFails
           \/ Stop \/ PowerLoss
    PROVE  EnrolInv'
  <1> USE Records
      DEF EnrolInv, EnrolTypeOK, FilesOK, MemoryOK, StableOK, OneNodePerToken, TokenIsSpent,
          RegistrationIsOurs, HasIdentity, Same, fileCopies, serverVars
  <1>1. CASE Configure
    BY <1>1 DEF Configure
  <1>2. CASE SetupBootstrap
    BY <1>2 DEF SetupBootstrap
  <1>3. CASE OpenExisting
    BY <1>3 DEF OpenExisting, NameOf
  <1>4. CASE OpenNew
    <2>1. lastId' = lastId + 1
      BY <1>4, Zenon DEF OpenNew
    <2>2. draft' = [id |-> lastId + 1, name |-> cfgName, node |-> FALSE]
      BY <1>4, Zenon DEF OpenNew
    <2>3. lastId \in Nat /\ cfgName \in NodeNames
      OBVIOUS
    <2>4. lastId' \in Nat /\ draft' \in Identity /\ draft' # None
      BY <2>1, <2>2, <2>3, NewIdentity, Zenon
    <2>5. safeFile = None /\ idFile = None /\ token
      BY <1>4 DEF OpenNew
    <2> QED
      BY <1>4, <2>4, <2>5 DEF OpenNew
  <1>5. CASE Opened
    BY <1>5 DEF Opened, NameOf
  <1>6. CASE OpenFails
    BY <1>6 DEF OpenFails
  <1>7. CASE Stop
    BY <1>7 DEF Stop
  <1>8. CASE PowerLoss
    BY <1>8 DEF PowerLoss
  <1> QED
    BY <1>1, <1>2, <1>3, <1>4, <1>5, <1>6, <1>7, <1>8

\* The challenge and the registration.
LEMMA RegisterKeeps ==
    ASSUME EnrolInv, AlreadyEnrolled \/ RequestChallenge \/ Submit \/ Denied \/ AttemptFails \/ Retry
    PROVE  EnrolInv'
  <1> USE Records
      DEF EnrolInv, EnrolTypeOK, FilesOK, MemoryOK, StableOK, OneNodePerToken, TokenIsSpent,
          RegistrationIsOurs, HasIdentity, Same, fileCopies, serverVars
  <1>1. CASE AlreadyEnrolled \/ RequestChallenge \/ AttemptFails \/ Retry
    BY <1>1 DEF AlreadyEnrolled, RequestChallenge, AttemptFails, Retry
  <1>2. CASE Submit
    <2>1. EnrolTypeOK' /\ FilesOK' /\ MemoryOK'
      BY <1>2 DEF Submit
    <2>2. Proof(mem, nodeName) # Proof(None, "") /\ TokenIsSpent'
      BY <1>2, ProofIsStable DEF Submit
    <2>3. Proof(None, "") \notin offered'
      BY <1>2, <2>2 DEF Submit
    <2>4. ASSUME ~unsynced PROVE Proof(safeFile, safeFile.name) = Proof(mem, nodeName)
      BY <1>2, <2>4, ProofIsStable DEF Submit
    <2>5. ASSUME ~unsynced PROVE offered \subseteq {Proof(mem, nodeName)}
      BY <1>2, <2>5 DEF Submit, Mine
    <2> QED
      BY <1>2, <2>1, <2>2, <2>3, <2>4, <2>5 DEF Submit
  <1>3. CASE Denied
    <2>1. EnrolTypeOK' /\ FilesOK' /\ MemoryOK' /\ TokenIsSpent'
      BY <1>3 DEF Denied
    <2>2. Proof(mem, nodeName) # Proof(None, "")
      BY <1>3, ProofIsStable DEF Denied
    <2>3. ASSUME ~unsynced PROVE Mine
      BY <1>3, <2>3, ProofIsStable DEF Denied, Mine
    <2>4. unsynced
      BY <1>3, <2>3 DEF Denied
    <2> QED
      BY <1>3, <2>1, <2>2, <2>4 DEF Denied
  <1> QED
    BY <1>1, <1>2, <1>3

\* The identity is written with its node, and the token given up.
LEMMA ApplyKeeps ==
    ASSUME EnrolInv, Rename \/ ApplyBegins \/ Applied \/ ApplyFails \/ ConsumeToken
    PROVE  EnrolInv'
  <1> USE Records
      DEF EnrolInv, EnrolTypeOK, FilesOK, MemoryOK, StableOK, OneNodePerToken, TokenIsSpent,
          RegistrationIsOurs, HasIdentity, Same, fileCopies, serverVars
  <1>1. CASE Rename
    BY <1>1 DEF Rename
  <1>2. CASE ApplyBegins
    <2>1. draft' \in Identity /\ draft' # None /\ Same(draft', mem) /\ draft'.node
      BY <1>2, WithNode DEF ApplyBegins
    <2> QED
      BY <1>2, <2>1 DEF ApplyBegins
  <1>3. CASE Applied
    <2>1. safeFile' # None /\ safeFile' = idFile' /\ safeFile' = mem' /\ safeFile'.node
      BY <1>3 DEF Applied
    <2>2. ASSUME ~unsynced PROVE Same(safeFile', safeFile)
      BY <1>3, <2>2 DEF Applied
    <2>3. ~unsynced' => RegistrationIsOurs'
      BY <1>3, <2>1, <2>2 DEF Applied
    <2> QED
      BY <1>3, <2>1, <2>2, <2>3 DEF Applied
  <1>4. CASE ApplyFails
    BY <1>4 DEF ApplyFails
  <1>5. CASE ConsumeToken
    BY <1>5 DEF ConsumeToken
  <1> QED
    BY <1>1, <1>2, <1>3, <1>4, <1>5

\* The invariant of the enrolment, from the first start of the node.
THEOREM EnrolInvariance == EnrolSpec => []EnrolInv
  <1>1. EnrolInit => EnrolInv
    <2> SUFFICES ASSUME EnrolInit PROVE EnrolInv
      OBVIOUS
    <2>1. lastId \in Nat
      BY DEF EnrolInit
    <2>2. EnrolTypeOK
      BY <2>1, Zenon DEF EnrolInit, EnrolTypeOK, HasIdentity, Identity
    <2>3. FilesOK /\ MemoryOK
      BY DEF EnrolInit, FilesOK, MemoryOK, HasIdentity
    <2>4. StableOK /\ OneNodePerToken
      BY Zenon DEF EnrolInit, StableOK, OneNodePerToken, TokenIsSpent, RegistrationIsOurs, HasIdentity
    <2> QED
      BY <2>2, <2>3, <2>4 DEF EnrolInv
  <1>2. EnrolInv /\ [EnrolNext]_enrolVars => EnrolInv'
    <2> SUFFICES ASSUME EnrolInv, [EnrolNext]_enrolVars PROVE EnrolInv'
      OBVIOUS
    <2>1. CASE UNCHANGED enrolVars
      BY <2>1
      DEF enrolVars, fileCopies, serverVars, EnrolInv, EnrolTypeOK, FilesOK, MemoryOK, StableOK,
          OneNodePerToken, TokenIsSpent, RegistrationIsOurs
    <2> QED
      BY <2>1, OpenKeeps, RegisterKeeps, ApplyKeeps DEF EnrolNext
  <1> QED
    BY <1>1, <1>2, PTL DEF EnrolSpec

\* A node never turns into a second one: through lost answers, failed writes,
\* crashes and power losses the token goes with one identity and name, the
\* ones on stable storage, and is removed only when they are enrolled
\* (enrollment.go, EnsureEnrolled and ApplyEnrollment).
THEOREM OneIdentityPerToken == EnrolSpec => []OneNodePerToken
  <1>1. EnrolInv => OneNodePerToken
    BY DEF EnrolInv
  <1> QED
    BY <1>1, EnrolInvariance, PTL

-----------------------------------------------------------------------------
(* The configuration *)

Configs == [drain : Nat, tokenFile : BOOLEAN]
Saving == {"token", "open", "write", "rename", "set"}

ConsoleTypeOK ==
    /\ cfgFile \in Inodes \cup {0} /\ tmpFile \in Inodes \cup {0}
    /\ content \in [Inodes -> Configs]
    /\ mcfg \in Configs
    /\ saveAt \in [Saves -> Saving \cup {"none", "done"}]
    /\ want \in [Saves -> Configs]
    /\ fd \in [Saves -> Inodes \cup {0}]

\* As long as no two requests overlap: the file that is written is not the one
\* that is read, and holds nothing or what the request wants; what it wants is
\* a whole configuration, which keeps the bootstrap file.
SaveOK(s) ==
    /\ saveAt[s] \in Saving => want[s].drain # 0 /\ (enrolled => want[s].tokenFile)
    /\ saveAt[s] \in {"write", "rename"} => tmpFile # 0 /\ fd[s] = tmpFile
    /\ saveAt[s] = "rename" => content[tmpFile] = want[s]
    /\ saveAt[s] = "write" => content[tmpFile] = Empty
    /\ saveAt[s] = "set" => cfgFile # 0 /\ content[cfgFile] = want[s]

StoredOK ==
    /\ tmpFile # 0 => tmpFile # cfgFile
    /\ cfgFile # 0 => content[cfgFile].drain # 0
    /\ Lives /\ (\A s \in Saves : saveAt[s] # "set") => mcfg = Stored
    /\ enrolled => Stored.tokenFile

AloneOK == ~overlap =>
    /\ \A s, t \in Busy : s = t
    /\ \A s \in Saves : SaveOK(s)
    /\ StoredOK

SaveInv == ConsoleTypeOK /\ AloneOK

\* The end of the process: once Stop has returned only a late start can bring
\* the runtime back, and one that is draining has had its time.
EndOK ==
    /\ judge \in {"off", "on", "draining"} /\ judgeDrain \in Nat /\ grace \in Nat
    /\ proc \in {"stopped", "closing"} => ~restarting
    /\ proc \in {"stopped", "closing", "exited"} /\ judge # "off" =>
          lateStart \/ (judge = "draining" /\ grace <= 2 * judgeDrain)

-----------------------------------------------------------------------------

\* The configurations that are compared, and what dtoToConfig makes of one.
LEMMA ConfigFacts ==
    /\ Default \in Configs /\ Unset \in Configs /\ Empty \in Configs
    /\ Default.drain # 0 /\ Unset.drain = 0 /\ Empty.drain = 0 /\ ~Unset.tokenFile
    /\ Inodes \subseteq Nat \ {0}
  <1>1. Cardinality(Saves) \in Nat
    BY ConsoleAssumption, FS_CardinalityType
  <1> QED
    BY <1>1 DEF Default, Unset, Empty, Configs, Inodes

LEMMA DtoFacts ==
    ASSUME NEW d \in Drains \cup {0}, NEW base \in Configs
    PROVE  LET c == DtoToConfig(d, base)
               b == [c EXCEPT !.tokenFile = TRUE]
           IN  /\ c \in Configs /\ (base.tokenFile => c.tokenFile)
               /\ base.drain # 0 => c.drain # 0
               /\ b \in Configs /\ b.tokenFile /\ b.drain = c.drain
  BY ConsoleAssumption DEF DtoToConfig, ParseDrain, Configs

\* What Validate lets pass has a drain timeout, and the bootstrap file it had.
LEMMA ValidateFacts ==
    ASSUME NEW b \in Configs, NEW c \in Validate(b)
    PROVE  c \in Configs /\ (c # Unset => c.drain # 0 /\ (b.tokenFile => c.tokenFile))
  <1>1. CASE c = Unset
    BY <1>1, ConfigFacts
  <1>2. CASE c # Unset /\ b.drain = 0
    <2>1. c = [b EXCEPT !.drain = Default.drain]
      BY <1>2 DEF Validate
    <2> QED
      BY <2>1, ConfigFacts DEF Configs
  <1>3. CASE c # Unset /\ b.drain # 0
    BY <1>3 DEF Validate
  <1> QED
    BY <1>1, <1>2, <1>3

LEMMA BaseFacts ==
    ASSUME ConsoleTypeOK
    PROVE  Stored \in Configs /\ Base \in Configs
  BY ConfigFacts DEF ConsoleTypeOK, Stored, Base

\* Where a request goes, and where it ends.
LEMMA SaveMoves ==
    ASSUME ConsoleTypeOK, NEW s \in Saves
    PROVE  /\ \A p \in Saving \cup {"none", "done"} :
                 SaveGoes(s, p) => /\ saveAt' \in [Saves -> Saving \cup {"none", "done"}]
                                   /\ saveAt'[s] = p /\ \A t \in Saves \ {s} : saveAt'[t] = saveAt[t]
           /\ SaveEnds(s) => /\ saveAt' \in [Saves -> Saving \cup {"none", "done"}]
                             /\ want' \in [Saves -> Configs] /\ fd' \in [Saves -> Inodes \cup {0}]
                             /\ saveAt'[s] = "done" /\ \A t \in Saves \ {s} : saveAt'[t] = saveAt[t]
  BY ConfigFacts DEF ConsoleTypeOK, SaveGoes, SaveEnds, Saving

\* Every value keeps its type.
LEMMA ConsoleTypeKeeps ==
    ASSUME ConsoleTypeOK, [ConsoleNext]_consoleVars
    PROVE  ConsoleTypeOK'
  <1> USE DEF ConsoleTypeOK
  <1>1. ASSUME NEW s \in Saves, NEW d \in Drains \cup {0}, PutConfig(s, d) \/ Bootstrap(s, d)
        PROVE  ConsoleTypeOK'
    <2>1. DtoToConfig(d, Base) \in Configs /\ [DtoToConfig(d, Base) EXCEPT !.tokenFile = TRUE] \in Configs
      BY <1>1, BaseFacts, DtoFacts
    <2>2. saveAt' \in [Saves -> Saving \cup {"none", "done"}]
      BY <1>1, SaveMoves DEF PutConfig, Bootstrap, Saving
    <2>3. want' \in [Saves -> Configs]
      BY <1>1, <2>1, SaveMoves, ValidateFacts DEF PutConfig, Bootstrap
    <2>4. fd' \in [Saves -> Inodes \cup {0}]
      BY <1>1, SaveMoves DEF PutConfig, Bootstrap
    <2> QED
      BY <1>1, <2>2, <2>3, <2>4 DEF PutConfig, Bootstrap
  <1>2. ASSUME NEW s \in Saves, WriteToken(s) PROVE ConsoleTypeOK'
    BY <1>2, SaveMoves, ValidateFacts DEF WriteToken, Saving
  <1>3. ASSUME NEW s \in Saves, OpenTmp(s) PROVE ConsoleTypeOK'
    BY <1>3, SaveMoves, ConfigFacts DEF OpenTmp, Saving
  <1>4. ASSUME NEW s \in Saves, WriteTmp(s) PROVE ConsoleTypeOK'
    BY <1>4, SaveMoves, ConfigFacts DEF WriteTmp, Saving
  <1>5. ASSUME NEW s \in Saves, RenameTmp(s) PROVE ConsoleTypeOK'
    BY <1>5, SaveMoves, ConfigFacts DEF RenameTmp, Saving
  <1>6. ASSUME NEW s \in Saves, SetManagerConfig(s) PROVE ConsoleTypeOK'
    BY <1>6, SaveMoves DEF SetManagerConfig
  <1>7. CASE Boot
    BY <1>7, ConfigFacts, BaseFacts DEF Boot
  <1>8. CASE UNCHANGED <<cfgFile, tmpFile, content, mcfg, saveAt, want, fd>>
    BY <1>8
  <1>9. UNCHANGED consoleVars => UNCHANGED <<cfgFile, tmpFile, content, mcfg, saveAt, want, fd>>
    BY DEF consoleVars, saveVars
  <1>10. ASSUME NEW by \in {"auto", "console"}, DoStart(by)
         PROVE  UNCHANGED <<cfgFile, tmpFile, content, mcfg, saveAt, want, fd>>
    BY <1>10 DEF DoStart, saveVars
  <1>11. \/ TokenConsumed \/ AskStart \/ StopCall \/ RestartCall \/ RestartEnds \/ JudgeEnds
         \/ Signal \/ ShutdownStops \/ ShutdownStopped \/ CloseConsole \/ Exit \/ Crash
         => UNCHANGED <<cfgFile, tmpFile, content, mcfg, saveAt, want, fd>>
    BY DEF TokenConsumed, AskStart, StopCall, RestartCall, RestartEnds, JudgeEnds, Signal, ShutdownStops,
           ShutdownStopped, CloseConsole, Exit, Crash, saveVars
  <1> QED
    BY <1>1, <1>2, <1>3, <1>4, <1>5, <1>6, <1>7, <1>8, <1>9, <1>10, <1>11 DEF ConsoleNext, SaveStep

\* Requests that do not overlap: at most one of them is in progress.
LEMMA OthersRest ==
    ASSUME AloneOK, ~overlap, NEW s \in Saves, saveAt[s] \in Saving
    PROVE  \A t \in Saves \ {s} : saveAt[t] \notin Saving
  BY DEF AloneOK, Busy, Saving

\* When one request is in progress after the step at most, it is enough to look
\* at that one.
LEMMA AloneAgain ==
    ASSUME ConsoleTypeOK', NEW s \in Saves, \A t \in Saves \ {s} : saveAt'[t] \notin Saving,
           SaveOK(s)', StoredOK'
    PROVE  AloneOK'
  BY DEF AloneOK, Busy, SaveOK, ConsoleTypeOK, Saving

\* A new request finds no other.
LEMMA RequestKeeps ==
    ASSUME ConsoleTypeOK, AloneOK, ConsoleTypeOK', NEW s \in Saves, NEW d \in Drains \cup {0},
           PutConfig(s, d) \/ Bootstrap(s, d)
    PROVE  AloneOK'
  <1> SUFFICES ASSUME ~overlap' PROVE AloneOK'
    BY DEF AloneOK
  <1>1. ~overlap /\ Busy = {}
    BY Zenon DEF PutConfig, Bootstrap
  <1>2. \A t \in Saves : saveAt[t] \notin Saving
    BY <1>1 DEF Busy, Saving
  <1>3. \A t \in Saves \ {s} : saveAt'[t] \notin Saving
    BY <1>2, SaveMoves DEF PutConfig, Bootstrap, Saving
  <1>4. StoredOK
    BY <1>1 DEF AloneOK
  <1>5. saveAt'[s] \in {"done", "open", "token"}
    BY SaveMoves DEF PutConfig, Bootstrap, Saving
  <1>6. UNCHANGED <<cfgFile, tmpFile, content, mcfg, proc, enrolled>>
    BY DEF PutConfig, Bootstrap, procVars
  <1>7. StoredOK'
    <2>1. \A t \in Saves : saveAt[t] # "set"
      BY <1>2 DEF Saving
    <2> QED
      BY <1>4, <1>6, <2>1 DEF StoredOK, Stored, Lives
  <1>8. SaveOK(s)'
    <2> SUFFICES ASSUME saveAt'[s] \in {"open", "token"}
                 PROVE  want'[s].drain # 0 /\ (enrolled => want'[s].tokenFile)
      BY <1>5, <1>6 DEF SaveOK, Saving
    <2>1. Base \in Configs /\ Base.drain # 0 /\ (enrolled => Base.tokenFile)
      BY <1>4, BaseFacts, ConfigFacts DEF StoredOK, Base, Stored
    <2>2. \/ want'[s] \in Validate(DtoToConfig(d, Base)) \ {Unset}
          \/ want'[s] = [DtoToConfig(d, Base) EXCEPT !.tokenFile = TRUE]
      BY DEF PutConfig, Bootstrap, SaveEnds, SaveGoes, ConsoleTypeOK
    <2> QED
      BY <2>1, <2>2, DtoFacts, ValidateFacts
  <1> QED
    BY <1>3, <1>7, <1>8, AloneAgain

\* A request goes on.
LEMMA SavingKeeps ==
    ASSUME ConsoleTypeOK, AloneOK, ConsoleTypeOK', NEW s \in Saves,
           WriteToken(s) \/ OpenTmp(s) \/ WriteTmp(s) \/ RenameTmp(s) \/ SetManagerConfig(s)
    PROVE  AloneOK'
  <1> SUFFICES ASSUME ~overlap' PROVE AloneOK'
    BY DEF AloneOK
  <1>1. ~overlap /\ UNCHANGED proc
    BY DEF WriteToken, OpenTmp, WriteTmp, RenameTmp, SetManagerConfig, procVars
  <1>2. StoredOK /\ SaveOK(s)
    BY <1>1 DEF AloneOK
  <1>3. saveAt[s] \in Saving /\ Lives
    BY DEF WriteToken, OpenTmp, WriteTmp, RenameTmp, SetManagerConfig, Saving
  <1>4. \A t \in Saves \ {s} : saveAt[t] \notin Saving
    BY <1>1, <1>3, OthersRest
  <1>5. \A t \in Saves \ {s} : saveAt'[t] = saveAt[t]
    BY SaveMoves
    DEF WriteToken, OpenTmp, WriteTmp, RenameTmp, SetManagerConfig, Saving
  <1>6. \A t \in Saves \ {s} : saveAt'[t] \notin Saving /\ saveAt[t] # "set"
    BY <1>4, <1>5 DEF Saving
  <1> USE <1>1, <1>2, <1>3, <1>6, SaveMoves, ConfigFacts
      DEF SaveOK, StoredOK, Saving, Stored, Lives, ConsoleTypeOK
  <1>7. CASE WriteToken(s)
    <2>1. SaveOK(s)' /\ StoredOK'
      BY <1>7, ValidateFacts DEF WriteToken
    <2> QED
      BY <2>1, AloneAgain
  <1>8. CASE OpenTmp(s)
    <2>1. SaveOK(s)' /\ StoredOK'
      BY <1>8 DEF OpenTmp
    <2> QED
      BY <2>1, AloneAgain
  <1>9. CASE WriteTmp(s)
    <2>1. SaveOK(s)' /\ StoredOK'
      BY <1>9 DEF WriteTmp
    <2> QED
      BY <2>1, AloneAgain
  <1>10. CASE RenameTmp(s)
    <2>1. SaveOK(s)' /\ StoredOK'
      BY <1>10 DEF RenameTmp
    <2> QED
      BY <2>1, AloneAgain
  <1>11. CASE SetManagerConfig(s)
    <2>1. SaveOK(s)' /\ StoredOK'
      BY <1>11 DEF SetManagerConfig
    <2> QED
      BY <2>1, AloneAgain
  <1> QED
    BY <1>7, <1>8, <1>9, <1>10, <1>11

\* A new process reads what is stored.
LEMMA BootKeeps ==
    ASSUME ConsoleTypeOK, AloneOK, ConsoleTypeOK', Boot
    PROVE  AloneOK'
  <1> SUFFICES ASSUME ~overlap' PROVE AloneOK'
    BY DEF AloneOK
  <1>1. ~overlap /\ StoredOK
    BY DEF Boot, AloneOK
  <1>2. \A t \in Saves : saveAt'[t] \notin Saving
    BY DEF Boot, Busy, Saving, ConsoleTypeOK
  <1>3. mcfg' = Stored
    <2>1. Stored # Empty
      BY <1>1, ConfigFacts DEF StoredOK, Stored, Unset, Empty
    <2> QED
      BY <2>1 DEF Boot
  <1>4. StoredOK'
    BY <1>1, <1>3 DEF Boot, StoredOK, Stored
  <1> QED
    BY <1>2, <1>4 DEF AloneOK, Busy, SaveOK, Saving, ConsoleTypeOK

\* The rest of the process leaves the files alone.
LEMMA ElsewhereKeeps ==
    ASSUME AloneOK, UNCHANGED <<cfgFile, tmpFile, content, mcfg, saveAt, want, fd, overlap, enrolled>>,
           Lives' => Lives
    PROVE  AloneOK'
  BY DEF AloneOK, SaveOK, StoredOK, Stored, Busy

\* The invariant of the configuration, from the first start of the node.
THEOREM SaveInvariance == ConsoleSpec => []SaveInv
  <1>1. ConsoleInit => SaveInv
    <2> SUFFICES ASSUME ConsoleInit PROVE SaveInv
      OBVIOUS
    <2>1. ConsoleTypeOK
      BY ConfigFacts DEF ConsoleInit, ConsoleTypeOK, Saving
    <2>2. StoredOK
      BY DEF ConsoleInit, StoredOK, Stored
    <2>3. \A s \in Saves : saveAt[s] = "none"
      BY DEF ConsoleInit
    <2>4. AloneOK
      BY <2>2, <2>3 DEF AloneOK, Busy, SaveOK, Saving
    <2> QED
      BY <2>1, <2>4 DEF SaveInv
  <1>2. SaveInv /\ [ConsoleNext]_consoleVars => SaveInv'
    <2> SUFFICES ASSUME ConsoleTypeOK, AloneOK, [ConsoleNext]_consoleVars PROVE SaveInv'
      BY DEF SaveInv
    <2>1. ConsoleTypeOK'
      BY ConsoleTypeKeeps
    <2> SUFFICES AloneOK'
      BY <2>1 DEF SaveInv
    <2>2. ASSUME NEW s \in Saves, SaveStep(s) PROVE AloneOK'
      BY <2>1, <2>2, RequestKeeps, SavingKeeps DEF SaveStep
    <2>3. CASE Boot
      BY <2>1, <2>3, BootKeeps
    <2>4. CASE UNCHANGED consoleVars
      BY <2>4, ElsewhereKeeps DEF consoleVars, saveVars, procVars, Lives
    <2>5. ASSUME NEW by \in {"auto", "console"}, DoStart(by) PROVE AloneOK'
      BY <2>5, ElsewhereKeeps DEF DoStart, saveVars, Lives
    <2>6. CASE \/ TokenConsumed \/ AskStart \/ StopCall \/ RestartCall \/ RestartEnds \/ JudgeEnds
               \/ ShutdownStops
      BY <2>6, ElsewhereKeeps
      DEF TokenConsumed, AskStart, StopCall, RestartCall, RestartEnds, JudgeEnds, ShutdownStops,
          saveVars, procVars, Lives
    <2>7. CASE Signal \/ ShutdownStopped \/ CloseConsole \/ Exit \/ Crash
      BY <2>7, ElsewhereKeeps
      DEF Signal, ShutdownStopped, CloseConsole, Exit, Crash, saveVars, Lives
    <2> QED
      BY <2>2, <2>3, <2>4, <2>5, <2>6, <2>7 DEF ConsoleNext
  <1> QED
    BY <1>1, <1>2, PTL DEF ConsoleSpec

\* As long as no two saving requests overlap, a crash at any point of one leaves
\* a whole configuration, the manager's is the stored one, and the bootstrap
\* file keeps its name (webui/store.go, SaveConfig).
THEOREM ConfigSurvives == ConsoleSpec => []ConfigKept
  <1>1. SaveInv => ConfigKept
    <2> SUFFICES ASSUME SaveInv, ~overlap
                 PROVE  /\ Stored # Empty
                        /\ Lives /\ Busy = {} => mcfg = Stored
                        /\ enrolled => Stored.tokenFile
      BY DEF ConfigKept
    <2>1. StoredOK
      BY DEF SaveInv, AloneOK
    <2>2. Stored # Empty
      BY <2>1, ConfigFacts DEF StoredOK, Stored, Unset, Empty
    <2>3. Busy = {} => \A s \in Saves : saveAt[s] # "set"
      BY DEF Busy
    <2> QED
      BY <2>1, <2>2, <2>3 DEF StoredOK
  <1> QED
    BY <1>1, SaveInvariance, PTL

-----------------------------------------------------------------------------
(* The end of the process *)

\* No step but a late start brings the runtime back once Stop has returned.
LEMMA EndKeeps ==
    ASSUME ConsoleTypeOK, EndOK, [ConsoleNext]_consoleVars
    PROVE  EndOK'
  <1> USE DEF EndOK
  <1>1. mcfg.drain \in Nat
    BY DEF ConsoleTypeOK, Configs
  <1>2. ShutdownTimeoutFor(mcfg) \in Nat
    BY <1>1 DEF ShutdownTimeoutFor, MinShutdown, ShutdownMargin
  <1>3. CASE UNCHANGED <<judge, judgeDrain, restarting, proc, grace, lateStart>>
    BY <1>3
  <1>4. UNCHANGED consoleVars => UNCHANGED <<judge, judgeDrain, restarting, proc, grace, lateStart>>
    BY DEF consoleVars, procVars
  <1>5. ASSUME NEW s \in Saves, SaveStep(s)
        PROVE  UNCHANGED <<judge, judgeDrain, restarting, proc, grace, lateStart>>
    BY <1>5
    DEF SaveStep, PutConfig, Bootstrap, WriteToken, OpenTmp, WriteTmp, RenameTmp, SetManagerConfig, procVars
  <1>6. TokenConsumed \/ AskStart => UNCHANGED <<judge, judgeDrain, restarting, proc, grace, lateStart>>
    BY DEF TokenConsumed, AskStart, procVars
  <1>7. ASSUME NEW by \in {"auto", "console"}, DoStart(by) PROVE EndOK'
    <2>1. proc # "up" => lateStart'
      BY <1>7, Zenon DEF DoStart
    <2>2. /\ UNCHANGED <<proc, restarting, grace>>
          /\ judge' \in {"off", "on", "draining"} /\ judgeDrain' \in Nat
      BY <1>1, <1>7 DEF DoStart, StartJudge
    <2> QED
      BY <2>1, <2>2
  <1>8. CASE StopCall \/ RestartCall \/ JudgeEnds
    BY <1>8 DEF StopCall, RestartCall, JudgeEnds, procVars, OpFree
  <1>9. CASE RestartEnds
    <2>1. proc \notin {"stopped", "closing", "exited"} /\ UNCHANGED <<proc, grace>>
      BY <1>9 DEF RestartEnds, Lives
    <2>2. judge' \in {"off", "on", "draining"} /\ judgeDrain' \in Nat
      BY <1>1, <1>9 DEF RestartEnds, StartJudge
    <2> QED
      BY <2>1, <2>2
  <1>10. CASE Signal
    <2> DEFINE allowed == ShutdownTimeoutFor(mcfg)
    <2>1. PICK waited \in {0, RestartLimit} : grace' = IF allowed > waited THEN allowed - waited ELSE 0
      BY <1>10 DEF Signal
    <2>2. grace' \in Nat
      BY <1>2, <2>1 DEF RestartLimit
    <2> QED
      BY <1>10, <2>2 DEF Signal
  <1>11. CASE ShutdownStops \/ ShutdownStopped
    BY <1>11 DEF ShutdownStops, ShutdownStopped, procVars
  <1>12. CASE CloseConsole \/ Exit \/ Crash \/ Boot
    BY <1>12 DEF CloseConsole, Exit, Crash, Boot
  <1> QED
    BY <1>3, <1>4, <1>5, <1>6, <1>7, <1>8, <1>9, <1>10, <1>11, <1>12 DEF ConsoleNext

\* main returns with a runtime that is not over only after a start behind the
\* shutdown's Stop, or when the time allowed for it was not computed from its
\* own drain timeout (cmd/hnieoj-judge-node/main.go, shutdownTimeoutFor).
THEOREM ExitIsDrained == ConsoleSpec => []ExitDrained
  <1>1. ConsoleInit => EndOK
    BY DEF ConsoleInit, EndOK
  <1>2. SaveInv /\ EndOK /\ [ConsoleNext]_consoleVars => EndOK'
    BY EndKeeps DEF SaveInv
  <1>3. EndOK => ExitDrained
    <2> SUFFICES ASSUME EndOK, proc = "exited", judge # "off", ~lateStart
                 PROVE  grace < ShutdownTimeoutFor([Default EXCEPT !.drain = judgeDrain])
      BY DEF ExitDrained
    <2> DEFINE c == [Default EXCEPT !.drain = judgeDrain]
    <2>1. c.drain = judgeDrain /\ (judgeDrain # 0 => c # Unset)
      BY DEF Default, Unset
    <2>2. judgeDrain \in Nat /\ grace \in Nat /\ grace <= 2 * judgeDrain
      BY DEF EndOK
    <2> HIDE DEF c
    <2>3. grace < ShutdownTimeoutFor(c)
      BY <2>1, <2>2 DEF ShutdownTimeoutFor, MinShutdown, ShutdownMargin
    <2> QED
      BY <2>3 DEF c
  <1> QED
    BY <1>1, <1>2, <1>3, SaveInvariance, PTL DEF ConsoleSpec
=============================================================================
