--------------------------- MODULE FileCacheProofs --------------------------
(***************************************************************************)
(* What FileCache.tla's runs check on two processes and a clock of a few   *)
(* seconds, for any number of processes, values and seconds.               *)
(***************************************************************************)
EXTENDS FileCache, TLAPS

Writing(p) == pc[p] \in {"temp", "written", "synced"}

\* Where a process is tells what it carries, and how far its file has got.
PcAgrees ==
  \A p \in Procs :
    /\ Writing(p) <=> tmp[p] # None
    /\ pc[p] \in {"written", "synced"} => tmp[p].text # "none"
    /\ pc[p] = "synced" => tmp[p].synced
    /\ pc[p] = "stat" <=> read[p] # None

\* What has the entry's name is written and on the disk.
PathWhole == path # None => path.synced /\ path.text # "none"

\* A reader has read such a file, one that had the name during the read, and the
\* name stands for one it knows of.
ReaderAgrees ==
  \A p \in Procs :
    /\ read[p] # None => read[p] \in during[p] /\ read[p].text # "none"
    /\ Reading(p) => path \in during[p]

IInv ==
  /\ TypeOK
  /\ PcAgrees
  /\ PathWhole
  /\ ReaderAgrees
  /\ NeverTruncated
  /\ ReadsCurrent
-----------------------------------------------------------------------------
\* None is no file.
LEMMA NoneNoFile == None \notin File
  BY FileCacheAssumption

\* An empty cache directory is in order.
LEMMA InitInv == Init => IInv
<1> SUFFICES ASSUME Init PROVE IInv
  OBVIOUS
<1>1. TypeOK
  <2>1. got \in [Procs -> [file : File, at : Nat] \cup {None}]
    BY DEF Init
  <2>2. during \in [Procs -> SUBSET (File \cup {None})]
    <3>1. {} \in SUBSET (File \cup {None})
      OBVIOUS
    <3> QED
      BY <3>1, Zenon DEF Init
  <2>3. now \in Nat /\ path \in File \cup {None} /\ {exclusive, litter} \subseteq BOOLEAN
    BY FileCacheAssumption DEF Init
  <2>4. pc \in [Procs -> Steps] /\ cutoff \in [Procs -> Int]
    BY DEF Init, Steps
  <2>5. tmp \in [Procs -> File \cup {None}] /\ read \in [Procs -> File \cup {None}]
    BY DEF Init
  <2> QED
    BY <2>1, <2>2, <2>3, <2>4, <2>5 DEF TypeOK
<1>2. PcAgrees /\ PathWhole /\ ReaderAgrees
  BY DEF Init, PcAgrees, PathWhole, ReaderAgrees, Writing, Reading
<1>3. NeverTruncated /\ ReadsCurrent
  BY DEF Init, NeverTruncated, ReadsCurrent
<1> QED
  BY <1>1, <1>2, <1>3 DEF IInv

\* Starting an operation resets what the last one returned.
LEMMA StartInv ==
  ASSUME IInv, NEW p \in Procs,
         NEW to \in {"reading", "unlink", "list"}, Start(p, to),
         UNCHANGED <<exclusive, now, path, tmp, litter, read>>,
         cutoff' \in [Procs -> Int]
  PROVE  IInv'
<1> USE DEF IInv, Start, Goto
<1>1. TypeOK'
  <2>1. pc' \in [Procs -> Steps]
    BY DEF TypeOK, Steps
  <2>2. got' \in [Procs -> [file : File, at : Nat] \cup {None}]
    BY DEF TypeOK
  <2>3. during' \in [Procs -> SUBSET (File \cup {None})]
    BY DEF TypeOK
  <2> QED
    BY <2>1, <2>2, <2>3 DEF TypeOK
<1>2. PcAgrees'
  BY DEF TypeOK, PcAgrees, Writing
<1>3. PathWhole'
  BY DEF PathWhole
<1>4. ReaderAgrees'
  BY DEF TypeOK, PcAgrees, ReaderAgrees, Reading
<1>5. NeverTruncated' /\ ReadsCurrent'
  BY DEF TypeOK, NeverTruncated, ReadsCurrent
<1> QED
  BY <1>1, <1>2, <1>3, <1>4, <1>5

\* Nothing of what the invariant relates moves but one program counter, between
\* steps at which a process carries nothing.
LEMMA MoveInv ==
  ASSUME IInv, NEW p \in Procs,
         NEW from \in {"reading", "list", "scan", "scanstat"},
         NEW to \in {"idle", "scan", "scanstat", "doomed"}, Goto(p, from, to),
         UNCHANGED <<exclusive, now, path, tmp, litter, read, got, during>>,
         cutoff' \in [Procs -> Int]
  PROVE  IInv'
<1> USE DEF IInv, Goto
<1>1. TypeOK'
  BY DEF TypeOK, Steps
<1>2. PcAgrees'
  BY DEF TypeOK, PcAgrees, Writing
<1>3. PathWhole' /\ ReaderAgrees'
  BY DEF TypeOK, PathWhole, ReaderAgrees, Reading
<1>4. NeverTruncated' /\ ReadsCurrent'
  BY DEF NeverTruncated, ReadsCurrent
<1> QED
  BY <1>1, <1>2, <1>3, <1>4

\* The two steps of a read.
LEMMA GetInv ==
  ASSUME IInv, NEW p \in Procs, GetRead(p) \/ GetStat(p)
  PROVE  IInv'
<1> USE NoneNoFile DEF IInv, Goto
<1>1. CASE GetRead(p)
  <2> USE <1>1 DEF GetRead
  <2>1. TypeOK'
    BY DEF TypeOK, Steps
  <2>2. PcAgrees'
    BY DEF TypeOK, PcAgrees, Writing
  <2>3. PathWhole' /\ ReaderAgrees'
    BY DEF TypeOK, PathWhole, ReaderAgrees, Reading
  <2>4. NeverTruncated' /\ ReadsCurrent'
    BY DEF NeverTruncated, ReadsCurrent
  <2> QED
    BY <2>1, <2>2, <2>3, <2>4
<1>2. CASE GetStat(p)
  <2> USE <1>2 DEF GetStat
  <2>1. read[p] \in File /\ read[p] \in during[p] /\ read[p].text # "none"
    BY DEF TypeOK, PcAgrees, ReaderAgrees
  <2>2. path # None => path \in during[p] /\ path.at \in Nat
    BY DEF TypeOK, ReaderAgrees, Reading, File
  <2>3. TypeOK'
    BY <2>1, <2>2 DEF TypeOK, Steps
  <2>4. PcAgrees'
    BY DEF TypeOK, PcAgrees, Writing
  <2>5. PathWhole' /\ ReaderAgrees'
    BY DEF TypeOK, PathWhole, ReaderAgrees, Reading
  <2>6. NeverTruncated'
    BY <2>1 DEF TypeOK, NeverTruncated
  <2>7. ReadsCurrent'
    BY <2>1, <2>2 DEF TypeOK, ReadsCurrent
  <2> QED
    BY <2>3, <2>4, <2>5, <2>6, <2>7
<1> QED
  BY <1>1, <1>2

\* The steps of a write up to the rename.
LEMMA WriteInv ==
  ASSUME IInv, NEW p \in Procs,
         (\E v \in Values : PutTemp(p, v)) \/ PutWrite(p) \/ PutSync(p) \/ PutFails(p)
  PROVE  IInv'
<1> USE NoneNoFile DEF IInv, Goto
<1>1. CASE \E v \in Values : PutTemp(p, v)
  <2> PICK v \in Values : PutTemp(p, v)
    BY <1>1
  <2> USE DEF PutTemp, Start
  <2>1. [val |-> v, at |-> now, text |-> "none", synced |-> FALSE] \in File
    BY DEF TypeOK, File
  <2>2. TypeOK'
    BY <2>1 DEF TypeOK, Steps
  <2>3. PcAgrees'
    BY <2>1 DEF TypeOK, PcAgrees, Writing
  <2>4. PathWhole' /\ ReaderAgrees'
    BY DEF TypeOK, PcAgrees, PathWhole, ReaderAgrees, Reading
  <2>5. NeverTruncated' /\ ReadsCurrent'
    BY DEF TypeOK, NeverTruncated, ReadsCurrent
  <2> QED
    BY <2>2, <2>3, <2>4, <2>5
<1>2. CASE PutWrite(p)
  <2> PICK text \in {"part", "all"} :
        tmp' = [tmp EXCEPT ![p].text = text, ![p].at = now]
    BY <1>2 DEF PutWrite
  <2>1. tmp[p] \in File
    BY <1>2 DEF TypeOK, PcAgrees, Writing, PutWrite
  <2>2. /\ tmp' \in [Procs -> File \cup {None}]
        /\ tmp'[p] \in File
        /\ tmp'[p].text = text
        /\ \A q \in Procs \ {p} : tmp'[q] = tmp[q]
    BY <2>1 DEF TypeOK, File
  <2>3. TypeOK'
    BY <1>2, <2>2 DEF TypeOK, Steps, PutWrite
  <2>4. PcAgrees'
    BY <1>2, <2>2 DEF TypeOK, PcAgrees, Writing, PutWrite
  <2>5. PathWhole' /\ ReaderAgrees'
    BY <1>2 DEF TypeOK, PathWhole, ReaderAgrees, Reading, PutWrite
  <2>6. NeverTruncated' /\ ReadsCurrent'
    BY <1>2 DEF NeverTruncated, ReadsCurrent, PutWrite
  <2> QED
    BY <2>3, <2>4, <2>5, <2>6
<1>3. CASE PutSync(p)
  <2>1. tmp[p] \in File /\ tmp[p].text # "none"
    BY <1>3 DEF TypeOK, PcAgrees, Writing, PutSync
  <2>2. /\ tmp' \in [Procs -> File \cup {None}]
        /\ tmp'[p] \in File
        /\ tmp'[p].text = tmp[p].text
        /\ tmp'[p].synced
        /\ \A q \in Procs \ {p} : tmp'[q] = tmp[q]
    BY <1>3, <2>1 DEF TypeOK, File, PutSync
  <2>3. TypeOK'
    BY <1>3, <2>2 DEF TypeOK, Steps, PutSync
  <2>4. PcAgrees'
    BY <1>3, <2>1, <2>2 DEF TypeOK, PcAgrees, Writing, PutSync
  <2>5. PathWhole' /\ ReaderAgrees'
    BY <1>3 DEF TypeOK, PathWhole, ReaderAgrees, Reading, PutSync
  <2>6. NeverTruncated' /\ ReadsCurrent'
    BY <1>3 DEF NeverTruncated, ReadsCurrent, PutSync
  <2> QED
    BY <2>3, <2>4, <2>5, <2>6
<1>4. CASE PutFails(p)
  <2> USE <1>4 DEF PutFails
  <2>1. TypeOK'
    BY DEF TypeOK, Steps
  <2>2. PcAgrees'
    BY DEF TypeOK, PcAgrees, Writing
  <2>3. PathWhole' /\ ReaderAgrees'
    BY DEF TypeOK, PathWhole, ReaderAgrees, Reading
  <2>4. NeverTruncated' /\ ReadsCurrent'
    BY DEF NeverTruncated, ReadsCurrent
  <2> QED
    BY <2>1, <2>2, <2>3, <2>4
<1> QED
  BY <1>1, <1>2, <1>3, <1>4

\* The name comes to stand for a whole file, or for none, and readers know.
LEMMA InstallInv ==
  ASSUME IInv, NEW p \in Procs, PutReplace(p) \/ Unlink(p)
  PROVE  IInv'
<1> DEFINE new == IF PutReplace(p) THEN tmp[p] ELSE None
<1> USE NoneNoFile DEF IInv
<1>1. /\ pc' = [pc EXCEPT ![p] = "idle"]
      /\ Install(new)
      /\ pc[p] \in {"synced", "unlink", "doomed"}
      /\ UNCHANGED <<exclusive, now, litter, read, cutoff, got>>
  BY DEF PutReplace, Unlink, Goto
<1>2. tmp' \in [Procs -> File \cup {None}] /\ tmp'[p] = None
      /\ \A q \in Procs \ {p} : tmp'[q] = tmp[q]
  BY DEF TypeOK, PcAgrees, Writing, PutReplace, Unlink, Goto
<1>3. new \in File \cup {None} /\ (new # None => new.synced /\ new.text # "none")
  BY DEF TypeOK, PcAgrees, PutReplace, Goto
<1> HIDE DEF new
<1>4. TypeOK'
  BY <1>1, <1>2, <1>3 DEF TypeOK, Steps, Install
<1>5. PcAgrees'
  BY <1>1, <1>2 DEF TypeOK, PcAgrees, Writing
<1>6. PathWhole'
  BY <1>1, <1>3 DEF PathWhole, Install
<1>7. ReaderAgrees'
  BY <1>1 DEF TypeOK, ReaderAgrees, Reading, Install
<1>8. NeverTruncated' /\ ReadsCurrent'
  BY <1>1 DEF TypeOK, NeverTruncated, ReadsCurrent, Install
<1> QED
  BY <1>4, <1>5, <1>6, <1>7, <1>8

\* A process or the machine dies: what has the name was on the disk.
LEMMA CrashInv ==
  ASSUME IInv, (\E p \in Procs : Crash(p)) \/ PowerLoss
  PROVE  IInv'
<1> USE NoneNoFile DEF IInv
<1>1. CASE \E p \in Procs : Crash(p)
  <2> PICK p \in Procs : Crash(p)
    BY <1>1
  <2> USE DEF Crash
  <2>1. TypeOK'
    BY DEF TypeOK, Steps
  <2>2. PcAgrees'
    BY DEF TypeOK, PcAgrees, Writing
  <2>3. PathWhole' /\ ReaderAgrees'
    BY DEF TypeOK, PathWhole, ReaderAgrees, Reading
  <2>4. NeverTruncated' /\ ReadsCurrent'
    BY DEF NeverTruncated, ReadsCurrent
  <2> QED
    BY <2>1, <2>2, <2>3, <2>4
<1>2. CASE PowerLoss
  <2> USE <1>2 DEF PowerLoss
  <2>1. path' = path
    BY DEF PathWhole
  <2>2. TypeOK'
    BY <2>1 DEF TypeOK, Steps
  <2>3. PcAgrees'
    BY DEF PcAgrees, Writing
  <2>4. PathWhole' /\ ReaderAgrees'
    BY <2>1 DEF PathWhole, ReaderAgrees, Reading
  <2>5. NeverTruncated' /\ ReadsCurrent'
    BY DEF NeverTruncated, ReadsCurrent
  <2> QED
    BY <2>2, <2>3, <2>4, <2>5
<1> QED
  BY <1>1, <1>2

\* Every step preserves the invariant.
LEMMA StepInv == IInv /\ [Next]_vars => IInv'
<1> SUFFICES ASSUME IInv, [Next]_vars PROVE IInv'
  OBVIOUS
<1>1. CASE UNCHANGED vars
  BY <1>1 DEF vars, IInv, TypeOK, PcAgrees, Writing, PathWhole, ReaderAgrees, Reading,
              NeverTruncated, ReadsCurrent
<1>2. ASSUME NEW p \in Procs, Get(p) \/ Delete(p) \/ PurgeStart(p)
      PROVE  IInv'
  <2>1. cutoff' \in [Procs -> Int]
    BY <1>2, FileCacheAssumption DEF IInv, TypeOK, Get, Delete, PurgeStart
  <2>2. \E to \in {"reading", "unlink", "list"} : Start(p, to)
    BY <1>2 DEF Get, Delete, PurgeStart
  <2>3. UNCHANGED <<exclusive, now, path, tmp, litter, read>>
    BY <1>2 DEF Get, Delete, PurgeStart
  <2> QED
    BY <2>1, <2>2, <2>3, StartInv
<1>3. ASSUME NEW p \in Procs,
             GetMiss(p) \/ PurgeList(p) \/ PurgeRead(p) \/ PurgeStat(p)
      PROVE  IInv'
  <2>1. cutoff' \in [Procs -> Int]
    BY <1>3 DEF IInv, TypeOK, GetMiss, PurgeList, PurgeRead, PurgeStat
  <2>2. \E from \in {"reading", "list", "scan", "scanstat"},
          to \in {"idle", "scan", "scanstat", "doomed"} : Goto(p, from, to)
    BY <1>3 DEF GetMiss, PurgeList, PurgeRead, PurgeStat
  <2>3. UNCHANGED <<exclusive, now, path, tmp, litter, read, got, during>>
    BY <1>3 DEF GetMiss, PurgeList, PurgeRead, PurgeStat
  <2> QED
    BY <2>1, <2>2, <2>3, MoveInv
<1>4. CASE Tick
  BY <1>4 DEF Tick, IInv, TypeOK, PcAgrees, Writing, PathWhole, ReaderAgrees, Reading,
              NeverTruncated, ReadsCurrent
<1> QED
  BY <1>1, <1>2, <1>3, <1>4, GetInv, WriteInv, InstallInv, CrashInv DEF Next, Operate

\* What is inductive about the file cache.
THEOREM Invariance == Spec => []IInv
  BY InitInv, StepInv, PTL DEF Spec

\* Every reachable state of the file cache is well typed.
THEOREM TypeCorrect == Spec => []TypeOK
<1>1. IInv => TypeOK
  BY DEF IInv
<1> QED
  BY <1>1, Invariance, PTL

\* No reader sees a file that is not yet written or was lost again, whoever writes,
\* dies or loses power (__setitem__).
THEOREM WholeEntries == Spec => []NeverTruncated
<1>1. IInv => NeverTruncated
  BY DEF IInv
<1> QED
  BY <1>1, Invariance, PTL

\* What a read returns is from the time of the read (__getitem__).
THEOREM CurrentEntries == Spec => []ReadsCurrent
<1>1. IInv => ReadsCurrent
  BY DEF IInv
<1> QED
  BY <1>1, Invariance, PTL
-----------------------------------------------------------------------------
(* Operations that do not overlap                                          *)

\* One operation at a time has the entry for itself ...
Alone == \A p, q \in Procs : pc[p] # "idle" /\ pc[q] # "idle" => p = q

\* ... so what it has read is still so.
StillSo == \A p \in Procs : pc[p] = "stat" => read[p] = path

\* Stamps do not run ahead of the clock, and a new one is not behind the old.
StampsInOrder ==
  /\ path # None => path.at <= now
  /\ \A p \in Procs : tmp[p] # None =>
       tmp[p].at <= now /\ (path # None => path.at <= tmp[p].at)

PairKept == \A p \in Procs : got[p] # None => got[p].at = got[p].file.at

EInv == Alone /\ StillSo /\ StampsInOrder /\ PairKept

\* What the lock adds to the invariant.
XInv == exclusive => EInv

\* Nothing runs to begin with.
LEMMA AloneInit == Init => EInv
  BY DEF Init, EInv, Alone, StillSo, StampsInOrder, PairKept

\* While one process operates all others are idle.
LEMMA OthersIdle ==
  ASSUME exclusive, IInv, Alone, NEW p \in Procs, Operate(p)
  PROVE  /\ pc' = [pc EXCEPT ![p] = pc'[p]]
         /\ \A q \in Procs \ {p} : pc[q] = "idle" /\ pc'[q] = "idle" /\ tmp[q] = None
<1> USE DEF IInv, TypeOK
<1>1. \E from, to \in Steps :
        /\ Goto(p, from, to)
        /\ from = "idle" => \A q \in Procs : pc[q] = "idle"
  BY DEF Operate, Get, GetMiss, GetRead, GetStat, PutTemp, PutWrite, PutSync,
         PutReplace, PutFails, Delete, Unlink, PurgeStart, PurgeList, PurgeRead,
         PurgeStat, Start, Goto, Steps
<1>2. \A q \in Procs \ {p} : pc[q] = "idle"
  BY <1>1 DEF Goto, Alone
<1> QED
  BY <1>1, <1>2 DEF Goto, PcAgrees, Writing

\* An operation begins only when all others have ended.
LEMMA AloneStep == exclusive /\ IInv /\ Alone /\ [Next]_vars => Alone'
<1> SUFFICES ASSUME exclusive, IInv, Alone, [Next]_vars PROVE Alone'
  OBVIOUS
<1>1. CASE UNCHANGED vars \/ Tick
  BY <1>1 DEF vars, Tick, Alone
<1>2. CASE PowerLoss
  BY <1>2 DEF PowerLoss, Alone
<1>3. ASSUME NEW p \in Procs, Operate(p) PROVE Alone'
  BY <1>3, OthersIdle DEF Alone
<1>4. ASSUME NEW p \in Procs, Crash(p) PROVE Alone'
  BY <1>4 DEF IInv, TypeOK, Crash, Alone
<1> QED
  BY <1>1, <1>2, <1>3, <1>4 DEF Next

\* Dying does not falsify anything: what has the name was on the disk.
LEMMA DeathStep ==
  ASSUME IInv, StillSo, StampsInOrder, PairKept,
         UNCHANGED vars \/ PowerLoss \/ Tick \/ \E p \in Procs : Crash(p)
  PROVE  StillSo' /\ StampsInOrder' /\ PairKept'
<1> USE DEF IInv, TypeOK
<1>1. CASE UNCHANGED vars
  BY <1>1 DEF vars, StillSo, StampsInOrder, PairKept
<1>2. CASE PowerLoss
  <2>1. path' = path
    BY <1>2 DEF PowerLoss, PathWhole
  <2> QED
    BY <1>2, <2>1 DEF PowerLoss, StillSo, StampsInOrder, PairKept
<1>3. CASE Tick
  <2>1. path # None => path.at \in Nat
    BY DEF File
  <2>2. \A p \in Procs : tmp[p] # None => tmp[p].at \in Nat
    BY DEF File
  <2> QED
    BY <1>3, <2>1, <2>2, FileCacheAssumption
       DEF Tick, StillSo, StampsInOrder, PairKept
<1>4. CASE \E p \in Procs : Crash(p)
  BY <1>4 DEF Crash, StillSo, StampsInOrder, PairKept
<1> QED
  BY <1>1, <1>2, <1>3, <1>4

\* What the one process at work has read is still so.
LEMMA StillSoStep ==
  ASSUME exclusive, IInv, EInv, NEW p \in Procs, Operate(p)
  PROVE  StillSo'
<1> USE DEF IInv, TypeOK, EInv
<1>1. \A q \in Procs \ {p} : pc'[q] = "idle"
  BY OthersIdle
<1> SUFFICES pc'[p] = "stat" => read'[p] = path'
  BY <1>1 DEF StillSo
<1>2. CASE \/ Get(p) \/ Delete(p) \/ PurgeStart(p)
           \/ \E v \in Values : PutTemp(p, v)
  <2>1. pc'[p] \in {"reading", "unlink", "list", "temp"}
    BY <1>2 DEF Get, Delete, PurgeStart, PutTemp, Start, Goto
  <2> QED
    BY <2>1
<1>3. CASE GetRead(p)
  BY <1>3 DEF GetRead, Goto
<1>4. CASE GetMiss(p) \/ GetStat(p)
  <2>1. pc'[p] = "idle"
    BY <1>4 DEF GetMiss, GetStat, Goto
  <2> QED
    BY <2>1
<1>5. CASE PutWrite(p) \/ PutSync(p) \/ PutFails(p) \/ PutReplace(p) \/ Unlink(p)
  <2>1. pc'[p] \in {"idle", "written", "synced"}
    BY <1>5 DEF PutWrite, PutSync, PutFails, PutReplace, Unlink, Goto
  <2> QED
    BY <2>1
<1>6. CASE PurgeList(p) \/ PurgeRead(p) \/ PurgeStat(p)
  <2>1. pc'[p] \in {"idle", "scan", "scanstat", "doomed"}
    BY <1>6 DEF PurgeList, PurgeRead, PurgeStat, Goto
  <2> QED
    BY <2>1
<1> QED
  BY <1>2, <1>3, <1>4, <1>5, <1>6 DEF Operate

\* A file gets its stamp while it is written and its name later.
LEMMA StampsStep ==
  ASSUME exclusive, IInv, EInv, NEW p \in Procs, Operate(p)
  PROVE  StampsInOrder'
<1> USE NoneNoFile DEF IInv, TypeOK, EInv
<1>1. \A q \in Procs \ {p} : tmp[q] = None
  BY OthersIdle
<1>2. now' = now
  BY DEF Operate, Get, GetMiss, GetRead, GetStat, PutTemp, PutWrite, PutSync, PutReplace,
         PutFails, Delete, Unlink, PurgeStart, PurgeList, PurgeRead, PurgeStat
<1>3. CASE UNCHANGED <<path, tmp>>
  BY <1>2, <1>3 DEF StampsInOrder
<1>4. CASE \E v \in Values : PutTemp(p, v)
  <2>1. path' = path /\ tmp'[p].at = now /\ \A q \in Procs \ {p} : tmp'[q] = None
    BY <1>1, <1>4 DEF PutTemp
  <2> QED
    BY <1>2, <2>1 DEF StampsInOrder
<1>5. CASE PutWrite(p) \/ PutSync(p)
  <2>1. tmp[p] # None
    BY <1>5 DEF PcAgrees, Writing, PutWrite, PutSync, Goto
  <2>2. tmp'[p].at \in {tmp[p].at, now}
    <3>1. tmp[p] \in File
      BY <2>1
    <3>2. CASE PutWrite(p)
      BY <3>1, <3>2 DEF PutWrite, File
    <3>3. CASE PutSync(p)
      BY <3>1, <3>3 DEF PutSync, File
    <3> QED
      BY <1>5, <3>2, <3>3
  <2>3. path' = path /\ \A q \in Procs \ {p} : tmp'[q] = None
    BY <1>1, <1>5 DEF PutWrite, PutSync
  <2> QED
    BY <1>2, <2>1, <2>2, <2>3 DEF StampsInOrder
<1>6. CASE PutFails(p)
  BY <1>1, <1>2, <1>6 DEF PutFails, StampsInOrder
<1>7. CASE PutReplace(p)
  <2>1. tmp[p] # None
    BY <1>7 DEF PcAgrees, Writing, PutReplace, Goto
  <2> QED
    BY <1>1, <1>2, <1>7, <2>1 DEF PutReplace, Install, StampsInOrder
<1>8. CASE Unlink(p)
  BY <1>1, <1>2, <1>8 DEF Unlink, Install, StampsInOrder
<1> QED
  BY <1>3, <1>4, <1>5, <1>6, <1>7, <1>8
     DEF Operate, Get, GetMiss, GetRead, GetStat, Delete, PurgeStart, PurgeList,
         PurgeRead, PurgeStat

\* A read that nobody comes between returns a pair that was stored.
LEMMA PairStep ==
  ASSUME IInv, EInv, NEW p \in Procs, Operate(p)
  PROVE  PairKept'
<1> USE DEF IInv, TypeOK, EInv
<1>1. CASE UNCHANGED got
  BY <1>1 DEF PairKept
<1>2. CASE got' = [got EXCEPT ![p] = None]
  BY <1>2 DEF PairKept
<1>3. CASE GetStat(p)
  BY <1>3 DEF GetStat, Goto, StillSo, PairKept
<1> QED
  BY <1>1, <1>2, <1>3
     DEF Operate, Get, GetMiss, GetRead, PutTemp, PutWrite, PutSync, PutReplace,
         PutFails, Delete, Unlink, PurgeStart, PurgeList, PurgeRead, PurgeStat, Start

\* Every step preserves what holds when operations do not overlap.
LEMMA EStep == exclusive /\ IInv /\ EInv /\ [Next]_vars => EInv'
<1> SUFFICES ASSUME exclusive, IInv, EInv, [Next]_vars PROVE EInv'
  OBVIOUS
<1>1. Alone'
  BY AloneStep DEF EInv
<1>2. ASSUME NEW p \in Procs, Operate(p)
      PROVE  StillSo' /\ StampsInOrder' /\ PairKept'
  BY <1>2, StillSoStep, StampsStep, PairStep
<1>3. CASE UNCHANGED vars \/ PowerLoss \/ Tick \/ \E p \in Procs : Crash(p)
  BY <1>1, <1>3, DeathStep DEF EInv
<1> QED
  BY <1>1, <1>2, <1>3 DEF EInv, Next

\* The lock is there for good, or never.
LEMMA ModeKept == [Next]_vars => exclusive' = exclusive
  BY DEF Next, Operate, Get, GetMiss, GetRead, GetStat, PutTemp, PutWrite, PutSync,
         PutReplace, PutFails, Delete, Unlink, PurgeStart, PurgeList, PurgeRead,
         PurgeStat, Crash, PowerLoss, Tick, vars

\* What holds in every reachable state, and what more under a lock.
THEOREM LockedInvariance == Spec => [](IInv /\ XInv)
<1>1. Init => IInv /\ XInv
  BY InitInv, AloneInit DEF XInv
<1>2. IInv /\ XInv /\ [Next]_vars => IInv' /\ XInv'
  BY StepInv, EStep, ModeKept DEF XInv
<1> QED
  BY <1>1, <1>2, PTL DEF Spec

\* Under a lock value and stamp of a read belong together (CacheBackend, "(value,
\* timestamp) pairs").
THEOREM PairsKept == Spec => []PairIntact
<1>1. XInv => PairIntact
  BY DEF XInv, EInv, PairKept, PairIntact
<1> QED
  BY <1>1, LockedInvariance, PTL

-----------------------------------------------------------------------------
(* The file cache is a store of pairs                                      *)

\* The pair a file stands for, and the pair a process has read.
PairOf(f) == IF exclusive /\ f # None THEN [val |-> f.val, at |-> f.at] ELSE None
GotOf(g) == [p \in Procs |-> IF exclusive /\ g[p] # None
                             THEN [val |-> g[p].file.val, at |-> g[p].at] ELSE None]

\* Dropping what a process has read is a failed read of the store.
LEMMA DropMaps ==
  ASSUME exclusive, IInv, NEW p \in Procs, got' = [got EXCEPT ![p] = None],
         UNCHANGED <<exclusive, now, path>>
  PROVE  Store!Fail(p)
<1>1. GotOf(got') = [GotOf(got) EXCEPT ![p] = None]
  BY DEF IInv, TypeOK, GotOf
<1> QED
  BY <1>1 DEF Store!Fail, GotOf

\* A rename stores a pair that is not older than the one it replaces.
LEMMA ReplaceMaps ==
  ASSUME exclusive, IInv, EInv, NEW p \in Procs, PutReplace(p)
  PROVE  Store!Next
<1> DEFINE f == tmp[p]
<1>1. f \in File /\ f # None
  BY NoneNoFile DEF IInv, TypeOK, PcAgrees, Writing, PutReplace, Goto
<1>2. f.val \in Values /\ f.at \in Nat /\ f.at <= now /\ now \in Nat
  BY <1>1 DEF File, IInv, TypeOK, EInv, StampsInOrder
<1>3. path # None => path.at <= f.at
  BY <1>1 DEF EInv, StampsInOrder
<1>4. path' = f /\ got' = got /\ now' = now /\ exclusive' = exclusive
  BY DEF PutReplace, Install
<1>5. Store!Put(f.val, f.at)
  BY <1>1, <1>2, <1>3, <1>4 DEF Store!Put
<1>6. f.at \in 0 .. now
  BY <1>2
<1> QED
  BY <1>2, <1>5, <1>6 DEF Store!Next

\* The end of a read returns the pair that is kept.
LEMMA ReadMaps ==
  ASSUME exclusive, IInv, EInv, NEW p \in Procs, GetStat(p)
  PROVE  Store!Next
<1>1. read[p] = path /\ path' = path /\ now' = now /\ exclusive' = exclusive
  BY DEF EInv, StillSo, GetStat, Goto
<1>2. got' = [got EXCEPT ![p] = IF path = None THEN None
                                ELSE [file |-> path, at |-> path.at]]
  BY <1>1 DEF GetStat
<1>3. GotOf(got)' = [GotOf(got) EXCEPT ![p] = PairOf(path)]
  <2>1. path = None \/ [file |-> path, at |-> path.at] \in [file : File, at : Nat]
    BY DEF IInv, TypeOK, File
  <2>2. None \notin [file : File, at : Nat]
    BY FileCacheAssumption
  <2> QED
    BY <1>1, <1>2, <2>1, <2>2 DEF IInv, TypeOK, GotOf, PairOf
<1>4. Store!Get(p)
  BY <1>1, <1>3 DEF Store!Get, GotOf, PairOf
<1> QED
  BY <1>4 DEF Store!Next

\* Every step is a step of the store, or one it does not see.
LEMMA StoreStep ==
  ASSUME exclusive, IInv, EInv, [Next]_vars
  PROVE  [Store!Next]_(Store!vars)
<1>1. ASSUME NEW p \in Procs, Operate(p)
      PROVE  Store!Next \/ UNCHANGED Store!vars
  <2>1. CASE Get(p) \/ Delete(p) \/ PurgeStart(p) \/ \E v \in Values : PutTemp(p, v)
    <3>1. Store!Fail(p)
      BY <2>1, DropMaps DEF Get, Delete, PurgeStart, PutTemp, Start
    <3> QED
      BY <3>1 DEF Store!Next
  <2>2. CASE GetMiss(p) \/ GetRead(p) \/ PutWrite(p) \/ PutSync(p) \/ PutFails(p)
             \/ PurgeList(p) \/ PurgeRead(p) \/ PurgeStat(p)
    BY <2>2 DEF GetMiss, GetRead, PutWrite, PutSync, PutFails, PurgeList, PurgeRead,
                PurgeStat, Store!vars
  <2>3. CASE Unlink(p)
    BY <2>3 DEF Unlink, Install, Store!Remove, Store!Next
  <2> QED
    BY <1>1, <2>1, <2>2, <2>3, ReplaceMaps, ReadMaps DEF Operate
<1>2. ASSUME NEW p \in Procs, Crash(p)
      PROVE  UNCHANGED Store!vars
  BY <1>2 DEF Crash, Store!vars
<1>3. CASE PowerLoss
  <2>1. path' = path
    BY <1>3 DEF PowerLoss, IInv, PathWhole
  <2>2. Store!Restart
    BY <1>3, <2>1 DEF PowerLoss, Store!Restart
  <2> QED
    BY <2>2 DEF Store!Next
<1>4. CASE Tick
  BY <1>4 DEF Tick, Store!Tick, Store!Next
<1>5. CASE UNCHANGED vars
  BY <1>5 DEF vars, Store!vars
<1> QED
  BY <1>1, <1>2, <1>3, <1>4, <1>5 DEF Next

\* Without a lock there is nothing to see.
LEMMA BlindStep ==
  ASSUME ~exclusive, [Next]_vars
  PROVE  UNCHANGED Store!vars
<1>1. ~exclusive'
  BY ModeKept
<1> QED
  BY <1>1 DEF Store!vars

\* Under a lock the file cache implements the store of pairs that AuthKeysCache takes
\* it for.
THEOREM PairRefinement == Spec => IsPairStore
<1>1. Init => Store!Init
  BY DEF Init, Store!Init
<1>2. IInv /\ XInv /\ [Next]_vars => [Store!Next]_(Store!vars)
  BY StoreStep, BlindStep DEF XInv
<1> QED
  BY <1>1, <1>2, LockedInvariance, PTL DEF Spec, IsPairStore, Store!Spec
=============================================================================
