------------------------------ MODULE FileCache -----------------------------
(***************************************************************************)
(* One entry of the file cache, system call by system call.                *)
(*                                                                         *)
(* FileCache keeps an entry as a file whose modification time is the       *)
(* timestamp.  Any number of processes use the directory at once: sshd     *)
(* starts an `authkeys resolve` per login, a key server runs beside them,  *)
(* and cron runs `authkeys cache purge`.  The lock of AuthKeys orders the  *)
(* threads of one process only.                                            *)
(***************************************************************************)
EXTENDS Integers, FiniteSets

CONSTANTS
  Procs,        \* the processes, or the threads of one
  Values,       \* what an entry can hold
  None,         \* no file, no result
  Ttl,          \* [cache] expire
  Modes,        \* the values of `exclusive` to look at
  MaxTime       \* bound on the clock

\* A file: what it should hold, how much of that it holds, whether that has reached
\* the disk, and its modification time.
File == [val : Values, at : Nat, text : {"none", "part", "all"}, synced : BOOLEAN]

ASSUME FileCacheAssumption ==
  /\ Ttl \in Nat
  /\ MaxTime \in Nat
  /\ Modes \subseteq BOOLEAN
  /\ None \notin File
  /\ None \notin [file : File, at : Nat]

VARIABLES
  exclusive,    \* does a lock order the operations?  (It never changes.)
  now,          \* the clock
  path,         \* the file under the entry's name, or None
  pc,           \* where each process is in its operation
  tmp,          \* the temporary file of a writing process, or None
  litter,       \* are there temporary files nobody will rename?
  read,         \* the file a reading process has read, or None
  cutoff,       \* the age limit a purging process has computed
  got,          \* the last pair a process read: the file and the stamp, or None
  during        \* history: the files under the name during the last read

vars == <<exclusive, now, path, pc, tmp, litter, read, cutoff, got, during>>

Steps == {"idle", "reading", "stat", "temp", "written", "synced", "unlink",
          "list", "scan", "scanstat", "doomed"}

-----------------------------------------------------------------------------

Init ==
  /\ exclusive \in Modes
  /\ now = 0
  /\ path = None
  /\ pc = [p \in Procs |-> "idle"]
  /\ tmp = [p \in Procs |-> None]
  /\ litter = FALSE
  /\ read = [p \in Procs |-> None]
  /\ cutoff = [p \in Procs |-> 0]
  /\ got = [p \in Procs |-> None]
  /\ during = [p \in Procs |-> {}]

Goto(p, from, to) ==
  /\ pc[p] = from
  /\ pc' = [pc EXCEPT ![p] = to]

\* A faulty variant: nothing orders the threads
Start_Unlocked(p, to) ==
  /\ Goto(p, "idle", to)
  /\ got' = [got EXCEPT ![p] = None]
  /\ during' = [during EXCEPT ![p] = {path}]

\* An operation begins, and the result of the last one is dropped; under a lock
\* it has the entry for itself.
Start(p, to) ==
  /\ Goto(p, "idle", to)
  /\ exclusive => \A q \in Procs : pc[q] = "idle"
  /\ got' = [got EXCEPT ![p] = None]
  /\ during' = [during EXCEPT ![p] = {path}]

Reading(p) == pc[p] \in {"reading", "stat"}

\* The name now stands for file f, and whoever is reading may see it.
Install(f) ==
  /\ path' = f
  /\ during' = [q \in Procs |-> IF Reading(q) THEN during[q] \cup {f} ELSE during[q]]

-----------------------------------------------------------------------------
(* __getitem__: the content is read through the name, and then the name is *)
(* looked up again for the modification time.                              *)

Get(p) ==
  /\ Start(p, "reading")
  /\ UNCHANGED <<exclusive, now, path, tmp, litter, read, cutoff>>

\* cached.exists() is false, or the file is gone before it is opened.
GetMiss(p) ==
  /\ path = None
  /\ Goto(p, "reading", "idle")
  /\ UNCHANGED <<exclusive, now, path, tmp, litter, read, cutoff, got, during>>

\* A faulty variant: a missing file reads as nothing
GetRead_Unchecked(p) ==
  /\ Goto(p, "reading", "stat")
  /\ read' = [read EXCEPT ![p] = path]
  /\ UNCHANGED <<exclusive, now, path, tmp, litter, cutoff, got, during>>

GetRead(p) ==
  /\ path # None
  /\ Goto(p, "reading", "stat")
  /\ read' = [read EXCEPT ![p] = path]
  /\ UNCHANGED <<exclusive, now, path, tmp, litter, cutoff, got, during>>

\* A faulty variant: the stamp is the time of the read
GetStat_Now(p) ==
  /\ Goto(p, "stat", "idle")
  /\ got' = [got EXCEPT ![p] = IF path = None THEN None
                               ELSE [file |-> read[p], at |-> now]]
  /\ read' = [read EXCEPT ![p] = None]
  /\ UNCHANGED <<exclusive, now, path, tmp, litter, cutoff, during>>

\* If the name is gone stat raises, which the caller takes for a miss.
GetStat(p) ==
  /\ Goto(p, "stat", "idle")
  /\ got' = [got EXCEPT ![p] = IF path = None THEN None
                               ELSE [file |-> read[p], at |-> path.at]]
  /\ read' = [read EXCEPT ![p] = None]
  /\ UNCHANGED <<exclusive, now, path, tmp, litter, cutoff, during>>

-----------------------------------------------------------------------------
(* __setitem__: a temporary file is written, synced and renamed.           *)

PutTemp(p, v) ==
  /\ Start(p, "temp")
  /\ tmp' = [tmp EXCEPT ![p] = [val |-> v, at |-> now, text |-> "none", synced |-> FALSE]]
  /\ UNCHANGED <<exclusive, now, path, litter, read, cutoff>>

\* A faulty variant: the file is renamed without fsync
PutWrite_NoSync(p) ==
  /\ Goto(p, "temp", "synced")
  /\ \E text \in {"part", "all"} :
       tmp' = [tmp EXCEPT ![p].text = text, ![p].at = now]
  /\ UNCHANGED <<exclusive, now, path, litter, read, cutoff, got, during>>

\* os.write, which may write less than it was given: nobody looks at its count.
PutWrite(p) ==
  /\ Goto(p, "temp", "written")
  /\ \E text \in {"part", "all"} :
       tmp' = [tmp EXCEPT ![p].text = text, ![p].at = now]
  /\ UNCHANGED <<exclusive, now, path, litter, read, cutoff, got, during>>

PutSync(p) ==
  /\ Goto(p, "written", "synced")
  /\ tmp' = [tmp EXCEPT ![p].synced = TRUE]
  /\ UNCHANGED <<exclusive, now, path, litter, read, cutoff, got, during>>

\* os.replace
PutReplace(p) ==
  /\ Goto(p, "synced", "idle")
  /\ Install(tmp[p])
  /\ tmp' = [tmp EXCEPT ![p] = None]
  /\ UNCHANGED <<exclusive, now, litter, read, cutoff, got>>

\* write, fsync or replace raised: the descriptor is closed, the file stays.
PutFails(p) ==
  /\ pc[p] \in {"temp", "written", "synced"}
  /\ Goto(p, pc[p], "idle")
  /\ tmp' = [tmp EXCEPT ![p] = None]
  /\ litter' = TRUE
  /\ UNCHANGED <<exclusive, now, path, read, cutoff, got, during>>

-----------------------------------------------------------------------------
(* __delitem__, and `authkeys cache purge --expired`, which lists the keys *)
(* with their ages first and deletes afterwards.                           *)

\* cached.exists()
Delete(p) ==
  /\ path # None
  /\ Start(p, "unlink")
  /\ UNCHANGED <<exclusive, now, path, tmp, litter, read, cutoff>>

PurgeStart(p) ==
  /\ Start(p, "list")
  /\ cutoff' = [cutoff EXCEPT ![p] = now - Ttl]
  /\ UNCHANGED <<exclusive, now, path, tmp, litter, read>>

\* backend.keys(): an entry that is not there is not listed.
PurgeList(p) ==
  /\ Goto(p, "list", IF path = None THEN "idle" ELSE "scan")
  /\ UNCHANGED <<exclusive, now, path, tmp, litter, read, cutoff, got, during>>

\* backend[k], the content: an entry gone by now counts as written at time 0 of
\* the wall clock, long ago.
PurgeRead(p) ==
  /\ Goto(p, "scan", IF path = None THEN "doomed" ELSE "scanstat")
  /\ UNCHANGED <<exclusive, now, path, tmp, litter, read, cutoff, got, during>>

\* backend[k], the time stamp, which dooms the entry or does not.  If the name is
\* gone the stat raises and ends the command.
PurgeStat(p) ==
  /\ Goto(p, "scanstat",
          IF path # None /\ path.at < cutoff[p] THEN "doomed" ELSE "idle")
  /\ cutoff' = [cutoff EXCEPT ![p] = 0]
  /\ UNCHANGED <<exclusive, now, path, tmp, litter, read, got, during>>

\* del backend[key]
Unlink(p) ==
  /\ pc[p] \in {"unlink", "doomed"}
  /\ Goto(p, pc[p], "idle")
  /\ Install(None)
  /\ UNCHANGED <<exclusive, now, tmp, litter, read, cutoff, got>>

-----------------------------------------------------------------------------

\* A process dies: sshd or an operator kills it.
Crash(p) ==
  /\ pc[p] # "idle"
  /\ pc' = [pc EXCEPT ![p] = "idle"]
  /\ litter' = (litter \/ tmp[p] # None)
  /\ tmp' = [tmp EXCEPT ![p] = None]
  /\ read' = [read EXCEPT ![p] = None]
  /\ UNCHANGED <<exclusive, now, path, cutoff, got, during>>

\* The machine dies: what was not synced is lost from a file that has its name.
PowerLoss ==
  /\ pc' = [p \in Procs |-> "idle"]
  /\ litter' = (litter \/ \E p \in Procs : tmp[p] # None)
  /\ tmp' = [p \in Procs |-> None]
  /\ read' = [p \in Procs |-> None]
  /\ got' = [p \in Procs |-> None]
  /\ during' = [p \in Procs |-> {}]
  /\ path' = IF path # None /\ ~path.synced
             THEN [path EXCEPT !.text = "none", !.synced = TRUE] ELSE path
  /\ UNCHANGED <<exclusive, now, cutoff>>

Tick ==
  /\ now < MaxTime
  /\ now' = now + 1
  /\ UNCHANGED <<exclusive, path, pc, tmp, litter, read, cutoff, got, during>>

Operate(p) ==
  \/ Get(p) \/ GetMiss(p) \/ GetRead(p) \/ GetStat(p)
  \/ \E v \in Values : PutTemp(p, v)
  \/ PutWrite(p) \/ PutSync(p) \/ PutReplace(p) \/ PutFails(p)
  \/ Delete(p) \/ Unlink(p)
  \/ PurgeStart(p) \/ PurgeList(p) \/ PurgeRead(p) \/ PurgeStat(p)

Next == (\E p \in Procs : Operate(p) \/ Crash(p)) \/ PowerLoss \/ Tick

Spec == Init /\ [][Next]_vars

-----------------------------------------------------------------------------
(* Properties                                                              *)

TypeOK ==
  /\ exclusive \in BOOLEAN
  /\ now \in Nat
  /\ path \in File \cup {None}
  /\ pc \in [Procs -> Steps]
  /\ tmp \in [Procs -> File \cup {None}]
  /\ litter \in BOOLEAN
  /\ read \in [Procs -> File \cup {None}]
  /\ cutoff \in [Procs -> Int]
  /\ got \in [Procs -> [file : File, at : Nat] \cup {None}]
  /\ during \in [Procs -> SUBSET (File \cup {None})]

\* A reader never sees a file whose content is not there yet or was lost again,
\* whoever else writes, dies or loses power between two steps of a write
\* (__setitem__, "never sees a truncated entry").  What it may see is an entry
\* that os.write cut short.
NeverTruncated ==
  \A p \in Procs : got[p] # None => got[p].file.text # "none"

\* A read returns a value the entry had, and a stamp the entry had, at some
\* moment of the read.
ReadsCurrent ==
  \A p \in Procs : got[p] # None =>
    /\ got[p].file \in during[p]
    /\ \E f \in during[p] \ {None} : f.at = got[p].at

\* Under a lock value and stamp belong together: a read returns a pair that was
\* stored (CacheBackend, "(value, timestamp) pairs").
PairIntact ==
  exclusive => \A p \in Procs : got[p] # None => got[p].at = got[p].file.at

\* Under a lock the file cache is a store of pairs; without one the mapping says
\* nothing.
Store == INSTANCE PairStore WITH
  now <- IF exclusive THEN now ELSE 0,
  pair <- IF exclusive /\ path # None THEN [val |-> path.val, at |-> path.at] ELSE None,
  got <- [p \in Procs |-> IF exclusive /\ got[p] # None
                          THEN [val |-> got[p].file.val, at |-> got[p].at] ELSE None]

IsPairStore == Store!Spec
=============================================================================
