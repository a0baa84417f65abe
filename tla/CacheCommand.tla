---------------------------- MODULE CacheCommand ----------------------------
(***************************************************************************)
(* `authkeys cache show`, `purge` and `warm` over a file cache that other  *)
(* processes use meanwhile.                                                *)
(*                                                                         *)
(* A command works from what it has read: show and purge list the entries, *)
(* then look at them one by one, and purge deletes afterwards, by name.    *)
(* Between any two of these steps a login may store an entry and another   *)
(* command may delete one.  An entry the cache does not trust reads as     *)
(* none, one that does not decode ends the command, and so may any call    *)
(* that the file system refuses.  FileCache has the system calls of one    *)
(* entry; here an entry is stored, read or deleted in one step, and what a *)
(* command sees of several of them is the subject.                         *)
(***************************************************************************)
EXTENDS Integers, FiniteSets

CONSTANTS
  Procs,        \* the processes that run `authkeys cache`
  Logins,       \* the logins that look up keys meanwhile
  Users,
  Sources,
  Entries,      \* the (uid, source) pairs that may have an entry
  None,         \* no entry, no option
  Ttl,          \* [cache] expire
  NegTtl,       \* [cache] negative_expire
  Inherit,      \* the `expire` of a source that has none of its own
  Expire,       \* [Sources -> Nat \cup {Inherit}]: the source's `expire`
  Answers,      \* Answers[s]: what source s may answer, "keys" or "negative", no keys
  Reach,        \* Reach[u]: what resolving u may ask for, by delegation and user map
  Root,         \* the directory of the cache; the others are named by their source
  Foreigns,     \* which directories the cache may find it cannot trust
  Initials,     \* the entries there may be at first
  Purges,       \* the purge command lines that are given
  Warms,        \* the sets of users `warm` is given
  MaxTime       \* bound on the clock

\* The options of a purge: user and source are names or None.
Options == [user : Users \cup {None}, source : Sources \cup {None},
            expired : BOOLEAN, all : BOOLEAN, dryRun : BOOLEAN]

\* The file of an entry: its modification time, whether it holds keys, the marker
\* of a known-empty result or bytes that are no text, and whether the running user
\* owns it and nobody else may write it.
File == [at : Nat, text : {"keys", "negative", "damaged"}, trusted : BOOLEAN]

ASSUME CommandAssumption ==
  /\ Entries \subseteq Users \X Sources
  /\ None \notin File \cup Users \cup Sources \cup Options \cup Entries
  /\ Ttl \in Nat /\ NegTtl \in Nat
  /\ MaxTime \in Nat
  /\ Answers \in [Sources -> SUBSET {"keys", "negative"}]
  /\ Reach \in [Users -> SUBSET Entries]
  /\ Root \notin Sources
  /\ Foreigns \subseteq SUBSET (Sources \cup {Root})
  /\ Initials \subseteq [Entries -> File \cup {None}]
  /\ Inherit \notin Nat
  /\ Expire \in [Sources -> Nat \cup {Inherit}]
  /\ Purges \subseteq Options
  /\ Warms \subseteq SUBSET Users

VARIABLES
  now,          \* time.time(), in seconds
  foreign,      \* the directories the cache cannot trust
  entry,        \* entry[k]: the file of the entry of k, or None
  asking,       \* asking[l]: the entry login l has missed and asks the source for, or None
  pc,           \* where each process is in its command
  options,      \* the options of its purge, or None
  cutoff,       \* purge --expired: entries stored before this are expired
  unlisted,     \* the source directories it has yet to list
  todo,         \* the listed entries it has yet to look at, warm's yet to resolve
  doomed,       \* purge: the entries it will delete
  current,      \* the entry it has found to exist and now reads or deletes
  before,       \* history: the entries when its purge began
  touched       \* history: the entries others stored or deleted since

vars == <<now, foreign, entry, asking, pc, options, cutoff, unlisted, todo, doomed,
          current, before, touched>>
mine == <<options, cutoff, before>>
outside == <<now, foreign, asking>>

Steps == {"idle", "failed", "list", "look", "read", "delete", "unlink", "warm", "fetch"}

\* Where no command runs: the last one returned, or ended with an exception.
Resting == {"idle", "failed"}

-----------------------------------------------------------------------------

Init ==
  /\ now = 0
  /\ foreign \in Foreigns
  /\ entry \in Initials
  /\ asking = [l \in Logins |-> None]
  /\ pc = [p \in Procs |-> "idle"]
  /\ options = [p \in Procs |-> None]
  /\ cutoff = [p \in Procs |-> 0]
  /\ unlisted = [p \in Procs |-> {}]
  /\ todo = [p \in Procs |-> {}]
  /\ doomed = [p \in Procs |-> {}]
  /\ current = [p \in Procs |-> None]
  /\ before = [p \in Procs |-> [k \in Entries |-> None]]
  /\ touched = [p \in Procs |-> {}]

Goto(p, from, to) ==
  /\ pc[p] = from
  /\ pc' = [pc EXCEPT ![p] = to]

\* The processes qs see somebody else store or delete the entry of k.
Touch(qs, k) ==
  touched' = [q \in Procs |->
                IF q \in qs /\ options[q] # None THEN touched[q] \cup {k} ELSE touched[q]]

\* Cache.__call__ up to the action.
Begin(p, to) ==
  /\ pc[p] \in Resting
  /\ pc' = [pc EXCEPT ![p] = to]
  /\ UNCHANGED <<outside, entry, doomed, current, touched>>

\* The command is over and its process is gone.
End(p, from, to) ==
  /\ Goto(p, from, to)
  /\ options' = [options EXCEPT ![p] = None]
  /\ cutoff' = [cutoff EXCEPT ![p] = 0]
  /\ todo' = [todo EXCEPT ![p] = {}]
  /\ doomed' = [doomed EXCEPT ![p] = {}]
  /\ current' = [current EXCEPT ![p] = None]
  /\ before' = [before EXCEPT ![p] = [k \in Entries |-> None]]
  /\ unlisted' = [unlisted EXCEPT ![p] = {}]
  /\ touched' = [touched EXCEPT ![p] = {}]
  /\ UNCHANGED <<outside, entry>>

Show(p) ==
  /\ Begin(p, "list")
  /\ unlisted' = [unlisted EXCEPT ![p] = Sources]
  /\ UNCHANGED <<mine, todo>>

\* _purge: the cutoff of --expired is [cache] expire for every source.
Purge(p, opts) ==
  /\ Begin(p, "list")
  /\ options' = [options EXCEPT ![p] = opts]
  /\ cutoff' = [cutoff EXCEPT ![p] = IF opts.expired THEN now - Ttl ELSE 0]
  /\ unlisted' = [unlisted EXCEPT ![p] = Sources]
  /\ before' = [before EXCEPT ![p] = entry]
  /\ UNCHANGED todo

\* Definitions named X_... are faulty variants of X; no specification uses them.
\* Here: the listing ends with the first directory.
List_FirstOnly(p, s) ==
  /\ pc[p] = "list"
  /\ s \in unlisted[p]
  /\ unlisted' = [unlisted EXCEPT ![p] = {}]
  /\ todo' = [todo EXCEPT ![p] = @ \cup {k \in Entries : k[2] = s /\ entry[k] # None}]
  /\ UNCHANGED <<outside, entry, pc, mine, doomed, current, touched>>

\* backend.keys(): one source directory after the other is read.
List(p, s) ==
  /\ pc[p] = "list"
  /\ s \in unlisted[p]
  /\ unlisted' = [unlisted EXCEPT ![p] = @ \ {s}]
  /\ todo' = [todo EXCEPT ![p] = @ \cup {k \in Entries : k[2] = s /\ entry[k] # None}]
  /\ UNCHANGED <<outside, entry, pc, mine, doomed, current, touched>>

\* The limits are alternatives.
Selected_Either(opts, k) ==
  \/ opts.all
  \/ k[1] = opts.user
  \/ k[2] = opts.source

\* The condition of _purge without --expired; with none of the options, and with
\* --all beside the others, every entry.
Selected(opts, k) ==
  \/ opts.all
  \/ /\ opts.user = None \/ k[1] = opts.user
     /\ opts.source = None \/ k[2] = opts.source

\* The list is complete.  A purge without --expired has its victims; the others
\* look at every entry, --expired whoever it belongs to.
Listed(p) ==
  /\ unlisted[p] = {}
  /\ \/ /\ options[p] # None
        /\ ~ options[p].expired
        /\ Goto(p, "list", "delete")
        /\ doomed' = [doomed EXCEPT ![p] = {k \in todo[p] : Selected(options[p], k)}]
        /\ todo' = [todo EXCEPT ![p] = {}]
     \/ /\ options[p] # None => options[p].expired
        /\ Goto(p, "list", "look")
        /\ UNCHANGED <<todo, doomed>>
  /\ UNCHANGED <<outside, entry, mine, unlisted, current, touched>>

\* FileCache._trusted fails for the file f of entry k or for a directory above it.
Ignored(k, f) == ~ f.trusted \/ foreign \cap {Root, k[2]} # {}

\* backend[k] up to the read.  An entry that is gone or not trusted counts for
\* purge as stored at time 0 of the wall clock, long ago; show prints it with an
\* unknown age.
Look(p, k) ==
  /\ pc[p] = "look"
  /\ k \in todo[p]
  /\ \/ /\ entry[k] # None /\ ~ Ignored(k, entry[k])
        /\ Goto(p, "look", "read")
        /\ current' = [current EXCEPT ![p] = k]
        /\ UNCHANGED doomed
     \/ /\ entry[k] # None => Ignored(k, entry[k])
        /\ doomed' = IF options[p] = None THEN doomed
                     ELSE [doomed EXCEPT ![p] = @ \cup {k}]
        /\ UNCHANGED <<pc, current>>
  /\ todo' = [todo EXCEPT ![p] = @ \ {k}]
  /\ UNCHANGED <<outside, entry, mine, unlisted, touched>>

\* An entry exactly as old as the limit is expired.
Read_AtLimit(p) ==
  LET k == current[p]
  IN  /\ Goto(p, "read", "look")
      /\ entry[k] # None /\ entry[k].text # "damaged"
      /\ doomed' = IF options[p] # None /\ entry[k].at <= cutoff[p]
                   THEN [doomed EXCEPT ![p] = @ \cup {k}] ELSE doomed
      /\ current' = [current EXCEPT ![p] = None]
      /\ UNCHANGED <<outside, entry, mine, unlisted, todo, touched>>

\* An expired entry is deleted at once, not when all have been read.
Read_AtOnce(p) ==
  LET k == current[p]
  IN  /\ Goto(p, "read", "look")
      /\ entry[k] # None /\ entry[k].text # "damaged"
      /\ entry' = IF options[p] # None /\ entry[k].at < cutoff[p]
                  THEN [entry EXCEPT ![k] = None] ELSE entry
      /\ current' = [current EXCEPT ![p] = None]
      /\ UNCHANGED <<outside, mine, unlisted, todo, doomed, touched>>

\* backend[k], the text and the time stamp.
Read(p) ==
  LET k == current[p]
  IN  /\ Goto(p, "read", "look")
      /\ entry[k] # None /\ entry[k].text # "damaged"
      /\ doomed' = IF options[p] # None /\ entry[k].at < cutoff[p]
                   THEN [doomed EXCEPT ![p] = @ \cup {k}] ELSE doomed
      /\ current' = [current EXCEPT ![p] = None]
      /\ UNCHANGED <<outside, entry, mine, unlisted, todo, touched>>

\* UnicodeDecodeError of read_text, which nothing catches, ends the command.
Undecodable(p) ==
  /\ pc[p] = "read"
  /\ entry[current[p]] # None /\ entry[current[p]].text = "damaged"
  /\ End(p, "read", "failed")

\* So does FileNotFoundError, when the entry is deleted between exists() and its use.
Vanished(p) ==
  /\ pc[p] \in {"read", "unlink"}
  /\ entry[current[p]] = None
  /\ End(p, pc[p], "failed")

\* And so does whatever else a step may meet: a call the file system refuses, a
\* file in the cache whose name _check_component does not accept, a user map that
\* raises under warm, a signal.
Aborts(p) ==
  /\ pc[p] \notin Resting
  /\ End(p, pc[p], "failed")

Looked(p) ==
  /\ todo[p] = {}
  /\ \/ /\ options[p] = None
        /\ End(p, "look", "idle")
     \/ /\ options[p] # None
        /\ Goto(p, "look", "delete")
        /\ UNCHANGED <<outside, entry, mine, unlisted, todo, doomed, current, touched>>

\* del backend[k], cached.exists(): an entry that is gone is passed over, and so is
\* every entry if the cache cannot trust its root.
Check(p, k) ==
  /\ pc[p] = "delete"
  /\ ~ options[p].dryRun
  /\ k \in doomed[p]
  /\ IF entry[k] # None /\ Root \notin foreign
     THEN /\ Goto(p, "delete", "unlink")
          /\ current' = [current EXCEPT ![p] = k]
     ELSE UNCHANGED <<pc, current>>
  /\ doomed' = [doomed EXCEPT ![p] = @ \ {k}]
  /\ UNCHANGED <<outside, entry, mine, unlisted, todo, touched>>

\* The entry is deleted, and then once more.
Unlink_Again(p) ==
  /\ pc[p] = "unlink"
  /\ entry[current[p]] # None
  /\ entry' = [entry EXCEPT ![current[p]] = None]
  /\ Touch(Procs \ {p}, current[p])
  /\ UNCHANGED <<outside, pc, mine, unlisted, todo, doomed, current>>

\* del backend[k], cached.unlink()
Unlink(p) ==
  /\ Goto(p, "unlink", "delete")
  /\ entry[current[p]] # None
  /\ entry' = [entry EXCEPT ![current[p]] = None]
  /\ Touch(Procs \ {p}, current[p])
  /\ current' = [current EXCEPT ![p] = None]
  /\ UNCHANGED <<outside, mine, unlisted, todo, doomed>>

\* Every victim was deleted, or printed by --dry-run.
Purged(p) ==
  /\ End(p, "delete", "idle")
  /\ doomed[p] = {} \/ options[p].dryRun

-----------------------------------------------------------------------------
(* A lookup reads the entry under the lock of its own process, asks the    *)
(* source without one, and stores what it answers: a login does, and warm  *)
(* does for one user after the other.                                      *)

\* How long a lookup may use the entry of k (AuthKeysCache.get): a known-empty one
\* for negative_expire, keys for the `expire` of their source.
Lifetime(k) ==
  IF entry[k].text = "negative" THEN NegTtl
  ELSE IF Expire[k[2]] = Inherit THEN Ttl ELSE Expire[k[2]]

\* What a lookup may still use; an entry that does not decode is a miss.
Usable(k) ==
  /\ entry[k] # None
  /\ ~ Ignored(k, entry[k])
  /\ entry[k].text # "damaged"
  /\ now - Lifetime(k) <= entry[k].at

\* FileCache.__setitem__: a new file replaces the old one, unless the cache cannot
\* trust the directory.
Stored(k) ==
  IF foreign \cap {Root, k[2]} # {} THEN entry' = entry
  ELSE \E text \in Answers[k[2]] :
         entry' = [entry EXCEPT ![k] = [at |-> now, text |-> text, trusted |-> TRUE]]

\* The users are resolved one by one, each with the entries its delegation and the
\* user map lead to, fewer if a delegation does not load.
Warm(p, targets) ==
  /\ Begin(p, "warm")
  /\ \E reached \in SUBSET UNION {Reach[u] : u \in targets} :
       todo' = [todo EXCEPT ![p] = reached]
  /\ UNCHANGED <<mine, unlisted>>

WarmHit(p, k) ==
  /\ pc[p] = "warm"
  /\ k \in todo[p]
  /\ Usable(k)
  /\ todo' = [todo EXCEPT ![p] = @ \ {k}]
  /\ UNCHANGED <<outside, entry, pc, mine, unlisted, doomed, current, touched>>

WarmMiss(p, k) ==
  /\ Goto(p, "warm", "fetch")
  /\ k \in todo[p]
  /\ ~ Usable(k)
  /\ todo' = [todo EXCEPT ![p] = @ \ {k}]
  /\ current' = [current EXCEPT ![p] = k]
  /\ UNCHANGED <<outside, entry, mine, unlisted, doomed, touched>>

\* The source has answered, or failed, which leaves the entry alone; so does a write
\* that fails.
WarmFetched(p) ==
  /\ Goto(p, "fetch", "warm")
  /\ \/ /\ Stored(current[p])
        /\ Touch(Procs \ {p}, current[p])
     \/ UNCHANGED <<entry, touched>>
  /\ current' = [current EXCEPT ![p] = None]
  /\ UNCHANGED <<outside, mine, unlisted, todo, doomed>>

Warmed(p) ==
  /\ End(p, "warm", "idle")
  /\ todo[p] = {}

-----------------------------------------------------------------------------
own == <<pc, mine, unlisted, todo, doomed, current>>

\* A login finds no entry of k it may use ...
LoginMiss(l, k) ==
  /\ asking[l] = None
  /\ ~ Usable(k)
  /\ asking' = [asking EXCEPT ![l] = k]
  /\ UNCHANGED <<now, foreign, entry, own, touched>>

\* ... and the source has answered it, or failed, perhaps long after.
LoginFetched(l) ==
  /\ asking[l] # None
  /\ asking' = [asking EXCEPT ![l] = None]
  /\ \/ /\ Stored(asking[l])
        /\ Touch(Procs, asking[l])
     \/ UNCHANGED <<entry, touched>>
  /\ UNCHANGED <<now, foreign, own>>

Tick ==
  /\ now < MaxTime
  /\ now' = now + 1
  /\ UNCHANGED <<foreign, entry, asking, own, touched>>

Command(p) ==
  \/ Show(p)
  \/ \E opts \in Purges : Purge(p, opts)
  \/ \E targets \in Warms : Warm(p, targets)
  \/ \E s \in Sources : List(p, s)
  \/ Listed(p) \/ Read(p) \/ Undecodable(p) \/ Vanished(p) \/ Aborts(p) \/ Looked(p)
  \/ \E k \in Entries : Look(p, k) \/ Check(p, k) \/ WarmHit(p, k) \/ WarmMiss(p, k)
  \/ Unlink(p) \/ Purged(p) \/ WarmFetched(p) \/ Warmed(p)

Next ==
  \/ \E p \in Procs : Command(p)
  \/ \E l \in Logins : LoginFetched(l) \/ \E k \in Entries : LoginMiss(l, k)
  \/ Tick

Spec == Init /\ [][Next]_vars

-----------------------------------------------------------------------------
(* Properties                                                              *)

TypeOK ==
  /\ now \in Nat
  /\ foreign \subseteq Sources \cup {Root}
  /\ entry \in [Entries -> File \cup {None}]
  /\ asking \in [Logins -> Entries \cup {None}]
  /\ pc \in [Procs -> Steps]
  /\ options \in [Procs -> Options \cup {None}]
  /\ cutoff \in [Procs -> Int]
  /\ unlisted \in [Procs -> SUBSET Sources]
  /\ todo \in [Procs -> SUBSET Entries]
  /\ doomed \in [Procs -> SUBSET Entries]
  /\ current \in [Procs -> Entries \cup {None}]
  /\ \A p \in Procs : current[p] # None <=> pc[p] \in {"read", "unlink", "fetch"}
  /\ before \in [Procs -> [Entries -> File \cup {None}]]
  /\ touched \in [Procs -> SUBSET Entries]

\* What the options of a purge without --expired ask for: --all is everything, a
\* filter that is given excludes what does not match it.
Asked(opts, k) ==
  ~ opts.all =>
    /\ opts.user # None => k[1] = opts.user
    /\ opts.source # None => k[2] = opts.source

\* What a purge is for: the entries its options name, as they were when it began.
\* An entry the cache ignores is of no use and counts as expired.
Named(p, k) ==
  /\ before[p][k] # None
  /\ IF options[p].expired
     THEN Ignored(k, before[p][k]) \/ before[p][k].at < cutoff[p]
     ELSE Asked(options[p], k)

\* A purge that reports success has removed every entry it was asked to remove,
\* however many others are deleted or stored beside it: what is left of them was
\* stored meanwhile (Cache._purge).  A cache that cannot trust its root is the
\* exception: it deletes nothing, and the purge reports success all the same.
PurgeComplete ==
  [][\A p \in Procs :
       /\ pc[p] = "delete" /\ pc'[p] = "idle" /\ ~ options[p].dryRun
       /\ Root \notin foreign
       => \A k \in Entries : Named(p, k) => k \in touched[p] \/ entry[k] = None]_vars

\* A purge deletes what its options name, or what another process stored or
\* deleted while it ran; with --dry-run it deletes nothing.  It decides from an
\* entry it has read and deletes by name, so the second part is all that holds.
PurgeOnlyNamed ==
  [][\A p \in Procs, k \in Entries :
       pc[p] = "unlink" /\ pc'[p] = "delete" /\ entry[k] # None /\ entry'[k] = None =>
         /\ ~ options[p].dryRun
         /\ Named(p, k) \/ k \in touched[p]]_vars

\* An entry a lookup may still use survives purge --expired, if somebody did not
\* touch it meanwhile and its lifetime is no longer than [cache] expire, which is
\* the only one _purge knows: it does delete usable entries of a source with a
\* longer `expire`, and known-empty ones under a longer negative_expire.
UsableSurvives ==
  [][\A p \in Procs, k \in Entries :
       /\ pc[p] = "unlink" /\ pc'[p] = "delete" /\ options[p].expired
       /\ entry[k] # None /\ entry'[k] = None
       /\ k \notin touched[p]
       /\ Lifetime(k) <= Ttl
       => ~ Usable(k)]_vars

\* A purge --expired that fails over one entry, one that does not decode, is gone
\* or is refused, before it has read them all has deleted none of the others: every
\* entry is as it was, but for those somebody else touched (Cache._purge reads all
\* of them before its loop deletes the first).
FailsWhole ==
  [][\A p \in Procs :
       /\ options[p] # None
       /\ pc[p] \in {"list", "look", "read"} /\ pc'[p] = "failed"
       => \A k \in Entries : k \in touched[p] \/ entry[k] = before[p][k]]_vars

\* A purge with --user or --source deletes no other entry ("Limit purge to this
\* user (uid)", "Limit purge to this source", the help of Cache.user and .source).
PurgeLimited ==
  [][\A p \in Procs, k \in Entries :
       pc[p] = "unlink" /\ pc'[p] = "delete" /\ entry[k] # None /\ entry'[k] = None =>
         /\ options[p].user = None \/ k[1] = options[p].user
         /\ options[p].source = None \/ k[2] = options[p].source]_vars
=============================================================================
