-------------------------- MODULE CacheCommandProofs -------------------------
(***************************************************************************)
(* What CacheCommand.tla's run checks on two commands, two entries and two *)
(* seconds, for any number of commands, entries and seconds.               *)
(***************************************************************************)
EXTENDS CacheCommand, TLAPS

Looking(p) == pc[p] \in {"list", "look", "read"}
Deleting(p) == pc[p] \in {"delete", "unlink"}

\* Where a process is tells which command it runs and what that has collected.
PcAgrees(p) ==
  /\ pc[p] \in Resting => todo[p] = {} /\ doomed[p] = {}
  /\ pc[p] \in Resting \cup {"warm", "fetch"} => options[p] = None
  /\ pc[p] \in {"look", "read"} /\ options[p] # None => options[p].expired
  /\ Deleting(p) => options[p] # None
  /\ pc[p] = "unlink" => ~ options[p].dryRun
  /\ options[p] # None /\ options[p].expired => cutoff[p] <= now - Ttl

\* An entry nobody else has touched is as it was when the purge began, or the purge
\* has deleted it; the one it is about to use is there, and the one
\* it is about to read is not ignored.
Untouched(p) ==
  options[p] # None =>
    \A k \in Entries : k \notin touched[p] =>
      /\ Looking(p) => entry[k] = before[p][k]
      /\ Deleting(p) => entry[k] \in {before[p][k], None}
      /\ pc[p] \in {"read", "unlink"} /\ current[p] = k => entry[k] # None
      /\ pc[p] = "read" /\ current[p] = k => ~ Ignored(k, entry[k])

\* What is listed was there, and what is doomed is named, unless it was touched.
Sound(p) ==
  options[p] # None =>
    \A k \in Entries : k \notin touched[p] =>
      /\ Looking(p) /\ k \in todo[p] => before[p][k] # None
      /\ k \in doomed[p] => Named(p, k)
      /\ pc[p] = "unlink" /\ current[p] = k => Named(p, k)

\* An entry the options name is on its way to be deleted, was touched, or is gone.
Complete(p) ==
  options[p] # None =>
    \A k \in Entries :
      Named(p, k) /\ k \notin touched[p] /\ entry[k] # None =>
        /\ pc[p] = "list" => k \in todo[p] \/ k[2] \in unlisted[p]
        /\ pc[p] = "look" => k \in todo[p] \/ k \in doomed[p]
        /\ pc[p] = "read" => k \in todo[p] \/ k \in doomed[p] \/ k = current[p]
        /\ pc[p] = "delete" => k \in doomed[p] \/ Root \in foreign
        /\ pc[p] = "unlink" => k \in doomed[p] \/ k = current[p] \/ Root \in foreign

Inv(p) == PcAgrees(p) /\ Untouched(p) /\ Sound(p) /\ Complete(p)

IInv == TypeOK /\ \A p \in Procs : Inv(p)

-----------------------------------------------------------------------------
\* The condition of _purge is what its options ask for.
LEMMA SelectedIsAsked ==
  ASSUME NEW opts \in Options, NEW k \in Entries,
         opts.user # None => k[1] \in Users
  PROVE  Selected(opts, k) <=> Asked(opts, k)
  BY DEF Selected, Asked, Options

\* None is no file and no purge's options; entries are pairs of a user and a source.
LEMMA NoNone ==
  None \notin File /\ None \notin Options /\ Entries \subseteq Users \X Sources
  BY CommandAssumption

\* None is no entry's name.
LEMMA NoEntryIsNone == None \notin Entries
  BY CommandAssumption

\* The step of one process leaves what another one relies on: the entries it
\* changes are touched.
LEMMA OtherInv ==
  ASSUME TypeOK, TypeOK', NEW q \in Procs, Inv(q),
         pc'[q] = pc[q], options'[q] = options[q], cutoff'[q] = cutoff[q],
         unlisted'[q] = unlisted[q], todo'[q] = todo[q], doomed'[q] = doomed[q],
         current'[q] = current[q], before'[q] = before[q],
         touched[q] \subseteq touched'[q],
         \A k \in Entries : entry'[k] = entry[k] \/ options[q] = None \/ k \in touched'[q],
         now <= now', foreign' = foreign
  PROVE  Inv(q)'
<1>1. PcAgrees(q)'
  <2>1. cutoff[q] \in Int /\ now \in Nat /\ now' \in Nat /\ Ttl \in Nat
    BY CommandAssumption DEF TypeOK
  <2>2. CASE options[q] = None
    BY <2>2 DEF Inv, PcAgrees, Deleting
  <2>3. CASE options[q] # None
    BY <2>1, <2>3 DEF Inv, PcAgrees, Deleting
  <2> QED
    BY <2>2, <2>3
<1>2. ASSUME NEW k \in Entries PROVE Named(q, k)' <=> Named(q, k)
  BY DEF Named, Ignored
<1>3. Untouched(q)'
  BY DEF Inv, Untouched, Ignored, Looking, Deleting
<1>4. Sound(q)'
  BY <1>2 DEF Inv, Sound, Looking
<1>5. Complete(q)'
  BY <1>2 DEF Inv, Complete, PcAgrees, Resting
<1> QED
  BY <1>1, <1>3, <1>4, <1>5 DEF Inv

\* Every command starts from nothing.
LEMMA InitInv == Init => IInv
<1> SUFFICES ASSUME Init PROVE IInv
  OBVIOUS
<1>1. TypeOK
  BY CommandAssumption DEF Init, TypeOK, Steps
<1>2. ASSUME NEW p \in Procs PROVE Inv(p)
  BY <1>2
  DEF Init, Inv, PcAgrees, Untouched, Sound, Complete, Looking, Deleting, Resting
<1> QED
  BY <1>1, <1>2 DEF IInv

\* What the start of a command sets up.
LEMMA BeginInv ==
  ASSUME IInv, NEW p \in Procs, NEW to \in {"list", "warm"}, Begin(p, to),
         options' \in [Procs -> Options \cup {None}],
         cutoff' \in [Procs -> Int],
         unlisted' \in [Procs -> SUBSET Sources],
         todo' \in [Procs -> SUBSET Entries],
         to = "list" => unlisted'[p] = Sources /\ todo' = todo,
         to = "warm" => options'[p] = None,
         options'[p] # None /\ options'[p].expired => cutoff'[p] = now - Ttl,
         options'[p] # None => before'[p] = entry,
         before' \in [Procs -> [Entries -> File \cup {None}]],
         \A q \in Procs : q # p =>
           /\ options'[q] = options[q] /\ cutoff'[q] = cutoff[q]
           /\ unlisted'[q] = unlisted[q] /\ todo'[q] = todo[q]
           /\ before'[q] = before[q]
  PROVE  IInv'
<1> USE DEF IInv, outside
<1>1. TypeOK'
  BY DEF TypeOK, Begin, Steps, Resting
<1>2. ASSUME NEW q \in Procs, q # p PROVE Inv(q)'
  <2>1. now <= now'
    BY DEF Begin, TypeOK
  <2> QED
    BY <1>1, <1>2, <2>1, OtherInv DEF Begin, TypeOK
<1>3. Inv(p)'
  <2>1. pc'[p] = to /\ entry' = entry /\ now' = now
    BY DEF Begin, TypeOK
  <2>2. todo[p] = {} /\ doomed'[p] = {}
    BY DEF Begin, Inv, PcAgrees
  <2>3. now \in Nat /\ Ttl \in Nat
    BY CommandAssumption DEF TypeOK
  <2>4. PcAgrees(p)'
    BY <2>1, <2>2, <2>3 DEF PcAgrees, Resting, Deleting
  <2>5. Untouched(p)'
    BY <2>1 DEF Untouched, Ignored, Looking, Deleting
  <2>6. Sound(p)'
    BY <2>1, <2>2 DEF Sound, Looking
  <2>7. Complete(p)'
    <3>1. \A k \in Entries : k[2] \in Sources
      BY NoNone
    <3> QED
      BY <2>1, <3>1 DEF Complete
  <2> QED
    BY <2>4, <2>5, <2>6, <2>7 DEF Inv
<1> QED
  BY <1>1, <1>2, <1>3

\* The three commands begin.
LEMMA ShowInv == ASSUME IInv, NEW p \in Procs, Show(p) PROVE IInv'
<1> USE DEF IInv, outside
<1>1. options[p] = None
  BY DEF Show, Begin, Inv, PcAgrees
<1> QED
  BY <1>1, BeginInv DEF Show, TypeOK, mine

\* purge has its limit of age from its own clock.
LEMMA PurgeInv ==
  ASSUME IInv, NEW p \in Procs, NEW opts \in Purges, Purge(p, opts) PROVE IInv'
<1> USE DEF IInv, outside
<1>1. opts \in Options /\ now - Ttl \in Int
  BY CommandAssumption DEF TypeOK
<1>2. /\ options' \in [Procs -> Options \cup {None}]
      /\ cutoff' \in [Procs -> Int]
      /\ opts.expired => cutoff'[p] = now - Ttl
      /\ options'[p] = opts
  BY <1>1 DEF Purge, TypeOK
<1>3. /\ unlisted' \in [Procs -> SUBSET Sources] /\ unlisted'[p] = Sources
      /\ before' \in [Procs -> [Entries -> File \cup {None}]] /\ before'[p] = entry
      /\ todo' = todo /\ todo \in [Procs -> SUBSET Entries]
  BY DEF Purge, TypeOK
<1>4. \A q \in Procs : q # p =>
        /\ options'[q] = options[q] /\ cutoff'[q] = cutoff[q]
        /\ unlisted'[q] = unlisted[q] /\ before'[q] = before[q]
  BY DEF Purge, TypeOK
<1>5. Begin(p, "list")
  BY DEF Purge
<1> QED
  BY <1>2, <1>3, <1>4, <1>5, BeginInv

\* warm has no options.
LEMMA WarmInv ==
  ASSUME IInv, NEW p \in Procs, NEW targets \in Warms, Warm(p, targets) PROVE IInv'
<1> USE DEF IInv, outside
<1>1. options[p] = None
  BY DEF Warm, Begin, Inv, PcAgrees
<1>2. todo' \in [Procs -> SUBSET Entries] /\ \A q \in Procs : q # p => todo'[q] = todo[q]
  <2>1. PICK reached \in SUBSET UNION {Reach[u] : u \in targets} :
          todo' = [todo EXCEPT ![p] = reached]
    BY DEF Warm
  <2>2. reached \subseteq Entries
    BY CommandAssumption
  <2> QED
    BY <2>1, <2>2 DEF TypeOK
<1> QED
  BY <1>1, <1>2, BeginInv DEF Warm, TypeOK, mine

\* A step of p that leaves the entries alone and keeps the data of p typed is right
\* for all if it is right for p.
LEMMA OwnStep ==
  ASSUME IInv, NEW p \in Procs, TypeOK', Inv(p)',
         UNCHANGED <<outside, entry, mine, touched>>,
         \A q \in Procs : q # p =>
           /\ pc'[q] = pc[q] /\ unlisted'[q] = unlisted[q] /\ todo'[q] = todo[q]
           /\ doomed'[q] = doomed[q] /\ current'[q] = current[q]
  PROVE  IInv'
<1> USE DEF IInv, outside
<1>1. ASSUME NEW q \in Procs, q # p PROVE Inv(q)'
  <2>1. now <= now'
    BY DEF TypeOK
  <2> QED
    BY <1>1, <2>1, OtherInv DEF mine
<1> QED
  BY <1>1

\* What a directory held when it was read is on the list.
LEMMA ListInv ==
  ASSUME IInv, NEW p \in Procs, NEW s \in Sources, List(p, s) PROVE IInv'
<1> USE DEF IInv, outside
<1>1. TypeOK'
  BY DEF TypeOK, List, mine
<1>2. pc[p] = "list" /\ pc'[p] = "list"
  BY DEF List
<1>3. /\ unlisted'[p] = unlisted[p] \ {s}
      /\ todo'[p] = todo[p] \cup {k \in Entries : k[2] = s /\ entry[k] # None}
  BY DEF List, TypeOK
<1>4. Inv(p)'
  <2>1. PcAgrees(p)'
    BY <1>2 DEF List, Inv, PcAgrees, Resting, Deleting, mine
  <2>2. Untouched(p)'
    BY <1>2 DEF List, Inv, Untouched, Ignored, Looking, Deleting, mine
  <2>3. Sound(p)'
    BY <1>2, <1>3 DEF List, Inv, Sound, Untouched, Looking, Named, Ignored, mine
  <2>4. Complete(p)'
    BY <1>2, <1>3 DEF List, Inv, Complete, Named, Ignored, mine
  <2> QED
    BY <2>1, <2>2, <2>3, <2>4 DEF Inv
<1> QED
  BY <1>1, <1>4, OwnStep DEF List, TypeOK

\* The complete list has every entry the options name that nobody has touched.
LEMMA ListedInv == ASSUME IInv, NEW p \in Procs, Listed(p) PROVE IInv'
<1> USE DEF IInv, outside
<1>1. TypeOK'
  <2>1. /\ pc' \in [Procs -> Steps]
        /\ \A q \in Procs :
             pc'[q] \in {"read", "unlink", "fetch"} <=> pc[q] \in {"read", "unlink", "fetch"}
    BY DEF TypeOK, Listed, Goto, Steps
  <2>2. todo' \in [Procs -> SUBSET Entries]
    BY DEF TypeOK, Listed
  <2>3. doomed' \in [Procs -> SUBSET Entries]
    <3>1. {k \in todo[p] : Selected(options[p], k)} \in SUBSET Entries
      BY DEF TypeOK
    <3> QED
      BY <3>1 DEF TypeOK, Listed
  <2> QED
    BY <2>1, <2>2, <2>3 DEF TypeOK, Listed, mine
<1>2. /\ pc[p] = "list"
      /\ unlisted[p] = {}
  BY DEF Listed, Goto
<1>3. CASE /\ options[p] # None
           /\ ~ options[p].expired
           /\ Goto(p, "list", "delete")
           /\ doomed' = [doomed EXCEPT ![p] = {k \in todo[p] : Selected(options[p], k)}]
           /\ todo' = [todo EXCEPT ![p] = {}]
  <2>1. /\ pc'[p] = "delete"
        /\ doomed'[p] = {k \in todo[p] : Selected(options[p], k)}
        /\ todo'[p] = {}
    BY <1>3 DEF Goto, TypeOK
  <2>2. ASSUME NEW k \in Entries PROVE Selected(options[p], k) <=> Asked(options[p], k)
    BY <1>3, SelectedIsAsked, NoNone DEF TypeOK
  <2>3. PcAgrees(p)'
    BY <1>3, <2>1 DEF Listed, Inv, PcAgrees, Resting, Deleting, mine
  <2>4. Untouched(p)'
    BY <1>2, <2>1 DEF Listed, Inv, Untouched, Ignored, Looking, Deleting, mine
  <2>5. Sound(p)'
    BY <1>2, <1>3, <2>1, <2>2
       DEF Listed, Inv, Sound, Looking, Named, Ignored, mine, TypeOK
  <2>6. Complete(p)'
    BY <1>2, <1>3, <2>1, <2>2 DEF Listed, Inv, Complete, Named, Ignored, mine
  <2>7. Inv(p)'
    BY <2>3, <2>4, <2>5, <2>6 DEF Inv
  <2> QED
    BY <1>1, <2>7, OwnStep DEF Listed, Goto, TypeOK
<1>4. CASE /\ options[p] # None => options[p].expired
           /\ Goto(p, "list", "look")
           /\ UNCHANGED <<todo, doomed>>
  <2>1. pc'[p] = "look"
    BY <1>4 DEF Goto, TypeOK
  <2>2. PcAgrees(p)'
    BY <1>4, <2>1 DEF Listed, Inv, PcAgrees, Resting, Deleting, mine
  <2>3. Untouched(p)'
    BY <1>2, <2>1 DEF Listed, Inv, Untouched, Ignored, Looking, Deleting, mine
  <2>4. Sound(p)'
    BY <1>2, <1>4, <2>1 DEF Listed, Inv, Sound, Looking, Named, Ignored, mine
  <2>5. Complete(p)'
    BY <1>2, <1>4, <2>1 DEF Listed, Inv, Complete, Named, Ignored, mine
  <2>6. Inv(p)'
    BY <2>2, <2>3, <2>4, <2>5 DEF Inv
  <2> QED
    BY <1>1, <1>4, <2>6, OwnStep DEF Listed, Goto, TypeOK
<1> QED
  BY <1>3, <1>4 DEF Listed

\* An entry nobody has touched is still there, so it is doomed only if it is ignored.
LEMMA LookInv ==
  ASSUME IInv, NEW p \in Procs, NEW k \in Entries, Look(p, k) PROVE IInv'
<1> USE DEF IInv, outside
<1>1. pc[p] = "look" /\ k \in todo[p] /\ todo'[p] = todo[p] \ {k}
  BY DEF Look, TypeOK
<1>2. CASE /\ entry[k] # None /\ ~ Ignored(k, entry[k])
           /\ Goto(p, "look", "read")
           /\ current' = [current EXCEPT ![p] = k]
           /\ UNCHANGED doomed
  <2>1. TypeOK'
    <3>1. pc' \in [Procs -> Steps] /\ pc'[p] = "read"
      BY <1>2 DEF TypeOK, Goto, Steps
    <3>2. current'[p] = k /\ k # None
      BY <1>2, NoEntryIsNone DEF TypeOK
    <3> QED
      BY <1>2, <3>1, <3>2 DEF TypeOK, Look, Goto, mine
  <2>2. pc'[p] = "read" /\ current'[p] = k
    BY <1>2 DEF Goto, TypeOK
  <2>3. PcAgrees(p)'
    BY <1>1, <1>2, <2>2 DEF Look, Inv, PcAgrees, Resting, Deleting, mine
  <2>4. Untouched(p)'
    BY <1>1, <1>2, <2>2 DEF Look, Inv, Untouched, Ignored, Looking, Deleting, mine
  <2>5. Sound(p)'
    BY <1>1, <1>2, <2>2 DEF Look, Inv, Sound, Looking, Named, Ignored, mine
  <2>6. Complete(p)'
    BY <1>1, <1>2, <2>2 DEF Look, Inv, Complete, Named, Ignored, mine
  <2>7. Inv(p)'
    BY <2>3, <2>4, <2>5, <2>6 DEF Inv
  <2> QED
    BY <1>2, <2>1, <2>7, OwnStep DEF Look, Goto, TypeOK
<1>3. CASE /\ entry[k] # None => Ignored(k, entry[k])
           /\ doomed' = IF options[p] = None THEN doomed
                        ELSE [doomed EXCEPT ![p] = @ \cup {k}]
           /\ UNCHANGED <<pc, current>>
  <2>1. TypeOK'
    BY <1>3 DEF TypeOK, Look, mine
  <2>2. doomed[p] \subseteq doomed'[p] /\ doomed'[p] \subseteq doomed[p] \cup {k}
    BY <1>3 DEF TypeOK
  <2>3. options[p] # None => k \in touched[p] \/ Named(p, k)
    BY <1>1, <1>3 DEF Inv, PcAgrees, Untouched, Sound, Looking, Named
  <2>4. PcAgrees(p)'
    BY <1>1, <1>3 DEF Look, Inv, PcAgrees, Resting, Deleting, mine
  <2>5. Untouched(p)'
    BY <1>1, <1>3 DEF Look, Inv, Untouched, Ignored, Looking, Deleting, mine
  <2>6. \A j \in Entries : Named(p, j)' <=> Named(p, j)
    BY DEF Look, Named, Ignored, mine
  <2>7. Sound(p)' /\ Complete(p)'
    <3>1. pc[p] = "look" /\ pc' = pc /\ UNCHANGED <<entry, options, before, touched>>
      BY <1>1, <1>3 DEF Look, mine
    <3>2. Sound(p)'
      BY <1>1, <2>2, <2>3, <2>6, <3>1 DEF Inv, Sound, Looking
    <3>3. Complete(p)'
      <4>1. options[p] # None => k \in doomed'[p]
        BY <1>3 DEF TypeOK
      <4> QED
        BY <1>1, <2>2, <2>6, <3>1, <4>1 DEF Inv, Complete
    <3> QED
      BY <3>2, <3>3
  <2>8. Inv(p)'
    BY <2>4, <2>5, <2>6, <2>7 DEF Inv
  <2> QED
    BY <1>3, <2>1, <2>8, OwnStep DEF Look, TypeOK
<1> QED
  BY <1>2, <1>3 DEF Look

\* An entry nobody has touched is read as it was when the purge began.
LEMMA ReadInv == ASSUME IInv, NEW p \in Procs, Read(p) PROVE IInv'
<1> USE DEF IInv, outside
<1> DEFINE k == current[p]
<1>1. pc[p] = "read" /\ entry[k] # None /\ k \in Entries
  BY DEF Read, Goto, TypeOK
<1>2. pc'[p] = "look" /\ pc' \in [Procs -> Steps] /\ current'[p] = None
  BY DEF Read, Goto, TypeOK, Steps
<1>3. TypeOK'
  BY <1>1, <1>2 DEF TypeOK, Read, Goto, mine
<1>4. doomed'[p] = IF options[p] # None /\ entry[k].at < cutoff[p]
                   THEN doomed[p] \cup {k} ELSE doomed[p]
  BY DEF Read, TypeOK
<1>5. options[p] # None => options[p].expired
  BY <1>1 DEF Inv, PcAgrees
<1>6. options[p] # None /\ k \notin touched[p] =>
        before[p][k] = entry[k] /\ ~ Ignored(k, entry[k])
  BY <1>1 DEF Inv, Untouched, Looking
<1>7. PcAgrees(p)'
  BY <1>1, <1>2 DEF Read, Inv, PcAgrees, Resting, Deleting, mine
<1>8. Untouched(p)'
  BY <1>1, <1>2 DEF Read, Inv, Untouched, Ignored, Looking, Deleting, mine
<1>9. Sound(p)'
  <2>1. \A j \in Entries : Named(p, j)' <=> Named(p, j)
    BY DEF Read, Named, Ignored, mine
  <2>2. options[p] # None /\ k \in doomed'[p] \ doomed[p] /\ k \notin touched[p] => Named(p, k)
    <3>1. ASSUME options[p] # None, k \in doomed'[p], k \notin doomed[p], k \notin touched[p]
          PROVE  Named(p, k)
      <4>1. entry[k].at < cutoff[p] /\ before[p][k] = entry[k] /\ options[p].expired
        BY <1>4, <1>5, <1>6, <3>1
      <4> QED
        BY <1>1, <4>1 DEF Named
    <3> QED
      BY <3>1
  <2>3. /\ UNCHANGED <<options, before, touched, todo>>
        /\ doomed'[p] \subseteq doomed[p] \cup {k}
    BY <1>4 DEF Read, mine
  <2> QED
    BY <1>1, <1>2, <2>1, <2>2, <2>3 DEF Inv, Sound, Looking
<1>10. Complete(p)'
  <2>1. \A j \in Entries : Named(p, j)' <=> Named(p, j)
    BY DEF Read, Named, Ignored, mine
  <2>2. options[p] # None /\ Named(p, k) /\ k \notin touched[p] => k \in doomed'[p]
    BY <1>1, <1>4, <1>5, <1>6 DEF Named
  <2>3. /\ UNCHANGED <<entry, options, before, touched, todo>>
        /\ doomed[p] \subseteq doomed'[p]
    BY <1>4 DEF Read, mine
  <2> QED
    BY <1>1, <1>2, <2>1, <2>2, <2>3 DEF Inv, Complete
<1>11. Inv(p)'
  BY <1>7, <1>8, <1>9, <1>10 DEF Inv
<1> QED
  BY <1>3, <1>11, OwnStep DEF Read, Goto, TypeOK

\* A command that is over leaves nothing behind.
LEMMA EndInv ==
  ASSUME IInv, NEW p \in Procs, NEW from \in Steps, NEW to \in Resting, End(p, from, to)
  PROVE  IInv'
<1> USE DEF IInv, outside
<1>1. pc' \in [Procs -> Steps] /\ pc'[p] = to
  BY DEF End, Goto, TypeOK, Resting, Steps
<1>2. TypeOK'
  <2>1. current'[p] = None /\ to \notin {"read", "unlink", "fetch"}
    BY DEF End, TypeOK, Resting
  <2> QED
    BY <1>1, <2>1 DEF TypeOK, End, Goto
<1>3. /\ options'[p] = None /\ todo'[p] = {} /\ doomed'[p] = {}
      /\ pc'[p] \in {"idle", "failed"}
  BY <1>1 DEF End, TypeOK, Resting
<1>4. Inv(p)'
  BY <1>3 DEF Inv, PcAgrees, Untouched, Sound, Complete, Looking, Deleting, Resting
<1>5. ASSUME NEW q \in Procs, q # p PROVE Inv(q)'
  <2>1. now <= now' /\ entry' = entry
    BY DEF End, TypeOK
  <2>2. touched'[q] = touched[q]
    BY <1>5 DEF End, TypeOK
  <2> QED
    BY <1>2, <1>5, <2>1, <2>2, OtherInv DEF End, Goto, TypeOK
<1> QED
  BY <1>2, <1>4, <1>5

\* Every end of purge and warm, and every exception.
LEMMA OverInv ==
  ASSUME IInv, NEW p \in Procs,
         Undecodable(p) \/ Vanished(p) \/ Aborts(p) \/ Purged(p) \/ Warmed(p)
  PROVE  IInv'
<1>1. pc[p] \in Steps
  BY DEF IInv, TypeOK
<1> QED
  BY <1>1, EndInv DEF Undecodable, Vanished, Aborts, Purged, Warmed, Steps, Resting

\* With all entries looked at, purge --expired has its victims.
LEMMA LookedInv == ASSUME IInv, NEW p \in Procs, Looked(p) PROVE IInv'
<1> USE DEF IInv, outside
<1>1. CASE options[p] = None /\ End(p, "look", "idle")
  BY <1>1, EndInv DEF Steps, Resting
<1>2. CASE /\ options[p] # None
           /\ Goto(p, "look", "delete")
           /\ UNCHANGED <<outside, entry, mine, unlisted, todo, doomed, current, touched>>
  <2>1. pc[p] = "look" /\ pc'[p] = "delete" /\ pc' \in [Procs -> Steps] /\ todo[p] = {}
    BY <1>2 DEF Looked, Goto, TypeOK, Steps
  <2>2. TypeOK'
    BY <1>2, <2>1 DEF TypeOK, Goto, mine
  <2>3. PcAgrees(p)'
    BY <1>2, <2>1 DEF Inv, PcAgrees, Resting, Deleting, mine
  <2>4. Untouched(p)'
    BY <1>2, <2>1 DEF Inv, Untouched, Ignored, Looking, Deleting, mine
  <2>5. Sound(p)'
    BY <1>2, <2>1 DEF Inv, Sound, Looking, Named, Ignored, mine
  <2>6. Complete(p)'
    BY <1>2, <2>1 DEF Inv, Complete, Named, Ignored, mine
  <2>7. Inv(p)'
    BY <2>3, <2>4, <2>5, <2>6 DEF Inv
  <2> QED
    BY <1>2, <2>2, <2>7, OwnStep DEF Goto, TypeOK
<1> QED
  BY <1>1, <1>2 DEF Looked

\* An entry that purge finds gone needs no deleting.
LEMMA CheckInv ==
  ASSUME IInv, NEW p \in Procs, NEW k \in Entries, Check(p, k) PROVE IInv'
<1> USE DEF IInv, outside
<1>1. /\ pc[p] = "delete" /\ k \in doomed[p] /\ ~ options[p].dryRun
      /\ doomed'[p] = doomed[p] \ {k}
  BY DEF Check, TypeOK
<1>2. CASE entry[k] # None /\ Root \notin foreign
  <2>1. pc'[p] = "unlink" /\ pc' \in [Procs -> Steps] /\ current'[p] = k /\ k # None
    BY <1>2, NoEntryIsNone DEF Check, Goto, TypeOK, Steps
  <2>2. TypeOK'
    <3>1. \A q \in Procs : q # p => pc'[q] = pc[q] /\ current'[q] = current[q]
      BY <1>2 DEF Check, Goto, TypeOK
    <3>2. current' \in [Procs -> Entries \cup {None}]
      BY <1>2 DEF Check, TypeOK
    <3>3. \A q \in Procs : current'[q] # None <=> pc'[q] \in {"read", "unlink", "fetch"}
      BY <2>1, <3>1 DEF TypeOK
    <3>4. doomed' \in [Procs -> SUBSET Entries]
      BY DEF Check, TypeOK
    <3> QED
      BY <2>1, <3>2, <3>3, <3>4 DEF TypeOK, Check, mine
  <2>3. PcAgrees(p)'
    BY <1>1, <2>1 DEF Check, Inv, PcAgrees, Resting, Deleting, mine
  <2>4. Untouched(p)'
    BY <1>1, <1>2, <2>1 DEF Check, Inv, Untouched, Ignored, Looking, Deleting, mine
  <2>5. Sound(p)'
    BY <1>1, <2>1 DEF Check, Inv, PcAgrees, Deleting, Sound, Looking, Named, Ignored, mine
  <2>6. Complete(p)'
    BY <1>1, <2>1 DEF Check, Inv, Complete, Named, Ignored, mine
  <2>7. Inv(p)'
    BY <2>3, <2>4, <2>5, <2>6 DEF Inv
  <2> QED
    BY <1>2, <2>2, <2>7, OwnStep DEF Check, Goto, TypeOK
<1>3. CASE ~ (entry[k] # None /\ Root \notin foreign)
  <2>1. pc' = pc /\ current' = current
    BY <1>3 DEF Check
  <2>2. TypeOK'
    BY <2>1 DEF TypeOK, Check, mine
  <2>3. PcAgrees(p)'
    BY <1>1, <2>1 DEF Check, Inv, PcAgrees, Resting, Deleting, mine
  <2>4. Untouched(p)'
    BY <1>1, <2>1 DEF Check, Inv, Untouched, Ignored, Looking, Deleting, mine
  <2>5. Sound(p)'
    BY <1>1, <2>1 DEF Check, Inv, Sound, Looking, Named, Ignored, mine
  <2>6. Complete(p)'
    BY <1>1, <1>3, <2>1 DEF Check, Inv, Complete, Named, Ignored, mine
  <2>7. Inv(p)'
    BY <2>3, <2>4, <2>5, <2>6 DEF Inv
  <2> QED
    BY <2>1, <2>2, <2>7, OwnStep DEF Check, TypeOK
<1> QED
  BY <1>2, <1>3

\* Whoever else runs has the deleted entry among those others touched.
LEMMA UnlinkInv == ASSUME IInv, NEW p \in Procs, Unlink(p) PROVE IInv'
<1> USE DEF IInv, outside
<1> DEFINE k == current[p]
<1>1. pc[p] = "unlink" /\ k \in Entries
  BY DEF Unlink, Goto, TypeOK
<1>2. pc'[p] = "delete" /\ pc' \in [Procs -> Steps] /\ current'[p] = None
  BY DEF Unlink, Goto, TypeOK, Steps
<1>3. touched' \in [Procs -> SUBSET Entries] /\ touched'[p] = touched[p]
  BY <1>1 DEF Unlink, Touch, TypeOK
<1>4. TypeOK'
  BY <1>1, <1>2, <1>3 DEF TypeOK, Unlink, Goto, mine
<1>5. \A j \in Entries : entry'[j] = IF j = k THEN None ELSE entry[j]
  BY <1>1 DEF Unlink, TypeOK
<1>6. Inv(p)'
  <2>1. PcAgrees(p)'
    BY <1>1, <1>2 DEF Unlink, Inv, PcAgrees, Resting, Deleting, mine
  <2>2. Untouched(p)'
    BY <1>1, <1>2, <1>3, <1>5 DEF Unlink, Inv, Untouched, Ignored, Looking, Deleting, mine
  <2>3. Sound(p)'
    BY <1>1, <1>2, <1>3 DEF Unlink, Inv, Sound, Looking, Named, Ignored, mine
  <2>4. Complete(p)'
    BY <1>1, <1>2, <1>3, <1>5 DEF Unlink, Inv, Complete, Named, Ignored, mine
  <2> QED
    BY <2>1, <2>2, <2>3, <2>4 DEF Inv
<1>7. ASSUME NEW q \in Procs, q # p PROVE Inv(q)'
  <2>1. now <= now'
    BY DEF Unlink, TypeOK
  <2>2. /\ touched[q] \subseteq touched'[q]
        /\ options[q] # None => k \in touched'[q]
    BY <1>7, <1>1 DEF Unlink, Touch, TypeOK
  <2> QED
    BY <1>4, <1>5, <1>7, <2>1, <2>2, OtherInv DEF Unlink, Goto, mine, TypeOK
<1> QED
  BY <1>4, <1>6, <1>7

\* A lookup puts a file in the place of its own entry.
LEMMA StoredFile ==
  ASSUME TypeOK, NEW k \in Entries, Stored(k)
  PROVE  /\ entry' \in [Entries -> File \cup {None}]
         /\ \A j \in Entries : j # k => entry'[j] = entry[j]
<1>1. CASE entry' = entry
  BY <1>1 DEF TypeOK
<1>2. ASSUME NEW text \in Answers[k[2]],
             entry' = [entry EXCEPT ![k] = [at |-> now, text |-> text, trusted |-> TRUE]]
      PROVE  /\ entry' \in [Entries -> File \cup {None}]
             /\ \A j \in Entries : j # k => entry'[j] = entry[j]
  <2>1. text \in {"keys", "negative"}
    BY CommandAssumption
  <2>2. [at |-> now, text |-> text, trusted |-> TRUE] \in File
    BY <2>1 DEF File, TypeOK
  <2> QED
    BY <1>2, <2>2 DEF TypeOK
<1> QED
  BY <1>1, <1>2 DEF Stored

\* Who sees it has it among what others touched.
LEMMA TouchedMore ==
  ASSUME TypeOK, NEW qs, NEW k \in Entries, Touch(qs, k)
  PROVE  /\ touched' \in [Procs -> SUBSET Entries]
         /\ \A q \in Procs : touched[q] \subseteq touched'[q]
         /\ \A q \in Procs : q \in qs /\ options[q] # None => k \in touched'[q]
<1>1. \A q \in Procs : touched[q] \subseteq Entries /\ touched[q] \cup {k} \subseteq Entries
  BY DEF TypeOK
<1>2. touched' \in [Procs -> SUBSET Entries]
  BY <1>1 DEF Touch
<1> QED
  BY <1>2 DEF Touch

\* An entry that serves is only taken off the list.
LEMMA WarmHitInv ==
  ASSUME IInv, NEW p \in Procs, NEW k \in Entries, WarmHit(p, k) PROVE IInv'
<1> USE DEF IInv, outside
<1>1. pc[p] = "warm" /\ options[p] = None
  BY DEF WarmHit, Inv, PcAgrees
<1>2. TypeOK'
  BY DEF TypeOK, WarmHit, mine
<1>3. Inv(p)'
  BY <1>1 DEF WarmHit, Inv, PcAgrees, Untouched, Sound, Complete, Deleting, Resting, mine
<1> QED
  BY <1>2, <1>3, OwnStep DEF WarmHit, TypeOK

\* Nothing is stored before the source has answered.
LEMMA WarmMissInv ==
  ASSUME IInv, NEW p \in Procs, NEW k \in Entries, WarmMiss(p, k) PROVE IInv'
<1> USE DEF IInv, outside
<1>1. pc[p] = "warm" /\ options[p] = None
  BY DEF WarmMiss, Goto, Inv, PcAgrees
<1>2. pc' \in [Procs -> Steps] /\ pc'[p] = "fetch"
  BY DEF WarmMiss, Goto, TypeOK, Steps
<1>3. /\ current' \in [Procs -> Entries \cup {None}] /\ current'[p] = k /\ k # None
      /\ \A q \in Procs : q # p => current'[q] = current[q] /\ pc'[q] = pc[q]
  BY NoEntryIsNone DEF WarmMiss, Goto, TypeOK
<1>4. \A q \in Procs : current'[q] # None <=> pc'[q] \in {"read", "unlink", "fetch"}
  BY <1>2, <1>3 DEF TypeOK
<1>5. TypeOK'
  BY <1>2, <1>3, <1>4 DEF TypeOK, WarmMiss, mine
<1>6. Inv(p)'
  BY <1>1, <1>2
  DEF WarmMiss, Inv, PcAgrees, Untouched, Sound, Complete, Deleting, Resting, mine
<1> QED
  BY <1>5, <1>6, OwnStep DEF WarmMiss, Goto, TypeOK

\* What warm stores counts as touched for everybody else.
LEMMA WarmFetchedInv ==
  ASSUME IInv, NEW p \in Procs, WarmFetched(p) PROVE IInv'
<1> USE DEF IInv, outside
<1> DEFINE k == current[p]
<1>1. pc[p] = "fetch" /\ k \in Entries /\ options[p] = None
  BY DEF WarmFetched, Goto, TypeOK, Inv, PcAgrees
<1>2. pc' \in [Procs -> Steps] /\ pc'[p] = "warm" /\ current'[p] = None
  BY DEF WarmFetched, Goto, TypeOK, Steps
<1>3. /\ touched' \in [Procs -> SUBSET Entries]
      /\ \A q \in Procs : touched[q] \subseteq touched'[q]
      /\ entry' \in [Entries -> File \cup {None}]
      /\ \A j \in Entries, q \in Procs : q # p =>
           entry'[j] = entry[j] \/ options[q] = None \/ j \in touched'[q]
  <2>1. CASE Stored(k) /\ Touch(Procs \ {p}, k)
    BY <1>1, <2>1, StoredFile, TouchedMore
  <2>2. CASE UNCHANGED <<entry, touched>>
    BY <2>2 DEF TypeOK
  <2> QED
    BY <2>1, <2>2 DEF WarmFetched
<1>4. TypeOK'
  BY <1>2, <1>3 DEF TypeOK, WarmFetched, Goto, mine
<1>5. Inv(p)'
  BY <1>1, <1>2
  DEF WarmFetched, Inv, PcAgrees, Untouched, Sound, Complete, Deleting, Resting, mine
<1>6. ASSUME NEW q \in Procs, q # p PROVE Inv(q)'
  <2>1. now <= now'
    BY DEF WarmFetched, TypeOK
  <2> QED
    BY <1>3, <1>4, <1>6, <2>1, OtherInv DEF WarmFetched, Goto, mine, TypeOK
<1> QED
  BY <1>4, <1>5, <1>6

\* A lookup that misses changes nothing a command relies on.
LEMMA LoginMissInv ==
  ASSUME IInv, NEW l \in Logins, NEW k \in Entries, LoginMiss(l, k) PROVE IInv'
<1> USE DEF IInv
<1>1. TypeOK'
  BY DEF TypeOK, LoginMiss, own, mine
<1>2. ASSUME NEW q \in Procs PROVE Inv(q)'
  <2>1. now <= now'
    BY DEF LoginMiss, TypeOK
  <2> QED
    BY <1>1, <2>1, OtherInv DEF LoginMiss, own, mine
<1> QED
  BY <1>1, <1>2

\* What a login stores counts as touched for every command that runs.
LEMMA LoginFetchedInv ==
  ASSUME IInv, NEW l \in Logins, LoginFetched(l) PROVE IInv'
<1> USE DEF IInv
<1> DEFINE k == asking[l]
<1>1. k \in Entries
  BY DEF LoginFetched, TypeOK
<1>2. /\ touched' \in [Procs -> SUBSET Entries]
      /\ \A q \in Procs : touched[q] \subseteq touched'[q]
      /\ entry' \in [Entries -> File \cup {None}]
      /\ \A j \in Entries, q \in Procs :
           entry'[j] = entry[j] \/ options[q] = None \/ j \in touched'[q]
  <2>1. CASE Stored(k) /\ Touch(Procs, k)
    BY <1>1, <2>1, StoredFile, TouchedMore
  <2>2. CASE UNCHANGED <<entry, touched>>
    BY <2>2 DEF TypeOK
  <2> QED
    BY <2>1, <2>2 DEF LoginFetched
<1>3. TypeOK'
  BY <1>2 DEF TypeOK, LoginFetched, own, mine
<1>4. ASSUME NEW q \in Procs PROVE Inv(q)'
  <2>1. now <= now'
    BY DEF LoginFetched, TypeOK
  <2> QED
    BY <1>2, <1>3, <2>1, OtherInv DEF LoginFetched, own, mine
<1> QED
  BY <1>3, <1>4

\* Time only moves away from a limit of age.
LEMMA TickInv == ASSUME IInv, Tick PROVE IInv'
<1> USE DEF IInv, outside
<1>1. TypeOK' /\ now <= now'
  BY DEF TypeOK, Tick, own, mine
<1> QED
  BY <1>1, OtherInv DEF Tick, own, mine

\* Every step keeps the invariant.
LEMMA StepInv == IInv /\ [Next]_vars => IInv'
<1> SUFFICES ASSUME IInv, [Next]_vars PROVE IInv'
  OBVIOUS
<1>1. ASSUME NEW p \in Procs, Command(p) PROVE IInv'
  BY <1>1, ShowInv, PurgeInv, WarmInv, ListInv, ListedInv, LookInv, ReadInv, OverInv,
     LookedInv, CheckInv, UnlinkInv, WarmHitInv, WarmMissInv, WarmFetchedInv DEF Command
<1>2. CASE UNCHANGED vars
  <2>1. TypeOK'
    BY <1>2 DEF IInv, TypeOK, vars
  <2>2. ASSUME NEW p \in Procs PROVE Inv(p)'
    <3>1. now <= now'
      BY <1>2 DEF IInv, TypeOK, vars
    <3> QED
      BY <1>2, <2>1, <3>1, OtherInv DEF IInv, vars
  <2> QED
    BY <2>1, <2>2 DEF IInv
<1> QED
  BY <1>1, <1>2, LoginMissInv, LoginFetchedInv, TickInv DEF Next

\* The invariant holds for any number of commands, entries and seconds.
THEOREM Invariance == Spec => []IInv
  BY InitInv, StepInv, PTL DEF Spec

-----------------------------------------------------------------------------
(* What follows                                                            *)

\* The variables keep their types, for any number of commands and entries.
THEOREM TypeCorrect == Spec => []TypeOK
<1>1. IInv => TypeOK
  BY DEF IInv
<1> QED
  BY <1>1, Invariance, PTL

\* The steps of one process leave the others where they are.
LEMMA OneMoves ==
  ASSUME IInv, NEW p \in Procs, NEW q \in Procs, q # p, Command(q)
  PROVE  pc'[p] = pc[p]
<1> USE DEF IInv, TypeOK, outside
<1>1. ASSUME NEW from, NEW to, Goto(q, from, to) PROVE pc'[p] = pc[p]
  BY <1>1 DEF Goto
<1>2. ASSUME NEW to, Begin(q, to) PROVE pc'[p] = pc[p]
  BY <1>2 DEF Begin
<1>3. CASE \/ Show(q)
           \/ \E opts \in Purges : Purge(q, opts)
           \/ \E targets \in Warms : Warm(q, targets)
  BY <1>2, <1>3 DEF Show, Purge, Warm
<1>4. CASE \/ Listed(q) \/ Read(q) \/ Undecodable(q) \/ Vanished(q) \/ Aborts(q)
           \/ Looked(q) \/ Unlink(q) \/ Purged(q) \/ WarmFetched(q) \/ Warmed(q)
  BY <1>1, <1>4 DEF Listed, Read, Undecodable, Vanished, Aborts, Looked, Unlink, Purged,
                    WarmFetched, Warmed, End
<1>5. CASE \E s \in Sources : List(q, s)
  BY <1>5 DEF List
<1>6. CASE \E k \in Entries :
             Look(q, k) \/ Check(q, k) \/ WarmHit(q, k) \/ WarmMiss(q, k)
  BY <1>1, <1>6 DEF Look, Check, WarmHit, WarmMiss
<1> QED
  BY <1>3, <1>4, <1>5, <1>6 DEF Command

\* Which steps lead a purge from one deletion to the next, and to its end.
LEMMA Turns ==
  ASSUME IInv, [Next]_vars, NEW p \in Procs
  PROVE  /\ pc[p] = "delete" /\ pc'[p] = "idle" => Purged(p)
         /\ pc[p] = "unlink" /\ pc'[p] = "delete" => Unlink(p)
<1> USE DEF IInv, TypeOK, outside
<1>1. CASE Command(p)
  <2>1. ASSUME NEW from, NEW to, Goto(p, from, to) PROVE pc[p] = from /\ pc'[p] = to
    BY <2>1 DEF Goto
  <2>2. ASSUME NEW to, Begin(p, to) PROVE pc[p] \in Resting /\ pc'[p] = to
    BY <2>2 DEF Begin
  <2>3. CASE \/ Show(p)
             \/ \E opts \in Purges : Purge(p, opts)
             \/ \E targets \in Warms : Warm(p, targets)
    <3>1. pc[p] \in Resting /\ pc'[p] \in {"list", "warm"}
      BY <2>2, <2>3 DEF Show, Purge, Warm
    <3> QED
      BY <3>1 DEF Resting
  <2>4. CASE Listed(p) \/ Read(p)
    <3>1. pc[p] \in {"list", "read"} /\ pc'[p] \in {"delete", "look"}
      BY <2>1, <2>4 DEF Listed, Read
    <3> QED
      BY <3>1
  <2>5. CASE Looked(p) \/ Warmed(p) \/ WarmFetched(p)
    <3>1. pc[p] \in {"look", "warm", "fetch"} /\ pc'[p] \in {"delete", "idle", "warm"}
      BY <2>1, <2>5 DEF Looked, Warmed, WarmFetched, End
    <3> QED
      BY <3>1
  <2>6. CASE Undecodable(p) \/ Vanished(p) \/ Aborts(p)
    <3>1. pc'[p] = "failed"
      BY <2>1, <2>6 DEF Undecodable, Vanished, Aborts, End
    <3> QED
      BY <3>1
  <2>7. CASE Unlink(p) \/ Purged(p)
    <3>1. /\ Unlink(p) => pc[p] = "unlink" /\ pc'[p] = "delete"
          /\ Purged(p) => pc[p] = "delete" /\ pc'[p] = "idle"
      BY <2>1 DEF Unlink, Purged, End
    <3> QED
      BY <2>7, <3>1
  <2>8. CASE \/ \E s \in Sources : List(p, s)
             \/ \E k \in Entries :
                  Look(p, k) \/ Check(p, k) \/ WarmHit(p, k) \/ WarmMiss(p, k)
    <3>1. pc' = pc \/ pc'[p] \in {"read", "unlink", "fetch"}
      BY <2>1, <2>8 DEF List, Look, Check, WarmHit, WarmMiss
    <3> QED
      BY <3>1
  <2> QED
    BY <1>1, <2>3, <2>4, <2>5, <2>6, <2>7, <2>8 DEF Command
<1>2. ASSUME NEW q \in Procs, q # p, Command(q) PROVE pc'[p] = pc[p]
  BY <1>2, OneMoves
<1>3. CASE \/ \E l \in Logins : LoginFetched(l) \/ \E k \in Entries : LoginMiss(l, k)
           \/ Tick \/ UNCHANGED vars
  BY <1>3 DEF LoginFetched, LoginMiss, Tick, vars, own
<1> QED
  BY <1>1, <1>2, <1>3 DEF Next

\* When a purge ends with success, nothing it was asked to remove is left that
\* nobody else touched, whatever ran beside it, unless the cache cannot trust its
\* root.
THEOREM PurgeCompletes == Spec => PurgeComplete
<1>1. ASSUME IInv, [Next]_vars, NEW p \in Procs, NEW k \in Entries,
             pc[p] = "delete", pc'[p] = "idle", ~ options[p].dryRun, Root \notin foreign,
             Named(p, k)
      PROVE  k \in touched[p] \/ entry[k] = None
  <2>1. doomed[p] = {}
    BY <1>1, Turns DEF Purged
  <2>2. options[p] # None
    BY <1>1 DEF IInv, Inv, PcAgrees, Deleting
  <2> QED
    BY <1>1, <2>1, <2>2 DEF IInv, Inv, Complete
<1>2. IInv /\ [Next]_vars =>
        \A p \in Procs :
          /\ pc[p] = "delete" /\ pc'[p] = "idle" /\ ~ options[p].dryRun
          /\ Root \notin foreign
          => \A k \in Entries : Named(p, k) => k \in touched[p] \/ entry[k] = None
  BY <1>1
<1> QED
  BY <1>2, Invariance, PTL DEF Spec, PurgeComplete

\* What a deletion of a purge is, and what it was decided from.
LEMMA Deletes ==
  ASSUME IInv, [Next]_vars, NEW p \in Procs, NEW k \in Entries,
         pc[p] = "unlink", pc'[p] = "delete", entry[k] # None, entry'[k] = None
  PROVE  /\ now' = now
         /\ options[p] # None /\ ~ options[p].dryRun
         /\ Named(p, k) \/ k \in touched[p]
         /\ k \notin touched[p] => before[p][k] = entry[k]
<1>1. Unlink(p)
  BY Turns
<1>2. k = current[p] /\ now' = now
  BY <1>1 DEF Unlink, IInv, TypeOK, outside
<1>3. options[p] # None /\ ~ options[p].dryRun
  BY DEF IInv, Inv, PcAgrees, Deleting
<1>4. Named(p, k) \/ k \in touched[p]
  BY <1>2, <1>3 DEF IInv, Inv, Sound
<1>5. k \notin touched[p] => before[p][k] = entry[k]
  BY <1>3 DEF IInv, Inv, Untouched, Deleting
<1> QED
  BY <1>2, <1>3, <1>4, <1>5

\* A purge deletes nothing but what its options name and what others touched.
THEOREM PurgeNamedOnly == Spec => PurgeOnlyNamed
<1>1. IInv /\ [Next]_vars =>
        \A p \in Procs, k \in Entries :
          pc[p] = "unlink" /\ pc'[p] = "delete" /\ entry[k] # None /\ entry'[k] = None =>
            /\ ~ options[p].dryRun
            /\ Named(p, k) \/ k \in touched[p]
  BY Deletes
<1> QED
  BY <1>1, Invariance, PTL DEF Spec, PurgeOnlyNamed

\* Without --expired, what a purge is to delete meets the condition of _purge.
ChosenBy(p) ==
  options[p] # None /\ ~ options[p].expired =>
    /\ \A k \in doomed[p] : Selected(options[p], k)
    /\ pc[p] = "unlink" => Selected(options[p], current[p])

Chosen == \A p \in Procs : ChosenBy(p)

\* A purge without --expired and --all deletes no entry of another user or source,
\* whatever becomes of the entries while it runs.
LimitsKept ==
  [][\A p \in Procs, k \in Entries :
       pc[p] = "unlink" /\ pc'[p] = "delete" /\ entry[k] # None /\ entry'[k] = None =>
         \/ options[p].expired \/ options[p].all
         \/ /\ options[p].user = None \/ k[1] = options[p].user
            /\ options[p].source = None \/ k[2] = options[p].source]_vars

\* The victims are chosen when the listing ends; the later steps only take from them.
LEMMA ChosenStep == IInv /\ Chosen /\ [Next]_vars => Chosen'
<1> SUFFICES ASSUME IInv, Chosen, [Next]_vars, NEW q \in Procs
             PROVE  ChosenBy(q)'
  BY DEF Chosen
<1> USE DEF IInv, TypeOK, outside
<1>0. ChosenBy(q)
  BY DEF Chosen
<1>1. CASE /\ options'[q] = options[q] /\ doomed'[q] = doomed[q]
           /\ pc'[q] = pc[q] /\ current'[q] = current[q]
  BY <1>0, <1>1 DEF ChosenBy, Selected
<1>2. ASSUME NEW p \in Procs, p # q, Command(p)
      PROVE  /\ options'[q] = options[q] /\ doomed'[q] = doomed[q]
             /\ pc'[q] = pc[q] /\ current'[q] = current[q]
  <2>1. pc'[q] = pc[q]
    BY <1>2, OneMoves
  <2>2. CASE \/ Show(p)
             \/ \E opts \in Purges : Purge(p, opts)
             \/ \E targets \in Warms : Warm(p, targets)
    BY <1>2, <2>1, <2>2 DEF Show, Purge, Warm, Begin, mine
  <2>3. CASE Listed(p) \/ Read(p) \/ Unlink(p) \/ WarmFetched(p) \/ \E s \in Sources : List(p, s)
    BY <1>2, <2>1, <2>3 DEF Listed, Read, Unlink, WarmFetched, List, mine
  <2>4. CASE \/ Undecodable(p) \/ Vanished(p) \/ Aborts(p)
             \/ Looked(p) \/ Purged(p) \/ Warmed(p)
    BY <1>2, <2>1, <2>4 DEF Undecodable, Vanished, Aborts, Looked, Purged, Warmed, End, mine
  <2>5. CASE \E k \in Entries :
               Look(p, k) \/ Check(p, k) \/ WarmHit(p, k) \/ WarmMiss(p, k)
    BY <1>2, <2>1, <2>5 DEF Look, Check, WarmHit, WarmMiss, mine
  <2> QED
    BY <1>2, <2>2, <2>3, <2>4, <2>5 DEF Command
<1>3. CASE \/ \E l \in Logins : LoginFetched(l) \/ \E k \in Entries : LoginMiss(l, k)
           \/ Tick \/ UNCHANGED vars
  BY <1>1, <1>3 DEF LoginFetched, LoginMiss, Tick, vars, own, mine
<1>4. CASE \/ Show(q)
           \/ \E opts \in Purges : Purge(q, opts)
           \/ \E targets \in Warms : Warm(q, targets)
  <2>1. pc[q] \in Resting /\ doomed' = doomed /\ pc'[q] \in {"list", "warm"}
    BY <1>4 DEF Show, Purge, Warm, Begin
  <2>2. doomed[q] = {}
    BY <2>1 DEF Inv, PcAgrees
  <2> QED
    BY <2>1, <2>2 DEF ChosenBy
<1>5. CASE Listed(q)
  <2>1. options' = options /\ pc'[q] # "unlink"
    BY <1>5 DEF Listed, Goto, mine
  <2>2. ASSUME options[q] # None, ~ options[q].expired
        PROVE  \A k \in doomed'[q] : Selected(options[q], k)
    BY <1>5, <2>2 DEF Listed
  <2> QED
    BY <2>1, <2>2 DEF ChosenBy, Selected
<1>6. CASE Read(q) \/ (\E k \in Entries : Look(q, k))
  <2>1. options' = options /\ pc[q] \in {"look", "read"}
    BY <1>6 DEF Read, Look, Goto, mine
  <2>2. options[q] = None \/ options[q].expired
    BY <2>1 DEF Inv, PcAgrees
  <2> QED
    BY <2>1, <2>2 DEF ChosenBy
<1>7. CASE \/ Undecodable(q) \/ Vanished(q) \/ Aborts(q)
           \/ Looked(q) \/ Purged(q) \/ Warmed(q)
  <2>1. CASE Looked(q) /\ options[q] # None
    <3>1. options' = options /\ pc[q] = "look"
      BY <1>7, <2>1 DEF Looked, End, Goto, mine
    <3>2. options[q].expired
      BY <2>1, <3>1 DEF Inv, PcAgrees
    <3> QED
      BY <3>1, <3>2 DEF ChosenBy
  <2>2. CASE ~ (Looked(q) /\ options[q] # None)
    <3>1. options'[q] = None
      BY <1>7, <2>2 DEF Undecodable, Vanished, Aborts, Looked, Purged, Warmed, End
    <3> QED
      BY <3>1 DEF ChosenBy
  <2> QED
    BY <2>1, <2>2
<1>8. ASSUME NEW k \in Entries, Check(q, k) PROVE ChosenBy(q)'
  <2>1. /\ options' = options /\ k \in doomed[q]
        /\ doomed'[q] \subseteq doomed[q]
        /\ pc'[q] = "unlink" => current'[q] = k
    BY <1>8 DEF Check, Goto, mine
  <2> QED
    BY <1>0, <2>1 DEF ChosenBy, Selected
<1>9. CASE Unlink(q)
  <2>1. options' = options /\ doomed' = doomed /\ pc'[q] = "delete"
    BY <1>9 DEF Unlink, Goto, mine
  <2> QED
    BY <1>0, <2>1 DEF ChosenBy, Selected
<1>10. CASE (\E s \in Sources : List(q, s)) \/ \E k \in Entries : WarmHit(q, k)
  <2>1. /\ options'[q] = options[q] /\ doomed'[q] = doomed[q]
        /\ pc'[q] = pc[q] /\ current'[q] = current[q]
    BY <1>10 DEF List, WarmHit, mine
  <2> QED
    BY <1>1, <2>1
<1>11. CASE WarmFetched(q) \/ \E k \in Entries : WarmMiss(q, k)
  <2>1. pc[q] \in {"warm", "fetch"} /\ options' = options
    BY <1>11 DEF WarmFetched, WarmMiss, Goto, mine
  <2>2. options[q] = None
    BY <2>1 DEF Inv, PcAgrees
  <2> QED
    BY <2>1, <2>2 DEF ChosenBy
<1>12. CASE Command(q)
  BY <1>4, <1>5, <1>6, <1>7, <1>8, <1>9, <1>10, <1>11, <1>12 DEF Command
<1> QED
  BY <1>1, <1>2, <1>3, <1>12 DEF Next

\* The limits of a purge, which --expired is known to ignore, hold of every other one.
THEOREM PurgeWithinLimits == Spec => LimitsKept
<1>1. Init => Chosen
  BY DEF Init, Chosen, ChosenBy
<1>2. ASSUME IInv, Chosen, [Next]_vars, NEW p \in Procs, NEW k \in Entries,
             pc[p] = "unlink", pc'[p] = "delete", entry[k] # None, entry'[k] = None,
             ~ options[p].expired, ~ options[p].all
      PROVE  /\ options[p].user = None \/ k[1] = options[p].user
             /\ options[p].source = None \/ k[2] = options[p].source
  <2>1. Unlink(p) /\ options[p] # None
    BY <1>2, Turns, Deletes
  <2>2. k = current[p]
    BY <1>2, <2>1 DEF Unlink, IInv, TypeOK
  <2>3. Selected(options[p], k)
    BY <1>2, <2>1, <2>2 DEF Chosen, ChosenBy
  <2> QED
    BY <1>2, <2>3 DEF Selected
<1>3. IInv /\ Chosen /\ [Next]_vars =>
        \A p \in Procs, k \in Entries :
          pc[p] = "unlink" /\ pc'[p] = "delete" /\ entry[k] # None /\ entry'[k] = None =>
            \/ options[p].expired \/ options[p].all
            \/ /\ options[p].user = None \/ k[1] = options[p].user
               /\ options[p].source = None \/ k[2] = options[p].source
  BY <1>2
<1> QED
  BY <1>1, <1>3, ChosenStep, Invariance, PTL DEF Spec, LimitsKept

\* What purge --expired deletes without anybody's help, no lookup would have used,
\* if it lives no longer than the cutoff of the purge assumes.
LEMMA DeletedIsUseless ==
  ASSUME IInv, [Next]_vars, NEW p \in Procs, NEW k \in Entries,
         pc[p] = "unlink", pc'[p] = "delete", options[p].expired,
         entry[k] # None, entry'[k] = None, k \notin touched[p],
         Lifetime(k) <= Ttl
  PROVE  ~ Usable(k)
<1>1. before[p][k] = entry[k] /\ Named(p, k) /\ options[p] # None
  BY Deletes
<1>2. CASE Ignored(k, entry[k])
  BY <1>2 DEF Usable
<1>3. CASE entry[k].at < cutoff[p]
  <2>1. cutoff[p] <= now - Ttl
    BY <1>1 DEF IInv, Inv, PcAgrees
  <2>2. /\ now \in Nat /\ entry[k].at \in Nat /\ cutoff[p] \in Int /\ Ttl \in Nat
        /\ NegTtl \in Nat /\ k[2] \in Sources
        /\ Expire[k[2]] \in Nat \cup {Inherit}
    BY CommandAssumption DEF IInv, TypeOK, File
  <2>3. Lifetime(k) \in Nat
    BY <2>2 DEF Lifetime
  <2>4. ~ (now - Lifetime(k) <= entry[k].at)
    BY <1>3, <2>1, <2>2, <2>3
  <2> QED
    BY <2>4 DEF Usable
<1> QED
  BY <1>1, <1>2, <1>3 DEF Named

\* purge --expired never takes from a login what it could still have used, unless
\* the entry lives longer than [cache] expire or somebody touched it meanwhile.
THEOREM UsableKept == Spec => UsableSurvives
<1>1. IInv /\ [Next]_vars =>
        \A p \in Procs, k \in Entries :
          /\ pc[p] = "unlink" /\ pc'[p] = "delete" /\ options[p].expired
          /\ entry[k] # None /\ entry'[k] = None
          /\ k \notin touched[p]
          /\ Lifetime(k) <= Ttl
          => ~ Usable(k)
  BY DeletedIsUseless
<1> QED
  BY <1>1, Invariance, PTL DEF Spec, UsableSurvives

\* A purge that ends with an exception while it still lists or reads has deleted
\* nothing, whatever the exception is and whatever others do meanwhile.
THEOREM FailsWithNothingDone == Spec => FailsWhole
<1>1. IInv /\ [Next]_vars =>
        \A p \in Procs :
          /\ options[p] # None
          /\ pc[p] \in {"list", "look", "read"} /\ pc'[p] = "failed"
          => \A k \in Entries : k \in touched[p] \/ entry[k] = before[p][k]
  BY DEF IInv, Inv, Untouched, Looking
<1> QED
  BY <1>1, Invariance, PTL DEF Spec, FailsWhole
=============================================================================
