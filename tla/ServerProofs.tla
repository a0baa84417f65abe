----------------------------- MODULE ServerProofs ---------------------------
(***************************************************************************)
(* What Server.tla's runs check on two listeners and two connections, for  *)
(* any number of listeners, slots and connections.                         *)
(***************************************************************************)
EXTENDS Server, FiniteSetTheorems, TLAPS

\* A loop has a connection in hand from the accept until the handler runs, and
\* still knows it for a moment after that.
LoopsAgree ==
  /\ \A l \in Listeners :
       /\ taken[l] # None <=> loop[l] \in {"accepted", "slotted", "started"}
       /\ loop[l] \in {"accepted", "slotted"} =>
            conn[taken[l]] = "accepted" /\ at[taken[l]] = l
       /\ loop[l] = "started" => conn[taken[l]] \in Handling \cup {"over"}
  /\ \A c \in Conns :
       conn[c] = "accepted" =>
         at[c] # None /\ taken[at[c]] = c /\ loop[at[c]] \in {"accepted", "slotted"}

\* The handlers that have let the request pass.
Past == {"resolving", "loading", "fetching", "storing", "sending"}

\* Connections are made at listeners, and wait where somebody listens; a request is
\* resolved while it has users left.
ConnsAgree ==
  \A c \in Conns :
    /\ conn[c] \notin {"away", "over"} => at[c] # None
    /\ conn[c] = "backlog" => sock[at[c]] = "open"
    /\ conn[c] \in Past \ {"sending"} => left[c] > 0
    /\ reply[c] \notin {None, "nothing"} => conn[c] \in {"closing", "releasing", "over"}

\* The loops run between start and stop, the sockets are open no longer, and the
\* handlers end with the program.
MainAgrees ==
  /\ main \in {"binding", "failed"} => \A l \in Listeners : loop[l] = "off"
  /\ main \in {"closed", "exited"} => \A l \in Listeners : loop[l] = "stopped"
  /\ main \in {"failed", "closed", "exited"} => \A l \in Listeners : sock[l] # "open"
  /\ main = "exited" => \A c \in Conns : conn[c] \notin Handling

\* With a key that is empty nothing ever starts, with one that is set whoever is
\* answered has shown it.
KeyAgrees ==
  /\ apikey = "empty" =>
       /\ main \in {"binding", "failed"}
       /\ \A l \in Listeners : sock[l] = "none"
       /\ \A c \in Conns : conn[c] = "away"
  /\ apikey = "set" => \A c \in Conns :
       conn[c] \in Past \/ reply[c] = "keys" => shown[c]

\* Everything but the slots ...
JInv == LoopsAgree /\ ConnsAgree /\ MainAgrees /\ KeyAgrees

\* ... the slots, whose holders can be counted ...
Balanced(l) ==
  /\ IsFiniteSet(Holders(l))
  /\ slots[l] + Cardinality(Holders(l)) = MaxConnections

SInv == main # "exited" => \A l \in Listeners : Interrupted(l) \/ Balanced(l)

\* ... and the inductive invariant.
IInv == TypeOK /\ JInv /\ SInv
-----------------------------------------------------------------------------
\* Nobody listens to begin with, and every slot is free.
LEMMA InitInv == Init => IInv
<1> SUFFICES ASSUME Init PROVE IInv
  OBVIOUS
<1> USE ServerAssumption DEF Replies
<1>1. TypeOK
  <2>1. /\ sock \in [Listeners -> {"none", "open", "closed"}]
        /\ loop \in [Listeners -> LoopSteps] /\ stop \in [Listeners -> BOOLEAN]
    BY DEF Init, LoopSteps
  <2>2. /\ taken \in [Listeners -> Conns \cup {None}]
        /\ slots \in [Listeners -> 0 .. MaxConnections]
    BY DEF Init
  <2>3. /\ at \in [Conns -> Listeners \cup {None}] /\ conn \in [Conns -> ConnSteps]
        /\ shown \in [Conns -> BOOLEAN] /\ reply \in [Conns -> Replies \cup {None}]
        /\ left \in [Conns -> 0 .. MaxUsernames]
    BY DEF Init, ConnSteps
  <2> QED
    BY <2>1, <2>2, <2>3 DEF Init, TypeOK, MainSteps
<1>2. JInv
  <2>1. LoopsAgree
    BY DEF Init, LoopsAgree
  <2>2. ConnsAgree
    BY DEF Init, ConnsAgree, Past
  <2>3. MainAgrees /\ KeyAgrees
    BY DEF Init, MainAgrees, KeyAgrees, Handling, Past
  <2> QED
    BY <2>1, <2>2, <2>3 DEF JInv
<1>3. \A l \in Listeners : Holders(l) = {}
  BY DEF Init, Holders, Handling
<1>4. SInv
  <2>1. \A l \in Listeners : slots[l] = MaxConnections
    BY DEF Init
  <2>2. IsFiniteSet({}) /\ Cardinality({}) = 0
    BY FS_EmptySet
  <2> QED
    BY <1>3, <2>1, <2>2 DEF SInv, Balanced
<1> QED
  BY <1>1, <1>2, <1>4 DEF IInv

\* The steps of the accept loop l.
Loop(l) ==
  \/ \E c \in Conns : Accept(l, c)
  \/ TakeSlot(l) \/ TurnAway(l) \/ Spawn(l) \/ SpawnFails(l) \/ Return(l) \/ LoopStops(l)

\* What a loop does concerns the connection it has in hand.
LEMMA LoopJInv ==
  ASSUME TypeOK, JInv, NEW l \in Listeners, Loop(l)
  PROVE  JInv'
<1> USE ServerAssumption DEF Replies, TypeOK, JInv, LoopTo, ConnTo
<1>1. CASE \E c \in Conns : Accept(l, c)
  <2> PICK c \in Conns : Accept(l, c)
    BY <1>1
  <2>1. LoopsAgree'
    BY DEF Accept, LoopsAgree, ConnsAgree, Past, LoopSteps, Handling
  <2>2. ConnsAgree'
    BY DEF Accept, LoopsAgree, ConnsAgree, Past, ConnSteps
  <2>3. MainAgrees' /\ KeyAgrees'
    BY DEF Accept, MainAgrees, KeyAgrees, Handling, Past
  <2> QED
    BY <2>1, <2>2, <2>3
<1>2. CASE TakeSlot(l)
  BY <1>2 DEF TakeSlot, requests, LoopsAgree, ConnsAgree, Past, MainAgrees, KeyAgrees, LoopSteps
<1>6. CASE Return(l)
  BY <1>6 DEF Return, requests, LoopsAgree, ConnsAgree, Past, MainAgrees, KeyAgrees, LoopSteps,
     Handling
<1>3. CASE LoopStops(l)
  BY <1>3 DEF LoopStops, requests, LoopsAgree, ConnsAgree, Past, MainAgrees, KeyAgrees, LoopSteps
<1>4. ASSUME NEW from \in {"accepted", "slotted"}, NEW what \in {"busy", "nothing"},
             Finish(l, from, what)
      PROVE  JInv'
  <2>1. taken[l] \in Conns /\ conn[taken[l]] = "accepted" /\ at[taken[l]] = l
    BY <1>4 DEF Finish, LoopsAgree
  <2>2. LoopsAgree'
    BY <1>4, <2>1 DEF Finish, LoopsAgree, LoopSteps, Handling
  <2>3. ConnsAgree'
    BY <1>4, <2>1 DEF Finish, ConnsAgree, Past
  <2>4. MainAgrees' /\ KeyAgrees'
    BY <1>4, <2>1 DEF Finish, MainAgrees, KeyAgrees, Handling, Past
  <2> QED
    BY <2>2, <2>3, <2>4
<1>5. CASE Spawn(l)
  <2>1. taken[l] \in Conns /\ conn[taken[l]] = "accepted" /\ at[taken[l]] = l
    BY <1>5 DEF Spawn, LoopsAgree
  <2>2. LoopsAgree'
    BY <1>5, <2>1 DEF Spawn, LoopsAgree, LoopSteps, Handling
  <2>3. ConnsAgree'
    BY <1>5, <2>1 DEF Spawn, ConnsAgree, Past
  <2>4. MainAgrees' /\ KeyAgrees'
    BY <1>5, <2>1 DEF Spawn, MainAgrees, KeyAgrees, Handling, Past
  <2> QED
    BY <2>2, <2>3, <2>4
<1> QED
  BY <1>1, <1>2, <1>3, <1>4, <1>5, <1>6 DEF Loop, TurnAway, SpawnFails

\* A handler answers whom it has let pass, and lets pass who shows the key.
LEMMA HandleJInv ==
  ASSUME TypeOK, JInv, NEW c \in Conns, Handle(c)
  PROVE  JInv'
<1> USE ServerAssumption DEF Replies, TypeOK, JInv, ConnTo, others
<1>1. CASE Handshake(c) \/ Close(c)
  BY <1>1 DEF Handshake, Close, LoopsAgree, ConnsAgree, MainAgrees, KeyAgrees, Handling, Past
<1>2. CASE \E key \in BOOLEAN, users \in 0 .. MaxUsernames : Read(c, key, users)
  <2> PICK key \in BOOLEAN, users \in 0 .. MaxUsernames : Read(c, key, users)
    BY <1>2
  <2>1. LoopsAgree' /\ ConnsAgree' /\ MainAgrees'
    BY DEF Read, LoopsAgree, ConnsAgree, Past, MainAgrees, Handling
  <2>2. KeyAgrees'
    BY DEF Read, ConnsAgree, KeyAgrees, Past
  <2> QED
    BY <2>1, <2>2
<1>3. CASE Refuse(c) \/ Send(c)
  BY <1>3 DEF Refuse, Send, LoopsAgree, ConnsAgree, MainAgrees, KeyAgrees, Handling, Past
<1>4. CASE Break(c)
  BY <1>4 DEF Break, LoopsAgree, ConnsAgree, MainAgrees, KeyAgrees, Handling, Past
<1>5. CASE ReleaseSlot(c)
  BY <1>5 DEF ReleaseSlot, LoopsAgree, ConnsAgree, MainAgrees, KeyAgrees, Handling, Past
<1>6. CASE (\E groups \in BOOLEAN : Lock(c, groups)) \/ Loaded(c) \/ Fetch(c) \/ Resolve(c)
  <2>1. /\ conn[c] \in Past
        /\ \E to \in Past : conn' = [conn EXCEPT ![c] = to]
        /\ UNCHANGED <<others, shown, reply>>
    BY <1>6 DEF Lock, Loaded, Fetch, Resolve, Past
  <2>2. Past \subseteq Handling /\ "backlog" \notin Past /\ "accepted" \notin Past
    BY DEF Past, Handling
  <2>3. LoopsAgree' /\ MainAgrees'
    BY <2>1, <2>2 DEF LoopsAgree, MainAgrees
  <2>6. \A d \in Conns : conn'[d] \in Past \ {"sending"} => left'[d] > 0
    <3>1. CASE (\E groups \in BOOLEAN : Lock(c, groups)) \/ Loaded(c) \/ Fetch(c)
      BY <3>1 DEF Lock, Loaded, Fetch, ConnsAgree, Past
    <3>2. CASE Resolve(c)
      <4>1. left[c] \in Nat /\ left[c] > 0
        BY <3>2 DEF Resolve, ConnsAgree, Past
      <4>2. left[c] # 1 => left'[c] > 0
        BY <3>2, <4>1 DEF Resolve
      <4>3. \A d \in Conns \ {c} : left'[d] = left[d] /\ conn'[d] = conn[d]
        BY <3>2 DEF Resolve
      <4>4. left[c] = 1 => conn'[c] = "sending"
        BY <3>2 DEF Resolve
      <4> QED
        BY <4>2, <4>3, <4>4 DEF ConnsAgree
    <3> QED
      BY <1>6, <3>1, <3>2
  <2>4. ConnsAgree'
    BY <2>1, <2>6 DEF ConnsAgree, Past
  <2>5. KeyAgrees'
    BY <2>1 DEF KeyAgrees, Past
  <2> QED
    BY <2>3, <2>4, <2>5
<1> QED
  BY <1>1, <1>2, <1>3, <1>4, <1>5, <1>6 DEF Handle

\* Start-up runs no loop before every socket is bound, and a failed one leaves
\* none open.
LEMMA StartJInv ==
  ASSUME TypeOK, JInv, Starting \/ BindFails
  PROVE  JInv'
<1> USE ServerAssumption DEF Replies, TypeOK, JInv, MainTo, LoopTo, loops, requests
<1>1. CASE RefuseToStart
  BY <1>1 DEF RefuseToStart, LoopsAgree, ConnsAgree, MainAgrees, KeyAgrees, Handling, Past
<1>2. CASE \E l \in Listeners : Bind(l)
  BY <1>2 DEF Bind, LoopsAgree, ConnsAgree, MainAgrees, KeyAgrees, Handling, Past
<1>3. CASE \E l \in Listeners : StartLoop(l)
  BY <1>3 DEF StartLoop, LoopsAgree, ConnsAgree, MainAgrees, KeyAgrees, Handling, Past
<1>4. CASE ServeFirst
  BY <1>4 DEF ServeFirst, LoopsAgree, ConnsAgree, MainAgrees, KeyAgrees, Handling, Past
<1>5. CASE BindFails
  <2>1. LoopsAgree'
    BY <1>5 DEF BindFails, Drop, LoopsAgree
  <2>2. ConnsAgree'
    BY <1>5 DEF BindFails, Drop, CloseSockets, ConnsAgree, Past
  <2>3. MainAgrees'
    BY <1>5 DEF BindFails, Drop, CloseSockets, MainAgrees, Handling
  <2>4. KeyAgrees'
    BY <1>5 DEF BindFails, Drop, KeyAgrees, Past
  <2> QED
    BY <2>1, <2>2, <2>3, <2>4
<1> QED
  BY <1>1, <1>2, <1>3, <1>4, <1>5 DEF Starting

\* Shutdown closes the sockets when every loop has stopped, and drops who waits.
LEMMA StopJInv ==
  ASSUME TypeOK, JInv, (\E released \in BOOLEAN : Interrupt(released)) \/ Stopping
  PROVE  JInv'
<1> USE ServerAssumption DEF Replies, TypeOK, JInv, MainTo
<1>1. CASE \E released \in BOOLEAN : Interrupt(released)
  <2> PICK released \in BOOLEAN : Interrupt(released)
    BY <1>1
  <2>1. LoopsAgree'
    BY DEF Interrupt, LoopsAgree, LoopSteps, Handling
  <2>2. ConnsAgree'
    BY DEF Interrupt, LoopsAgree, ConnsAgree, Past, Handling
  <2>3. MainAgrees' /\ KeyAgrees'
    BY DEF Interrupt, MainAgrees, KeyAgrees, Handling, Past
  <2> QED
    BY <2>1, <2>2, <2>3
<1>2. CASE \E l \in Listeners : Shutdown(l)
  BY <1>2 DEF Shutdown, requests, LoopsAgree, ConnsAgree, MainAgrees, KeyAgrees, Handling, Past
<1>3. CASE CloseAll
  <2>1. LoopsAgree'
    BY <1>3 DEF CloseAll, loops, Drop, LoopsAgree
  <2>2. ConnsAgree'
    BY <1>3 DEF CloseAll, Drop, CloseSockets, ConnsAgree, Past
  <2>3. MainAgrees'
    BY <1>3 DEF CloseAll, loops, Drop, CloseSockets, MainAgrees, Handling
  <2>4. KeyAgrees'
    BY <1>3 DEF CloseAll, Drop, KeyAgrees, Past
  <2> QED
    BY <2>1, <2>2, <2>3, <2>4
<1>4. CASE Exit
  <2>1. LoopsAgree'
    BY <1>4 DEF Exit, loops, LoopsAgree, Handling
  <2>2. ConnsAgree'
    BY <1>4 DEF Exit, ConnsAgree, Past, Handling
  <2>3. MainAgrees'
    BY <1>4 DEF Exit, loops, MainAgrees, Handling
  <2>4. KeyAgrees'
    BY <1>4 DEF Exit, KeyAgrees, Handling, Past
  <2> QED
    BY <2>1, <2>2, <2>3, <2>4
<1> QED
  BY <1>1, <1>2, <1>3, <1>4 DEF Stopping

\* A client that connects has found somebody listening.
LEMMA ConnectJInv ==
  ASSUME TypeOK, JInv, NEW c \in Conns, NEW l \in Listeners, Connect(c, l)
  PROVE  JInv'
  BY ServerAssumption DEF TypeOK, JInv, ConnTo, Connect, loops, LoopsAgree, ConnsAgree,
     MainAgrees, KeyAgrees, Handling, Past

\* Every step preserves it.
LEMMA StepJInv == TypeOK /\ JInv /\ [Next]_vars => JInv'
<1> SUFFICES ASSUME TypeOK, JInv, [Next]_vars PROVE JInv'
  OBVIOUS
<1>1. CASE UNCHANGED vars
  BY <1>1 DEF vars, JInv, LoopsAgree, ConnsAgree, MainAgrees, KeyAgrees, Handling, Past
<1> QED
  BY <1>1, LoopJInv, HandleJInv, StartJInv, StopJInv, ConnectJInv DEF Next, Listen, Loop
-----------------------------------------------------------------------------
(* Slots                                                                   *)

\* Nobody's slot changes hands.
LEMMA KeepBalance ==
  ASSUME NEW l \in Listeners, Balanced(l), Holders(l)' = Holders(l), slots'[l] = slots[l]
  PROVE  Balanced(l)'
  BY DEF Balanced

\* One holder more for one slot less.
LEMMA TakeBalance ==
  ASSUME TypeOK, NEW l \in Listeners, Balanced(l), NEW c, c \notin Holders(l),
         Holders(l)' = Holders(l) \cup {c}, slots'[l] = slots[l] - 1
  PROVE  Balanced(l)'
<1>1. IsFiniteSet(Holders(l)')
      /\ Cardinality(Holders(l)') = Cardinality(Holders(l)) + 1
  BY FS_AddElement DEF Balanced
<1>2. Cardinality(Holders(l)) \in Nat /\ slots[l] \in Int
  BY FS_CardinalityType DEF Balanced, TypeOK
<1> QED
  BY <1>1, <1>2 DEF Balanced

\* Who holds a slot has taken one.
LEMMA HolderTaken ==
  ASSUME TypeOK, NEW l \in Listeners, Balanced(l), NEW c, c \in Holders(l)
  PROVE  slots[l] < MaxConnections
<1>1. Cardinality(Holders(l) \ {c}) = Cardinality(Holders(l)) - 1
      /\ IsFiniteSet(Holders(l) \ {c})
  BY FS_RemoveElement DEF Balanced
<1>2. Cardinality(Holders(l)) \in Nat /\ Cardinality(Holders(l) \ {c}) \in Nat
      /\ slots[l] \in Int
  BY <1>1, FS_CardinalityType DEF Balanced, TypeOK
<1> QED
  BY <1>1, <1>2, ServerAssumption DEF Balanced

\* One holder less for one slot more.
LEMMA GiveBalance ==
  ASSUME TypeOK, NEW l \in Listeners, Balanced(l), NEW c, c \in Holders(l),
         Holders(l)' = Holders(l) \ {c}, slots'[l] = slots[l] + 1
  PROVE  Balanced(l)'
<1>1. IsFiniteSet(Holders(l)')
      /\ Cardinality(Holders(l)') = Cardinality(Holders(l)) - 1
  BY FS_RemoveElement DEF Balanced
<1>2. Cardinality(Holders(l)) \in Nat /\ Cardinality(Holders(l)') \in Nat /\ slots[l] \in Int
  BY <1>1, FS_CardinalityType DEF Balanced, TypeOK
<1> QED
  BY <1>1, <1>2, ServerAssumption DEF Balanced

\* A loop that Ctrl-C has ended is not started again.
ForGood == \A l \in Listeners : Interrupted(l) => Interrupted(l)'

LEMMA StopsForGood == TypeOK /\ [Next]_vars => ForGood
<1> SUFFICES ASSUME TypeOK, [Next]_vars PROVE ForGood
  OBVIOUS
<1> USE DEF TypeOK, ForGood, Interrupted, LoopTo
<1>1. CASE loop' = loop
  BY <1>1
<1>2. CASE \E l \in Listeners : StartLoop(l) \/ Loop(l)
  BY <1>2 DEF StartLoop, Loop, Accept, TakeSlot, TurnAway, Finish, Spawn, SpawnFails,
     Return, LoopStops
<1>3. CASE ServeFirst \/ \E released \in BOOLEAN : Interrupt(released)
  BY <1>3 DEF ServeFirst, Interrupt
<1>4. ASSUME NEW c \in Conns, Handle(c) PROVE loop' = loop
  <2>1. CASE \E key \in BOOLEAN, users \in 0 .. MaxUsernames : Read(c, key, users)
    BY <2>1 DEF Read, others
  <2>2. CASE \E groups \in BOOLEAN : Lock(c, groups)
    BY <2>2 DEF Lock, others
  <2> QED
    BY <1>4, <2>1, <2>2 DEF Handle, Handshake, Loaded, Fetch, Resolve, Refuse, Send, Break,
       Close, ReleaseSlot, others
<1>5. CASE RefuseToStart \/ BindFails \/ CloseAll \/ Exit
           \/ \E l \in Listeners : Bind(l) \/ Shutdown(l) \/ \E c \in Conns : Connect(c, l)
  BY <1>5 DEF RefuseToStart, BindFails, CloseAll, Exit, Bind, Shutdown, Connect, loops
<1> QED
  BY <1>1, <1>2, <1>3, <1>4, <1>5 DEF Next, Starting, Stopping, Listen, Loop, vars

SlotsType == slots \in [Listeners -> 0 .. MaxConnections]

\* A step that moves no connection over the border of the handlers, and no slot.
LEMMA KeepSlots ==
  ASSUME TypeOK, SInv, ForGood, slots' = slots, main = "exited" => main' = "exited",
         main' # "exited" =>
           \A l \in Listeners : Interrupted(l)' \/ Holders(l)' = Holders(l)
  PROVE  SInv' /\ SlotsType'
<1>1. SInv'
  BY KeepBalance DEF SInv, ForGood
<1> QED
  BY <1>1 DEF TypeOK, SlotsType

\* One listener's slot is taken or given back for one connection.
LEMMA MoveSlot ==
  ASSUME TypeOK, SInv, ForGood, main # "exited",
         NEW l \in Listeners, NEW c \in Conns, ~ Interrupted(l),
         \/ /\ c \notin Holders(l)
            /\ Holders(l)' = Holders(l) \cup {c}
            /\ slots[l] > 0
            /\ slots' = [slots EXCEPT ![l] = @ - 1]
         \/ /\ c \in Holders(l)
            /\ Holders(l)' = Holders(l) \ {c}
            /\ slots' = [slots EXCEPT
                          ![l] = IF @ < MaxConnections THEN @ + 1 ELSE @],
         \A m \in Listeners \ {l} : Holders(m)' = Holders(m)
  PROVE  SInv' /\ SlotsType'
<1>1. Balanced(l)
  BY DEF SInv
<1>2. Balanced(l)' /\ slots'[l] \in 0 .. MaxConnections
  <2>1. CASE c \notin Holders(l)
    <3>1. slots'[l] = slots[l] - 1 /\ slots[l] \in 1 .. MaxConnections
      BY <2>1 DEF TypeOK
    <3> QED
      BY <1>1, <2>1, <3>1, TakeBalance, ServerAssumption
  <2>2. CASE c \in Holders(l)
    <3>1. Holders(l)' = Holders(l) \ {c} /\ slots[l] \in 0 .. MaxConnections
      BY <2>2 DEF TypeOK
    <3>2. slots[l] < MaxConnections
      BY <1>1, <2>2, HolderTaken
    <3>3. slots'[l] = slots[l] + 1
      BY <2>2, <3>2 DEF TypeOK
    <3>4. slots'[l] \in 0 .. MaxConnections
      BY <3>1, <3>2, <3>3, ServerAssumption
    <3> QED
      BY <1>1, <2>2, <3>1, <3>3, <3>4, GiveBalance
  <2> QED
    BY <2>1, <2>2
<1>3. \A m \in Listeners \ {l} :
        slots'[m] = slots[m] /\ (Interrupted(m)' \/ Balanced(m)')
  <2> TAKE m \in Listeners \ {l}
  <2>1. slots'[m] = slots[m]
    BY DEF TypeOK
  <2> QED
    BY <2>1, KeepBalance DEF SInv, ForGood
<1>4. SlotsType'
  BY <1>2, <1>3 DEF TypeOK, SlotsType
<1> QED
  BY <1>2, <1>3, <1>4 DEF SInv

\* The loop takes a slot for the handler it is going to start, and gives it back
\* if it cannot.
LEMMA LoopSlots ==
  ASSUME TypeOK, JInv, SInv, ForGood, NEW l \in Listeners, Loop(l)
  PROVE  SInv' /\ SlotsType'
<1> USE ServerAssumption DEF TypeOK, JInv, LoopTo
<1> DEFINE c == taken[l]
<1>1. main # "exited" \/ LoopStops(l)
  BY DEF MainAgrees, Loop, Accept, TakeSlot, TurnAway, Spawn, SpawnFails, Return, Finish
<1>2. CASE \E d \in Conns : Accept(l, d)
  <2>1. slots' = slots /\ main' = main
    BY <1>2 DEF Accept
  <2>2. \A m \in Listeners : Holders(m)' = Holders(m)
    BY <1>2 DEF Accept, ConnTo, Holders, Handling, LoopsAgree, ConnsAgree, Past
  <2> QED
    BY <2>1, <2>2, KeepSlots
<1>3. CASE TakeSlot(l)
  <2>1. c \in Conns /\ conn[c] = "accepted" /\ at[c] = l /\ main # "exited"
    BY <1>1, <1>3 DEF TakeSlot, LoopStops, LoopsAgree
  <2>2. c \notin Holders(l) /\ Holders(l)' = Holders(l) \cup {c}
    BY <1>3, <2>1 DEF TakeSlot, requests, Holders, Handling, LoopsAgree
  <2>3. \A m \in Listeners \ {l} : Holders(m)' = Holders(m)
    BY <1>3 DEF TakeSlot, requests, Holders
  <2>4. slots[l] > 0 /\ slots' = [slots EXCEPT ![l] = @ - 1] /\ ~ Interrupted(l)
    BY <1>3 DEF TakeSlot, Interrupted
  <2> QED
    BY <2>1, <2>2, <2>3, <2>4, MoveSlot
<1>4. CASE TurnAway(l)
  <2>1. c \in Conns /\ conn[c] = "accepted" /\ at[c] = l
    BY <1>4 DEF TurnAway, Finish, LoopsAgree
  <2>2. slots' = slots /\ main' = main
    BY <1>4 DEF TurnAway, Finish
  <2>3. \A m \in Listeners : Holders(m)' = Holders(m)
    BY <1>4, <2>1 DEF TurnAway, Finish, Holders, Handling, LoopsAgree
  <2> QED
    BY <2>2, <2>3, KeepSlots
<1>5. CASE Spawn(l)
  <2>1. c \in Conns /\ conn[c] = "accepted" /\ at[c] = l
    BY <1>5 DEF Spawn, LoopsAgree
  <2>2. slots' = slots /\ main' = main
    BY <1>5 DEF Spawn
  <2>3. \A m \in Listeners : Holders(m)' = Holders(m)
    BY <1>5, <2>1 DEF Spawn, Holders, Handling, LoopsAgree
  <2> QED
    BY <2>2, <2>3, KeepSlots
<1>6. CASE SpawnFails(l)
  <2>1. c \in Conns /\ conn[c] = "accepted" /\ at[c] = l /\ main # "exited"
    BY <1>1, <1>6 DEF SpawnFails, Finish, LoopStops, LoopsAgree
  <2>2. c \in Holders(l) /\ Holders(l)' = Holders(l) \ {c}
    BY <1>6, <2>1 DEF SpawnFails, Finish, Holders, Handling, LoopsAgree
  <2>3. \A m \in Listeners \ {l} : Holders(m)' = Holders(m)
    BY <1>6, <2>1 DEF SpawnFails, Finish, Holders
  <2>4. ~ Interrupted(l)
    BY <1>6 DEF SpawnFails, Finish, Interrupted
  <2>5. slots[l] < MaxConnections
    BY <2>1, <2>2, <2>4, HolderTaken DEF SInv
  <2>6. slots' = [slots EXCEPT ![l] = IF @ < MaxConnections THEN @ + 1 ELSE @]
    BY <1>6, <2>5 DEF SpawnFails
  <2> QED
    BY <2>1, <2>2, <2>3, <2>4, <2>6, MoveSlot
<1>7. CASE Return(l) \/ LoopStops(l)
  <2>1. slots' = slots /\ main' = main
    BY <1>7 DEF Return, LoopStops
  <2>2. \A m \in Listeners : Holders(m)' = Holders(m)
    BY <1>7 DEF Return, LoopStops, requests, Holders, LoopsAgree
  <2> QED
    BY <2>1, <2>2, KeepSlots
<1> QED
  BY <1>2, <1>3, <1>4, <1>5, <1>6, <1>7 DEF Loop

\* A handler keeps its slot until the connection is over.
LEMMA HandleSlots ==
  ASSUME TypeOK, JInv, SInv, ForGood, NEW c \in Conns, Handle(c)
  PROVE  SInv' /\ SlotsType'
<1> USE ServerAssumption DEF TypeOK, JInv, ConnTo, others
<1>1. CASE ReleaseSlot(c)
  <2>1. at[c] \in Listeners /\ main # "exited"
    BY <1>1 DEF ReleaseSlot, ConnsAgree, Past, MainAgrees, Handling
  <2>2. PICK l \in Listeners : l = at[c]
    BY <2>1
  <2>3. c \in Holders(l) /\ Holders(l)' = Holders(l) \ {c}
    BY <1>1, <2>2 DEF ReleaseSlot, Holders, Handling
  <2>4. \A m \in Listeners \ {l} : Holders(m)' = Holders(m)
    BY <1>1, <2>2 DEF ReleaseSlot, Holders
  <2>5. slots' = [slots EXCEPT ![l] = IF @ < MaxConnections THEN @ + 1 ELSE @]
    BY <1>1, <2>2 DEF ReleaseSlot
  <2>6. CASE ~ Interrupted(l)
    BY <2>1, <2>3, <2>4, <2>5, <2>6, MoveSlot
  <2>7. CASE Interrupted(l)
    <3>1. SlotsType'
      BY <2>5 DEF SlotsType
    <3>2. ASSUME NEW m \in Listeners, m # l PROVE Interrupted(m)' \/ Balanced(m)'
      <4>1. slots'[m] = slots[m]
        BY <2>5, <3>2
      <4> QED
        BY <2>1, <2>4, <3>2, <4>1, KeepBalance DEF SInv, ForGood
    <3> QED
      BY <2>7, <3>1, <3>2 DEF SInv, ForGood
  <2> QED
    BY <2>6, <2>7
<1>2. CASE ~ ReleaseSlot(c)
  <2>1. /\ conn[c] \in Handling
        /\ \E to \in Handling : conn' = [conn EXCEPT ![c] = to]
        /\ UNCHANGED <<main, loop, at, slots>>
    <3>1. CASE \E key \in BOOLEAN, users \in 0 .. MaxUsernames : Read(c, key, users)
      BY <3>1 DEF Read, Handling
    <3>4. CASE (\E groups \in BOOLEAN : Lock(c, groups)) \/ Loaded(c) \/ Fetch(c) \/ Resolve(c)
      BY <3>4 DEF Lock, Loaded, Fetch, Resolve, Handling
    <3>2. CASE Break(c)
      BY <3>2 DEF Break, Handling
    <3>3. CASE Handshake(c) \/ Refuse(c) \/ Send(c) \/ Close(c)
      BY <3>3 DEF Handshake, Refuse, Send, Close, Handling
    <3> QED
      BY <1>2, <3>1, <3>2, <3>3, <3>4 DEF Handle
  <2>2. \A m \in Listeners : Holders(m)' = Holders(m)
    BY <2>1 DEF Holders, Handling
  <2> QED
    BY <2>1, <2>2, KeepSlots
<1> QED
  BY <1>1, <1>2

\* Starting, connecting and closing moves no handler; an interrupt may find a loop
\* with a slot in hand.
LEMMA MainSlots ==
  ASSUME TypeOK, JInv, SInv, ForGood,
         \/ Starting \/ BindFails \/ Stopping
         \/ \E released \in BOOLEAN : Interrupt(released)
         \/ \E d \in Conns, m \in Listeners : Connect(d, m)
  PROVE  SInv' /\ SlotsType'
<1> USE ServerAssumption DEF TypeOK, JInv, MainTo
<1>1. CASE \E d \in Conns, m \in Listeners : Connect(d, m)
  <2>1. slots' = slots /\ main' = main
    BY <1>1 DEF Connect, loops
  <2>2. \A l \in Listeners : Holders(l)' = Holders(l)
    BY <1>1 DEF Connect, ConnTo, loops, Holders, Handling
  <2> QED
    BY <2>1, <2>2, KeepSlots
<1>2. CASE RefuseToStart \/ \E l \in Listeners : Bind(l) \/ Shutdown(l)
  <2>1. slots' = slots /\ main # "exited"
    BY <1>2 DEF RefuseToStart, Bind, Shutdown, loops
  <2>2. \A l \in Listeners : Holders(l)' = Holders(l)
    BY <1>2 DEF RefuseToStart, Bind, Shutdown, loops, requests, Holders
  <2> QED
    BY <2>1, <2>2, KeepSlots
<1>3. CASE ServeFirst \/ \E l \in Listeners : StartLoop(l)
  <2>1. slots' = slots /\ main # "exited"
    BY <1>3 DEF ServeFirst, StartLoop
  <2>2. \A l \in Listeners : Holders(l)' = Holders(l)
    BY <1>3 DEF ServeFirst, StartLoop, LoopTo, requests, Holders
  <2> QED
    BY <2>1, <2>2, KeepSlots
<1>4. CASE BindFails \/ CloseAll
  <2>1. slots' = slots /\ main # "exited"
    BY <1>4 DEF BindFails, CloseAll, loops
  <2>2. \A l \in Listeners : Holders(l)' = Holders(l)
    BY <1>4 DEF BindFails, CloseAll, loops, Drop, Holders, Handling
  <2> QED
    BY <2>1, <2>2, KeepSlots
<1>5. CASE Exit
  <2>1. slots' = slots /\ main # "exited" /\ main' = "exited"
    BY <1>5 DEF Exit, loops
  <2> QED
    BY <2>1, KeepSlots
<1>6. ASSUME NEW released \in BOOLEAN, Interrupt(released) PROVE SInv' /\ SlotsType'
  <2>1. main # "exited" /\ Interrupted(First)'
    BY <1>6 DEF Interrupt, Interrupted
  <2>2. SlotsType'
    BY <1>6 DEF Interrupt, Releasable, SlotsType
  <2>3. ASSUME NEW m \in Listeners, m # First PROVE Interrupted(m)' \/ Balanced(m)'
    <3>1. slots'[m] = slots[m] /\ loop'[m] = loop[m] /\ at' = at
      BY <1>6, <2>3 DEF Interrupt
    <3>2. \A c \in Conns : at[c] = m => conn'[c] = conn[c]
      BY <1>6, <2>3 DEF Interrupt, LoopsAgree
    <3>3. Holders(m)' = Holders(m)
      BY <3>1, <3>2 DEF Holders
    <3> QED
      BY <2>1, <2>3, <3>1, <3>3, KeepBalance DEF SInv, ForGood
  <2> QED
    BY <2>1, <2>2, <2>3 DEF SInv
<1> QED
  BY <1>1, <1>2, <1>3, <1>4, <1>5, <1>6 DEF Starting, Stopping

\* Apart from the range of the slots, every step keeps the types.
LEMMA StepType == TypeOK /\ JInv /\ SlotsType' /\ [Next]_vars => TypeOK'
<1> SUFFICES ASSUME TypeOK, JInv, SlotsType', [Next]_vars PROVE TypeOK'
  OBVIOUS
<1> USE ServerAssumption DEF TypeOK, SlotsType, MainTo, LoopTo, ConnTo, requests, loops, others
<1>1. CASE UNCHANGED vars
  BY <1>1 DEF vars
<1>2. CASE Starting
  BY <1>2 DEF Starting, RefuseToStart, Bind, StartLoop, ServeFirst, MainSteps, LoopSteps
<1>3. CASE BindFails \/ CloseAll
  BY <1>3 DEF BindFails, CloseAll, CloseSockets, Drop, MainSteps, ConnSteps, Replies
<1>4. CASE \E released \in BOOLEAN : Interrupt(released)
  BY <1>4 DEF Interrupt, MainSteps, LoopSteps, ConnSteps, Replies
<1>5. CASE Exit \/ \E l \in Listeners : Shutdown(l)
  BY <1>5 DEF Exit, Shutdown, MainSteps, ConnSteps, Replies
<1>6. ASSUME NEW l \in Listeners, Loop(l) PROVE TypeOK'
  <2>1. CASE \E c \in Conns : Accept(l, c)
    BY <2>1 DEF Accept, LoopSteps, ConnSteps
  <2>2. CASE TakeSlot(l) \/ Return(l) \/ LoopStops(l)
    BY <2>2 DEF TakeSlot, Return, LoopStops, LoopSteps
  <2>3. CASE TurnAway(l) \/ SpawnFails(l)
    BY <2>3 DEF TurnAway, SpawnFails, Finish, LoopSteps, ConnSteps, Replies
  <2>4. CASE Spawn(l)
    BY <2>4 DEF Spawn, LoopSteps, ConnSteps, Handling
  <2> QED
    BY <1>6, <2>1, <2>2, <2>3, <2>4 DEF Loop
<1>7. ASSUME NEW c \in Conns, Handle(c) PROVE TypeOK'
  <2>1. CASE \E key \in BOOLEAN, users \in 0 .. MaxUsernames : Read(c, key, users)
    BY <2>1 DEF Read, ConnSteps, Handling
  <2>2. CASE Handshake(c) \/ Close(c) \/ ReleaseSlot(c)
    BY <2>2 DEF Handshake, Close, ReleaseSlot, ConnSteps, Handling
  <2>4. CASE (\E groups \in BOOLEAN : Lock(c, groups)) \/ Loaded(c) \/ Fetch(c)
    BY <2>4 DEF Lock, Loaded, Fetch, ConnSteps, Handling
  <2>5. CASE Resolve(c)
    <3>1. left[c] \in 1 .. MaxUsernames
      BY <2>5 DEF Resolve, JInv, ConnsAgree, Past
    <3>2. left[c] - 1 \in 0 .. MaxUsernames
      BY <3>1
    <3> QED
      BY <2>5, <3>2 DEF Resolve, ConnSteps, Handling
  <2>3. CASE Refuse(c) \/ Send(c) \/ Break(c)
    BY <2>3 DEF Refuse, Send, Break, ConnSteps, Handling, Replies
  <2> QED
    BY <1>7, <2>1, <2>2, <2>3, <2>4, <2>5 DEF Handle
<1>8. ASSUME NEW c \in Conns, NEW l \in Listeners, Connect(c, l) PROVE TypeOK'
  BY <1>8 DEF Connect, ConnSteps
<1> QED
  BY <1>1, <1>2, <1>3, <1>4, <1>5, <1>6, <1>7, <1>8 DEF Next, Stopping, Listen, Loop

\* Every step preserves the invariant.
LEMMA StepInv == IInv /\ [Next]_vars => IInv'
<1> SUFFICES ASSUME IInv, [Next]_vars PROVE IInv'
  OBVIOUS
<1>1. JInv'
  BY StepJInv DEF IInv
<1>2. CASE UNCHANGED vars
  <2>1. TypeOK'
    BY <1>2 DEF IInv, TypeOK, vars
  <2>2. SInv'
    BY <1>2 DEF IInv, SInv, Balanced, Holders, Interrupted, vars
  <2> QED
    BY <1>1, <2>1, <2>2 DEF IInv
<1>3. CASE Next
  <2>1. SInv' /\ SlotsType'
    BY <1>3, StopsForGood, LoopSlots, HandleSlots, MainSlots DEF IInv, Next, Listen, Loop
  <2>2. TypeOK'
    BY <1>3, <2>1, StepType DEF IInv
  <2> QED
    BY <1>1, <2>1, <2>2 DEF IInv
<1> QED
  BY <1>2, <1>3

\* What is inductive about the server.
THEOREM Invariance == Spec => []IInv
  BY InitInv, StepInv, PTL DEF Spec

\* Every reachable state of the server is well typed; above all, a semaphore is
\* never released beyond its limit.
THEOREM TypeCorrect == Spec => []TypeOK
<1>1. IInv => TypeOK
  BY DEF IInv
<1> QED
  BY <1>1, Invariance, PTL

\* No slot leaks and none is given back twice, however connections end, while the
\* loop may still give it away (process_request, process_request_thread).
THEOREM SlotsBalance == Spec => []SlotsAccounted
<1>1. IInv => SlotsAccounted
  BY DEF IInv, SInv, Balanced, SlotsAccounted
<1> QED
  BY <1>1, Invariance, PTL

\* Nobody gets keys without the key that is configured, and a key that is empty
\* configures a server that does not start (KeyServer, Serve.__call__).
THEOREM KeyRequired == Spec => []FailClosed
<1>1. IInv => FailClosed
  BY ServerAssumption DEF IInv, TypeOK, JInv, ConnsAgree, Past, KeyAgrees, FailClosed, Replies
<1> QED
  BY <1>1, Invariance, PTL

\* Nobody is left waiting at a server that failed to start or has stopped
\* (bind_servers, serve).
THEOREM ClosedClean == Spec => []NothingLeftOpen
<1>1. IInv => NothingLeftOpen
  BY ServerAssumption DEF IInv, TypeOK, JInv, ConnsAgree, Past, LoopsAgree, MainAgrees, NothingLeftOpen
<1> QED
  BY <1>1, Invariance, PTL

\* Only a loop without a free slot says that it is busy.
LEMMA BusySteps ==
  ASSUME TypeOK, JInv, [Next]_vars,
         NEW c \in Conns, reply'[c] = "busy", reply[c] # "busy"
  PROVE  \E l \in Listeners : TurnAway(l) /\ taken[l] = c
<1> USE ServerAssumption DEF TypeOK
<1>1. reply' # reply
  OBVIOUS
<1>2. ~ UNCHANGED vars /\ ~ Starting /\ ~ \E l \in Listeners : Shutdown(l)
  BY <1>1 DEF vars, Starting, RefuseToStart, Bind, StartLoop, ServeFirst, Shutdown, requests
<1>3. ~ BindFails /\ ~ CloseAll /\ ~ \E released \in BOOLEAN : Interrupt(released)
  BY DEF BindFails, CloseAll, Interrupt, Drop
<1>4. ~ Exit
  BY DEF Exit
<1>5. ~ \E d \in Conns, l \in Listeners : Connect(d, l)
  BY <1>1 DEF Connect
<1>6. ~ \E d \in Conns : Handle(d)
  <2> SUFFICES ASSUME NEW d \in Conns, Handle(d) PROVE FALSE
    OBVIOUS
  <2>1. ~ Handshake(d) /\ ~ Loaded(d) /\ ~ Fetch(d) /\ ~ Resolve(d)
        /\ ~ Close(d) /\ ~ ReleaseSlot(d)
        /\ ~ (\E key \in BOOLEAN, users \in 0 .. MaxUsernames : Read(d, key, users))
        /\ ~ (\E groups \in BOOLEAN : Lock(d, groups))
    BY <1>1 DEF Handshake, Lock, Loaded, Fetch, Resolve, Close, ReleaseSlot, Read
  <2>2. ~ Refuse(d) /\ ~ Send(d) /\ ~ Break(d)
    BY DEF Refuse, Send, Break
  <2> QED
    BY <2>1, <2>2 DEF Handle
<1>7. PICK l \in Listeners : TurnAway(l) \/ SpawnFails(l)
  <2>1. PICK l \in Listeners : Listen(l) \/ SpawnFails(l)
    BY <1>2, <1>3, <1>4, <1>5, <1>6 DEF Next, Stopping
  <2>2. ~ TakeSlot(l) /\ ~ Spawn(l) /\ ~ Return(l) /\ ~ LoopStops(l)
        /\ ~ \E d \in Conns : Accept(l, d)
    BY <1>1 DEF TakeSlot, Spawn, Return, LoopStops, Accept, requests
  <2> QED
    BY <2>1, <2>2 DEF Listen
<1>8. taken[l] \in Conns
  BY <1>7 DEF TurnAway, SpawnFails, Finish, LoopTo, JInv, LoopsAgree
<1>9. ~ SpawnFails(l)
  BY <1>8 DEF SpawnFails, Finish
<1> QED
  BY <1>7, <1>8, <1>9 DEF TurnAway, Finish

\* A 503 means that all slots of the listener are taken (process_request).
THEOREM BusyIsFull == Spec => BusyOnlyWhenFull
<1>1. ASSUME IInv, [Next]_vars
      PROVE  [\A c \in Conns :
                reply'[c] = "busy" /\ reply[c] # "busy" =>
                  Cardinality(Holders(at[c])) = MaxConnections]_vars
  <2> SUFFICES ASSUME NEW c \in Conns, reply'[c] = "busy", reply[c] # "busy"
               PROVE  Cardinality(Holders(at[c])) = MaxConnections
    OBVIOUS
  <2>1. PICK l \in Listeners : TurnAway(l) /\ taken[l] = c
    BY <1>1, BusySteps DEF IInv
  <2>2. loop[l] = "accepted" /\ slots[l] = 0
    BY <2>1 DEF TurnAway, Finish, LoopTo
  <2>3. at[c] = l
    BY <1>1, <2>1, <2>2, ServerAssumption DEF IInv, JInv, LoopsAgree
  <2>4. main # "exited" /\ ~ Interrupted(l)
    BY <1>1, <2>2 DEF IInv, JInv, MainAgrees, Interrupted
  <2>5. IsFiniteSet(Holders(l)) /\ slots[l] + Cardinality(Holders(l)) = MaxConnections
    BY <1>1, <2>4 DEF IInv, SInv, Balanced
  <2>6. Cardinality(Holders(l)) \in Nat
    BY <2>5, FS_CardinalityType
  <2> QED
    BY <2>2, <2>3, <2>5, <2>6
<1> QED
  BY <1>1, Invariance, PTL DEF Spec, BusyOnlyWhenFull
=============================================================================
