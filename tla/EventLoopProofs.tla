--------------------------- MODULE EventLoopProofs --------------------------
(***************************************************************************)
(* Proofs about what runs in an event loop, for any number of threads,     *)
(* functions, timers and wheels of buckets.                                *)
(*  - EventLoop and EventLoopThread: the loop does not sleep over work,    *)
(*    the functions registered for the end of the loop are called, and     *)
(*    run() returns only from a loop that loops.                           *)
(*  - TimerQueue: no timer is lost, the timerfd is armed for the earliest  *)
(*    one, and no callback is begun that must not be.                      *)
(*  - TimingWheel under its users of ConnTimeouts: entries leave on time,  *)
(*    and connections are closed for their silence in time.                *)
(***************************************************************************)
EXTENDS EventLoopThread, TimerQueue, ConnTimeouts, SequenceTheorems,
        WellFoundedInduction, TLAPS

-----------------------------------------------------------------------------
(* The steps of a FifoQueue *)

ItemOf(V) == [val : V, visible : BOOLEAN]

\* An item is its value and its visibility, and nothing else.
LEMMA ItemParts ==
    ASSUME NEW V, NEW r \in ItemOf(V)
    PROVE  r = [val |-> r.val, visible |-> r.visible] /\ r.val \in V
BY DEF ItemOf

LEMMA NewItem ==
    ASSUME NEW V, NEW v \in V, NEW b \in BOOLEAN
    PROVE  [val |-> v, visible |-> b] \in ItemOf(V)
BY DEF ItemOf

LEMMA ItemShown ==
    ASSUME NEW V, NEW r \in ItemOf(V), NEW b \in BOOLEAN
    PROVE  [r EXCEPT !.visible = b] = [val |-> r.val, visible |-> b]
<1> DEFINE x == r.val  y == r.visible
<1>1. r = [val |-> x, visible |-> y] BY ItemParts
<1> HIDE DEF x, y
<1>2. [r EXCEPT !.visible = b] = [val |-> x, visible |-> b] BY <1>1, SMT
<1> QED BY <1>2 DEF x

LEMMA SeqPut ==
    ASSUME NEW S, NEW q \in Seq(S), NEW i \in DOMAIN q, NEW n \in S
    PROVE  /\ [q EXCEPT ![i] = n] \in Seq(S)
           /\ Len([q EXCEPT ![i] = n]) = Len(q)
           /\ \A j \in 1..Len(q) :
                 [q EXCEPT ![i] = n][j] = IF j = i THEN n ELSE q[j]
BY ExceptSeq

\* Publishing an item makes that item visible and changes nothing else.
LEMMA PublishFacts ==
    ASSUME NEW V, NEW q \in Seq(ItemOf(V)), NEW i \in DOMAIN q
    PROVE  LET p == [q EXCEPT ![i].visible = TRUE] IN
           /\ p \in Seq(ItemOf(V)) /\ Len(p) = Len(q) /\ DOMAIN p = DOMAIN q
           /\ \A j \in DOMAIN q : /\ p[j].val = q[j].val
                                  /\ p[j].visible <=> (j = i \/ q[j].visible)
<1> DEFINE b == TRUE
           p == [q EXCEPT ![i].visible = TRUE]
           n == [val |-> q[i].val, visible |-> b]
<1>1. p = [q EXCEPT ![i] = [q[i] EXCEPT !.visible = b]] OBVIOUS
<1>2. i \in 1..Len(q) /\ q[i] \in ItemOf(V) OBVIOUS
<1>3. b \in BOOLEAN OBVIOUS
<1>4. [q[i] EXCEPT !.visible = b] = [val |-> q[i].val, visible |-> b]
  <2> HIDE DEF b
  <2> QED BY <1>2, <1>3, ItemShown
<1>5. [val |-> q[i].val, visible |-> b] \in ItemOf(V)
  <2> HIDE DEF b
  <2> QED BY <1>2, <1>3, ItemParts, NewItem
<1>6. n.val = q[i].val /\ n.visible OBVIOUS
<1>7. p = [q EXCEPT ![i] = n] BY <1>1, <1>4
<1>8. n \in ItemOf(V) BY <1>5
<1> HIDE DEF n, p
<1>9. /\ p \in Seq(ItemOf(V)) /\ Len(p) = Len(q)
      /\ \A j \in 1..Len(q) : p[j] = IF j = i THEN n ELSE q[j]
    BY <1>2, <1>7, <1>8, SeqPut
<1>10. DOMAIN p = 1..Len(q) /\ DOMAIN q = 1..Len(q) BY <1>9
<1>11. \A j \in DOMAIN q : /\ p[j].val = q[j].val
                           /\ p[j].visible <=> (j = i \/ q[j].visible)
    BY <1>6, <1>9, <1>10
<1> QED BY <1>9, <1>10, <1>11 DEF p

\* Claiming a place appends one item.
LEMMA ClaimFacts ==
    ASSUME NEW V, NEW q \in Seq(ItemOf(V)), NEW v \in V, NEW b \in BOOLEAN
    PROVE  LET p == Append(q, [val |-> v, visible |-> b]) IN
           /\ p \in Seq(ItemOf(V)) /\ Len(p) = Len(q) + 1
           /\ \A j \in 1..Len(q) : p[j] = q[j]
           /\ p[Len(q) + 1] = [val |-> v, visible |-> b]
<1> DEFINE n == [val |-> v, visible |-> b]
<1>1. n \in ItemOf(V) BY NewItem
<1> HIDE DEF n
<1>2. /\ Append(q, n) \in Seq(ItemOf(V)) /\ Len(Append(q, n)) = Len(q) + 1
      /\ \A j \in 1..Len(q) : Append(q, n)[j] = q[j]
      /\ Append(q, n)[Len(q) + 1] = n
    BY <1>1, AppendProperties
<1> QED BY <1>2 DEF n

\* Taking the front item shortens the queue.
LEMMA TakeFacts ==
    ASSUME NEW V, NEW q \in Seq(ItemOf(V)), q # <<>>
    PROVE  /\ Tail(q) \in Seq(ItemOf(V)) /\ Len(Tail(q)) = Len(q) - 1
           /\ \A j \in 1..Len(q) - 1 : Tail(q)[j] = q[j + 1]
           /\ Head(q) = q[1] /\ Head(q).val \in V
<1>1. Head(q) = q[1] /\ Head(q) \in ItemOf(V) OBVIOUS
<1>2. /\ Tail(q) \in Seq(ItemOf(V)) /\ Len(Tail(q)) = Len(q) - 1
      /\ \A j \in 1..Len(q) - 1 : Tail(q)[j] = q[j + 1]
    BY HeadTailProperties
<1> QED BY <1>1, <1>2, ItemParts

-----------------------------------------------------------------------------
(* The loop's variables keep their types *)

LEMMA QueueTypes ==
    TypeOK => /\ funcs \in Seq(ItemOf(Func)) /\ ran \in Seq(Func)
              /\ quitFuncs \in Seq(ItemOf(Func)) /\ ranOnQuit \in Seq(Func)
BY DEF TypeOK, Funcs!FifoTypeOK, OnQuit!FifoTypeOK, Funcs!Item, OnQuit!Item, ItemOf

LEMMA NewFuncType ==
    ASSUME TypeOK, CreateFunc, NEW k \in Kinds
    PROVE  NewFunc(k) \in Func /\ created + 1 \in 1..MaxFuncs /\ created' \in 0..MaxFuncs
BY LoopAssumption DEF TypeOK, CreateFunc, NewFunc, Func

\* The loop thread's own enqueue, in one step.
LEMMA QueueHereType ==
    ASSUME TypeOK, NEW k \in Kinds, QueueHere(k)
    PROVE  /\ funcs' \in Seq(ItemOf(Func)) /\ created' \in 0..MaxFuncs
           /\ wakeFd' \in BOOLEAN /\ ran' = ran
<1>1. NewFunc(k) \in Func /\ created' \in 0..MaxFuncs
    BY NewFuncType DEF QueueHere
<1> DEFINE b == TRUE
<1>2. b \in BOOLEAN OBVIOUS
<1>3. funcs' = Append(funcs, [val |-> NewFunc(k), visible |-> b]) BY DEF QueueHere
<1>4. funcs \in Seq(ItemOf(Func)) BY QueueTypes
<1> HIDE DEF b
<1>5. funcs' \in Seq(ItemOf(Func)) BY <1>1, <1>2, <1>3, <1>4, ClaimFacts, Zenon
<1> QED BY <1>1, <1>5 DEF QueueHere, TypeOK
\* What a caller's step does to the callers' variables.
LEMMA CallerGotoType ==
    ASSUME TypeOK, NEW c \in Callers, NEW from, NEW to \in {"idle", "link", "linkOnQuit", "wake"},
           CallerGoto(c, from, to)
    PROVE  cpc' \in [Callers -> {"idle", "link", "linkOnQuit", "wake"}]
BY DEF TypeOK, CallerGoto

\* Every step of the callers keeps the loop's state well-formed.
LEMMA CallerTypeStep ==
    ASSUME TypeOK, NEW c \in Callers, CallerStart(c) \/ CallerStep(c)
    PROVE  TypeOK'
<1>1. ASSUME NEW k \in Kinds, QueueInLoop(c, k) PROVE TypeOK'
  <2> DEFINE b == FALSE
  <2>1. /\ CreateFunc /\ CallerGoto(c, "idle", "link")
        /\ mine' = [mine EXCEPT ![c] = created + 1]
        /\ funcs' = Append(funcs, [val |-> NewFunc(k), visible |-> b])
        /\ UNCHANGED <<ran, quitFuncs, ranOnQuit, wakeFd, looping, quit, lpc, active,
                       thrown, loops, owed>>
      BY <1>1 DEF QueueInLoop, Funcs!Claim
  <2>2. NewFunc(k) \in Func /\ created + 1 \in 1..MaxFuncs /\ created' \in 0..MaxFuncs
      BY <2>1, NewFuncType
  <2>3. b \in BOOLEAN OBVIOUS
  <2>4. funcs' \in Seq(ItemOf(Func))
    <3> HIDE DEF b
    <3> QED BY <2>1, <2>2, <2>3, QueueTypes, ClaimFacts, Zenon
  <2>5. cpc' \in [Callers -> {"idle", "link", "linkOnQuit", "wake"}]
      BY <2>1, CallerGotoType
  <2>6. mine' \in [Callers -> 0..MaxFuncs] BY <2>1, <2>2 DEF TypeOK
  <2> HIDE DEF b
  <2> QED BY <2>1, <2>2, <2>4, <2>5, <2>6 DEF TypeOK, Funcs!FifoTypeOK, OnQuit!FifoTypeOK,
                                        Funcs!Item, OnQuit!Item, ItemOf
<1>2. ASSUME NEW k \in Kinds, RunOnQuit(c, k) PROVE TypeOK'
  <2> DEFINE b == FALSE
  <2>1. /\ CreateFunc /\ CallerGoto(c, "idle", "linkOnQuit")
        /\ mine' = [mine EXCEPT ![c] = created + 1]
        /\ quitFuncs' = Append(quitFuncs, [val |-> NewFunc(k), visible |-> b])
        /\ UNCHANGED <<funcs, ran, ranOnQuit, wakeFd, looping, quit, lpc, active,
                       thrown, loops, owed>>
      BY <1>2 DEF RunOnQuit, OnQuit!Claim
  <2>2. NewFunc(k) \in Func /\ created + 1 \in 1..MaxFuncs /\ created' \in 0..MaxFuncs
      BY <2>1, NewFuncType
  <2>3. b \in BOOLEAN OBVIOUS
  <2>4. quitFuncs' \in Seq(ItemOf(Func))
    <3> HIDE DEF b
    <3> QED BY <2>1, <2>2, <2>3, QueueTypes, ClaimFacts, Zenon
  <2>5. cpc' \in [Callers -> {"idle", "link", "linkOnQuit", "wake"}]
      BY <2>1, CallerGotoType
  <2>6. mine' \in [Callers -> 0..MaxFuncs] BY <2>1, <2>2 DEF TypeOK
  <2> HIDE DEF b
  <2> QED BY <2>1, <2>2, <2>4, <2>5, <2>6 DEF TypeOK, Funcs!FifoTypeOK, OnQuit!FifoTypeOK,
                                        Funcs!Item, OnQuit!Item, ItemOf
<1>3. ASSUME Quit(c) PROVE TypeOK'
  <2>1. cpc' \in [Callers -> {"idle", "link", "linkOnQuit", "wake"}]
      BY <1>3, CallerGotoType DEF Quit
  <2> QED BY <1>3, <2>1 DEF Quit, TypeOK, Funcs!FifoTypeOK, OnQuit!FifoTypeOK
<1>4. ASSUME QueueLink(c) PROVE TypeOK'
  <2>1. cpc' \in [Callers -> {"idle", "link", "linkOnQuit", "wake"}]
      BY <1>4, CallerGotoType DEF QueueLink
  <2>2. PICK i \in DOMAIN funcs : funcs' = [funcs EXCEPT ![i].visible = TRUE] /\ ran' = ran
      BY <1>4, Zenon DEF QueueLink, Funcs!Publish
  <2>3. funcs' \in Seq(ItemOf(Func)) BY <2>2, QueueTypes, PublishFacts, Zenon
  <2>4. UNCHANGED <<ran, quitFuncs, ranOnQuit, wakeFd, looping, quit, lpc, active,
                    thrown, mine, created, loops, owed>>
      BY <1>4, <2>2 DEF QueueLink
  <2> HIDE <2>2
  <2> QED BY <2>1, <2>3, <2>4 DEF TypeOK, Funcs!FifoTypeOK, OnQuit!FifoTypeOK,
                                  Funcs!Item, OnQuit!Item, ItemOf
<1>5. ASSUME RunOnQuitLink(c) PROVE TypeOK'
  <2>1. cpc' \in [Callers -> {"idle", "link", "linkOnQuit", "wake"}]
      BY <1>5, CallerGotoType DEF RunOnQuitLink
  <2>2. PICK i \in DOMAIN quitFuncs :
               /\ quitFuncs[i].val.id = mine[c]
               /\ quitFuncs' = [quitFuncs EXCEPT ![i].visible = TRUE] /\ ranOnQuit' = ranOnQuit
      BY <1>5, Zenon DEF RunOnQuitLink, OnQuit!Publish
  <2>3. quitFuncs' \in Seq(ItemOf(Func)) BY <2>2, QueueTypes, PublishFacts, Zenon
  <2>7. /\ mine' = [mine EXCEPT ![c] = 0]
        /\ UNCHANGED <<funcs, ran, ranOnQuit, wakeFd, looping, quit, lpc, active,
                       thrown, created, loops, owed>>
      BY <1>5, <2>2, Zenon DEF RunOnQuitLink
  <2>8. mine' \in [Callers -> 0..MaxFuncs] BY <2>7, LoopAssumption DEF TypeOK
  <2> QED BY <2>1, <2>3, <2>7, <2>8 DEF TypeOK, Funcs!FifoTypeOK,
                          OnQuit!FifoTypeOK, Funcs!Item, OnQuit!Item, ItemOf
<1>6. ASSUME Wakeup(c) PROVE TypeOK'
  <2>1. cpc' \in [Callers -> {"idle", "link", "linkOnQuit", "wake"}]
      BY <1>6, CallerGotoType DEF Wakeup
  <2>2. mine' \in [Callers -> 0..MaxFuncs] BY <1>6, LoopAssumption DEF Wakeup, TypeOK
  <2> QED BY <1>6, <2>1, <2>2 DEF Wakeup, TypeOK, Funcs!FifoTypeOK, OnQuit!FifoTypeOK
<1> QED BY <1>1, <1>2, <1>3, <1>4, <1>5, <1>6 DEF CallerStart, CallerStep
\* Every step of the loop thread does.
LEMMA LoopTypeStep ==
    ASSUME TypeOK, LoopStep \/ LoopInput
    PROVE  TypeOK'
<1> USE DEF LoopPlaces, LoopGoto
<1>1. ASSUME NEW k \in Kinds, BeforeLoop(k) PROVE TypeOK'
  <2>1. /\ funcs' \in Seq(ItemOf(Func)) /\ created' \in 0..MaxFuncs
        /\ wakeFd' \in BOOLEAN /\ ran' = ran
      BY <1>1, QueueHereType DEF BeforeLoop
  <2>2. UNCHANGED <<quitFuncs, ranOnQuit, looping, quit, lpc, active, thrown,
                    cpc, mine, loops, owed>>
      BY <1>1 DEF BeforeLoop
  <2> QED BY <2>1, <2>2 DEF TypeOK, Funcs!FifoTypeOK, OnQuit!FifoTypeOK,
                            Funcs!Item, OnQuit!Item, ItemOf
<1>2. ASSUME LoopBegin PROVE TypeOK'
  <2>1. loops' \in 0..MaxLoops BY <1>2, LoopAssumption DEF LoopBegin, TypeOK
  <2> QED BY <1>2, <2>1 DEF LoopBegin, TypeOK, Funcs!FifoTypeOK, OnQuit!FifoTypeOK
<1>3. ASSUME LoopReset PROVE TypeOK'
    BY <1>3 DEF LoopReset, TypeOK, Funcs!FifoTypeOK, OnQuit!FifoTypeOK
<1>4. ASSUME TestQuit PROVE TypeOK'
    BY <1>4 DEF TestQuit, TypeOK, Funcs!FifoTypeOK, OnQuit!FifoTypeOK
<1>5. ASSUME NEW io \in SUBSET {"io"}, Poll(io) PROVE TypeOK'
  <2>1. active' \in SUBSET {"wake", "io"} BY <1>5 DEF Poll
  <2> QED BY <1>5, <2>1 DEF Poll, TypeOK, Funcs!FifoTypeOK, OnQuit!FifoTypeOK
<1>6. ASSUME HandleWake PROVE TypeOK'
    BY <1>6 DEF HandleWake, TypeOK, Funcs!FifoTypeOK, OnQuit!FifoTypeOK
<1>7. ASSUME NEW k \in Kinds, HandleIo(k) PROVE TypeOK'
  <2>1. /\ funcs' \in Seq(ItemOf(Func)) /\ created' \in 0..MaxFuncs
        /\ wakeFd' \in BOOLEAN /\ ran' = ran
    <3>1. CASE QueueHere("plain") BY <3>1, QueueHereType, LoopAssumption
    <3>2. CASE UNCHANGED <<funcs, ran, wakeFd, created>>
        BY <3>2, QueueTypes DEF TypeOK
    <3> QED BY <1>7, <3>1, <3>2 DEF HandleIo
  <2>2. /\ active' = active \ {"io"} /\ quit' \in BOOLEAN /\ thrown' \in BOOLEAN
        /\ lpc' \in {"leave", "active"}
        /\ UNCHANGED <<quitFuncs, ranOnQuit, looping, cpc, mine, loops, owed>>
      BY <1>7 DEF HandleIo
  <2> QED BY <2>1, <2>2 DEF TypeOK, Funcs!FifoTypeOK, OnQuit!FifoTypeOK,
                            Funcs!Item, OnQuit!Item, ItemOf
<1>8. ASSUME ActiveDone PROVE TypeOK'
    BY <1>8 DEF ActiveDone, TypeOK, Funcs!FifoTypeOK, OnQuit!FifoTypeOK
<1>9. ASSUME FuncsEmpty PROVE TypeOK'
    BY <1>9 DEF FuncsEmpty, TypeOK, Funcs!FifoTypeOK, OnQuit!FifoTypeOK
<1>10. ASSUME DequeueFunc PROVE TypeOK'
  <2>1. funcs' \in Seq(ItemOf(Func)) /\ ran' \in Seq(Func) /\ lpc' \in {"call", "funcs"}
    <3>1. CASE Funcs!Take /\ lpc' = "call"
      <4>1. /\ funcs # <<>> /\ ran' = Append(ran, Head(funcs).val) /\ funcs' = Tail(funcs)
          BY <3>1 DEF Funcs!Take, Funcs!NothingVisible
      <4>2. funcs' \in Seq(ItemOf(Func)) /\ Head(funcs).val \in Func
          BY <4>1, QueueTypes, TakeFacts, Zenon
      <4> QED BY <3>1, <4>1, <4>2, QueueTypes
    <3>2. CASE UNCHANGED <<funcs, ran>> /\ lpc' = "funcs" BY <3>2, QueueTypes
    <3> QED BY <1>10, <3>1, <3>2 DEF DequeueFunc
  <2>2. UNCHANGED <<quitFuncs, ranOnQuit, wakeFd, looping, quit, active, thrown,
                    cpc, mine, created, loops, owed>>
      BY <1>10 DEF DequeueFunc
  <2> QED BY <2>1, <2>2 DEF TypeOK, Funcs!FifoTypeOK, OnQuit!FifoTypeOK,
                            Funcs!Item, OnQuit!Item, ItemOf
<1>11. ASSUME CallFunc PROVE TypeOK'
  <2>1. /\ funcs' \in Seq(ItemOf(Func)) /\ created' \in 0..MaxFuncs
        /\ wakeFd' \in BOOLEAN /\ ran' = ran
    <3>1. CASE QueueHere("plain") BY <3>1, QueueHereType, LoopAssumption
    <3>2. CASE UNCHANGED <<funcs, ran, wakeFd, created>>
        BY <3>2, QueueTypes DEF TypeOK
    <3> QED BY <1>11, <3>1, <3>2 DEF CallFunc
  <2>2. /\ quit' \in BOOLEAN /\ thrown' \in BOOLEAN /\ lpc' \in {"leave", "dequeue"}
        /\ UNCHANGED <<quitFuncs, ranOnQuit, looping, active, cpc, mine, loops,
                       owed>>
      BY <1>11 DEF CallFunc
  <2> QED BY <2>1, <2>2, QueueTypes DEF TypeOK, Funcs!FifoTypeOK, OnQuit!FifoTypeOK,
                            Funcs!Item, OnQuit!Item, ItemOf
<1>12. ASSUME Leave PROVE TypeOK'
  <2>1. owed' \in SUBSET (1..MaxFuncs)
    <3>1. \A i \in DOMAIN quitFuncs : quitFuncs[i] \in ItemOf(Func) BY QueueTypes
    <3>2. \A i \in DOMAIN quitFuncs : quitFuncs[i].val \in Func
        BY <3>1, ItemParts, Zenon
    <3>3. \A f \in Func : f.id \in 1..MaxFuncs BY DEF Func
    <3>4. \A i \in VisiblePrefix(quitFuncs) : quitFuncs[i].val.id \in 1..MaxFuncs
        BY <3>2, <3>3, Zenon DEF VisiblePrefix
    <3> QED BY <1>12, <3>4, Zenon DEF Leave
  <2> QED BY <1>12, <2>1 DEF Leave, TypeOK, Funcs!FifoTypeOK, OnQuit!FifoTypeOK
<1>13. ASSUME RunQuitFunc PROVE TypeOK'
  <2>1. /\ quitFuncs # <<>> /\ ranOnQuit' = Append(ranOnQuit, Head(quitFuncs).val)
        /\ quitFuncs' = Tail(quitFuncs)
      BY <1>13 DEF RunQuitFunc, OnQuit!Take, OnQuit!NothingVisible
  <2>2. quitFuncs' \in Seq(ItemOf(Func)) /\ Head(quitFuncs).val \in Func
      BY <2>1, QueueTypes, TakeFacts, Zenon
  <2>3. ranOnQuit' \in Seq(Func) BY <2>1, <2>2, QueueTypes
  <2>4. /\ lpc' \in {"idle", "onQuit"} /\ thrown' \in BOOLEAN
        /\ owed' = {} \/ owed' = owed
        /\ UNCHANGED <<funcs, ran, wakeFd, looping, quit, active, cpc, mine,
                       created, loops>>
      BY <1>13 DEF RunQuitFunc
  <2>5. owed' \in SUBSET (1..MaxFuncs) BY <2>4 DEF TypeOK
  <2> QED BY <2>2, <2>3, <2>4, <2>5 DEF TypeOK, Funcs!FifoTypeOK, OnQuit!FifoTypeOK,
                                        Funcs!Item, OnQuit!Item, ItemOf
<1>14. ASSUME LoopReturns PROVE TypeOK'
    BY <1>14 DEF LoopReturns, TypeOK, Funcs!FifoTypeOK, OnQuit!FifoTypeOK
<1>15. ASSUME HandleIo("plain") PROVE TypeOK' BY <1>7, <1>15, LoopAssumption
<1>16. ASSUME Poll({}) PROVE TypeOK' BY <1>5, <1>16
<1> QED BY <1>1, <1>2, <1>3, <1>4, <1>5, <1>6, <1>7, <1>8, <1>9, <1>10, <1>11, <1>12,
           <1>13, <1>14, <1>15, <1>16, Zenon DEF LoopStep, LoopInput
-----------------------------------------------------------------------------
(* The loop does not sleep over work *)

\* Claiming a place shows the consumer nothing.
LEMMA ClaimHides ==
    ASSUME TypeOK, NEW v \in Func, Funcs!Claim(v)
    PROVE  ~Funcs!NothingVisible(funcs') => ~Funcs!NothingVisible(funcs)
<1> DEFINE b == FALSE
           n == [val |-> v, visible |-> b]
<1>1. b \in BOOLEAN /\ funcs' = Append(funcs, [val |-> v, visible |-> b])
    BY DEF Funcs!Claim
<1>2. ~n.visible OBVIOUS
<1> HIDE DEF b
<1>3. /\ \A j \in 1..Len(funcs) : funcs'[j] = funcs[j]
      /\ funcs'[Len(funcs) + 1] = n
  <2> DEFINE p == Append(funcs, [val |-> v, visible |-> b])
  <2>1. /\ \A j \in 1..Len(funcs) : p[j] = funcs[j]
        /\ p[Len(funcs) + 1] = [val |-> v, visible |-> b]
      BY <1>1, QueueTypes, ClaimFacts
  <2> QED BY <1>1, <2>1
<1> HIDE DEF n
<1>4. CASE funcs = <<>>
  <2>1. Len(funcs) + 1 = 1 BY <1>4
  <2>2. funcs'[1] = n BY <1>3, <2>1
  <2> QED BY <1>2, <2>2 DEF Funcs!NothingVisible
<1>5. CASE funcs # <<>>
  <2>1. 1 \in 1..Len(funcs) BY <1>5, QueueTypes
  <2>2. funcs'[1] = funcs[1] BY <1>3, <2>1
  <2> QED BY <1>5, <2>2 DEF Funcs!NothingVisible
<1> QED BY <1>4, <1>5

\* Threads that stand before their write stand there after others' steps.
LEMMA WokenStays ==
    ASSUME TypeOK, NEW c \in Callers, NEW from, NEW to, CallerGoto(c, from, to),
           from # "wake", Woken, wakeFd' = wakeFd
    PROVE  Woken'
BY DEF TypeOK, CallerGoto, Woken

LEMMA WokenBy ==
    ASSUME TypeOK, NEW c \in Callers, NEW from, CallerGoto(c, from, "wake")
    PROVE  Woken'
BY DEF TypeOK, CallerGoto, Woken

LEMMA CallerAnnounces ==
    ASSUME TypeOK, WorkIsAnnounced, NEW c \in Callers, CallerStart(c) \/ CallerStep(c)
    PROVE  WorkIsAnnounced'
<1>1. ASSUME NEW k \in Kinds, QueueInLoop(c, k) PROVE WorkIsAnnounced'
  <2>1. NewFunc(k) \in Func BY <1>1, NewFuncType DEF QueueInLoop
  <2>2. ~Funcs!NothingVisible(funcs') => ~Funcs!NothingVisible(funcs)
      BY <1>1, <2>1, ClaimHides DEF QueueInLoop
  <2>3. Woken => Woken' BY <1>1, WokenStays DEF QueueInLoop
  <2>4. UNCHANGED <<looping, quit, lpc, thrown>> BY <1>1 DEF QueueInLoop
  <2> QED BY <2>2, <2>3, <2>4, Zenon DEF WorkIsAnnounced, Funcs!NothingVisible
<1>2. ASSUME NEW k \in Kinds, RunOnQuit(c, k) PROVE WorkIsAnnounced'
  <2>1. Woken => Woken' BY <1>2, WokenStays DEF RunOnQuit
  <2>2. UNCHANGED <<funcs, looping, quit, lpc, thrown>> BY <1>2 DEF RunOnQuit
  <2> QED BY <2>1, <2>2 DEF WorkIsAnnounced, Funcs!NothingVisible
<1>3. ASSUME Quit(c) PROVE WorkIsAnnounced'
  <2>1. Woken' BY <1>3, WokenBy DEF Quit
  <2>2. UNCHANGED <<looping, lpc>> BY <1>3 DEF Quit
  <2> QED BY <2>1, <2>2 DEF WorkIsAnnounced
<1>4. ASSUME QueueLink(c) PROVE WorkIsAnnounced'
  <2>1. Woken' BY <1>4, WokenBy DEF QueueLink
  <2>2. UNCHANGED <<looping, lpc>> BY <1>4 DEF QueueLink
  <2> QED BY <2>1, <2>2 DEF WorkIsAnnounced
<1>5. ASSUME RunOnQuitLink(c) PROVE WorkIsAnnounced'
  <2>1. Woken => Woken' BY <1>5, WokenStays DEF RunOnQuitLink
  <2>2. UNCHANGED <<funcs, looping, quit, lpc, thrown>> BY <1>5 DEF RunOnQuitLink
  <2> QED BY <2>1, <2>2 DEF WorkIsAnnounced, Funcs!NothingVisible
<1>6. ASSUME Wakeup(c) PROVE WorkIsAnnounced'
  <2>1. Woken' BY <1>6 DEF Wakeup, Woken
  <2>2. UNCHANGED <<looping, lpc>> BY <1>6 DEF Wakeup
  <2> QED BY <2>1, <2>2 DEF WorkIsAnnounced
<1> QED BY <1>1, <1>2, <1>3, <1>4, <1>5, <1>6 DEF CallerStart, CallerStep

LEMMA LoopAnnounces ==
    ASSUME TypeOK, WorkIsAnnounced, LoopStep \/ LoopInput
    PROVE  WorkIsAnnounced'
<1> USE DEF LoopGoto, Woken
<1>1. ASSUME NEW k \in Kinds, BeforeLoop(k) PROVE WorkIsAnnounced'
    BY <1>1 DEF BeforeLoop, QueueHere, WorkIsAnnounced
<1>2. ASSUME LoopBegin PROVE WorkIsAnnounced'
    BY <1>2 DEF LoopBegin, WorkIsAnnounced, Funcs!NothingVisible
<1>3. ASSUME LoopReset PROVE WorkIsAnnounced'
    BY <1>3 DEF LoopReset, WorkIsAnnounced, Funcs!NothingVisible
<1>4. ASSUME TestQuit PROVE WorkIsAnnounced'
    BY <1>4 DEF TestQuit, WorkIsAnnounced, Funcs!NothingVisible
<1>5. ASSUME NEW io, Poll(io) PROVE WorkIsAnnounced'
    BY <1>5 DEF Poll, WorkIsAnnounced
<1>6. ASSUME HandleWake PROVE WorkIsAnnounced'
    BY <1>6 DEF HandleWake, WorkIsAnnounced
<1>7. ASSUME NEW k, HandleIo(k) PROVE WorkIsAnnounced'
  <2>1. /\ lpc' = "active" \/ (lpc' = "leave" /\ thrown')
        /\ looping' = looping
      BY <1>7 DEF HandleIo
  <2> QED BY <2>1 DEF WorkIsAnnounced
<1>8. ASSUME ActiveDone PROVE WorkIsAnnounced'
    BY <1>8 DEF ActiveDone, WorkIsAnnounced
<1>9. ASSUME FuncsEmpty PROVE WorkIsAnnounced'
    BY <1>9 DEF FuncsEmpty, WorkIsAnnounced, Funcs!NothingVisible
<1>10. ASSUME DequeueFunc PROVE WorkIsAnnounced'
  <2>1. lpc' \in {"call", "funcs"} BY <1>10 DEF DequeueFunc
  <2> QED BY <2>1 DEF WorkIsAnnounced
<1>11. ASSUME CallFunc PROVE WorkIsAnnounced'
  <2>1. lpc' = "dequeue" \/ (lpc' = "leave" /\ thrown') BY <1>11 DEF CallFunc
  <2> QED BY <2>1 DEF WorkIsAnnounced
<1>12. ASSUME Leave PROVE WorkIsAnnounced'
    BY <1>12 DEF Leave, WorkIsAnnounced, Funcs!NothingVisible
<1>13. ASSUME RunQuitFunc PROVE WorkIsAnnounced'
  <2>1. /\ lpc = "onQuit" /\ lpc' \in {"idle", "onQuit"} /\ (thrown => thrown')
        /\ UNCHANGED <<funcs, wakeFd, looping, quit, cpc>>
      BY <1>13 DEF RunQuitFunc
  <2> QED BY <2>1 DEF WorkIsAnnounced, Funcs!NothingVisible
<1>14. ASSUME LoopReturns PROVE WorkIsAnnounced'
    BY <1>14 DEF LoopReturns, WorkIsAnnounced, Funcs!NothingVisible
<1> QED BY <1>1, <1>2, <1>3, <1>4, <1>5, <1>6, <1>7, <1>8, <1>9, <1>10, <1>11, <1>12,
           <1>13, <1>14, Zenon DEF LoopStep, LoopInput

-----------------------------------------------------------------------------
(* The functions registered for the end of the loop are called *)

\* The set OwedIsSeen speaks of.
Seen == Ids(ranOnQuit) \cup {quitFuncs[i].val.id : i \in VisiblePrefix(quitFuncs)}

LEMMA CallerKeepsOwed ==
    ASSUME TypeOK, OwedIsSeen, NEW c \in Callers, CallerStart(c) \/ CallerStep(c)
    PROVE  OwedIsSeen'
<1>1. UNCHANGED <<lpc, owed, ranOnQuit>>
    BY DEF CallerStart, CallerStep, QueueInLoop, RunOnQuit, Quit, QueueLink,
           RunOnQuitLink, Wakeup, OnQuit!Claim, OnQuit!Publish
<1>2. /\ DOMAIN quitFuncs \subseteq DOMAIN quitFuncs'
      /\ \A i \in DOMAIN quitFuncs : /\ quitFuncs'[i].val = quitFuncs[i].val
                                     /\ quitFuncs[i].visible => quitFuncs'[i].visible
  <2>1. CASE quitFuncs' = quitFuncs BY <2>1
  <2>2. ASSUME NEW k \in Kinds, RunOnQuit(c, k) PROVE <1>2!1 /\ <1>2!2
    <3> DEFINE b == FALSE
    <3>1. /\ b \in BOOLEAN
          /\ quitFuncs' = Append(quitFuncs, [val |-> NewFunc(k), visible |-> b])
        BY <2>2 DEF RunOnQuit, OnQuit!Claim
    <3>2. NewFunc(k) \in Func BY <2>2, NewFuncType DEF RunOnQuit
    <3> HIDE DEF b
    <3>3. /\ \A j \in 1..Len(quitFuncs) : quitFuncs'[j] = quitFuncs[j]
          /\ Len(quitFuncs') = Len(quitFuncs) + 1 /\ quitFuncs' \in Seq(ItemOf(Func))
      <4> DEFINE p == Append(quitFuncs, [val |-> NewFunc(k), visible |-> b])
      <4>1. /\ \A j \in 1..Len(quitFuncs) : p[j] = quitFuncs[j]
            /\ Len(p) = Len(quitFuncs) + 1 /\ p \in Seq(ItemOf(Func))
          BY <3>1, <3>2, QueueTypes, ClaimFacts
      <4> QED BY <3>1, <4>1
    <3>4. DOMAIN quitFuncs = 1..Len(quitFuncs) /\ DOMAIN quitFuncs' = 1..Len(quitFuncs')
        BY <3>3, QueueTypes
    <3>5. DOMAIN quitFuncs \subseteq DOMAIN quitFuncs' BY <3>3, <3>4, QueueTypes
    <3> QED BY <3>3, <3>4, <3>5, Zenon
  <2>3. ASSUME RunOnQuitLink(c) PROVE <1>2!1 /\ <1>2!2
    <3>1. PICK i \in DOMAIN quitFuncs : quitFuncs' = [quitFuncs EXCEPT ![i].visible = TRUE]
        BY <2>3, Zenon DEF RunOnQuitLink, OnQuit!Publish
    <3> QED BY <3>1, QueueTypes, PublishFacts, Zenon
  <2>4. quitFuncs' = quitFuncs \/ RunOnQuitLink(c) \/ \E k \in Kinds : RunOnQuit(c, k)
      BY DEF CallerStart, CallerStep, QueueInLoop, Quit, QueueLink, Wakeup
  <2> QED BY <2>1, <2>2, <2>3, <2>4, Zenon
<1>3. VisiblePrefix(quitFuncs) \subseteq VisiblePrefix(quitFuncs')
  <2> SUFFICES ASSUME NEW i \in VisiblePrefix(quitFuncs)
               PROVE  i \in VisiblePrefix(quitFuncs')
      OBVIOUS
  <2>1. i \in DOMAIN quitFuncs /\ \A j \in 1..i : quitFuncs[j].visible
      BY DEF VisiblePrefix
  <2>2. \A j \in 1..i : j \in DOMAIN quitFuncs BY <2>1, QueueTypes
  <2> QED BY <1>2, <2>1, <2>2, Zenon DEF VisiblePrefix
<1>4. \A i \in VisiblePrefix(quitFuncs) : quitFuncs'[i].val.id = quitFuncs[i].val.id
    BY <1>2 DEF VisiblePrefix
<1>5. Seen \subseteq Seen' BY <1>1, <1>3, <1>4, Zenon DEF Seen, Ids
<1> QED BY <1>1, <1>5, Zenon DEF OwedIsSeen, Seen, Ids
\* Taking the front of funcsOnQuit_ moves its id from the prefix to the called.
LEMMA TakeKeepsSeen ==
    ASSUME TypeOK, OnQuit!Take
    PROVE  Seen \subseteq Seen'
<1>1. /\ quitFuncs # <<>> /\ ranOnQuit' = Append(ranOnQuit, Head(quitFuncs).val)
      /\ quitFuncs' = Tail(quitFuncs)
    BY DEF OnQuit!Take, OnQuit!NothingVisible
<1>2. /\ Tail(quitFuncs) \in Seq(ItemOf(Func)) /\ Len(Tail(quitFuncs)) = Len(quitFuncs) - 1
      /\ \A j \in 1..Len(quitFuncs) - 1 : Tail(quitFuncs)[j] = quitFuncs[j + 1]
      /\ Head(quitFuncs) = quitFuncs[1] /\ Head(quitFuncs).val \in Func
    BY <1>1, QueueTypes, TakeFacts
<1>3. /\ Len(ranOnQuit') = Len(ranOnQuit) + 1
      /\ DOMAIN ranOnQuit' = 1..Len(ranOnQuit) + 1
      /\ \A j \in DOMAIN ranOnQuit : j \in DOMAIN ranOnQuit' /\ ranOnQuit'[j] = ranOnQuit[j]
      /\ ranOnQuit'[Len(ranOnQuit) + 1] = quitFuncs[1].val
  <2> DEFINE v == Head(quitFuncs).val
  <2>1. v \in Func BY <1>2
  <2>2. v = quitFuncs[1].val BY <1>2
  <2> HIDE DEF v
  <2>3. ranOnQuit \in Seq(Func) /\ ranOnQuit' = Append(ranOnQuit, v) BY <1>1, QueueTypes DEF v
  <2> QED BY <2>1, <2>2, <2>3
<1> SUFFICES ASSUME NEW x \in Seen PROVE x \in Seen' OBVIOUS
<1>4. CASE x \in Ids(ranOnQuit)
    BY <1>3, <1>4 DEF Seen, Ids
<1>5. ASSUME NEW i \in VisiblePrefix(quitFuncs), x = quitFuncs[i].val.id PROVE x \in Seen'
  <2>1. i \in 1..Len(quitFuncs) /\ \A j \in 1..i : quitFuncs[j].visible
      BY QueueTypes DEF VisiblePrefix
  <2>2. CASE i = 1
    <3>1. Len(ranOnQuit) + 1 \in DOMAIN ranOnQuit' BY <1>3, QueueTypes
    <3>2. ranOnQuit'[Len(ranOnQuit) + 1].id = x BY <1>3, <1>5, <2>2
    <3> QED BY <3>1, <3>2 DEF Seen, Ids
  <2>3. CASE i # 1
    <3>1. i - 1 \in 1..Len(quitFuncs) - 1 BY <2>1, <2>3, QueueTypes
    <3>2. i - 1 \in DOMAIN quitFuncs' BY <1>1, <1>2, <3>1
    <3>3. quitFuncs'[i - 1] = quitFuncs[i]
      <4>1. (i - 1) + 1 = i BY <2>1
      <4> QED BY <1>1, <1>2, <3>1, <4>1
    <3>4. \A j \in 1..i - 1 : quitFuncs'[j] = quitFuncs[j + 1] /\ j + 1 \in 1..i
        BY <1>1, <1>2, <2>1, <3>1
    <3>5. \A j \in 1..i - 1 : quitFuncs'[j].visible BY <2>1, <3>4
    <3>6. i - 1 \in VisiblePrefix(quitFuncs') BY <3>2, <3>5, Zenon DEF VisiblePrefix
    <3>7. x = quitFuncs'[i - 1].val.id BY <1>5, <3>3
    <3> QED BY <3>6, <3>7, Zenon DEF Seen
  <2> QED BY <2>2, <2>3
<1> QED BY <1>4, <1>5 DEF Seen

LEMMA LoopKeepsOwed ==
    ASSUME TypeOK, OwedIsSeen, LoopStep \/ LoopInput
    PROVE  OwedIsSeen'
<1> USE DEF LoopGoto
<1>1. CASE lpc' \notin {"idle", "onQuit"} BY <1>1 DEF OwedIsSeen
<1>2. ASSUME NEW k, BeforeLoop(k) PROVE OwedIsSeen'
  <2>1. lpc = "idle" /\ UNCHANGED <<ranOnQuit, lpc, owed>> BY <1>2 DEF BeforeLoop
  <2> QED BY <2>1 DEF OwedIsSeen, Ids
<1>3. ASSUME Leave PROVE OwedIsSeen'
  <2>1. /\ lpc' = "onQuit" /\ quitFuncs' = quitFuncs
        /\ owed' = {quitFuncs[i].val.id : i \in VisiblePrefix(quitFuncs)}
      BY <1>3 DEF Leave
  <2> QED BY <2>1 DEF OwedIsSeen, VisiblePrefix
<1>4. ASSUME RunQuitFunc PROVE OwedIsSeen'
  <2>1. /\ lpc = "onQuit" /\ Seen \subseteq Seen'
        /\ \/ lpc' = "idle" /\ owed' = {}
           \/ lpc' = "onQuit" /\ owed' = owed
      BY <1>4, TakeKeepsSeen DEF RunQuitFunc
  <2> QED BY <2>1 DEF OwedIsSeen, Seen
<1>5. ASSUME LoopReturns PROVE OwedIsSeen'
  <2>1. /\ lpc = "onQuit" /\ lpc' = "idle" /\ UNCHANGED <<ranOnQuit, owed>>
        /\ OnQuit!NothingVisible(quitFuncs)
      BY <1>5 DEF LoopReturns
  <2>2. VisiblePrefix(quitFuncs) = {}
    <3> SUFFICES ASSUME NEW i \in VisiblePrefix(quitFuncs) PROVE FALSE OBVIOUS
    <3>1. i \in 1..Len(quitFuncs) /\ quitFuncs # <<>> BY QueueTypes DEF VisiblePrefix
    <3>2. 1 \in 1..i BY <3>1
    <3>3. quitFuncs[1].visible BY <3>2 DEF VisiblePrefix
    <3> QED BY <2>1, <3>1, <3>3 DEF OnQuit!NothingVisible
  <2>3. owed \subseteq Ids(ranOnQuit) BY <2>1, <2>2, Zenon DEF OwedIsSeen
  <2> QED BY <2>1, <2>3 DEF OwedIsSeen, Ids
<1>6. \/ lpc' \notin {"idle", "onQuit"} \/ Leave \/ RunQuitFunc \/ LoopReturns
      \/ \E k \in Kinds : BeforeLoop(k)
  <2>1. ASSUME LoopBegin \/ LoopReset \/ TestQuit \/ HandleWake \/ ActiveDone \/ FuncsEmpty
                \/ DequeueFunc \/ CallFunc
        PROVE  lpc' \notin {"idle", "onQuit"}
      BY <2>1 DEF LoopBegin, LoopReset, TestQuit, HandleWake, ActiveDone, FuncsEmpty,
                  DequeueFunc, CallFunc
  <2>2. ASSUME NEW k, HandleIo(k) PROVE lpc' \notin {"idle", "onQuit"} BY <2>2 DEF HandleIo
  <2>3. ASSUME NEW io, Poll(io) PROVE lpc' \notin {"idle", "onQuit"} BY <2>3 DEF Poll
  <2> QED BY <2>1, <2>2, <2>3, Zenon DEF LoopStep, LoopInput
<1> QED BY <1>1, <1>2, <1>3, <1>4, <1>5, <1>6, Zenon

-----------------------------------------------------------------------------
(* The event loop by itself *)

LEMMA LoopInvInit == Init => LoopInv
<1> SUFFICES ASSUME Init PROVE LoopInv OBVIOUS
<1>1. funcs = <<>> /\ ran = <<>> /\ quitFuncs = <<>> /\ ranOnQuit = <<>>
    BY DEF Init, Funcs!FifoInit, OnQuit!FifoInit
<1>2. Funcs!FifoTypeOK /\ OnQuit!FifoTypeOK BY <1>1 DEF Funcs!FifoTypeOK, OnQuit!FifoTypeOK
<1>3. TypeOK
  <2>1. 0 \in 0..MaxFuncs /\ 0 \in 0..MaxLoops BY LoopAssumption
  <2>2. /\ mine \in [Callers -> 0..MaxFuncs]
        /\ cpc \in [Callers -> {"idle", "link", "linkOnQuit", "wake"}]
      BY <2>1 DEF Init
  <2>3. owed \in SUBSET (1..MaxFuncs)
        /\ active \in SUBSET {"wake", "io"}
      BY DEF Init
  <2> QED BY <1>2, <2>1, <2>2, <2>3, Zenon DEF Init, TypeOK, LoopPlaces
<1>4. WorkIsAnnounced BY <1>1 DEF Init, WorkIsAnnounced, Funcs!NothingVisible
<1>5. OwedIsSeen BY DEF Init, OwedIsSeen
<1> QED BY <1>3, <1>4, <1>5 DEF LoopInv

LEMMA LoopInvStep == LoopInv /\ [Next]_vars => LoopInv'
<1> SUFFICES ASSUME LoopInv, [Next]_vars PROVE LoopInv' OBVIOUS
<1>1. TypeOK /\ WorkIsAnnounced /\ OwedIsSeen BY DEF LoopInv
<1>2. ASSUME NEW c \in Callers, CallerStart(c) \/ CallerStep(c) PROVE LoopInv'
    BY <1>1, <1>2, CallerTypeStep, CallerAnnounces, CallerKeepsOwed DEF LoopInv
<1>3. ASSUME LoopStep \/ LoopInput PROVE LoopInv'
    BY <1>1, <1>3, LoopTypeStep, LoopAnnounces, LoopKeepsOwed DEF LoopInv
<1>4. ASSUME UNCHANGED vars PROVE LoopInv'
  <2>1. TypeOK' BY <1>1, <1>4, Zenon DEF vars, TypeOK, Funcs!FifoTypeOK, OnQuit!FifoTypeOK
  <2>2. WorkIsAnnounced'
      BY <1>1, <1>4, Zenon DEF vars, WorkIsAnnounced, Woken, Funcs!NothingVisible
  <2>3. OwedIsSeen' BY <1>1, <1>4, Zenon DEF vars, OwedIsSeen, Ids, VisiblePrefix
  <2> QED BY <2>1, <2>2, <2>3 DEF LoopInv
<1> QED BY <1>2, <1>3, <1>4 DEF Next

\* The inductive invariant gives what the two properties say.
LEMMA LoopInvImplies == LoopInv => NoLostWakeup /\ QuitFuncsRun
BY DEF LoopInv, WorkIsAnnounced, Woken, NoLostWakeup, OwedIsSeen, QuitFuncsRun
\* An event loop, in whatever thread it runs, keeps its inductive invariant.
THEOREM LoopInvariance == Spec => []LoopInv
BY LoopInvInit, LoopInvStep, PTL DEF Spec

-----------------------------------------------------------------------------
(* The event loop in its thread *)

\* An EventLoopThread does to its loop what the loop's specification allows;
\* only the destructor's store to quit_ is its own.
LEMMA ThreadIsALoop == ThreadNext => [Next]_vars \/ DtorJoin
<1> SUFFICES ASSUME ThreadNext PROVE [Next]_vars \/ DtorJoin OBVIOUS
<1>1. ASSUME NEW u \in Callers, (InUse /\ RunCall(u)) \/ UseLoop(u) \/ UserStep(u)
      PROVE  [Next]_vars
  <2>1. CASE RunCall(u) \/ Run(u)
      BY <2>1 DEF RunCall, Run, RunFrom, RunWait, RunAgain
  <2>2. CASE UseLoop(u) BY <2>2 DEF UseLoop, ThreadKinds, CallerStart, Next
  <2>3. CASE CallerStep(u) BY <2>3 DEF Next
  <2> QED BY <1>1, <2>1, <2>2, <2>3 DEF UserStep
<1>2. ASSUME WaitCall \/ Dtor \/ WaitJoin PROVE [Next]_vars
    BY <1>2 DEF WaitCall, Dtor, WaitJoin
<1>3. ASSUME DtorQuit PROVE [Next]_vars
    BY <1>3, ThreadAssumption DEF DtorQuit, CallerStart, Next
<1>4. ASSUME ThreadStep PROVE [Next]_vars
  <2>1. CASE ThreadStart BY <2>1, LoopAssumption DEF ThreadStart, LoopInput, Next
  <2>2. CASE ThreadRun BY <2>2 DEF ThreadRun, LoopInput, Next
  <2>3. CASE ThreadEnd BY <2>3 DEF ThreadEnd
  <2>4. CASE LoopStep BY <2>4 DEF Next
  <2> QED BY <1>4, <2>1, <2>2, <2>3, <2>4 DEF ThreadStep
<1>5. ASSUME ThreadInput PROVE [Next]_vars
    BY <1>5 DEF ThreadInput, ThreadKinds, LoopInput, Next
<1>6. ASSUME OwnThread PROVE [Next]_vars BY <1>6 DEF OwnThread, Next
<1> QED BY <1>1, <1>2, <1>3, <1>4, <1>5, <1>6 DEF ThreadNext, OwnerStep

LEMMA LoopInvInThread ==
    ASSUME IInv, [ThreadNext]_allVars
    PROVE  LoopInv'
<1>1. LoopInv /\ ThreadSane BY DEF IInv
<1>2. CASE [Next]_vars BY <1>1, <1>2, LoopInvStep
<1>3. CASE DtorJoin
  <2>1. lpc = "idle" /\ quit' = TRUE BY <1>1, <1>3 DEF DtorJoin, ThreadSane
  <2>2. UNCHANGED <<funcs, ran, quitFuncs, ranOnQuit, wakeFd, looping, lpc,
                    active, thrown, cpc, mine, created, loops, owed>>
      BY <1>3 DEF DtorJoin
  <2>3. TypeOK' BY <1>1, <2>1, <2>2 DEF LoopInv, TypeOK, Funcs!FifoTypeOK, OnQuit!FifoTypeOK
  <2>4. WorkIsAnnounced'
      BY <1>1, <2>1, <2>2 DEF LoopInv, WorkIsAnnounced, Woken, Funcs!NothingVisible
  <2>5. OwedIsSeen' BY <1>1, <2>1, <2>2 DEF LoopInv, OwedIsSeen, Ids
  <2> QED BY <2>3, <2>4, <2>5 DEF LoopInv
<1> QED BY <1>2, <1>3, ThreadIsALoop DEF allVars

\* What the steps of the loop and of its callers leave alone.
LEMMA LoopPart ==
    ASSUME TypeOK, LoopStep
    PROVE  /\ loops' = loops /\ lpc' # "reset" /\ lpc # "idle"
           /\ ran' = ran \/ ran' # <<>>
<1> USE DEF LoopGoto
<1>1. ASSUME DequeueFunc PROVE ran' = ran \/ ran' # <<>>
  <2>1. CASE Funcs!Take
    <3>1. funcs # <<>> /\ ran' = Append(ran, Head(funcs).val)
        BY <2>1 DEF Funcs!Take, Funcs!NothingVisible
    <3>2. Head(funcs).val \in Func BY <3>1, QueueTypes, TakeFacts
    <3> QED BY <3>1, <3>2, QueueTypes
  <2> QED BY <1>1, <2>1 DEF DequeueFunc
<1>2. ASSUME LoopReset \/ TestQuit \/ HandleWake \/ ActiveDone \/ FuncsEmpty \/ DequeueFunc
              \/ CallFunc \/ Leave \/ RunQuitFunc \/ LoopReturns
      PROVE  loops' = loops /\ lpc' # "reset" /\ lpc # "idle"
    BY <1>2 DEF LoopReset, TestQuit, HandleWake, ActiveDone, FuncsEmpty, DequeueFunc,
                CallFunc, Leave, RunQuitFunc, LoopReturns
<1>3. ASSUME LoopReset \/ TestQuit \/ HandleWake \/ ActiveDone \/ FuncsEmpty
              \/ CallFunc \/ Leave \/ RunQuitFunc \/ LoopReturns
      PROVE  ran' = ran
    BY <1>3 DEF LoopReset, TestQuit, HandleWake, ActiveDone, FuncsEmpty,
                CallFunc, QueueHere, Leave, RunQuitFunc, LoopReturns
<1>4. ASSUME NEW io, Poll(io)
      PROVE  loops' = loops /\ lpc' # "reset" /\ lpc # "idle" /\ ran' = ran
    BY <1>4 DEF Poll
<1>5. ASSUME NEW k, HandleIo(k)
      PROVE  loops' = loops /\ lpc' # "reset" /\ lpc # "idle" /\ ran' = ran
    BY <1>5 DEF HandleIo, QueueHere
<1> QED BY <1>1, <1>2, <1>3, <1>4, <1>5 DEF LoopStep

LEMMA CallerPart ==
    ASSUME NEW c \in Callers, CallerStart(c) \/ CallerStep(c)
    PROVE  UNCHANGED <<loops, lpc, ran>>
<1>1. ASSUME NEW k, QueueInLoop(c, k) \/ RunOnQuit(c, k)
      PROVE  UNCHANGED <<loops, lpc, ran>>
    BY <1>1 DEF QueueInLoop, RunOnQuit, Funcs!Claim
<1>2. ASSUME QueueLink(c) PROVE UNCHANGED <<loops, lpc, ran>>
    BY <1>2, Zenon DEF QueueLink, Funcs!Publish
<1>3. ASSUME Quit(c) \/ RunOnQuitLink(c) \/ Wakeup(c) PROVE UNCHANGED <<loops, lpc, ran>>
    BY <1>3 DEF Quit, RunOnQuitLink, Wakeup
<1> QED BY <1>1, <1>2, <1>3 DEF CallerStart, CallerStep

\* What the places of the thread say of its loop stays true.
LEMMA ThreadSaneStep ==
    ASSUME IInv, [ThreadNext]_allVars
    PROVE  ThreadSane'
<1>1. TypeOK /\ ThreadSane BY DEF IInv, LoopInv
<1>2. ASSUME UNCHANGED <<loops, lpc, ran, threadVars>> PROVE ThreadSane'
    BY <1>1, <1>2 DEF ThreadSane, threadVars
<1>3. ASSUME NEW u \in Callers, InUse, RunCall(u) PROVE ThreadSane'
    BY <1>1, <1>3 DEF ThreadSane, RunCall, UserGoto, InUse, UserPlaces, vars
<1>4. ASSUME NEW u \in Callers, Run(u) PROVE ThreadSane'
  <2>1. ASSUME NEW from \in {"run", "dtorRun"}, NEW waitAt \in {"runWait", "dtorRunWait"},
               RunFrom(u, from, waitAt)
        PROVE ThreadSane'
      BY <1>1, <2>1 DEF ThreadSane, RunFrom, UserGoto, UserPlaces, vars
  <2>2. ASSUME NEW from \in {"runWait", "dtorRunWait"}, NEW to \in {"idle", "dtorLoop"},
               RunWait(u, from, to)
        PROVE ThreadSane'
    <3>1. ran # <<>> BY <2>2 DEF RunWait, PromiseForLoop
    <3>2. tpc # "none" BY <1>1, <2>2 DEF ThreadSane, RunWait, UserGoto
    <3> QED BY <1>1, <2>2, <3>1, <3>2 DEF ThreadSane, RunWait, UserGoto, UserPlaces, vars
  <2>3. ASSUME NEW from \in {"run", "dtorRun"}, NEW to \in {"idle", "dtorLoop"},
               RunAgain(u, from, to)
        PROVE ThreadSane'
      BY <1>1, <2>3 DEF ThreadSane, RunAgain, UserGoto, UserPlaces, vars
  <2> QED BY <1>4, <2>1, <2>2, <2>3 DEF Run
<1>5. ASSUME NEW u \in Callers, UseLoop(u) \/ (CallerStep(u) /\ UNCHANGED threadVars)
      PROVE  ThreadSane'
  <2>1. UNCHANGED <<loops, lpc, ran>>
      BY <1>5, CallerPart DEF UseLoop, ThreadKinds, CallerStart
  <2> QED BY <1>2, <1>5, <2>1 DEF UseLoop
<1>6. ASSUME WaitCall \/ Dtor \/ WaitJoin PROVE ThreadSane'
    BY <1>1, <1>6, ThreadAssumption DEF ThreadSane, WaitCall, Dtor, WaitJoin,
        UserGoto, UserPlaces, vars
<1>7. ASSUME DtorQuit \/ DtorJoin PROVE ThreadSane'
  <2>1. UNCHANGED <<loops, lpc, ran>>
      BY <1>7, CallerPart, ThreadAssumption DEF DtorQuit, DtorJoin, CallerStart, vars
  <2> QED BY <1>1, <1>7, <2>1, ThreadAssumption
          DEF ThreadSane, DtorQuit, DtorJoin, UserGoto, UserPlaces
<1>8. ASSUME ThreadStart PROVE ThreadSane'
    BY <1>1, <1>8 DEF ThreadSane, ThreadPlaces, ThreadStart, BeforeLoop, QueueHere
<1>9. ASSUME ThreadRun PROVE ThreadSane'
    BY <1>1, <1>9 DEF ThreadSane, ThreadPlaces, ThreadRun, LoopBegin, LoopGoto, TypeOK
<1>10. ASSUME ThreadEnd PROVE ThreadSane'
    BY <1>1, <1>10 DEF ThreadSane, ThreadPlaces, ThreadEnd, vars
<1>11. ASSUME tpc \in {"running", "none"}, LoopStep, UNCHANGED threadVars PROVE ThreadSane'
    BY <1>1, <1>11, LoopPart DEF ThreadSane, threadVars
<1>12. ASSUME ThreadInput PROVE ThreadSane'
  <2>1. loops' = loops /\ lpc' # "reset" /\ ran' = ran /\ tpc = "running"
      BY <1>12 DEF ThreadInput, Poll, LoopGoto, HandleIo, QueueHere
  <2> QED BY <1>1, <1>12, <2>1 DEF ThreadInput, ThreadSane, threadVars
<1>13. ASSUME OwnThread PROVE ThreadSane'
    BY <1>1, <1>13 DEF OwnThread, ThreadSane, threadVars
<1>14. CASE UNCHANGED allVars BY <1>2, <1>14 DEF allVars, vars
<1> QED BY <1>3, <1>4, <1>5, <1>6, <1>7, <1>8, <1>9, <1>10, <1>11, <1>12, <1>13, <1>14
        DEF ThreadNext, UserStep, OwnerStep, ThreadStep

\* The inductive invariant of a loop in a thread.
THEOREM Invariance == ThreadSpec => []IInv
<1>1. ThreadInit => IInv
  <2> SUFFICES ASSUME ThreadInit PROVE IInv OBVIOUS
  <2>1. LoopInv BY LoopInvInit DEF ThreadInit
  <2>2. ran = <<>> BY DEF ThreadInit, Init, Funcs!FifoInit
  <2> QED BY <2>1, <2>2 DEF IInv, ThreadInit, Init, ThreadSane, ThreadPlaces, UserPlaces
<1>2. IInv /\ [ThreadNext]_allVars => IInv'
    BY LoopInvInThread, ThreadSaneStep DEF IInv
<1> QED BY <1>1, <1>2, PTL DEF ThreadSpec

\* EventLoop::queueInLoop and quit: work is published before the eventfd is
\* written, so the loop never sleeps in poll on a function or on quit_.
THEOREM NeverSleepsOverWork == ThreadSpec => []NoLostWakeup
<1>1. IInv => NoLostWakeup BY LoopInvImplies DEF IInv
<1> QED BY <1>1, Invariance, PTL

\* The scope exit of EventLoop::loop: what runOnQuit had registered when the
\* loop was left has been called when loop() is over, exceptions included.
THEOREM RunsWhatIsOwed == ThreadSpec => []QuitFuncsRun
<1>1. IInv => QuitFuncsRun BY LoopInvImplies DEF IInv
<1> QED BY <1>1, Invariance, PTL

\* EventLoopThread::run returns only from a loop that is past the store that
\* clears quit_, so no later quit() is lost.
THEOREM RunReturnsFromALoop == ThreadSpec => []RunReturnsLooping
<1>1. IInv => RunReturnsLooping
    BY DEF IInv, LoopInv, TypeOK, ThreadSane, ThreadPlaces, RunReturnsLooping
<1> QED BY <1>1, Invariance, PTL

-----------------------------------------------------------------------------
(* Arithmetic of the heap and of the timerfd *)

LEMMA LeastNatural ==
    ASSUME NEW T, T \subseteq Nat, T # {}
    PROVE  \E x \in T : \A y \in T : x <= y
<1> DEFINE R == OpToRel(<, Nat)
<1>1. \A x, y \in Nat : x < y => <<x, y>> \in R BY DEF OpToRel
<1>2. IsWellFoundedOn(R, Nat) BY NatLessThanWellFounded
<1> HIDE DEF R
<1>3. PICK x \in T : \A y \in T : ~(<<y, x>> \in R) BY <1>2, WFMin
<1>4. \A y \in T : x \in Nat /\ y \in Nat /\ ~(y < x) BY <1>1, <1>3
<1> QED BY <1>4

\* The longest delay is a delay.
LEMMA Longest ==
    /\ MaxDelay \in Delays /\ MaxDelay \in Nat /\ MaxDelay >= 1
    /\ \A d \in Delays : d \in Nat /\ 1 <= d /\ d <= MaxDelay
<1>1. MaxDelay \in Delays /\ \A e \in Delays : e <= MaxDelay
    BY TimerAssumption DEF MaxDelay
<1> QED BY <1>1, TimerAssumption

\* The top of a heap that is not empty is a timer due no later than any other.
LEMMA EarliestIsFirst ==
    ASSUME NEW h \in SUBSET TimerIds, h # {}, NEW r \in [TimerIds -> (-MaxLate)..MaxDelay]
    PROVE  /\ Earliest(h, r) \in h
           /\ \A j \in h : r[Earliest(h, r)] <= r[j]
<1> DEFINE T == {r[j] + MaxLate : j \in h}
<1>1. MaxLate \in Nat /\ MaxDelay \in Nat BY TimerAssumption, Longest
<1>2. \A j \in h : r[j] \in Int /\ r[j] + MaxLate \in Nat BY <1>1
<1>3. T \subseteq Nat /\ T # {} BY <1>2
<1>4. PICK x \in T : \A y \in T : x <= y BY <1>3, LeastNatural
<1>5. PICK i \in h : x = r[i] + MaxLate BY <1>4
<1>6. \A j \in h : r[i] <= r[j]
  <2> TAKE j \in h
  <2>1. r[j] + MaxLate \in T OBVIOUS
  <2>2. r[i] + MaxLate <= r[j] + MaxLate BY <1>4, <1>5, <2>1
  <2> QED BY <1>1, <1>2, <2>2
<1>7. \E k \in h : \A j \in h : r[k] <= r[j] BY <1>6
<1> QED BY <1>7 DEF Earliest

\* The timerfd, at f, is armed for every timer of the heap.
Armed(h, r, f) == f # Off /\ \A j \in h : f <= ArmFor(r[j])

\* To be armed for the top of the heap is to be armed for every timer in it.
LEMMA ArmedForTop ==
    ASSUME NEW h \in SUBSET TimerIds, h # {}, NEW r \in [TimerIds -> (-MaxLate)..MaxDelay],
           NEW f \in {Off} \cup 0..MaxDelay
    PROVE  f <= ArmFor(r[Earliest(h, r)]) <=> \A j \in h : f <= ArmFor(r[j])
<1> DEFINE e == Earliest(h, r)
<1>1. e \in h /\ \A j \in h : r[e] <= r[j] BY EarliestIsFirst
<1> HIDE DEF e
<1>2. MaxLate \in Nat /\ MaxDelay \in Nat BY TimerAssumption, Longest
<1>3. \A j \in h : r[j] \in Int BY <1>2
<1>4. f \in Int BY <1>2 DEF Off
<1>5. \A j \in h : ArmFor(r[e]) <= ArmFor(r[j]) /\ ArmFor(r[j]) \in Int /\ ArmFor(r[e]) \in Int
    BY <1>1, <1>3 DEF ArmFor, AtLeast
<1>6. f <= ArmFor(r[e]) <=> \A j \in h : f <= ArmFor(r[j]) BY <1>1, <1>4, <1>5
<1> QED BY <1>6 DEF e

\* Arming for a time within the delays gives a time within the delays.
LEMMA ArmForType ==
    ASSUME NEW n \in (-MaxLate)..MaxDelay
    PROVE  ArmFor(n) \in 1..MaxDelay /\ ArmFor(n) # Off /\ n \in Int
BY TimerAssumption, Longest DEF ArmFor, AtLeast, Off

\* resetTimerfd for the top of the heap.
LEMMA ArmForTopArms ==
    ASSUME NEW h \in SUBSET TimerIds, NEW r \in [TimerIds -> (-MaxLate)..MaxDelay],
           NEW old \in {Off} \cup 0..MaxDelay
    PROVE  /\ ArmForTop(h, r, old) \in {Off} \cup 0..MaxDelay
           /\ h # {} => Armed(h, r, ArmForTop(h, r, old))
<1>1. CASE h = {} BY <1>1 DEF ArmForTop
<1>2. CASE h # {}
  <2> DEFINE e == Earliest(h, r)
             f == ArmFor(r[e])
  <2>1. e \in TimerIds BY <1>2, EarliestIsFirst
  <2>2. f \in 1..MaxDelay /\ f # Off BY <2>1, ArmForType
  <2>3. f \in {Off} \cup 0..MaxDelay BY <2>2, Longest
  <2>4. f <= ArmFor(r[Earliest(h, r)]) BY <2>2, Longest
  <2> HIDE DEF f
  <2>5. \A j \in h : f <= ArmFor(r[j]) BY <1>2, <2>3, <2>4, ArmedForTop
  <2>6. ArmForTop(h, r, old) = f BY <1>2 DEF f, ArmForTop
  <2> QED BY <2>2, <2>3, <2>5, <2>6 DEF Armed
<1> QED BY <1>1, <1>2

\* What TimerfdArmed says, without the choice of the top.
IsArmed == timers # {} /\ phase = "idle" /\ ~threw => Armed(timers, rem, fd)

LEMMA ArmedMeans ==
    /\ TimerTypeOK => (TimerfdArmed <=> IsArmed)
    /\ TimerTypeOK' => (TimerfdArmed' <=> IsArmed')
<1>1. TimerTypeOK => (TimerfdArmed <=> IsArmed)
  <2> SUFFICES ASSUME TimerTypeOK, timers # {} PROVE TimerfdArmed <=> IsArmed
      BY DEF TimerfdArmed, IsArmed
  <2>1. fd <= ArmFor(rem[Earliest(timers, rem)])
           <=> \A j \in timers : fd <= ArmFor(rem[j])
      BY ArmedForTop DEF TimerTypeOK
  <2> QED BY <2>1 DEF TimerfdArmed, Armed, IsArmed
<1>2. TimerTypeOK' => (TimerfdArmed' <=> IsArmed')
  <2> SUFFICES ASSUME TimerTypeOK', timers' # {} PROVE TimerfdArmed' <=> IsArmed'
      BY DEF TimerfdArmed, IsArmed
  <2>1. fd' <= ArmFor(rem'[Earliest(timers', rem')])
           <=> \A j \in timers' : fd' <= ArmFor(rem'[j])
      BY ArmedForTop DEF TimerTypeOK
  <2> QED BY <2>1 DEF TimerfdArmed, Armed, IsArmed
<1> QED BY <1>1, <1>2
\* addTimerInLoop leaves the timerfd armed for every timer, the new one included.
LEMMA AddArms ==
    ASSUME TimerTypeOK, IsArmed, NEW i \in TimerIds, NEW n \in (-MaxLate)..MaxDelay,
           AddTimerInLoop(i, n), NEW r \in [TimerIds -> (-MaxLate)..MaxDelay],
           r[i] = n, \A j \in timers : r[j] = rem[j]
    PROVE  /\ timers' = timers \cup {i} /\ idSet' = idSet \cup {i}
           /\ fd' \in {Off} \cup 0..MaxDelay
           /\ phase = "idle" /\ ~threw => Armed(timers', r, fd')
<1>1. timers' = timers \cup {i} /\ idSet' = idSet \cup {i} BY DEF AddTimerInLoop
<1>2. ArmFor(n) \in 1..MaxDelay /\ ArmFor(n) # Off /\ n \in Int BY ArmForType
<1>3. \A j \in TimerIds : rem[j] \in Int /\ ArmFor(rem[j]) \in Int
    BY ArmForType, Longest DEF TimerTypeOK
<1>4. ASSUME timers # {}, n < rem[Earliest(timers, rem)], fd' = ArmFor(n)
      PROVE  \A j \in timers : fd' <= ArmFor(rem[j])
  <2> DEFINE e == Earliest(timers, rem)
  <2>1. e \in timers /\ \A j \in timers : rem[e] <= rem[j]
      BY <1>4, EarliestIsFirst DEF TimerTypeOK
  <2>2. n < rem[e] BY <1>4
  <2> HIDE DEF e
  <2>3. \A j \in timers : n < rem[j] BY <1>2, <1>3, <2>1, <2>2 DEF TimerTypeOK
  <2>4. \A j \in timers : rem[j] \in Int BY <1>3 DEF TimerTypeOK
  <2> QED BY <1>2, <1>4, <2>3, <2>4 DEF ArmFor, AtLeast
<1>5. CASE timers = {} \/ n < rem[Earliest(timers, rem)]
  <2>1. fd' = ArmFor(n) BY <1>5 DEF AddTimerInLoop
  <2>2. fd' \in {Off} \cup 0..MaxDelay /\ fd' # Off BY <1>2, <2>1, Longest
  <2>3. \A j \in timers : fd' <= ArmFor(rem[j]) BY <1>4, <1>5, <2>1
  <2>4. fd' <= ArmFor(r[i]) BY <1>2, <2>1, Longest
  <2> QED BY <1>1, <2>2, <2>3, <2>4 DEF Armed
<1>6. CASE ~(timers = {} \/ n < rem[Earliest(timers, rem)])
  <2> DEFINE e == Earliest(timers, rem)
  <2>1. fd' = fd BY <1>6 DEF AddTimerInLoop
  <2>2. e \in timers /\ e \in TimerIds BY <1>6, EarliestIsFirst DEF TimerTypeOK
  <2>3. rem[e] <= n
    <3>1. ~(n < rem[e]) BY <1>6
    <3> HIDE DEF e
    <3> QED BY <1>2, <1>3, <2>2, <3>1
  <2> HIDE DEF e
  <2>4. ASSUME phase = "idle", ~threw PROVE Armed(timers', r, fd')
    <3>1. fd # Off /\ \A j \in timers : fd <= ArmFor(rem[j]) BY <1>6, <2>4 DEF IsArmed, Armed
    <3>2. ArmFor(rem[e]) <= ArmFor(n)
        BY <1>2, <1>3, <2>2, <2>3 DEF ArmFor, AtLeast
    <3>3. fd \in Int BY Longest DEF TimerTypeOK, Off
    <3>4. fd <= ArmFor(n) BY <1>2, <1>3, <2>2, <3>1, <3>2, <3>3, Longest
    <3> QED BY <1>1, <2>1, <3>1, <3>4 DEF Armed
  <2> QED BY <1>1, <2>1, <2>4 DEF TimerTypeOK
<1> QED BY <1>5, <1>6

-----------------------------------------------------------------------------
(* The queue of functions *)

Ops == {"add", "erase"} \X TimerIds

LEMMA PendingPairs ==
    ASSUME TimerTypeOK
    PROVE  /\ pending \in Seq(Ops)
           /\ \A k \in DOMAIN pending :
                 pending[k][1] \in {"add", "erase"} /\ pending[k][2] \in TimerIds
<1>1. pending \in Seq(Ops) BY DEF TimerTypeOK, Ops
<1>2. \A k \in DOMAIN pending : pending[k] \in Ops BY <1>1
<1> QED BY <1>1, <1>2 DEF Ops

LEMMA AppendPending ==
    ASSUME TimerTypeOK, NEW op \in {"add", "erase"}, NEW i \in TimerIds,
           pending' = Append(pending, <<op, i>>)
    PROVE  /\ pending' \in Seq(Ops)
           /\ DOMAIN pending' = DOMAIN pending \cup {Len(pending) + 1}
           /\ Len(pending) + 1 \notin DOMAIN pending
           /\ pending'[Len(pending) + 1] = <<op, i>>
           /\ \A k \in DOMAIN pending : pending'[k] = pending[k]
<1> DEFINE e == <<op, i>>
<1>1. e \in Ops BY DEF Ops
<1>2. pending \in Seq(Ops) BY PendingPairs
<1> HIDE DEF e
<1>3. pending' = Append(pending, e) BY DEF e
<1>4. /\ pending' \in Seq(Ops)
      /\ DOMAIN pending' = DOMAIN pending \cup {Len(pending) + 1}
      /\ Len(pending) + 1 \notin DOMAIN pending
      /\ pending'[Len(pending) + 1] = e
      /\ \A k \in DOMAIN pending : pending'[k] = pending[k]
    BY <1>1, <1>2, <1>3
<1> QED BY <1>4 DEF e

LEMMA TailPending ==
    ASSUME TimerTypeOK, pending # <<>>, pending' = Tail(pending)
    PROVE  /\ pending' \in Seq(Ops) /\ 1 \in DOMAIN pending
           /\ \A k \in DOMAIN pending' : /\ k + 1 \in DOMAIN pending /\ k + 1 # 1
                                         /\ pending'[k] = pending[k + 1]
           /\ DOMAIN pending' \subseteq Nat
<1>1. pending \in Seq(Ops) BY PendingPairs
<1> QED BY <1>1

-----------------------------------------------------------------------------
(* The steps *)

TimerParts == TimerTypeOK /\ IsArmed /\ timers \cap expired = {}
         /\ (~threw => idSet \subseteq timers \cup expired)
         /\ AddedOnce /\ KnownTimers /\ OneShotsDone

LEMMA IInvParts == (TimerInv => TimerParts) /\ (TimerParts' => TimerInv')
BY ArmedMeans DEF TimerInv, TimersKept, ValidTimersKept, TimerParts

LEMMA CreateTypes ==
    ASSUME TimerTypeOK, NEW d \in Delays, NEW every \in BOOLEAN, CreateTimer(d, every)
    PROVE  /\ timersCreated' \in 0..MaxTimers /\ timersCreated + 1 \in TimerIds
           /\ timersCreated' = timersCreated + 1
           /\ timersCreated \in Nat
           /\ rem' \in [TimerIds -> (-MaxLate)..MaxDelay]
           /\ interval' \in [TimerIds -> Delays \cup {0}]
           /\ rem'[timersCreated + 1] = d /\ d \in (-MaxLate)..MaxDelay
           /\ \A j \in TimerIds : j # timersCreated + 1 =>
                 rem'[j] = rem[j] /\ interval'[j] = interval[j]
<1>1. /\ timersCreated + 1 \in TimerIds /\ timersCreated' = timersCreated + 1
      /\ timersCreated' \in 0..MaxTimers
      /\ timersCreated \in Nat
    BY TimerAssumption DEF CreateTimer, TimerTypeOK, TimerIds
<1>2. d \in (-MaxLate)..MaxDelay BY TimerAssumption, Longest
<1>3. rem' = [rem EXCEPT ![timersCreated + 1] = d] BY DEF CreateTimer
<1>4. PICK p \in Delays \cup {0} : interval' = [interval EXCEPT ![timersCreated + 1] = p]
    BY DEF CreateTimer
<1> QED BY <1>1, <1>2, <1>3, <1>4 DEF TimerTypeOK

LEMMA AddElsewhereStep ==
    ASSUME TimerParts, NEW d \in Delays, NEW every \in BOOLEAN, AddTimerElsewhere(d, every)
    PROVE  TimerParts'
<1> USE DEF TimerParts
<1>1. /\ timersCreated' \in 0..MaxTimers /\ timersCreated + 1 \in TimerIds
      /\ timersCreated' = timersCreated + 1
      /\ timersCreated \in Nat
      /\ rem' \in [TimerIds -> (-MaxLate)..MaxDelay]
      /\ interval' \in [TimerIds -> Delays \cup {0}]
      /\ \A j \in TimerIds : j # timersCreated + 1 =>
            rem'[j] = rem[j] /\ interval'[j] = interval[j]
    BY CreateTypes DEF AddTimerElsewhere
<1>2. /\ pending' \in Seq(Ops)
      /\ DOMAIN pending' = DOMAIN pending \cup {Len(pending) + 1}
      /\ Len(pending) + 1 \notin DOMAIN pending
      /\ pending'[Len(pending) + 1] = <<"add", timersCreated + 1>>
      /\ \A k \in DOMAIN pending : pending'[k] = pending[k]
    BY <1>1, AppendPending DEF AddTimerElsewhere
<1>3. UNCHANGED <<timers, idSet, fd, ready, lstate, phase, cur, expired, toRun, lag,
                  threw, fired, asked, erased>>
    BY DEF AddTimerElsewhere
<1>4. TimerTypeOK' BY <1>1, <1>2, <1>3 DEF TimerTypeOK, Ops
<1>5. timersCreated + 1 \notin timers \cup expired \cup idSet \cup erased
    BY <1>1 DEF KnownTimers
<1>6. \A j \in timers \cup toRun : j \in TimerIds /\ j # timersCreated + 1
    BY <1>5 DEF TimerTypeOK, KnownTimers
<1>7. IsArmed' BY <1>1, <1>3, <1>6 DEF IsArmed, Armed
<1>8. KnownTimers'
  <2>1. \A j \in TimerIds : j <= timersCreated => j <= timersCreated' BY <1>1 DEF TimerIds
  <2>2. \A j \in timers' \cup expired' \cup idSet' \cup erased' : j <= timersCreated'
      BY <1>3, <2>1 DEF KnownTimers, TimerTypeOK
  <2>3. \A j \in TimerIds : j > timersCreated' => fired'[j] = 0
      BY <1>1, <1>3 DEF KnownTimers, TimerIds
  <2> QED BY <1>3, <2>2, <2>3 DEF KnownTimers
<1>9. OneShotsDone' BY <1>1, <1>3, <1>6 DEF OneShotsDone
<1>10. AddedOnce'
  <2>1. Additions' = Additions \cup {Len(pending) + 1} BY <1>2 DEF Additions
  <2>2. pending'[Len(pending) + 1][2] = timersCreated + 1 BY <1>2
  <2>3. \A k \in Additions : pending'[k][2] = pending[k][2] /\ pending[k][2] <= timersCreated
                              /\ pending[k][2] \in TimerIds
      BY <1>2, PendingPairs DEF Additions, AddedOnce
  <2>4. \A k \in Additions : pending[k][2] # timersCreated + 1
      BY <1>1, <2>3 DEF TimerIds
  <2>5. fired[timersCreated + 1] = 0 BY <1>1 DEF KnownTimers, TimerIds
  <2>6. \A k \in Additions : pending[k][2] <= timersCreated' BY <1>1, <2>3 DEF TimerIds
  <2> QED BY <1>1, <1>3, <1>5, <2>1, <2>2, <2>3, <2>4, <2>5, <2>6 DEF AddedOnce
<1> QED BY <1>3, <1>4, <1>7, <1>8, <1>9, <1>10
LEMMA InvalidateElsewhereStep ==
    ASSUME TimerParts, NEW i \in TimerIds, InvalidateElsewhere(i)
    PROVE  TimerParts'
<1> USE DEF TimerParts
<1>1. /\ asked' = asked \cup {i}
      /\ UNCHANGED <<timersCreated, rem, interval, timers, idSet, fd, ready, lstate, phase, cur,
                     expired, toRun, lag, threw, fired, erased>>
    BY DEF InvalidateElsewhere
<1>2. IsArmed' /\ KnownTimers' /\ OneShotsDone'
    BY <1>1 DEF IsArmed, KnownTimers, OneShotsDone
<1>3. CASE pending' = pending
    BY <1>1, <1>2, <1>3 DEF TimerTypeOK, AddedOnce, Additions
<1>4. CASE pending' = Append(pending, <<"erase", i>>)
  <2>1. /\ pending' \in Seq(Ops)
        /\ DOMAIN pending' = DOMAIN pending \cup {Len(pending) + 1}
        /\ Len(pending) + 1 \notin DOMAIN pending
        /\ pending'[Len(pending) + 1] = <<"erase", i>>
        /\ \A k \in DOMAIN pending : pending'[k] = pending[k]
      BY <1>4, AppendPending
  <2>2. TimerTypeOK' BY <1>1, <2>1 DEF TimerTypeOK, Ops
  <2>3. Additions' = Additions BY <2>1 DEF Additions
  <2>4. \A k \in Additions : pending'[k] = pending[k] BY <2>1 DEF Additions
  <2>5. AddedOnce' BY <1>1, <2>3, <2>4 DEF AddedOnce
  <2> QED BY <1>1, <1>2, <2>2, <2>5
<1> QED BY <1>3, <1>4 DEF InvalidateElsewhere

LEMMA AddHereStep ==
    ASSUME TimerParts, NEW d \in Delays, NEW every \in BOOLEAN, AddTimerHere(d, every)
    PROVE  TimerParts'
<1> USE DEF TimerParts
<1>1. /\ timersCreated' \in 0..MaxTimers /\ timersCreated + 1 \in TimerIds
      /\ timersCreated' = timersCreated + 1
      /\ timersCreated \in Nat
      /\ rem' \in [TimerIds -> (-MaxLate)..MaxDelay]
      /\ interval' \in [TimerIds -> Delays \cup {0}]
      /\ rem'[timersCreated + 1] = d /\ d \in (-MaxLate)..MaxDelay
      /\ \A j \in TimerIds : j # timersCreated + 1 =>
            rem'[j] = rem[j] /\ interval'[j] = interval[j]
    BY CreateTypes DEF AddTimerHere
<1>2. timersCreated + 1 \notin timers \cup expired \cup idSet \cup erased
    BY <1>1 DEF KnownTimers
<1>3. \A j \in timers \cup toRun : j \in TimerIds /\ j # timersCreated + 1
    BY <1>2 DEF TimerTypeOK, KnownTimers
<1>4. /\ timers' = timers \cup {timersCreated + 1} /\ idSet' = idSet \cup {timersCreated + 1}
      /\ fd' \in {Off} \cup 0..MaxDelay
      /\ phase = "idle" /\ ~threw => Armed(timers', rem', fd')
    BY <1>1, <1>3, AddArms DEF AddTimerHere
<1>5. UNCHANGED <<ready, pending, lstate, phase, cur, expired, toRun, lag, threw,
                  fired, asked, erased>>
    BY DEF AddTimerHere
<1>6. TimerTypeOK' BY <1>1, <1>4, <1>5 DEF TimerTypeOK
<1>7. IsArmed' BY <1>4, <1>5 DEF IsArmed
<1>8. KnownTimers'
  <2>1. \A j \in TimerIds : j <= timersCreated => j <= timersCreated' BY <1>1 DEF TimerIds
  <2>2. \A j \in timers' \cup expired' \cup idSet' \cup erased' : j <= timersCreated'
    <3>1. timersCreated + 1 <= timersCreated' BY <1>1
    <3> QED BY <1>4, <1>5, <2>1, <3>1 DEF KnownTimers, TimerTypeOK
  <2>3. \A j \in TimerIds : j > timersCreated' => fired'[j] = 0
      BY <1>1, <1>5 DEF KnownTimers, TimerIds
  <2> QED BY <1>2, <1>4, <1>5, <2>2, <2>3 DEF KnownTimers
<1>9. OneShotsDone'
  <2>1. fired[timersCreated + 1] = 0 BY <1>1 DEF KnownTimers, TimerIds
  <2> QED BY <1>1, <1>3, <1>4, <1>5, <2>1 DEF OneShotsDone
<1>10. AddedOnce'
  <2>1. \A k \in Additions : pending[k][2] \in TimerIds /\ pending[k][2] <= timersCreated
      BY PendingPairs DEF Additions, AddedOnce
  <2>2. \A k \in Additions : pending[k][2] # timersCreated + 1 /\ pending[k][2] <= timersCreated'
      BY <1>1, <2>1 DEF TimerIds
  <2>3. Additions' = Additions BY <1>5 DEF Additions
  <2> QED BY <1>4, <1>5, <2>2, <2>3 DEF AddedOnce
<1> QED BY <1>2, <1>4, <1>5, <1>6, <1>7, <1>8, <1>9, <1>10

\* Erasing a timer from timerIdSet_, in the loop thread or in a function.
LEMMA EraseStep ==
    ASSUME TimerParts, NEW i \in TimerIds, Erase(i), asked' \in SUBSET TimerIds,
           \/ pending' = pending
           \/ pending # <<>> /\ pending' = Tail(pending) /\ pending[1][2] = i,
           UNCHANGED <<timersCreated, rem, interval, timers, fd, ready, lstate, phase,
                       cur, expired, toRun, lag, threw, fired>>
    PROVE  TimerParts'
<1> USE DEF TimerParts
<1>1. /\ idSet' = idSet \ {i}
      /\ \/ erased' = erased
         \/ i \in idSet /\ erased' = erased \cup {i}
    BY DEF Erase
<1>2. pending' \in Seq(Ops) BY PendingPairs, TailPending
<1>3. TimerTypeOK' BY <1>1, <1>2 DEF TimerTypeOK, Ops
<1>4. IsArmed' /\ OneShotsDone' BY DEF IsArmed, OneShotsDone
<1>5. KnownTimers' BY <1>1 DEF KnownTimers
<1>6. AddedOnce'
  <2>1. idSet' \cup erased' \subseteq idSet \cup erased BY <1>1
  <2>2. CASE pending' = pending BY <2>1, <2>2 DEF AddedOnce, Additions
  <2>3. CASE pending # <<>> /\ pending' = Tail(pending)
    <3>1. \A k \in DOMAIN pending' : /\ k + 1 \in DOMAIN pending /\ k \in Nat
                                     /\ pending'[k] = pending[k + 1]
        BY <2>3, TailPending
    <3>2. \A k \in Additions' : k + 1 \in Additions /\ pending'[k] = pending[k + 1] /\ k \in Nat
        BY <3>1 DEF Additions
    <3>3. \A k, l \in Additions' : k + 1 = l + 1 => k = l BY <3>2
    <3> QED BY <2>1, <3>2, <3>3 DEF AddedOnce
  <2> QED BY <2>2, <2>3
<1> QED BY <1>1, <1>3, <1>4, <1>5, <1>6

LEMMA InvalidateHereStep ==
    ASSUME TimerParts, NEW i \in TimerIds, InvalidateHere(i)
    PROVE  TimerParts'
<1>1. /\ asked' = asked \cup {i}
      /\ UNCHANGED <<timersCreated, rem, interval, timers, fd, ready, pending, lstate, phase,
                     cur, expired, toRun, lag, threw, fired>>
    BY DEF InvalidateHere
<1>2. asked' \in SUBSET TimerIds BY <1>1 DEF TimerParts, TimerTypeOK
<1>3. CASE Erase(i) BY <1>1, <1>2, <1>3, EraseStep
<1>4. CASE UNCHANGED <<idSet, erased>>
    BY <1>1, <1>2, <1>4
    DEF TimerParts, TimerTypeOK, IsArmed, AddedOnce, Additions, KnownTimers, OneShotsDone
<1> QED BY <1>3, <1>4 DEF InvalidateHere

LEMMA RunFuncStep ==
    ASSUME TimerParts, RunFunc
    PROVE  TimerParts'
<1> USE DEF TimerParts
<1> DEFINE i == pending[1][2]
<1>1. /\ phase = "idle" /\ pending # <<>> /\ pending' = Tail(pending)
      /\ \/ pending[1][1] = "add" /\ AddTimerInLoop(i, rem[i]) /\ erased' = erased
         \/ pending[1][1] = "erase" /\ Erase(i) /\ UNCHANGED <<timers, fd>>
      /\ UNCHANGED <<timersCreated, rem, interval, ready, lstate, phase, cur, expired, toRun,
                     lag, threw, fired, asked>>
    BY DEF RunFunc
<1>2. /\ pending' \in Seq(Ops) /\ 1 \in DOMAIN pending
      /\ \A k \in DOMAIN pending' : /\ k + 1 \in DOMAIN pending /\ k + 1 # 1
                                    /\ pending'[k] = pending[k + 1] /\ k \in Nat
    BY <1>1, TailPending
<1>3. i \in TimerIds BY <1>2, PendingPairs
<1> HIDE DEF i
<1>4. CASE Erase(i) /\ UNCHANGED <<timers, fd>>
  <2>1. asked' \in SUBSET TimerIds BY <1>1 DEF TimerTypeOK
  <2> QED BY <1>1, <1>3, <1>4, <2>1, EraseStep DEF i
<1>5. CASE pending[1][1] = "add" /\ AddTimerInLoop(i, rem[i]) /\ erased' = erased
  <2>1. 1 \in Additions BY <1>2, <1>5 DEF Additions
  <2>2. /\ i <= timersCreated /\ fired[i] = 0
        /\ i \notin timers \cup expired \cup idSet \cup erased
        /\ \A l \in Additions : pending[l][2] = i => l = 1
      BY <2>1 DEF AddedOnce, i
  <2>3. rem[i] \in (-MaxLate)..MaxDelay /\ rem \in [TimerIds -> (-MaxLate)..MaxDelay]
      BY <1>3 DEF TimerTypeOK
  <2>4. /\ timers' = timers \cup {i} /\ idSet' = idSet \cup {i}
        /\ fd' \in {Off} \cup 0..MaxDelay
        /\ phase = "idle" /\ ~threw => Armed(timers', rem, fd')
      BY <1>3, <1>5, <2>3, AddArms
  <2>5. TimerTypeOK' BY <1>1, <1>2, <1>3, <1>5, <2>4 DEF TimerTypeOK, Ops
  <2>6. IsArmed' BY <1>1, <2>4 DEF IsArmed
  <2>7. KnownTimers' BY <1>1, <1>5, <2>2, <2>4 DEF KnownTimers
  <2>8. OneShotsDone' BY <1>1, <2>2, <2>4 DEF OneShotsDone
  <2>9. AddedOnce'
    <3>1. \A k \in Additions' : /\ k + 1 \in Additions /\ k + 1 # 1 /\ k \in Nat
                                /\ pending'[k] = pending[k + 1]
        BY <1>2 DEF Additions
    <3>2. \A k, l \in Additions' : k + 1 = l + 1 => k = l BY <3>1
    <3>3. \A k \in Additions' : pending'[k][2] # i BY <2>2, <3>1
    <3>4. ASSUME NEW k \in Additions'
          PROVE  /\ pending'[k][2] <= timersCreated' /\ fired'[pending'[k][2]] = 0
                 /\ pending'[k][2] \notin timers' \cup expired' \cup idSet' \cup erased'
      <4> DEFINE j == pending[k + 1][2]
      <4>1. /\ j <= timersCreated /\ fired[j] = 0
            /\ j \notin timers \cup expired \cup idSet \cup erased
          BY <3>1 DEF AddedOnce
      <4>2. pending'[k][2] = j /\ j # i BY <3>1, <3>3
      <4> HIDE DEF j
      <4> QED BY <1>1, <1>5, <2>4, <4>1, <4>2
    <3>5. ASSUME NEW k \in Additions', NEW l \in Additions', pending'[l][2] = pending'[k][2]
          PROVE  l = k
        BY <3>1, <3>2, <3>5 DEF AddedOnce
    <3> QED BY <3>4, <3>5, Zenon DEF AddedOnce
  <2>10. timers' \cap expired' = {} BY <1>1, <2>2, <2>4
  <2>11. ~threw' => idSet' \subseteq timers' \cup expired' BY <1>1, <2>4
  <2> QED BY <2>5, <2>6, <2>7, <2>8, <2>9, <2>10, <2>11
<1> QED BY <1>1, <1>4, <1>5 DEF i
LEMMA HandleBeginStep ==
    ASSUME TimerParts, HandleBegin
    PROVE  TimerParts'
<1> USE DEF TimerParts
<1> DEFINE due == {i \in timers : rem[i] < 0}
<1>1. /\ phase = "idle" /\ ReadTimerfd /\ ready' = FALSE /\ phase' = "calling" /\ lag' = 0
      /\ expired' = due /\ toRun' = due /\ timers' = timers \ due
      /\ UNCHANGED <<timersCreated, rem, interval, idSet, pending, lstate, cur, threw,
                     fired, asked, erased>>
    BY DEF HandleBegin
<1>2. due \subseteq timers /\ expired = {} BY <1>1 DEF KnownTimers
<1> HIDE DEF due
<1>3. 0 \in 0..(MaxDelay + MaxLate) BY Longest, TimerAssumption
<1>4. TimerTypeOK'
  <2>1. fd' \in {Off} \cup 0..MaxDelay BY <1>1 DEF ReadTimerfd, TimerTypeOK
  <2>2. ready' \in BOOLEAN BY <1>1
  <2> QED BY <1>1, <1>2, <1>3, <2>1, <2>2 DEF TimerTypeOK
<1>5. timers' \cup expired' = timers BY <1>1, <1>2
<1>6. IsArmed' BY <1>1 DEF IsArmed
<1>7. KnownTimers' BY <1>1, <1>2 DEF KnownTimers
<1>8. OneShotsDone' BY <1>1, <1>2 DEF OneShotsDone
<1>9. AddedOnce' BY <1>1, <1>2, <1>5 DEF AddedOnce, Additions
<1> QED BY <1>1, <1>2, <1>4, <1>5, <1>6, <1>7, <1>8, <1>9

LEMMA CallNextStep ==
    ASSUME TimerParts, NEW i \in TimerIds, CallNext(i)
    PROVE  TimerParts'
<1> USE DEF TimerParts
<1>1. /\ phase = "calling" /\ i \in toRun /\ toRun' = toRun \ {i} /\ phase' # "idle"
      /\ UNCHANGED <<timersCreated, rem, interval, timers, idSet, fd, ready, pending, lstate,
                     expired, lag, threw, asked, erased>>
    BY DEF CallNext
<1>2. /\ phase' \in {"idle", "calling", "callback"} /\ cur' \in TimerIds \cup {0}
      /\ fired' \in [TimerIds -> 0..MaxFired]
      /\ \A j \in TimerIds : j # i => fired'[j] = fired[j]
  <2>1. CASE UNCHANGED <<phase, cur, fired>> BY <2>1 DEF TimerTypeOK
  <2>2. CASE /\ phase' = "callback" /\ cur' = i
             /\ fired' = [fired EXCEPT ![i] = AtMost(@ + 1, MaxFired)]
    <3>1. AtMost(fired[i] + 1, MaxFired) \in 0..MaxFired
        BY TimerAssumption DEF TimerTypeOK, AtMost
    <3> QED BY <2>2, <3>1 DEF TimerTypeOK
  <2> QED BY <2>1, <2>2 DEF CallNext
<1>3. i \in expired /\ i \notin timers /\ i <= timersCreated BY <1>1 DEF KnownTimers
<1>4. TimerTypeOK' BY <1>1, <1>2 DEF TimerTypeOK
<1>5. IsArmed' BY <1>1 DEF IsArmed
<1>6. KnownTimers'
  <2>1. \A j \in TimerIds : j > timersCreated => j # i BY <1>3 DEF TimerTypeOK, TimerIds
  <2> QED BY <1>1, <1>2, <2>1 DEF KnownTimers
<1>7. OneShotsDone' BY <1>1, <1>2, <1>3 DEF OneShotsDone, TimerTypeOK
<1>8. AddedOnce'
  <2>1. \A k \in Additions : pending[k][2] # i /\ pending[k][2] \in TimerIds
      BY <1>3, PendingPairs DEF AddedOnce, Additions
  <2> QED BY <1>1, <1>2, <2>1 DEF AddedOnce, Additions
<1> QED BY <1>1, <1>4, <1>5, <1>6, <1>7, <1>8

LEMMA CallbackEndsStep ==
    ASSUME TimerParts, CallbackReturns \/ CallbackThrows
    PROVE  TimerParts'
<1> USE DEF TimerParts
<1>1. CASE CallbackReturns
    BY <1>1
    DEF CallbackReturns, TimerTypeOK, IsArmed, KnownTimers, OneShotsDone, AddedOnce, Additions
<1>2. CASE CallbackThrows
  <2>1. /\ phase' = "idle" /\ cur' = 0 /\ expired' = {} /\ toRun' = {}
        /\ lstate' = "out" /\ threw'
        /\ lag' = 0
        /\ UNCHANGED <<timersCreated, rem, interval, timers, idSet, fd, ready, pending,
                       fired, asked, erased>>
      BY <1>2 DEF CallbackThrows
  <2>2. lag' \in 0..(MaxDelay + MaxLate) BY <2>1, TimerAssumption, Longest
  <2>3. TimerTypeOK' BY <2>1, <2>2 DEF TimerTypeOK
  <2>4. IsArmed' /\ KnownTimers' /\ OneShotsDone' /\ AddedOnce'
      BY <2>1 DEF IsArmed, KnownTimers, OneShotsDone, AddedOnce, Additions
  <2> QED BY <2>1, <2>3, <2>4
<1> QED BY <1>1, <1>2

LEMMA HandleEndStep ==
    ASSUME TimerParts, HandleEnd
    PROVE  TimerParts'
<1> USE DEF TimerParts
<1>1. PICK again \in SUBSET expired :
          /\ PutBack(again)
          /\ rem' = [i \in TimerIds |-> IF i \in again THEN Restarted(i) ELSE rem[i]]
          /\ timers' = timers \cup again
          /\ idSet' = StillValid(again)
          /\ fd' = Rearm(timers', rem', again)
    BY DEF HandleEnd
<1>2. /\ toRun = {} /\ phase' = "idle" /\ expired' = {}
      /\ lag' = 0
      /\ UNCHANGED <<timersCreated, interval, ready, pending, lstate, cur, toRun, threw,
                     fired, asked, erased>>
    BY DEF HandleEnd
<1>3. /\ again \subseteq idSet /\ \A i \in again : interval[i] # 0
      /\ idSet' = idSet \ (expired \ again)
    BY <1>1 DEF PutBack, StillValid, TimerTypeOK
<1>4. rem' \in [TimerIds -> (-MaxLate)..MaxDelay]
  <2>1. \A i \in TimerIds : Restarted(i) \in (-MaxLate)..MaxDelay
    <3> TAKE i \in TimerIds
    <3>1. interval[i] \in 0..MaxDelay /\ lag \in Nat
      <4>1. interval[i] \in Delays \cup {0} /\ lag \in 0..(MaxDelay + MaxLate) BY DEF TimerTypeOK
      <4>2. \A d \in Delays \cup {0} : d \in 0..MaxDelay BY Longest
      <4>3. interval[i] \in 0..MaxDelay BY <4>1, <4>2, Zenon
      <4>4. lag \in Nat BY <4>1, Longest, TimerAssumption
      <4> QED BY <4>3, <4>4
    <3>2. interval[i] - lag \in Int /\ interval[i] - lag <= MaxDelay BY <3>1, Longest
    <3> QED BY <3>2, TimerAssumption, Longest DEF Restarted, AtLeast
  <2> QED BY <1>1, <2>1 DEF TimerTypeOK
<1>5. timers' \in SUBSET TimerIds BY <1>1 DEF TimerTypeOK
<1>6. /\ fd' \in {Off} \cup 0..MaxDelay
      /\ timers' # {} => Armed(timers', rem', fd')
  <2>1. fd \in {Off} \cup 0..MaxDelay BY DEF TimerTypeOK
  <2> QED BY <1>1, <1>4, <1>5, <2>1, ArmForTopArms DEF Rearm
<1>7. TimerTypeOK'
  <2>1. lag' \in 0..(MaxDelay + MaxLate) BY <1>2, TimerAssumption, Longest
  <2> QED BY <1>2, <1>3, <1>4, <1>5, <1>6, <2>1 DEF TimerTypeOK
<1>8. IsArmed' BY <1>6 DEF IsArmed
<1>9. KnownTimers' BY <1>1, <1>2, <1>3 DEF KnownTimers
<1>10. OneShotsDone' BY <1>1, <1>2, <1>3 DEF OneShotsDone
<1>11. AddedOnce'
  <2>1. timers' \cup expired' \cup idSet' \cup erased'
           \subseteq timers \cup expired \cup idSet \cup erased
      BY <1>1, <1>2, <1>3
  <2> QED BY <1>2, <2>1 DEF AddedOnce, Additions
<1> QED BY <1>1, <1>2, <1>3, <1>7, <1>8, <1>9, <1>10, <1>11

LEMMA TickStep ==
    ASSUME TimerParts, Tick
    PROVE  TimerParts'
<1> USE DEF TimerParts
<1>1. UNCHANGED <<timersCreated, interval, timers, idSet, ready, pending, lstate, phase, cur,
                  expired, toRun, threw, fired, asked, erased>>
    BY DEF Tick
<1>2. \A i \in TimerIds : rem[i] \in Int /\ rem[i] >= -MaxLate /\ rem[i] <= MaxDelay
    BY TimerAssumption, Longest DEF TimerTypeOK
<1>3. \A i \in TimerIds : AtLeast(rem[i] - 1, -MaxLate) \in (-MaxLate)..MaxDelay
    BY <1>2, TimerAssumption, Longest DEF AtLeast
<1>4. rem' \in [TimerIds -> (-MaxLate)..MaxDelay] BY <1>3 DEF Tick, TimerTypeOK
<1>5. lag' \in 0..(MaxDelay + MaxLate)
  <2>1. lag \in 0..(MaxDelay + MaxLate) /\ MaxDelay + MaxLate \in Nat
      BY TimerAssumption, Longest DEF TimerTypeOK
  <2>2. AtMost(lag + 1, MaxDelay + MaxLate) \in 0..(MaxDelay + MaxLate)
      BY <2>1 DEF AtMost
  <2> QED BY <2>1, <2>2 DEF Tick
<1>6. fd' \in {Off} \cup 0..MaxDelay BY Longest DEF Tick, TimerTypeOK, Off
<1>7. TimerTypeOK' BY <1>1, <1>4, <1>5, <1>6 DEF TimerTypeOK
<1>8. IsArmed'
  <2> SUFFICES ASSUME timers # {}, phase = "idle", ~threw PROVE Armed(timers, rem', fd')
      BY <1>1 DEF IsArmed
  <2>1. fd # Off /\ \A j \in timers : fd <= ArmFor(rem[j]) BY DEF IsArmed, Armed
  <2>2. fd \in 0..MaxDelay BY <2>1 DEF TimerTypeOK
  <2>3. fd' # Off BY <2>2, Longest DEF Tick, Off
  <2>4. ASSUME NEW j \in timers PROVE fd' <= ArmFor(rem'[j])
    <3>1. j \in TimerIds /\ j <= timersCreated BY DEF TimerTypeOK, KnownTimers
    <3>2. rem'[j] = AtLeast(rem[j] - 1, -MaxLate) BY <3>1 DEF Tick
    <3>3. fd <= ArmFor(rem[j]) BY <2>1
    <3>4. fd' = IF fd > 0 THEN fd - 1 ELSE fd BY DEF Tick
    <3> QED BY <1>2, <2>2, <3>1, <3>2, <3>3, <3>4, TimerAssumption, Longest
            DEF ArmFor, AtLeast
  <2> QED BY <2>3, <2>4 DEF Armed
<1>9. KnownTimers' /\ OneShotsDone' /\ AddedOnce'
    BY <1>1 DEF KnownTimers, OneShotsDone, AddedOnce, Additions
<1> QED BY <1>1, <1>7, <1>8, <1>9

LEMMA PollReportsStep ==
    ASSUME TimerParts, PollReports
    PROVE  TimerParts'
<1>1. /\ ready' \in BOOLEAN
      /\ UNCHANGED <<timersCreated, rem, interval, timers, idSet, fd, pending, lstate,
                     phase, cur, expired, toRun, lag, threw, fired, asked, erased>>
    BY DEF PollReports
<1> QED BY <1>1 DEF TimerParts, TimerTypeOK, IsArmed, KnownTimers, OneShotsDone, AddedOnce,
                    Additions

LEMMA LoopPhaseStep ==
    ASSUME TimerParts, \/ LoopStart \/ LoopQuit \/ LoopExit
           \/ ResetTimerQueue \/ UNCHANGED timerVars
    PROVE  TimerParts'
<1> USE DEF TimerParts
<1>1. UNCHANGED <<timersCreated, rem, interval, timers, idSet, ready, pending, phase,
                  cur, expired, toRun, lag, threw, fired, asked, erased>>
    BY DEF LoopStart, LoopQuit, LoopExit, ResetTimerQueue, timerVars
<1>2. lstate' \in {"out", "in", "quitting"}
    BY DEF LoopStart, LoopQuit, LoopExit, ResetTimerQueue, timerVars, TimerTypeOK
<1>3. /\ fd' \in {Off} \cup 0..MaxDelay
      /\ fd' = fd \/ (timers # {} => Armed(timers, rem, fd'))
  <2>1. CASE ResetTimerQueue
    <3>1. Off \in {Off} \cup 0..MaxDelay OBVIOUS
    <3>2. timers \in SUBSET TimerIds /\ rem \in [TimerIds -> (-MaxLate)..MaxDelay]
        BY DEF TimerTypeOK
    <3>3. fd' = ArmForTop(timers, rem, Off) BY <2>1 DEF ResetTimerQueue
    <3> QED BY <3>1, <3>2, <3>3, ArmForTopArms
  <2>2. CASE fd' = fd BY <2>2 DEF TimerTypeOK
  <2> QED BY <2>1, <2>2 DEF LoopStart, LoopQuit, LoopExit, timerVars
<1>4. TimerTypeOK' BY <1>1, <1>2, <1>3 DEF TimerTypeOK
<1>5. IsArmed' BY <1>1, <1>3 DEF IsArmed
<1>6. KnownTimers' /\ OneShotsDone' /\ AddedOnce'
    BY <1>1 DEF KnownTimers, OneShotsDone, AddedOnce, Additions
<1> QED BY <1>1, <1>4, <1>5, <1>6

-----------------------------------------------------------------------------
(* The theorems *)

\* The inductive invariant: besides TimersKept, a timer is added once and a
\* one-shot timer that was called is out of the heap.
THEOREM TimerInvariance == TimerSpec => []TimerInv
<1>1. TimerInit => TimerInv
  <2> SUFFICES ASSUME TimerInit PROVE TimerInv OBVIOUS
  <2>1. 0 \in 0..MaxTimers /\ 0 \in (-MaxLate)..MaxDelay /\ 0 \in 0..(MaxDelay + MaxLate)
        /\ 0 \in 0..MaxFired
      BY TimerAssumption, Longest
  <2>2. TimerTypeOK
    <3>1. /\ rem \in [TimerIds -> (-MaxLate)..MaxDelay]
          /\ interval \in [TimerIds -> Delays \cup {0}]
          /\ fired \in [TimerIds -> 0..MaxFired]
        BY <2>1 DEF TimerInit
    <3>2. /\ pending \in Seq({"add", "erase"} \X TimerIds) /\ fd \in {Off} \cup 0..MaxDelay
          /\ timers \in SUBSET TimerIds /\ idSet \in SUBSET TimerIds /\ expired \in SUBSET TimerIds
          /\ toRun \in SUBSET TimerIds /\ asked \in SUBSET TimerIds /\ erased \in SUBSET TimerIds
        BY DEF TimerInit
    <3> QED BY <2>1, <3>1, <3>2, Zenon DEF TimerInit, TimerTypeOK
  <2>3. TimersKept BY <2>2 DEF TimerInit, TimersKept, TimerfdArmed, ValidTimersKept
  <2>4. AddedOnce BY DEF TimerInit, AddedOnce, Additions
  <2> QED BY <2>3, <2>4 DEF TimerInit, TimerInv, KnownTimers, OneShotsDone
<1>2. TimerInv /\ [TimerNext]_timerVars => TimerInv'
  <2> SUFFICES ASSUME TimerParts, [TimerNext]_timerVars PROVE TimerParts' BY IInvParts
  <2> QED BY AddElsewhereStep, InvalidateElsewhereStep, AddHereStep, InvalidateHereStep,
             RunFuncStep, PollReportsStep, HandleBeginStep, CallNextStep, CallbackEndsStep, HandleEndStep,
             TickStep, LoopPhaseStep
          DEF TimerNext, Calls, TimerStep
<1> QED BY <1>1, <1>2, PTL DEF TimerSpec

\* TimerQueue: no timer is lost, and the timerfd is armed for the earliest.
THEOREM NoTimerLost == TimerSpec => []TimersKept
<1>1. TimerInv => TimersKept BY DEF TimerInv
<1> QED BY <1>1, TimerInvariance, PTL

\* handleRead begins no callback of a timer the loop thread has erased, and
\* that of a one-shot timer once.
THEOREM NoStaleCallback == TimerSpec => NoStaleCall
<1>1. ASSUME TimerInv, [TimerNext]_timerVars
      PROVE  [cur' # cur /\ cur' \in TimerIds =>
                 cur' \notin erased /\ (interval[cur'] = 0 => fired[cur'] = 0)]_timerVars
  <2> SUFFICES ASSUME cur' # cur, cur' \in TimerIds
               PROVE  cur' \notin erased /\ (interval[cur'] = 0 => fired[cur'] = 0)
      OBVIOUS
  <2>1. PICK i \in TimerIds : CallNext(i)
    <3>1. cur' # 0 BY TimerAssumption DEF TimerIds
    <3> QED BY <1>1, <3>1 DEF TimerNext, Calls, TimerStep, AddTimerElsewhere, AddTimerHere,
            InvalidateElsewhere, InvalidateHere, RunFunc, PollReports, HandleBegin, HandleEnd,
            CallbackReturns, CallbackThrows, LoopStart, LoopQuit, LoopExit,
            ResetTimerQueue, Tick, timerVars
  <2>2. cur' = i /\ i \in idSet /\ i \in toRun BY <2>1 DEF CallNext
  <2> QED BY <1>1, <2>2 DEF TimerInv, KnownTimers, OneShotsDone
<1> QED BY <1>1, TimerInvariance, PTL DEF TimerSpec, NoStaleCall

-----------------------------------------------------------------------------
(* Arithmetic of the timing wheels *)

\* What holds for 0 and for the next number holds up to m.
LEMMA CountedUp ==
    ASSUME NEW m \in Nat, NEW S, 0 \in S, \A n \in 0..(m - 1) : n \in S => n + 1 \in S
    PROVE  \A n \in 0..m : n \in S
<1> DEFINE T == {n \in 0..m : n \notin S}
<1> SUFFICES ASSUME T # {} PROVE FALSE OBVIOUS
<1>1. T \subseteq Nat OBVIOUS
<1>2. PICK x \in T : \A y \in T : x <= y BY <1>1, LeastNatural
<1>3. x \in 1..m /\ x - 1 \in 0..(m - 1) /\ ~(x <= x - 1) /\ (x - 1) + 1 = x BY <1>2
<1>4. (x - 1) + 1 \in S BY <1>2, <1>3
<1> QED BY <1>2, <1>3, <1>4

\* Quotient and remainder are the only ones.
Splits(x, y, q, r) ==
    /\ x \in Int /\ y \in Nat \ {0} /\ q \in Int /\ r \in 0..(y - 1)
    /\ x = (y * q) + r

LEMMA Division ==
    ASSUME NEW x, NEW y, NEW q, NEW r, Splits(x, y, q, r)
    PROVE  x \div y = q /\ x % y = r
<1> USE DEF Splits
<1> DEFINE p == x \div y
           t == x % y
<1>1. p \in Int /\ t \in 0..(y - 1) /\ (y * p) + t = (y * q) + r OBVIOUS
<1> HIDE DEF p, t
<1>2. ASSUME p < q PROVE FALSE
  <2>1. p + 1 <= q BY <1>1, <1>2
  <2>2. y * (p + 1) <= y * q BY <1>1, <2>1
  <2>3. y * (p + 1) = (y * p) + y BY <1>1
  <2> QED BY <1>1, <2>2, <2>3
<1>3. ASSUME q < p PROVE FALSE
  <2>1. q + 1 <= p BY <1>1, <1>3
  <2>2. y * (q + 1) <= y * p BY <1>1, <2>1
  <2>3. y * (q + 1) = (y * q) + y BY <1>1
  <2> QED BY <1>1, <2>2, <2>3
<1>4. p = q BY <1>1, <1>2, <1>3
<1>5. t = r BY <1>1, <1>4
<1> QED BY <1>4, <1>5 DEF p, t

LEMMA DivisionParts ==
    ASSUME NEW x \in Int, NEW y \in Nat \ {0}
    PROVE  /\ x \div y \in Int /\ x % y \in 0..(y - 1)
           /\ x = (y * (x \div y)) + (x % y)
           /\ x \in Nat => x \div y \in Nat
OBVIOUS

\* The digits of t: dividing by p and then by b is dividing by b times p.
LEMMA NextDigit ==
    ASSUME NEW t \in Nat, NEW p \in Nat \ {0}, NEW b \in Nat \ {0}
    PROVE  /\ t \div p = (b * (t \div (b * p))) + ((t \div p) % b)
           /\ t % (b * p) = (p * ((t \div p) % b)) + (t % p)
<1> DEFINE q == t \div p
           r == t % p
<1>1. q \in Nat /\ r \in 0..(p - 1) /\ t = (p * q) + r OBVIOUS
<1> HIDE DEF q, r
<1> DEFINE u == q \div b
           a == q % b
<1>2. u \in Nat /\ a \in 0..(b - 1) /\ q = (b * u) + a BY <1>1
<1> HIDE DEF u, a
<1> DEFINE y == b * p
           z == (p * a) + r
<1>3. y \in Nat \ {0} OBVIOUS
<1>4. z \in 0..(y - 1)
  <2>1. p * a <= p * (b - 1) BY <1>2
  <2>2. p * (b - 1) = (b * p) - p OBVIOUS
  <2>3. p * a \in Nat BY <1>2
  <2> QED BY <1>1, <2>1, <2>2, <2>3
<1>5. t = (y * u) + z
  <2>1. p * ((b * u) + a) = ((b * p) * u) + (p * a) BY <1>2
  <2>2. p * q = (y * u) + (p * a) BY <1>2, <2>1
  <2>3. p * a \in Int /\ y * u \in Int /\ r \in Int BY <1>1, <1>2
  <2> HIDE DEF y
  <2> QED BY <1>1, <2>2, <2>3
<1>6. Splits(t, y, u, z) BY <1>2, <1>3, <1>4, <1>5 DEF Splits
<1> HIDE DEF y, z
<1>7. t \div y = u /\ t % y = z BY <1>6, Division
<1>8. t \div p = q /\ t % p = r /\ q % b = a BY DEF q, r, a
<1> QED BY <1>2, <1>7, <1>8 DEF y, z

\* A turn of the first k wheels takes so many ticks.
TurnOf(k) == Pow[k]

\* Pow up to the turn of n wheels.
PowTo(n, f) == f = [k \in 0..n |-> IF k = 0 THEN 1 ELSE Buckets * f[k - 1]]

LEMMA PowIs ==
    /\ Pow[0] = 1
    /\ \A k \in 1..MaxTimeout : Pow[k] = Buckets * Pow[k - 1]
<1> DEFINE Has(n) == \E f : PowTo(n, f)
           S == {n \in 0..MaxTimeout : Has(n)}
<1>1. MaxTimeout \in Nat BY WheelAssumption
<1>2. 0 \in S
  <2> DEFINE f == [k \in 0..0 |-> 1]
  <2>1. PowTo(0, f) BY DEF PowTo
  <2> HIDE DEF f
  <2>2. Has(0) BY Zenon, <2>1
  <2> HIDE DEF Has
  <2> QED BY <1>1, <2>2
<1>3. ASSUME NEW n \in 0..(MaxTimeout - 1), n \in S PROVE n + 1 \in S
  <2>1. PICK f : PowTo(n, f) BY <1>3
  <2> DEFINE m == n + 1
             g == [k \in 0..m |-> IF k = m THEN Buckets * f[n] ELSE f[k]]
  <2>2. m \in 0..MaxTimeout /\ m # 0 /\ m - 1 = n BY <1>1
  <2>3. ASSUME NEW k \in 0..m PROVE g[k] = IF k = 0 THEN 1 ELSE Buckets * g[k - 1]
    <3>1. CASE k = m BY <2>2, <3>1
    <3>2. CASE k # m
      <4>1. k \in 0..n /\ g[k] = f[k] /\ (k # 0 => k - 1 \in 0..m /\ k - 1 # m)
          BY <3>2
      <4>2. f[k] = IF k = 0 THEN 1 ELSE Buckets * f[k - 1] BY <2>1, <4>1 DEF PowTo
      <4>3. k # 0 => g[k - 1] = f[k - 1] BY <4>1
      <4> QED BY <4>1, <4>2, <4>3
    <3> QED BY <3>1, <3>2
  <2>4. PowTo(m, g) BY <2>3 DEF PowTo
  <2> HIDE DEF g, m
  <2>5. Has(m) BY Zenon, <2>4
  <2> HIDE DEF Has
  <2> QED BY <2>2, <2>5 DEF m
<1> HIDE DEF S
<1>4. MaxTimeout \in S BY <1>1, <1>2, <1>3, CountedUp
<1>5. Pow = CHOOSE f : PowTo(MaxTimeout, f) BY DEF Pow, PowTo
<1>6. PowTo(MaxTimeout, Pow) BY <1>4, <1>5 DEF S
<1>7. \A k \in 0..MaxTimeout : Pow[k] = IF k = 0 THEN 1 ELSE Buckets * Pow[k - 1]
    BY <1>6 DEF PowTo
<1> HIDE DEF Pow
<1>8. 0 \in 0..MaxTimeout /\ \A k \in 1..MaxTimeout : k \in 0..MaxTimeout /\ k # 0
    BY <1>1
<1> QED BY <1>7, <1>8

LEMMA Turns ==
    /\ TurnOf(0) = 1
    /\ \A k \in 0..MaxTimeout : TurnOf(k) \in Nat \ {0} /\ k < TurnOf(k)
    /\ \A k \in 0..(MaxTimeout - 1) : TurnOf(k + 1) = Buckets * TurnOf(k)
<1> USE WheelAssumption
<1>1. TurnOf(0) = 1 BY PowIs DEF TurnOf
<1>2. ASSUME NEW k \in 0..(MaxTimeout - 1) PROVE TurnOf(k + 1) = Buckets * TurnOf(k)
  <2>1. k + 1 \in 1..MaxTimeout /\ (k + 1) - 1 = k OBVIOUS
  <2> QED BY <2>1, PowIs DEF TurnOf
<1> DEFINE S == {k \in 0..MaxTimeout : TurnOf(k) \in Nat \ {0} /\ k < TurnOf(k)}
<1>3. 0 \in S BY <1>1
<1>4. ASSUME NEW k \in 0..(MaxTimeout - 1), k \in S PROVE k + 1 \in S
  <2> DEFINE p == TurnOf(k)
             n == TurnOf(k + 1)
  <2>1. p \in Nat \ {0} /\ k < p /\ n = Buckets * p BY <1>2, <1>4
  <2> HIDE DEF p, n
  <2>2. 2 * p <= Buckets * p BY <2>1
  <2>3. n \in Nat \ {0} /\ k + 1 < n BY <2>1, <2>2
  <2> QED BY <2>3 DEF n
<1>5. \A k \in 0..MaxTimeout : k \in S
  <2> HIDE DEF S
  <2> QED BY <1>3, <1>4, CountedUp
<1> QED BY <1>1, <1>2, <1>5

\* There are wheels enough for the longest timeout.
LEMMA EnoughWheels == WheelsNum \in 1..MaxTimeout /\ MaxTimeout <= TurnOf(WheelsNum)
<1> USE WheelAssumption
<1> DEFINE T == {n \in 1..MaxTimeout : TurnOf(n) >= MaxTimeout}
<1>1. MaxTimeout \in T BY Turns
<1>2. PICK n \in T : \A k \in T : n <= k
  <2>1. T \subseteq Nat /\ T # {} BY <1>1
  <2> HIDE DEF T
  <2> QED BY <2>1, LeastNatural
<1>3. ASSUME NEW k \in 1..(n - 1) PROVE TurnOf(k) < MaxTimeout
  <2>1. k \in 1..MaxTimeout /\ ~(n <= k) BY <1>2
  <2>2. TurnOf(k) \in Nat BY <2>1, Turns
  <2> QED BY <1>2, <2>1, <2>2
<1>4. /\ n \in 1..MaxTimeout /\ Pow[n] >= MaxTimeout
      /\ \A k \in 1..(n - 1) : Pow[k] < MaxTimeout
    BY <1>2, <1>3 DEF TurnOf
<1>5. WheelsNum \in 1..MaxTimeout /\ Pow[WheelsNum] >= MaxTimeout
    BY <1>4 DEF WheelsNum
<1>6. TurnOf(WheelsNum) \in Nat BY <1>5, Turns
<1> QED BY <1>5, <1>6 DEF TurnOf

\* A turn of more wheels is many turns of fewer.
LEMMA TurnOfTurns ==
    \A n \in 0..MaxTimeout : \A k \in 0..n :
        \E c \in Nat \ {0} : TurnOf(n) = TurnOf(k) * c
<1> USE WheelAssumption
<1> DEFINE Many(n, k) == \E c \in Nat \ {0} : TurnOf(n) = TurnOf(k) * c
           S == {n \in 0..MaxTimeout : \A k \in 0..n : Many(n, k)}
<1>1. ASSUME NEW n \in 0..MaxTimeout PROVE Many(n, n)
  <2>1. TurnOf(n) = TurnOf(n) * 1 BY Turns
  <2> QED BY <2>1
<1>2. 0 \in S BY <1>1
<1>3. ASSUME NEW n \in 0..(MaxTimeout - 1), n \in S PROVE n + 1 \in S
  <2>1. ASSUME NEW k \in 0..n PROVE Many(n + 1, k)
    <3>1. PICK c \in Nat \ {0} : TurnOf(n) = TurnOf(k) * c BY <1>3, <2>1
    <3> DEFINE p == TurnOf(k)
    <3>2. p \in Nat \ {0} /\ TurnOf(n + 1) = Buckets * (p * c) BY <3>1, Turns
    <3> HIDE DEF p
    <3>3. Buckets * (p * c) = p * (Buckets * c) /\ Buckets * c \in Nat \ {0} BY <3>2
    <3> QED BY <3>2, <3>3 DEF p
  <2>2. Many(n + 1, n + 1) BY <1>1
  <2> HIDE DEF Many
  <2> QED BY <2>1, <2>2
<1> HIDE DEF S
<1>4. \A n \in 0..MaxTimeout : n \in S BY <1>2, <1>3, CountedUp
<1> QED BY <1>4 DEF S

\* When a wheel has its turn, so have the wheels below it.
LEMMA WholeTurns ==
    ASSUME NEW t \in Nat, NEW n \in 0..MaxTimeout, NEW k \in 0..n, t % TurnOf(n) = 0
    PROVE  t % TurnOf(k) = 0
<1>1. PICK c \in Nat \ {0} : TurnOf(n) = TurnOf(k) * c BY TurnOfTurns
<1> DEFINE p == TurnOf(k)
           m == TurnOf(n)
           q == t \div m
<1>2. p \in Nat \ {0} /\ m \in Nat \ {0} /\ m = p * c BY <1>1, Turns, WheelAssumption
<1>3. t % m = 0 OBVIOUS
<1> HIDE DEF p, m
<1>4. q \in Nat /\ t = m * q BY <1>2, <1>3
<1> HIDE DEF q
<1>5. m * q = (p * (c * q)) + 0 /\ c * q \in Int BY <1>2, <1>4
<1>6. Splits(t, p, c * q, 0) BY <1>2, <1>4, <1>5 DEF Splits
<1>7. t % p = 0 BY <1>6, Division
<1> QED BY <1>7 DEF p

\* ++ticksCounter_, kept modulo a turn of all the wheels.
LEMMA CounterStep ==
    ASSUME NEW t \in 0..(TurnOf(WheelsNum) - 1), NEW k \in 0..WheelsNum,
           NEW n, n = (t + 1) % TurnOf(WheelsNum)
    PROVE  /\ n \in 0..(TurnOf(WheelsNum) - 1)
           /\ \/ n % TurnOf(k) = 0 /\ t % TurnOf(k) = TurnOf(k) - 1
              \/ n % TurnOf(k) = (t % TurnOf(k)) + 1
<1> DEFINE p == TurnOf(k)
           m == TurnOf(WheelsNum)
           q == t \div p
           r == t % p
<1>1. WheelsNum \in 0..MaxTimeout /\ k \in 0..MaxTimeout
    BY EnoughWheels, WheelAssumption
<1>2. PICK c \in Nat \ {0} : m = p * c BY <1>1, TurnOfTurns
<1>3. p \in Nat \ {0} /\ m \in Nat \ {0} /\ t \in 0..(m - 1) BY <1>1, Turns
<1> HIDE DEF p, m
<1>4. q \in Nat /\ r \in 0..(p - 1) /\ t = (p * q) + r BY <1>3
<1> HIDE DEF q, r
<1>5. CASE t + 1 < m
  <2>1. (t + 1) % m = t + 1
    <3>1. Splits(t + 1, m, 0, t + 1) BY <1>3, <1>5 DEF Splits
    <3> QED BY <3>1, Division
  <2>2. CASE r = p - 1
    <3>1. Splits(t + 1, p, q + 1, 0) BY <1>3, <1>4, <2>2 DEF Splits
    <3>2. (t + 1) % p = 0 BY <3>1, Division
    <3> QED BY <1>3, <1>5, <2>1, <2>2, <3>2 DEF p, m, r
  <2>3. CASE r # p - 1
    <3>1. Splits(t + 1, p, q, r + 1) BY <1>3, <1>4, <2>3 DEF Splits
    <3>2. (t + 1) % p = r + 1 BY <3>1, Division
    <3> QED BY <1>3, <1>5, <2>1, <3>2 DEF p, m, r
  <2> QED BY <2>2, <2>3
<1>6. CASE t + 1 = m
  <2>1. (t + 1) % m = 0
    <3>1. Splits(t + 1, m, 1, 0) BY <1>3, <1>6 DEF Splits
    <3> QED BY <3>1, Division
  <2>2. 0 % p = 0
    <3>1. Splits(0, p, 0, 0) BY <1>3 DEF Splits
    <3> QED BY <3>1, Division
  <2>3. r = p - 1
    <3>1. t = (p * (c - 1)) + (p - 1)
      <4>1. p * (c - 1) = (p * c) - p BY <1>3
      <4>2. p * c \in Int BY <1>3
      <4> QED BY <1>2, <1>3, <1>6, <4>1, <4>2
    <3>2. Splits(t, p, c - 1, p - 1) BY <1>3, <3>1 DEF Splits
    <3>3. t % p = p - 1 BY <3>2, Division
    <3> QED BY <3>3 DEF r
  <2> QED BY <1>3, <2>1, <2>2, <2>3 DEF p, m, r
<1> QED BY <1>3, <1>5, <1>6

\* The position a wheel has.
Digit(t, i) == (t \div TurnOf(i - 1)) % Buckets

LEMMA DigitIs ==
    ASSUME NEW t \in Nat, NEW i \in 1..WheelsNum
    PROVE  Digit(t, i) \in 0..(Buckets - 1)
<1> DEFINE p == TurnOf(i - 1)
           q == t \div p
<1>1. p \in Nat \ {0}
  <2>1. i - 1 \in 0..MaxTimeout BY EnoughWheels, WheelAssumption
  <2> QED BY <2>1, Turns
<1> HIDE DEF p
<1>2. q \in Nat BY <1>1
<1> HIDE DEF q
<1>3. q % Buckets \in 0..(Buckets - 1) BY <1>2, WheelAssumption
<1> QED BY <1>3 DEF Digit, q, p

LEMMA PlaceIs ==
    ASSUME NEW t \in Nat, NEW i \in 1..WheelsNum, NEW delay \in Int
    PROVE  /\ Place(t, delay, i) = delay + Digit(t, i) - 1
           /\ Place(t, delay, i) \in Int
           /\ Place(t, delay, i) \div Buckets \in Int
           /\ Place(t, delay, i) % Buckets \in 0..(Buckets - 1)
           /\ Splits(Place(t, delay, i), Buckets,
                     Place(t, delay, i) \div Buckets, Place(t, delay, i) % Buckets)
<1>1. Place(t, delay, i) = delay + Digit(t, i) - 1 BY DEF Place, Digit, TurnOf
<1> DEFINE x == Place(t, delay, i)
<1>2. x \in Int BY <1>1, DigitIs
<1> HIDE DEF x
<1>3. Splits(x, Buckets, x \div Buckets, x % Buckets) BY <1>2, WheelAssumption DEF Splits
<1> QED BY <1>1, <1>2, <1>3 DEF Splits, x

\* The function of DelayIn, up to wheel n.
DelaysTo(t, delay, n, f) ==
    f = [i \in 1..n |-> IF i = 1 THEN delay + 1 ELSE Place(t, f[i - 1], i - 1) \div Buckets]

LEMMA DelaysExist ==
    ASSUME NEW t \in Nat, NEW delay \in Nat
    PROVE  \E f \in [1..WheelsNum -> Int] : DelaysTo(t, delay, WheelsNum, f)
<1> DEFINE Has(n) == \E f \in [1..n -> Int] : DelaysTo(t, delay, n, f)
           S == {n \in 0..WheelsNum : Has(n)}
<1>1. WheelsNum \in Nat BY EnoughWheels
<1>2. 0 \in S
  <2> DEFINE f == [i \in 1..0 |-> 0]
  <2>1. f \in [1..0 -> Int] /\ DelaysTo(t, delay, 0, f) BY DEF DelaysTo
  <2> HIDE DEF f
  <2>2. Has(0) BY Zenon, <2>1
  <2> HIDE DEF Has
  <2> QED BY <1>1, <2>2
<1>3. ASSUME NEW n \in 0..(WheelsNum - 1), n \in S PROVE n + 1 \in S
  <2>1. PICK f \in [1..n -> Int] : DelaysTo(t, delay, n, f) BY <1>3
  <2> DEFINE e == IF n = 0 THEN delay + 1 ELSE Place(t, f[n], n) \div Buckets
             g == [i \in 1..(n + 1) |-> IF i = n + 1 THEN e ELSE f[i]]
  <2>2. e \in Int
    <3>1. CASE n = 0 BY <3>1
    <3>2. CASE n # 0
      <4>1. n \in 1..WheelsNum /\ f[n] \in Int BY <1>1, <3>2
      <4> QED BY <3>2, <4>1, PlaceIs
    <3> QED BY <3>1, <3>2
  <2>3. g \in [1..(n + 1) -> Int] BY <2>2
  <2>4. ASSUME NEW i \in 1..(n + 1)
        PROVE  g[i] = IF i = 1 THEN delay + 1 ELSE Place(t, g[i - 1], i - 1) \div Buckets
    <3>1. CASE i = n + 1
      <4>1. CASE n = 0 BY <3>1, <4>1
      <4>2. CASE n # 0
        <5>1. g[i - 1] = f[n] /\ i # 1 /\ i - 1 = n BY <3>1, <4>2
        <5> QED BY <3>1, <4>2, <5>1
      <4> QED BY <4>1, <4>2
    <3>2. CASE i # n + 1
      <4>1. i \in 1..n /\ g[i] = f[i] /\ (i # 1 => g[i - 1] = f[i - 1]) BY <3>2
      <4>2. f[i] = IF i = 1 THEN delay + 1 ELSE Place(t, f[i - 1], i - 1) \div Buckets
          BY <2>1, <4>1 DEF DelaysTo
      <4> QED BY <4>1, <4>2
    <3> QED BY <3>1, <3>2
  <2> HIDE DEF e
  <2>5. DelaysTo(t, delay, n + 1, g) BY <2>4 DEF DelaysTo
  <2> QED BY <1>1, <2>3, <2>5
<1> HIDE DEF S
<1>4. WheelsNum \in S BY <1>1, <1>2, <1>3, CountedUp
<1> QED BY <1>4 DEF S

\* What d has, wheel by wheel.
WheelDelays(t, delay, d) ==
    /\ d \in [1..WheelsNum -> Int] /\ d[1] = delay + 1
    /\ \A i \in 1..(WheelsNum - 1) : d[i + 1] = Place(t, d[i], i) \div Buckets

LEMMA DelaysIn ==
    ASSUME NEW t \in Nat, NEW delay \in Nat
    PROVE  WheelDelays(t, delay, DelayIn(t, delay))
<1> DEFINE d == DelayIn(t, delay)
<1>0. d = DelayIn(t, delay) OBVIOUS
<1> HIDE DEF d
<1>1. WheelsNum \in Nat /\ WheelsNum >= 1 BY EnoughWheels
<1>2. d = CHOOSE f : DelaysTo(t, delay, WheelsNum, f) BY DEF DelayIn, DelaysTo, d
<1>3. DelaysTo(t, delay, WheelsNum, d) BY <1>2, DelaysExist
<1>4. /\ d = [i \in 1..WheelsNum |-> d[i]]
      /\ \A i \in 1..WheelsNum :
          d[i] = IF i = 1 THEN delay + 1 ELSE Place(t, d[i - 1], i - 1) \div Buckets
    BY <1>3 DEF DelaysTo
<1>5. d[1] = delay + 1
  <2>1. 1 \in 1..WheelsNum BY <1>1
  <2>2. d[1] = IF 1 = 1 THEN delay + 1 ELSE Place(t, d[1 - 1], 1 - 1) \div Buckets
      BY <1>4, <2>1
  <2> QED BY <2>2
<1>6. \A i \in 1..(WheelsNum - 1) : d[i + 1] = Place(t, d[i], i) \div Buckets
  <2> TAKE i \in 1..(WheelsNum - 1)
  <2>1. i + 1 \in 1..WheelsNum /\ i + 1 # 1 /\ (i + 1) - 1 = i BY <1>1
  <2> QED BY <1>4, <2>1
<1> DEFINE S == {n \in 0..(WheelsNum - 1) : d[n + 1] \in Int}
<1>7. 0 \in S BY <1>1, <1>5
<1>8. ASSUME NEW n \in 0..((WheelsNum - 1) - 1), n \in S PROVE n + 1 \in S
  <2>1. n + 1 \in 1..(WheelsNum - 1) /\ n + 1 \in 1..WheelsNum /\ d[n + 1] \in Int
      BY <1>1, <1>8
  <2>2. Place(t, d[n + 1], n + 1) \div Buckets \in Int BY <2>1, PlaceIs
  <2>3. d[(n + 1) + 1] \in Int BY <1>6, <2>1, <2>2
  <2> QED BY <2>1, <2>3
<1> HIDE DEF S
<1>9. \A n \in 0..(WheelsNum - 1) : n \in S BY <1>1, <1>7, <1>8, CountedUp
<1>10. ASSUME NEW i \in 1..WheelsNum PROVE d[i] \in Int
  <2>1. i - 1 \in 0..(WheelsNum - 1) /\ (i - 1) + 1 = i BY <1>1
  <2>2. i - 1 \in S BY <1>9, <2>1
  <2> QED BY <2>1, <2>2 DEF S
<1>11. d \in [1..WheelsNum -> Int] BY <1>4, <1>10
<1>12. WheelDelays(t, delay, d) BY <1>5, <1>6, <1>11 DEF WheelDelays
<1> QED BY <1>0, <1>12

\* How far from the end a delay can still be at each wheel.
LEMMA DelayBound ==
    ASSUME NEW t \in Nat, NEW delay \in Nat, NEW d, WheelDelays(t, delay, d)
    PROVE  \A k \in 1..(WheelsNum - 1) :
               TurnOf(k) * d[k + 1] <= delay + (t % TurnOf(k))
<1> DEFINE Bound(k) == TurnOf(k) * d[k + 1] <= delay + (t % TurnOf(k))
           S == {n \in 0..(WheelsNum - 2) : Bound(n + 1)}
<1>1. /\ WheelsNum \in Nat /\ WheelsNum >= 1 /\ WheelsNum <= MaxTimeout
      /\ MaxTimeout \in Nat /\ Buckets \in Nat \ {0}
    BY EnoughWheels, WheelAssumption
<1>2. /\ d \in [1..WheelsNum -> Int] /\ d[1] = delay + 1
      /\ \A i \in 1..(WheelsNum - 1) : d[i + 1] = Place(t, d[i], i) \div Buckets
    BY DEF WheelDelays
<1>3. ASSUME NEW i \in 1..(WheelsNum - 1)
      PROVE  /\ d[i] \in Int /\ d[i + 1] \in Int /\ Digit(t, i) \in Nat
             /\ Buckets * d[i + 1] <= d[i] + Digit(t, i) - 1
  <2>1. i \in 1..WheelsNum /\ i + 1 \in 1..WheelsNum BY <1>1
  <2>2. d[i] \in Int /\ d[i + 1] \in Int /\ d[i + 1] = Place(t, d[i], i) \div Buckets
      BY <1>2, <2>1
  <2>3. Digit(t, i) \in Nat BY <1>1, <2>1, DigitIs
  <2> DEFINE x == Place(t, d[i], i)
             g == Digit(t, i)
             r == x % Buckets
  <2>4. x = d[i] + g - 1 /\ Splits(x, Buckets, x \div Buckets, r) BY <2>1, <2>2, PlaceIs
  <2>5. x \div Buckets = d[i + 1] BY <2>2
  <2> HIDE DEF x, g, r
  <2>6. x = (Buckets * d[i + 1]) + r /\ r \in Nat BY <1>1, <2>4, <2>5 DEF Splits
  <2>7. Buckets * d[i + 1] \in Int BY <1>1, <2>2
  <2>8. Buckets * d[i + 1] <= d[i] + g - 1 BY <2>2, <2>3, <2>4, <2>6, <2>7 DEF g
  <2> QED BY <2>2, <2>3, <2>8 DEF g
<1>4. ASSUME NEW i \in 1..WheelsNum
      PROVE  /\ TurnOf(i - 1) \in Nat \ {0} /\ TurnOf(i) = Buckets * TurnOf(i - 1)
             /\ t % TurnOf(i) = (TurnOf(i - 1) * Digit(t, i)) + (t % TurnOf(i - 1))
  <2>1. /\ i - 1 \in 0..MaxTimeout /\ i - 1 \in 0..(MaxTimeout - 1)
        /\ (i - 1) + 1 = i
      BY <1>1
  <2>2. TurnOf(i - 1) \in Nat \ {0} /\ TurnOf(i) = Buckets * TurnOf(i - 1) BY <2>1, Turns
  <2> DEFINE p == TurnOf(i - 1)
  <2>3. p \in Nat \ {0} /\ TurnOf(i) = Buckets * p BY <2>2
  <2>4. Digit(t, i) = (t \div p) % Buckets BY DEF Digit
  <2> HIDE DEF p
  <2>5. t % (Buckets * p) = (p * ((t \div p) % Buckets)) + (t % p) BY <1>1, <2>3, NextDigit
  <2> QED BY <2>2, <2>3, <2>4, <2>5 DEF p
<1>5. ASSUME WheelsNum > 1 PROVE 0 \in S
  <2>1. 1 \in 1..(WheelsNum - 1) /\ 1 \in 1..WheelsNum BY <1>1, <1>5
  <2>2. /\ TurnOf(0) = 1 /\ TurnOf(1) = Buckets * TurnOf(0)
        /\ t % TurnOf(1) = (TurnOf(0) * Digit(t, 1)) + (t % TurnOf(0))
      BY <1>4, <2>1, Turns
  <2>3. /\ d[2] \in Int /\ Digit(t, 1) \in Nat
        /\ Buckets * d[2] <= d[1] + Digit(t, 1) - 1
      BY <1>3, <2>1
  <2>4. t % TurnOf(1) = Digit(t, 1) BY <2>2, <2>3
  <2>5. TurnOf(1) * d[2] <= delay + Digit(t, 1) BY <1>1, <1>2, <2>2, <2>3
  <2>6. Bound(1) BY <2>4, <2>5
  <2> HIDE DEF Bound
  <2> QED BY <1>1, <1>5, <2>6
<1>6. ASSUME WheelsNum > 1, NEW n \in 0..((WheelsNum - 2) - 1), n \in S PROVE n + 1 \in S
  <2> DEFINE k == n + 1
  <2>1. /\ k \in 1..(WheelsNum - 1) /\ k + 1 \in 1..(WheelsNum - 1)
        /\ k + 1 \in 1..WheelsNum /\ (k + 1) - 1 = k /\ k \in 0..(WheelsNum - 2)
      BY <1>1, <1>6
  <2>2. Bound(k) BY <1>6
  <2> HIDE DEF k
  <2> DEFINE p == TurnOf(k)
             g == Digit(t, k + 1)
             a == d[k + 1]
             b == d[(k + 1) + 1]
  <2>3. /\ p \in Nat \ {0} /\ TurnOf(k + 1) = Buckets * p
        /\ t % TurnOf(k + 1) = (p * g) + (t % p)
      BY <1>4, <2>1
  <2>4. a \in Int /\ b \in Int /\ g \in Nat /\ Buckets * b <= a + g - 1 BY <1>3, <2>1
  <2>5. p * a <= delay + (t % p) BY <2>2
  <2> HIDE DEF p, g, a, b
  <2> DEFINE r == t % p
  <2>6. r \in 0..(p - 1) BY <2>3
  <2> HIDE DEF r
  <2>7. p * (Buckets * b) <= p * (a + g - 1) BY <1>1, <2>3, <2>4
  <2>8. p * (a + g - 1) = (p * a) + (p * g) - p BY <2>3, <2>4
  <2>9. p * (Buckets * b) = (Buckets * p) * b BY <1>1, <2>3, <2>4
  <2>10. p * a \in Int /\ p * g \in Int /\ (Buckets * p) * b \in Int BY <1>1, <2>3, <2>4
  <2>11. (Buckets * p) * b <= delay + ((p * g) + r)
      BY <2>3, <2>5, <2>6, <2>7, <2>8, <2>9, <2>10
  <2>12. Bound(k + 1) BY <2>3, <2>11 DEF b, r
  <2> HIDE DEF Bound
  <2> QED BY <1>1, <2>1, <2>12 DEF k
<1>7. ASSUME NEW k \in 1..(WheelsNum - 1) PROVE Bound(k)
  <2>1. WheelsNum > 1 /\ k - 1 \in 0..(WheelsNum - 2) /\ WheelsNum - 2 \in Nat BY <1>1, <1>7
  <2> HIDE DEF S
  <2>2. k - 1 \in S BY <1>5, <1>6, <2>1, CountedUp
  <2>3. Bound((k - 1) + 1) BY <2>2 DEF S
  <2>4. (k - 1) + 1 = k BY <1>1
  <2> QED BY <2>3, <2>4
<1> QED BY <1>7

\* Any turn of a wheel in use, and of the wheels below it.
LEMMA WheelTurns ==
    /\ WheelsNum \in Nat /\ WheelsNum >= 1 /\ WheelsNum <= MaxTimeout
    /\ MaxTimeout \in Nat /\ Buckets \in Nat /\ Buckets > 1
    /\ \A k \in 0..WheelsNum : TurnOf(k) \in Nat \ {0}
    /\ \A k \in 1..WheelsNum : TurnOf(k) = Buckets * TurnOf(k - 1)
    /\ TurnOf(0) = 1
<1>1. WheelsNum \in 1..MaxTimeout /\ MaxTimeout \in Nat BY EnoughWheels, WheelAssumption
<1>2. ASSUME NEW k \in 0..WheelsNum PROVE TurnOf(k) \in Nat \ {0}
  <2>1. k \in 0..MaxTimeout BY <1>1
  <2> QED BY <2>1, Turns
<1>3. ASSUME NEW k \in 1..WheelsNum PROVE TurnOf(k) = Buckets * TurnOf(k - 1)
  <2>1. k - 1 \in 0..(MaxTimeout - 1) /\ (k - 1) + 1 = k BY <1>1
  <2>2. TurnOf((k - 1) + 1) = Buckets * TurnOf(k - 1) BY <2>1, Turns
  <2> QED BY <2>1, <2>2
<1> QED BY <1>1, <1>2, <1>3, Turns, WheelAssumption

\* insertEntryInloop passes the wheels that do not reach, and stops at one that
\* does.
LEMMA WheelForIs ==
    ASSUME NEW t \in Nat, NEW delay \in Nat, NEW d, d = DelayIn(t, delay),
           NEW w, w = WheelFor(t, delay)
    PROVE  /\ w \in 1..WheelsNum /\ d[w] \in Nat \ {0}
           /\ Roomy /\ delay = MaxTimeout => d[w] <= Buckets
           /\ delay < Buckets => w = 1 /\ d[w] <= Buckets
<1>1. WheelDelays(t, delay, d) BY DelaysIn
<1>2. /\ d \in [1..WheelsNum -> Int] /\ d[1] = delay + 1
      /\ \A i \in 1..(WheelsNum - 1) : d[i + 1] = Place(t, d[i], i) \div Buckets
    BY <1>1 DEF WheelDelays
<1> DEFINE N == WheelsNum
           fits == {i \in 1..N : d[i] <= Buckets}
<1>3. w = IF fits = {} THEN N ELSE CHOOSE i \in fits : \A k \in fits : i <= k
    BY DEF WheelFor
<1>4. /\ w \in 1..N /\ \A k \in 1..(w - 1) : d[k] > Buckets
      /\ d[w] <= Buckets \/ (w = N /\ d[N] > Buckets)
  <2>1. CASE fits = {}
    <3>1. w = N BY <1>3, <2>1
    <3>2. \A k \in 1..N : ~(d[k] <= Buckets) BY <2>1
    <3>3. \A k \in 1..N : d[k] > Buckets BY <1>2, <3>2, WheelTurns
    <3> QED BY <3>1, <3>3, WheelTurns
  <2>2. CASE fits # {}
    <3>1. fits \subseteq Nat BY WheelTurns
    <3>2. \E i \in fits : \A k \in fits : i <= k
      <4> HIDE DEF fits
      <4> QED BY <2>2, <3>1, LeastNatural
    <3>3. w \in fits /\ \A k \in fits : w <= k BY <1>3, <2>2, <3>2
    <3>4. w \in 1..N /\ d[w] <= Buckets BY <3>3
    <3>5. ASSUME NEW k \in 1..(w - 1) PROVE d[k] > Buckets
      <4>1. k \in 1..N /\ ~(w <= k) BY <3>4, WheelTurns
      <4>2. k \notin fits BY <3>3, <4>1
      <4>3. ~(d[k] <= Buckets) /\ d[k] \in Int BY <1>2, <4>1, <4>2
      <4> QED BY <4>3, WheelTurns
    <3> QED BY <3>4, <3>5
  <2> QED BY <2>1, <2>2
<1>5. d[w] \in Int BY <1>2, <1>4
<1>6. d[w] >= 1
  <2>1. CASE w = 1 BY <1>2, <2>1
  <2>2. CASE w # 1
    <3> DEFINE k == w - 1
    <3>1. k \in 1..(N - 1) /\ k \in 1..(w - 1) /\ k \in 1..N /\ k + 1 = w
        BY <1>4, <2>2, WheelTurns
    <3> HIDE DEF k
    <3>2. d[k] \in Int /\ d[k] > Buckets BY <1>2, <1>4, <3>1
    <3> DEFINE x == Place(t, d[k], k)
               r == x % Buckets
    <3>3. d[w] = x \div Buckets BY <1>2, <3>1
    <3>4. x = d[k] + Digit(t, k) - 1 /\ Digit(t, k) \in Nat
      <4>1. Digit(t, k) \in 0..(Buckets - 1) BY <3>1, DigitIs
      <4>2. x = d[k] + Digit(t, k) - 1 BY <3>1, <3>2, PlaceIs
      <4> QED BY <4>1, <4>2, WheelTurns
    <3>5. x \in Int /\ x >= Buckets
      <4>1. ASSUME NEW g \in Nat, NEW y \in Int, y > Buckets
            PROVE  y + g - 1 \in Int /\ y + g - 1 >= Buckets
          BY <4>1, WheelTurns
      <4> HIDE DEF x
      <4> QED BY <3>2, <3>4, <4>1
    <3> HIDE DEF x
    <3>6. x \div Buckets >= 1 BY <3>5, WheelTurns
    <3> QED BY <3>3, <3>6
  <2> QED BY <2>1, <2>2
<1>7. ASSUME Roomy, delay = MaxTimeout, w = N, d[N] > Buckets PROVE FALSE
  <2>1. CASE N = 1
    <3>1. MaxTimeout < Buckets BY <1>7, <2>1 DEF Roomy
    <3> QED BY <1>2, <1>7, <2>1, <3>1, WheelTurns
  <2>2. CASE N # 1
    <3> DEFINE k == N - 1
               p == TurnOf(k)
               r == t % p
    <3>1. k \in 1..(N - 1) /\ k \in 0..N /\ k + 1 = N BY <2>2, WheelTurns
    <3>2. p \in Nat \ {0} /\ TurnOf(N) = Buckets * p BY <3>1, WheelTurns
    <3>3. p * d[N] <= delay + r BY <1>1, <3>1, DelayBound
    <3>4. MaxTimeout <= Buckets * p BY <3>2, EnoughWheels
    <3> HIDE DEF p
    <3>5. r \in 0..(p - 1) BY <3>2
    <3> HIDE DEF r
    <3> DEFINE x == d[N]
    <3>6. x \in Int /\ x >= Buckets + 1 BY <1>5, <1>7, WheelTurns
    <3>7. p * x <= delay + r BY <3>3
    <3> HIDE DEF x
    <3>8. p * (Buckets + 1) <= p * x BY <3>2, <3>6, WheelTurns
    <3>9. p * (Buckets + 1) = (Buckets * p) + p BY <3>2, WheelTurns
    <3>10. p * x \in Int /\ Buckets * p \in Int BY <3>2, <3>6, WheelTurns
    <3> QED BY <1>7, <3>2, <3>4, <3>5, <3>7, <3>8, <3>9, <3>10
  <2> QED BY <2>1, <2>2
<1>8. Roomy /\ delay = MaxTimeout => d[w] <= Buckets BY <1>4, <1>7
<1>9. ASSUME delay < Buckets PROVE w = 1 /\ d[w] <= Buckets
  <2>1. d[1] <= Buckets BY <1>2, <1>9, WheelTurns
  <2>2. 1 \notin 1..(w - 1)
    <3>1. d[1] \in Int /\ ~(d[1] > Buckets) BY <1>2, <2>1, WheelTurns
    <3> QED BY <1>4, <3>1
  <2>3. w = 1 BY <1>4, <2>2, WheelTurns
  <2> QED BY <2>1, <2>3
<1> QED BY <1>4, <1>5, <1>6, <1>8, <1>9

\* What the buckets of a path are worth, wheel by wheel, in ticks.
Sums(s, path) ==
    /\ s \in [0..Len(path) -> Int] /\ s[0] = 0
    /\ \A k \in 1..Len(path) : s[k] = s[k - 1] + ((path[k] + 1) * TurnOf(k - 1))

\* An item that leaves its wheel in left ticks has still its path to go.
Lives(item, left) == \E s : Sums(s, item.path) /\ item.left = left + s[Len(item.path)]

\* item goes into wheel w for delay at counter t.
InsertedItem(t, delay, w, item) ==
    /\ item.left = delay + 1
    /\ item.path = [i \in 1..(w - 1) |-> Place(t, DelayIn(t, delay)[i], i) % Buckets]

\* The path of a new item, and the turns its delay is made of.
LEMMA InsertedLives ==
    ASSUME NEW t \in Nat, NEW delay \in Nat, NEW w \in 1..WheelsNum,
           NEW item, InsertedItem(t, delay, w, item)
    PROVE  /\ item.path \in Seq(0..(Buckets - 1)) /\ Len(item.path) = w - 1
           /\ Lives(item, (DelayIn(t, delay)[w] * TurnOf(w - 1)) - (t % TurnOf(w - 1)))
<1> DEFINE d == DelayIn(t, delay)
           path == item.path
<1>1. /\ path = [i \in 1..(w - 1) |-> Place(t, d[i], i) % Buckets]
      /\ item.left = delay + 1
    BY DEF InsertedItem
<1>2. WheelDelays(t, delay, d) BY DelaysIn
<1> HIDE DEF d, path
<1>3. /\ WheelsNum \in Nat /\ WheelsNum >= 1 /\ Buckets \in Nat \ {0}
      /\ \A i \in 1..(w - 1) : i \in 1..WheelsNum /\ i \in 1..(WheelsNum - 1)
                               /\ i + 1 \in 1..WheelsNum /\ i \in 0..WheelsNum
                               /\ i - 1 \in 0..WheelsNum
      /\ w - 1 \in Nat /\ w - 1 \in 0..WheelsNum /\ (w - 1) + 1 = w
    BY WheelTurns
<1>4. /\ d \in [1..WheelsNum -> Int] /\ d[1] = delay + 1
      /\ \A i \in 1..(WheelsNum - 1) : d[i + 1] = Place(t, d[i], i) \div Buckets
    BY <1>2 DEF WheelDelays
<1>5. ASSUME NEW i \in 1..(w - 1) PROVE path[i] \in 0..(Buckets - 1)
  <2>1. d[i] \in Int BY <1>3, <1>4
  <2>2. Place(t, d[i], i) % Buckets \in 0..(Buckets - 1) BY <1>3, <2>1, PlaceIs
  <2> QED BY <1>1, <2>2
<1>6. path \in [1..(w - 1) -> 0..(Buckets - 1)] BY <1>5, <1>1
<1>7. path \in Seq(0..(Buckets - 1)) /\ Len(path) = w - 1 BY <1>3, <1>6
<1> DEFINE At(k) == (t + delay + 1) - (TurnOf(k) * ((t \div TurnOf(k)) + d[k + 1]))
           s == [k \in 0..(w - 1) |-> At(k)]
<1>8. ASSUME NEW k \in 0..(w - 1)
      PROVE  TurnOf(k) \in Nat \ {0} /\ d[k + 1] \in Int /\ At(k) \in Int
  <2>1. k \in 0..WheelsNum /\ k + 1 \in 1..WheelsNum BY <1>3
  <2> DEFINE p == TurnOf(k)
             a == d[k + 1]
  <2>2. p \in Nat \ {0} /\ a \in Int BY <1>4, <2>1, WheelTurns
  <2> HIDE DEF p, a
  <2> DEFINE q == t \div p
  <2>3. q \in Int BY <2>2
  <2> HIDE DEF q
  <2>4. (t + delay + 1) - (p * (q + a)) \in Int BY <2>2, <2>3
  <2> QED BY <2>2, <2>4 DEF p, q, a
<1>9. At(0) = 0
  <2>1. t \div 1 = t
    <3>1. Splits(t, 1, t, 0) BY DEF Splits
    <3> QED BY <3>1, Division
  <2>2. TurnOf(0) = 1 BY WheelTurns
  <2> QED BY <1>4, <2>1, <2>2
<1>10. ASSUME NEW k \in 1..(w - 1)
      PROVE  At(k) = At(k - 1) + ((path[k] + 1) * TurnOf(k - 1))
  <2>1. /\ k \in 1..WheelsNum /\ k - 1 \in 0..WheelsNum /\ (k - 1) + 1 = k
        /\ k - 1 \in 0..(w - 1) /\ k \in 0..(w - 1)
      BY <1>3
  <2> DEFINE p == TurnOf(k - 1)
             a == d[k]
             b == d[k + 1]
             e == path[k]
             g == Digit(t, k)
  <2>2. p \in Nat \ {0} /\ TurnOf(k) = Buckets * p BY <2>1, WheelTurns
  <2>3. a \in Int /\ b \in Int BY <1>4, <1>3
  <2>4. e \in Nat /\ a + g - 1 = (Buckets * b) + e
    <3>1. b = Place(t, a, k) \div Buckets /\ e = Place(t, a, k) % Buckets
        BY <1>3, <1>4, <1>1
    <3>2. /\ Place(t, a, k) = a + g - 1
          /\ Splits(Place(t, a, k), Buckets, Place(t, a, k) \div Buckets,
                    Place(t, a, k) % Buckets)
        BY <2>1, <2>3, PlaceIs
    <3>3. Splits(a + g - 1, Buckets, b, e) BY <3>1, <3>2
    <3> HIDE DEF a, b, e, g
    <3> QED BY <1>3, <3>3 DEF Splits
  <2>5. g \in Nat
    <3>1. g \in 0..(Buckets - 1) BY <2>1, DigitIs
    <3> HIDE DEF g
    <3> QED BY <1>3, <3>1
  <2>6. g = (t \div p) % Buckets BY DEF Digit
  <2>7. (k - 1) + 1 = k BY <2>1
  <2>8. At(k - 1) = (t + delay + 1) - (p * ((t \div p) + a)) BY <2>7
  <2>9. At(k) = (t + delay + 1) - ((Buckets * p) * ((t \div (Buckets * p)) + b)) BY <2>2
  <2> HIDE DEF p, a, b, e, g, At
  <2> DEFINE q == t \div p
             u == t \div (Buckets * p)
  <2>10. q = (Buckets * u) + g BY <1>3, <2>2, <2>6, NextDigit
  <2>11. q \in Int /\ u \in Int
    <3>1. Buckets * p \in Nat \ {0} BY <1>3, <2>2
    <3> DEFINE y == Buckets * p
    <3> HIDE DEF y
    <3>2. t \div y \in Int BY <3>1 DEF y
    <3>3. t \div p \in Int BY <2>2
    <3> QED BY <3>2, <3>3 DEF y
  <2>12. At(k - 1) = (t + delay + 1) - (p * (q + a)) BY <2>8
  <2>13. At(k) = (t + delay + 1) - ((Buckets * p) * (u + b)) BY <2>9
  <2> HIDE DEF q, u
  <2>14. p * (q + a) = p * ((Buckets * u) + (Buckets * b) + e + 1)
    <3>1. q + a = (Buckets * u) + (Buckets * b) + e + 1
      <4> DEFINE x == Buckets * u
                 y == Buckets * b
      <4>1. x \in Int /\ y \in Int BY <1>3, <2>3, <2>11
      <4>2. q = x + g /\ a + g - 1 = y + e BY <2>4, <2>10
      <4> HIDE DEF x, y
      <4>3. q + a = x + y + e + 1 BY <2>3, <2>4, <2>5, <2>11, <4>1, <4>2
      <4> QED BY <4>3 DEF x, y
    <3> QED BY <3>1
  <2>15. p * ((Buckets * u) + (Buckets * b) + e + 1)
            = ((Buckets * p) * (u + b)) + ((e + 1) * p)
      BY <1>3, <2>2, <2>3, <2>4, <2>11
  <2> DEFINE x == (Buckets * p) * (u + b)
             y == (e + 1) * p
  <2>16. x \in Int /\ y \in Int BY <1>3, <2>2, <2>3, <2>4, <2>11
  <2>17. At(k - 1) = (t + delay + 1) - (x + y) /\ At(k) = (t + delay + 1) - x
      BY <2>12, <2>13, <2>14, <2>15
  <2> HIDE DEF x, y
  <2>18. At(k) = At(k - 1) + y BY <2>16, <2>17
  <2> QED BY <2>18 DEF y, e, p
<1>11. At(w - 1) = (delay + 1) - ((d[w] * TurnOf(w - 1)) - (t % TurnOf(w - 1)))
  <2> DEFINE p == TurnOf(w - 1)
             a == d[w]
  <2>1. p \in Nat \ {0} /\ a \in Int BY <1>3, <1>4, WheelTurns
  <2>2. At(w - 1) = (t + delay + 1) - (p * ((t \div p) + a)) BY <1>3
  <2> HIDE DEF p, a, At
  <2> DEFINE q == t \div p
             r == t % p
  <2>3. q \in Int /\ r \in Int /\ t = (p * q) + r BY <2>1
  <2>4. At(w - 1) = (t + delay + 1) - (p * (q + a)) BY <2>2
  <2> HIDE DEF q, r
  <2>5. p * (q + a) = (p * q) + (a * p) BY <2>1, <2>3
  <2>6. p * q \in Int /\ a * p \in Int BY <2>1, <2>3
  <2> DEFINE x == p * q
             y == a * p
  <2>7. x \in Int /\ y \in Int /\ t = x + r /\ At(w - 1) = (t + delay + 1) - (x + y)
      BY <2>3, <2>4, <2>5, <2>6
  <2> HIDE DEF x, y
  <2>8. (t + delay + 1) - (x + y) = (delay + 1) - (y - r)
    <3>1. r \in Int BY <2>3
    <3> QED BY <2>7, <3>1
  <2> QED BY <2>7, <2>8 DEF y, p, a, r
<1>12. Sums(s, path)
  <2>1. s \in [0..(w - 1) -> Int] BY <1>8
  <2>2. s[0] = 0 BY <1>3, <1>9
  <2>3. ASSUME NEW k \in 1..(w - 1)
        PROVE  s[k] = s[k - 1] + ((path[k] + 1) * TurnOf(k - 1))
    <3>1. k \in 0..(w - 1) /\ k - 1 \in 0..(w - 1) BY <1>3
    <3>2. s[k] = At(k) /\ s[k - 1] = At(k - 1) BY <3>1
    <3> HIDE DEF At, s
    <3> QED BY <1>10, <3>2
  <2> HIDE DEF s, At
  <2> QED BY <1>7, <2>1, <2>2, <2>3 DEF Sums
<1>13. item.left = ((d[w] * TurnOf(w - 1)) - (t % TurnOf(w - 1))) + s[w - 1]
  <2> DEFINE x == (d[w] * TurnOf(w - 1)) - (t % TurnOf(w - 1))
  <2>1. s[w - 1] = (delay + 1) - x BY <1>3, <1>11
  <2>2. x \in Int
    <3> DEFINE p == TurnOf(w - 1)
               a == d[w]
    <3>1. p \in Nat \ {0} /\ a \in Int BY <1>3, <1>4, WheelTurns
    <3> HIDE DEF p, a
    <3>2. (a * p) - (t % p) \in Int BY <3>1
    <3> QED BY <3>2 DEF p, a
  <2> HIDE DEF x, s
  <2>3. item.left = x + s[w - 1] BY <1>1, <2>1, <2>2
  <2> QED BY <2>3 DEF x
<1> HIDE DEF s
<1> QED BY <1>7, <1>12, <1>13 DEF Lives, path, d

-----------------------------------------------------------------------------
(* What the wheels hold *)

\* The ticks until bucket j of wheel i leaves it, at counter t in the turn of
\* wheel u: a wheel above it may have its turn still in this tick.
Leaves(t, u, i, j) ==
    IF u # 0 /\ u < i /\ t % TurnOf(i - 1) = 0 THEN (j - 1) * TurnOf(i - 1)
    ELSE (j * TurnOf(i - 1)) - (t % TurnOf(i - 1))

\* A turn of the wheels below the last one.
LastTurn == IF WheelsNum = 1 THEN 0 ELSE Pow[WheelsNum - 1]

\* item may leave the wheels z ticks before its time: not at all if it was
\* inserted between ticks or into the first wheel.
MayBeEarly(item, z) ==
    /\ ~item.inTick => z = 0
    /\ item.entry = "idle" => z = 0
    /\ item.entry \in Kicks /\ Timeout < Buckets => z = 0
    /\ item.entry = "ping" => z <= LastTurn

\* An item with a path of n wheels, that is taken out in left ticks.
Fits(item, n, left) ==
    /\ item \in Item /\ Len(item.path) = n
    /\ Roomy => \E z \in Nat : MayBeEarly(item, z) /\ Lives(item, left + z)

Filled(ws, t, u) ==
    /\ ws \in [1..WheelsNum -> [1..Buckets -> SUBSET Item]]
    /\ \A i \in 1..WheelsNum : \A j \in 1..Buckets : \A item \in ws[i][j] :
          Fits(item, i - 1, Leaves(t, u, i, j))

\* One more item, where it fits.
LEMMA PutFits ==
    ASSUME NEW t, NEW u, NEW ws, Filled(ws, t, u),
           NEW i \in 1..WheelsNum, NEW j \in 1..Buckets, NEW x,
           NEW f, f = Leaves(t, u, i, j), Fits(x, i - 1, f)
    PROVE  Filled([ws EXCEPT ![i][j] = @ \cup {x}], t, u)
<1> DEFINE vs == [ws EXCEPT ![i][j] = @ \cup {x}]
<1>1. ws \in [1..WheelsNum -> [1..Buckets -> SUBSET Item]] BY DEF Filled
<1>2. x \in Item BY DEF Fits
<1>3. vs \in [1..WheelsNum -> [1..Buckets -> SUBSET Item]] BY <1>1, <1>2
<1>4. ASSUME NEW k \in 1..WheelsNum, NEW l \in 1..Buckets, NEW item \in vs[k][l]
      PROVE  Fits(item, k - 1, Leaves(t, u, k, l))
  <2>1. item \in ws[k][l] \/ (k = i /\ l = j /\ item = x) BY <1>1
  <2>2. CASE item \in ws[k][l] BY <2>2 DEF Filled
  <2>3. CASE k = i /\ l = j /\ item = x BY <2>3
  <2> QED BY <2>1, <2>2, <2>3
<1> HIDE DEF vs
<1>5. Filled(vs, t, u) BY <1>3, <1>4 DEF Filled
<1> QED BY <1>5 DEF vs

LEMMA NoneFit ==
    ASSUME NEW t, NEW u PROVE Filled(NoEntries, t, u)
<1>1. /\ NoEntries \in [1..WheelsNum -> [1..Buckets -> SUBSET Item]]
      /\ \A i \in 1..WheelsNum : \A j \in 1..Buckets : NoEntries[i][j] = {}
    BY DEF NoEntries
<1> QED BY <1>1 DEF Filled

\* Between ticks, and for all wheels up to the one a tick has got to.
LEMMA LeavesIs ==
    ASSUME NEW t \in Nat, NEW u \in Nat, NEW i \in Nat, NEW j \in Nat, u = 0 \/ i <= u
    PROVE  Leaves(t, u, i, j) = (j * TurnOf(i - 1)) - (t % TurnOf(i - 1))
BY DEF Leaves

\* What the users of the wheels insert: with the whole timeout between ticks,
\* and in ticks the next ping with it and a kick-off entry with its own.
Insertable(e, delay) ==
    \/ turn = 0 /\ delay = MaxTimeout
    \/ e = "ping" /\ delay = MaxTimeout
    \/ e \in Kicks /\ delay = Timeout /\ turn # 0

\* A wheel above the one a tick has got to takes a turn of the wheels below off
\* the time of what is inserted.
LEMMA LeavesEarlier ==
    ASSUME NEW t \in Nat, NEW u \in Nat, NEW w \in 1..WheelsNum, NEW x \in Nat \ {0}, NEW b,
           b = IF x <= Buckets THEN x ELSE Buckets
    PROVE  \E z \in Nat :
              /\ (x * TurnOf(w - 1)) - (t % TurnOf(w - 1)) = Leaves(t, u, w, b) + z
              /\ x <= Buckets /\ (u = 0 \/ w = 1) => z = 0
              /\ x <= Buckets => z <= LastTurn
              /\ Leaves(t, u, w, b) \in Int
<1> DEFINE p == TurnOf(w - 1)
           r == t % p
           f == Leaves(t, u, w, b)
           z == ((x * p) - r) - f
<1>1. /\ w \in Nat /\ w - 1 \in 0..WheelsNum /\ w >= 1 /\ w <= WheelsNum
      /\ p \in Nat \ {0} /\ Buckets \in Nat \ {0}
    BY WheelTurns
<1>2. b \in Nat \ {0} /\ b <= x /\ (x <= Buckets => b = x) BY <1>1
<1>3. f = IF u # 0 /\ u < w /\ r = 0 THEN (b - 1) * p ELSE (b * p) - r BY DEF Leaves
<1>4. w # 1 => p <= LastTurn
  <2> SUFFICES ASSUME w # 1 PROVE p <= LastTurn OBVIOUS
  <2> DEFINE n == WheelsNum - 1
             m == TurnOf(n)
  <2>1. n \in 0..MaxTimeout /\ w - 1 \in 0..n /\ WheelsNum # 1 BY <1>1, WheelTurns
  <2>2. LastTurn = m BY <2>1 DEF LastTurn, TurnOf
  <2>3. PICK c \in Nat \ {0} : m = p * c BY <2>1, TurnOfTurns
  <2> HIDE DEF m, p
  <2>4. p * 1 <= p * c BY <1>1, <2>3
  <2> QED BY <1>1, <2>2, <2>3, <2>4
<1>5. 0 <= LastTurn
  <2>1. WheelsNum # 1 => WheelsNum - 1 \in 0..WheelsNum BY WheelTurns
  <2>2. WheelsNum # 1 => TurnOf(WheelsNum - 1) \in Nat BY <2>1, WheelTurns
  <2> QED BY <2>2 DEF LastTurn, TurnOf
<1>6. r \in Nat
  <2> HIDE DEF p
  <2> QED BY <1>1
<1> HIDE DEF p, r, f
<1>7. (b - 1) * p = (b * p) - p /\ b * p \in Int /\ x * p \in Int /\ b * p <= x * p
  <2>1. (b - 1) * p = (b * p) - p /\ b * p \in Int /\ x * p \in Int BY <1>1, <1>2
  <2>2. p * b <= p * x BY <1>1, <1>2
  <2>3. p * b = b * p /\ p * x = x * p BY <1>1, <1>2
  <2> QED BY <2>1, <2>2, <2>3
<1>8. x <= Buckets => b * p = x * p BY <1>2
<1> DEFINE y == b * p
           v == x * p
<1>9. /\ y \in Int /\ v \in Int /\ y <= v /\ (x <= Buckets => y = v)
      /\ f = IF u # 0 /\ u < w /\ r = 0 THEN y - p ELSE y - r
      /\ z = (v - r) - f
    BY <1>3, <1>7, <1>8
<1> HIDE DEF y, v, z
<1>10. f \in Int /\ z \in Nat BY <1>1, <1>6, <1>9
<1>11. ASSUME x <= Buckets PROVE ((u = 0 \/ w = 1) => z = 0) /\ z <= LastTurn
  <2>1. CASE u # 0 /\ u < w /\ r = 0
    <3>1. w # 1 /\ z = p BY <1>1, <1>6, <1>9, <1>11, <2>1
    <3> QED BY <1>4, <2>1, <3>1
  <2>2. CASE ~(u # 0 /\ u < w /\ r = 0)
    <3>1. z = 0 BY <1>6, <1>9, <1>11, <2>2
    <3> QED BY <1>5, <3>1
  <2> QED BY <2>1, <2>2
<1>12. v - r = f + z BY <1>6, <1>9, <1>10
<1> QED BY <1>10, <1>11, <1>12 DEF v, p, r, f

\* Where insertEntryInloop puts an entry, and as what.
InsertsAs(ws, e, delay, w, x, b, item) ==
    /\ InsertEntry(ws, e, delay) = [ws EXCEPT ![w][b] = @ \cup {item}]
    /\ b = IF x <= Buckets THEN x ELSE Buckets
    /\ Roomy /\ delay = MaxTimeout => x <= Buckets
    /\ delay < Buckets => w = 1 /\ x <= Buckets
    /\ item.entry = e /\ item.left = delay + 1 /\ (item.inTick <=> turn # 0)
    /\ Len(item.path) = w - 1
    /\ Lives(item, (x * TurnOf(w - 1)) - (ticks % TurnOf(w - 1)))

LEMMA InsertIs ==
    ASSUME NEW ws, NEW e \in Entries, NEW delay \in Nat, ticks \in Nat
    PROVE  \E w \in 1..WheelsNum, x \in Nat \ {0}, b \in 1..Buckets, item \in Item :
              InsertsAs(ws, e, delay, w, x, b, item)
<1> DEFINE d == DelayIn(ticks, delay)
           w == WheelFor(ticks, delay)
           x == d[w]
           b == IF x <= Buckets THEN x ELSE Buckets
           path == [i \in 1..(w - 1) |-> Place(ticks, d[i], i) % Buckets]
           during == turn # 0
           item == [entry |-> e, left |-> delay + 1, inTick |-> during, path |-> path]
<1>1. InsertEntry(ws, e, delay) = [ws EXCEPT ![w][b] = @ \cup {item}] BY DEF InsertEntry
<1>2. /\ d = DelayIn(ticks, delay) /\ w = WheelFor(ticks, delay) /\ x = d[w]
      /\ b = IF x <= Buckets THEN x ELSE Buckets
      /\ path = [i \in 1..(w - 1) |-> Place(ticks, d[i], i) % Buckets]
      /\ during \in BOOLEAN /\ (during <=> turn # 0)
    OBVIOUS
<1> HIDE DEF d, w, x, b, path, during
<1>3. /\ w \in 1..WheelsNum /\ x \in Nat \ {0}
      /\ Roomy /\ delay = MaxTimeout => x <= Buckets
      /\ delay < Buckets => w = 1 /\ x <= Buckets
    BY <1>2, WheelForIs
<1>4. b \in 1..Buckets
  <2>1. x \in Nat \ {0} /\ b = IF x <= Buckets THEN x ELSE Buckets BY <1>2, <1>3
  <2> QED BY <2>1, WheelTurns
<1>5. item.path = path /\ item.left = delay + 1 /\ item.entry = e OBVIOUS
<1>6. /\ path \in Seq(0..(Buckets - 1)) /\ Len(path) = w - 1
      /\ Lives(item, (x * TurnOf(w - 1)) - (ticks % TurnOf(w - 1)))
  <2> HIDE DEF item
  <2>1. InsertedItem(ticks, delay, w, item) BY <1>2, <1>5 DEF InsertedItem
  <2>2. w \in 1..WheelsNum /\ item.path = path /\ x = DelayIn(ticks, delay)[w]
      BY <1>2, <1>3, <1>5
  <2> QED BY <2>1, <2>2, InsertedLives
<1>7. item \in Item BY <1>2, <1>6 DEF Item
<1>8. item.inTick <=> turn # 0 BY <1>2
<1> HIDE DEF item
<1>9. InsertsAs(ws, e, delay, w, x, b, item)
    BY <1>1, <1>2, <1>3, <1>5, <1>6, <1>8 DEF InsertsAs
<1> QED BY <1>3, <1>4, <1>7, <1>9

LEMMA Inserted ==
    ASSUME NEW ws, Filled(ws, ticks, turn), NEW e \in Entries, NEW delay \in Nat,
           ticks \in Nat, turn \in Nat, Insertable(e, delay)
    PROVE  Filled(InsertEntry(ws, e, delay), ticks, turn)
<1>1. PICK w \in 1..WheelsNum, x \in Nat \ {0}, b \in 1..Buckets, item \in Item :
          InsertsAs(ws, e, delay, w, x, b, item)
    BY InsertIs
<1>0. /\ b = IF x <= Buckets THEN x ELSE Buckets
      /\ Roomy /\ delay = MaxTimeout => x <= Buckets
      /\ delay < Buckets => w = 1 /\ x <= Buckets
      /\ item.entry = e /\ (item.inTick <=> turn # 0) /\ Len(item.path) = w - 1
      /\ Lives(item, (x * TurnOf(w - 1)) - (ticks % TurnOf(w - 1)))
    BY <1>1 DEF InsertsAs
<1> DEFINE f == Leaves(ticks, turn, w, b)
<1>2. ASSUME Roomy PROVE \E z \in Nat : MayBeEarly(item, z) /\ Lives(item, f + z)
  <2>1. delay = MaxTimeout \/ delay < Buckets => x <= Buckets BY <1>0, <1>2
  <2>2. PICK z \in Nat :
          /\ (x * TurnOf(w - 1)) - (ticks % TurnOf(w - 1)) = f + z
          /\ x <= Buckets /\ (turn = 0 \/ w = 1) => z = 0
          /\ x <= Buckets => z <= LastTurn
    <3>1. b = IF x <= Buckets THEN x ELSE Buckets BY <1>0
    <3> QED BY <3>1, LeavesEarlier
  <2>3. Lives(item, f + z) BY <1>0, <2>2
  <2>4. MayBeEarly(item, z)
    <3>1. CASE turn = 0 /\ delay = MaxTimeout
      <4>1. z = 0 /\ z <= LastTurn BY <2>1, <2>2, <3>1
      <4> QED BY <4>1 DEF MayBeEarly
    <3>2. CASE e = "ping" /\ delay = MaxTimeout /\ turn # 0
      <4>1. z <= LastTurn /\ item.inTick /\ "ping" \notin Kicks
          BY <1>0, <2>1, <2>2, <3>2, TimeoutAssumption
      <4> QED BY <1>0, <3>2, <4>1 DEF MayBeEarly
    <3>3. CASE e \in Kicks /\ delay = Timeout /\ turn # 0
      <4>1. /\ item.inTick /\ e # "ping" /\ e # "idle"
            /\ Timeout < Buckets => z = 0
          BY <1>0, <2>2, <3>3, TimeoutAssumption
      <4> QED BY <1>0, <4>1 DEF MayBeEarly
    <3> QED BY <3>1, <3>2, <3>3 DEF Insertable
  <2> QED BY <2>3, <2>4
<1>3. Fits(item, w - 1, f) BY <1>0, <1>2 DEF Fits
<1>4. Filled([ws EXCEPT ![w][b] = @ \cup {item}], ticks, turn) BY <1>3, PutFits
<1> QED BY <1>1, <1>4 DEF InsertsAs

\* Where ~CallbackEntry puts its item, and as what.
LowersAs(ws, u, item, w, b, lower) ==
    /\ Descend(ws, item) = [ws EXCEPT ![w][b] = @ \cup {lower}]
    /\ u = w + 1 /\ Len(item.path) = w /\ b = item.path[w] + 1
    /\ lower.path \in Seq(0..(Buckets - 1)) /\ Len(lower.path) = w - 1
    /\ \A k \in 1..(w - 1) : lower.path[k] = item.path[k]
    /\ lower.left = item.left /\ (lower.inTick = item.inTick)
    /\ lower.entry = item.entry

LEMMA DescendIs ==
    ASSUME NEW ws, NEW u \in 1..WheelsNum, NEW item, Fits(item, u - 1, 0), item.path # <<>>
    PROVE  \E w \in 1..WheelsNum, b \in 1..Buckets, lower \in Item :
              LowersAs(ws, u, item, w, b, lower)
<1> DEFINE path == item.path
           w == Len(path)
           b == Last(path) + 1
           front == Front(path)
           lower == [item EXCEPT !.path = front]
<1>1. Descend(ws, item) = [ws EXCEPT ![w][b] = @ \cup {lower}] BY DEF Descend
<1> DEFINE S == 0..(Buckets - 1)
<1>2. /\ item \in Item /\ path \in Seq(S) /\ path # <<>>
      /\ w = u - 1 /\ w = Len(path) /\ b = path[w] + 1
      /\ front = SubSeq(path, 1, w - 1)
    BY DEF Fits, Item, Last, Front
<1> HIDE DEF path, w, b, front, S
<1>3. /\ w \in Nat /\ w >= 1 /\ w \in 1..w /\ w - 1 \in 0..w /\ u = w + 1
      /\ w \in 1..WheelsNum
  <2>1. Len(path) # 0 /\ Len(path) \in Nat BY <1>2
  <2> QED BY <1>2, <2>1, WheelTurns
<1>4. b \in 1..Buckets
  <2>1. path[w] \in S BY <1>2, <1>3
  <2> DEFINE x == path[w]
  <2>2. x \in 0..(Buckets - 1) /\ b = x + 1 BY <1>2, <2>1 DEF S
  <2> HIDE DEF x
  <2> QED BY <2>2, WheelTurns
<1>5. /\ front \in Seq(0..(Buckets - 1)) /\ Len(front) = w - 1
      /\ \A k \in 1..(w - 1) : front[k] = path[k]
  <2>1. w - 1 \in Nat /\ \A k \in 1..(w - 1) : k \in 1..w BY <1>3
  <2>2. front \in Seq(S) BY <1>2, <1>3, <2>1
  <2>3. Len(front) = w - 1 BY <1>2, <1>3, <2>1
  <2>4. \A k \in 1..(w - 1) : front[k] = path[k] BY <1>2, <1>3, <2>1
  <2> QED BY <2>2, <2>3, <2>4 DEF S
<1>6. lower \in Item /\ lower.path = front /\ lower.left = item.left
      /\ (lower.inTick = item.inTick) /\ lower.entry = item.entry
    BY <1>2, <1>5 DEF Item
<1> HIDE DEF lower
<1>7. Len(item.path) = w /\ b = item.path[w] + 1 BY <1>2 DEF path
<1>8. \A k \in 1..(w - 1) : lower.path[k] = item.path[k] BY <1>5, <1>6 DEF path
<1>9. LowersAs(ws, u, item, w, b, lower)
    BY <1>1, <1>3, <1>5, <1>6, <1>7, <1>8 DEF LowersAs
<1> QED BY <1>3, <1>4, <1>6, <1>9

\* ~CallbackEntry puts its item where it still has to go.
LEMMA Descended ==
    ASSUME NEW t \in Nat, NEW u \in 1..WheelsNum, NEW ws, Filled(ws, t, u),
           t % TurnOf(u - 1) = 0, NEW item, Fits(item, u - 1, 0), item.path # <<>>
    PROVE  Filled(Descend(ws, item), t, u)
<1>1. PICK w \in 1..WheelsNum, b \in 1..Buckets, lower \in Item :
          LowersAs(ws, u, item, w, b, lower)
    BY DescendIs
<1>0. /\ u = w + 1 /\ Len(item.path) = w /\ b = item.path[w] + 1
      /\ lower.path \in Seq(0..(Buckets - 1)) /\ Len(lower.path) = w - 1
      /\ \A k \in 1..(w - 1) : lower.path[k] = item.path[k]
      /\ lower.left = item.left /\ (lower.inTick = item.inTick)
      /\ lower.entry = item.entry
    BY <1>1 DEF LowersAs
<1> DEFINE f == Leaves(t, u, w, b)
           path == item.path
           front == lower.path
<1>2. f = b * TurnOf(w - 1) /\ b * TurnOf(w - 1) \in Int
  <2>1. /\ w - 1 \in 0..(u - 1) /\ u - 1 \in 0..MaxTimeout /\ u \in Nat /\ w <= u
        /\ w - 1 \in 0..WheelsNum /\ w \in Nat /\ b \in Nat
    <3>1. u = w + 1 BY <1>0
    <3>2. u \in Nat /\ u <= WheelsNum /\ w \in Nat /\ w >= 1 BY <3>1, WheelTurns
    <3>3. b \in Nat BY WheelTurns
    <3> QED BY <3>1, <3>2, <3>3, WheelTurns
  <2> DEFINE p == TurnOf(w - 1)
  <2>2. t % p = 0 BY <2>1, WholeTurns
  <2>3. p \in Nat \ {0} BY <2>1, WheelTurns
  <2>4. f = (b * p) - (t % p) BY <2>1, LeavesIs
  <2> HIDE DEF f, p
  <2>5. b * p \in Int BY <2>1, <2>3
  <2> QED BY <2>2, <2>4, <2>5 DEF p
<1> HIDE DEF f, path, front
<1>3. ASSUME Roomy PROVE \E z \in Nat : MayBeEarly(lower, z) /\ Lives(lower, f + z)
  <2>1. PICK z \in Nat : MayBeEarly(item, z) /\ Lives(item, 0 + z) BY <1>3 DEF Fits
  <2>2. MayBeEarly(lower, z) BY <1>0, <2>1 DEF MayBeEarly
  <2>3. PICK s : Sums(s, path) /\ item.left = (0 + z) + s[w]
      BY <1>0, <2>1 DEF Lives, path
  <2>4. /\ s \in [0..w -> Int] /\ s[0] = 0
        /\ \A k \in 1..w : s[k] = s[k - 1] + ((path[k] + 1) * TurnOf(k - 1))
      BY <1>0, <2>3 DEF Sums, path
  <2> DEFINE r == [k \in 0..(w - 1) |-> s[k]]
  <2>5. /\ \A k \in 0..(w - 1) : k \in 0..w
        /\ \A k \in 1..(w - 1) : k \in 1..w /\ k \in 0..(w - 1) /\ k - 1 \in 0..(w - 1)
        /\ 0 \in 0..(w - 1) /\ w - 1 \in 0..(w - 1) /\ w \in 1..w /\ w \in 0..w
      BY WheelTurns
  <2>6. r \in [0..(w - 1) -> Int] /\ r[0] = 0 /\ r[w - 1] = s[w - 1] BY <2>4, <2>5
  <2>7. ASSUME NEW k \in 1..(w - 1)
        PROVE  r[k] = r[k - 1] + ((front[k] + 1) * TurnOf(k - 1))
    <3>1. r[k] = s[k] /\ r[k - 1] = s[k - 1] /\ front[k] = path[k]
        BY <1>0, <2>5 DEF front, path
    <3>2. s[k] = s[k - 1] + ((path[k] + 1) * TurnOf(k - 1)) BY <2>4, <2>5
    <3> QED BY <3>1, <3>2
  <2> HIDE DEF r
  <2>8. Sums(r, front) BY <1>0, <2>6, <2>7 DEF Sums, front
  <2>9. item.left = (f + z) + r[w - 1]
    <3>1. s[w] = s[w - 1] + (b * TurnOf(w - 1)) BY <1>0, <2>4, <2>5 DEF path
    <3>2. s[w] \in Int /\ s[w - 1] \in Int BY <2>4, <2>5
    <3>3. item.left = z + s[w] BY <2>3, <3>2
    <3> DEFINE m == b * TurnOf(w - 1)
    <3>4. m \in Int /\ f = m BY <1>2
    <3>5. s[w] = s[w - 1] + m BY <3>1
    <3> HIDE DEF m
    <3> QED BY <2>6, <3>2, <3>3, <3>4, <3>5
  <2>10. Lives(lower, f + z) BY <1>0, <2>8, <2>9 DEF Lives, front
  <2> QED BY <2>2, <2>10
<1>4. Fits(lower, w - 1, f) BY <1>0, <1>3 DEF Fits
<1>5. Filled([ws EXCEPT ![w][b] = @ \cup {lower}], t, u) BY <1>4, PutFits DEF f
<1> QED BY <1>1, <1>5 DEF LowersAs

\* An entry without a wrapper has no time left when its bucket goes, but for
\* what it may be early.
LEMMA Spent ==
    ASSUME NEW item, NEW n, Fits(item, n, 0), item.path = <<>>, Roomy
    PROVE  item.left \in Nat /\ MayBeEarly(item, item.left)
<1>1. PICK z \in Nat : MayBeEarly(item, z) /\ Lives(item, 0 + z) BY DEF Fits
<1>2. PICK s : Sums(s, item.path) /\ item.left = (0 + z) + s[Len(item.path)]
    BY <1>1 DEF Lives
<1>3. Len(item.path) = 0 BY SMT
<1>4. s[0] = 0 BY <1>2 DEF Sums
<1>5. item.left = z BY <1>2, <1>3, <1>4
<1> QED BY <1>1, <1>5

HasBuckets(ws) == ws \in [1..WheelsNum -> [1..Buckets -> SUBSET Item]]

\* The first bucket is gone, the others have moved up.
LEMMA Popped ==
    ASSUME NEW ws, HasBuckets(ws), NEW i \in 1..WheelsNum
    PROVE  /\ HasBuckets(Pop(ws, i))
           /\ \A k \in 1..WheelsNum : k # i => Pop(ws, i)[k] = ws[k]
           /\ \A j \in 1..Buckets :
                 Pop(ws, i)[i][j] = IF j < Buckets THEN ws[i][j + 1] ELSE {}
<1> DEFINE q == ws[i]
           p == Append(Tail(q), {})
           S == SUBSET Item
<1>1. Pop(ws, i) = [ws EXCEPT ![i] = p] BY DEF Pop
<1>2. q \in [1..Buckets -> S] /\ {} \in S BY DEF HasBuckets
<1> HIDE DEF q, S
<1>3. q \in Seq(S) /\ Len(q) = Buckets /\ Len(q) >= 1 BY <1>2, WheelTurns
<1> DEFINE s == Tail(q)
<1>4. /\ s \in Seq(S) /\ Len(s) = Buckets - 1
      /\ \A j \in 1..(Buckets - 1) : s[j] = q[j + 1]
    BY <1>3, WheelTurns
<1>5. p = Append(s, {}) OBVIOUS
<1> HIDE DEF s, p
<1>6. /\ p \in Seq(S) /\ Len(p) = (Buckets - 1) + 1
      /\ \A j \in 1..(Buckets - 1) : p[j] = s[j]
      /\ p[(Buckets - 1) + 1] = {}
    BY <1>2, <1>4, <1>5
<1>7. (Buckets - 1) + 1 = Buckets BY WheelTurns
<1>8. p \in [1..Buckets -> S] BY <1>6, <1>7
<1>9. ASSUME NEW j \in 1..Buckets
      PROVE  p[j] = IF j < Buckets THEN q[j + 1] ELSE {}
  <2>1. CASE j < Buckets
    <3>1. j \in 1..(Buckets - 1) BY <2>1, WheelTurns
    <3> QED BY <1>4, <1>6, <2>1, <3>1
  <2>2. CASE ~(j < Buckets)
    <3>1. j = Buckets BY <2>2, WheelTurns
    <3> QED BY <1>6, <1>7, <2>2, <3>1
  <2> QED BY <2>1, <2>2
<1> QED BY <1>1, <1>8, <1>9 DEF q, S, HasBuckets

LEMMA AgedFits ==
    ASSUME NEW item, NEW n, NEW left \in Int, NEW f, f = left - 1, Fits(item, n, left)
    PROVE  Fits([item EXCEPT !.left = @ - 1], n, f)
<1> DEFINE older == [item EXCEPT !.left = @ - 1]
<1>1. item \in Item /\ Len(item.path) = n BY DEF Fits
<1>2. /\ older \in Item /\ older.path = item.path /\ older.left = item.left - 1
      /\ (older.inTick = item.inTick) /\ older.entry = item.entry /\ item.left \in Int
    BY <1>1 DEF Item
<1> HIDE DEF older
<1>3. ASSUME Roomy PROVE \E z \in Nat : MayBeEarly(older, z) /\ Lives(older, f + z)
  <2>1. PICK z \in Nat : MayBeEarly(item, z) /\ Lives(item, left + z) BY <1>3 DEF Fits
  <2>2. PICK s : Sums(s, item.path) /\ item.left = (left + z) + s[Len(item.path)]
      BY <2>1 DEF Lives
  <2>3. Len(item.path) \in Nat BY <1>1 DEF Item
  <2> DEFINE m == Len(item.path)
             x == s[m]
  <2>4. s \in [0..m -> Int] /\ m \in 0..m BY <2>2, <2>3 DEF Sums
  <2>5. x \in Int BY <2>4
  <2>6. item.left = (left + z) + x BY <2>2
  <2> HIDE DEF x
  <2>7. older.left = (f + z) + x BY <1>2, <2>5, <2>6
  <2>8. older.left = (f + z) + s[Len(older.path)] BY <1>2, <2>7 DEF x, m
  <2>9. Lives(older, f + z) BY <1>2, <2>2, <2>8 DEF Lives
  <2>10. MayBeEarly(older, z) BY <1>2, <2>1 DEF MayBeEarly
  <2> QED BY <2>9, <2>10
<1>4. Fits(older, n, f) BY <1>1, <1>2, <1>3 DEF Fits
<1> QED BY <1>4 DEF older

\* A tick brings every bucket a tick nearer, and those of the first wheel on.
LEMMA NextLeaves ==
    ASSUME NEW t \in 0..(TurnOf(WheelsNum) - 1), NEW n, n = (t + 1) % TurnOf(WheelsNum)
    PROVE  /\ \A i \in 1..WheelsNum : \A j \in 1..Buckets : Leaves(t, 0, i, j) \in Int
           /\ \A i \in 2..WheelsNum : \A j \in 1..Buckets :
                 Leaves(n, 1, i, j) = Leaves(t, 0, i, j) - 1
           /\ \A j \in 1..(Buckets - 1) : Leaves(n, 1, 1, j) = Leaves(t, 0, 1, j + 1) - 1
           /\ Leaves(t, 0, 1, 1) - 1 = 0
<1>1. n \in Nat /\ t \in Nat BY CounterStep, WheelTurns
<1>2. ASSUME NEW i \in 1..WheelsNum, NEW j \in 1..Buckets
      PROVE  /\ i \in Nat /\ j \in Nat /\ i - 1 \in 0..WheelsNum
             /\ Leaves(t, 0, i, j) = (j * TurnOf(i - 1)) - (t % TurnOf(i - 1))
  <2>1. i \in Nat /\ j \in Nat /\ i - 1 \in 0..WheelsNum BY WheelTurns
  <2> QED BY <1>1, <2>1, LeavesIs
<1>3. ASSUME NEW i \in 1..WheelsNum, NEW j \in 1..Buckets
      PROVE  /\ Leaves(t, 0, i, j) \in Int
             /\ i # 1 => Leaves(n, 1, i, j) = Leaves(t, 0, i, j) - 1
  <2> DEFINE p == TurnOf(i - 1)
             a == t % p
             b == n % p
             f == Leaves(t, 0, i, j)
             g == Leaves(n, 1, i, j)
  <2>1. p \in Nat \ {0} /\ j \in Nat BY <1>2, WheelTurns
  <2>2. f = (j * p) - a BY <1>2
  <2>3. (b = 0 /\ a = p - 1) \/ b = a + 1 BY <1>2, CounterStep
  <2>4. i # 1 => g = IF b = 0 THEN (j - 1) * p ELSE (j * p) - b
    <3>1. i # 1 => 1 < i BY <1>2
    <3> QED BY <3>1 DEF Leaves
  <2> HIDE DEF p, f, g
  <2>5. a \in Nat /\ b \in Nat BY <1>1, <2>1
  <2> HIDE DEF a, b
  <2>6. (j - 1) * p = (j * p) - p BY <2>1
  <2> DEFINE x == j * p
  <2>7. /\ x \in Int /\ f = x - a
        /\ i # 1 => g = IF b = 0 THEN x - p ELSE x - b
      BY <2>1, <2>2, <2>4, <2>6
  <2> HIDE DEF x
  <2>8. f \in Int BY <2>5, <2>7
  <2>9. ASSUME i # 1 PROVE g = f - 1
    <3>1. CASE b = 0 /\ a = p - 1 BY <2>1, <2>5, <2>7, <2>9, <3>1
    <3>2. CASE b = a + 1
      <4>1. b # 0 BY <2>5, <3>2
      <4> QED BY <2>5, <2>7, <2>9, <3>2, <4>1
    <3> QED BY <2>3, <3>1, <3>2
  <2> QED BY <2>8, <2>9 DEF f, g
<1>4. ASSUME NEW x \in Nat PROVE x % TurnOf(0) = 0
  <2>1. Splits(x, 1, x, 0) BY DEF Splits
  <2>2. x % 1 = 0 BY <2>1, Division
  <2> QED BY <2>2, WheelTurns
<1>5. ASSUME NEW j \in 1..Buckets
      PROVE  Leaves(t, 0, 1, j) = j /\ Leaves(n, 1, 1, j) = j
  <2>1. 1 \in 1..WheelsNum /\ j \in Nat /\ 1 - 1 = 0 BY WheelTurns
  <2>2. /\ Leaves(t, 0, 1, j) = (j * TurnOf(1 - 1)) - (t % TurnOf(1 - 1))
        /\ Leaves(n, 1, 1, j) = (j * TurnOf(1 - 1)) - (n % TurnOf(1 - 1))
      BY <1>1, <2>1, LeavesIs
  <2>3. t % TurnOf(0) = 0 /\ n % TurnOf(0) = 0 /\ TurnOf(0) = 1 BY <1>1, <1>4, WheelTurns
  <2>4. Leaves(t, 0, 1, j) = (j * 1) - 0 /\ Leaves(n, 1, 1, j) = (j * 1) - 0
      BY <2>1, <2>2, <2>3
  <2> QED BY <2>1, <2>4
<1>6. ASSUME NEW j \in 1..(Buckets - 1)
      PROVE  Leaves(n, 1, 1, j) = Leaves(t, 0, 1, j + 1) - 1
  <2>1. j \in 1..Buckets /\ j + 1 \in 1..Buckets /\ (j + 1) - 1 = j BY WheelTurns
  <2>2. Leaves(n, 1, 1, j) = j /\ Leaves(t, 0, 1, j + 1) = j + 1 BY <1>5, <2>1
  <2> QED BY <2>1, <2>2
<1>7. Leaves(t, 0, 1, 1) - 1 = 0
  <2>1. 1 \in 1..Buckets BY WheelTurns
  <2>2. Leaves(t, 0, 1, 1) = 1 BY <1>5, <2>1
  <2> QED BY <2>2
<1>8. ASSUME NEW i \in 2..WheelsNum, NEW j \in 1..Buckets
      PROVE  Leaves(n, 1, i, j) = Leaves(t, 0, i, j) - 1
  <2>1. i \in 1..WheelsNum /\ i # 1 BY WheelTurns
  <2> QED BY <1>3, <2>1
<1> QED BY <1>3, <1>6, <1>7, <1>8

-----------------------------------------------------------------------------
(* The steps of the wheels *)

\* Whatever is in the wheels has exactly its time left before it, and the wheel
\* a tick has got to is one that has its turn.
Timing ==
    /\ Filled(wheels, ticks, turn)
    /\ ticks \in 0..(TurnOf(WheelsNum) - 1) /\ turn \in 0..WheelsNum
    /\ \A item \in dying : Fits(item, turn - 1, 0)
    /\ turn = 0 => dying = {}
    /\ turn # 0 => ticks % TurnOf(turn - 1) = 0
    /\ untimely \in SUBSET Entries /\ (Roomy => untimely = {})

LEMMA TimingIs ==
    ASSUME Timing
    PROVE  /\ ticks \in Nat /\ turn \in Nat
           /\ wheels \in [1..WheelsNum -> [1..Buckets -> SUBSET Item]]
           /\ \A item \in dying : item \in Item
           /\ WheelTypeOK
<1>1. ticks \in Nat /\ turn \in Nat BY WheelTurns DEF Timing
<1>2. wheels \in [1..WheelsNum -> [1..Buckets -> SUBSET Item]] BY DEF Timing, Filled
<1>3. \A item \in dying : item \in Item BY DEF Timing, Fits
<1> QED BY <1>1, <1>2, <1>3 DEF Timing, WheelTypeOK, TurnOf

LEMMA TimingInit == WheelInit => Timing
<1> SUFFICES ASSUME WheelInit PROVE Timing OBVIOUS
<1>1. Filled(wheels, ticks, turn) BY NoneFit DEF WheelInit
<1>2. /\ ticks \in 0..(TurnOf(WheelsNum) - 1) /\ turn \in 0..WheelsNum
  <2>1. WheelsNum \in 0..WheelsNum BY WheelTurns
  <2>2. TurnOf(WheelsNum) \in Nat \ {0} BY <2>1, WheelTurns
  <2> QED BY <2>2, WheelTurns DEF WheelInit
<1> QED BY <1>1, <1>2 DEF Timing, WheelInit

LEMMA TimingKept == Timing /\ UNCHANGED wheelVars => Timing'
BY DEF Timing, wheelVars

\* A step that changes nothing but the wheels, to what fits in them.
LEMMA TimingRefilled ==
    ASSUME Timing, Filled(wheels', ticks, turn), UNCHANGED <<ticks, turn, dying, untimely>>
    PROVE  Timing'
BY DEF Timing

\* ++ticksCounter_, and the first wheel.
LEMMA TickBegins == Timing /\ TickBegin => Timing'
<1> SUFFICES ASSUME Timing, TickBegin PROVE Timing' OBVIOUS
<1> DEFINE N == WheelsNum
           older == [i \in 1..N |-> [j \in 1..Buckets |-> Aged(wheels[i][j])]]
           n == (ticks + 1) % TurnOf(N)
<1>0. /\ turn = 0 /\ turn' = 1 /\ ticks' = n /\ untimely' = untimely
      /\ dying' = older[1][1] /\ wheels' = Pop(older, 1)
    BY DEF TickBegin, TurnOf
<1>1. /\ wheels \in [1..N -> [1..Buckets -> SUBSET Item]]
      /\ \A i \in 1..N : \A j \in 1..Buckets : \A item \in wheels[i][j] :
            Fits(item, i - 1, Leaves(ticks, 0, i, j))
    BY <1>0 DEF Timing, Filled
<1>2. ticks \in 0..(TurnOf(N) - 1) BY DEF Timing
<1>3. /\ 1 \in 1..N /\ 1 \in 1..Buckets /\ 0 \in 0..N /\ 1 \in 0..N /\ 1 - 1 = 0
      /\ \A i \in 1..N : i = 1 \/ i \in 2..N
      /\ \A j \in 1..Buckets : j < Buckets => j \in 1..(Buckets - 1) /\ j + 1 \in 1..Buckets
    BY WheelTurns
<1>4. n \in 0..(TurnOf(N) - 1) BY <1>2, <1>3, CounterStep
<1>5. /\ \A i \in 1..N : \A j \in 1..Buckets : Leaves(ticks, 0, i, j) \in Int
      /\ \A i \in 2..N : \A j \in 1..Buckets :
            Leaves(n, 1, i, j) = Leaves(ticks, 0, i, j) - 1
      /\ \A j \in 1..(Buckets - 1) : Leaves(n, 1, 1, j) = Leaves(ticks, 0, 1, j + 1) - 1
      /\ Leaves(ticks, 0, 1, 1) - 1 = 0
    BY <1>2, NextLeaves
<1> HIDE DEF n
<1>6. ASSUME NEW i \in 1..N, NEW j \in 1..Buckets, NEW x \in older[i][j],
             NEW f, f = Leaves(ticks, 0, i, j) - 1
      PROVE  x \in Item /\ Fits(x, i - 1, f)
  <2>1. x \in Aged(wheels[i][j]) OBVIOUS
  <2>2. PICK item \in wheels[i][j] : x = [item EXCEPT !.left = @ - 1] BY <2>1 DEF Aged
  <2>3. Fits(item, i - 1, Leaves(ticks, 0, i, j)) BY <1>1
  <2>4. Leaves(ticks, 0, i, j) \in Int BY <1>5
  <2>5. Fits(x, i - 1, f) BY <1>6, <2>2, <2>3, <2>4, AgedFits
  <2> QED BY <2>5 DEF Fits
<1>7. older \in [1..N -> [1..Buckets -> SUBSET Item]]
  <2>1. ASSUME NEW i \in 1..N, NEW j \in 1..Buckets
        PROVE  Aged(wheels[i][j]) \in SUBSET Item
    <3>1. \A x \in older[i][j] : x \in Item BY <1>6
    <3> QED BY <3>1
  <2> QED BY <2>1
<1> HIDE DEF older
<1>8. /\ HasBuckets(wheels')
      /\ \A k \in 1..N : k # 1 => wheels'[k] = older[k]
      /\ \A j \in 1..Buckets :
            wheels'[1][j] = IF j < Buckets THEN older[1][j + 1] ELSE {}
  <2>1. HasBuckets(older) BY <1>7 DEF HasBuckets
  <2>2. 1 \in 1..WheelsNum /\ wheels' = Pop(older, 1) BY <1>0, <1>3
  <2> HIDE DEF N
  <2>3. /\ HasBuckets(Pop(older, 1))
        /\ \A k \in 1..WheelsNum : k # 1 => Pop(older, 1)[k] = older[k]
        /\ \A j \in 1..Buckets :
              Pop(older, 1)[1][j] = IF j < Buckets THEN older[1][j + 1] ELSE {}
      BY <2>1, <2>2, Popped
  <2> QED BY <2>2, <2>3 DEF N
<1>9. ASSUME NEW i \in 1..N, NEW j \in 1..Buckets, NEW x \in wheels'[i][j]
      PROVE  Fits(x, i - 1, Leaves(n, 1, i, j))
  <2>1. CASE i = 1
    <3>1. j < Buckets /\ x \in older[1][j + 1] BY <1>8, <2>1
    <3>2. j \in 1..(Buckets - 1) /\ j + 1 \in 1..Buckets BY <1>3, <3>1
    <3>3. Leaves(n, 1, 1, j) = Leaves(ticks, 0, 1, j + 1) - 1 BY <1>5, <3>2
    <3> QED BY <1>3, <1>6, <2>1, <3>1, <3>2, <3>3
  <2>2. CASE i # 1
    <3>1. x \in older[i][j] /\ i \in 2..N BY <1>3, <1>8, <2>2
    <3>2. Leaves(n, 1, i, j) = Leaves(ticks, 0, i, j) - 1 BY <1>5, <3>1
    <3> QED BY <1>6, <3>1, <3>2
  <2> QED BY <2>1, <2>2
<1>10. Filled(wheels', n, 1) BY <1>8, <1>9 DEF Filled, HasBuckets
<1>11. \A x \in dying' : Fits(x, 0, 0) BY <1>0, <1>3, <1>5, <1>6
<1>12. n % TurnOf(0) = 0
  <2>1. n \in Nat /\ TurnOf(0) = 1 BY <1>4, WheelTurns
  <2>2. Splits(n, 1, n, 0) BY <2>1 DEF Splits
  <2> QED BY <2>1, <2>2, Division
<1>13. /\ Filled(wheels', ticks', turn')
       /\ ticks' \in 0..(TurnOf(N) - 1) /\ turn' \in 0..N
       /\ \A item \in dying' : Fits(item, turn' - 1, 0)
       /\ turn' # 0 /\ ticks' % TurnOf(turn' - 1) = 0
    BY <1>0, <1>3, <1>4, <1>10, <1>11, <1>12
<1>14. untimely' \in SUBSET Entries /\ (Roomy => untimely' = {}) BY <1>0 DEF Timing
<1> QED BY <1>13, <1>14 DEF Timing

\* The next wheel has its turn, or the tick is over.
LEMMA TickGoesToNext == Timing /\ TickNext => Timing'
<1> SUFFICES ASSUME Timing, TickNext PROVE Timing' OBVIOUS
<1> DEFINE N == WheelsNum
<1>1. /\ ticks \in 0..(TurnOf(N) - 1) /\ ticks \in Nat /\ turn \in 1..N /\ turn # 0
      /\ turn \in 0..MaxTimeout /\ turn \in 0..N
      /\ ticks % TurnOf(turn - 1) = 0 /\ dying = {} /\ ticks' = ticks
      /\ untimely' = untimely /\ untimely \in SUBSET Entries /\ (Roomy => untimely = {})
    BY WheelTurns DEF Timing, TickNext
<1>2. /\ HasBuckets(wheels)
      /\ \A i \in 1..N : \A j \in 1..Buckets : \A item \in wheels[i][j] :
            Fits(item, i - 1, Leaves(ticks, turn, i, j))
    BY DEF Timing, Filled, HasBuckets
<1>3. CASE turn < N /\ ticks % TurnOf(turn) = 0
  <2> DEFINE u == turn + 1
  <2>1. turn' = u /\ dying' = wheels[u][1] /\ wheels' = Pop(wheels, u)
      BY <1>3 DEF TickNext, TurnOf
  <2>2. /\ u \in 1..N /\ u \in 0..N /\ u - 1 = turn /\ u # 0 /\ 1 \in 1..Buckets
        /\ \A j \in 1..Buckets : j < Buckets => j + 1 \in 1..Buckets
        /\ \A i \in 1..N : i # u => (u < i <=> turn < i)
      BY <1>1, <1>3, WheelTurns
  <2>3. /\ HasBuckets(wheels')
        /\ \A k \in 1..N : k # u => wheels'[k] = wheels[k]
        /\ \A j \in 1..Buckets :
              wheels'[u][j] = IF j < Buckets THEN wheels[u][j + 1] ELSE {}
      BY <1>2, <2>1, <2>2, Popped
  <2>4. ASSUME NEW i \in 1..N, i # u, NEW j \in 1..Buckets
        PROVE  Leaves(ticks, u, i, j) = Leaves(ticks, turn, i, j)
      BY <1>1, <2>2, <2>4 DEF Leaves
  <2>5. ASSUME NEW j \in 1..Buckets
        PROVE  /\ Leaves(ticks, turn, u, j) = (j - 1) * TurnOf(turn)
               /\ Leaves(ticks, u, u, j) = j * TurnOf(turn)
    <3>1. turn < u /\ ~(u < u) BY <1>1
    <3> DEFINE p == TurnOf(turn)
    <3>2. p \in Nat \ {0} /\ j \in Nat BY <1>1, WheelTurns
    <3>3. /\ Leaves(ticks, turn, u, j) = (j - 1) * p
          /\ Leaves(ticks, u, u, j) = (j * p) - 0
      <4> HIDE DEF u
      <4> QED BY <1>1, <1>3, <2>2, <3>1 DEF Leaves
    <3> HIDE DEF p, u
    <3>4. (j * p) - 0 = j * p BY <3>2
    <3> QED BY <3>3, <3>4 DEF p
  <2>6. ASSUME NEW i \in 1..N, NEW j \in 1..Buckets, NEW x \in wheels'[i][j]
        PROVE  Fits(x, i - 1, Leaves(ticks, u, i, j))
    <3>1. CASE i = u
      <4>1. j < Buckets /\ x \in wheels[u][j + 1] /\ j + 1 \in 1..Buckets
          BY <2>2, <2>3, <2>6, <3>1
      <4>2. Fits(x, u - 1, Leaves(ticks, turn, u, j + 1)) BY <1>2, <2>2, <4>1
      <4>3. (j + 1) - 1 = j BY WheelTurns
      <4>4. Leaves(ticks, turn, u, j + 1) = Leaves(ticks, u, u, j)
          BY <2>5, <4>1, <4>3
      <4> QED BY <3>1, <4>2, <4>4
    <3>2. CASE i # u
      <4>1. x \in wheels[i][j] BY <2>3, <3>2, <2>6
      <4> QED BY <1>2, <2>4, <3>2, <4>1
    <3> QED BY <3>1, <3>2
  <2>7. Filled(wheels', ticks, u) BY <2>3, <2>6 DEF Filled, HasBuckets
  <2>8. ASSUME NEW x \in dying' PROVE Fits(x, u - 1, 0)
    <3>1. Leaves(ticks, turn, u, 1) = 0
      <4>1. Leaves(ticks, turn, u, 1) = (1 - 1) * TurnOf(turn) BY <2>2, <2>5
      <4>2. TurnOf(turn) \in Nat BY <1>1, WheelTurns
      <4> QED BY <4>1, <4>2
    <3> QED BY <1>2, <2>1, <2>2, <3>1
  <2>9. /\ Filled(wheels', ticks', turn') /\ ticks' \in 0..(TurnOf(N) - 1)
        /\ turn' \in 0..N /\ \A item \in dying' : Fits(item, turn' - 1, 0)
        /\ turn' # 0 /\ ticks' % TurnOf(turn' - 1) = 0
      BY <1>1, <1>3, <2>1, <2>2, <2>7, <2>8
  <2>10. untimely' \in SUBSET Entries /\ (Roomy => untimely' = {}) BY <1>1
  <2> HIDE DEF u
  <2> QED BY <2>9, <2>10 DEF Timing
<1>4. CASE ~(turn < N /\ ticks % TurnOf(turn) = 0)
  <2>1. turn' = 0 /\ dying' = {} /\ wheels' = wheels
      BY <1>1, <1>4 DEF TickNext, TurnOf
  <2>2. ASSUME NEW i \in 1..N, NEW j \in 1..Buckets
        PROVE  Leaves(ticks, 0, i, j) = Leaves(ticks, turn, i, j)
    <3>1. ~(turn < i /\ ticks % TurnOf(i - 1) = 0)
      <4> SUFFICES ASSUME turn < i, ticks % TurnOf(i - 1) = 0 PROVE FALSE OBVIOUS
      <4>1. turn \in 0..(i - 1) /\ i - 1 \in 0..MaxTimeout /\ turn < N
          BY <1>1, WheelTurns
      <4>2. ticks % TurnOf(turn) = 0 BY <1>1, <4>1, WholeTurns
      <4> QED BY <1>4, <4>1, <4>2
    <3> QED BY <3>1 DEF Leaves
  <2>3. Filled(wheels', ticks', turn') BY <1>1, <1>2, <2>1, <2>2 DEF Filled, HasBuckets
  <2>4. 0 \in 0..N BY WheelTurns
  <2> QED BY <1>1, <2>1, <2>3, <2>4 DEF Timing
<1> QED BY <1>3, <1>4

\* A wrapped entry goes down.
LEMMA TickPutsDown == Timing /\ TickDescend => Timing'
<1> SUFFICES ASSUME Timing, TickDescend PROVE Timing' OBVIOUS
<1>1. PICK item \in dying : /\ item.path # <<>> /\ dying' = dying \ {item}
                            /\ wheels' = Descend(wheels, item)
    BY DEF TickDescend
<1>2. /\ turn # 0 /\ turn \in 1..WheelsNum /\ ticks \in Nat
      /\ Filled(wheels, ticks, turn) /\ ticks % TurnOf(turn - 1) = 0
      /\ Fits(item, turn - 1, 0) /\ ticks' = ticks /\ turn' = turn /\ untimely' = untimely
    BY TimingIs, WheelTurns DEF Timing, TickDescend
<1>3. Filled(wheels', ticks, turn) BY <1>1, <1>2, Descended
<1> QED BY <1>1, <1>2, <1>3 DEF Timing

-----------------------------------------------------------------------------
(* The users of the wheels *)

ConnInv == Timing /\ ConnTypeOK

LEMMA TimeoutConstants ==
    /\ Kicks \subseteq Entries /\ "ping" \in Entries /\ "idle" \in Entries
    /\ MaxTimeout \in Nat /\ Idle \in Nat /\ Interval = MaxTimeout /\ Idle = MaxTimeout
    /\ Timeout \in Nat /\ Parts \in Nat /\ Parts >= 1
BY TimeoutAssumption, WheelAssumption DEF Idle, Interval

LEMMA SecondsIs ==
    ASSUME NEW n \in Int
    PROVE  /\ Seconds(n) \in Int
           /\ Seconds(n + 1) = Seconds(n) + Parts /\ Seconds(n - 1) = Seconds(n) - Parts
           /\ n >= 0 => Seconds(n) >= 0
           /\ n >= 1 => Seconds(n) >= Parts
           /\ \A m \in Int : n <= m => Seconds(n) <= Seconds(m)
<1>1. Parts \in Nat BY TimeoutConstants
<1>2. n * Parts \in Int /\ (n + 1) * Parts = n * Parts + Parts
      /\ (n - 1) * Parts = n * Parts - Parts
    BY <1>1
<1>3. ASSUME NEW m \in Int, n <= m PROVE n * Parts <= m * Parts
  <2>1. m - n \in Nat BY <1>3
  <2>2. (m - n) * Parts >= 0 /\ (m - n) * Parts = m * Parts - n * Parts BY <1>1, <2>1
  <2>3. m * Parts \in Int BY <1>1
  <2> QED BY <1>2, <2>2, <2>3
<1>4. ASSUME n >= 0 PROVE n * Parts >= 0 BY <1>1, <1>4
<1>5. ASSUME n >= 1 PROVE n * Parts >= Parts
  <2>1. (n - 1) * Parts >= 0 BY <1>1, <1>5
  <2> QED BY <1>1, <1>2, <2>1
<1> QED BY <1>2, <1>3, <1>4, <1>5 DEF Seconds

LEMMA IdleIs ==
    /\ Seconds(Idle) \in Nat /\ Seconds(1) = Parts
    /\ Seconds(Idle + 1) = Seconds(Idle) + Parts /\ Seconds(Idle - 1) = Seconds(Idle) - Parts
    /\ Seconds(Idle + 2) = Seconds(Idle) + Parts + Parts
<1>1. Idle \in Int /\ Idle + 1 \in Int /\ Idle >= 0 /\ Idle + 2 = (Idle + 1) + 1 BY TimeoutConstants
<1>2. Seconds(1) = Parts BY TimeoutConstants DEF Seconds
<1>3. Seconds((Idle + 1) + 1) = Seconds(Idle + 1) + Parts BY <1>1, SecondsIs
<1>4. Seconds(Idle + 1) = Seconds(Idle) + Parts /\ Seconds(Idle - 1) = Seconds(Idle) - Parts
      /\ Seconds(Idle) \in Int /\ Seconds(Idle) >= 0
    BY <1>1, SecondsIs
<1> QED BY <1>1, <1>2, <1>3, <1>4

\* A step outside a tick inserts with the whole timeout, if anything.
LEMMA InsertedBetween ==
    ASSUME Timing, turn = 0, NEW e \in Entries, wheels' = InsertEntry(wheels, e, MaxTimeout),
           UNCHANGED <<ticks, turn, dying, untimely>>
    PROVE  Timing'
<1>1. Filled(wheels', ticks, turn)
  <2>1. Filled(wheels, ticks, turn) BY DEF Timing
  <2>2. Insertable(e, MaxTimeout) BY DEF Insertable
  <2> QED BY <2>1, <2>2, TimingIs, TimeoutConstants, Inserted
<1> QED BY <1>1, TimingRefilled

LEMMA CloseTypes ==
    ASSUME ConnTypeOK, NEW by \in {"nobody", "kick", "idle", "other"}, Close(by),
           UNCHANGED <<mode, moment, updated, keep, pings, slow, quiet>>
    PROVE  ConnTypeOK'
<1>1. kickoff' \in Kicks \cup {"none"} /\ armed' \in SUBSET Entries BY DEF ConnTypeOK, Close
<1> QED BY <1>1 DEF ConnTypeOK, Close

LEMMA ConnInitInv == TimeoutInit => ConnInv
<1> SUFFICES ASSUME TimeoutInit PROVE ConnInv OBVIOUS
<1>1. Timing BY TimingInit DEF TimeoutInit
<1> DEFINE b == FALSE
<1>2. b \in BOOLEAN /\ keep = b /\ slow = b BY DEF TimeoutInit
<1> HIDE DEF b
<1>3. keep \in BOOLEAN /\ slow \in BOOLEAN BY <1>2
<1>4. pings \in Seq(0..(Timeout + 1)) BY DEF TimeoutInit
<1>5. quiet \in 0..Seconds(Idle + 2) BY TimeoutConstants, IdleIs DEF TimeoutInit
<1>7. updated \in 0..Parts /\ moment \in 0..(Parts - 1) BY TimeoutConstants DEF TimeoutInit
<1>6. ConnTypeOK BY <1>3, <1>4, <1>5, <1>7 DEF ConnTypeOK, TimeoutInit
<1> QED BY <1>1, <1>6 DEF ConnInv

LEMMA PartTypes ==
    ASSUME ConnTypeOK, PartPasses
    PROVE  updated' \in 0..Parts /\ quiet' \in 0..Seconds(Idle + 2)
<1> DEFINE most == Seconds(Idle + 2)
<1>1. most \in Nat BY IdleIs, TimeoutConstants
<1>2. /\ updated \in 0..Parts /\ quiet \in 0..most
      /\ updated' = Capped(updated + 1, Parts)
      /\ quiet' = quiet \/ quiet' = Capped(quiet + 1, most)
    BY DEF PartPasses, ConnTypeOK
<1> HIDE DEF most
<1>3. updated' \in 0..Parts /\ quiet' \in 0..most BY <1>1, <1>2, TimeoutConstants DEF Capped
<1> QED BY <1>3 DEF most

\* Steps outside a tick.
LEMMA BetweenSteps ==
    ASSUME ConnInv, Connect \/ PeerCloses \/ Pong \/ KeepAlive \/ Stop
                    \/ ExtendLife \/ MomentPasses
    PROVE  ConnInv'
<1> USE DEF ConnInv
<1>1. CASE Connect
  <2> DEFINE e == IF mode = "idle" THEN "idle" ELSE "ping"
  <2>1. e \in Entries BY TimeoutConstants
  <2>2. Timing'
    <3>1. /\ turn = 0 /\ wheels' = InsertEntry(wheels, e, MaxTimeout)
          /\ UNCHANGED <<ticks, turn, dying, untimely>>
        BY <1>1 DEF Connect
    <3> HIDE DEF e
    <3> QED BY <2>1, <3>1, InsertedBetween
  <2>3. ConnTypeOK' BY <1>1, <2>1 DEF Connect, ConnTypeOK
  <2> QED BY <2>2, <2>3
<1>2. CASE PeerCloses
  <2>1. Timing' BY <1>2, TimingKept DEF PeerCloses
  <2>2. ConnTypeOK' BY <1>2, CloseTypes DEF PeerCloses
  <2> QED BY <2>1, <2>2
<1>3. CASE Pong
  <2>1. Timing' BY <1>3, TimingKept DEF Pong
  <2>2. pings' \in Seq(0..(Timeout + 1))
    <3> DEFINE q == pings
               S == 0..(Timeout + 1)
    <3>1. q \in Seq(S) /\ q # <<>> /\ pings' = Tail(q) BY <1>3 DEF Pong, ConnTypeOK
    <3> HIDE DEF q, S
    <3>2. Tail(q) \in Seq(S) BY <3>1
    <3> QED BY <3>1, <3>2 DEF S
  <2>3. kickoff' \in Kicks \cup {"none"} /\ armed' \in SUBSET Entries
      BY <1>3 DEF Pong, ResetKickoffEntry, ConnTypeOK
  <2>4. ConnTypeOK' BY <1>3, <2>2, <2>3 DEF Pong, ConnTypeOK
  <2> QED BY <2>1, <2>4
<1>4. CASE KeepAlive
  <2>1. Timing' BY <1>4, TimingKept DEF KeepAlive
  <2>2. keep' \in BOOLEAN
    <3> DEFINE b == TRUE
    <3>1. b \in BOOLEAN /\ keep' = b BY <1>4 DEF KeepAlive
    <3> HIDE DEF b
    <3> QED BY <3>1
  <2>3. ConnTypeOK' BY <1>4, <2>2 DEF KeepAlive, ConnTypeOK
  <2> QED BY <2>1, <2>3
<1>5. CASE Stop
  <2>1. Timing'
    <3>1. /\ wheels' = NoEntries /\ UNCHANGED <<ticks, turn, dying, untimely>>
        BY <1>5 DEF Stop
    <3>2. Filled(wheels', ticks, turn) BY <3>1, NoneFit
    <3> QED BY <3>1, <3>2, TimingRefilled
  <2>2. ConnTypeOK'
    <3>1. CASE status = "Connected"
      <4>1. Close("other") /\ UNCHANGED <<mode, moment, updated, keep, pings, slow, quiet>>
          BY <1>5, <3>1 DEF Stop
      <4> QED BY <4>1, CloseTypes
    <3>2. CASE status # "Connected" BY <1>5, <3>2 DEF Stop, ConnTypeOK
    <3> QED BY <3>1, <3>2
  <2> QED BY <2>1, <2>2
<1>6. CASE ExtendLife
  <2>1. Timing'
    <3>1. turn = 0 /\ UNCHANGED <<ticks, turn, dying, untimely>>
        BY <1>6 DEF ExtendLife, InLoop
    <3>2. CASE ~UpdatedLately
      <4>1. wheels' = InsertEntry(wheels, "idle", MaxTimeout)
          BY <1>6, <3>2, TimeoutConstants DEF ExtendLife
      <4> QED BY <3>1, <4>1, TimeoutConstants, InsertedBetween
    <3>3. CASE UpdatedLately
      <4>1. wheels' = wheels BY <1>6, <3>3 DEF ExtendLife
      <4> QED BY <3>1, <4>1, TimingKept DEF wheelVars
    <3> QED BY <3>2, <3>3
  <2>2. updated' \in 0..Parts BY <1>6, TimeoutConstants DEF ExtendLife, ConnTypeOK
  <2>3. quiet' \in 0..Seconds(Idle + 2) BY <1>6, TimeoutConstants, IdleIs DEF ExtendLife
  <2>4. ConnTypeOK' BY <1>6, <2>2, <2>3 DEF ExtendLife, ConnTypeOK
  <2> QED BY <2>1, <2>4
<1>7. CASE MomentPasses
  <2>1. Timing' BY <1>7, TimingKept DEF MomentPasses
  <2>2. moment' \in 0..(Parts - 1) BY <1>7, TimeoutConstants DEF MomentPasses, ConnTypeOK
  <2>3. updated' \in 0..Parts /\ quiet' \in 0..Seconds(Idle + 2)
      BY <1>7, PartTypes DEF MomentPasses
  <2>4. ConnTypeOK' BY <1>7, <2>2, <2>3 DEF MomentPasses, ConnTypeOK
  <2> QED BY <2>1, <2>4
<1> QED BY <1>1, <1>2, <1>3, <1>4, <1>5, <1>6, <1>7

\* The steps of a tick.
LEMMA TickSteps ==
    ASSUME ConnInv, SecondPasses \/ TickGoesOn \/ DropEntry
    PROVE  ConnInv'
<1> USE DEF ConnInv
<1>1. CASE SecondPasses
  <2>1. Timing' BY <1>1, TickBegins DEF SecondPasses
  <2>2. pings' \in Seq(0..(Timeout + 1))
    <3>1. pings \in Seq(0..(Timeout + 1)) BY DEF ConnTypeOK
    <3> DEFINE n == Len(pings)
               f == [i \in 1..n |-> Capped(pings[i] + 1, Timeout + 1)]
               S == 0..(Timeout + 1)
    <3>2. n \in Nat /\ pings' = f BY <1>1, <3>1 DEF SecondPasses
    <3>3. ASSUME NEW i \in 1..n PROVE Capped(pings[i] + 1, Timeout + 1) \in S
      <4> DEFINE x == pings[i]
      <4>1. x \in 0..(Timeout + 1)
        <5> DEFINE q == pings
        <5>1. q \in Seq(S) /\ i \in 1..Len(q) BY <3>1
        <5> HIDE DEF q, S
        <5>2. q[i] \in S BY <5>1
        <5> QED BY <5>2 DEF q, S
      <4> HIDE DEF x
      <4>2. Capped(x + 1, Timeout + 1) \in S BY <4>1, TimeoutConstants DEF Capped
      <4> QED BY <4>2 DEF x
    <3>4. f \in [1..n -> S] BY <3>3
    <3> HIDE DEF f, S, n
    <3>5. f \in Seq(S) BY <3>2, <3>4
    <3> QED BY <3>2, <3>5 DEF S
  <2>3. slow' \in BOOLEAN BY <1>1 DEF SecondPasses, ConnTypeOK
  <2>4. updated' \in 0..Parts /\ quiet' \in 0..Seconds(Idle + 2)
      BY <1>1, PartTypes DEF SecondPasses
  <2>5. moment' \in 0..(Parts - 1) BY <1>1, TimeoutConstants DEF SecondPasses
  <2>6. ConnTypeOK' BY <1>1, <2>2, <2>3, <2>4, <2>5 DEF SecondPasses, ConnTypeOK
  <2> QED BY <2>1, <2>6
<1>2. CASE TickGoesOn
  <2>1. Timing' BY <1>2, TickGoesToNext, TickPutsDown DEF TickGoesOn
  <2>2. ConnTypeOK' BY <1>2 DEF TickGoesOn, connVars, ConnTypeOK
  <2> QED BY <2>1, <2>2
<1>3. CASE DropEntry
  <2>1. PICK item \in dying :
          /\ item.path = <<>>
          /\ dying' = dying \ {item}
          /\ untimely' = IF item.left # 0 /\ ~item.inTick
                         THEN untimely \cup {item.entry} ELSE untimely
          /\ IF HeldElsewhere(item)
             THEN UNCHANGED <<wheels, kickoff, armed, pings, status, closedBy>>
             ELSE IF item.entry = "ping" THEN PingDies(wheels)
             ELSE KickDies(wheels, item.entry)
      BY <1>3 DEF DropEntry
  <2>2. turn # 0 /\ UNCHANGED <<ticks, turn, mode, moment, updated, keep, slow, quiet>>
      BY <1>3 DEF DropEntry
  <2>3. item \in Item /\ Fits(item, turn - 1, 0) BY <2>1, TimingIs DEF Timing
  <2>4. untimely' \in SUBSET Entries /\ (Roomy => untimely' = {})
    <3>1. item.entry \in Entries BY <2>3 DEF Item
    <3>2. Roomy /\ ~item.inTick => item.left = 0 BY <2>1, <2>3, Spent DEF MayBeEarly
    <3> QED BY <2>1, <3>1, <3>2 DEF Timing
  <2>5. Filled(wheels, ticks, turn) /\ ticks \in Nat /\ turn \in Nat
      BY TimingIs DEF Timing
  <2>6. Filled(wheels', ticks, turn) /\ ConnTypeOK'
    <3>1. CASE HeldElsewhere(item)
      <4>1. UNCHANGED <<wheels, kickoff, armed, pings, status, closedBy>> BY <2>1, <3>1
      <4> QED BY <2>2, <2>5, <4>1 DEF ConnTypeOK
    <3>2. CASE PingDies(wheels)
      <4>1. CASE "ping" \in armed /\ status = "Connected"
        <5>1. PICK k \in Kicks :
                /\ wheels' = InsertEntry(InsertEntry(wheels, k, Timeout), "ping", Interval)
                /\ kickoff' = k /\ armed' = armed \cup {k} /\ pings' = Append(pings, 0)
                /\ UNCHANGED <<status, closedBy>>
            BY <3>2, <4>1 DEF PingDies
        <5> DEFINE ws == InsertEntry(wheels, k, Timeout)
        <5> Insertable(k, Timeout) /\ Insertable("ping", MaxTimeout)
            BY <2>2 DEF Insertable
        <5>2. Filled(ws, ticks, turn) BY <2>5, TimeoutConstants, Inserted
        <5>3. wheels' = InsertEntry(ws, "ping", MaxTimeout) BY <5>1, TimeoutConstants
        <5> HIDE DEF ws
        <5>4. Filled(wheels', ticks, turn)
            BY <2>5, <5>2, <5>3, TimeoutConstants, Inserted
        <5>5. pings' \in Seq(0..(Timeout + 1))
          <6> DEFINE q == pings
                     S == 0..(Timeout + 1)
          <6>1. q \in Seq(S) /\ 0 \in S /\ pings' = Append(q, 0)
              BY <5>1, TimeoutConstants DEF ConnTypeOK
          <6> HIDE DEF q, S
          <6>2. Append(q, 0) \in Seq(S) BY <6>1
          <6> QED BY <6>1, <6>2 DEF S
        <5>6. armed' \in SUBSET Entries BY <5>1, TimeoutConstants DEF ConnTypeOK
        <5>7. ConnTypeOK' BY <2>2, <5>1, <5>5, <5>6 DEF ConnTypeOK
        <5> QED BY <5>4, <5>7
      <4>2. CASE ~("ping" \in armed /\ status = "Connected")
        <5>1. wheels' = wheels /\ UNCHANGED <<kickoff, armed, pings, status, closedBy>>
            BY <3>2, <4>2 DEF PingDies
        <5> QED BY <2>2, <2>5, <5>1 DEF ConnTypeOK
      <4> QED BY <4>1, <4>2
    <3>3. CASE KickDies(wheels, item.entry)
      <4>1. wheels' = wheels /\ UNCHANGED pings BY <3>3 DEF KickDies
      <4>2. \/ Close("idle") \/ Close("kick")
            \/ UNCHANGED <<kickoff, armed, status, closedBy>>
          BY <3>3 DEF KickDies
      <4>3. ConnTypeOK'
        <5>1. UNCHANGED <<mode, moment, updated, keep, pings, slow, quiet>> BY <2>2, <4>1
        <5>2. CASE Close("idle") \/ Close("kick") BY <5>1, <5>2, CloseTypes
        <5>3. CASE UNCHANGED <<kickoff, armed, status, closedBy>>
            BY <5>1, <5>3 DEF ConnTypeOK
        <5> QED BY <4>2, <5>2, <5>3
      <4> QED BY <2>5, <4>1, <4>3
    <3> QED BY <2>1, <3>1, <3>2, <3>3
  <2>7. \A x \in dying' : Fits(x, turn - 1, 0) BY <2>1 DEF Timing
  <2>8. Timing' BY <2>2, <2>4, <2>6, <2>7 DEF Timing
  <2> QED BY <2>6, <2>8
<1> QED BY <1>1, <1>2, <1>3

\* The wheels hold entries with exactly their time before them, whatever pings,
\* pongs, closes and activities come between the ticks.
THEOREM TimeoutInvariance == TimeoutSpec => []ConnInv
<1>1. TimeoutInit => ConnInv BY ConnInitInv
<1>2. ConnInv /\ [TimeoutNext]_timeoutVars => ConnInv'
  <2> SUFFICES ASSUME ConnInv, [TimeoutNext]_timeoutVars PROVE ConnInv' OBVIOUS
  <2>1. CASE TimeoutNext BY <2>1, BetweenSteps, TickSteps DEF TimeoutNext
  <2>2. CASE UNCHANGED timeoutVars
    <3>1. Timing' BY <2>2, TimingKept DEF ConnInv, timeoutVars
    <3>2. ConnTypeOK' BY <2>2 DEF ConnInv, timeoutVars, connVars, ConnTypeOK
    <3> QED BY <3>1, <3>2 DEF ConnInv
  <2> QED BY <2>1, <2>2
<1> QED BY <1>1, <1>2, PTL DEF TimeoutSpec

\* insertEntryInloop, ~CallbackEntry and the function of runEvery together: an
\* entry inserted between ticks is destroyed in the tick its delay is over, for
\* every number of wheels and buckets, every timeout and every counter.
THEOREM EntriesLeaveOnTime == TimeoutSpec => []EntriesOnTime
<1>1. ConnInv => EntriesOnTime BY TimingIs DEF ConnInv, Timing, EntriesOnTime, TimeoutTypeOK, Roomy
<1> QED BY <1>1, TimeoutInvariance, PTL

-----------------------------------------------------------------------------
(* How long the entries have to live *)

InSome(ws, x) == \E i \in 1..WheelsNum : \E j \in 1..Buckets : x \in ws[i][j]

\* The entries of the wheels and of the bucket S that is being destroyed, with
\* the ticks they have to live.
HeldIn(ws, S) ==
    {h \in Entries \X Int :
        \E x \in Item : (x \in S \/ InSome(ws, x)) /\ h = <<x.entry, x.left>>}

Held == HeldIn(wheels, dying)

LEMMA HeldIs ==
    ASSUME NEW ws, NEW S
    PROVE  /\ \A h \in HeldIn(ws, S) :
                 /\ h = <<h[1], h[2]>> /\ h[1] \in Entries /\ h[2] \in Int
                 /\ \E x \in Item : /\ x \in S \/ InSome(ws, x)
                                    /\ h = <<x.entry, x.left>>
                                    /\ h[1] = x.entry /\ h[2] = x.left
           /\ \A x \in Item : x \in S \/ InSome(ws, x) => <<x.entry, x.left>> \in HeldIn(ws, S)
<1>1. ASSUME NEW h \in HeldIn(ws, S)
      PROVE  /\ h = <<h[1], h[2]>> /\ h[1] \in Entries /\ h[2] \in Int
             /\ \E x \in Item : /\ x \in S \/ InSome(ws, x)
                                /\ h = <<x.entry, x.left>>
                                /\ h[1] = x.entry /\ h[2] = x.left
  <2>1. h \in Entries \X Int BY DEF HeldIn
  <2>2. PICK x \in Item : (x \in S \/ InSome(ws, x)) /\ h = <<x.entry, x.left>>
      BY DEF HeldIn
  <2> QED BY <2>1, <2>2
<1>2. ASSUME NEW x \in Item, x \in S \/ InSome(ws, x)
      PROVE  <<x.entry, x.left>> \in HeldIn(ws, S)
  <2>1. x.entry \in Entries /\ x.left \in Int BY DEF Item
  <2> QED BY <1>2, <2>1 DEF HeldIn
<1> QED BY <1>1, <1>2

\* What is in some bucket after one item more, or after a bucket is gone.
LEMMA SomePut ==
    ASSUME NEW ws, HasBuckets(ws), NEW i \in 1..WheelsNum, NEW j \in 1..Buckets, NEW x,
           NEW y
    PROVE  InSome([ws EXCEPT ![i][j] = @ \cup {x}], y) <=> InSome(ws, y) \/ y = x
<1> DEFINE vs == [ws EXCEPT ![i][j] = @ \cup {x}]
<1>1. ASSUME NEW k \in 1..WheelsNum, NEW l \in 1..Buckets
      PROVE  vs[k][l] = IF k = i /\ l = j THEN ws[i][j] \cup {x} ELSE ws[k][l]
    BY DEF HasBuckets
<1> HIDE DEF vs
<1>2. InSome(vs, y) <=> InSome(ws, y) \/ y = x BY <1>1 DEF InSome
<1> QED BY <1>2 DEF vs

LEMMA HeldPut ==
    ASSUME NEW ws, HasBuckets(ws), NEW i \in 1..WheelsNum, NEW j \in 1..Buckets,
           NEW x \in Item, NEW S
    PROVE  HeldIn([ws EXCEPT ![i][j] = @ \cup {x}], S) = HeldIn(ws, S) \cup {<<x.entry, x.left>>}
<1> DEFINE vs == [ws EXCEPT ![i][j] = @ \cup {x}]
<1>1. \A y : InSome(vs, y) <=> InSome(ws, y) \/ y = x BY SomePut
<1> HIDE DEF vs
<1>2. ASSUME NEW h \in HeldIn(vs, S) PROVE h \in HeldIn(ws, S) \cup {<<x.entry, x.left>>}
  <2>1. PICK y \in Item : (y \in S \/ InSome(vs, y)) /\ h = <<y.entry, y.left>> BY HeldIs
  <2>2. CASE y = x BY <2>1, <2>2
  <2>3. CASE y # x
    <3>1. y \in S \/ InSome(ws, y) BY <1>1, <2>1, <2>3
    <3> QED BY <2>1, <3>1, HeldIs
  <2> QED BY <2>2, <2>3
<1>3. ASSUME NEW h \in HeldIn(ws, S) PROVE h \in HeldIn(vs, S)
  <2>1. PICK y \in Item : (y \in S \/ InSome(ws, y)) /\ h = <<y.entry, y.left>> BY HeldIs
  <2>2. y \in S \/ InSome(vs, y) BY <1>1, <2>1
  <2> QED BY <2>1, <2>2, HeldIs
<1>4. <<x.entry, x.left>> \in HeldIn(vs, S)
  <2>1. InSome(vs, x) BY <1>1
  <2> QED BY <2>1, HeldIs
<1>5. HeldIn(vs, S) = HeldIn(ws, S) \cup {<<x.entry, x.left>>} BY <1>2, <1>3, <1>4
<1> QED BY <1>5 DEF vs

LEMMA HeldInsert ==
    ASSUME NEW ws, HasBuckets(ws), NEW e \in Entries, NEW delay \in Nat, ticks \in Nat, NEW S
    PROVE  HeldIn(InsertEntry(ws, e, delay), S) = HeldIn(ws, S) \cup {<<e, delay + 1>>}
<1>1. PICK w \in 1..WheelsNum, x \in Nat \ {0}, b \in 1..Buckets, item \in Item :
          InsertsAs(ws, e, delay, w, x, b, item)
    BY InsertIs
<1>2. /\ InsertEntry(ws, e, delay) = [ws EXCEPT ![w][b] = @ \cup {item}]
      /\ item.entry = e /\ item.left = delay + 1
    BY <1>1 DEF InsertsAs
<1>3. HeldIn([ws EXCEPT ![w][b] = @ \cup {item}], S)
         = HeldIn(ws, S) \cup {<<item.entry, item.left>>}
    BY HeldPut
<1> QED BY <1>2, <1>3

LEMMA HeldDescend ==
    ASSUME NEW ws, HasBuckets(ws), NEW u \in 1..WheelsNum, NEW S,
           NEW item \in S, Fits(item, u - 1, 0), item.path # <<>>
    PROVE  HeldIn(Descend(ws, item), S \ {item}) = HeldIn(ws, S)
<1>1. PICK w \in 1..WheelsNum, b \in 1..Buckets, lower \in Item :
          LowersAs(ws, u, item, w, b, lower)
    BY DescendIs
<1>2. /\ Descend(ws, item) = [ws EXCEPT ![w][b] = @ \cup {lower}]
      /\ lower.entry = item.entry /\ lower.left = item.left
    BY <1>1 DEF LowersAs
<1>3. HeldIn([ws EXCEPT ![w][b] = @ \cup {lower}], S \ {item})
         = HeldIn(ws, S \ {item}) \cup {<<lower.entry, lower.left>>}
    BY HeldPut
<1>4. item \in Item BY DEF Fits
<1>5. HeldIn(ws, S \ {item}) \cup {<<item.entry, item.left>>} = HeldIn(ws, S)
    BY <1>4 DEF HeldIn, Item
<1> QED BY <1>2, <1>3, <1>5

LEMMA HeldDrop ==
    ASSUME HasBuckets(wheels), NEW item \in dying, dying \subseteq Item,
           NEW R, R = HeldIn(wheels, dying \ {item})
    PROVE  /\ R \subseteq Held
           /\ Held = R \cup {<<item.entry, item.left>>}
           /\ HeldElsewhere(item) <=> \E h \in R : h[1] = item.entry
<1>1. Held = R \cup {<<item.entry, item.left>>}
  <2>1. item.entry \in Entries /\ item.left \in Int BY DEF Item
  <2> QED BY <2>1 DEF Held, HeldIn
<1>2. ASSUME HeldElsewhere(item) PROVE \E h \in R : h[1] = item.entry
  <2>1. PICK y : (y \in dying \ {item} \/ InSome(wheels, y)) /\ y.entry = item.entry
      BY <1>2 DEF HeldElsewhere, InSome, HasBuckets
  <2>2. y \in Item BY <2>1 DEF InSome, HasBuckets
  <2>3. <<y.entry, y.left>> \in R BY <2>1, <2>2, HeldIs
  <2>4. <<y.entry, y.left>>[1] = item.entry BY <2>1
  <2> QED BY <2>3, <2>4
<1>3. ASSUME NEW h \in R, h[1] = item.entry PROVE HeldElsewhere(item)
  <2>1. PICK y \in Item : /\ y \in dying \ {item} \/ InSome(wheels, y)
                          /\ h[1] = y.entry
      BY HeldIs
  <2> QED BY <1>3, <2>1 DEF HeldElsewhere, InSome, HasBuckets
<1> QED BY <1>1, <1>2, <1>3

\* A bucket that is taken out is the bucket that is destroyed.
LEMMA SomePop ==
    ASSUME NEW ws, HasBuckets(ws), NEW i \in 1..WheelsNum, NEW y
    PROVE  y \in ws[i][1] \/ InSome(Pop(ws, i), y) <=> InSome(ws, y)
<1> DEFINE vs == Pop(ws, i)
<1>1. /\ \A k \in 1..WheelsNum : k # i => vs[k] = ws[k]
      /\ \A j \in 1..Buckets : vs[i][j] = IF j < Buckets THEN ws[i][j + 1] ELSE {}
    BY Popped
<1> HIDE DEF vs
<1>2. ASSUME y \in ws[i][1] PROVE InSome(ws, y)
  <2>1. 1 \in 1..Buckets BY WheelTurns
  <2> QED BY <1>2, <2>1 DEF InSome
<1>3. ASSUME InSome(vs, y) PROVE InSome(ws, y)
  <2>1. PICK k \in 1..WheelsNum, j \in 1..Buckets : y \in vs[k][j] BY <1>3 DEF InSome
  <2>2. CASE k = i
    <3>1. j < Buckets /\ y \in ws[i][j + 1] BY <1>1, <2>1, <2>2
    <3>2. j + 1 \in 1..Buckets BY <3>1, WheelTurns
    <3> QED BY <3>1, <3>2 DEF InSome
  <2>3. CASE k # i BY <1>1, <2>1, <2>3 DEF InSome
  <2> QED BY <2>2, <2>3
<1>4. ASSUME InSome(ws, y) PROVE y \in ws[i][1] \/ InSome(vs, y)
  <2>1. PICK k \in 1..WheelsNum, j \in 1..Buckets : y \in ws[k][j] BY <1>4 DEF InSome
  <2>2. CASE k = i /\ j # 1
    <3>1. j - 1 \in 1..Buckets /\ j - 1 < Buckets /\ (j - 1) + 1 = j BY <2>2, WheelTurns
    <3>2. y \in vs[i][j - 1] BY <1>1, <2>1, <2>2, <3>1
    <3> QED BY <3>1, <3>2 DEF InSome
  <2>3. CASE k # i BY <1>1, <2>1, <2>3 DEF InSome
  <2> QED BY <2>1, <2>2, <2>3
<1> QED BY <1>2, <1>3, <1>4 DEF vs

LEMMA HeldPop ==
    ASSUME NEW ws, HasBuckets(ws), NEW i \in 1..WheelsNum
    PROVE  HeldIn(Pop(ws, i), ws[i][1]) = HeldIn(ws, {})
<1>1. \A y : y \in ws[i][1] \/ InSome(Pop(ws, i), y) <=> y \in {} \/ InSome(ws, y)
    BY SomePop
<1> QED BY <1>1 DEF HeldIn

\* A tick takes one tick off the life of everything.
LEMMA HeldTick ==
    ASSUME HasBuckets(wheels), dying = {}, TickBegin
    PROVE  /\ \A h \in Held : <<h[1], h[2] - 1>> \in Held'
           /\ \A h \in Held' : <<h[1], h[2] + 1>> \in Held
<1> DEFINE older == [i \in 1..WheelsNum |-> [j \in 1..Buckets |-> Aged(wheels[i][j])]]
           Older(x) == [x EXCEPT !.left = @ - 1]
<1>1. dying' = older[1][1] /\ wheels' = Pop(older, 1) /\ 1 \in 1..WheelsNum
    BY WheelTurns DEF TickBegin
<1>2. ASSUME NEW x \in Item
      PROVE  Older(x) \in Item /\ Older(x).entry = x.entry /\ Older(x).left = x.left - 1
             /\ x.left \in Int
    BY DEF Item
<1>3. \A i \in 1..WheelsNum : \A j \in 1..Buckets :
         older[i][j] = {Older(x) : x \in wheels[i][j]}
    BY DEF Aged
<1> HIDE DEF older, Older
<1>4. HasBuckets(older)
  <2>1. ASSUME NEW i \in 1..WheelsNum, NEW j \in 1..Buckets
        PROVE  Aged(wheels[i][j]) \in SUBSET Item
    <3>1. wheels[i][j] \subseteq Item BY DEF HasBuckets
    <3> QED BY <1>2, <3>1 DEF Aged, Older
  <2> QED BY <2>1 DEF HasBuckets, older
<1>5. Held' = HeldIn(older, {}) BY <1>1, <1>4, HeldPop DEF Held
<1>6. Held = HeldIn(wheels, {}) BY DEF Held
<1>7. ASSUME NEW h \in Held PROVE <<h[1], h[2] - 1>> \in HeldIn(older, {})
  <2>1. PICK x \in Item : InSome(wheels, x) /\ h[1] = x.entry /\ h[2] = x.left
      BY <1>6, HeldIs
  <2>2. InSome(older, Older(x)) BY <1>3, <2>1 DEF InSome
  <2>3. <<Older(x).entry, Older(x).left>> \in HeldIn(older, {}) BY <1>2, <2>2, HeldIs
  <2> QED BY <1>2, <2>1, <2>3
<1>8. ASSUME NEW h \in HeldIn(older, {}) PROVE <<h[1], h[2] + 1>> \in HeldIn(wheels, {})
  <2>1. PICK y \in Item : InSome(older, y) /\ h[1] = y.entry /\ h[2] = y.left BY HeldIs
  <2>2. PICK i \in 1..WheelsNum, j \in 1..Buckets : y \in older[i][j]
      BY <2>1 DEF InSome
  <2>3. PICK x \in wheels[i][j] : y = Older(x) BY <1>3, <2>2
  <2>4. x \in Item /\ InSome(wheels, x) BY <2>3 DEF InSome, HasBuckets
  <2>5. <<x.entry, x.left>> \in HeldIn(wheels, {}) BY <2>4, HeldIs
  <2>6. h[1] = x.entry /\ h[2] + 1 = x.left BY <1>2, <2>1, <2>3, <2>4
  <2> QED BY <2>5, <2>6
<1> QED BY <1>5, <1>6, <1>7, <1>8

LEMMA HeldNone == HeldIn(NoEntries, {}) = {}
<1>1. \A x : ~InSome(NoEntries, x) BY DEF InSome, NoEntries
<1> QED BY <1>1 DEF HeldIn

-----------------------------------------------------------------------------
(* Nothing is overdue *)

LEMMA SumsNat ==
    ASSUME NEW path \in Seq(0..(Buckets - 1)), Len(path) <= WheelsNum, NEW s, Sums(s, path)
    PROVE  s[Len(path)] \in Nat
<1> DEFINE m == Len(path)
           S == {k \in 0..m : s[k] \in Nat}
<1>1. m \in Nat /\ m <= WheelsNum BY WheelTurns
<1>2. /\ s[0] = 0
      /\ \A k \in 1..m : s[k] = s[k - 1] + ((path[k] + 1) * TurnOf(k - 1))
    BY DEF Sums
<1>3. \A k \in 1..m : path[k] \in Nat
  <2> DEFINE q == path
             R == 0..(Buckets - 1)
  <2>1. q \in Seq(R) /\ m = Len(q) OBVIOUS
  <2> HIDE DEF q, R
  <2>2. \A k \in 1..m : q[k] \in R BY <2>1
  <2>3. \A x \in R : x \in Nat BY WheelTurns DEF R
  <2> QED BY <2>2, <2>3 DEF q
<1> HIDE DEF m
<1>4. 0 \in S BY <1>1, <1>2
<1>5. ASSUME NEW n \in 0..(m - 1), n \in S PROVE n + 1 \in S
  <2> DEFINE k == n + 1
             p == TurnOf(n)
             e == path[k]
  <2>1. k \in 1..m /\ k \in 0..m /\ k - 1 = n /\ n \in 0..WheelsNum BY <1>1, WheelTurns
  <2>2. p \in Nat /\ s[n] \in Nat BY <1>5, <2>1, WheelTurns
  <2>3. e \in Nat BY <1>3, <2>1
  <2>4. s[k] = s[n] + ((e + 1) * p) BY <1>2, <2>1
  <2> HIDE DEF k, p, e
  <2>5. (e + 1) * p \in Nat BY <2>2, <2>3
  <2>6. s[k] \in Nat BY <2>2, <2>4, <2>5
  <2> QED BY <2>1, <2>6 DEF k
<1> HIDE DEF S
<1>6. m \in S
  <2>1. \A n \in 0..m : n \in S BY <1>1, <1>4, <1>5, CountedUp
  <2> QED BY <1>1, <2>1
<1> QED BY <1>6 DEF S, m

LEMMA LeavesNat ==
    ASSUME NEW t \in Nat, NEW u \in Nat, NEW i \in 1..WheelsNum, NEW j \in 1..Buckets
    PROVE  Leaves(t, u, i, j) \in Nat /\ (u = 0 => Leaves(t, u, i, j) >= 1)
<1> DEFINE p == TurnOf(i - 1)
           r == t % p
<1>1. p \in Nat \ {0} /\ j \in Nat /\ j >= 1
  <2>1. i - 1 \in 0..WheelsNum BY WheelTurns
  <2> QED BY <2>1, WheelTurns
<1>2. Leaves(t, u, i, j) = IF u # 0 /\ u < i /\ r = 0 THEN (j - 1) * p ELSE (j * p) - r
    BY DEF Leaves
<1> HIDE DEF p
<1>3. r \in 0..(p - 1) BY <1>1
<1> HIDE DEF r
<1>4. (j - 1) * p \in Nat /\ j * p = ((j - 1) * p) + p BY <1>1
<1> DEFINE x == (j - 1) * p
           y == j * p
<1>5. /\ x \in Nat /\ y = x + p
      /\ Leaves(t, u, i, j) = IF u # 0 /\ u < i /\ r = 0 THEN x ELSE y - r
    BY <1>2, <1>4
<1> HIDE DEF x, y
<1> QED BY <1>1, <1>3, <1>5

\* What fits for so many ticks has at least so many to live.
LEMMA LeftAtLeast ==
    ASSUME NEW item, NEW n, NEW left \in Nat, Fits(item, n, left), n <= WheelsNum, Roomy
    PROVE  item.left \in Nat /\ item.left >= left
<1>1. PICK z \in Nat : Lives(item, left + z) BY DEF Fits
<1>2. PICK s : Sums(s, item.path) /\ item.left = (left + z) + s[Len(item.path)]
    BY <1>1 DEF Lives
<1>3. item.path \in Seq(0..(Buckets - 1)) /\ Len(item.path) <= WheelsNum BY DEF Fits, Item
<1>4. s[Len(item.path)] \in Nat BY <1>2, <1>3, SumsNat
<1> DEFINE x == s[Len(item.path)]
<1>5. x \in Nat /\ item.left = (left + z) + x BY <1>2, <1>4
<1> HIDE DEF x
<1> QED BY <1>5

\* An entry that is still in the wheels has its time before it.
LEMMA NothingOverdue ==
    ASSUME Timing, Roomy, NEW h \in Held
    PROVE  h[2] \in Nat /\ (turn = 0 => h[2] >= 1)
<1>1. PICK x \in Item : (x \in dying \/ InSome(wheels, x)) /\ h[2] = x.left
    BY HeldIs DEF Held
<1>2. CASE x \in dying
  <2>1. turn # 0 /\ Fits(x, turn - 1, 0) /\ turn - 1 <= WheelsNum
      BY <1>2, WheelTurns DEF Timing
  <2>2. x.left \in Nat BY <2>1, LeftAtLeast
  <2> QED BY <1>1, <2>1, <2>2
<1>3. CASE InSome(wheels, x)
  <2>1. PICK i \in 1..WheelsNum, j \in 1..Buckets : x \in wheels[i][j] BY <1>3 DEF InSome
  <2> DEFINE f == Leaves(ticks, turn, i, j)
  <2>2. Fits(x, i - 1, f) /\ i - 1 <= WheelsNum
    <3>1. Fits(x, i - 1, f) BY <2>1 DEF Timing, Filled
    <3> QED BY <3>1, WheelTurns
  <2>3. f \in Nat /\ (turn = 0 => f >= 1) BY TimingIs, LeavesNat
  <2> HIDE DEF f
  <2>4. x.left \in Nat /\ x.left >= f BY <2>2, <2>3, LeftAtLeast
  <2> QED BY <1>1, <2>3, <2>4
<1> QED BY <1>1, <1>2, <1>3

-----------------------------------------------------------------------------
(* Why connections are closed in time *)

\* The condition of PingPongInTime.
Regular == Timeout < Buckets /\ Timeout < ShortestInterval

\* Nothing is watched before the connection callback.
FreshRule ==
    status = "new" =>
        Held = {} /\ pings = <<>> /\ armed = {} /\ quiet = 0 /\ ~keep

\* The parts of a second until an entry dies that has so many ticks left.
Life(left) == Seconds(left) - moment

\* What is promised by an entry with that time to live: it lasts longer than the
\* silence may, and almost a whole timeout from the last update of the wheels.
Covers(life) ==
    /\ life + quiet > Seconds(Idle - 1)
    /\ updated < Parts => life + updated > Seconds(Idle)

\* The idle entry is held for as long as the connection may still be quiet.
IdleWatched ==
    /\ \A h \in Held : Life(h[2]) + quiet <= Seconds(Idle + 1)
    /\ ~keep => "idle" \in armed /\ \E h \in Held : Covers(Life(h[2]))

IdleRule ==
    mode = "idle" =>
        /\ \A h \in Held : h[1] = "idle"
        /\ pings = <<>> /\ closedBy # "kick"
        /\ keep => armed = {}
        /\ closedBy = "idle" => quiet > Seconds(Idle - 1) /\ ~keep /\ status = "Disconnected"
        /\ status = "Connected" => IdleWatched

\* Every ping that waits for its pong has a kick-off entry, with the time left
\* for the pong, and no other kick-off entry is armed.
EveryPingWatched ==
    \A i \in 1..Len(pings) : \E h \in Held :
        h[1] \in armed /\ h[1] \in Kicks /\ h[2] = Timeout + 1 - pings[i]

OnlyPingsWatched ==
    \A h \in Held : h[1] \in armed /\ h[1] \in Kicks =>
        \E i \in 1..Len(pings) : h[2] = Timeout + 1 - pings[i]

\* The next ping is sent when those before it are over.
PingsApart ==
    \A h \in Held : h[1] = "ping" => \A i \in 1..Len(pings) :
        pings[i] > Timeout \/ pings[i] + h[2] >= Interval + 1

\* kickoffEntries_ has the entry of the only ping that is not over.
KickoffKnown ==
    /\ Len(pings) > 1 => pings[1] > Timeout
    /\ Len(pings) = 0 => \A k \in Kicks : k \notin armed
    /\ Len(pings) = 1 => \A k \in Kicks : k \in armed => k = kickoff

PingsWatched == EveryPingWatched /\ OnlyPingsWatched /\ PingsApart /\ KickoffKnown

PingRule ==
    mode = "pingPong" =>
        /\ closedBy # "idle" /\ ~keep
        /\ \A h \in Held : h[1] \in Kicks \/ h[1] = "ping"
        /\ \A g, h \in Held : g[1] = h[1] /\ g[1] \in Kicks => g = h
        /\ \A i \in 1..Len(pings) : pings[i] > Timeout => slow
        /\ Regular => /\ closedBy = "kick" => slow
                      /\ status = "Connected" => PingsWatched

PeerRules == FreshRule /\ IdleRule /\ PingRule

LEMMA PingsIs ==
    ASSUME ConnTypeOK
    PROVE  /\ Len(pings) \in Nat /\ DOMAIN pings = 1..Len(pings)
           /\ \A i \in 1..Len(pings) : pings[i] \in 0..(Timeout + 1)
           /\ pings = <<>> <=> Len(pings) = 0
<1> DEFINE q == pings
           S == 0..(Timeout + 1)
<1>1. q \in Seq(S) BY DEF ConnTypeOK
<1> HIDE DEF q, S
<1>2. /\ Len(q) \in Nat /\ DOMAIN q = 1..Len(q)
      /\ \A i \in 1..Len(q) : q[i] \in S
      /\ q = <<>> <=> Len(q) = 0
    BY <1>1
<1> QED BY <1>2 DEF q, S

LEMMA TypesNow ==
    ASSUME ConnInv
    PROVE  /\ HasBuckets(wheels) /\ dying \subseteq Item /\ ticks \in Nat
           /\ status \in {"new", "Connected", "Disconnected"} /\ mode \in {"pingPong", "idle"}
           /\ updated \in 0..Parts /\ moment \in 0..(Parts - 1)
           /\ quiet \in 0..Seconds(Idle + 2) /\ quiet \in Nat
           /\ armed \in SUBSET Entries /\ kickoff \in Kicks \cup {"none"}
BY TimingIs, TimeoutConstants, IdleIs DEF ConnInv, ConnTypeOK, HasBuckets

LEMMA Names ==
    /\ \A k \in Kicks : k # "ping" /\ k # "idle" /\ k # "none" /\ k \in Entries
    /\ "ping" \in Entries /\ "idle" \in Entries
BY TimeoutAssumption

LEMMA RulesInit == TimeoutInit => PeerRules
<1> SUFFICES ASSUME TimeoutInit PROVE PeerRules OBVIOUS
<1>1. Held = {} BY HeldNone DEF TimeoutInit, WheelInit, Held
<1>2. FreshRule BY <1>1 DEF FreshRule, TimeoutInit
<1>3. IdleRule BY <1>1 DEF IdleRule, TimeoutInit
<1>4. Len(pings) = 0 BY DEF TimeoutInit
<1>5. PingRule BY <1>1, <1>4 DEF PingRule, TimeoutInit
<1> QED BY <1>2, <1>3, <1>5 DEF PeerRules

LEMMA LongerCovers ==
    ASSUME ConnInv, NEW n \in Int, NEW m \in Int, m >= n, Covers(Life(n))
    PROVE  Covers(Life(m))
<1> DEFINE x == Seconds(n)
           y == Seconds(m)
           long == Seconds(Idle)
           least == Seconds(Idle - 1)
<1>1. x \in Int /\ y \in Int /\ y >= x BY SecondsIs
<1>2. moment \in Int /\ quiet \in Int /\ updated \in Int BY TypesNow, TimeoutConstants
<1>3. long \in Int /\ least \in Int BY IdleIs, TimeoutConstants
<1>4. (x - moment) + quiet > least /\ (updated < Parts => (x - moment) + updated > long)
    BY DEF Covers, Life
<1> HIDE DEF x, y, long, least
<1>5. (y - moment) + quiet > least /\ (updated < Parts => (y - moment) + updated > long)
    BY <1>1, <1>2, <1>3, <1>4
<1> QED BY <1>5 DEF Covers, Life, y, long, least

\* An entry just inserted covers the whole timeout.
LEMMA NewCovers ==
    ASSUME ConnInv
    PROVE  /\ Life(Idle + 1) \in Int /\ Life(Idle + 1) <= Seconds(Idle + 1)
           /\ Life(Idle + 1) > Seconds(Idle)
<1> DEFINE long == Seconds(Idle)
<1>1. Seconds(Idle + 1) = long + Parts /\ long \in Nat BY IdleIs
<1>2. moment \in 0..(Parts - 1) /\ Parts \in Nat BY TypesNow, TimeoutConstants
<1> HIDE DEF long
<1>3. (long + Parts) - moment \in Int /\ (long + Parts) - moment <= long + Parts
      /\ (long + Parts) - moment > long
    BY <1>1, <1>2
<1> QED BY <1>1, <1>3 DEF Life, long

LEMMA LifeIs == ConnInv => \A h \in Held : Life(h[2]) \in Int
<1> SUFFICES ASSUME ConnInv, NEW h \in Held PROVE Life(h[2]) \in Int OBVIOUS
<1>1. h[2] \in Int BY HeldIs DEF Held
<1>2. Seconds(h[2]) \in Int BY <1>1, SecondsIs
<1>3. moment \in Int BY TypesNow, TimeoutConstants
<1> QED BY <1>2, <1>3 DEF Life

\* A connection that is closed, for a reason.
LEMMA ClosedRules ==
    ASSUME ConnInv, PeerRules, status' = "Disconnected", Held' \subseteq Held,
           armed' \subseteq armed, UNCHANGED <<mode, keep, pings, slow, quiet>>,
           \/ closedBy' = closedBy /\ status = "Disconnected"
           \/ closedBy' = "other"
           \/ closedBy' = "kick" /\ mode = "pingPong" /\ (Regular => slow)
           \/ closedBy' = "idle" /\ mode = "idle" /\ quiet > Seconds(Idle - 1) /\ ~keep
    PROVE  PeerRules'
<1>1. FreshRule' BY DEF FreshRule
<1>2. IdleRule' BY DEF PeerRules, IdleRule
<1>3. PingRule'
  <2>1. mode' = "pingPong" => mode = "pingPong" OBVIOUS
  <2>2. \A h \in Held' : h \in Held OBVIOUS
  <2> QED BY <2>1, <2>2 DEF PeerRules, PingRule, Regular
<1> QED BY <1>1, <1>2, <1>3 DEF PeerRules

\* Entries are taken out of the wheels, and nothing else happens.
LEMMA FewerRules ==
    ASSUME ConnInv, PeerRules, UNCHANGED connVars, Held' \subseteq Held,
           mode = "idle" /\ status = "Connected" /\ ~keep =>
               \A h \in Held : \E g \in Held' : g[2] >= h[2],
           mode = "pingPong" /\ status = "Connected" =>
               \A h \in Held : h[1] \in armed /\ h[1] \in Kicks => h \in Held'
    PROVE  PeerRules'
<1> USE DEF connVars
<1>0. \A h \in Held' : h \in Held OBVIOUS
<1>1. FreshRule' BY DEF PeerRules, FreshRule
<1>2. ASSUME mode = "idle", status = "Connected" PROVE IdleWatched'
  <2>1. IdleWatched BY <1>2 DEF PeerRules, IdleRule
  <2>2. \A h \in Held' : Life(h[2])' + quiet <= Seconds(Idle + 1)
      BY <1>0, <2>1 DEF IdleWatched, Life
  <2>3. ASSUME ~keep PROVE \E h \in Held' : Covers(Life(h[2]))'
    <3>1. PICK h \in Held : Covers(Life(h[2])) BY <2>1, <2>3 DEF IdleWatched
    <3>2. PICK g \in Held' : g[2] >= h[2] BY <1>2, <2>3
    <3>3. h[2] \in Int /\ g[2] \in Int BY <1>0, HeldIs DEF Held
    <3>4. Covers(Life(g[2])) BY <3>1, <3>2, <3>3, LongerCovers
    <3> QED BY <3>4 DEF Covers, Life
  <2> QED BY <2>1, <2>2, <2>3 DEF IdleWatched
<1>3. IdleRule' BY <1>0, <1>2 DEF PeerRules, IdleRule
<1>4. ASSUME mode = "pingPong", Regular, status = "Connected" PROVE PingsWatched'
  <2>1. PingsWatched BY <1>4 DEF PeerRules, PingRule
  <2>2. EveryPingWatched' BY <1>4, <2>1 DEF PingsWatched, EveryPingWatched
  <2>3. OnlyPingsWatched' BY <1>0, <2>1 DEF PingsWatched, OnlyPingsWatched
  <2>4. PingsApart' BY <1>0, <2>1 DEF PingsWatched, PingsApart
  <2>5. KickoffKnown' BY <2>1 DEF PingsWatched, KickoffKnown
  <2> QED BY <2>2, <2>3, <2>4, <2>5 DEF PingsWatched
<1>5. PingRule' BY <1>0, <1>4 DEF PeerRules, PingRule, Regular
<1> QED BY <1>1, <1>3, <1>5 DEF PeerRules

\* Steps outside a tick.
LEMMA ConnectRules == ConnInv /\ PeerRules /\ Connect => PeerRules'
<1> SUFFICES ASSUME ConnInv, PeerRules, Connect PROVE PeerRules' OBVIOUS
<1> DEFINE e == IF mode = "idle" THEN "idle" ELSE "ping"
<1>1. /\ status = "new" /\ status' = "Connected" /\ armed' = {e}
      /\ wheels' = InsertEntry(wheels, e, MaxTimeout)
      /\ UNCHANGED <<dying, mode, kickoff, moment, updated, keep, pings, slow, quiet, closedBy>>
    BY DEF Connect
<1>2. Held = {} /\ pings = <<>> /\ quiet = 0 /\ ~keep BY <1>1 DEF PeerRules, FreshRule
<1>3. /\ mode = "idle" => e = "idle"
      /\ mode = "pingPong" => e = "ping"
      /\ e \in Entries /\ MaxTimeout \in Nat
    BY TimeoutConstants
<1> HIDE DEF e
<1>4. Held' = {<<e, MaxTimeout + 1>>}
  <2>1. HeldIn(InsertEntry(wheels, e, MaxTimeout), dying) = Held \cup {<<e, MaxTimeout + 1>>}
      BY <1>3, TypesNow, HeldInsert DEF Held
  <2> QED BY <1>1, <1>2, <2>1 DEF Held
<1>5. FreshRule' BY <1>1 DEF FreshRule
<1>6. IdleRule'
  <2> SUFFICES ASSUME mode = "idle" PROVE IdleRule' BY <1>1 DEF IdleRule
  <2> DEFINE h == <<"idle", MaxTimeout + 1>>
  <2>1. Held' = {h} /\ h[1] = "idle" /\ h[2] = Idle + 1 BY <1>3, <1>4, TimeoutConstants
  <2> HIDE DEF h
  <2>2. IdleWatched'
    <3>1. "idle" \in armed' BY <1>1, <1>3
    <3> DEFINE x == Life(Idle + 1)
               long == Seconds(Idle)
               least == Seconds(Idle - 1)
    <3>2. x \in Int /\ x <= Seconds(Idle + 1) /\ x > long BY NewCovers
    <3>3. long \in Nat /\ least = long - Parts /\ Parts \in Nat /\ updated \in Nat
          /\ Seconds(Idle + 1) \in Int
        BY IdleIs, TypesNow, TimeoutConstants
    <3>4. quiet' = 0 /\ updated' = updated /\ Life(h[2])' = x BY <1>1, <1>2, <2>1 DEF Life
    <3> HIDE DEF x, long, least
    <3>5. x + 0 > least /\ x + updated > long /\ x + 0 <= Seconds(Idle + 1) BY <3>2, <3>3
    <3>6. Covers(Life(h[2]))' BY <3>4, <3>5 DEF Covers, long, least
    <3> QED BY <2>1, <3>1, <3>4, <3>5, <3>6 DEF IdleWatched
  <2> QED BY <1>1, <1>2, <2>1, <2>2 DEF PeerRules, IdleRule
<1>7. PingRule'
  <2> SUFFICES ASSUME mode = "pingPong" PROVE PingRule' BY <1>1 DEF PingRule
  <2>1. armed' = {"ping"} /\ Len(pings') = 0 BY <1>1, <1>2, <1>3
  <2>2. PingsWatched'
    <3>1. \A k \in Kicks : k \notin armed' BY <2>1, Names
    <3>2. \A h \in Held' : h[1] \notin Kicks BY <1>3, <1>4, Names
    <3>3. \A i \in 1..Len(pings') : FALSE BY <2>1
    <3> QED BY <2>1, <3>1, <3>2, <3>3
        DEF PingsWatched, EveryPingWatched, OnlyPingsWatched, PingsApart, KickoffKnown
  <2> QED BY <1>1, <1>3, <1>4, <2>1, <2>2 DEF PeerRules, PingRule, Regular
<1> QED BY <1>5, <1>6, <1>7 DEF PeerRules

LEMMA PeerClosesRules == ConnInv /\ PeerRules /\ PeerCloses => PeerRules'
<1> SUFFICES ASSUME ConnInv, PeerRules, PeerCloses PROVE PeerRules' OBVIOUS
<1>1. Held' = Held BY DEF PeerCloses, wheelVars, Held
<1> QED BY <1>1, ClosedRules DEF PeerCloses, Close

LEMMA StopRules == ConnInv /\ PeerRules /\ Stop => PeerRules'
<1> SUFFICES ASSUME ConnInv, PeerRules, Stop PROVE PeerRules' OBVIOUS
<1>1. Held' = {}
  <2>1. dying' = {} /\ wheels' = NoEntries BY DEF Stop, ConnInv, Timing
  <2> QED BY <2>1, HeldNone DEF Held
<1>2. status # "new" BY DEF Stop
<1>3. CASE status = "Connected" BY <1>1, <1>3, ClosedRules DEF Stop, Close
<1>4. CASE status = "Disconnected" BY <1>1, <1>4, ClosedRules DEF Stop
<1> QED BY <1>2, <1>3, <1>4, TypesNow

LEMMA KeepAliveRules == ConnInv /\ PeerRules /\ KeepAlive => PeerRules'
<1> SUFFICES ASSUME ConnInv, PeerRules, KeepAlive PROVE PeerRules' OBVIOUS
<1>1. /\ mode = "idle" /\ status = "Connected" /\ keep' /\ armed' = {} /\ Held' = Held
      /\ UNCHANGED <<mode, status, kickoff, moment, updated, pings, slow, quiet, closedBy>>
    BY DEF KeepAlive, InLoop, wheelVars, Held
<1>2. FreshRule' /\ PingRule' BY <1>1 DEF FreshRule, PingRule
<1>3. IdleWatched' BY <1>1 DEF PeerRules, IdleRule, IdleWatched, Life
<1>4. IdleRule' BY <1>1, <1>3 DEF PeerRules, IdleRule
<1> QED BY <1>2, <1>4 DEF PeerRules

LEMMA ExtendLifeRules == ConnInv /\ PeerRules /\ ExtendLife => PeerRules'
<1> SUFFICES ASSUME ConnInv, PeerRules, ExtendLife PROVE PeerRules' OBVIOUS
<1> DEFINE extend == ~UpdatedLately
           long == Seconds(Idle)
           least == Seconds(Idle - 1)
           most == Seconds(Idle + 1)
<1>1. /\ mode = "idle" /\ status = "Connected" /\ ~keep /\ quiet' = 0
      /\ updated' = IF extend THEN 0 ELSE updated
      /\ wheels' = IF extend THEN InsertEntry(wheels, "idle", Idle) ELSE wheels
      /\ UNCHANGED <<dying, mode, status, armed, kickoff, moment, keep, pings, slow, closedBy>>
    BY DEF ExtendLife, InLoop
<1>2. FreshRule' /\ PingRule' BY <1>1 DEF FreshRule, PingRule
<1>3. IdleRule /\ IdleWatched BY <1>1 DEF PeerRules, IdleRule
<1>4. closedBy # "idle" BY <1>1, <1>3 DEF IdleRule
<1>5. /\ Idle \in Nat /\ Parts \in Nat /\ updated \in 0..Parts /\ quiet \in Nat
      /\ long \in Nat /\ least = long - Parts /\ most = long + Parts /\ moment \in Int
    BY TypesNow, TimeoutConstants, IdleIs
<1>extend. ~extend => updated < Parts BY IdleIs DEF UpdatedLately
<1> DEFINE new == <<"idle", Idle + 1>>
<1>6. new[1] = "idle" /\ new[2] = Idle + 1 OBVIOUS
<1> HIDE DEF new, extend, long, least, most
<1>7. Held' = IF extend THEN Held \cup {new} ELSE Held
  <2>1. HeldIn(InsertEntry(wheels, "idle", Idle), dying) = Held \cup {new}
      BY <1>5, TypesNow, Names, HeldInsert DEF Held, new
  <2>2. Held' = HeldIn(wheels', dying) BY <1>1 DEF Held
  <2> QED BY <1>1, <2>1, <2>2 DEF Held
<1>8. \A n : Life(n)' = Life(n) BY <1>1 DEF Life
<1>9. /\ Life(new[2]) \in Int /\ Life(new[2]) <= most /\ Life(new[2]) > long
    BY <1>6, NewCovers DEF most, long
<1>10. IdleWatched'
  <2>1. ASSUME NEW h \in Held' PROVE Life(h[2])' + quiet' <= most
    <3> DEFINE x == Life(h[2])
    <3>1. CASE h \in Held
      <4>1. x \in Int /\ x + quiet <= most BY <1>3, <3>1, LifeIs DEF IdleWatched, most
      <4> HIDE DEF x
      <4>2. x + 0 <= most BY <1>5, <4>1
      <4> QED BY <1>1, <1>8, <4>2 DEF x
    <3>2. CASE h = new
      <4>1. x \in Int /\ x <= most BY <1>9, <3>2
      <4> HIDE DEF x
      <4>2. x + 0 <= most BY <1>5, <4>1
      <4> QED BY <1>1, <1>8, <4>2 DEF x
    <3> QED BY <1>7, <2>1, <3>1, <3>2
  <2>2. \E h \in Held' : Covers(Life(h[2]))'
    <3>1. CASE extend
      <4> DEFINE x == Life(new[2])
      <4>1. x \in Int /\ x > long BY <1>9
      <4> HIDE DEF x
      <4>2. x + 0 > least /\ x + 0 > long BY <1>5, <4>1
      <4>3. quiet' = 0 /\ updated' = 0 /\ Life(new[2])' = x BY <1>1, <1>8, <3>1 DEF x
      <4>4. Covers(Life(new[2]))' BY <4>2, <4>3 DEF Covers, long, least
      <4> QED BY <1>7, <3>1, <4>4
    <3>2. CASE ~extend
      <4>1. updated < Parts /\ updated' = updated /\ Held' = Held BY <1>1, <1>7, <1>extend, <3>2
      <4>2. PICK h \in Held : Covers(Life(h[2])) BY <1>1, <1>3 DEF IdleWatched
      <4> DEFINE x == Life(h[2])
      <4>3. x \in Int /\ x + updated > long BY <4>1, <4>2, LifeIs DEF Covers, long
      <4> HIDE DEF x
      <4>4. x + 0 > least BY <1>5, <4>1, <4>3
      <4>5. quiet' = 0 /\ Life(h[2])' = x BY <1>1, <1>8 DEF x
      <4>6. Covers(Life(h[2]))' BY <4>1, <4>3, <4>4, <4>5 DEF Covers, long, least
      <4> QED BY <4>1, <4>6
    <3> QED BY <3>1, <3>2
  <2>3. "idle" \in armed' BY <1>1, <1>3 DEF IdleWatched
  <2> QED BY <2>1, <2>2, <2>3 DEF IdleWatched, most
<1>11. \A h \in Held' : h[1] = "idle" BY <1>1, <1>3, <1>6, <1>7 DEF IdleRule
<1>12. IdleRule' BY <1>1, <1>3, <1>4, <1>10, <1>11 DEF IdleRule
<1> QED BY <1>2, <1>12 DEF PeerRules

\* A part of a second passes: what the silence gains, the entries have lost.
LEMMA PartPassesRules ==
    ASSUME ConnInv, IdleWatched, PartPasses, status = "Connected",
           UNCHANGED <<keep, armed>>,
           \A h \in Held : Life(h[2]) >= 1 /\ \E g \in Held' : Life(g[2])' = Life(h[2]) - 1,
           \A g \in Held' : \E h \in Held : Life(g[2])' = Life(h[2]) - 1
    PROVE  IdleWatched'
<1> DEFINE long == Seconds(Idle)
           least == Seconds(Idle - 1)
           most == Seconds(Idle + 1)
           cap == Seconds(Idle + 2)
<1>1. /\ Parts \in Nat /\ updated \in 0..Parts /\ quiet \in Nat /\ long \in Nat
      /\ least = long - Parts /\ most = long + Parts /\ cap = long + Parts + Parts
    BY TypesNow, TimeoutConstants, IdleIs
<1>2. /\ updated' = Capped(updated + 1, Parts) /\ quiet' = Capped(quiet + 1, cap)
    BY DEF PartPasses
<1> HIDE DEF long, least, most, cap
<1>3. ASSUME NEW g \in Held' PROVE Life(g[2])' + quiet' <= most
  <2>1. PICK h \in Held : Life(g[2])' = Life(h[2]) - 1 OBVIOUS
  <2> DEFINE x == Life(h[2])
  <2>2. x \in Int /\ x + quiet <= most BY LifeIs DEF IdleWatched, most
  <2>3. Life(g[2])' = x - 1 BY <2>1
  <2> HIDE DEF x
  <2>4. (x - 1) + quiet' <= most BY <1>1, <1>2, <2>2 DEF Capped
  <2> QED BY <2>3, <2>4
<1>4. ASSUME ~keep PROVE \E g \in Held' : Covers(Life(g[2]))'
  <2>1. PICK h \in Held : Covers(Life(h[2])) BY <1>4 DEF IdleWatched
  <2>2. PICK g \in Held' : Life(g[2])' = Life(h[2]) - 1 OBVIOUS
  <2> DEFINE x == Life(h[2])
  <2>3. x \in Int /\ x >= 1 /\ x + quiet <= most BY LifeIs DEF IdleWatched, most
  <2>4. x + quiet > least /\ (updated < Parts => x + updated > long)
      BY <2>1 DEF Covers, long, least
  <2>5. Life(g[2])' = x - 1 BY <2>2
  <2> HIDE DEF x
  <2>6. (x - 1) + quiet' > least BY <1>1, <1>2, <2>3, <2>4 DEF Capped
  <2>7. updated' < Parts => (x - 1) + updated' > long BY <1>1, <1>2, <2>3, <2>4 DEF Capped
  <2>8. Covers(Life(g[2]))' BY <2>5, <2>6, <2>7 DEF Covers, long, least
  <2> QED BY <2>8
<1>5. ~keep' => "idle" \in armed' BY DEF IdleWatched
<1> QED BY <1>3, <1>4, <1>5 DEF IdleWatched, most

LEMMA MomentPassesRules == ConnInv /\ PeerRules /\ Roomy /\ MomentPasses => PeerRules'
<1> SUFFICES ASSUME ConnInv, PeerRules, Roomy, MomentPasses PROVE PeerRules' OBVIOUS
<1>1. /\ turn = 0 /\ moment < Parts - 1 /\ moment' = moment + 1 /\ PartPasses /\ Held' = Held
      /\ UNCHANGED <<mode, status, armed, kickoff, keep, pings, slow, closedBy>>
    BY DEF MomentPasses, wheelVars, Held
<1>2. status # "Connected" => quiet' = quiet BY <1>1 DEF PartPasses
<1>3. FreshRule' BY <1>1, <1>2 DEF PeerRules, FreshRule
<1>4. PingRule' BY <1>1 DEF PeerRules, PingRule, PingsWatched, EveryPingWatched,
                           OnlyPingsWatched, PingsApart, KickoffKnown, Regular
<1>5. ASSUME mode = "idle", status = "Connected" PROVE IdleWatched'
  <2>1. IdleWatched BY <1>5 DEF PeerRules, IdleRule
  <2>2. ASSUME NEW h \in Held PROVE Life(h[2]) >= 1 /\ Life(h[2])' = Life(h[2]) - 1
    <3> DEFINE y == Seconds(h[2])
    <3>1. h[2] \in Int /\ h[2] >= 1 BY <1>1, HeldIs, NothingOverdue DEF ConnInv, Held
    <3>2. y \in Int /\ y >= Parts BY <3>1, SecondsIs
    <3> HIDE DEF y
    <3>3. y - moment >= 1 /\ y - (moment + 1) = (y - moment) - 1
        BY <1>1, <3>2, TypesNow, TimeoutConstants
    <3> QED BY <1>1, <3>3 DEF Life, y
  <2> QED BY <1>1, <1>5, <2>1, <2>2, PartPassesRules
<1>6. IdleRule' BY <1>1, <1>2, <1>5 DEF PeerRules, IdleRule
<1> QED BY <1>3, <1>4, <1>6 DEF PeerRules

\* Between ticks there is at most one ping, and it is in time.
LEMMA OnePing ==
    ASSUME ConnInv, PeerRules, Roomy, InLoop, mode = "pingPong", Regular
    PROVE  \A i \in 1..Len(pings) : i = 1 /\ Len(pings) = 1 /\ pings[i] <= Timeout
<1>1. PingsWatched BY DEF PeerRules, PingRule, InLoop
<1>2. ASSUME NEW i \in 1..Len(pings) PROVE pings[i] <= Timeout
  <2>1. PICK h \in Held : h[2] = Timeout + 1 - pings[i]
      BY <1>1 DEF PingsWatched, EveryPingWatched
  <2>2. h[2] >= 1 BY NothingOverdue DEF ConnInv, InLoop
  <2>3. pings[i] \in 0..(Timeout + 1) BY PingsIs DEF ConnInv
  <2> DEFINE x == pings[i]
  <2>4. x \in 0..(Timeout + 1) /\ Timeout + 1 - x >= 1 BY <2>1, <2>2, <2>3
  <2> HIDE DEF x
  <2>5. x <= Timeout BY <2>4, TimeoutConstants
  <2> QED BY <2>5 DEF x
<1>3. ASSUME Len(pings) > 1 PROVE FALSE
  <2>1. 1 \in 1..Len(pings) /\ pings[1] > Timeout
      BY <1>1, <1>3, PingsIs DEF PingsWatched, KickoffKnown, ConnInv
  <2>2. pings[1] <= Timeout /\ pings[1] \in 0..(Timeout + 1) BY <1>2, <2>1, PingsIs DEF ConnInv
  <2> DEFINE x == pings[1]
  <2>3. x \in Int /\ x <= Timeout /\ x > Timeout BY <2>1, <2>2
  <2> HIDE DEF x
  <2> QED BY <2>3, TimeoutConstants
<1>4. Len(pings) \in Nat BY PingsIs DEF ConnInv
<1> QED BY <1>2, <1>3, <1>4

LEMMA PongRules == ConnInv /\ PeerRules /\ Roomy /\ Pong => PeerRules'
<1> SUFFICES ASSUME ConnInv, PeerRules, Roomy, Pong PROVE PeerRules' OBVIOUS
<1>1. /\ InLoop /\ pings # <<>> /\ pings' = Tail(pings) /\ armed' = armed \ {kickoff}
      /\ UNCHANGED <<mode, status, updated, keep, slow, quiet, closedBy>>
      /\ status = "Connected" /\ Held' = Held
    BY DEF Pong, ResetKickoffEntry, InLoop, wheelVars, Held
<1>2. mode = "pingPong" BY <1>1, TypesNow DEF PeerRules, IdleRule
<1>3. FreshRule' /\ IdleRule' BY <1>1, <1>2 DEF FreshRule, IdleRule
<1>4. /\ Len(pings) \in Nat /\ Len(pings) >= 1 /\ Len(pings') = Len(pings) - 1
      /\ \A i \in 1..Len(pings') : i + 1 \in 1..Len(pings) /\ pings'[i] = pings[i + 1]
  <2> DEFINE q == pings
             S == 0..(Timeout + 1)
  <2>1. q \in Seq(S) /\ q # <<>> /\ pings' = Tail(q) BY <1>1 DEF ConnInv, ConnTypeOK
  <2> HIDE DEF q, S
  <2>2. /\ Len(q) \in Nat /\ Len(q) >= 1 /\ Len(Tail(q)) = Len(q) - 1
        /\ \A i \in 1..(Len(q) - 1) : i + 1 \in 1..Len(q) /\ Tail(q)[i] = q[i + 1]
      BY <2>1
  <2> QED BY <2>1, <2>2 DEF q
<1>5. \A i \in 1..Len(pings') : pings'[i] > Timeout => slow
    BY <1>2, <1>4 DEF PeerRules, PingRule
<1>6. ASSUME Regular PROVE PingsWatched'
  <2>1. Len(pings) = 1 /\ Len(pings') = 0
    <3>1. 1 \in 1..Len(pings) BY <1>4
    <3> QED BY <1>1, <1>2, <1>4, <1>6, <3>1, OnePing
  <2>2. \A k \in Kicks : k \notin armed'
      BY <1>1, <1>2, <1>6, <2>1 DEF PeerRules, PingRule, PingsWatched, KickoffKnown
  <2>3. \A i \in 1..Len(pings') : FALSE BY <2>1
  <2> QED BY <2>1, <2>2, <2>3
      DEF PingsWatched, EveryPingWatched, OnlyPingsWatched, PingsApart, KickoffKnown
<1>7. PingRule' BY <1>1, <1>2, <1>5, <1>6 DEF PeerRules, PingRule, Regular
<1> QED BY <1>3, <1>7 DEF PeerRules

LEMMA TickGoesOnRules == ConnInv /\ PeerRules /\ TickGoesOn => PeerRules'
<1> SUFFICES ASSUME ConnInv, PeerRules, TickGoesOn PROVE PeerRules' OBVIOUS
<1>1. Held' = Held
  <2>1. CASE TickNext
    <3>1. CASE turn < WheelsNum /\ ticks % Pow[turn] = 0
      <4>1. /\ dying = {} /\ dying' = wheels[turn + 1][1] /\ wheels' = Pop(wheels, turn + 1)
          BY <2>1, <3>1 DEF TickNext
      <4>2. turn + 1 \in 1..WheelsNum
        <5>1. turn \in 0..WheelsNum BY DEF ConnInv, Timing
        <5> QED BY <3>1, <5>1, WheelTurns
      <4>3. HeldIn(Pop(wheels, turn + 1), wheels[turn + 1][1]) = HeldIn(wheels, {})
          BY <4>2, TypesNow, HeldPop
      <4> QED BY <4>1, <4>3 DEF Held
    <3>2. CASE ~(turn < WheelsNum /\ ticks % Pow[turn] = 0)
        BY <2>1, <3>2 DEF TickNext, Held
    <3> QED BY <3>1, <3>2
  <2>2. CASE TickDescend
    <3>1. PICK item \in dying : /\ item.path # <<>> /\ dying' = dying \ {item}
                                /\ wheels' = Descend(wheels, item)
        BY <2>2 DEF TickDescend
    <3>2. turn \in 1..WheelsNum /\ Fits(item, turn - 1, 0)
      <4>1. turn # 0 /\ turn \in 0..WheelsNum BY <2>2 DEF TickDescend, ConnInv, Timing
      <4>2. Fits(item, turn - 1, 0) BY <3>1 DEF ConnInv, Timing
      <4> QED BY <4>1, <4>2, WheelTurns
    <3>3. HeldIn(Descend(wheels, item), dying \ {item}) = HeldIn(wheels, dying)
        BY <3>1, <3>2, TypesNow, HeldDescend
    <3> QED BY <3>1, <3>3 DEF Held
  <2> QED BY <2>1, <2>2 DEF TickGoesOn
<1>2. \A h \in Held : h[2] >= h[2]
  <2>1. \A h \in Held : h[2] \in Int BY HeldIs DEF Held
  <2> QED BY <2>1
<1>3. UNCHANGED connVars BY DEF TickGoesOn
<1> QED BY <1>1, <1>2, <1>3, FewerRules

\* A second passes: what the pings have aged, the entries have lost.
LEMMA PingsAge ==
    ASSUME ConnInv, SecondPasses
    PROVE  /\ Len(pings') = Len(pings)
           /\ \A i \in 1..Len(pings) :
                 /\ pings[i] \in 0..(Timeout + 1)
                 /\ pings'[i] = IF pings[i] = Timeout + 1 THEN Timeout + 1 ELSE pings[i] + 1
<1> DEFINE n == Len(pings)
<1>1. /\ n \in Nat /\ DOMAIN pings = 1..n
      /\ \A i \in 1..n : pings[i] \in 0..(Timeout + 1)
    BY PingsIs DEF ConnInv
<1>2. pings' = [i \in 1..n |-> Capped(pings[i] + 1, Timeout + 1)]
    BY <1>1 DEF SecondPasses
<1>3. Len(pings') = n
  <2>1. \A f : f = [i \in 1..n |-> f[i]] => Len(f) = n BY <1>1
  <2> HIDE DEF n
  <2>2. pings' = [i \in 1..n |-> pings'[i]] BY <1>2
  <2> QED BY <2>1, <2>2
<1>4. ASSUME NEW i \in 1..n
      PROVE  pings'[i] = IF pings[i] = Timeout + 1 THEN Timeout + 1 ELSE pings[i] + 1
  <2> DEFINE x == pings[i]
  <2>1. pings'[i] = Capped(x + 1, Timeout + 1) /\ x \in 0..(Timeout + 1) BY <1>1, <1>2
  <2> HIDE DEF x
  <2>2. pings'[i] = IF x = Timeout + 1 THEN Timeout + 1 ELSE x + 1
      BY <2>1, TimeoutConstants DEF Capped
  <2> QED BY <2>2 DEF x
<1> QED BY <1>1, <1>3, <1>4

LEMMA SecondPassesRules == ConnInv /\ PeerRules /\ Roomy /\ SecondPasses => PeerRules'
<1> SUFFICES ASSUME ConnInv, PeerRules, Roomy, SecondPasses PROVE PeerRules' OBVIOUS
<1>1. /\ turn = 0 /\ dying = {}
      /\ slow' = (slow \/ \E i \in DOMAIN pings : pings[i] = Timeout)
      /\ moment = Parts - 1 /\ moment' = 0 /\ PartPasses
      /\ status # "Connected" => quiet' = quiet
      /\ UNCHANGED <<mode, status, armed, kickoff, keep, closedBy>>
    BY DEF SecondPasses, PartPasses, TickBegin, ConnInv, Timing
<1>2. /\ \A h \in Held : <<h[1], h[2] - 1>> \in Held'
      /\ \A h \in Held' : <<h[1], h[2] + 1>> \in Held
    BY <1>1, TypesNow, HeldTick DEF SecondPasses
<1>3. /\ \A h \in Held : h = <<h[1], h[2]>> /\ h[2] \in Int /\ h[2] >= 1
      /\ \A h \in Held' : h = <<h[1], h[2]>> /\ h[2] \in Int
  <2>1. \A h \in Held : h = <<h[1], h[2]>> /\ h[2] \in Int BY HeldIs DEF Held
  <2>2. \A h \in Held : h[2] >= 1 BY <1>1, NothingOverdue DEF ConnInv
  <2>3. \A h \in Held' : h = <<h[1], h[2]>> /\ h[2] \in Int BY HeldIs DEF Held
  <2> QED BY <2>1, <2>2, <2>3
<1>5. FreshRule'
  <2> SUFFICES ASSUME status = "new" PROVE FreshRule' BY <1>1 DEF FreshRule
  <2>1. Held = {} /\ Len(pings) = 0 /\ armed = {} /\ quiet = 0 /\ ~keep
      BY PingsIs DEF PeerRules, FreshRule, ConnInv
  <2>2. Held' = {} BY <1>2, <2>1
  <2>3. Len(pings') = 0 BY <2>1, PingsAge
  <2>4. pings' = <<>>
    <3>1. pings' \in Seq(0..(Timeout + 1)) BY TickSteps DEF ConnInv, ConnTypeOK
    <3> DEFINE q == pings'
               S == 0..(Timeout + 1)
    <3>2. q \in Seq(S) /\ Len(q) = 0 BY <2>3, <3>1
    <3> HIDE DEF q, S
    <3>3. q = <<>> BY <3>2
    <3> QED BY <3>3 DEF q
  <2> QED BY <1>1, <2>1, <2>2, <2>4 DEF FreshRule
<1>6. ASSUME mode = "idle", status = "Connected" PROVE IdleWatched'
  <2>1. IdleWatched BY <1>6 DEF PeerRules, IdleRule
  <2>2. ASSUME NEW n \in Int, n >= 1 PROVE Life(n) >= 1 /\ Life(n - 1)' = Life(n) - 1
    <3> DEFINE y == Seconds(n)
    <3>1. y \in Int /\ y >= Parts /\ Seconds(n - 1) = y - Parts BY <2>2, SecondsIs
    <3> HIDE DEF y
    <3>2. y - (Parts - 1) >= 1 /\ (y - Parts) - 0 = (y - (Parts - 1)) - 1
        BY <3>1, TimeoutConstants
    <3> QED BY <1>1, <3>1, <3>2 DEF Life, y
  <2>3. ASSUME NEW h \in Held
        PROVE  Life(h[2]) >= 1 /\ \E g \in Held' : Life(g[2])' = Life(h[2]) - 1
    <3> DEFINE g == <<h[1], h[2] - 1>>
    <3>1. g \in Held' /\ g[2] = h[2] - 1 /\ h[2] \in Int /\ h[2] >= 1 BY <1>2, <1>3
    <3> HIDE DEF g
    <3> QED BY <2>2, <3>1
  <2>4. ASSUME NEW g \in Held' PROVE \E h \in Held : Life(g[2])' = Life(h[2]) - 1
    <3> DEFINE h == <<g[1], g[2] + 1>>
               n == g[2] + 1
    <3>1. h \in Held /\ h[2] = n /\ g[2] \in Int /\ n \in Int /\ g[2] = n - 1 BY <1>2, <1>3
    <3> HIDE DEF h, n
    <3>2. n >= 1 BY <1>3, <3>1
    <3>3. Life(g[2])' = Life(h[2]) - 1 BY <2>2, <3>1, <3>2
    <3> QED BY <3>1, <3>3
  <2> QED BY <1>1, <1>6, <2>1, <2>3, <2>4, PartPassesRules
<1>7. IdleRule'
  <2> SUFFICES ASSUME mode = "idle" PROVE IdleRule' BY <1>1 DEF IdleRule
  <2>1. \A h \in Held' : h[1] = "idle"
    <3> TAKE h \in Held'
    <3>1. <<h[1], h[2] + 1>> \in Held BY <1>2
    <3>2. <<h[1], h[2] + 1>>[1] = "idle" BY <3>1 DEF PeerRules, IdleRule
    <3> QED BY <3>2
  <2>2. pings' = <<>>
    <3>1. pings = <<>> BY DEF PeerRules, IdleRule
    <3> QED BY <3>1 DEF SecondPasses
  <2>3. status = "Disconnected" => quiet' = quiet BY <1>1
  <2> QED BY <1>1, <1>6, <2>1, <2>2, <2>3 DEF PeerRules, IdleRule
<1>8. \A i \in 1..Len(pings') :
         /\ pings[i] \in 0..(Timeout + 1) /\ pings'[i] \in 0..(Timeout + 1)
         /\ pings'[i] = IF pings[i] = Timeout + 1 THEN Timeout + 1 ELSE pings[i] + 1
  <2> TAKE i \in 1..Len(pings')
  <2> DEFINE x == pings[i]
  <2>1. /\ x \in 0..(Timeout + 1)
        /\ pings'[i] = IF x = Timeout + 1 THEN Timeout + 1 ELSE x + 1
      BY PingsAge
  <2> HIDE DEF x
  <2>2. pings'[i] \in 0..(Timeout + 1) BY <2>1, TimeoutConstants
  <2> QED BY <2>1, <2>2 DEF x
<1>9. Len(pings') = Len(pings) /\ Timeout \in Nat BY PingsAge, TimeoutConstants
<1>10. ASSUME mode = "pingPong", NEW i \in 1..Len(pings'), pings'[i] > Timeout PROVE slow'
  <2> DEFINE x == pings[i]
             y == pings'[i]
  <2>1. x \in 0..(Timeout + 1) /\ y = IF x = Timeout + 1 THEN Timeout + 1 ELSE x + 1
      BY <1>8
  <2>2. y > Timeout BY <1>10
  <2> HIDE DEF x, y
  <2>3. x > Timeout \/ x = Timeout BY <1>9, <2>1, <2>2
  <2>4. CASE x > Timeout BY <1>1, <1>9, <1>10, <2>4 DEF PeerRules, PingRule, x
  <2>5. CASE x = Timeout
    <3>1. i \in DOMAIN pings BY <1>9, PingsIs DEF ConnInv
    <3> QED BY <1>1, <2>5, <3>1 DEF x
  <2> QED BY <2>3, <2>4, <2>5
<1>11. ASSUME mode = "pingPong", status = "Connected", Regular PROVE PingsWatched'
  <2>1. PingsWatched BY <1>11 DEF PeerRules, PingRule
  <2>2. \A i \in 1..Len(pings') : pings[i] <= Timeout /\ pings'[i] = pings[i] + 1
    <3> TAKE i \in 1..Len(pings')
    <3> DEFINE x == pings[i]
    <3>1. x <= Timeout BY <1>1, <1>9, <1>11, OnePing DEF InLoop
    <3>2. x \in 0..(Timeout + 1) /\ pings'[i] = IF x = Timeout + 1 THEN Timeout + 1 ELSE x + 1
        BY <1>8
    <3> HIDE DEF x
    <3>3. x <= Timeout /\ pings'[i] = x + 1 BY <1>9, <3>1, <3>2
    <3> QED BY <3>3 DEF x
  <2>3. EveryPingWatched'
    <3> SUFFICES ASSUME NEW i \in 1..Len(pings')
                 PROVE  \E h \in Held' : /\ h[1] \in armed' /\ h[1] \in Kicks
                                         /\ h[2] = Timeout + 1 - pings'[i]
        BY DEF EveryPingWatched
    <3>1. PICK h \in Held : /\ h[1] \in armed /\ h[1] \in Kicks
                            /\ h[2] = Timeout + 1 - pings[i]
        BY <1>9, <2>1 DEF PingsWatched, EveryPingWatched
    <3> DEFINE g == <<h[1], h[2] - 1>>
               x == pings[i]
    <3>2. g \in Held' /\ g[1] = h[1] /\ g[2] = h[2] - 1 BY <1>2
    <3>3. x \in Int /\ h[2] = Timeout + 1 - x /\ pings'[i] = x + 1 BY <1>8, <2>2, <3>1
    <3> HIDE DEF g, x
    <3>4. g[2] = Timeout + 1 - pings'[i] BY <1>9, <3>2, <3>3
    <3> QED BY <1>1, <3>1, <3>2, <3>4
  <2>4. OnlyPingsWatched'
    <3> SUFFICES ASSUME NEW h \in Held', h[1] \in armed', h[1] \in Kicks
                 PROVE  \E i \in 1..Len(pings') : h[2] = Timeout + 1 - pings'[i]
        BY DEF OnlyPingsWatched
    <3> DEFINE g == <<h[1], h[2] + 1>>
    <3>1. g \in Held /\ g[1] = h[1] /\ g[2] = h[2] + 1 /\ h[2] \in Int BY <1>2, <1>3
    <3> HIDE DEF g
    <3>2. PICK i \in 1..Len(pings) : g[2] = Timeout + 1 - pings[i]
        BY <1>1, <2>1, <3>1 DEF PingsWatched, OnlyPingsWatched
    <3> DEFINE x == pings[i]
               y == h[2]
    <3>3. x \in Int /\ y \in Int /\ y + 1 = Timeout + 1 - x /\ pings'[i] = x + 1
        BY <1>8, <1>9, <2>2, <3>1, <3>2
    <3> HIDE DEF x, y
    <3>4. y = Timeout + 1 - pings'[i] BY <1>9, <3>3
    <3> QED BY <1>9, <3>4 DEF y
  <2>5. PingsApart'
    <3> SUFFICES ASSUME NEW h \in Held', h[1] = "ping", NEW i \in 1..Len(pings')
                 PROVE  pings'[i] > Timeout \/ pings'[i] + h[2] >= Interval + 1
        BY DEF PingsApart
    <3> DEFINE g == <<h[1], h[2] + 1>>
               x == pings[i]
               y == h[2]
    <3>1. g \in Held /\ g[1] = "ping" /\ g[2] = y + 1 /\ y \in Int BY <1>2, <1>3
    <3> HIDE DEF g
    <3>2. x > Timeout \/ x + g[2] >= Interval + 1
        BY <1>9, <2>1, <3>1 DEF PingsWatched, PingsApart
    <3>3. x \in Int /\ pings'[i] = x + 1 BY <1>8, <2>2
    <3> HIDE DEF x, y
    <3>4. pings'[i] > Timeout \/ pings'[i] + y >= Interval + 1
        BY <1>9, <3>1, <3>2, <3>3, TimeoutConstants
    <3> QED BY <3>4 DEF y
  <2>6. KickoffKnown'
    <3>1. ~(Len(pings') > 1)
      <4> SUFFICES ASSUME Len(pings') > 1 PROVE FALSE OBVIOUS
      <4>1. 1 \in 1..Len(pings) /\ Len(pings) # 1 BY <1>9, PingsIs DEF ConnInv
      <4> QED BY <1>1, <1>11, <4>1, OnePing DEF InLoop
    <3> QED BY <1>1, <1>9, <2>1, <3>1 DEF PingsWatched, KickoffKnown
  <2> QED BY <2>3, <2>4, <2>5, <2>6 DEF PingsWatched
<1>12. PingRule'
  <2> SUFFICES ASSUME mode = "pingPong" PROVE PingRule' BY <1>1 DEF PingRule
  <2>1. PingRule BY DEF PeerRules
  <2>2. \A h \in Held' : h[1] \in Kicks \/ h[1] = "ping"
    <3> TAKE h \in Held'
    <3> DEFINE g == <<h[1], h[2] + 1>>
    <3>1. g \in Held /\ g[1] = h[1] BY <1>2
    <3> HIDE DEF g
    <3> QED BY <2>1, <3>1 DEF PingRule
  <2>3. ASSUME NEW g \in Held', NEW h \in Held', g[1] = h[1], g[1] \in Kicks PROVE g = h
    <3> DEFINE a == <<g[1], g[2] + 1>>
               b == <<h[1], h[2] + 1>>
    <3>1. a \in Held /\ b \in Held /\ a[1] = b[1] /\ a[1] \in Kicks BY <1>2, <2>3
    <3>2. a = b
      <4> HIDE DEF a, b
      <4> QED BY <2>1, <3>1 DEF PingRule
    <3>3. g[2] + 1 = h[2] + 1 BY <3>2
    <3>4. g[2] = h[2] BY <1>3, <3>3
    <3> QED BY <1>3, <2>3, <3>4
  <2>4. \A i \in 1..Len(pings') : pings'[i] > Timeout => slow' BY <1>10
  <2>5. Regular => (closedBy' = "kick" => slow') BY <1>1, <2>1 DEF PingRule
  <2>6. Regular /\ status' = "Connected" => PingsWatched' BY <1>1, <1>11
  <2>7. closedBy' # "idle" /\ ~keep' BY <1>1, <2>1 DEF PingRule
  <2> QED BY <2>2, <2>3, <2>4, <2>5, <2>6, <2>7 DEF PingRule, Regular
<1> QED BY <1>5, <1>7, <1>12 DEF PeerRules

\* What is known of an entry whose bucket goes.
Dropped(item, R) ==
    /\ R \subseteq Held
    /\ item.entry \in Entries /\ <<item.entry, item.left>> \in Held
    /\ \A h \in Held : h \in R \/ (h[1] = item.entry /\ h[2] = item.left)
    /\ HeldElsewhere(item) <=> \E h \in R : h[1] = item.entry
    /\ item.left \in Nat /\ MayBeEarly(item, item.left)
    /\ \A h \in Held : h = <<h[1], h[2]>> /\ h[2] \in Nat

LEMMA DroppedIs ==
    ASSUME ConnInv, Roomy, NEW item \in dying, item.path = <<>>
    PROVE  Dropped(item, HeldIn(wheels, dying \ {item}))
<1> DEFINE R == HeldIn(wheels, dying \ {item})
<1>1. /\ R \subseteq Held
      /\ Held = R \cup {<<item.entry, item.left>>}
      /\ HeldElsewhere(item) <=> \E h \in R : h[1] = item.entry
    BY TypesNow, HeldDrop
<1>2. item.left \in Nat /\ MayBeEarly(item, item.left) BY Spent DEF ConnInv, Timing
<1>3. item.entry \in Entries BY TypesNow DEF Item
<1>4. ASSUME NEW h \in Held PROVE h = <<h[1], h[2]>> /\ h[2] \in Nat
    BY NothingOverdue, HeldIs DEF ConnInv, Held
<1> HIDE DEF R
<1>5. \A h \in Held : h \in R \/ (h[1] = item.entry /\ h[2] = item.left) BY <1>1
<1>6. Dropped(item, R) BY <1>1, <1>2, <1>3, <1>4, <1>5 DEF Dropped
<1> QED BY <1>6 DEF R

\* Another bucket holds the entry.
LEMMA ElsewhereRules ==
    ASSUME ConnInv, PeerRules, NEW item, NEW R, Dropped(item, R), Held' = R,
           HeldElsewhere(item), UNCHANGED connVars
    PROVE  PeerRules'
<1>1. PICK g \in R : g[1] = item.entry BY DEF Dropped
<1>2. g \in Held /\ g = <<g[1], g[2]>> /\ g[2] \in Nat /\ item.left \in Nat
    BY DEF Dropped
<1>3. ASSUME mode = "idle", NEW h \in Held PROVE \E f \in Held' : f[2] >= h[2]
  <2>1. h[2] \in Nat BY DEF Dropped
  <2>2. CASE h \in R BY <2>1, <2>2
  <2>3. CASE h \notin R
    <3>1. item.entry = "idle" /\ h[2] = item.left
        BY <1>1, <1>2, <1>3, <2>3 DEF Dropped, PeerRules, IdleRule
    <3>2. item.left = 0 BY <3>1 DEF Dropped, MayBeEarly
    <3> QED BY <1>2, <3>1, <3>2
  <2> QED BY <2>2, <2>3
<1>4. ASSUME mode = "pingPong", NEW h \in Held, h[1] \in Kicks PROVE h \in Held'
  <2>1. CASE h \in R BY <2>1
  <2>2. CASE h \notin R
    <3>1. h[1] = item.entry BY <2>2 DEF Dropped
    <3>2. h = g BY <1>1, <1>2, <1>4, <3>1 DEF PeerRules, PingRule
    <3> QED BY <3>2
  <2> QED BY <2>1, <2>2
<1>5. Held' \subseteq Held BY DEF Dropped
<1> QED BY <1>3, <1>4, <1>5, FewerRules

\* The kick-off entry dies, or the entry of an idle connection.
LEMMA KickDiesRules ==
    ASSUME ConnInv, PeerRules, NEW item, NEW R, Dropped(item, R), Held' = R,
           ~HeldElsewhere(item), item.entry # "ping", KickDies(wheels, item.entry),
           UNCHANGED <<mode, moment, updated, keep, slow, quiet>>
    PROVE  PeerRules'
<1> DEFINE e == item.entry
<1>0. Held' \subseteq Held /\ <<e, item.left>> \in Held BY DEF Dropped
<1>1. /\ mode = "idle" => e = "idle" /\ item.left = 0 /\ R = {}
      /\ mode = "pingPong" => e \in Kicks /\ e # "idle"
  <2>1. <<e, item.left>>[1] = e OBVIOUS
  <2>2. ASSUME mode = "idle" PROVE e = "idle" /\ item.left = 0 /\ R = {}
    <3>1. e = "idle" BY <1>0, <2>1, <2>2 DEF PeerRules, IdleRule
    <3>2. item.left = 0 BY <3>1 DEF Dropped, MayBeEarly
    <3>3. \A h \in R : FALSE BY <2>2, <3>1 DEF Dropped, PeerRules, IdleRule
    <3> QED BY <3>1, <3>2, <3>3
  <2>3. mode = "pingPong" => e \in Kicks \/ e = "ping"
      BY <1>0, <2>1 DEF PeerRules, PingRule
  <2> QED BY <2>2, <2>3, Names
<1>2. CASE e \in armed /\ status = "Connected"
  <2>1. /\ status' = "Disconnected" /\ closedBy' = (IF e = "idle" THEN "idle" ELSE "kick")
        /\ armed' \subseteq armed /\ UNCHANGED pings
      BY <1>2 DEF KickDies, Close
  <2>2. CASE mode = "idle"
    <3>1. IdleWatched /\ (keep => armed = {}) BY <1>2, <2>2 DEF PeerRules, IdleRule
    <3>2. ~keep BY <1>2, <3>1
    <3>3. PICK h \in Held : Covers(Life(h[2])) BY <3>1, <3>2 DEF IdleWatched
    <3>4. h[2] = 0 BY <1>1, <2>2 DEF Dropped
    <3>5. quiet > Seconds(Idle - 1)
      <4> DEFINE least == Seconds(Idle - 1)
      <4>1. (Seconds(0) - moment) + quiet > least /\ Seconds(0) = 0
          BY <3>3, <3>4, TimeoutConstants DEF Covers, Life, Seconds
      <4>2. least \in Int /\ moment \in Nat /\ quiet \in Int BY IdleIs, TypesNow, TimeoutConstants
      <4> HIDE DEF least
      <4>3. quiet > least BY <4>1, <4>2
      <4> QED BY <4>3 DEF least
    <3>6. closedBy' = "idle" BY <1>1, <2>1, <2>2
    <3> QED BY <1>0, <2>1, <2>2, <3>2, <3>5, <3>6, ClosedRules
  <2>3. CASE mode = "pingPong"
    <3>1. ASSUME Regular PROVE slow
      <4>1. OnlyPingsWatched
          BY <1>2, <2>3, <3>1 DEF PeerRules, PingRule, PingsWatched
      <4>2. e \in Kicks /\ <<e, item.left>>[1] = e /\ <<e, item.left>>[2] = item.left
          BY <1>1, <2>3
      <4>3. PICK i \in 1..Len(pings) : item.left = Timeout + 1 - pings[i]
        <5> DEFINE h == <<e, item.left>>
        <5>1. h \in Held /\ h[1] = e /\ h[2] = item.left BY <1>0, <4>2
        <5> HIDE DEF h
        <5> QED BY <1>2, <4>1, <4>2, <5>1 DEF OnlyPingsWatched
      <4>4. item.left = 0 BY <3>1, <4>2 DEF Dropped, MayBeEarly, Regular
      <4>5. pings[i] > Timeout
        <5> DEFINE x == pings[i]
        <5>1. x \in Int /\ 0 = Timeout + 1 - x BY <4>3, <4>4, PingsIs DEF ConnInv
        <5> HIDE DEF x
        <5>2. x > Timeout BY <5>1, TimeoutConstants
        <5> QED BY <5>2 DEF x
      <4> QED BY <2>3, <4>5 DEF PeerRules, PingRule
    <3>2. closedBy' = "kick" BY <1>1, <2>1, <2>3
    <3> QED BY <1>0, <2>1, <2>3, <3>1, <3>2, ClosedRules
  <2> QED BY <2>2, <2>3, TypesNow
<1>3. CASE ~(e \in armed /\ status = "Connected")
  <2>1. UNCHANGED connVars BY <1>3 DEF KickDies, connVars
  <2>2. mode = "idle" /\ status = "Connected" => keep
      BY <1>1, <1>3 DEF PeerRules, IdleRule, IdleWatched
  <2>3. ASSUME status = "Connected", NEW h \in Held, h[1] \in armed PROVE h \in Held'
      BY <1>3, <2>3 DEF Dropped
  <2> QED BY <1>0, <2>1, <2>2, <2>3, FewerRules
<1> QED BY <1>2, <1>3

\* The next ping is sent when the pings before it are over.
LEMMA EarlierPings ==
    ASSUME ConnInv, PeerRules, NEW item, NEW R, Dropped(item, R), item.entry = "ping",
           mode = "pingPong", status = "Connected", Regular
    PROVE  \A i \in 1..Len(pings) : pings[i] > Timeout
<1>1. PingsApart BY DEF PeerRules, PingRule, PingsWatched
<1> DEFINE h == <<item.entry, item.left>>
           z == item.left
<1>2. h \in Held /\ h[1] = "ping" /\ h[2] = z BY DEF Dropped
<1>3. z \in Nat /\ z <= LastTurn BY DEF Dropped, MayBeEarly
<1>4. LastTurn \in Int /\ Timeout < Interval + 1 - LastTurn
  <2>1. WheelsNum # 1 => WheelsNum - 1 \in 0..WheelsNum BY WheelTurns
  <2>2. WheelsNum # 1 => TurnOf(WheelsNum - 1) \in Nat BY <2>1, WheelTurns
  <2>3. LastTurn \in Int BY <2>2 DEF LastTurn, TurnOf
  <2>4. ShortestInterval = Interval + 1 - LastTurn BY DEF ShortestInterval, LastTurn
  <2> QED BY <2>3, <2>4 DEF Regular
<1> HIDE DEF h, z
<1> TAKE i \in 1..Len(pings)
<1> DEFINE x == pings[i]
<1>5. x > Timeout \/ x + z >= Interval + 1 BY <1>1, <1>2 DEF PingsApart
<1>6. x \in Int BY PingsIs DEF ConnInv
<1> HIDE DEF x
<1>7. x > Timeout BY <1>3, <1>4, <1>5, <1>6, TimeoutConstants
<1> QED BY <1>7 DEF x

\* ~PingPongEntry: a ping, its kick-off entry and the next ping-pong entry.
LEMMA PingDiesRules ==
    ASSUME ConnInv, PeerRules, NEW item \in dying, NEW R, Dropped(item, R),
           R = HeldIn(wheels, dying \ {item}), dying' = dying \ {item},
           ~HeldElsewhere(item), item.entry = "ping", PingDies(wheels),
           UNCHANGED <<mode, moment, updated, keep, slow, quiet>>
    PROVE  PeerRules'
<1>1. mode = "pingPong"
  <2>1. <<item.entry, item.left>> \in Held /\ <<item.entry, item.left>>[1] = "ping"
      BY DEF Dropped
  <2>2. mode # "idle" BY <2>1 DEF PeerRules, IdleRule
  <2> QED BY <2>2, TypesNow
<1>2. CASE ~("ping" \in armed /\ status = "Connected")
  <2>1. wheels' = wheels /\ UNCHANGED connVars BY <1>2 DEF PingDies, connVars
  <2>2. Held' = R BY <2>1 DEF Held
  <2>3. ASSUME NEW h \in Held, h[1] \in Kicks PROVE h \in Held'
      BY <2>2, <2>3, Names DEF Dropped
  <2>4. Held' \subseteq Held BY <2>2 DEF Dropped
  <2> QED BY <1>1, <2>1, <2>3, <2>4, FewerRules
<1>3. CASE "ping" \in armed /\ status = "Connected"
  <2>1. PICK k \in Kicks :
          /\ \A i \in DOMAIN wheels : \A j \in DOMAIN wheels[i] :
                \A x \in wheels[i][j] \cup dying : x.entry # k
          /\ wheels' = InsertEntry(InsertEntry(wheels, k, Timeout), "ping", Interval)
          /\ kickoff' = k /\ armed' = armed \cup {k} /\ pings' = Append(pings, 0)
          /\ UNCHANGED <<status, closedBy>>
      BY <1>3 DEF PingDies
  <2> DEFINE watch == <<k, Timeout + 1>>
             next == <<"ping", Interval + 1>>
             n == Len(pings)
  <2>2. /\ watch[1] = k /\ watch[2] = Timeout + 1 /\ next[1] = "ping"
        /\ next[2] = Interval + 1 /\ k # "ping" /\ k \in Entries
        /\ Timeout \in Nat /\ Interval \in Nat
      BY Names, TimeoutConstants
  <2>3. Held' = R \cup {watch, next}
    <3> DEFINE ws == InsertEntry(wheels, k, Timeout)
    <3>1. HeldIn(ws, dying') = R \cup {watch} BY <2>2, TypesNow, HeldInsert
    <3>2. HasBuckets(ws)
      <4>1. Filled(wheels, ticks, turn) /\ turn \in Nat /\ turn # 0
          BY TimingIs DEF ConnInv, Timing
      <4>2. Insertable(k, Timeout) BY <4>1 DEF Insertable
      <4>3. Filled(ws, ticks, turn) BY <2>2, <4>1, <4>2, TypesNow, Inserted
      <4> QED BY <4>3 DEF Filled, HasBuckets
    <3>3. wheels' = InsertEntry(ws, "ping", Interval) BY <2>1
    <3> HIDE DEF ws, watch, next
    <3>4. HeldIn(wheels', dying') = HeldIn(ws, dying') \cup {next}
        BY <2>2, <3>2, <3>3, TypesNow, Names, HeldInsert DEF next
    <3>5. HeldIn(wheels', dying') = R \cup {watch, next} BY <3>1, <3>4
    <3> QED BY <3>5 DEF Held
  <2>4. \A h \in R : h[1] # k /\ h[1] # "ping"
    <3> TAKE h \in R
    <3>1. h[1] # "ping" BY DEF Dropped
    <3>2. PICK x \in Item : (x \in dying \ {item} \/ InSome(wheels, x)) /\ h[1] = x.entry
        BY HeldIs
    <3>3. \A i \in 1..WheelsNum : \A j \in 1..Buckets :
             \A y \in wheels[i][j] \cup dying : y.entry # k
      <4>1. HasBuckets(wheels) BY TypesNow
      <4> QED BY <2>1, <4>1 DEF HasBuckets
    <3>4. 1 \in 1..WheelsNum /\ 1 \in 1..Buckets BY WheelTurns
    <3>5. x.entry # k
      <4>1. CASE x \in dying BY <3>3, <3>4, <4>1
      <4>2. CASE InSome(wheels, x) BY <3>3, <4>2 DEF InSome
      <4> QED BY <3>2, <4>1, <4>2
    <3> QED BY <3>1, <3>2, <3>5
  <2> HIDE DEF watch, next
  <2>5. \A h \in R : h \in Held BY DEF Dropped
  <2>6. \A h \in Held : h[1] # "ping" => h \in R BY DEF Dropped
  <2>7. /\ n \in Nat /\ Len(pings') = n + 1 /\ pings'[n + 1] = 0
        /\ \A i \in 1..n : pings'[i] = pings[i] /\ pings[i] \in 0..(Timeout + 1)
    <3> DEFINE q == pings
               S == 0..(Timeout + 1)
    <3>1. q \in Seq(S) /\ 0 \in S /\ pings' = Append(q, 0)
        BY <2>1, TimeoutConstants DEF ConnInv, ConnTypeOK
    <3> HIDE DEF q, S
    <3>2. /\ Len(q) \in Nat /\ Len(Append(q, 0)) = Len(q) + 1
          /\ Append(q, 0)[Len(q) + 1] = 0
          /\ \A i \in 1..Len(q) : Append(q, 0)[i] = q[i] /\ q[i] \in S
        BY <3>1
    <3> QED BY <3>1, <3>2 DEF q, S
  <2> HIDE DEF n
  <2>8. \A i \in 1..Len(pings') : \/ i \in 1..n /\ pings'[i] = pings[i]
                                  \/ i = n + 1 /\ pings'[i] = 0
      BY <2>7
  <2>9. FreshRule' /\ IdleRule' BY <1>1, <1>3, <2>1 DEF FreshRule, IdleRule
  <2>10. PingRule BY DEF PeerRules
  <2>11. ASSUME NEW i \in 1..Len(pings'), pings'[i] > Timeout PROVE slow'
    <3>1. i \in 1..n /\ pings[i] > Timeout BY <2>2, <2>8, <2>11
    <3> QED BY <1>1, <2>10, <3>1 DEF PingRule, n
  <2>12. ASSUME Regular PROVE PingsWatched'
    <3>1. PingsWatched BY <1>1, <1>3, <2>10, <2>12 DEF PingRule
    <3>2. EveryPingWatched'
      <4> SUFFICES ASSUME NEW i \in 1..Len(pings')
                   PROVE  \E h \in Held' : /\ h[1] \in armed' /\ h[1] \in Kicks
                                           /\ h[2] = Timeout + 1 - pings'[i]
          BY DEF EveryPingWatched
      <4>1. CASE i \in 1..n /\ pings'[i] = pings[i]
        <5>1. PICK h \in Held : /\ h[1] \in armed /\ h[1] \in Kicks
                                /\ h[2] = Timeout + 1 - pings[i]
            BY <3>1, <4>1 DEF PingsWatched, EveryPingWatched, n
        <5>2. h \in Held' BY <2>3, <2>6, <5>1, Names
        <5> QED BY <2>1, <4>1, <5>1, <5>2
      <4>2. CASE pings'[i] = 0
        <5>1. watch \in Held' /\ k \in armed' BY <2>1, <2>3
        <5>2. watch[2] = Timeout + 1 - pings'[i] BY <2>2, <4>2
        <5> QED BY <2>2, <5>1, <5>2
      <4> QED BY <2>8, <4>1, <4>2
    <3>3. OnlyPingsWatched'
      <4> SUFFICES ASSUME NEW h \in Held', h[1] \in armed', h[1] \in Kicks
                   PROVE  \E i \in 1..Len(pings') : h[2] = Timeout + 1 - pings'[i]
          BY DEF OnlyPingsWatched
      <4>1. CASE h \in R
        <5>1. h \in Held /\ h[1] \in armed BY <2>1, <2>4, <2>5, <4>1
        <5>2. PICK i \in 1..n : h[2] = Timeout + 1 - pings[i]
            BY <3>1, <5>1 DEF PingsWatched, OnlyPingsWatched, n
        <5>3. i \in 1..Len(pings') /\ pings'[i] = pings[i] BY <2>7, <5>2
        <5> QED BY <5>2, <5>3
      <4>2. CASE h = watch
        <5>1. n + 1 \in 1..Len(pings') /\ h[2] = Timeout + 1 - pings'[n + 1]
            BY <2>2, <2>7, <4>2
        <5> QED BY <5>1
      <4> QED BY <2>2, <2>3, <4>1, <4>2, Names
    <3>4. PingsApart'
      <4> SUFFICES ASSUME NEW h \in Held', h[1] = "ping", NEW i \in 1..Len(pings')
                   PROVE  pings'[i] > Timeout \/ pings'[i] + h[2] >= Interval + 1
          BY DEF PingsApart
      <4>1. h[2] = Interval + 1 BY <2>2, <2>3, <2>4
      <4>2. pings'[i] \in Nat BY <2>2, <2>7, <2>8
      <4> DEFINE x == pings'[i]
                 y == h[2]
      <4>3. x \in Nat /\ y = Interval + 1 BY <4>1, <4>2
      <4> HIDE DEF x, y
      <4>4. x + y >= Interval + 1 BY <2>2, <4>3
      <4> QED BY <4>4 DEF x, y
    <3>5. KickoffKnown'
      <4>1. ASSUME Len(pings') > 1 PROVE pings'[1] > Timeout
        <5>1. 1 \in 1..n BY <2>7, <4>1
        <5>2. pings[1] > Timeout
            BY <1>1, <1>3, <2>12, <5>1, EarlierPings DEF n
        <5> QED BY <2>7, <5>1, <5>2
      <4>2. ASSUME Len(pings') = 1, NEW e \in Kicks, e \in armed' PROVE e = kickoff'
        <5>1. n = 0
          <6>1. n \in Nat /\ Len(pings') = n + 1 BY <2>7
          <6>2. n + 1 = 1 BY <4>2, <6>1
          <6> QED BY <6>1, <6>2
        <5>2. e \notin armed BY <3>1, <5>1 DEF PingsWatched, KickoffKnown, n
        <5> QED BY <2>1, <4>2, <5>2
      <4>3. Len(pings') # 0 BY <2>7
      <4> QED BY <4>1, <4>2, <4>3 DEF KickoffKnown
    <3> QED BY <3>2, <3>3, <3>4, <3>5 DEF PingsWatched
  <2>13. \A h \in Held' : h[1] \in Kicks \/ h[1] = "ping"
      BY <1>1, <2>2, <2>3, <2>5, <2>10 DEF PingRule
  <2>14. ASSUME NEW g \in Held', NEW h \in Held', g[1] = h[1], g[1] \in Kicks PROVE g = h
    <3>1. g # next /\ h # next BY <2>2, <2>14, Names
    <3>2. CASE g \in R /\ h \in R BY <1>1, <2>5, <2>10, <2>14, <3>2 DEF PingRule
    <3>3. CASE g = watch \/ h = watch
      <4>1. g[1] = k /\ h[1] = k BY <2>2, <2>14, <3>3
      <4>2. g \notin R /\ h \notin R BY <2>4, <4>1
      <4> QED BY <2>3, <3>1, <4>2
    <3> QED BY <2>3, <3>1, <3>2, <3>3
  <2>15. /\ closedBy' # "idle" /\ ~keep'
         /\ Regular => (closedBy' = "kick" => slow')
      BY <1>1, <2>1, <2>10 DEF PingRule
  <2>16. PingRule' BY <2>11, <2>12, <2>13, <2>14, <2>15 DEF PingRule, Regular
  <2> QED BY <2>9, <2>16 DEF PeerRules
<1> QED BY <1>2, <1>3

LEMMA DropEntryRules == ConnInv /\ PeerRules /\ Roomy /\ DropEntry => PeerRules'
<1> SUFFICES ASSUME ConnInv, PeerRules, Roomy, DropEntry PROVE PeerRules' OBVIOUS
<1>1. PICK item \in dying :
        /\ item.path = <<>>
        /\ dying' = dying \ {item}
        /\ IF HeldElsewhere(item)
           THEN UNCHANGED <<wheels, kickoff, armed, pings, status, closedBy>>
           ELSE IF item.entry = "ping" THEN PingDies(wheels)
           ELSE KickDies(wheels, item.entry)
    BY DEF DropEntry
<1>2. UNCHANGED <<mode, moment, updated, keep, slow, quiet>> BY DEF DropEntry
<1> DEFINE R == HeldIn(wheels, dying \ {item})
<1>3. Dropped(item, R) /\ R = HeldIn(wheels, dying \ {item}) BY <1>1, DroppedIs
<1>4. wheels' = wheels => Held' = R BY <1>1 DEF Held
<1> HIDE DEF R
<1>5. CASE HeldElsewhere(item)
  <2>1. wheels' = wheels /\ UNCHANGED connVars BY <1>1, <1>2, <1>5 DEF connVars
  <2> QED BY <1>3, <1>4, <1>5, <2>1, ElsewhereRules
<1>6. CASE ~HeldElsewhere(item) /\ item.entry = "ping"
    BY <1>1, <1>2, <1>3, <1>6, PingDiesRules
<1>7. CASE ~HeldElsewhere(item) /\ item.entry # "ping"
  <2>1. KickDies(wheels, item.entry) BY <1>1, <1>7
  <2>2. wheels' = wheels BY <2>1 DEF KickDies
  <2> QED BY <1>2, <1>3, <1>4, <1>7, <2>1, <2>2, KickDiesRules
<1> QED BY <1>5, <1>6, <1>7

TimeoutInv == ConnInv /\ (Roomy => PeerRules)

\* Pings and their kick-off entries, activities and the idle entry keep step,
\* whatever the order of ticks, pongs, closes and insertions.
THEOREM RulesInvariance == TimeoutSpec => []TimeoutInv
<1>1. TimeoutInit => TimeoutInv BY ConnInitInv, RulesInit DEF TimeoutInv
<1>2. TimeoutInv /\ ConnInv' /\ [TimeoutNext]_timeoutVars => TimeoutInv'
  <2> SUFFICES ASSUME ConnInv, PeerRules, Roomy, [TimeoutNext]_timeoutVars PROVE PeerRules'
      BY DEF TimeoutInv, Roomy
  <2>1. CASE TimeoutNext
    <3>1. CASE Connect BY <3>1, ConnectRules
    <3>2. CASE PeerCloses BY <3>2, PeerClosesRules
    <3>3. CASE Pong BY <3>3, PongRules
    <3>4. CASE KeepAlive BY <3>4, KeepAliveRules
    <3>5. CASE ExtendLife BY <3>5, ExtendLifeRules
    <3>10. CASE MomentPasses BY <3>10, MomentPassesRules
    <3>6. CASE SecondPasses BY <3>6, SecondPassesRules
    <3>7. CASE TickGoesOn BY <3>7, TickGoesOnRules
    <3>8. CASE DropEntry BY <3>8, DropEntryRules
    <3>9. CASE Stop BY <3>9, StopRules
    <3> QED BY <2>1, <3>1, <3>2, <3>3, <3>4, <3>5, <3>6, <3>7, <3>8, <3>9, <3>10
        DEF TimeoutNext
  <2>2. CASE UNCHANGED timeoutVars
    <3>1. Held' = Held /\ UNCHANGED connVars BY <2>2 DEF timeoutVars, wheelVars, Held
    <3>2. \A h \in Held : h[2] >= h[2]
      <4>1. \A h \in Held : h[2] \in Int BY HeldIs DEF Held
      <4> QED BY <4>1
    <3> QED BY <3>1, <3>2, FewerRules
  <2> QED BY <2>1, <2>2
<1> QED BY <1>1, <1>2, TimeoutInvariance, PTL DEF TimeoutSpec

\* PingPongEntry, KickoffEntry and extendLife: nobody is closed who answered in
\* time or was not quiet, and everybody is who did not or was.
THEOREM ClosedInTime == TimeoutSpec => []TimeoutsInTime
<1>1. ASSUME TimeoutInv PROVE TimeoutsInTime
  <2> SUFFICES ASSUME Roomy PROVE PingPongInTime /\ IdleInTime BY DEF TimeoutsInTime
  <2>1. ConnInv /\ PeerRules BY <1>1 DEF TimeoutInv
  <2>2. PingPongInTime
    <3> SUFFICES ASSUME Regular
                 PROVE  /\ closedBy = "kick" => slow
                        /\ InLoop => \A i \in DOMAIN pings : pings[i] <= Timeout
        BY DEF PingPongInTime, Regular
    <3>1. closedBy = "kick" => slow BY <2>1, TypesNow DEF PeerRules, IdleRule, PingRule
    <3>2. ASSUME InLoop, NEW i \in DOMAIN pings PROVE pings[i] <= Timeout
      <4>1. i \in 1..Len(pings) BY <2>1, <3>2, PingsIs DEF ConnInv
      <4>2. mode = "pingPong"
        <5>1. mode # "idle" BY <2>1, <4>1, PingsIs DEF PeerRules, IdleRule, ConnInv
        <5> QED BY <2>1, <5>1, TypesNow
      <4> QED BY <2>1, <3>2, <4>1, <4>2, OnePing
    <3> QED BY <3>1, <3>2
  <2>3. IdleInTime
    <3>1. closedBy = "idle" => quiet > Seconds(Idle - 1) /\ ~keep
        BY <2>1, TypesNow DEF PeerRules, IdleRule, PingRule
    <3>2. ASSUME InLoop, mode = "idle", ~keep PROVE quiet < Seconds(Idle + 1)
      <4>1. PICK h \in Held : TRUE
          BY <2>1, <3>2 DEF PeerRules, IdleRule, IdleWatched, InLoop
      <4> DEFINE x == Seconds(h[2])
                 most == Seconds(Idle + 1)
      <4>2. (x - moment) + quiet <= most
          BY <2>1, <3>2, <4>1 DEF PeerRules, IdleRule, IdleWatched, InLoop, Life
      <4>3. h[2] \in Int /\ h[2] >= 1
          BY <2>1, <3>2, <4>1, NothingOverdue DEF ConnInv, InLoop
      <4>4. x \in Int /\ x >= Parts BY <4>3, SecondsIs
      <4>6. most \in Int BY IdleIs, TimeoutConstants
      <4> HIDE DEF x, most
      <4>5. quiet < most BY <2>1, <4>2, <4>4, <4>6, TypesNow, TimeoutConstants
      <4> QED BY <4>5 DEF most
    <3> QED BY <3>1, <3>2 DEF IdleInTime
  <2> QED BY <2>2, <2>3
<1>2. TimeoutInv => TimeoutsInTime BY <1>1
<1> QED BY <1>2, RulesInvariance, PTL
=============================================================================
