---------------------------- MODULE TimingWheel -----------------------------
(***************************************************************************)
(* cooper/util/TimingWheel.cpp: wheels of buckets of entries.  A tick pops *)
(* the first bucket of wheel 1, every B ticks that of wheel 2, and so on;  *)
(* an entry is destroyed with the last bucket that holds it, and acts in   *)
(* its destructor.  A delay beyond a wheel wraps the entry in a            *)
(* CallbackEntry that puts it into the wheel below when it is destroyed.   *)
(*                                                                         *)
(* All of it happens in one loop's thread.  A tick of one second is the    *)
(* unit of time.                                                           *)
(***************************************************************************)
EXTENDS Integers, Sequences, FiniteSets, SequencesExt

CONSTANTS
    Buckets,             \* bucketsNumPerWheel_
    MaxTimeout,          \* maxTimeout
    Entries              \* what is put into the wheels

ASSUME WheelAssumption ==
    /\ Buckets \in Nat /\ Buckets > 1
    /\ MaxTimeout \in Nat /\ MaxTimeout > 1

\* pow, ticksNum: the ticks of a turn of the first k wheels.
Pow ==
    LET pow[k \in 0..MaxTimeout] == IF k = 0 THEN 1 ELSE Buckets * pow[k - 1] IN pow

\* wheelsNum_: enough for MaxTimeout ticks.
WheelsNum == CHOOSE n \in 1..MaxTimeout :
                /\ Pow[n] >= MaxTimeout
                /\ \A k \in 1..(n - 1) : Pow[k] < MaxTimeout

VARIABLES
    wheels,              \* wheels_; a member of a bucket is an Item
    ticks,               \* ticksCounter_, modulo a turn of the last wheel
    turn,                \* the wheel a tick has got to, 0 outside a tick
    dying,               \* tmp: the bucket that is being destroyed
    untimely             \* history: entries that left the wheels too early
                         \* or too late although inserted between ticks

wheelVars == <<wheels, ticks, turn, dying, untimely>>

\* path[i] is the place the entry will take in wheel i; left and inTick are
\* history: the ticks it has still to live, and that it was inserted in a tick.
Item == [entry : Entries, path : Seq(0..(Buckets - 1)), left : Int, inTick : BOOLEAN]

NoEntries == [i \in 1..WheelsNum |-> [j \in 1..Buckets |-> {}]]

WheelTypeOK ==
    /\ wheels \in [1..WheelsNum -> [1..Buckets -> SUBSET Item]]
    /\ ticks \in 0..(Pow[WheelsNum] - 1)
    /\ turn \in 0..WheelsNum
    /\ dying \in SUBSET Item
    /\ untimely \in SUBSET Entries

WheelInit ==
    /\ wheels = NoEntries
    /\ ticks = 0 /\ turn = 0 /\ dying = {} /\ untimely = {}

-----------------------------------------------------------------------------

\* Mutant: the position of the wheel is left out.
PlaceFlat(t, delay, i) == delay - 1

\* Where an entry goes in wheel i, for the delay that is left there.
Place(t, delay, i) == delay + ((t \div Pow[i - 1]) % Buckets) - 1

\* delay, wheel by wheel; it starts with one tick more, for the tick that has
\* begun already.
DelayIn(t, delay) ==
    LET d[i \in 1..WheelsNum] ==
          IF i = 1 THEN delay + 1 ELSE Place(t, d[i - 1], i - 1) \div Buckets
    IN d

\* insertEntryInloop: the first wheel that reaches so far, or the last bucket
\* of the last wheel.
WheelFor(t, delay) ==
    LET fits == {i \in 1..WheelsNum : DelayIn(t, delay)[i] <= Buckets} IN
    IF fits = {} THEN WheelsNum ELSE CHOOSE i \in fits : \A k \in fits : i <= k

InsertEntry(ws, e, delay) ==
    LET d == DelayIn(ticks, delay)
        w == WheelFor(ticks, delay)
        b == IF d[w] <= Buckets THEN d[w] ELSE Buckets
        item == [entry |-> e, left |-> delay + 1, inTick |-> turn # 0,
                 path |-> [i \in 1..(w - 1) |-> Place(ticks, d[i], i) % Buckets]]
    IN [ws EXCEPT ![w][b] = @ \cup {item}]

\* ~CallbackEntry: the entry goes into the wheel below.
Descend(ws, item) ==
    LET w == Len(item.path) IN
    [ws EXCEPT ![w][Last(item.path) + 1] =
        @ \cup {[item EXCEPT !.path = Front(item.path)]}]

\* Somebody else holds a reference to the entry of item.
HeldElsewhere(item) ==
    \/ \E i \in DOMAIN wheels : \E j \in DOMAIN wheels[i] :
          \E other \in wheels[i][j] : other.entry = item.entry
    \/ \E other \in dying \ {item} : other.entry = item.entry

-----------------------------------------------------------------------------
(* The function of runEvery *)

Pop(ws, i) == [ws EXCEPT ![i] = Append(Tail(@), {})]

Aged(S) == {[item EXCEPT !.left = @ - 1] : item \in S}

\* ++ticksCounter_, and the first bucket of the first wheel.
TickBegin ==
    /\ turn = 0 /\ turn' = 1
    /\ ticks' = (ticks + 1) % Pow[WheelsNum]
    /\ LET older == [i \in 1..WheelsNum |->
                       [j \in 1..Buckets |-> Aged(wheels[i][j])]] IN
       /\ dying' = older[1][1]
       /\ wheels' = Pop(older, 1)
    /\ UNCHANGED untimely

\* The bucket is gone; the next wheel has its turn, or the tick is over.
TickNext ==
    /\ turn # 0 /\ dying = {}
    /\ IF turn < WheelsNum /\ ticks % Pow[turn] = 0
       THEN /\ turn' = turn + 1
            /\ dying' = wheels[turn + 1][1]
            /\ wheels' = Pop(wheels, turn + 1)
       ELSE turn' = 0 /\ UNCHANGED <<dying, wheels>>
    /\ UNCHANGED <<ticks, untimely>>

\* A wrapped entry is destroyed.
TickDescend ==
    /\ turn # 0
    /\ \E item \in dying :
          /\ item.path # <<>>
          /\ dying' = dying \ {item}
          /\ wheels' = Descend(wheels, item)
    /\ UNCHANGED <<ticks, turn, untimely>>
=============================================================================
