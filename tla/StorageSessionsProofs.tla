------------------------ MODULE StorageSessionsProofs ------------------------
(***************************************************************************)
(* Why a session of the reader shows what is stored, however the dumps of  *)
(* the other program fall in between, for any states, failures and         *)
(* requests, as long as Sqlite reads back the values that were written.    *)
(***************************************************************************)
EXTENDS StorageSessions, SumTheorems, SequenceTheorems

\* Every state is read back from a column of Sqlite as it was written.
ValuesFit == "Sqlite" \in Engines => \A v \in State : SqliteColumn(v) = v

--------------------------------------------------------------------------------
(* The tables.                                                                *)

Link == State \X Action \X State
Row == SUBSET (Action \X State)
Memory == [states : SUBSET State, links : SUBSET Link]
Moments == [figures : [State -> Nat], last : State \cup {NULL}]
Table ==
  [created : BOOLEAN, rows : [State -> Row \cup {NULL}], order : Seq(State),
   info : Memory \cup {NULL}, figures : [State -> Nat], moment : Moments]

\* What the agent knows.
Known == [states |-> ToSet(list), links |-> links]

\* A memory whose links lie between its states.
WellFormed(m) ==
  /\ m \in Memory /\ IsFiniteSet(m.links)
  /\ \A l \in m.links : l[1] \in m.states /\ l[3] \in m.states

\* The rows of t are part of the memory m, and the memory m part of the rows.
Within(t, m) ==
  \A s \in Stored(t) :
    s \in m.states /\ \A l \in t.rows[s] : l[2] \in m.states /\ <<s, l[1], l[2]>> \in m.links
Holds(t, m) ==
  m.states \subseteq Stored(t) /\ \A l \in m.links : <<l[2], l[3]>> \in t.rows[l[1]]

\* Every following state of a row has a row.
FollowersStored(t) == \A s \in Stored(t) : \A l \in t.rows[s] : l[2] \in Stored(t)

\* Rows are never removed and never lose a link.
Grown(t, u) == \A s \in Stored(t) : s \in Stored(u) /\ t.rows[s] \subseteq u.rows[s]

\* The order in which the rows of t are read.
Ordered(t) ==
  /\ ToSet(t.order) = Stored(t)
  /\ \A i, j \in 1..Len(t.order) : t.order[i] = t.order[j] => i = j
  /\ engine = "Sqlite" => \A i, j \in 1..Len(t.order) : i < j => t.order[i] < t.order[j]

\* What tables always are.
SoundTable(t) ==
  /\ t \in Table /\ Ordered(t) /\ Within(t, Known)
  /\ engine = "Agent" => t.info = NULL
  /\ engine # "Agent" =>
       IF t.info = NULL THEN Stored(t) = {} ELSE WellFormed(t.info) /\ Within(t, t.info)

DumpTypes ==
  /\ engine \in {"Sqlite", "Mysql", "Agent"}
  /\ list \in Seq(State) /\ WellFormed(Known)
  /\ IF list = <<>> THEN last = NULL ELSE last \in ToSet(list)
  /\ figures \in [State -> Nat]
  /\ dumper \in {"idle", "opened", "dumping", "dead"}
  /\ left \in Seq(State) /\ ToSet(left) \subseteq ToSet(list)
  /\ locked \in BOOLEAN
  /\ locked => engine = "Sqlite" /\ dumper = "dumping"

\* Between dumps the tables are complete, but those of Mysql after a dump was
\* killed; and a dump under way has written the states it has passed.
DumpProgress ==
  /\ Grown(disk, tables)
  /\ engine # "Sqlite" \/ dumper # "dumping" => tables = disk
  /\ engine = "Agent" => FollowersStored(disk)
  /\ disk.info # NULL /\ (engine = "Sqlite" \/ dumper \in {"idle", "opened"}) =>
       Holds(disk, disk.info)
  /\ dumper = "dumping" =>
       /\ engine # "Agent" => tables.info = Known
       /\ \A s \in ToSet(list) \ ToSet(left) :
            s \in Stored(tables) /\ getStateInfo(s) \subseteq tables.rows[s]

DumpInv == DumpTypes /\ SoundTable(tables) /\ SoundTable(disk) /\ DumpProgress

--------------------------------------------------------------------------------
(* The session.                                                               *)

Page == [st : State, row : Row, figure : Nat]
Sessions ==
  [viewer : Viewer, which : State \cup {NULL},
   place : {"rest", "exited", "info", "first", "row", "next", "follower"},
   index : Nat, st : State \cup {NULL}, info : Memory \cup {NULL}, moment : Moments,
   pages : Seq(Page),
   pending : SUBSET State, drawn : SUBSET State, missed : BOOLEAN, midway : BOOLEAN,
   outcome : {"none", "not_opened", "not_found", "shown", "exited"}, warned : BOOLEAN]
SessionTypes ==
  /\ session \in Sessions /\ began \in SUBSET State /\ disturbed \in BOOLEAN
  /\ engine = "Sqlite" => \A v \in State : SqliteColumn(v) = v

\* The states a walk has to come by: those stored when it began and those of
\* the memory information; it has come by those among the first n rows.
Expected == began \cup IF session.info = NULL THEN {} ELSE session.info.states
Passed(n, read) ==
  \A k \in 1..Len(disk.order) : k <= n /\ disk.order[k] \in Expected => disk.order[k] \in read

\* Where the session of a whole memory stands.
WholeProgress ==
  /\ session.pending = {} /\ session.drawn = {}
  /\ session.place \in {"info", "first"} => session.pages = <<>>
  /\ session.place = "info" => session.info = NULL
  /\ session.place = "row" =>
       /\ Len(session.pages) = session.index /\ session.index < Len(disk.order)
       /\ session.st \in Stored(disk) /\ Passed(session.index + 1, StatesRead \cup {session.st})
       /\ engine # "Sqlite" \/ ~ disturbed => session.st = disk.order[session.index + 1]
  /\ session.place = "next" =>
       /\ Len(session.pages) = session.index + 1 /\ session.index < Len(disk.order)
       /\ Passed(session.index + 1, StatesRead)
  /\ engine # "Sqlite" \/ ~ disturbed =>
       \A i \in 1..Len(session.pages) :
         i <= Len(disk.order) /\ session.pages[i].st = disk.order[i]

\* And where the one of a state does.
OneProgress ==
  /\ session.viewer # "load"
  /\ session.place \in {"row", "follower"} /\ session.st = session.which
  /\ session.info = NULL /\ session.drawn \subseteq State
  /\ session.place = "row" =>
       session.pages = <<>> /\ session.pending = {} /\ session.drawn = {}
  /\ session.place = "follower" =>
       /\ Draws(session) /\ Len(session.pages) = 1
       /\ session.pages[1].st = session.which
       /\ \A l \in session.pages[1].row :
            l[2] \in {session.which} \cup session.pending \cup session.drawn
       /\ engine = "Mysql" => session.midway \/ dumper = "dead" \/ session.pending \subseteq Stored(disk)
       /\ engine # "Mysql" => session.pending \subseteq Stored(disk)

\* The rows read hold all the links of the memory m from their states.
PagesHold(m) ==
  \A i \in DOMAIN session.pages : \A l \in m.links :
    l[1] = session.pages[i].st => <<l[2], l[3]>> \in session.pages[i].row

\* What the memory information says, compared with the rows.
InfoProgress ==
  /\ session.midway => engine = "Mysql"
  /\ session.info # NULL =>
       /\ WellFormed(session.info)
       /\ ~ disturbed => session.info = IF engine = "Agent" THEN Graph(disk.rows) ELSE disk.info
       /\ engine # "Agent" /\ ~ session.midway =>
            \/ engine = "Mysql" /\ dumper = "dead" /\ session.info = disk.info
            \/ Holds(disk, session.info) /\ PagesHold(session.info)

SessionProgress ==
  ~ AtRest =>
    /\ session.outcome = "none"
    /\ engine = "Agent" => dumper = "idle"
    /\ began \subseteq Stored(disk) /\ (~ disturbed => began = Stored(disk))
    /\ \A i \in DOMAIN session.pages :
         /\ session.pages[i].st \in Stored(disk)
         /\ session.pages[i].row \subseteq disk.rows[session.pages[i].st]
         /\ engine # "Mysql" => \A l \in session.pages[i].row : l[2] \in Stored(disk)
    /\ IF Whole THEN WholeProgress ELSE OneProgress
    /\ InfoProgress

SessionInv ==
  /\ SessionTypes
  /\ engine = "Agent" => ~ disturbed
  /\ SessionProgress

Results == WalkComplete /\ DrawingSound /\ UnwarnedGraphExact /\ ReaderSurvives

--------------------------------------------------------------------------------
(* Rows and their order.                                                      *)

\* What a sequence holds.
LEMMA InToSet ==
  ASSUME NEW S, NEW q \in Seq(S)
  PROVE  \A x : x \in ToSet(q) <=> \E i \in 1..Len(q) : q[i] = x
<1>1. DOMAIN q = 1..Len(q) BY LenProperties
<1>2. QED BY <1>1 DEF ToSet

\* And what one followed by another, or without its head, does.
LEMMA ConcatHolds ==
  ASSUME NEW S, NEW p \in Seq(S), NEW q \in Seq(S)
  PROVE  ToSet(p \o q) = ToSet(p) \cup ToSet(q)
<1>1. /\ p \o q \in Seq(S) /\ Len(p \o q) = Len(p) + Len(q) /\ Len(p) \in Nat /\ Len(q) \in Nat
      /\ \A i \in 1..Len(p) + Len(q) : (p \o q)[i] = IF i <= Len(p) THEN p[i] ELSE q[i - Len(p)]
  BY LenProperties, ConcatProperties
<1>2. ASSUME NEW x \in ToSet(p \o q) PROVE x \in ToSet(p) \cup ToSet(q)
  <2>1. PICK i \in 1..Len(p) + Len(q) : (p \o q)[i] = x BY <1>1, <1>2, InToSet
  <2>2. CASE i <= Len(p)
    <3>1. i \in 1..Len(p) /\ p[i] = x BY <1>1, <2>1, <2>2
    <3>2. QED BY <3>1, InToSet
  <2>3. CASE ~ (i <= Len(p))
    <3>1. i - Len(p) \in 1..Len(q) /\ q[i - Len(p)] = x BY <1>1, <2>1, <2>3
    <3>2. QED BY <3>1, InToSet
  <2>4. QED BY <2>2, <2>3
<1>3. ASSUME NEW x \in ToSet(p) PROVE x \in ToSet(p \o q)
  <2>1. PICK i \in 1..Len(p) : p[i] = x BY <1>3, InToSet
  <2>2. i \in 1..Len(p) + Len(q) /\ (p \o q)[i] = x BY <1>1, <2>1
  <2>3. QED BY <1>1, <2>2, InToSet
<1>4. ASSUME NEW x \in ToSet(q) PROVE x \in ToSet(p \o q)
  <2>1. PICK i \in 1..Len(q) : q[i] = x BY <1>4, InToSet
  <2>2. i + Len(p) \in 1..Len(p) + Len(q) /\ (p \o q)[i + Len(p)] = x BY <1>1, <2>1
  <2>3. QED BY <1>1, <2>2, InToSet
<1>5. QED BY <1>2, <1>3, <1>4

\* What a sequence with one more element holds.
LEMMA AppendHolds ==
  ASSUME NEW S, NEW q \in Seq(S), NEW x \in S PROVE ToSet(Append(q, x)) = ToSet(q) \cup {x}
<1>1. /\ Append(q, x) \in Seq(S) /\ Len(Append(q, x)) = Len(q) + 1 /\ Len(q) \in Nat
      /\ \A i \in 1..Len(q) : Append(q, x)[i] = q[i]
      /\ Append(q, x)[Len(q) + 1] = x
  BY AppendProperties, LenProperties
<1>2. ASSUME NEW y \in ToSet(Append(q, x)) PROVE y \in ToSet(q) \cup {x}
  <2>0. PICK i \in 1..Len(Append(q, x)) : Append(q, x)[i] = y BY <1>1, <1>2, InToSet
  <2>1. i \in 1..Len(q) + 1 BY <1>1, <2>0
  <2>2. CASE i = Len(q) + 1 BY <1>1, <2>0, <2>2
  <2>3. CASE i # Len(q) + 1
    <3>1. i \in 1..Len(q) /\ q[i] = y BY <1>1, <2>0, <2>1, <2>3
    <3>2. QED BY <3>1, InToSet
  <2>4. QED BY <2>2, <2>3
<1>3. ASSUME NEW y \in ToSet(q) PROVE y \in ToSet(Append(q, x))
  <2>1. PICK i \in 1..Len(q) : q[i] = y BY <1>3, InToSet
  <2>2. i \in 1..Len(q) + 1 /\ Append(q, x)[i] = y BY <1>1, <2>1
  <2>3. QED BY <1>1, <2>2, InToSet
<1>4. x \in ToSet(Append(q, x))
  <2>1. Len(q) + 1 \in 1..Len(q) + 1 BY <1>1
  <2>2. QED BY <1>1, <2>1, InToSet
<1>5. QED BY <1>2, <1>3, <1>4

\* And what the head and the tail of one do.
LEMMA HeadAndTailHold ==
  ASSUME NEW S, NEW q \in Seq(S), q # <<>>
  PROVE  /\ Head(q) \in S /\ Tail(q) \in Seq(S)
         /\ ToSet(q) = {Head(q)} \cup ToSet(Tail(q))
<1>1. /\ Tail(q) \in Seq(S) /\ Len(Tail(q)) = Len(q) - 1 /\ Len(q) \in Nat \ {0}
      /\ \A i \in 1..Len(Tail(q)) : Tail(q)[i] = q[i + 1]
      /\ Head(q) = q[1] /\ Head(q) \in S
  BY HeadTailProperties, EmptySeq, LenProperties
<1>2. ASSUME NEW x \in ToSet(q) PROVE x \in {Head(q)} \cup ToSet(Tail(q))
  <2>1. PICK i \in 1..Len(q) : q[i] = x BY <1>2, InToSet
  <2>2. CASE i = 1 BY <1>1, <2>1, <2>2
  <2>3. CASE i # 1
    <3>1. i - 1 \in 1..Len(Tail(q)) BY <1>1, <2>3
    <3>2. Tail(q)[i - 1] = q[(i - 1) + 1] /\ (i - 1) + 1 = i BY <1>1, <3>1
    <3>3. Tail(q)[i - 1] = x BY <2>1, <3>2
    <3>4. QED BY <1>1, <3>1, <3>3, InToSet
  <2>4. QED BY <2>2, <2>3
<1>3. Head(q) \in ToSet(q)
  <2>1. 1 \in 1..Len(q) BY <1>1
  <2>2. QED BY <1>1, <2>1, InToSet
<1>4. ASSUME NEW x \in ToSet(Tail(q)) PROVE x \in ToSet(q)
  <2>1. PICK i \in 1..Len(Tail(q)) : Tail(q)[i] = x BY <1>1, <1>4, InToSet
  <2>2. i + 1 \in 1..Len(q) /\ q[i + 1] = x BY <1>1, <2>1
  <2>3. QED BY <2>2, InToSet
<1>5. QED BY <1>1, <1>2, <1>3, <1>4

\* The row of a state that is stored is a row.
LEMMA StoredIn == ASSUME NEW t, t \in Table PROVE \A s \in Stored(t) : t.rows[s] \in Row
BY DEF Table, Stored

\* A sequence of SetToSeqs(S) holds every element of S once.
LEMMA SequenceOfSet ==
  ASSUME NEW S, IsFiniteSet(S), NEW q \in SetToSeqs(S)
  PROVE  /\ q \in Seq(S) /\ ToSet(q) = S
         /\ \A i, j \in 1..Len(q) : q[i] = q[j] => i = j
<1> DEFINE n == Cardinality(S)
<1>1. n \in Nat BY FS_CardinalityType
<1>2. q \in [1..n -> S] /\ \A i, j \in 1..n : i # j => q[i] # q[j] BY DEF SetToSeqs
<1>3. q \in Seq(S) /\ Len(q) = n /\ DOMAIN q = 1..n BY <1>1, <1>2
<1>4. q \in Injection(1..n, S) BY <1>2 DEF Injection, IsInjective
<1>5. IsFiniteSet(1..n) /\ Cardinality(1..n) = n BY <1>1, FS_Interval
<1>6. q \in Surjection(1..n, S) BY <1>4, <1>5, FS_Injection
<1>7. ToSet(q) = S BY <1>2, <1>6 DEF Surjection, ToSet
<1>8. QED BY <1>2, <1>3, <1>7

\* The rows that are in both of two tables in the order of their keys come no
\* earlier in the table with more rows.
LEMMA KeysMoveOn ==
  ASSUME NEW p, NEW q, p \in Seq(State), q \in Seq(State), ToSet(p) \subseteq ToSet(q),
         \A i, j \in 1..Len(p) : i < j => p[i] < p[j],
         \A i, j \in 1..Len(q) : i < j => q[i] < q[j]
  PROVE  /\ \A i \in 1..Len(p), j \in 1..Len(q) : p[i] = q[j] => i <= j
         /\ Len(p) <= Len(q)
<1> DEFINE Good == {i \in Nat : i \in 1..Len(p) => \A j \in 1..Len(q) : p[i] = q[j] => i <= j}
<1>0. /\ Len(p) \in Nat /\ Len(q) \in Nat /\ DOMAIN p = 1..Len(p) /\ DOMAIN q = 1..Len(q)
      /\ \A i \in 1..Len(p) : p[i] \in Int
      /\ \A i \in 1..Len(q) : q[i] \in Int
  BY ValuesAreIntegers, LenProperties, ElementOfSeq
<1>1. 0 \in Good OBVIOUS
<1>2. ASSUME NEW i \in Nat, i \in Good PROVE i + 1 \in Good
  <2>1. ASSUME i + 1 \in 1..Len(p), NEW j \in 1..Len(q), p[i + 1] = q[j] PROVE i + 1 <= j
    <3>1. CASE i = 0 BY <1>0, <3>1
    <3>2. CASE i # 0
      <4>1. i \in 1..Len(p) /\ p[i] < p[i + 1] BY <1>0, <2>1, <3>2
      <4>2. PICK k \in 1..Len(q) : q[k] = p[i] BY <1>0, <4>1 DEF ToSet
      <4>3. i <= k BY <1>2, <4>1, <4>2
      <4>4. k < j
        <5>1. CASE k = j BY <1>0, <2>1, <4>1, <4>2, <5>1
        <5>2. CASE j < k BY <1>0, <2>1, <4>1, <4>2, <5>2
        <5>3. QED BY <1>0, <5>1, <5>2
      <4>5. QED BY <1>0, <4>3, <4>4
    <3>3. QED BY <3>1, <3>2
  <2>2. QED BY <2>1
<1>3. Nat \subseteq Good
  <2> HIDE DEF Good
  <2>1. QED BY <1>1, <1>2, InductionOnNat
<1>4. \A i \in 1..Len(p), j \in 1..Len(q) : p[i] = q[j] => i <= j BY <1>0, <1>3
<1>5. Len(p) <= Len(q)
  <2>1. CASE Len(p) = 0 BY <1>0, <2>1
  <2>2. CASE Len(p) # 0
    <3>1. Len(p) \in 1..Len(p) BY <1>0, <2>2
    <3>2. PICK k \in 1..Len(q) : q[k] = p[Len(p)] BY <1>0, <3>1 DEF ToSet
    <3>3. QED BY <1>0, <1>4, <3>1, <3>2
  <2>3. QED BY <2>1, <2>2
<1>6. QED BY <1>4, <1>5

\* What it takes to be a table.
LEMMA TableOf ==
  ASSUME NEW created, NEW rows, NEW order, NEW info, NEW counted, NEW moment,
         created \in BOOLEAN, rows \in [State -> Row \cup {NULL}], order \in Seq(State),
         info \in Memory \cup {NULL}, counted \in [State -> Nat], moment \in Moments
  PROVE  [created |-> created, rows |-> rows, order |-> order, info |-> info,
          figures |-> counted, moment |-> moment] \in Table
BY DEF Table

\* What a dump writes of one state into the tables of a database.
LEMMA DatabasePutRow ==
  ASSUME NEW t, t \in Table, Ordered(t), engine # "Agent", NEW s \in State, NEW row \in Row,
         NEW u \in DatabasePut(t, s, row), figures \in [State -> Nat]
  PROVE  /\ u \in Table /\ u.info = t.info /\ Ordered(u) /\ u.moment = t.moment
         /\ u.figures[s] = figures[s] /\ \A x \in State \ {s} : u.figures[x] = t.figures[x]
         /\ Stored(u) = Stored(t) \cup {s}
         /\ u.rows[s] = row /\ \A x \in State \ {s} : u.rows[x] = t.rows[x]
         /\ engine # "Sqlite" =>
              /\ Len(t.order) <= Len(u.order)
              /\ \A i \in 1..Len(t.order) : u.order[i] = t.order[i]
<1> DEFINE Kept == Stored(t) \cup {s}
<1>1. PICK order : /\ u = [t EXCEPT !.rows[s] = row, !.figures[s] = figures[s], !.order = order]
                   /\ order \in IF s \in Stored(t) THEN {t.order}
                                ELSE IF engine = "Sqlite" THEN ByKey(Kept)
                                ELSE {Append(t.order, s)}
  BY DEF DatabasePut
<1>2. /\ t.rows \in [State -> Row \cup {NULL}] /\ t.order \in Seq(State)
      /\ t.created \in BOOLEAN /\ t.info \in Memory \cup {NULL} /\ row # NULL
      /\ t.figures \in [State -> Nat] /\ t.moment \in Moments
  BY NullIsNone DEF Table, Row
<1>3. /\ u.rows = [t.rows EXCEPT ![s] = row] /\ u.order = order /\ u.info = t.info
      /\ u.created = t.created /\ u.moment = t.moment
      /\ u.figures = [t.figures EXCEPT ![s] = figures[s]]
  BY <1>1, <1>2 DEF Table
<1>4. u.rows[s] = row /\ \A x \in State \ {s} : u.rows[x] = t.rows[x] BY <1>2, <1>3
<1>5. Stored(u) = Kept BY <1>2, <1>4 DEF Stored
<1>6. Kept \subseteq State /\ IsFiniteSet(Kept) BY ValuesAreIntegers, FS_Subset DEF Stored
<1>7. /\ order \in Seq(State) /\ ToSet(order) = Kept
      /\ \A i, j \in 1..Len(order) : order[i] = order[j] => i = j
      /\ engine = "Sqlite" => \A i, j \in 1..Len(order) : i < j => order[i] < order[j]
      /\ engine # "Sqlite" =>
           Len(t.order) <= Len(order) /\ \A i \in 1..Len(t.order) : order[i] = t.order[i]
  <2>1. CASE s \in Stored(t)
    <3>1. order = t.order /\ Kept = Stored(t) /\ Len(order) \in Nat
      BY <1>1, <1>2, <2>1, LenProperties
    <3>2. QED BY <1>2, <3>1 DEF Ordered
  <2>2. CASE s \notin Stored(t) /\ engine = "Sqlite"
    <3>1. order \in SetToSeqs(Kept) /\ \A i, j \in DOMAIN order : i < j => order[i] < order[j]
      BY <1>1, <2>2 DEF ByKey
    <3>2. /\ order \in Seq(Kept) /\ ToSet(order) = Kept
          /\ \A i, j \in 1..Len(order) : order[i] = order[j] => i = j
      BY <1>6, <3>1, SequenceOfSet
    <3>3. order \in Seq(State) BY <1>6, <3>2, SeqMonotonic
    <3>4. QED BY <2>2, <3>1, <3>2, <3>3, LenProperties
  <2>3. CASE s \notin Stored(t) /\ engine # "Sqlite"
    <3>1. order = Append(t.order, s) BY <1>1, <2>3
    <3>2. /\ order \in Seq(State) /\ Len(order) = Len(t.order) + 1 /\ Len(t.order) \in Nat
          /\ \A i \in 1..Len(t.order) : order[i] = t.order[i]
          /\ order[Len(t.order) + 1] = s
      BY <1>2, <3>1, AppendProperties, LenProperties
    <3>3. \A i \in 1..Len(t.order) : t.order[i] # s
      BY <1>2, <2>3, InToSet DEF Ordered
    <3>4. \A i, j \in 1..Len(order) : order[i] = order[j] => i = j
      <4>1. \A i, j \in 1..Len(t.order) : t.order[i] = t.order[j] => i = j BY DEF Ordered
      <4>2. QED BY ONLY <3>2, <3>3, <4>1
    <3>5. ToSet(order) = ToSet(t.order) \cup {s}
      BY <1>2, <3>1, AppendHolds
    <3>6. QED BY <2>3, <3>2, <3>4, <3>5 DEF Ordered
  <2>4. QED BY <2>1, <2>2, <2>3
<1>8. u = [created |-> u.created, rows |-> u.rows, order |-> u.order, info |-> u.info,
           figures |-> u.figures, moment |-> u.moment]
  BY <1>1 DEF Table
<1>9. u \in Table
  <2>1. /\ u.created \in BOOLEAN /\ u.rows \in [State -> Row \cup {NULL}] /\ u.order \in Seq(State)
        /\ u.info \in Memory \cup {NULL} /\ u.figures \in [State -> Nat] /\ u.moment \in Moments
    BY <1>2, <1>3, <1>7
  <2>2. QED BY ONLY <1>8, <2>1, TableOf
<1>10. Ordered(u) BY <1>3, <1>5, <1>7 DEF Ordered
<1>11. \A x \in State \ {s} : u.figures[x] = t.figures[x] BY <1>2, <1>3
<1>12. u.figures[s] = figures[s] BY <1>2, <1>3
<1>13. QED BY <1>3, <1>4, <1>5, <1>7, <1>9, <1>10, <1>11, <1>12

\* And into the memory of an agent, which makes the following states too.
LEMMA AgentPutRow ==
  ASSUME NEW t, t \in Table, Ordered(t), engine = "Agent", NEW s \in State, NEW row \in Row,
         NEW u \in AgentPut(t, s, row), figures \in [State -> Nat]
  PROVE  /\ u \in Table /\ u.info = t.info /\ Ordered(u) /\ u.moment = t.moment
         /\ u.figures[s] = figures[s] /\ \A x \in Stored(t) \ {s} : u.figures[x] = t.figures[x]
         /\ Stored(u) = Stored(t) \cup {s} \cup {l[2] : l \in row}
         /\ u.rows[s] = row
         /\ \A x \in Stored(t) \ {s} : u.rows[x] = t.rows[x]
         /\ \A x \in Stored(u) \ (Stored(t) \cup {s}) : u.rows[x] = {}
<1> DEFINE followers == {l[2] : l \in row} \ (Stored(t) \cup {s})
           rows == [x \in State |-> IF x = s THEN row ELSE IF x \in followers THEN {} ELSE t.rows[x]]
           counted == [x \in State |-> IF x = s THEN figures[s]
                                      ELSE IF x \in followers THEN 0 ELSE t.figures[x]]
           old == IF s \in Stored(t) THEN t.order ELSE <<s>> \o t.order
<1>1. PICK new \in SetToSeqs(followers) :
        u = [t EXCEPT !.rows = rows, !.figures = counted, !.order = new \o old]
  BY DEF AgentPut
<1>2. /\ t.rows \in [State -> Row \cup {NULL}] /\ t.order \in Seq(State)
      /\ t.created \in BOOLEAN /\ t.info \in Memory \cup {NULL}
      /\ t.figures \in [State -> Nat] /\ t.moment \in Moments
      /\ row # NULL /\ {} # NULL /\ {} \in Row
  BY NullIsNone DEF Table, Row
<1>3. /\ u.rows = rows /\ u.order = new \o old /\ u.info = t.info /\ u.created = t.created
      /\ u.figures = counted /\ u.moment = t.moment
  BY <1>1, <1>2 DEF Table
<1>4. followers \subseteq State /\ IsFiniteSet(followers)
  BY ValuesAreIntegers, FS_Subset DEF Row
<1>5. /\ new \in Seq(State) /\ ToSet(new) = followers
      /\ \A i, j \in 1..Len(new) : new[i] = new[j] => i = j
  BY <1>1, <1>4, SequenceOfSet, SeqMonotonic
<1>6. /\ old \in Seq(State) /\ ToSet(old) = Stored(t) \cup {s}
      /\ \A i, j \in 1..Len(old) : old[i] = old[j] => i = j
  <2>1. CASE s \in Stored(t) BY <1>2, <2>1 DEF Ordered
  <2>2. CASE s \notin Stored(t)
    <3>1. old = <<s>> \o t.order BY <2>2
    <3>2. /\ old \in Seq(State) /\ Len(old) = Len(t.order) + 1 /\ Len(t.order) \in Nat
          /\ old[1] = s
          /\ \A i \in 2..Len(old) : old[i] = t.order[i - 1]
      BY <1>2, <3>1, LenProperties, ConcatProperties
    <3>3. \A i \in 1..Len(t.order) : t.order[i] # s
      BY <1>2, <2>2, InToSet DEF Ordered
    <3>4. \A i, j \in 1..Len(old) : old[i] = old[j] => i = j
      BY <3>2, <3>3 DEF Ordered
    <3>5. ToSet(old) = ToSet(t.order) \cup {s}
      <4>1. <<s>> \in Seq(State) /\ <<>> \in Seq(State) OBVIOUS
      <4>2. ToSet(<<s>>) = {s} BY DEF ToSet
      <4>3. ToSet(<<s>> \o t.order) = ToSet(<<s>>) \cup ToSet(t.order)
        <5>1. t.order \in Seq(State) BY <1>2
        <5>2. QED BY ONLY <4>1, <5>1, ConcatHolds, Zenon
      <4>4. QED BY <3>1, <4>2, <4>3
    <3>6. QED BY <3>2, <3>4, <3>5 DEF Ordered
  <2>3. QED BY <2>1, <2>2
<1> DEFINE order == new \o old
<1>7. /\ order \in Seq(State) /\ ToSet(order) = Stored(t) \cup {s} \cup followers
      /\ \A i, j \in 1..Len(order) : order[i] = order[j] => i = j
  <2>1. followers \cap (Stored(t) \cup {s}) = {} OBVIOUS
  <2> HIDE DEF followers, old
  <2>2. /\ order \in Seq(State) /\ Len(order) = Len(new) + Len(old)
        /\ Len(new) \in Nat /\ Len(old) \in Nat
        /\ \A i \in 1..Len(new) : order[i] = new[i] /\ new[i] \in followers
        /\ \A i \in 1..Len(old) : order[Len(new) + i] = old[i] /\ old[i] \in Stored(t) \cup {s}
    <3>1. /\ order \in Seq(State) /\ Len(order) = Len(new) + Len(old)
          /\ Len(new) \in Nat /\ Len(old) \in Nat
          /\ \A i \in 1..Len(new) + Len(old) :
               order[i] = IF i <= Len(new) THEN new[i] ELSE old[i - Len(new)]
      BY <1>5, <1>6, LenProperties, ConcatProperties
    <3>2. \A i \in 1..Len(new) : new[i] \in followers BY <1>5, InToSet
    <3>3. \A i \in 1..Len(old) : old[i] \in Stored(t) \cup {s} BY <1>6, InToSet
    <3> HIDE DEF order
    <3>4. \A i \in 1..Len(new) : order[i] = new[i] BY ONLY <3>1
    <3>5. \A i \in 1..Len(old) : order[Len(new) + i] = old[i] BY ONLY <3>1
    <3>6. QED BY ONLY <3>1, <3>2, <3>3, <3>4, <3>5
  <2>3. \A i \in (Len(new) + 1)..Len(order) :
          i - Len(new) \in 1..Len(old) /\ order[i] = old[i - Len(new)]
    <3> TAKE i \in (Len(new) + 1)..Len(order)
    <3>1. i - Len(new) \in 1..Len(old) /\ i = Len(new) + (i - Len(new)) BY <2>2
    <3>2. QED BY <2>2, <3>1
  <2>4. ASSUME NEW i \in 1..Len(order), NEW j \in 1..Len(order), order[i] = order[j] PROVE i = j
    <3> HIDE DEF order
    <3>1. \A k \in 1..Len(order) : k <= Len(new) =>
            k \in 1..Len(new) /\ order[k] = new[k] /\ order[k] \in followers
      BY <2>2
    <3>2. \A k \in 1..Len(order) : ~ (k <= Len(new)) =>
            /\ k - Len(new) \in 1..Len(old) /\ order[k] = old[k - Len(new)]
            /\ order[k] \in Stored(t) \cup {s}
      <4> SUFFICES ASSUME NEW k \in 1..Len(order), ~ (k <= Len(new))
                   PROVE  /\ k - Len(new) \in 1..Len(old) /\ order[k] = old[k - Len(new)]
                          /\ order[k] \in Stored(t) \cup {s}
        OBVIOUS
      <4>1. k \in (Len(new) + 1)..Len(order) BY <2>2
      <4>2. k - Len(new) \in 1..Len(old) /\ order[k] = old[k - Len(new)] BY <2>3, <4>1
      <4>3. old[k - Len(new)] \in Stored(t) \cup {s}
        <5>1. \A l \in 1..Len(old) : old[l] \in Stored(t) \cup {s} BY <2>2
        <5>2. QED BY ONLY <4>2, <5>1, Zenon
      <4>4. QED BY <4>2, <4>3
    <3>3. CASE i <= Len(new) /\ j <= Len(new)
      <4>1. /\ i \in 1..Len(new) /\ order[i] = new[i]
            /\ j \in 1..Len(new) /\ order[j] = new[j]
        BY <3>1, <3>3
      <4>2. \A k, l \in 1..Len(new) : new[k] = new[l] => k = l BY <1>5
      <4>3. QED BY ONLY <2>4, <4>1, <4>2
    <3>4. i <= Len(new) <=> j <= Len(new)
      <4>1. order[i] \in followers <=> i <= Len(new) BY <2>1, <3>1, <3>2
      <4>2. order[j] \in followers <=> j <= Len(new) BY <2>1, <3>1, <3>2
      <4>3. QED BY ONLY <2>4, <4>1, <4>2, Zenon
    <3>5. CASE ~ (i <= Len(new)) /\ ~ (j <= Len(new))
      <4>1. /\ i - Len(new) \in 1..Len(old) /\ order[i] = old[i - Len(new)]
            /\ j - Len(new) \in 1..Len(old) /\ order[j] = old[j - Len(new)]
        BY <3>2, <3>5
      <4>2. \A k, l \in 1..Len(old) : old[k] = old[l] => k = l BY <1>6
      <4>3. i - Len(new) = j - Len(new) BY ONLY <2>4, <4>1, <4>2
      <4>4. QED BY <2>2, <4>3
    <3>6. QED BY <3>3, <3>4, <3>5
  <2>5. ToSet(order) = ToSet(new) \cup ToSet(old) BY <1>5, <1>6, ConcatHolds
  <2> HIDE DEF order
  <2>6. QED BY <1>5, <1>6, <2>2, <2>4, <2>5
<1>8. u = [created |-> u.created, rows |-> u.rows, order |-> u.order, info |-> u.info,
           figures |-> u.figures, moment |-> u.moment]
  BY <1>1 DEF Table
<1>9. rows \in [State -> Row \cup {NULL}] /\ counted \in [State -> Nat] BY <1>2
<1>10. u \in Table
  <2> HIDE DEF order, rows, counted
  <2>1. u.order \in Seq(State) BY <1>3, <1>7 DEF order
  <2>2. /\ u.created \in BOOLEAN /\ u.rows \in [State -> Row \cup {NULL}]
        /\ u.info \in Memory \cup {NULL} /\ u.figures \in [State -> Nat] /\ u.moment \in Moments
    BY <1>2, <1>3, <1>9
  <2>3. QED BY ONLY <1>8, <2>1, <2>2, TableOf
<1>11. /\ u.rows[s] = row /\ \A x \in Stored(t) \ {s} : u.rows[x] = t.rows[x]
       /\ \A x \in followers : u.rows[x] = {}
  <2>1. \A x \in State : u.rows[x] = IF x = s THEN row ELSE IF x \in followers THEN {} ELSE t.rows[x]
    BY <1>3
  <2>2. s \notin followers /\ followers \cap Stored(t) = {} OBVIOUS
  <2> HIDE DEF followers
  <2>3. QED BY <1>4, <2>1, <2>2 DEF Stored
<1>12. Stored(u) = Stored(t) \cup {s} \cup followers
  <2>1. \A x \in State : u.rows[x] = IF x = s THEN row ELSE IF x \in followers THEN {} ELSE t.rows[x]
    BY <1>3
  <2> HIDE DEF followers
  <2>2. QED BY <1>2, <1>4, <2>1 DEF Stored
<1>13. Ordered(u) BY <1>3, <1>7, <1>12 DEF Ordered
<1>14. u.figures[s] = figures[s] /\ \A x \in Stored(t) \ {s} : u.figures[x] = t.figures[x]
  <2>1. \A x \in State : u.figures[x] = IF x = s THEN figures[s]
                                        ELSE IF x \in followers THEN 0 ELSE t.figures[x]
    BY <1>3
  <2>2. followers \cap Stored(t) = {} OBVIOUS
  <2> HIDE DEF followers
  <2>3. QED BY <2>1, <2>2 DEF Stored
<1>15. QED BY <1>3, <1>10, <1>11, <1>12, <1>13, <1>14

--------------------------------------------------------------------------------
(* The program that dumps.                                                    *)

\* The row a dump writes of a state: all that is known of it.
LEMMA RowOfState ==
  ASSUME DumpTypes, NEW s \in State
  PROVE  /\ getStateInfo(s) \in Row
         /\ \A l \in getStateInfo(s) : <<s, l[1], l[2]>> \in links /\ l[2] \in ToSet(list)
         /\ \A l \in links : l[1] = s => <<l[2], l[3]>> \in getStateInfo(s)
         /\ \A t : t \in Table /\ Within(t, Known) /\ s \in Stored(t) =>
              t.rows[s] \subseteq getStateInfo(s)
<1>1. /\ links \subseteq Link
      /\ \A l \in links : l[1] \in ToSet(list) /\ l[3] \in ToSet(list)
  BY DEF DumpTypes, WellFormed, Known, Memory
<1>2. \A l \in links : l = <<l[1], l[2], l[3]>> /\ l[2] \in Action /\ l[3] \in State
  BY <1>1 DEF Link
<1>3. ASSUME NEW r \in getStateInfo(s)
      PROVE  /\ r \in Action \X State
             /\ <<s, r[1], r[2]>> \in links /\ r[2] \in ToSet(list)
  <2>1. PICK l \in links : l[1] = s /\ r = <<l[2], l[3]>> BY <1>3 DEF getStateInfo
  <2>2. r[1] = l[2] /\ r[2] = l[3] BY <2>1
  <2>3. <<s, r[1], r[2]>> = l BY <1>2, <2>1, <2>2
  <2>4. QED BY <1>1, <1>2, <2>1, <2>2, <2>3
<1>4. \A l \in links : l[1] = s => <<l[2], l[3]>> \in getStateInfo(s) BY DEF getStateInfo
<1>5. ASSUME NEW t, t \in Table, Within(t, Known), s \in Stored(t), NEW r \in t.rows[s]
      PROVE  r \in getStateInfo(s)
  <2>1. t.rows[s] \in Row BY <1>5, StoredIn
  <2>2. r = <<r[1], r[2]>> BY <2>1 DEF Row
  <2>3. <<s, r[1], r[2]>> \in links BY <1>5 DEF Within, Known
  <2> DEFINE l == <<s, r[1], r[2]>>
  <2>4. l[1] = s /\ l[2] = r[1] /\ l[3] = r[2] OBVIOUS
  <2>5. <<l[2], l[3]>> \in getStateInfo(s) BY <1>4, <2>3, <2>4
  <2>6. QED BY <2>2, <2>4, <2>5
<1>6. QED BY <1>3, <1>4, <1>5 DEF Row

\* What is part of a memory is part of a larger one.
LEMMA WithinMore ==
  ASSUME NEW t, NEW m, NEW n, m.states \subseteq n.states, m.links \subseteq n.links, Within(t, m)
  PROVE  Within(t, n)
BY DEF Within

\* A state written into sound tables leaves them sound, with more in them.
LEMMA PutIsSound ==
  ASSUME DumpTypes, NEW t, SoundTable(t), engine # "Agent" => t.info = Known,
         NEW s \in ToSet(list),
         NEW u \in IF engine = "Agent" THEN AgentPut(t, s, getStateInfo(s))
                   ELSE DatabasePut(t, s, getStateInfo(s))
  PROVE  /\ SoundTable(u) /\ u.info = t.info /\ Grown(t, u) /\ u.moment = t.moment
         /\ u.figures[s] = figures[s] /\ \A x \in Stored(t) \ {s} : u.figures[x] = t.figures[x]
         /\ s \in Stored(u) /\ u.rows[s] = getStateInfo(s)
         /\ engine = "Agent" /\ FollowersStored(t) => FollowersStored(u)
         /\ engine = "Mysql" =>
              /\ Len(t.order) <= Len(u.order)
              /\ \A i \in 1..Len(t.order) : u.order[i] = t.order[i]
<1> DEFINE row == getStateInfo(s)
<1>0. s \in State BY DEF DumpTypes, WellFormed, Known, Memory
<1>1. /\ row \in Row /\ \A l \in row : <<s, l[1], l[2]>> \in links /\ l[2] \in ToSet(list)
      /\ s \in Stored(t) => t.rows[s] \subseteq row
  BY <1>0, RowOfState DEF SoundTable
<1>2. t \in Table /\ Ordered(t) /\ Within(t, Known) /\ figures \in [State -> Nat]
  BY DEF SoundTable, DumpTypes
<1>3. Known \in Memory /\ WellFormed(Known) /\ Known.states = ToSet(list) /\ Known.links = links
      /\ Known # NULL
  BY NullIsNone DEF DumpTypes, WellFormed, Known, Memory, Link
<1>4. CASE engine = "Agent"
  <2> DEFINE followers == {l[2] : l \in row}
  <2>1. /\ u \in Table /\ u.info = t.info /\ Ordered(u)
        /\ u.moment = t.moment /\ u.figures[s] = figures[s]
        /\ \A x \in Stored(t) \ {s} : u.figures[x] = t.figures[x]
        /\ Stored(u) = Stored(t) \cup {s} \cup followers
        /\ u.rows[s] = row
        /\ \A x \in Stored(t) \ {s} : u.rows[x] = t.rows[x]
        /\ \A x \in Stored(u) \ (Stored(t) \cup {s}) : u.rows[x] = {}
    BY <1>0, <1>1, <1>2, <1>4, AgentPutRow
  <2>2. \A l \in row : l[2] \in followers OBVIOUS
  <2>3. \A x \in followers : x \in ToSet(list) BY <1>1
  <2> HIDE DEF row, followers
  <2>4. Within(u, Known) BY <1>1, <1>2, <1>3, <2>1, <2>3 DEF Within
  <2>5. Grown(t, u) BY <1>1, <2>1 DEF Grown
  <2>6. FollowersStored(t) => FollowersStored(u) BY <2>1, <2>2 DEF FollowersStored
  <2>7. SoundTable(u) BY <1>4, <2>1, <2>4 DEF SoundTable
  <2>8. QED BY <1>4, <2>1, <2>5, <2>6, <2>7 DEF row
<1>5. CASE engine # "Agent"
  <2>1. /\ u \in Table /\ u.info = t.info /\ Ordered(u)
        /\ u.moment = t.moment /\ u.figures[s] = figures[s]
        /\ \A x \in State \ {s} : u.figures[x] = t.figures[x]
        /\ Stored(u) = Stored(t) \cup {s}
        /\ u.rows[s] = row /\ \A x \in State \ {s} : u.rows[x] = t.rows[x]
        /\ engine # "Sqlite" =>
              /\ Len(t.order) <= Len(u.order)
              /\ \A i \in 1..Len(t.order) : u.order[i] = t.order[i]
    BY <1>0, <1>1, <1>2, <1>5, DatabasePutRow
  <2> HIDE DEF row
  <2>2. Stored(t) \subseteq State BY DEF Stored
  <2>3. Within(u, Known) BY <1>1, <1>2, <1>3, <2>1, <2>2 DEF Within
  <2>4. Grown(t, u) BY <1>1, <2>1, <2>2 DEF Grown
  <2>5. SoundTable(u) BY <1>3, <1>5, <2>1, <2>3 DEF SoundTable
  <2>6. QED BY <1>5, <2>1, <2>2, <2>4, <2>5 DEF row
<1>6. QED BY <1>4, <1>5

DumperActs ==
  \/ Learn \/ OpenDump \/ OpenDumpFails \/ AddMemoryInfo \/ DumpState \/ Lock
  \/ CloseDump \/ CommitFails \/ Kill

\* What a step of the program that dumps may do to what a session reads.
DiskMoves ==
  /\ engine' = engine
  /\ Grown(disk, disk')
  /\ engine = "Mysql" =>
       /\ Len(disk.order) <= Len(disk'.order)
       /\ \A i \in 1..Len(disk.order) : disk'.order[i] = disk.order[i]
  /\ engine = "Agent" /\ ~ AtRest /\ dumper = "idle" => dumper' = "idle" /\ disk' = disk
  /\ dumper = "dead" => dumper' = "dead" /\ disk' = disk
  /\ UNCHANGED <<session, began>>
  /\ Noticed

\* A sound table stays sound while the agent stays as it is.
LEMMA SoundTablesStay ==
  ASSUME UNCHANGED <<engine, list, links>>
  PROVE  /\ \A t : SoundTable(t) /\ tables' = t => SoundTable(tables)'
         /\ \A t : SoundTable(t) /\ disk' = t => SoundTable(disk)'
         /\ Known' = Known
BY DEF SoundTable, Ordered, Within, WellFormed, Known, Stored

\* A table has grown out of itself.
LEMMA GrownSame == ASSUME NEW t PROVE Grown(t, t)
BY DEF Grown

\* A dump that is over leaves the tables holding what the agent knows.
LEMMA DumpedAll ==
  ASSUME DumpInv, dumper = "dumping", left = <<>>, engine # "Agent"
  PROVE  tables.info # NULL => Holds(tables, tables.info)
<1>1. /\ tables.info = Known
      /\ \A s \in ToSet(list) : s \in Stored(tables) /\ getStateInfo(s) \subseteq tables.rows[s]
  BY DEF DumpInv, DumpProgress, ToSet
<1>2. /\ Known.states = ToSet(list) /\ Known.links = links
      /\ ToSet(list) \subseteq State
      /\ \A l \in links : l[1] \in ToSet(list)
  BY DEF DumpInv, DumpTypes, WellFormed, Known, Memory
<1>3. \A l \in links : <<l[2], l[3]>> \in getStateInfo(l[1]) BY DEF getStateInfo
<1>4. Holds(tables, Known) BY <1>1, <1>2, <1>3 DEF Holds
<1>5. QED BY <1>1, <1>4

\* A step of the agent: what it knows grows, and the tables stay part of it.
LEMMA LearnKeeps ==
  ASSUME DumpInv, disturbed \in BOOLEAN, Learn PROVE DumpInv' /\ DiskMoves
<1>1. UNCHANGED <<engine, tables, disk, dumper, left, locked, con, session, began, disturbed>>
      /\ dumper = "idle"
  BY DEF Learn
<1> DEFINE Learned ==
             /\ list' \in Seq(State) /\ links' \in SUBSET Link /\ IsFiniteSet(links')
             /\ ToSet(list) \subseteq ToSet(list') /\ links \subseteq links'
             /\ ToSet(list') \subseteq State
             /\ \A l \in links' : l[1] \in ToSet(list') /\ l[3] \in ToSet(list')
<1>2. Learned /\ last' \in ToSet(list')
  <2>0. /\ list \in Seq(State) /\ links \in SUBSET Link /\ IsFiniteSet(links)
        /\ ToSet(list) \subseteq State
        /\ \A l \in links : l[1] \in ToSet(list) /\ l[3] \in ToSet(list)
    BY DEF DumpInv, DumpTypes, WellFormed, Known, Memory
  <2>1. \A s \in State : <<s>> \in Seq(State) /\ ToSet(<<s>>) = {s} BY DEF ToSet
  <2>2. ASSUME list = <<>>, NEW n \in State, UNCHANGED links,
               list' = IF n \in ToSet(list) THEN list ELSE <<n>> \o list
        PROVE  Learned /\ n \in ToSet(list')
    <3>1. ToSet(list) = {} BY <2>2 DEF ToSet
    <3>2. list' = <<n>> \o <<>> BY <2>2, <3>1
    <3>3. <<n>> \o <<>> = <<n>> BY <2>1, ConcatEmptySeq
    <3>4. QED BY <2>0, <2>1, <2>2, <3>1, <3>2, <3>3
  <2>3. ASSUME NEW s \in ToSet(list), NEW a \in Action, NEW n \in State,
               links' = links \cup {<<s, a, n>>},
               list' = IF n \in ToSet(list) THEN list ELSE <<n>> \o list
        PROVE  Learned /\ n \in ToSet(list')
    <3>1. list' \in Seq(State) /\ ToSet(list') = ToSet(list) \cup {n}
      <4>1. CASE n \in ToSet(list) BY <2>0, <2>3, <4>1
      <4>2. CASE n \notin ToSet(list)
        <5>1. list' = <<n>> \o list BY <2>3, <4>2
        <5>2. list' \in Seq(State) BY <2>0, <2>1, <5>1, ConcatProperties
        <5>3. ToSet(<<n>> \o list) = ToSet(<<n>>) \cup ToSet(list)
          <6>1. <<n>> \in Seq(State) /\ list \in Seq(State) BY <2>0, <2>1
          <6>2. QED BY ONLY <6>1, ConcatHolds, Zenon
        <5>4. QED BY <2>1, <5>1, <5>2, <5>3
      <4>3. QED BY <4>1, <4>2
    <3>2. IsFiniteSet(links') BY <2>0, <2>3, FS_AddElement
    <3>3. QED BY <2>0, <2>3, <3>1, <3>2 DEF Link
  <2>4. PICK n \in State :
          /\ last' = n
          /\ list' = IF n \in ToSet(list) THEN list ELSE <<n>> \o list
          /\ \/ list = <<>> /\ UNCHANGED links
             \/ list # <<>> /\ \E a \in Action : links' = links \cup {<<last, a, n>>}
    BY DEF Learn
  <2>5. list # <<>> => last \in ToSet(list) BY DEF DumpInv, DumpTypes
  <2>6. QED BY <2>2, <2>3, <2>4, <2>5
<1>3. WellFormed(Known)' BY <1>2 DEF WellFormed, Known, Memory
<1>4. DumpTypes'
  <2>1. PICK n \in State, others \in SUBSET ToSet(list) :
          figures' = [s \in State |-> IF s \in others \cup {last, n} THEN Steps + 1 ELSE figures[s]]
    BY DEF Learn
  <2>2. figures \in [State -> Nat] /\ Steps \in Nat
    BY DEF DumpInv, DumpTypes, WellFormed, Known, Memory, Steps
  <2>3. figures' \in [State -> Nat] BY <2>1, <2>2
  <2>4. list' # <<>> /\ last' \in ToSet(list')
    <3>1. ToSet(<<>>) = {} BY DEF ToSet
    <3>2. QED BY <1>2, <3>1
  <2>5. engine' = engine BY <1>1
  <2>6. ToSet(left') \subseteq ToSet(list') BY <1>1, <1>2 DEF DumpInv, DumpTypes
  <2>7. QED BY <1>1, <1>2, <1>3, <2>3, <2>4, <2>5, <2>6 DEF DumpInv, DumpTypes
<1>5. ASSUME NEW t, SoundTable(t), Within(t, Known)
      PROVE  Within(t, Known')
  BY <1>2, <1>5, WithinMore DEF Known
<1>6. SoundTable(tables)' /\ SoundTable(disk)'
  BY <1>1, <1>5 DEF DumpInv, SoundTable, Ordered, Within, WellFormed, Stored
<1>7. DumpProgress'
  BY <1>1 DEF DumpInv, DumpProgress, Grown, FollowersStored, Holds, Stored
<1>8. DiskMoves BY <1>1, GrownSame DEF DiskMoves, Noticed, DumpInv, SoundTable, Table
<1>9. QED BY <1>4, <1>6, <1>7, <1>8 DEF DumpInv

\* A sound table stays sound when only the memory information is written.
LEMMA SameRowsSound ==
  ASSUME DumpTypes, NEW t, SoundTable(t), NEW u \in Table,
         u.rows = t.rows, u.order = t.order,
         u.info = t.info \/ (engine # "Agent" /\ u.info = Known)
  PROVE  SoundTable(u) /\ Stored(u) = Stored(t) /\ Grown(t, u) /\ Grown(u, t)
<1>1. Stored(u) = Stored(t) BY DEF Stored
<1>2. WellFormed(Known) /\ Known # NULL BY NullIsNone DEF DumpTypes, WellFormed, Known, Memory, Link
<1>3. Ordered(u) /\ Within(u, Known) BY <1>1 DEF SoundTable, Ordered, Within
<1>4. t.info # NULL /\ engine # "Agent" => Within(u, t.info) BY <1>1 DEF SoundTable, Within
<1>5. SoundTable(u) BY <1>1, <1>2, <1>3, <1>4 DEF SoundTable
<1>6. QED BY <1>1, <1>5 DEF Grown

\* open(O_WRITE): the tables are created, and nothing is in them yet.
LEMMA OpenDumpKeeps ==
  ASSUME DumpInv, disturbed \in BOOLEAN, OpenDump PROVE DumpInv' /\ DiskMoves
<1>1. /\ UNCHANGED <<engine, list, links, last, figures, left, locked, session, began>>
      /\ dumper = "idle" /\ dumper' = "opened" /\ MayDump /\ Noticed
      /\ disk' = [tables EXCEPT !.created = TRUE] /\ tables' = disk'
  BY DEF OpenDump, agentVars
<1>2. SoundTable(disk) /\ tables = disk BY <1>1 DEF DumpInv, DumpProgress
<1>3. /\ disk' \in Table /\ disk'.rows = disk.rows /\ disk'.order = disk.order
      /\ disk'.info = disk.info
  BY <1>1, <1>2 DEF SoundTable, Table
<1>4. SoundTable(disk') /\ Stored(disk') = Stored(disk) /\ Grown(disk, disk') /\ Grown(disk', disk)
  BY <1>2, <1>3, SameRowsSound DEF DumpInv
<1>5. SoundTable(disk)' /\ SoundTable(tables)' /\ Known' = Known BY <1>1, <1>4, SoundTablesStay
<1>6. DumpTypes' BY <1>1, <1>5 DEF DumpInv, DumpTypes, WellFormed
<1>7. DumpProgress'
  BY <1>1, <1>2, <1>3, <1>4, GrownSame
  DEF DumpInv, DumpProgress, FollowersStored, Holds, Stored, Grown
<1>8. DiskMoves
  <2>1. Len(disk.order) \in Nat BY <1>2, LenProperties DEF SoundTable, Table
  <2>2. QED BY <1>1, <1>3, <1>4, <2>1 DEF DiskMoves, MayDump
<1>9. QED BY <1>5, <1>6, <1>7, <1>8 DEF DumpInv

\* A storage that cannot be opened stays as it was.
LEMMA OpenDumpFailsKeeps ==
  ASSUME DumpInv, disturbed \in BOOLEAN, OpenDumpFails PROVE DumpInv' /\ DiskMoves
<1>1. /\ UNCHANGED <<engine, list, links, last, figures, tables, disk, left, locked, session, began, disturbed>>
      /\ dumper = "idle" /\ MayDump
      /\ dumper' = dumper \/ (dumper' = "dead" /\ engine # "Agent")
  <2>1. engine = "Agent" => OpenFailed("dumper", TRUE) = {} BY DEF OpenFailed
  <2>2. \E c \in OpenFailed("dumper", TRUE) : dumper' = "dead" \/ dumper' = dumper
    BY DEF OpenDumpFails
  <2>3. QED BY <2>1, <2>2 DEF OpenDumpFails, agentVars
<1>2. SoundTable(disk)' /\ SoundTable(tables)' /\ Known' = Known
  BY <1>1, SoundTablesStay DEF DumpInv
<1>3. DumpTypes' BY <1>1, <1>2 DEF DumpInv, DumpTypes, WellFormed
<1>4. DumpProgress'
  BY <1>1 DEF DumpInv, DumpProgress, FollowersStored, Holds, Stored, Grown
<1>5. DiskMoves
  BY <1>1, GrownSame, LenProperties DEF DiskMoves, Noticed, DumpInv, SoundTable, Table
<1>6. QED BY <1>2, <1>3, <1>4, <1>5 DEF DumpInv

\* addMemoryInfo(): from here on the tables are complete only when the dump is.
LEMMA AddMemoryInfoKeeps ==
  ASSUME DumpInv, disturbed \in BOOLEAN, AddMemoryInfo PROVE DumpInv' /\ DiskMoves
<1>1. /\ UNCHANGED <<engine, list, links, last, figures, locked, con, session, began>>
      /\ dumper = "opened" /\ dumper' = "dumping" /\ left' = list /\ Noticed
      /\ tables' = (IF engine = "Agent" THEN tables
                    ELSE [tables EXCEPT !.info = Known, !.moment = Moment(figures, last)])
      /\ disk' = IF engine = "Sqlite" THEN disk ELSE tables'
  BY DEF AddMemoryInfo, agentVars, Written, Known
<1>2. SoundTable(disk) /\ tables = disk /\ ~ locked BY <1>1 DEF DumpInv, DumpTypes, DumpProgress
<1>3. Known \in Memory /\ Moment(figures, last) \in Moments
  BY DEF DumpInv, DumpTypes, WellFormed, Known, Memory, Moment, Moments
<1>4. /\ tables' \in Table /\ tables'.rows = disk.rows /\ tables'.order = disk.order
      /\ tables'.info = IF engine = "Agent" THEN disk.info ELSE Known
  BY <1>1, <1>2, <1>3 DEF SoundTable, Table
<1>5. SoundTable(tables') /\ Stored(tables') = Stored(disk) /\ Grown(disk, tables')
  BY <1>2, <1>4, SameRowsSound DEF DumpInv
<1>6. SoundTable(tables)' /\ SoundTable(disk)' /\ Known' = Known
  BY <1>1, <1>2, <1>5, SoundTablesStay
<1>7. DumpTypes' BY <1>1, <1>2, <1>6 DEF DumpInv, DumpTypes, WellFormed
<1>8. DumpProgress'
  <2>1. Grown(disk, tables)' BY <1>1, <1>5, GrownSame DEF Grown, Stored
  <2>2. (engine # "Sqlite" \/ dumper # "dumping" => tables = disk)' BY <1>1
  <2>3. (engine = "Agent" => FollowersStored(disk))'
    BY <1>1, <1>2, <1>4, <1>5 DEF DumpInv, DumpProgress, FollowersStored, Stored
  <2>4. (disk.info # NULL /\ (engine = "Sqlite" \/ dumper \in {"idle", "opened"}) =>
           Holds(disk, disk.info))'
    BY <1>1 DEF DumpInv, DumpProgress, Holds, Stored
  <2>5. (dumper = "dumping" =>
           /\ engine # "Agent" => tables.info = Known
           /\ \A s \in ToSet(list) \ ToSet(left) :
                s \in Stored(tables) /\ getStateInfo(s) \subseteq tables.rows[s])'
    BY <1>1, <1>4, <1>6
  <2>6. QED BY <2>1, <2>2, <2>3, <2>4, <2>5 DEF DumpProgress
<1>9. DiskMoves
  <2>1. Grown(disk, disk') BY <1>1, <1>5, GrownSame
  <2>2. disk'.order = disk.order BY <1>1, <1>4
  <2>3. Len(disk.order) \in Nat BY <1>2, LenProperties DEF SoundTable, Table
  <2>4. QED BY <1>1, <2>1, <2>2, <2>3 DEF DiskMoves
<1>10. QED BY <1>6, <1>7, <1>8, <1>9 DEF DumpInv

\* addStateInfo() or updateStateInfo() of the next state.
LEMMA DumpStateKeeps ==
  ASSUME DumpInv, disturbed \in BOOLEAN, DumpState PROVE DumpInv' /\ DiskMoves
<1> DEFINE s == Head(left)
<1>1. /\ UNCHANGED <<engine, list, links, last, figures, dumper, locked, con, session, began>>
      /\ dumper = "dumping" /\ left # <<>> /\ left' = Tail(left) /\ Noticed
      /\ tables' \in (IF engine = "Agent" THEN AgentPut(tables, s, getStateInfo(s))
                      ELSE DatabasePut(tables, s, getStateInfo(s)))
      /\ disk' = IF engine = "Sqlite" THEN disk ELSE tables'
  BY DEF DumpState, agentVars, Written
<1>2. /\ SoundTable(tables) /\ SoundTable(disk) /\ Grown(disk, tables)
      /\ engine # "Sqlite" => tables = disk
      /\ engine # "Agent" => tables.info = Known
      /\ \A x \in ToSet(list) \ ToSet(left) :
           x \in Stored(tables) /\ getStateInfo(x) \subseteq tables.rows[x]
  BY <1>1 DEF DumpInv, DumpProgress
<1>3. /\ s \in ToSet(list) /\ left' \in Seq(State)
      /\ ToSet(left) = {s} \cup ToSet(left') /\ ToSet(left) \subseteq ToSet(list)
  BY <1>1, HeadAndTailHold DEF DumpInv, DumpTypes
<1>4. /\ SoundTable(tables') /\ tables'.info = tables.info /\ Grown(tables, tables')
      /\ s \in Stored(tables') /\ tables'.rows[s] = getStateInfo(s)
      /\ engine = "Agent" /\ FollowersStored(tables) => FollowersStored(tables')
      /\ engine = "Mysql" =>
           /\ Len(tables.order) <= Len(tables'.order)
           /\ \A i \in 1..Len(tables.order) : tables'.order[i] = tables.order[i]
  BY <1>1, <1>2, <1>3, PutIsSound DEF DumpInv
<1>5. SoundTable(tables)' /\ SoundTable(disk)' /\ Known' = Known
  BY <1>1, <1>2, <1>4, SoundTablesStay
<1>6. DumpTypes' BY <1>1, <1>3, <1>5 DEF DumpInv, DumpTypes, WellFormed
<1>7. Grown(disk, tables') BY <1>2, <1>4 DEF Grown
<1>8. DumpProgress'
  <2>1. Grown(disk, tables)' BY <1>1, <1>7, GrownSame DEF Grown, Stored
  <2>2. (engine # "Sqlite" \/ dumper # "dumping" => tables = disk)' BY <1>1
  <2>3. (engine = "Agent" => FollowersStored(disk))'
    BY <1>1, <1>2, <1>4 DEF DumpInv, DumpProgress, FollowersStored, Stored
  <2>4. (disk.info # NULL /\ (engine = "Sqlite" \/ dumper \in {"idle", "opened"}) =>
           Holds(disk, disk.info))'
    BY <1>1 DEF DumpInv, DumpProgress, Holds, Stored
  <2>5. (engine # "Agent" => tables.info = Known)' BY <1>1, <1>2, <1>4, <1>5
  <2>6. (\A x \in ToSet(list) \ ToSet(left) :
           x \in Stored(tables) /\ getStateInfo(x) \subseteq tables.rows[x])'
    <3> SUFFICES ASSUME NEW x \in ToSet(list) \ ToSet(left')
                 PROVE  x \in Stored(tables') /\ getStateInfo(x) \subseteq tables'.rows[x]
      BY <1>1 DEF getStateInfo, Stored
    <3>1. CASE x = s BY <1>4, <3>1
    <3>2. CASE x # s BY <1>2, <1>3, <1>4, <3>2 DEF Grown
    <3>3. QED BY <3>1, <3>2
  <2>7. QED BY <2>1, <2>2, <2>3, <2>4, <2>5, <2>6 DEF DumpProgress
<1>9. DiskMoves
  <2>1. Grown(disk, disk') BY <1>1, <1>7, GrownSame
  <2>2. engine = "Mysql" =>
           /\ Len(disk.order) <= Len(disk'.order)
           /\ \A i \in 1..Len(disk.order) : disk'.order[i] = disk.order[i]
    BY <1>1, <1>2, <1>4
  <2>3. QED BY <1>1, <2>1, <2>2 DEF DiskMoves
<1>10. QED BY <1>5, <1>6, <1>8, <1>9 DEF DumpInv

\* Sqlite locks readers out, and nothing else.
LEMMA LockKeeps ==
  ASSUME DumpInv, disturbed \in BOOLEAN, Lock PROVE DumpInv' /\ DiskMoves
<1>1. /\ UNCHANGED <<engine, list, links, last, figures, tables, disk, dumper, left, session, began, disturbed>>
      /\ dumper = "dumping" /\ engine = "Sqlite" /\ locked' = TRUE
  BY DEF Lock, agentVars
<1>2. SoundTable(disk)' /\ SoundTable(tables)' /\ Known' = Known
  BY <1>1, SoundTablesStay DEF DumpInv
<1>3. DumpTypes' BY <1>1, <1>2 DEF DumpInv, DumpTypes, WellFormed
<1>4. DumpProgress'
  BY <1>1, <1>2 DEF DumpInv, DumpProgress, FollowersStored, Holds, Stored, Grown, getStateInfo
<1>5. DiskMoves
  BY <1>1, GrownSame, LenProperties DEF DiskMoves, Noticed, DumpInv, SoundTable, Table
<1>6. QED BY <1>2, <1>3, <1>4, <1>5 DEF DumpInv

\* The end of a transaction, with the tables t.
LEMMA EndDumpKeeps ==
  ASSUME DumpInv, disturbed \in BOOLEAN, NEW t, EndDump(t), t = tables \/ (t = disk /\ engine = "Sqlite")
  PROVE  DumpInv' /\ DiskMoves
<1>1. /\ UNCHANGED <<engine, list, links, last, figures, left, session, began>>
      /\ dumper = "dumping" /\ dumper' = "idle" /\ left = <<>> /\ locked' = FALSE
      /\ tables' = t /\ disk' = t /\ Noticed
  BY DEF EndDump, agentVars
<1>2. /\ SoundTable(tables) /\ SoundTable(disk) /\ Grown(disk, tables)
      /\ engine # "Sqlite" => tables = disk
      /\ engine = "Agent" => FollowersStored(disk)
      /\ disk.info # NULL /\ engine = "Sqlite" => Holds(disk, disk.info)
  BY <1>1 DEF DumpInv, DumpProgress
<1>3. SoundTable(disk)' /\ SoundTable(tables)' /\ Known' = Known
  BY <1>1, <1>2, SoundTablesStay
<1>4. DumpTypes' BY <1>1, <1>3 DEF DumpInv, DumpTypes, WellFormed
<1>5. t.info # NULL => Holds(t, t.info)
  <2>1. engine = "Agent" => t.info = NULL BY <1>2 DEF SoundTable
  <2>2. CASE t = tables
    <3>1. engine # "Agent" => (tables.info # NULL => Holds(tables, tables.info))
      BY <1>1, DumpedAll
    <3>2. QED BY <2>1, <2>2, <3>1
  <2>3. CASE t = disk /\ engine = "Sqlite" BY <1>2, <2>3
  <2>4. QED BY <2>2, <2>3
<1>6. DumpProgress'
  <2>1. (disk.info # NULL => Holds(disk, disk.info))' BY <1>1, <1>5 DEF Holds, Stored
  <2>2. (engine = "Agent" => FollowersStored(disk))' BY <1>1, <1>2 DEF FollowersStored, Stored
  <2>3. Grown(disk, tables)' BY <1>1 DEF Grown
  <2>4. QED BY <1>1, <2>1, <2>2, <2>3 DEF DumpProgress
<1>7. DiskMoves
  <2>1. Grown(disk, disk') BY <1>1, <1>2, GrownSame
  <2>2. Len(disk.order) \in Nat BY <1>2, LenProperties DEF SoundTable, Table
  <2>3. QED BY <1>1, <1>2, <2>1, <2>2 DEF DiskMoves
<1>8. QED BY <1>3, <1>4, <1>6, <1>7 DEF DumpInv

\* A dump that is killed: the transaction of Sqlite is lost.
LEMMA KillKeeps ==
  ASSUME DumpInv, disturbed \in BOOLEAN, Kill PROVE DumpInv' /\ DiskMoves
<1>1. /\ UNCHANGED <<engine, list, links, last, figures, disk, session, began, disturbed>>
      /\ dumper \in {"opened", "dumping"} /\ dumper' = "dead" /\ engine # "Agent"
      /\ tables' = disk /\ left' = <<>> /\ locked' = FALSE
  BY DEF Kill, agentVars
<1>2. SoundTable(disk)' /\ SoundTable(tables)' /\ Known' = Known
  BY <1>1, SoundTablesStay DEF DumpInv
<1>3. DumpTypes'
  <2>1. ToSet(left') = {} /\ left' \in Seq(State) BY <1>1 DEF ToSet
  <2>2. locked' \in BOOLEAN /\ ~ locked' BY <1>1
  <2>3. QED BY <1>1, <1>2, <2>1, <2>2 DEF DumpInv, DumpTypes, WellFormed
<1>4. DumpProgress'
  BY <1>1, <1>2 DEF DumpInv, DumpProgress, FollowersStored, Holds, Stored, Grown
<1>5. DiskMoves
  BY <1>1, GrownSame, LenProperties DEF DiskMoves, Noticed, DumpInv, SoundTable, Table
<1>6. QED BY <1>2, <1>3, <1>4, <1>5 DEF DumpInv

\* Every step of the program that dumps keeps the tables sound.
LEMMA DumperKeeps ==
  ASSUME DumpInv, disturbed \in BOOLEAN, DumperActs PROVE DumpInv' /\ DiskMoves
<1>1. CASE Learn BY <1>1, LearnKeeps
<1>2. CASE OpenDump BY <1>2, OpenDumpKeeps
<1>3. CASE OpenDumpFails BY <1>3, OpenDumpFailsKeeps
<1>4. CASE AddMemoryInfo BY <1>4, AddMemoryInfoKeeps
<1>5. CASE DumpState BY <1>5, DumpStateKeeps
<1>6. CASE Lock BY <1>6, LockKeeps
<1>7. CASE CloseDump BY <1>7, EndDumpKeeps DEF CloseDump
<1>8. CASE CommitFails BY <1>8, EndDumpKeeps DEF CommitFails
<1>9. CASE Kill BY <1>9, KillKeeps
<1>10. QED BY <1>1, <1>2, <1>3, <1>4, <1>5, <1>6, <1>7, <1>8, <1>9 DEF DumperActs

\* The reader changes nothing of them.
LEMMA ReaderKeepsTables ==
  ASSUME DumpInv, UNCHANGED <<engine, dumpVars>> PROVE DumpInv'
<1>1. UNCHANGED <<engine, list, links, last, figures, tables, disk, dumper, left, locked>> BY DEF dumpVars, agentVars
<1>2. SoundTable(disk)' /\ SoundTable(tables)' /\ Known' = Known
  BY <1>1, SoundTablesStay DEF DumpInv
<1>3. DumpTypes' BY <1>1, <1>2 DEF DumpInv, DumpTypes, WellFormed
<1>4. DumpProgress'
  BY <1>1, <1>2 DEF DumpInv, DumpProgress, FollowersStored, Holds, Stored, Grown, getStateInfo
<1>5. QED BY <1>2, <1>3, <1>4 DEF DumpInv

\* A storage nobody has written to.
LEMMA TablesInitial == Init => DumpInv
<1> SUFFICES ASSUME Init PROVE DumpInv OBVIOUS
<1>1. /\ engine \in {"Sqlite", "Mysql", "Agent"} /\ list = <<>> /\ links = {}
      /\ last = NULL /\ figures \in [State -> Nat]
      /\ tables = NoTables /\ disk = NoTables /\ dumper = "idle" /\ left = <<>> /\ locked = FALSE
  BY EnginesAssumption DEF Init, NoFigures
<1>2. ToSet(<<>>) = {} BY DEF ToSet
<1>3. WellFormed(Known)
  <2>1. ToSet(list) = {} /\ IsFiniteSet(links) BY <1>1, <1>2, FS_EmptySet
  <2>2. Known = [states |-> {}, links |-> {}] BY <1>1, <2>1 DEF Known
  <2>3. QED BY <1>1, <2>1, <2>2 DEF WellFormed, Memory
<1>4. DumpTypes
  <2>1. ToSet(left) = {} /\ left \in Seq(State) BY <1>1 DEF ToSet
  <2>2. locked \in BOOLEAN /\ ~ locked BY <1>1
  <2>3. QED BY <1>1, <1>3, <2>1, <2>2 DEF DumpTypes
<1>5. Stored(NoTables) = {} BY DEF Stored, NoTables
<1>6. NoTables \in Table
  <2>1. NoFigures \in [State -> Nat] /\ Moment(NoFigures, NULL) \in Moments
    BY DEF NoFigures, Moment, Moments
  <2>2. <<>> \in Seq(State) OBVIOUS
  <2>3. [s \in State |-> NULL] \in [State -> Row \cup {NULL}] OBVIOUS
  <2>4. FALSE \in BOOLEAN /\ NULL \in Memory \cup {NULL} OBVIOUS
  <2> DEFINE none == [s \in State |-> NULL]
             unread == Moment(NoFigures, NULL)
  <2>5. none \in [State -> Row \cup {NULL}] /\ unread \in Moments BY <2>1, <2>3
  <2>6. NoTables = [created |-> FALSE, rows |-> none, order |-> <<>>, info |-> NULL,
                    figures |-> NoFigures, moment |-> unread]
    BY DEF NoTables
  <2> HIDE DEF none, unread
  <2>7. QED BY <2>1, <2>2, <2>4, <2>5, <2>6 DEF Table
<1>7. Ordered(NoTables) /\ Within(NoTables, Known)
  <2>1. NoTables.order = <<>> BY DEF NoTables
  <2>2. QED BY <1>2, <1>5, <2>1 DEF Ordered, Within
<1>8. SoundTable(NoTables) BY <1>5, <1>6, <1>7 DEF SoundTable, NoTables
<1>9. DumpProgress BY <1>1, <1>5, GrownSame DEF DumpProgress, FollowersStored, NoTables
<1>10. QED BY <1>1, <1>4, <1>8, <1>9 DEF DumpInv

--------------------------------------------------------------------------------
(* A session while the other program dumps.                                   *)

\* The rows stay in the order in which they are read, those of Mysql in their
\* places; those of Sqlite move on.
LEMMA OrderMovesOn ==
  ASSUME DumpInv, DumpInv', DiskMoves, engine # "Agent"
  PROVE  /\ Stored(disk) \subseteq Stored(disk')
         /\ Len(disk.order) <= Len(disk'.order)
         /\ \A i \in 1..Len(disk.order), j \in 1..Len(disk'.order) :
              disk.order[i] = disk'.order[j] => i <= j
<1>1. /\ disk \in Table /\ disk' \in Table /\ Grown(disk, disk') /\ engine' = engine
      /\ engine \in {"Sqlite", "Mysql", "Agent"}
  BY DEF DumpInv, DumpTypes, SoundTable, DiskMoves
<1>2. /\ disk.order \in Seq(State) /\ disk'.order \in Seq(State)
      /\ Len(disk.order) \in Nat /\ Len(disk'.order) \in Nat
  BY <1>1, LenProperties DEF Table
<1>3. Stored(disk) \subseteq Stored(disk') BY <1>1 DEF Grown
<1>4. /\ ToSet(disk.order) = Stored(disk) /\ ToSet(disk'.order) = Stored(disk')
      /\ \A i, j \in 1..Len(disk'.order) : disk'.order[i] = disk'.order[j] => i = j
      /\ engine = "Sqlite" =>
           /\ \A i, j \in 1..Len(disk.order) : i < j => disk.order[i] < disk.order[j]
           /\ \A i, j \in 1..Len(disk'.order) : i < j => disk'.order[i] < disk'.order[j]
  BY <1>1 DEF DumpInv, SoundTable, Ordered, Stored
<1>5. CASE engine = "Sqlite"
  <2> DEFINE p == disk.order
             q == disk'.order
  <2>1. ToSet(p) \subseteq ToSet(q) BY <1>3, <1>4
  <2> HIDE DEF p, q
  <2>2. /\ p \in Seq(State) /\ q \in Seq(State)
        /\ \A i, j \in 1..Len(p) : i < j => p[i] < p[j]
        /\ \A i, j \in 1..Len(q) : i < j => q[i] < q[j]
    BY <1>2, <1>4, <1>5 DEF p, q
  <2>3. /\ \A i \in 1..Len(p), j \in 1..Len(q) : p[i] = q[j] => i <= j
        /\ Len(p) <= Len(q)
    BY <2>1, <2>2, KeysMoveOn
  <2>4. QED BY <1>3, <2>3 DEF p, q
<1>6. CASE engine = "Mysql"
  <2>1. /\ Len(disk.order) <= Len(disk'.order)
        /\ \A i \in 1..Len(disk.order) : disk'.order[i] = disk.order[i]
    BY <1>6 DEF DiskMoves
  <2>2. \A i \in 1..Len(disk.order) : i \in 1..Len(disk'.order) BY <1>2, <2>1
  <2>3. QED BY <1>2, <1>3, <1>4, <2>1, <2>2
<1>7. QED BY <1>1, <1>5, <1>6

\* What a walk has come by stays behind it.
LEMMA PassedStays ==
  ASSUME DumpInv, DumpInv', DiskMoves, engine # "Agent", NEW n \in Nat, n <= Len(disk.order),
         NEW read, Passed(n, read), engine = "Sqlite" => Expected \subseteq Stored(disk)
  PROVE  \A k \in 1..Len(disk'.order) :
           k <= n /\ disk'.order[k] \in Expected => disk'.order[k] \in read
<1>2. SUFFICES ASSUME NEW k \in 1..Len(disk'.order), k <= n, disk'.order[k] \in Expected
               PROVE  disk'.order[k] \in read
  OBVIOUS
<1>3. Len(disk.order) \in Nat /\ Len(disk'.order) \in Nat
  BY LenProperties DEF DumpInv, SoundTable, Table
<1>4. CASE engine = "Mysql"
  <2>1. k \in 1..Len(disk.order) /\ disk'.order[k] = disk.order[k] BY <1>2, <1>3, <1>4 DEF DiskMoves
  <2>2. QED BY <1>2, <2>1 DEF Passed
<1>5. CASE engine = "Sqlite"
  <2>1. disk'.order[k] \in ToSet(disk.order)
    BY <1>2, <1>5 DEF DumpInv, SoundTable, Ordered
  <2>2. PICK i \in 1..Len(disk.order) : disk.order[i] = disk'.order[k]
    <3>1. disk.order \in Seq(State) BY DEF DumpInv, SoundTable, Table
    <3> DEFINE p == disk.order
               x == disk'.order[k]
    <3>2. x \in ToSet(p) /\ p \in Seq(State) BY <2>1, <3>1
    <3> HIDE DEF p, x
    <3>3. \E i \in 1..Len(p) : p[i] = x BY <3>2, InToSet
    <3>4. QED BY <3>3 DEF p, x
  <2>3. i <= k BY <2>2, OrderMovesOn
  <2>4. i <= n BY <1>2, <1>3, <2>3
  <2>5. QED BY <1>2, <2>2, <2>4 DEF Passed
<1>6. QED BY <1>4, <1>5 DEF DumpInv, DumpTypes

\* All that a session relies on.
LEMMA DumpKeepsSession ==
  ASSUME DumpInv, SessionInv, DumpInv', DiskMoves
  PROVE  SessionInv'
<1>1. /\ engine' = engine /\ session' = session /\ began' = began /\ (AtRest' <=> AtRest)
      /\ disturbed \in BOOLEAN /\ disturbed' = (disturbed \/ (~ AtRest /\ disk' # disk))
      /\ Grown(disk, disk') /\ engine \in {"Sqlite", "Mysql", "Agent"}
      /\ disk \in Table /\ disk' \in Table
      /\ dumper = "dead" => dumper' = "dead" /\ disk' = disk
      /\ engine = "Agent" => ~ disturbed
  BY DEF DiskMoves, Noticed, AtRest, SessionInv, SessionTypes, DumpInv, DumpTypes, SoundTable
<1>2. SessionTypes' BY <1>1 DEF SessionInv, SessionTypes
<1>3. CASE AtRest
  <2>1. (engine = "Agent" => ~ disturbed)' BY <1>1, <1>3
  <2>2. SessionProgress' BY <1>1, <1>3 DEF SessionProgress
  <2>3. QED BY <1>2, <2>1, <2>2 DEF SessionInv
<1>4. CASE ~ AtRest
  <2> DEFINE pages == session.pages
             info == session.info
  <2>1. /\ session.outcome = "none"
        /\ engine = "Agent" => dumper = "idle"
        /\ began \subseteq Stored(disk) /\ (~ disturbed => began = Stored(disk))
        /\ \A i \in DOMAIN pages :
             /\ pages[i].st \in Stored(disk)
             /\ pages[i].row \subseteq disk.rows[pages[i].st]
             /\ engine # "Mysql" => \A l \in pages[i].row : l[2] \in Stored(disk)
        /\ IF Whole THEN WholeProgress ELSE OneProgress
        /\ InfoProgress
    BY <1>4 DEF SessionInv, SessionProgress
  <2>2. engine = "Agent" => dumper' = "idle" /\ disk' = disk BY <1>4, <2>1 DEF DiskMoves
  <2>3. /\ Stored(disk) \subseteq Stored(disk')
        /\ \A s \in Stored(disk) : disk.rows[s] \subseteq disk'.rows[s]
    BY <1>1 DEF Grown
  <2>4. (engine = "Agent" => ~ disturbed)' BY <1>1, <2>2
  <2>5. ~ disturbed' => ~ disturbed /\ disk' = disk BY <1>1, <1>4
  <2>6. (began \subseteq Stored(disk) /\ (~ disturbed => began = Stored(disk)))'
    <3>1. began \subseteq Stored(disk') BY <2>1, <2>3
    <3>2. ~ disturbed' => began = Stored(disk') BY <2>1, <2>5
    <3>3. Stored(disk)' = Stored(disk') BY DEF Stored
    <3>4. QED BY <1>1, <3>1, <3>2, <3>3
  <2>7. \A i \in DOMAIN pages :
          /\ pages[i].st \in Stored(disk')
          /\ pages[i].row \subseteq disk'.rows[pages[i].st]
          /\ engine # "Mysql" => \A l \in pages[i].row : l[2] \in Stored(disk')
    BY <2>1, <2>3
  <2>8. InfoProgress'
    <3>1. /\ session.midway => engine = "Mysql"
          /\ info # NULL =>
               /\ WellFormed(info)
               /\ ~ disturbed => info = IF engine = "Agent" THEN Graph(disk.rows) ELSE disk.info
               /\ engine # "Agent" /\ ~ session.midway =>
                    \/ engine = "Mysql" /\ dumper = "dead" /\ info = disk.info
                    \/ Holds(disk, info) /\ PagesHold(info)
      BY <2>1 DEF InfoProgress
    <3>2. info # NULL /\ Holds(disk, info) => Holds(disk', info)
      <4>1. info # NULL => \A l \in info.links : l[1] \in info.states BY <3>1 DEF WellFormed
      <4>2. QED BY <2>3, <4>1 DEF Holds
    <3>3. PagesHold(info)' <=> PagesHold(info) BY <1>1 DEF PagesHold
    <3>4. ~ disturbed' /\ info # NULL =>
            info = IF engine = "Agent" THEN Graph(disk'.rows) ELSE disk'.info
      BY <2>5, <3>1
    <3>5. info # NULL /\ engine # "Agent" /\ ~ session.midway =>
            \/ engine = "Mysql" /\ dumper' = "dead" /\ info = disk'.info
            \/ Holds(disk', info) /\ PagesHold(info)
      BY <1>1, <3>1, <3>2
    <3>6. Graph(disk.rows)' = Graph(disk'.rows) /\ (Holds(disk, info)' <=> Holds(disk', info))
          /\ (WellFormed(info)' <=> WellFormed(info)) /\ info' = info
      BY <1>1 DEF Graph, Holds, Stored, WellFormed
    <3> HIDE DEF info
    <3>7. QED BY <1>1, <3>1, <3>3, <3>4, <3>5, <3>6 DEF InfoProgress, info
  <2>9. engine = "Sqlite" => Expected \subseteq Stored(disk)
    <3>1. engine = "Sqlite" /\ info # NULL => Holds(disk, info) BY <2>1 DEF InfoProgress
    <3>2. QED BY <2>1, <3>1 DEF Expected, Holds
  <2>10. ASSUME Whole PROVE WholeProgress'
    <3>1. WholeProgress BY <2>1, <2>10
    <3>2. StatesRead' = StatesRead BY <1>1 DEF StatesRead
    <3>3. CASE disk' = disk
      BY <1>1, <2>5, <3>1, <3>2, <3>3 DEF WholeProgress, Passed, Expected, Stored
    <3>4. CASE disk' # disk
      <4>1. engine # "Agent" /\ disturbed' BY <1>1, <1>4, <2>2, <3>4
      <4>2. /\ session.index \in Nat /\ Len(disk.order) \in Nat /\ Len(disk'.order) \in Nat
            /\ Len(disk.order) <= Len(disk'.order)
            /\ Len(pages) \in Nat
        <5>1. Len(disk.order) \in Nat /\ Len(disk'.order) \in Nat BY <1>1, LenProperties DEF Table
        <5>2. session.index \in Nat /\ pages \in Seq(Page) BY DEF SessionInv, SessionTypes, Sessions
        <5>3. QED BY <4>1, <5>1, <5>2, LenProperties, OrderMovesOn
      <4>3. engine = "Mysql" => \A i \in 1..Len(disk.order) : disk'.order[i] = disk.order[i]
        BY DEF DiskMoves
      <4>4. ASSUME NEW read, Passed(session.index + 1, read), session.index < Len(disk.order)
            PROVE  \A k \in 1..Len(disk'.order) :
                     k <= session.index + 1 /\ disk'.order[k] \in Expected => disk'.order[k] \in read
        <5>1. session.index + 1 \in Nat /\ session.index + 1 <= Len(disk.order) BY <4>2, <4>4
        <5>2. QED BY <2>9, <4>1, <4>4, <5>1, PassedStays
      <4>5. Expected' = Expected BY <1>1 DEF Expected
      <4>6. (session.place = "row" =>
               /\ Len(session.pages) = session.index /\ session.index < Len(disk.order)
               /\ session.st \in Stored(disk)
               /\ Passed(session.index + 1, StatesRead \cup {session.st})
               /\ engine # "Sqlite" \/ ~ disturbed => session.st = disk.order[session.index + 1])'
        <5>1. SUFFICES ASSUME session.place = "row"
                       PROVE  /\ Len(pages) = session.index /\ session.index < Len(disk'.order)
                              /\ session.st \in Stored(disk')
                              /\ \A k \in 1..Len(disk'.order) :
                                   k <= session.index + 1 /\ disk'.order[k] \in Expected =>
                                     disk'.order[k] \in StatesRead \cup {session.st}
                              /\ engine # "Sqlite" => session.st = disk'.order[session.index + 1]
          BY <1>1, <3>2, <4>1, <4>5 DEF Passed, Stored
        <5>2. /\ Len(pages) = session.index /\ session.index < Len(disk.order)
              /\ session.st \in Stored(disk)
              /\ Passed(session.index + 1, StatesRead \cup {session.st})
              /\ engine # "Sqlite" => session.st = disk.order[session.index + 1]
          BY <3>1, <5>1 DEF WholeProgress
        <5>3. session.index + 1 \in 1..Len(disk.order) BY <4>2, <5>2
        <5>4. QED BY <1>1, <2>3, <4>1, <4>2, <4>3, <4>4, <5>2, <5>3
      <4>7. (session.place = "next" =>
               /\ Len(session.pages) = session.index + 1 /\ session.index < Len(disk.order)
               /\ Passed(session.index + 1, StatesRead))'
        <5>1. SUFFICES ASSUME session.place = "next"
                       PROVE  /\ Len(pages) = session.index + 1 /\ session.index < Len(disk'.order)
                              /\ \A k \in 1..Len(disk'.order) :
                                   k <= session.index + 1 /\ disk'.order[k] \in Expected =>
                                     disk'.order[k] \in StatesRead
          BY <1>1, <3>2, <4>5 DEF Passed
        <5>2. /\ Len(pages) = session.index + 1 /\ session.index < Len(disk.order)
              /\ Passed(session.index + 1, StatesRead)
          BY <3>1, <5>1 DEF WholeProgress
        <5>3. QED BY <4>2, <4>4, <5>2
      <4>8. (engine # "Sqlite" \/ ~ disturbed =>
               \A i \in 1..Len(session.pages) :
                 i <= Len(disk.order) /\ session.pages[i].st = disk.order[i])'
        <5>1. SUFFICES ASSUME engine = "Mysql", NEW i \in 1..Len(pages)
                       PROVE  i <= Len(disk'.order) /\ pages[i].st = disk'.order[i]
          BY <1>1, <4>1
        <5>2. i <= Len(disk.order) /\ pages[i].st = disk.order[i]
          BY <3>1, <5>1 DEF WholeProgress
        <5>3. i \in 1..Len(disk.order) BY <4>2, <5>2
        <5>4. QED BY <4>2, <4>3, <5>1, <5>2, <5>3
      <4>9. (/\ session.pending = {} /\ session.drawn = {}
             /\ session.place \in {"info", "first"} => session.pages = <<>>
             /\ session.place = "info" => session.info = NULL)'
        BY <1>1, <3>1 DEF WholeProgress
      <4>10. QED BY <4>6, <4>7, <4>8, <4>9 DEF WholeProgress
    <3>5. QED BY <3>3, <3>4
  <2>11. ASSUME ~ Whole PROVE OneProgress'
    <3>1. OneProgress BY <2>1, <2>11
    <3>2. QED BY <1>1, <2>3, <3>1 DEF OneProgress, Draws, Stored
  <2>12. SessionProgress'
    <3>1. (Whole' <=> Whole) /\ session'.outcome = "none" /\ (engine' = "Agent" => dumper' = "idle")
      BY <1>1, <2>1, <2>2 DEF Whole
    <3>2. (\A i \in DOMAIN session.pages :
             /\ session.pages[i].st \in Stored(disk)
             /\ session.pages[i].row \subseteq disk.rows[session.pages[i].st]
             /\ engine # "Mysql" => \A l \in session.pages[i].row : l[2] \in Stored(disk))'
      BY <1>1, <2>7 DEF Stored
    <3>3. QED BY <2>6, <2>8, <2>10, <2>11, <3>1, <3>2 DEF SessionProgress
  <2>13. QED BY <1>2, <2>4, <2>12 DEF SessionInv
<1>5. QED BY <1>3, <1>4

--------------------------------------------------------------------------------
(* The steps of a session.                                                    *)

\* A state is read back from a column as it was written.
LEMMA ColumnFits == ASSUME SessionInv PROVE \A v \in State : column(v) = v
BY DEF SessionInv, SessionTypes, column

\* Nothing read yet is a moment, and so is what is read with the information.
LEMMA MomentIsRead ==
  /\ Moment(NoFigures, NULL) \in Moments
  /\ DumpInv /\ SessionInv => MomentRead \in Moments
<1>1. Moment(NoFigures, NULL) \in Moments BY DEF Moment, NoFigures, Moments
<1>2. ASSUME DumpInv, SessionInv PROVE MomentRead \in Moments
  <2>1. disk.figures \in [State -> Nat] /\ disk.moment \in Moments
    BY <1>2 DEF DumpInv, SoundTable, Table
  <2>2. CASE engine = "Agent" BY <2>1, <2>2 DEF MomentRead, Moment, Moments
  <2>3. CASE engine # "Agent"
    <3> DEFINE known == IF disk.moment.last = NULL THEN NULL ELSE column(disk.moment.last)
    <3>1. known \in State \cup {NULL} BY <1>2, <2>1, ColumnFits DEF Moments
    <3>2. MomentRead = [disk.moment EXCEPT !.last = known] BY <2>3 DEF MomentRead
    <3> HIDE DEF known
    <3>3. QED BY <2>1, <3>1, <3>2 DEF Moments
  <2>4. QED BY <2>2, <2>3
<1>3. QED BY <1>1, <1>2

\* The memory of an agent that is read as a graph.
LEMMA GraphOfRows ==
  ASSUME NEW t \in Table
  PROVE  /\ Stored(t) \subseteq Graph(t.rows).states
         /\ \A s \in Stored(t) : \A r \in t.rows[s] :
              r[2] \in Graph(t.rows).states /\ <<s, r[1], r[2]>> \in Graph(t.rows).links
         /\ \A m : Within(t, m) =>
              Graph(t.rows).states \subseteq m.states /\ Graph(t.rows).links \subseteq m.links
         /\ \A l \in Graph(t.rows).links :
              \E s \in Stored(t) : \E r \in t.rows[s] : l = <<s, r[1], r[2]>>
<1> DEFINE rows == t.rows
           kept == {s \in State : rows[s] # NULL}
           states == kept \cup UNION {{l[2] : l \in rows[s]} : s \in kept}
           graphLinks == UNION {{<<s, l[1], l[2]>> : l \in rows[s]} : s \in kept}
<1>1. Graph(rows) = [states |-> states, links |-> graphLinks] BY DEF Graph
<1>2. kept = Stored(t) BY DEF Stored
<1>3. Graph(rows).states = states /\ Graph(rows).links = graphLinks BY <1>1
<1>4. kept \subseteq states OBVIOUS
<1>5. ASSUME NEW s \in kept, NEW r \in rows[s]
      PROVE  r[2] \in states /\ <<s, r[1], r[2]>> \in graphLinks
  OBVIOUS
<1>6. ASSUME NEW l \in graphLinks
      PROVE  \E s \in kept : \E r \in rows[s] : l = <<s, r[1], r[2]>>
  OBVIOUS
<1>7. ASSUME NEW m, Within(t, m)
      PROVE  states \subseteq m.states /\ graphLinks \subseteq m.links
  <2>1. \A s \in kept : s \in m.states /\ \A l \in rows[s] : l[2] \in m.states /\ <<s, l[1], l[2]>> \in m.links
    BY <1>2, <1>7 DEF Within
  <2>2. ASSUME NEW x \in states PROVE x \in m.states
    <3>1. x \in kept \/ \E s \in kept : \E l \in rows[s] : x = l[2] OBVIOUS
    <3>2. QED BY <2>1, <3>1
  <2>3. ASSUME NEW x \in graphLinks PROVE x \in m.links
    <3>1. PICK s \in kept : \E l \in rows[s] : x = <<s, l[1], l[2]>> BY <1>6, <2>3
    <3>2. QED BY <2>1, <3>1
  <2>4. QED BY <2>2, <2>3
<1> HIDE DEF states, graphLinks, kept
<1>8. QED BY <1>2, <1>3, <1>4, <1>5, <1>6, <1>7

\* The memory an agent that is the storage gives out is well formed.
LEMMA GraphWellFormed ==
  ASSUME DumpInv PROVE WellFormed(Graph(disk.rows)) /\ Graph(disk.rows) # NULL
<1> DEFINE g == Graph(disk.rows)
<1>1. disk \in Table /\ Within(disk, Known) /\ WellFormed(Known) BY DEF DumpInv, SoundTable, DumpTypes
<1>2. /\ g.states \subseteq ToSet(list) /\ g.links \subseteq links
      /\ Stored(disk) \subseteq g.states
      /\ \A s \in Stored(disk) : \A r \in disk.rows[s] : r[2] \in g.states
      /\ \A l \in g.links : \E s \in Stored(disk) : \E r \in disk.rows[s] : l = <<s, r[1], r[2]>>
  <2>1. Known.states = ToSet(list) /\ Known.links = links BY DEF Known
  <2>2. /\ Stored(disk) \subseteq g.states
        /\ \A s \in Stored(disk) : \A r \in disk.rows[s] : r[2] \in g.states
        /\ Within(disk, Known) => g.states \subseteq Known.states /\ g.links \subseteq Known.links
        /\ \A l \in g.links : \E s \in Stored(disk) : \E r \in disk.rows[s] : l = <<s, r[1], r[2]>>
    BY <1>1, GraphOfRows
  <2>3. QED BY <1>1, <2>1, <2>2
<1>3. ToSet(list) \subseteq State /\ links \subseteq Link /\ IsFiniteSet(links)
  BY <1>1 DEF WellFormed, Known, Memory
<1>4. g = [states |-> g.states, links |-> g.links] BY DEF Graph
<1> HIDE DEF g
<1>5. g \in Memory BY <1>2, <1>3, <1>4 DEF Memory
<1>6. IsFiniteSet(g.links) BY <1>2, <1>3, FS_Subset
<1>7. \A l \in g.links : l[1] \in g.states /\ l[3] \in g.states
  <2> TAKE l \in g.links
  <2>0. PICK s \in Stored(disk) : \E r \in disk.rows[s] : l = <<s, r[1], r[2]>> BY <1>2
  <2>1. PICK r \in disk.rows[s] : l = <<s, r[1], r[2]>> BY <2>0
  <2>2. l[1] = s /\ l[3] = r[2] BY <2>1
  <2>3. QED BY <1>2, <2>1, <2>2
<1>8. g # NULL BY <1>5, NullIsNone DEF Memory, Link
<1>9. QED BY <1>5, <1>6, <1>7, <1>8 DEF WellFormed, g

\* Where rows are complete, every following state has one.
LEMMA FollowersHaveRows ==
  ASSUME DumpInv, engine # "Mysql" \/ dumper \in {"idle", "opened"} PROVE FollowersStored(disk)
<1>1. CASE engine = "Agent" BY <1>1 DEF DumpInv, DumpProgress
<1>2. CASE engine # "Agent"
  <2>1. disk.info = NULL => Stored(disk) = {} BY <1>2 DEF DumpInv, SoundTable
  <2>2. disk.info # NULL => Within(disk, disk.info) /\ Holds(disk, disk.info)
    BY <1>2 DEF DumpInv, DumpTypes, SoundTable, DumpProgress
  <2>3. QED BY <2>1, <2>2 DEF FollowersStored, Within, Holds
<1>3. QED BY <1>1, <1>2

\* A session that has shown nothing has no result to answer for.
LEMMA NoResult ==
  ASSUME session'.outcome \in {"none", "not_opened", "not_found"} PROVE Results'
BY DEF Results, WalkComplete, DrawingSound, UnwarnedGraphExact, ReaderSurvives, Shown

\* What the reader leaves as it is.
ReaderFrame == UNCHANGED <<engine, dumpVars, began, disturbed>>
\* So nothing else a session relies on changes either.
LEMMA FrameIs ==
  ASSUME ReaderFrame
  PROVE  /\ UNCHANGED <<engine, list, links, last, figures, tables, disk, dumper, left, locked, began, disturbed>>
         /\ Stored(disk)' = Stored(disk)
BY DEF ReaderFrame, dumpVars, agentVars, Stored

\* The session is the record s but for where it stands.
Continues(s) ==
  /\ session' \in Sessions
  /\ session'.viewer = s.viewer /\ session'.which = s.which /\ session'.index = s.index
  /\ session'.st = s.st /\ session'.info = s.info /\ session'.moment = s.moment
  /\ session'.pages = s.pages
  /\ session'.pending = s.pending /\ session'.drawn = s.drawn
  /\ session'.midway = s.midway /\ session'.warned = s.warned
  /\ session'.missed <=> s.missed \/ SelectFails

\* A session that goes on as s.
LEMMA GoesOnIs ==
  ASSUME NEW s \in Sessions, GoesOn(s)
  PROVE  Continues(s) /\ session'.place = s.place /\ session'.outcome = s.outcome
<1>1. session' = [s EXCEPT !.missed = s.missed \/ SelectFails] BY DEF GoesOn
<1>2. (s.missed \/ SelectFails) \in BOOLEAN OBVIOUS
<1>3. QED BY <1>1, <1>2 DEF Continues, Sessions

\* A session that is over, and closes its storage.
LEMMA EndsIs ==
  ASSUME NEW s \in Sessions, NEW outcome \in {"not_found", "shown"}, Ends(s, outcome)
  PROVE  Continues(s) /\ session'.place = "rest" /\ session'.outcome = outcome
<1>1. session' = [s EXCEPT !.missed = s.missed \/ SelectFails, !.place = "rest", !.outcome = outcome]
  BY DEF Ends
<1>2. (s.missed \/ SelectFails) \in BOOLEAN OBVIOUS
<1>3. QED BY <1>1, <1>2 DEF Continues, Sessions

\* A session that ERROR() ends.
LEMMA ExitsIs ==
  ASSUME session \in Sessions, Exits
  PROVE  Continues(session) /\ session'.place = "exited" /\ session'.outcome = "exited"
<1>1. session' = [session EXCEPT !.missed = session.missed \/ SelectFails, !.place = "exited", !.outcome = "exited"]
  BY DEF Exits
<1>2. (session.missed \/ SelectFails) \in BOOLEAN OBVIOUS
<1>3. QED BY <1>1, <1>2 DEF Continues, Sessions

\* A session begins: it has read nothing, and everything stored is expected.
LEMMA BeginSessionKeeps ==
  ASSUME DumpInv, SessionInv, NEW viewer, NEW which, <<viewer, which>> \in Requests,
         BeginSession(viewer, which)
  PROVE  SessionInv' /\ Results'
<1>1. /\ viewer \in Viewer /\ which \in State \cup {NULL} /\ (which # NULL => viewer # "load")
  BY RequestsAssumption
<1>2. session.index \in Nat BY DEF SessionInv, SessionTypes, Sessions
<1>3. /\ session' = [Fresh(viewer, which) EXCEPT !.index = session.index,
                       !.place = IF which = NULL THEN "info" ELSE "row"]
      /\ began' = Stored(disk) /\ disturbed' = FALSE
      /\ engine = "Agent" => dumper = "idle"
      /\ UNCHANGED <<engine, disk, dumper>>
  BY DEF BeginSession, MayRead, dumpVars
<1>4. session' =
        [viewer |-> viewer, which |-> which, place |-> IF which = NULL THEN "info" ELSE "row",
         index |-> session.index, st |-> which, info |-> NULL, moment |-> Moment(NoFigures, NULL),
         pages |-> <<>>,
         pending |-> {}, drawn |-> {}, missed |-> FALSE, midway |-> FALSE,
         outcome |-> "none", warned |-> FALSE]
  BY <1>3 DEF Fresh
<1>5. /\ session'.viewer = viewer /\ session'.which = which /\ session'.st = which
      /\ session'.place = IF which = NULL THEN "info" ELSE "row"
      /\ session'.info = NULL /\ session'.pages = <<>>
      /\ session'.pending = {} /\ session'.drawn = {} /\ ~ session'.midway
      /\ session'.outcome = "none"
  BY <1>4
<1>6. SessionTypes'
  <2>1. Stored(disk) \in SUBSET State BY DEF Stored
  <2>2. <<>> \in Seq(Page) OBVIOUS
  <2>3. session' \in Sessions
    BY <1>1, <1>2, <1>4, <2>2, MomentIsRead DEF Sessions
  <2>4. disturbed' \in BOOLEAN BY <1>3
  <2>5. (engine = "Sqlite" => \A v \in State : SqliteColumn(v) = v)'
    BY <1>3 DEF SessionInv, SessionTypes
  <2>6. QED BY <1>3, <2>1, <2>3, <2>4, <2>5 DEF SessionTypes
<1>7. SessionProgress'
  <2>1. Stored(disk)' = Stored(disk) BY <1>3 DEF Stored
  <2>2. InfoProgress' BY <1>5 DEF InfoProgress
  <2>3. which = NULL => WholeProgress' BY <1>5 DEF WholeProgress
  <2>4. which # NULL => OneProgress' BY <1>1, <1>5 DEF OneProgress
  <2>5. QED BY <1>3, <1>5, <2>1, <2>2, <2>3, <2>4 DEF SessionProgress, Whole
<1>8. SessionInv' BY <1>3, <1>6, <1>7 DEF SessionInv
<1>9. Results' BY <1>5, NoResult
<1>10. QED BY <1>8, <1>9

\* The storage could not be opened, and there is no session.
LEMMA SessionRefusedKeeps ==
  ASSUME DumpInv, SessionInv, NEW viewer, NEW which, <<viewer, which>> \in Requests,
         SessionRefused(viewer, which)
  PROVE  SessionInv' /\ Results'
<1>1. viewer \in Viewer /\ which \in State \cup {NULL} BY RequestsAssumption
<1>2. session.index \in Nat BY DEF SessionInv, SessionTypes, Sessions
<1>3. /\ session' = [Fresh(viewer, which) EXCEPT !.index = session.index, !.outcome = "not_opened"]
      /\ ReaderFrame
  BY DEF SessionRefused, ReaderFrame
<1>4. session' =
        [viewer |-> viewer, which |-> which, place |-> "rest",
         index |-> session.index, st |-> which, info |-> NULL, moment |-> Moment(NoFigures, NULL),
         pages |-> <<>>,
         pending |-> {}, drawn |-> {}, missed |-> FALSE, midway |-> FALSE,
         outcome |-> "not_opened", warned |-> FALSE]
  BY <1>3 DEF Fresh
<1>5. session' \in Sessions
  <2>1. <<>> \in Seq(Page) OBVIOUS
  <2>2. QED BY <1>1, <1>2, <1>4, <2>1, MomentIsRead DEF Sessions
<1>6. AtRest' /\ session'.outcome = "not_opened" BY <1>4 DEF AtRest
<1>7. SessionInv' BY <1>3, <1>5, <1>6, FrameIs DEF SessionInv, SessionTypes, SessionProgress
<1>8. Results' BY <1>6, NoResult
<1>9. QED BY <1>7, <1>8

\* getMemoryInfo(): what is read is the information of a complete memory, but for
\* that of a dump of Mysql under way, or killed.
LEMMA ReadInfoKeeps ==
  ASSUME DumpInv, SessionInv, ReadInfo PROVE SessionInv' /\ Results'
<1> DEFINE mid == engine = "Mysql" /\ dumper = "dumping"
           s == [session EXCEPT !.info = InfoRead, !.moment = MomentRead, !.place = "first",
                                !.midway = mid]
<1>1. /\ session.place = "info" /\ ReaderFrame /\ GoesOn(s)
  BY DEF ReadInfo, Reads, ReaderFrame, UnderWay
<1>2. /\ UNCHANGED <<engine, list, links, last, figures, tables, disk, dumper, left, locked, began, disturbed>>
      /\ Stored(disk)' = Stored(disk)
  BY <1>1, FrameIs
<1>3. session \in Sessions /\ ~ AtRest
  BY <1>1 DEF SessionInv, SessionTypes, AtRest
<1>4. /\ session.outcome = "none" /\ (engine = "Agent" => dumper = "idle")
      /\ began \subseteq Stored(disk) /\ (~ disturbed => began = Stored(disk))
      /\ WholeProgress /\ Whole
  BY <1>1, <1>3 DEF SessionInv, SessionProgress, OneProgress
<1>5. session.pages = <<>> /\ session.pending = {} /\ session.drawn = {}
  BY <1>1, <1>4 DEF WholeProgress
<1>6. InfoRead # NULL =>
        /\ WellFormed(InfoRead)
        /\ InfoRead = IF engine = "Agent" THEN Graph(disk.rows) ELSE disk.info
        /\ engine # "Agent" /\ ~ mid =>
             (engine = "Mysql" /\ dumper = "dead" /\ InfoRead = disk.info) \/ Holds(disk, InfoRead)
  <2>1. CASE SelectFails BY <2>1 DEF InfoRead
  <2>2. CASE ~ SelectFails /\ engine = "Agent" BY <2>2, GraphWellFormed DEF InfoRead
  <2>3. CASE ~ SelectFails /\ engine # "Agent"
    <3>1. InfoRead = disk.info BY <2>3 DEF InfoRead
    <3>2. disk.info # NULL => WellFormed(disk.info) BY <2>3 DEF DumpInv, SoundTable
    <3>3. disk.info # NULL /\ (engine = "Sqlite" \/ dumper \in {"idle", "opened"}) =>
            Holds(disk, disk.info)
      BY DEF DumpInv, DumpProgress
    <3>4. dumper \in {"idle", "opened", "dumping", "dead"} /\ engine \in {"Sqlite", "Mysql", "Agent"}
      BY DEF DumpInv, DumpTypes
    <3>5. QED BY <2>3, <3>1, <3>2, <3>3, <3>4
  <2>4. QED BY <2>1, <2>2, <2>3
<1>7. s \in Sessions
  <2>1. InfoRead \in Memory \cup {NULL} BY <1>6 DEF WellFormed
  <2>2. mid \in BOOLEAN OBVIOUS
  <2>3. MomentRead \in Moments BY MomentIsRead
  <2> HIDE DEF mid
  <2>4. QED BY <1>3, <2>1, <2>2, <2>3 DEF Sessions
<1>8. /\ Continues(s) /\ session'.place = "first" /\ session'.outcome = "none"
      /\ session'.info = InfoRead /\ (session'.midway <=> mid)
      /\ session'.pages = <<>> /\ session'.pending = {} /\ session'.drawn = {}
      /\ session'.which = session.which
  <2>1. Continues(s) /\ session'.place = s.place /\ session'.outcome = s.outcome
    BY <1>1, <1>7, GoesOnIs
  <2>2. /\ s.place = "first" /\ s.outcome = session.outcome /\ s.info = InfoRead /\ s.midway = mid
        /\ s.pages = session.pages /\ s.pending = session.pending /\ s.drawn = session.drawn
        /\ s.which = session.which
    BY <1>3 DEF Sessions
  <2> HIDE DEF s, mid
  <2>3. QED BY <1>4, <1>5, <2>1, <2>2 DEF Continues
<1>9. SessionTypes' BY <1>2, <1>8 DEF SessionInv, SessionTypes, Continues
<1>10. InfoProgress'
  <2>1. (WellFormed(session.info)' <=> WellFormed(InfoRead)) /\ Graph(disk.rows)' = Graph(disk.rows)
        /\ (Holds(disk, session.info)' <=> Holds(disk, InfoRead))
    BY <1>2, <1>8 DEF WellFormed, Graph, Holds, Stored
  <2>2. PagesHold(session.info)' BY <1>8 DEF PagesHold
  <2>3. QED BY <1>2, <1>6, <1>8, <2>1, <2>2 DEF InfoProgress
<1>11. WholeProgress' BY <1>8 DEF WholeProgress
<1>12. SessionProgress'
  BY <1>2, <1>4, <1>8, <1>10, <1>11 DEF SessionProgress, Whole
<1>13. SessionInv' BY <1>2, <1>9, <1>12 DEF SessionInv
<1>14. Results' BY <1>8, NoResult
<1>15. QED BY <1>13, <1>14

\* A viewer gives up without it.
LEMMA NoInfoKeeps ==
  ASSUME DumpInv, SessionInv, NoInfo PROVE SessionInv' /\ Results'
<1>1. ReaderFrame /\ Ends(session, "not_found") BY DEF NoInfo, Reads, ReaderFrame
<1>2. session \in Sessions BY DEF SessionInv, SessionTypes
<1>3. Continues(session) /\ session'.place = "rest" /\ session'.outcome = "not_found"
  BY <1>1, <1>2, EndsIs
<1>4. SessionInv' BY <1>1, <1>3, FrameIs DEF SessionInv, SessionTypes, SessionProgress, AtRest, Continues
<1>5. Results' BY <1>3, NoResult
<1>6. QED BY <1>4, <1>5

--------------------------------------------------------------------------------
(* What a session has brought back or drawn when it is over.                  *)

PagesRead(pages) == {pages[i].st : i \in DOMAIN pages}

\* A walk that read the rows in their places read no state twice.
LEMMA NoStateTwice ==
  ASSUME NEW pages \in Seq(Page), NEW order,
         \A i \in 1..Len(pages) : i \in 1..Len(order) /\ pages[i].st = order[i],
         \A i, j \in 1..Len(order) : order[i] = order[j] => i = j
  PROVE  Cardinality(PagesRead(pages)) = Len(pages)
<1> DEFINE n == Len(pages)
           f == [i \in 1..n |-> pages[i].st]
<1>1. n \in Nat /\ DOMAIN pages = 1..n BY LenProperties
<1>4. IsFiniteSet(1..n) /\ Cardinality(1..n) = n
  <2> HIDE DEF n
  <2>1. QED BY <1>1, FS_Interval
<1>2. f \in Surjection(1..n, PagesRead(pages)) BY <1>1 DEF Surjection, PagesRead
<1>3. f \in Injection(1..n, PagesRead(pages))
  <2>1. \A i, j \in 1..n : f[i] = f[j] => i = j OBVIOUS
  <2>2. f \in [1..n -> PagesRead(pages)] BY <1>1 DEF PagesRead
  <2> HIDE DEF f
  <2>3. QED BY <2>1, <2>2 DEF Injection, IsInjective
<1> HIDE DEF f
<1>5. QED BY <1>2, <1>3, <1>4, FS_Surjection

\* What nodes a drawing has.
LEMMA NodesAre ==
  ASSUME NEW s
  PROVE  \A n : n \in Nodes(s) <=>
           (\E d \in Drawings(s) : n \in d.nodes) \/ (\E f \in s.drawn : n = StateNode(f))
<1> DEFINE Drawn == UNION {d.nodes : d \in Drawings(s)}
           Followers == {StateNode(f) : f \in s.drawn}
<1>1. Nodes(s) = Drawn \cup Followers BY DEF Nodes
<1>2. \A n : n \in Drawn <=> \E d \in Drawings(s) : n \in d.nodes OBVIOUS
<1>3. \A n : n \in Followers <=> \E f \in s.drawn : n = StateNode(f) OBVIOUS
<1> HIDE DEF Drawn, Followers
<1>4. QED BY <1>1, <1>2, <1>3

\* The names of the nodes of states are different for different states, and
\* the nodes of actions have other names.
LEMMA NodesOfStates ==
  ASSUME NEW s \in Sessions
  PROVE  Cardinality({n \in Nodes(s) : n[1] = "st"}) = Cardinality(PagesRead(s.pages) \cup s.drawn)
<1> DEFINE All == PagesRead(s.pages) \cup s.drawn
           Named == {StateNode(x) : x \in All}
<1>1. s.pages \in Seq(Page) /\ s.drawn \subseteq State BY DEF Sessions
<1>2. \A p \in ToSet(s.pages) : p \in Page /\ p.st \in PagesRead(s.pages)
  BY <1>1, LenProperties DEF ToSet, PagesRead
<1>3. \A x \in PagesRead(s.pages) : \E p \in ToSet(s.pages) : p.st = x
  BY DEF ToSet, PagesRead
<1>4. All \subseteq State
  <2>1. \A i \in DOMAIN s.pages : s.pages[i] \in Page BY <1>1, LenProperties
  <2>2. \A i \in DOMAIN s.pages : s.pages[i].st \in State BY <2>1 DEF Page
  <2>3. PagesRead(s.pages) \subseteq State BY <2>2 DEF PagesRead
  <2>4. QED BY <1>1, <2>3
<1>5. IsFiniteSet(All) BY <1>4, ValuesAreIntegers, FS_Subset
<1>6. {n \in Nodes(s) : n[1] = "st"} = Named
  <2>1. ASSUME NEW n \in Nodes(s), n[1] = "st" PROVE n \in Named
    <3>1. CASE n \in {StateNode(f) : f \in s.drawn} BY <3>1
    <3>2. ASSUME NEW d \in Drawings(s), n \in d.nodes PROVE n \in Named
      <4>1. PICK p \in ToSet(s.pages) :
              d = IF s.viewer = "cdot" /\ s.which = NULL THEN cleanDotStateInfo(p) ELSE dotStateInfo(p)
        BY <3>2 DEF Drawings
      <4>2. n = StateNode(p.st) \/ \E l \in p.row : n = ActNode(l[1], p.st)
        BY <3>2, <4>1 DEF cleanDotStateInfo, dotStateInfo
      <4>3. \A l \in p.row : ActNode(l[1], p.st)[1] = "act" BY DEF ActNode
      <4>4. n = StateNode(p.st) BY <2>1, <4>2, <4>3
      <4>5. QED BY <1>2, <4>4
    <3>3. QED BY <2>1, <3>1, <3>2, NodesAre
  <2>2. ASSUME NEW x \in All PROVE StateNode(x) \in Nodes(s) /\ StateNode(x)[1] = "st"
    <3>1. StateNode(x)[1] = "st" BY DEF StateNode
    <3>2. CASE x \in s.drawn BY <3>1, <3>2, NodesAre
    <3>3. CASE x \in PagesRead(s.pages)
      <4>1. PICK p \in ToSet(s.pages) : p.st = x BY <1>3, <3>3
      <4> DEFINE d == IF s.viewer = "cdot" /\ s.which = NULL THEN cleanDotStateInfo(p) ELSE dotStateInfo(p)
      <4>2. d \in Drawings(s) BY DEF Drawings
      <4>3. StateNode(x) \in d.nodes BY <4>1 DEF cleanDotStateInfo, dotStateInfo
      <4> HIDE DEF d
      <4>4. QED BY <3>1, <4>2, <4>3, NodesAre
    <3>4. QED BY <3>2, <3>3
  <2>3. QED BY <2>1, <2>2
<1>7. \A x, y \in All : StateNode(x) = StateNode(y) => x = y
  <2> TAKE x, y \in All
  <2>1. x \in Int /\ y \in Int BY <1>4, ValuesAreIntegers
  <2>2. StateNode(x) = StateNode(y) => int2String(x) = int2String(y) BY DEF StateNode
  <2>3. int2String(x) = int2String(y) => x = y
    <3>1. /\ int2String(x)[1] = (IF x >= 0 THEN "" ELSE "_")
          /\ int2String(x)[2] = (IF x >= 0 THEN x ELSE -x)
          /\ int2String(y)[1] = (IF y >= 0 THEN "" ELSE "_")
          /\ int2String(y)[2] = (IF y >= 0 THEN y ELSE -y)
      BY DEF int2String
    <3>2. "" # "_" OBVIOUS
    <3>3. SUFFICES ASSUME int2String(x) = int2String(y) PROVE x = y OBVIOUS
    <3>4. x >= 0 <=> y >= 0 BY <3>1, <3>2, <3>3
    <3>5. CASE x >= 0 BY <3>1, <3>3, <3>4, <3>5
    <3>6. CASE ~ (x >= 0)
      <4>1. -x = -y BY <3>1, <3>3, <3>4, <3>6
      <4>2. -(-x) = x /\ -(-y) = y BY <2>1
      <4>3. QED BY <4>1, <4>2
    <3>7. QED BY <3>5, <3>6
  <2>4. QED BY <2>2, <2>3
<1> DEFINE f == [x \in All |-> StateNode(x)]
<1>8. f \in Surjection(All, Named) BY DEF Surjection
<1>9. f \in Injection(All, Named) BY <1>7 DEF Injection, IsInjective
<1> HIDE DEF f, All, Named
<1>10. Cardinality(Named) = Cardinality(All) BY <1>5, <1>8, <1>9, FS_Surjection
<1>11. QED BY <1>6, <1>10 DEF All

\* The arrows of a drawing end at its nodes if all followers are drawn.
LEMMA ArrowsEndAtNodes ==
  ASSUME NEW s \in Sessions,
         \A i \in DOMAIN s.pages : \A l \in s.pages[i].row : l[2] \in PagesRead(s.pages) \cup s.drawn
  PROVE  \A arrow \in Arrows(s) : {arrow[1], arrow[2]} \subseteq Nodes(s)
<1> DEFINE Shape(p) == IF s.viewer = "cdot" /\ s.which = NULL THEN cleanDotStateInfo(p) ELSE dotStateInfo(p)
<1>1. Drawings(s) = {Shape(p) : p \in ToSet(s.pages)} BY DEF Drawings
<1>2. \A x \in PagesRead(s.pages) : \E p \in ToSet(s.pages) : p.st = x
  BY DEF ToSet, PagesRead
<1>3. \A p \in ToSet(s.pages) : StateNode(p.st) \in Nodes(s)
  <2> TAKE p \in ToSet(s.pages)
  <2>1. Shape(p) \in Drawings(s) BY <1>1
  <2>2. StateNode(p.st) \in Shape(p).nodes BY DEF cleanDotStateInfo, dotStateInfo
  <2> HIDE DEF Shape
  <2>3. QED BY <2>1, <2>2, NodesAre
<1>4. \A x \in PagesRead(s.pages) \cup s.drawn : StateNode(x) \in Nodes(s)
  <2>1. \A x \in s.drawn : StateNode(x) \in Nodes(s) BY NodesAre
  <2>2. \A x \in PagesRead(s.pages) : StateNode(x) \in Nodes(s) BY <1>2, <1>3
  <2>3. QED BY <2>1, <2>2
<1>5. SUFFICES ASSUME NEW d \in Drawings(s), NEW arrow \in d.arrows
               PROVE  arrow[1] \in Nodes(s) /\ arrow[2] \in Nodes(s)
  BY DEF Arrows
<1>6. PICK p \in ToSet(s.pages) : d = Shape(p) BY <1>1
<1>7. \A l \in p.row : StateNode(l[2]) \in Nodes(s)
  <2>1. PICK i \in DOMAIN s.pages : p = s.pages[i] BY DEF ToSet
  <2>2. QED BY <1>4, <2>1
<1>8. CASE s.viewer = "cdot" /\ s.which = NULL
  <2>1. PICK l \in p.row : arrow = <<StateNode(p.st), StateNode(l[2])>>
    BY <1>5, <1>6, <1>8 DEF cleanDotStateInfo
  <2>2. QED BY <1>3, <1>7, <2>1
<1>9. CASE ~ (s.viewer = "cdot" /\ s.which = NULL)
  <2>1. d = dotStateInfo(p) BY <1>6, <1>9
  <2>2. PICK l \in p.row : \/ arrow = <<StateNode(p.st), ActNode(l[1], p.st)>>
                           \/ arrow = <<ActNode(l[1], p.st), StateNode(l[2])>>
    BY <1>5, <2>1 DEF dotStateInfo
  <2>3. ActNode(l[1], p.st) \in d.nodes BY <2>1 DEF dotStateInfo
  <2>4. ActNode(l[1], p.st) \in Nodes(s) BY <2>3, NodesAre
  <2>5. QED BY <1>3, <1>7, <2>2, <2>4
<1>10. QED BY <1>8, <1>9

\* A set of numbers up to n has a greatest one.
LEMMA GreatestOf ==
  ASSUME NEW n \in Nat, NEW I \in SUBSET (1..n), I # {}
  PROVE  Max(I) \in I
<1> DEFINE Below == {m \in Nat : \E i \in I : m = n - i}
<1>1. Below \in SUBSET Nat /\ Below # {}
  <2>1. PICK i \in I : TRUE OBVIOUS
  <2>2. n - i \in Nat BY <2>1
  <2>3. n - i \in Below BY <2>1, <2>2
  <2>4. QED BY <2>3
<1>2. PICK m \in Below : \A k \in Below : m <= k BY <1>1, LeastNat
<1>3. PICK i \in I : m = n - i BY <1>2
<1>4. \A j \in I : n - j \in Below OBVIOUS
<1>5. \A j \in I : i >= j BY <1>2, <1>3, <1>4
<1>6. QED BY <1>5 DEF Max

\* What was loaded is the graph of the rows read, of each state the last one.
LEMMA LoadedRows ==
  ASSUME NEW pages \in Seq(Page)
  PROVE  \E t \in Table :
           /\ Loaded(pages) = Graph(t.rows)
           /\ Stored(t) = PagesRead(pages)
           /\ \A s \in Stored(t) : \E i \in DOMAIN pages :
                pages[i].st = s /\ t.rows[s] = pages[i].row
<1> DEFINE Final(s) == SelectLastInSeq(pages, LAMBDA p : p.st = s)
           rows == [s \in State |-> IF \E i \in DOMAIN pages : pages[i].st = s
                                    THEN pages[Final(s)].row ELSE NULL]
           t == [created |-> FALSE, rows |-> rows, order |-> <<>>, info |-> NULL,
                 figures |-> NoFigures, moment |-> Moment(NoFigures, NULL)]
<1>1. Len(pages) \in Nat /\ DOMAIN pages = 1..Len(pages) BY LenProperties
<1>2. \A i \in DOMAIN pages : pages[i].st \in State /\ pages[i].row \in Row /\ pages[i].row # NULL
  <2>1. \A i \in DOMAIN pages : pages[i] \in Page BY <1>1
  <2>2. QED BY <2>1, NullIsNone DEF Page, Row
<1>3. ASSUME NEW s \in State, \E i \in DOMAIN pages : pages[i].st = s
      PROVE  Final(s) \in DOMAIN pages /\ pages[Final(s)].st = s
  <2> DEFINE I == {i \in 1..Len(pages) : pages[i].st = s}
  <2>1. Final(s) = IF I # {} THEN Max(I) ELSE 0 BY DEF SelectLastInSeq
  <2>2. I \in SUBSET (1..Len(pages)) /\ I # {} BY <1>1, <1>3
  <2>3. Max(I) \in I
    <3> HIDE DEF I
    <3>1. QED BY <1>1, <2>2, GreatestOf
  <2> HIDE DEF Final
  <2>4. Final(s) \in I BY <2>1, <2>2, <2>3
  <2>5. QED BY <1>1, <2>4
<1>4. Loaded(pages) = Graph(rows) BY DEF Loaded
<1> HIDE DEF Final
<1>5. \A s \in State : rows[s] \in Row \cup {NULL}
                       /\ (rows[s] # NULL <=> \E i \in DOMAIN pages : pages[i].st = s)
  BY <1>2, <1>3
<1>6. rows \in [State -> Row \cup {NULL}] BY <1>5
<1> HIDE DEF rows
<1>7. t \in Table /\ t.rows = rows
  <2>1. <<>> \in Seq(State) OBVIOUS
  <2>2. NoFigures \in [State -> Nat] BY DEF NoFigures
  <2>3. Moment(NoFigures, NULL) \in Moments BY MomentIsRead
  <2>4. FALSE \in BOOLEAN /\ NULL \in Memory \cup {NULL} OBVIOUS
  <2> DEFINE unread == Moment(NoFigures, NULL)
  <2>5. unread \in Moments /\ t = [created |-> FALSE, rows |-> rows, order |-> <<>>, info |-> NULL,
                                   figures |-> NoFigures, moment |-> unread]
    BY <2>3
  <2> HIDE DEF unread, t
  <2>6. QED BY <1>6, <2>1, <2>2, <2>4, <2>5 DEF Table
<1>8. Stored(t) = PagesRead(pages)
  <2>1. \A s : s \in PagesRead(pages) <=> \E i \in DOMAIN pages : pages[i].st = s BY DEF PagesRead
  <2>2. \A s : s \in Stored(t) <=> s \in State /\ rows[s] # NULL BY <1>7 DEF Stored
  <2>3. \A s : s \in Stored(t) => s \in PagesRead(pages) BY <1>5, <2>1, <2>2
  <2> HIDE DEF t
  <2>4. ASSUME NEW s \in PagesRead(pages) PROVE s \in Stored(t)
    <3>1. PICK i \in DOMAIN pages : pages[i].st = s BY <2>1
    <3>2. s \in State BY <1>2, <3>1
    <3>3. rows[s] # NULL BY <1>5, <3>1, <3>2
    <3>4. QED BY <2>2, <3>2, <3>3
  <2>5. QED BY <2>3, <2>4
<1>9. ASSUME NEW s \in Stored(t)
      PROVE  \E i \in DOMAIN pages : pages[i].st = s /\ t.rows[s] = pages[i].row
  <2>1. s \in State /\ \E i \in DOMAIN pages : pages[i].st = s
    BY <1>2, <1>8, <1>9 DEF PagesRead
  <2>2. rows[s] = pages[Final(s)].row BY <2>1 DEF rows
  <2>3. QED BY <1>3, <1>7, <2>1, <2>2
<1> HIDE DEF t
<1>10. QED BY <1>4, <1>7, <1>8, <1>9

\* Rows that were read are part of what is stored, and so of every memory that
\* what is stored is part of.
LEMMA LoadedIsStored ==
  ASSUME DumpInv, NEW pages \in Seq(Page),
         \A i \in DOMAIN pages :
           pages[i].st \in Stored(disk) /\ pages[i].row \subseteq disk.rows[pages[i].st]
  PROVE  /\ WellFormed(Loaded(pages)) /\ Loaded(pages) # NULL
         /\ PagesRead(pages) \subseteq Loaded(pages).states
         /\ \A m : Within(disk, m) =>
              Loaded(pages).states \subseteq m.states /\ Loaded(pages).links \subseteq m.links
<1>1. PICK t \in Table :
        /\ Loaded(pages) = Graph(t.rows)
        /\ Stored(t) = PagesRead(pages)
        /\ \A s \in Stored(t) : \E i \in DOMAIN pages : pages[i].st = s /\ t.rows[s] = pages[i].row
  BY LoadedRows
<1> DEFINE g == Graph(t.rows)
<1>2. /\ Stored(t) \subseteq g.states
      /\ \A s \in Stored(t) : \A r \in t.rows[s] : r[2] \in g.states
      /\ \A m : Within(t, m) => g.states \subseteq m.states /\ g.links \subseteq m.links
      /\ \A l \in g.links : \E s \in Stored(t) : \E r \in t.rows[s] : l = <<s, r[1], r[2]>>
  BY GraphOfRows
<1>3. \A s \in Stored(t) : s \in Stored(disk) /\ t.rows[s] \subseteq disk.rows[s] BY <1>1
<1>4. \A m : Within(disk, m) => Within(t, m) BY <1>3 DEF Within
<1>5. Within(disk, Known) /\ WellFormed(Known) /\ Known.states = ToSet(list) /\ Known.links = links
  BY DEF DumpInv, SoundTable, DumpTypes, Known
<1>6. g.states \subseteq ToSet(list) /\ g.links \subseteq links BY <1>2, <1>4, <1>5
<1>7. ToSet(list) \subseteq State /\ links \subseteq Link /\ IsFiniteSet(links)
  BY <1>5 DEF WellFormed, Memory
<1>8. g = [states |-> g.states, links |-> g.links] BY DEF Graph
<1> HIDE DEF g
<1>9. g \in Memory BY <1>6, <1>7, <1>8 DEF Memory
<1>10. IsFiniteSet(g.links) BY <1>6, <1>7, FS_Subset
<1>11. \A l \in g.links : l[1] \in g.states /\ l[3] \in g.states
  <2> TAKE l \in g.links
  <2>1. PICK s \in Stored(t) : \E r \in t.rows[s] : l = <<s, r[1], r[2]>> BY <1>2
  <2>2. PICK r \in t.rows[s] : l = <<s, r[1], r[2]>> BY <2>1
  <2>3. l[1] = s /\ l[3] = r[2] BY <2>2
  <2>4. QED BY <1>2, <2>2, <2>3
<1>12. g # NULL BY <1>9, NullIsNone DEF Memory, Link
<1>13. Loaded(pages) = g BY <1>1 DEF g
<1>14. QED BY <1>1, <1>2, <1>4, <1>9, <1>10, <1>11, <1>12, <1>13 DEF WellFormed

\* Rows of all the states of a memory that hold its links hold the memory.
LEMMA LoadedHolds ==
  ASSUME NEW pages \in Seq(Page), NEW m, WellFormed(m), m.states \subseteq PagesRead(pages),
         \A i \in DOMAIN pages : \A l \in m.links :
           l[1] = pages[i].st => <<l[2], l[3]>> \in pages[i].row
  PROVE  m.states \subseteq Loaded(pages).states /\ m.links \subseteq Loaded(pages).links
<1>1. PICK t \in Table :
        /\ Loaded(pages) = Graph(t.rows)
        /\ Stored(t) = PagesRead(pages)
        /\ \A s \in Stored(t) : \E i \in DOMAIN pages : pages[i].st = s /\ t.rows[s] = pages[i].row
  BY LoadedRows
<1> DEFINE g == Graph(t.rows)
<1>2. /\ Stored(t) \subseteq g.states
      /\ \A s \in Stored(t) : \A r \in t.rows[s] : <<s, r[1], r[2]>> \in g.links
  BY GraphOfRows
<1> HIDE DEF g
<1>3. ASSUME NEW l \in m.links PROVE l \in g.links
  <2>1. l[1] \in Stored(t) /\ l = <<l[1], l[2], l[3]>> BY <1>1 DEF WellFormed, Memory, Link
  <2>2. PICK i \in DOMAIN pages : pages[i].st = l[1] /\ t.rows[l[1]] = pages[i].row BY <1>1, <2>1
  <2>3. <<l[2], l[3]>> \in t.rows[l[1]] BY <2>2
  <2> DEFINE r == <<l[2], l[3]>>
  <2>4. <<l[1], r[1], r[2]>> \in g.links BY <1>2, <2>1, <2>3
  <2>5. QED BY <2>1, <2>4
<1>4. QED BY <1>1, <1>2, <1>3 DEF g

\* A memory that is part of another one with the same numbers is the same.
LEMMA SameNumbers ==
  ASSUME NEW m, NEW n, WellFormed(m), WellFormed(n), m # NULL, n # NULL,
         m.states \subseteq n.states, m.links \subseteq n.links,
         Numbers(m) = Numbers(n)
  PROVE  m = n
<1>1. /\ Cardinality(m.states) = Cardinality(n.states)
      /\ Cardinality(m.links) = Cardinality(n.links)
  BY DEF Numbers
<1>2. IsFiniteSet(n.states) /\ IsFiniteSet(n.links)
  BY ValuesAreIntegers, FS_Subset DEF WellFormed, Memory
<1>3. m.states = n.states BY <1>1, <1>2, FS_Subset
<1>4. m.links = n.links BY <1>1, <1>2, FS_Subset
<1>5. QED BY <1>3, <1>4 DEF WellFormed, Memory

\* At the end of the rows every state expected has been read.
LEMMA AllPassed ==
  ASSUME DumpInv, SessionInv, session.place \in {"first", "next"}, Whole, ~ SelectFails,
         StateByIndex(IF session.place = "first" THEN 0 ELSE session.index + 1) = NULL
  PROVE  Expected \cap Stored(disk) \subseteq StatesRead
<1> DEFINE i == IF session.place = "first" THEN 0 ELSE session.index + 1
           order == disk.order
<1>1. WholeProgress BY DEF SessionInv, SessionProgress, AtRest
<1>2. session.index \in Nat BY DEF SessionInv, SessionTypes, Sessions
<1>3. order \in Seq(State) /\ ToSet(order) = Stored(disk)
  BY DEF DumpInv, SoundTable, Table, Ordered
<1>4. Len(order) \in Nat /\ \A k \in 1..Len(order) : order[k] \in State BY <1>3, LenProperties
<1>5. i \in Nat /\ i >= Len(order)
  <2>1. i \in Nat BY <1>2
  <2>2. ~ (i >= Len(order)) => i + 1 \in 1..Len(order) BY <1>4, <2>1
  <2>3. ~ (i >= Len(order)) => StateByIndex(i) = order[i + 1]
    <3>1. ~ (i >= Len(order)) => StateByIndex(i) = column(order[i + 1]) BY DEF StateByIndex
    <3> HIDE DEF i, order
    <3>2. QED BY <1>4, <2>2, <3>1, ColumnFits
  <2> HIDE DEF i, order
  <2>4. StateByIndex(i) = NULL BY DEF i
  <2>5. QED BY <1>4, <2>1, <2>2, <2>3, <2>4, ValuesAreIntegers
<1>6. ASSUME NEW x \in Expected \cap Stored(disk) PROVE x \in StatesRead
  <2>1. PICK k \in 1..Len(order) : order[k] = x
    <3> HIDE DEF order
    <3>1. QED BY <1>3, <1>6, InToSet
  <2>2. CASE session.place = "first" BY <1>4, <1>5, <2>1, <2>2
  <2>3. CASE session.place = "next"
    <3>1. Passed(session.index + 1, StatesRead) BY <1>1, <2>3 DEF WholeProgress
    <3>2. k <= session.index + 1 BY <1>2, <1>4, <1>5, <2>3
    <3>3. QED BY <1>6, <2>1, <3>1, <3>2 DEF Passed
  <2>4. QED BY <2>2, <2>3
<1>7. QED BY <1>6

\* A load that does not warn: the numbers of what it loaded are those it read.
LEMMA UnwarnedIsExact ==
  ASSUME DumpInv, SessionInv, session.place \in {"first", "next"}, Whole,
         StateByIndex(IF session.place = "first" THEN 0 ELSE session.index + 1) = NULL,
         ~ Differs(session), ~ disturbed \/ ~ (session.missed \/ SelectFails \/ session.midway)
  PROVE  IF session.info = NULL THEN session.pages = <<>> ELSE Loaded(session.pages) = session.info
<1> DEFINE pages == session.pages
           info == session.info
           loaded == Loaded(pages)
<1>1. /\ ~ AtRest /\ session \in Sessions /\ pages \in Seq(Page)
      /\ engine = "Agent" => ~ disturbed
  BY DEF AtRest, SessionInv, SessionTypes, Sessions
<1>2. /\ began \subseteq Stored(disk) /\ (~ disturbed => began = Stored(disk))
      /\ \A i \in DOMAIN pages :
           pages[i].st \in Stored(disk) /\ pages[i].row \subseteq disk.rows[pages[i].st]
      /\ InfoProgress
  BY <1>1 DEF SessionInv, SessionProgress
<1>3. /\ WellFormed(loaded) /\ loaded # NULL /\ PagesRead(pages) \subseteq loaded.states
      /\ \A m : Within(disk, m) => loaded.states \subseteq m.states /\ loaded.links \subseteq m.links
  BY <1>1, <1>2, LoadedIsStored
<1>4. Numbers(info) = Numbers(loaded) BY DEF Differs
<1> HIDE DEF loaded
<1>5. CASE info = NULL
  <2>1. Cardinality(loaded.states) = 0 BY <1>3, <1>4, <1>5 DEF Numbers
  <2>2. IsFiniteSet(loaded.states) BY <1>3, ValuesAreIntegers, FS_Subset DEF WellFormed, Memory
  <2>3. loaded.states = {} BY <2>1, <2>2, FS_EmptySet
  <2>4. PagesRead(pages) = {} BY <1>3, <2>3
  <2>5. pages = <<>>
    <3>1. Len(pages) \in Nat /\ DOMAIN pages = 1..Len(pages) BY <1>1, LenProperties
    <3>2. Len(pages) # 0 => pages[1].st \in PagesRead(pages) BY <3>1 DEF PagesRead
    <3>3. QED BY <1>1, <2>4, <3>1, <3>2, EmptySeq
  <2>6. QED BY <1>5, <2>5
<1>6. CASE info # NULL
  <2>1. /\ WellFormed(info)
        /\ ~ disturbed => info = IF engine = "Agent" THEN Graph(disk.rows) ELSE disk.info
        /\ engine # "Agent" /\ ~ session.midway =>
             \/ engine = "Mysql" /\ dumper = "dead" /\ info = disk.info
             \/ Holds(disk, info) /\ PagesHold(info)
    BY <1>2, <1>6 DEF InfoProgress
  <2>2. Within(disk, info) => loaded = info
    BY <1>3, <1>4, <1>6, <2>1, SameNumbers
  <2>3. engine # "Agent" /\ info = disk.info => Within(disk, info)
    BY <1>6 DEF DumpInv, SoundTable
  <2>4. engine = "Agent" => info = Graph(disk.rows) BY <1>1, <2>1
  <2>5. Within(disk, Graph(disk.rows))
    <3>1. disk \in Table BY DEF DumpInv, SoundTable
    <3>2. QED BY <3>1, GraphOfRows DEF Within
  <2>6. engine # "Agent" /\ disturbed /\ Holds(disk, info) /\ PagesHold(info) => loaded = info
    <3>1. SUFFICES ASSUME engine # "Agent", disturbed, Holds(disk, info), PagesHold(info)
                   PROVE  loaded = info
      OBVIOUS
    <3>2. Expected \cap Stored(disk) \subseteq StatesRead BY <3>1, AllPassed
    <3>3. info.states \subseteq Stored(disk) BY <3>1 DEF Holds
    <3>4. info.states \subseteq Expected BY <1>6 DEF Expected
    <3>5. StatesRead = PagesRead(pages) BY DEF StatesRead, PagesRead
    <3>6. info.states \subseteq PagesRead(pages) BY <3>2, <3>3, <3>4, <3>5
    <3>7. \A i \in DOMAIN pages : \A l \in info.links :
            l[1] = pages[i].st => <<l[2], l[3]>> \in pages[i].row
      BY <3>1 DEF PagesHold
    <3>8. info.states \subseteq loaded.states /\ info.links \subseteq loaded.links
      <4> HIDE DEF info, pages
      <4>1. QED BY <1>1, <2>1, <3>6, <3>7, LoadedHolds DEF loaded
    <3>9. QED BY <1>3, <1>4, <1>6, <2>1, <3>8, SameNumbers
  <2>7. loaded = info
    <3>1. CASE ~ disturbed BY <2>1, <2>2, <2>3, <2>4, <2>5, <3>1
    <3>2. CASE disturbed BY <1>1, <2>1, <2>2, <2>3, <2>6, <3>2
    <3>3. QED BY <3>1, <3>2
  <2>8. QED BY <1>6, <2>7 DEF loaded
<1>7. QED BY <1>5, <1>6

\* A session stays one wherever the index goes.
LEMMA SessionAtRow ==
  ASSUME NEW s \in Sessions, NEW i \in Nat, NEW st \in State \cup {NULL}, NEW w \in BOOLEAN
  PROVE  [s EXCEPT !.index = i, !.st = st, !.warned = w] \in Sessions
BY DEF Sessions

\* The same for one that goes on with a row.
LEMMA SessionInARow ==
  ASSUME NEW s \in Sessions, NEW i \in Nat, NEW st \in State
  PROVE  [s EXCEPT !.index = i, !.st = st, !.place = "row"] \in Sessions
BY DEF Sessions

\* What is known of the memory information stays known while the tables do not
\* change and no row is read.
LEMMA InfoStays ==
  ASSUME InfoProgress, UNCHANGED <<engine, disk, dumper, disturbed>>,
         session'.info = session.info, session'.pages = session.pages,
         session'.midway = session.midway
  PROVE  InfoProgress'
<1>1. /\ (WellFormed(session.info)' <=> WellFormed(session.info))
      /\ Graph(disk.rows)' = Graph(disk.rows)
      /\ (Holds(disk, session.info)' <=> Holds(disk, session.info))
  BY DEF WellFormed, Graph, Holds, Stored
<1>2. PagesHold(session.info)' <=> PagesHold(session.info) BY DEF PagesHold
<1>3. QED BY <1>1, <1>2 DEF InfoProgress

\* The loop goes on with the next row.
LEMMA WalkGoesOn ==
  ASSUME DumpInv, SessionInv, ReaderFrame, session.place \in {"first", "next"}, Whole,
         NEW i \in Nat, i = IF session.place = "first" THEN 0 ELSE session.index + 1,
         StateByIndex(i) # NULL,
         GoesOn([session EXCEPT !.index = i, !.st = StateByIndex(i), !.place = "row"])
  PROVE  SessionInv' /\ Results'
<1> DEFINE st == StateByIndex(i)
           s == [session EXCEPT !.index = i, !.st = st, !.place = "row"]
           order == disk.order
           pages == session.pages
<1>1. /\ UNCHANGED <<engine, list, links, last, figures, tables, disk, dumper, left, locked, began, disturbed>>
      /\ Stored(disk)' = Stored(disk)
  BY FrameIs
<1>2. session \in Sessions /\ ~ AtRest /\ WholeProgress
  BY DEF SessionInv, SessionTypes, SessionProgress, AtRest
<1>3. order \in Seq(State) /\ ToSet(order) = Stored(disk)
  BY DEF DumpInv, SoundTable, Table, Ordered
<1>4. Len(order) \in Nat /\ \A k \in 1..Len(order) : order[k] \in State /\ order[k] \in Stored(disk)
  <2> HIDE DEF order
  <2>1. QED BY <1>3, LenProperties, InToSet
<1>5. st = order[i + 1] /\ ~ (i >= Len(order))
  <2>1. st = column(order[i + 1]) /\ ~ (i >= Len(order)) BY DEF StateByIndex
  <2> HIDE DEF st, order
  <2>2. i + 1 \in 1..Len(order) BY <1>4, <2>1
  <2>3. QED BY <1>4, <2>1, <2>2, ColumnFits
<1>6. i < Len(order) /\ i + 1 \in 1..Len(order) /\ st \in State /\ st \in Stored(disk)
  <2> HIDE DEF order, st
  <2>1. QED BY <1>4, <1>5
<1>7. s \in Sessions
  <2> HIDE DEF st
  <2>1. QED BY <1>2, <1>6, SessionInARow
<1>8. /\ Continues(s) /\ session'.place = "row" /\ session'.outcome = "none"
      /\ session'.viewer = session.viewer /\ session'.which = NULL
      /\ session'.index = i /\ session'.st = st
      /\ session'.info = session.info /\ session'.pages = pages
      /\ session'.pending = {} /\ session'.drawn = {}
      /\ session'.midway = session.midway /\ session' \in Sessions
  <2>1. Continues(s) /\ session'.place = s.place /\ session'.outcome = s.outcome
    BY <1>7, GoesOnIs
  <2>2. /\ s.viewer = session.viewer /\ s.which = session.which /\ s.info = session.info
        /\ s.index = i /\ s.st = st /\ s.place = "row" /\ s.outcome = session.outcome
        /\ s.pages = session.pages /\ s.pending = session.pending /\ s.drawn = session.drawn
        /\ s.midway = session.midway
    BY <1>2 DEF Sessions
  <2> HIDE DEF s, st
  <2>3. /\ session.which = NULL /\ session.drawn = {} /\ session.pending = {}
        /\ session.outcome = "none"
    BY <1>2 DEF Whole, WholeProgress, SessionInv, SessionProgress
  <2>4. QED BY <2>1, <2>2, <2>3 DEF Continues
<1> HIDE DEF s
<1>9. StatesRead' = StatesRead /\ Expected' = Expected BY <1>1, <1>8 DEF StatesRead, Expected
<1>10. Len(pages) = i
  <2>1. CASE session.place = "first" BY <1>2, <2>1 DEF WholeProgress
  <2>2. CASE session.place = "next" BY <1>2, <2>2 DEF WholeProgress
  <2>3. QED BY <2>1, <2>2
<1>11. Passed(i + 1, StatesRead \cup {st})
  <2>1. SUFFICES ASSUME NEW k \in 1..Len(order), k <= i + 1, order[k] \in Expected
                 PROVE  order[k] \in StatesRead \cup {st}
    BY DEF Passed
  <2>2. CASE k = i + 1 BY <1>5, <2>2
  <2>3. CASE k # i + 1 /\ session.place = "next"
    <3>1. Passed(session.index + 1, StatesRead) BY <1>2, <2>3 DEF WholeProgress
    <3>2. k <= session.index + 1 BY <1>4, <2>1, <2>3
    <3>3. QED BY <2>1, <3>1, <3>2 DEF Passed
  <2>4. CASE k # i + 1 /\ session.place = "first" BY <1>4, <2>1, <2>4
  <2>5. QED BY <2>2, <2>3, <2>4
<1> HIDE DEF st
<1>12. WholeProgress'
  <2>1. (\A k \in 1..Len(order) : k <= i + 1 /\ order[k] \in Expected => order[k] \in StatesRead \cup {st})
    BY <1>11 DEF Passed
  <2>2. Passed(session.index + 1, StatesRead \cup {session.st})'
    BY <1>1, <1>8, <1>9, <2>1 DEF Passed
  <2>3. engine # "Sqlite" \/ ~ disturbed =>
          \A k \in 1..Len(pages) : k <= Len(order) /\ pages[k].st = order[k]
    BY <1>2 DEF WholeProgress
  <2>4. QED BY <1>1, <1>5, <1>6, <1>8, <1>10, <2>2, <2>3 DEF WholeProgress
<1>13. SessionProgress'
  <2>1. InfoProgress'
    <3>1. InfoProgress BY <1>2 DEF SessionInv, SessionProgress
    <3>2. QED BY <1>1, <1>8, <3>1, InfoStays
  <2>2. QED BY <1>1, <1>2, <1>8, <1>12, <2>1 DEF SessionInv, SessionProgress, Whole, AtRest
<1>14. SessionInv' BY <1>1, <1>8, <1>13 DEF SessionInv, SessionTypes
<1>15. Results' BY <1>8, NoResult
<1>16. QED BY <1>14, <1>15

\* The loop is over: what was asked for is shown.
LEMMA WalkEnds ==
  ASSUME DumpInv, SessionInv, ReaderFrame, session.place \in {"first", "next"}, Whole,
         NEW i \in Nat, i = IF session.place = "first" THEN 0 ELSE session.index + 1,
         StateByIndex(i) = NULL,
         Ends([session EXCEPT !.index = i, !.st = StateByIndex(i),
                              !.warned = session.viewer = "load" /\ Differs(session)], "shown")
  PROVE  SessionInv' /\ Results'
<1> DEFINE warned == session.viewer = "load" /\ Differs(session)
           s == [session EXCEPT !.index = i, !.st = StateByIndex(i), !.warned = warned]
           pages == session.pages
<1>1. /\ UNCHANGED <<engine, list, links, last, figures, tables, disk, dumper, left, locked, began, disturbed>>
      /\ Stored(disk)' = Stored(disk)
  BY FrameIs
<1>2. session \in Sessions /\ ~ AtRest /\ WholeProgress
  BY DEF SessionInv, SessionTypes, SessionProgress, AtRest
<1>3. /\ began \subseteq Stored(disk) /\ (~ disturbed => began = Stored(disk))
      /\ \A k \in DOMAIN pages :
           /\ pages[k].st \in Stored(disk)
           /\ engine # "Mysql" => \A l \in pages[k].row : l[2] \in Stored(disk)
  BY <1>2 DEF SessionInv, SessionProgress
<1>4. s \in Sessions
  <2>1. warned \in BOOLEAN OBVIOUS
  <2>2. StateByIndex(i) \in State \cup {NULL} OBVIOUS
  <2> HIDE DEF warned
  <2>3. QED BY <1>2, <2>1, <2>2, SessionAtRow
<1>5. /\ Continues(s) /\ session'.place = "rest" /\ session'.outcome = "shown"
      /\ session'.viewer = session.viewer /\ session'.which = NULL
      /\ session'.info = session.info /\ session'.pages = pages /\ session'.drawn = {}
      /\ session'.midway = session.midway /\ session' \in Sessions
      /\ (session'.warned <=> warned) /\ (session'.missed <=> session.missed \/ SelectFails)
  <2>1. Continues(s) /\ session'.place = "rest" /\ session'.outcome = "shown"
    BY <1>4, EndsIs
  <2>2. /\ s.viewer = session.viewer /\ s.which = session.which /\ s.info = session.info
        /\ s.pages = session.pages /\ s.drawn = session.drawn /\ s.midway = session.midway
        /\ s.missed = session.missed /\ s.warned = warned
    BY <1>2 DEF Sessions
  <2> HIDE DEF s, warned
  <2>3. session.which = NULL /\ session.drawn = {} BY <1>2 DEF Whole, WholeProgress
  <2>4. QED BY <2>1, <2>2, <2>3 DEF Continues
<1> HIDE DEF s, warned
<1>6. SessionInv'
  BY <1>1, <1>5 DEF SessionInv, SessionTypes, SessionProgress, AtRest
<1>7. ~ SelectFails => Expected \cap Stored(disk) \subseteq StatesRead
  BY AllPassed
<1>8. StatesRead = PagesRead(pages) /\ StatesRead' = PagesRead(pages)
  BY <1>5 DEF StatesRead, PagesRead
<1>9. ~ SelectFails => began \subseteq StatesRead BY <1>3, <1>7 DEF Expected
<1>10. WalkComplete'
  <2>1. engine # "Sqlite" \/ ~ disturbed => Cardinality(PagesRead(pages)) = Len(pages)
    <3>1. SUFFICES ASSUME engine # "Sqlite" \/ ~ disturbed
                   PROVE  Cardinality(PagesRead(pages)) = Len(pages)
      OBVIOUS
    <3>2. \A k \in 1..Len(pages) : k <= Len(disk.order) /\ pages[k].st = disk.order[k]
      BY <1>2, <3>1 DEF WholeProgress
    <3>3. \A j, k \in 1..Len(disk.order) : disk.order[j] = disk.order[k] => j = k
      BY DEF DumpInv, SoundTable, Ordered
    <3>4. Len(disk.order) \in Nat BY LenProperties DEF DumpInv, SoundTable, Table
    <3>5. \A k \in 1..Len(pages) : k \in 1..Len(disk.order) /\ pages[k].st = disk.order[k]
      BY <3>2, <3>4
    <3>6. pages \in Seq(Page) BY <1>2 DEF Sessions
    <3> HIDE DEF pages
    <3>7. QED BY <3>3, <3>5, <3>6, NoStateTwice
  <2>2. (began \subseteq StatesRead)' \/ session'.missed BY <1>1, <1>5, <1>8, <1>9
  <2>3. (Cardinality(StatesRead) = Len(session.pages) \/ (engine = "Sqlite" /\ disturbed))'
    BY <1>1, <1>5, <1>8, <2>1
  <2>4. QED BY <2>2, <2>3 DEF WalkComplete
<1>11. DrawingSound'
  <2>1. Cardinality({n \in Nodes(session') : n[1] = "st"}) =
          Cardinality(PagesRead(session'.pages) \cup session'.drawn)
    BY <1>5, NodesOfStates
  <2>2. engine # "Mysql" /\ ~ disturbed /\ ~ session'.missed =>
          \A arrow \in Arrows(session') : {arrow[1], arrow[2]} \subseteq Nodes(session')
    <3>1. SUFFICES ASSUME engine # "Mysql", ~ disturbed, ~ session'.missed
                   PROVE  \A arrow \in Arrows(session') : {arrow[1], arrow[2]} \subseteq Nodes(session')
      OBVIOUS
    <3>2. Stored(disk) \subseteq PagesRead(pages) BY <1>3, <1>5, <1>8, <1>9, <3>1
    <3>3. \A k \in DOMAIN session'.pages : \A l \in session'.pages[k].row :
            l[2] \in PagesRead(session'.pages) \cup session'.drawn
      BY <1>3, <1>5, <3>1, <3>2
    <3>4. QED BY <1>5, <3>3, ArrowsEndAtNodes
  <2>3. session'.which = NULL BY <1>5
  <2>4. Nodes(session)' = Nodes(session') /\ Arrows(session)' = Arrows(session')
    BY DEF Nodes, Arrows, Drawings
  <2>5. QED BY <1>1, <1>5, <1>8, <2>1, <2>2, <2>3, <2>4 DEF DrawingSound, Whole
<1>12. UnwarnedGraphExact'
  <2>0. Loaded(session.pages)' = Loaded(session'.pages) OBVIOUS
  <2>1. SUFFICES ASSUME session.viewer = "load", ~ session'.warned,
                        ~ disturbed \/ ~ (session'.missed \/ session'.midway)
                 PROVE  IF session'.info = NULL THEN session'.pages = <<>>
                        ELSE Loaded(session'.pages) = session'.info
    BY <1>1, <1>5, <2>0 DEF UnwarnedGraphExact
  <2>2. ~ Differs(session) BY <1>5, <2>1 DEF warned
  <2>3. ~ disturbed \/ ~ (session.missed \/ SelectFails \/ session.midway) BY <1>5, <2>1
  <2>4. IF session.info = NULL THEN session.pages = <<>> ELSE Loaded(session.pages) = session.info
    BY <2>2, <2>3, UnwarnedIsExact
  <2>5. QED BY <1>5, <2>4
<1>13. ReaderSurvives' BY <1>5 DEF ReaderSurvives
<1>14. QED BY <1>6, <1>10, <1>11, <1>12, <1>13 DEF Results

\* The loop over the rows, from the first state on.
LEMMA WalkKeeps ==
  ASSUME DumpInv, SessionInv, FirstState \/ NextState PROVE SessionInv' /\ Results'
<1> DEFINE i == IF session.place = "first" THEN 0 ELSE session.index + 1
<1>1. session.place \in {"first", "next"} /\ ReaderFrame /\ At(session, i)
  <2>1. CASE FirstState BY <2>1 DEF FirstState, Reads, ReaderFrame
  <2>2. CASE NextState BY <2>2 DEF NextState, Reads, ReaderFrame
  <2>3. QED BY <2>1, <2>2
<1>2. Whole BY <1>1 DEF SessionInv, SessionProgress, AtRest, OneProgress
<1>3. i \in Nat BY DEF SessionInv, SessionTypes, Sessions
<1>4. CASE StateByIndex(i) # NULL
  <2>1. GoesOn([session EXCEPT !.index = i, !.st = StateByIndex(i), !.place = "row"])
    BY <1>1, <1>4 DEF At
  <2>2. QED BY <1>1, <1>2, <1>3, <1>4, <2>1, WalkGoesOn
<1>5. CASE StateByIndex(i) = NULL
  <2>1. Ends([session EXCEPT !.index = i, !.st = StateByIndex(i),
                             !.warned = session.viewer = "load" /\ Differs(session)], "shown")
    BY <1>1, <1>5 DEF At
  <2>2. QED BY <1>1, <1>2, <1>3, <1>5, <2>1, WalkEnds
<1>6. QED BY <1>4, <1>5

\* A row is missing, or could not be read.
LEMMA NoStateKeeps ==
  ASSUME DumpInv, SessionInv, NoState PROVE SessionInv' /\ Results'
<1>1. /\ session.place = "row" /\ ReaderFrame /\ RowRead(session.st) = NULL
      /\ session \in Sessions /\ ~ AtRest
  BY DEF NoState, Reads, ReaderFrame, SessionInv, SessionTypes, AtRest
<1>2. CASE ~ Whole
  <2>1. Ends(session, "not_found") BY <1>2 DEF NoState, Whole
  <2>2. Continues(session) /\ session'.place = "rest" /\ session'.outcome = "not_found"
    BY <1>1, <2>1, EndsIs
  <2>3. SessionInv'
    BY <1>1, <2>2, FrameIs DEF SessionInv, SessionTypes, SessionProgress, AtRest, Continues
  <2>4. QED BY <2>2, <2>3, NoResult
<1>3. CASE Whole
  <2>1. Exits BY <1>3 DEF NoState, Whole
  <2>2. Continues(session) /\ session'.place = "exited" /\ session'.outcome = "exited"
    BY <1>1, <2>1, ExitsIs
  <2>3. SessionInv'
    BY <1>1, <2>2, FrameIs DEF SessionInv, SessionTypes, SessionProgress, AtRest, Continues
  <2>4. session.st \in Stored(disk)
    BY <1>1, <1>3 DEF SessionInv, SessionProgress, WholeProgress
  <2>5. SelectFails BY <1>1, <2>4 DEF RowRead, Stored
  <2>6. Results'
    BY <2>2, <2>5 DEF Results, WalkComplete, DrawingSound, UnwarnedGraphExact, ReaderSurvives,
                      Shown, Continues
  <2>7. QED BY <2>3, <2>6
<1>4. QED BY <1>2, <1>3

--------------------------------------------------------------------------------
(* The rows of a session are read.                                            *)

\* The drawing of one state is sound when every following state has its node.
LEMMA OneIsShown ==
  ASSUME session' \in Sessions, session'.outcome = "shown", session'.which # NULL,
         session'.viewer # "load",
         Draws(session') =>
           \A k \in DOMAIN session'.pages : \A l \in session'.pages[k].row :
             l[2] \in PagesRead(session'.pages) \cup session'.drawn
  PROVE  Results'
<1>1. WalkComplete' /\ UnwarnedGraphExact' /\ ReaderSurvives'
  BY DEF WalkComplete, UnwarnedGraphExact, ReaderSurvives, Whole, Shown
<1>2. Cardinality({n \in Nodes(session') : n[1] = "st"}) =
        Cardinality(PagesRead(session'.pages) \cup session'.drawn)
  BY NodesOfStates
<1>3. Draws(session') =>
        \A arrow \in Arrows(session') : {arrow[1], arrow[2]} \subseteq Nodes(session')
  BY ArrowsEndAtNodes
<1>4. /\ Nodes(session)' = Nodes(session') /\ Arrows(session)' = Arrows(session')
      /\ StatesRead' = PagesRead(session'.pages) /\ (Draws(session)' <=> Draws(session'))
  BY DEF Nodes, Arrows, Drawings, StatesRead, PagesRead, Draws
<1>5. DrawingSound' BY <1>2, <1>3, <1>4 DEF DrawingSound
<1>6. QED BY <1>1, <1>5 DEF Results

\* The rows read, and one more.
LEMMA OneMorePage ==
  ASSUME NEW pages \in Seq(Page), NEW p \in Page
  PROVE  /\ Append(pages, p) \in Seq(Page) /\ Len(Append(pages, p)) = Len(pages) + 1
         /\ Append(pages, p)[Len(pages) + 1] = p
         /\ \A i \in 1..Len(pages) : Append(pages, p)[i] = pages[i]
         /\ \A i \in DOMAIN Append(pages, p) :
              Append(pages, p)[i] = p \/ (i \in DOMAIN pages /\ Append(pages, p)[i] = pages[i])
         /\ PagesRead(Append(pages, p)) = PagesRead(pages) \cup {p.st}
<1> DEFINE q == Append(pages, p)
           n == Len(pages)
<1>1. /\ q \in Seq(Page) /\ Len(q) = n + 1 /\ q[n + 1] = p
      /\ \A i \in 1..n : q[i] = pages[i]
  BY AppendProperties
<1>2. n \in Nat /\ DOMAIN pages = 1..n BY LenProperties
<1> HIDE DEF q, n
<1>3. DOMAIN q = 1..n + 1 BY <1>1, LenProperties
<1>4. \A i \in DOMAIN q : q[i] = p \/ (i \in DOMAIN pages /\ q[i] = pages[i])
  BY <1>1, <1>2, <1>3
<1>5. PagesRead(q) = PagesRead(pages) \cup {p.st}
  <2>1. \A i \in DOMAIN pages : i \in DOMAIN q /\ q[i] = pages[i] BY <1>1, <1>2, <1>3
  <2>2. n + 1 \in DOMAIN q BY <1>2, <1>3
  <2>3. QED BY <1>1, <1>4, <2>1, <2>2 DEF PagesRead
<1>6. QED BY <1>1, <1>4, <1>5 DEF q, n

\* The row that is read next, and the rows read with it.
PageRead ==
  [st |-> column(session.st), row |-> RowRead(session.st), figure |-> disk.figures[session.st]]
PagesThen == Append(session.pages, PageRead)

\* What a row that is read adds to the rows read before.
LEMMA RowIsRead ==
  ASSUME DumpInv, SessionInv, session.place = "row", RowRead(session.st) # NULL
  PROVE  /\ ~ SelectFails /\ PageRead \in Page
         /\ PagesThen \in Seq(Page) /\ Len(PagesThen) = Len(session.pages) + 1
         /\ PagesThen[Len(session.pages) + 1] = PageRead
         /\ PageRead.st = session.st /\ PageRead.row = disk.rows[session.st]
         /\ \A i \in 1..Len(session.pages) : PagesThen[i] = session.pages[i]
         /\ PagesRead(PagesThen) = StatesRead \cup {session.st}
         /\ \A i \in DOMAIN PagesThen :
              /\ PagesThen[i].st \in Stored(disk)
              /\ PagesThen[i].row \subseteq disk.rows[PagesThen[i].st]
              /\ engine # "Mysql" => \A l \in PagesThen[i].row : l[2] \in Stored(disk)
         /\ \A m : WellFormed(m) /\ Holds(disk, m) /\ PagesHold(m) =>
              \A i \in DOMAIN PagesThen : \A l \in m.links :
                l[1] = PagesThen[i].st => <<l[2], l[3]>> \in PagesThen[i].row
<1> DEFINE page == PageRead
           pages == PagesThen
           st == session.st
           row == disk.rows[session.st]
<1>1. ~ SelectFails /\ RowRead(st) = row BY DEF RowRead
<1>15. column(st) = st
  <2>1. st \in State BY DEF RowRead
  <2>2. QED BY <2>1, ColumnFits
<1>2. session \in Sessions /\ ~ AtRest BY DEF SessionInv, SessionTypes, AtRest
<1>3. st \in State
  <2>1. CASE Whole BY <1>2, <2>1 DEF SessionInv, SessionProgress, WholeProgress, Stored
  <2>2. CASE ~ Whole BY <1>2, <2>2 DEF SessionInv, SessionProgress, OneProgress, Whole, Sessions
  <2>3. QED BY <2>1, <2>2
<1>4. st \in Stored(disk) /\ row \in Row
  <2>1. disk \in Table BY DEF DumpInv, SoundTable
  <2>2. st \in Stored(disk) BY <1>1, <1>3 DEF Stored
  <2>3. QED BY <2>1, <2>2, StoredIn
<1>5. page.st = st /\ page.row = row BY <1>1, <1>15 DEF PageRead
<1>6. page \in Page
  <2>1. PageRead = [st |-> st, row |-> row, figure |-> disk.figures[st]]
    BY <1>1, <1>15 DEF PageRead
  <2>2. disk.figures[st] \in Nat BY <1>3 DEF DumpInv, SoundTable, Table
  <2>3. QED BY <1>3, <1>4, <2>1, <2>2 DEF Page
<1>7. session.pages \in Seq(Page) BY <1>2 DEF Sessions
<1>8. \A i \in DOMAIN session.pages :
        /\ session.pages[i].st \in Stored(disk)
        /\ session.pages[i].row \subseteq disk.rows[session.pages[i].st]
        /\ engine # "Mysql" => \A l \in session.pages[i].row : l[2] \in Stored(disk)
  BY <1>2 DEF SessionInv, SessionProgress
<1>9. engine # "Mysql" => \A l \in row : l[2] \in Stored(disk)
  BY <1>4, FollowersHaveRows DEF FollowersStored
<1>10. StatesRead = PagesRead(session.pages) BY DEF StatesRead, PagesRead
<1>11. /\ pages \in Seq(Page) /\ Len(pages) = Len(session.pages) + 1
       /\ pages[Len(session.pages) + 1] = page
       /\ \A i \in 1..Len(session.pages) : pages[i] = session.pages[i]
       /\ \A i \in DOMAIN pages :
            pages[i] = page \/ (i \in DOMAIN session.pages /\ pages[i] = session.pages[i])
       /\ PagesRead(pages) = PagesRead(session.pages) \cup {page.st}
  BY <1>6, <1>7, OneMorePage DEF PagesThen
<1> HIDE DEF st, row, page, pages
<1>12. ASSUME NEW m, WellFormed(m), Holds(disk, m), PagesHold(m),
              NEW i \in DOMAIN pages, NEW l \in m.links, l[1] = pages[i].st
       PROVE  <<l[2], l[3]>> \in pages[i].row
  <2>1. CASE pages[i] = page
    <3>1. <<l[2], l[3]>> \in disk.rows[l[1]] BY <1>12 DEF Holds
    <3>2. QED BY <1>5, <1>12, <2>1, <3>1 DEF row, st
  <2>2. CASE pages[i] # page BY <1>11, <1>12, <2>2 DEF PagesHold
  <2>3. QED BY <2>1, <2>2
<1>13. \A i \in DOMAIN pages :
         /\ pages[i].st \in Stored(disk)
         /\ pages[i].row \subseteq disk.rows[pages[i].st]
         /\ engine # "Mysql" => \A l \in pages[i].row : l[2] \in Stored(disk)
  BY <1>4, <1>5, <1>8, <1>9, <1>11 DEF row, st
<1>14. QED BY <1>1, <1>5, <1>6, <1>10, <1>11, <1>12, <1>13 DEF st, row, page, pages

\* What is known of the memory information when a row has been read.
LEMMA InfoStaysTrue ==
  ASSUME DumpInv, SessionInv, session.place = "row", RowRead(session.st) # NULL,
         UNCHANGED <<engine, disk, dumper, disturbed>>,
         session'.info = session.info, session'.midway = session.midway,
         session'.pages = PagesThen
  PROVE  InfoProgress'
<1> DEFINE info == session.info
<1>1. InfoProgress BY DEF SessionInv, SessionProgress, AtRest
<1>2. /\ (WellFormed(session.info)' <=> WellFormed(info))
      /\ Graph(disk.rows)' = Graph(disk.rows)
      /\ (Holds(disk, session.info)' <=> Holds(disk, info))
  BY DEF WellFormed, Graph, Holds, Stored
<1>3. WellFormed(info) /\ Holds(disk, info) /\ PagesHold(info) =>
        \A i \in DOMAIN session'.pages : \A l \in info.links :
          l[1] = session'.pages[i].st => <<l[2], l[3]>> \in session'.pages[i].row
  BY RowIsRead
<1>4. WellFormed(info) /\ Holds(disk, info) /\ PagesHold(info) => PagesHold(session.info)'
  BY <1>3 DEF PagesHold
<1>5. QED BY <1>1, <1>2, <1>4 DEF InfoProgress

\* And for one that has read a row.
LEMMA SessionThatRead ==
  ASSUME NEW s \in Sessions, NEW pages \in Seq(Page)
  PROVE  /\ [[s EXCEPT !.pages = pages] EXCEPT !.place = "next"] \in Sessions
         /\ [s EXCEPT !.pages = pages] \in Sessions
BY DEF Sessions

\* And for one that has following states to read.
LEMMA SessionWithFollowers ==
  ASSUME NEW s \in Sessions, NEW others \in SUBSET State, NEW mid \in BOOLEAN
  PROVE  [s EXCEPT !.place = "follower", !.pending = others, !.midway = mid] \in Sessions
BY DEF Sessions

\* A row of the walk of a whole memory has been read.
LEMMA ReadOfWholeKeeps ==
  ASSUME DumpInv, SessionInv, ReadState, Whole PROVE SessionInv' /\ Results'
<1> DEFINE page == PageRead
           pages == PagesThen
           read == [session EXCEPT !.pages = pages]
           s == [read EXCEPT !.place = "next"]
           order == disk.order
<1>1. /\ session.place = "row" /\ ReaderFrame /\ RowRead(session.st) # NULL
      /\ session \in Sessions /\ ~ AtRest
  BY DEF ReadState, Reads, ReaderFrame, SessionInv, SessionTypes, AtRest
<1>2. /\ UNCHANGED <<engine, list, links, last, figures, tables, disk, dumper, left, locked, began, disturbed>>
      /\ Stored(disk)' = Stored(disk)
  BY <1>1, FrameIs
<1>3. GoesOn(s) BY DEF ReadState, Whole, PagesThen, PageRead
<1> HIDE DEF page
<1>4. /\ pages \in Seq(Page) /\ Len(pages) = Len(session.pages) + 1
      /\ pages[Len(session.pages) + 1] = page /\ page.st = session.st
      /\ \A i \in 1..Len(session.pages) : pages[i] = session.pages[i]
      /\ PagesRead(pages) = StatesRead \cup {session.st}
      /\ \A i \in DOMAIN pages :
           /\ pages[i].st \in Stored(disk)
           /\ pages[i].row \subseteq disk.rows[pages[i].st]
           /\ engine # "Mysql" => \A l \in pages[i].row : l[2] \in Stored(disk)
  BY <1>1, RowIsRead DEF page
<1> HIDE DEF pages
<1>5. s \in Sessions BY <1>1, <1>4, SessionThatRead
<1>6. WholeProgress BY <1>1 DEF SessionInv, SessionProgress
<1>7. /\ Continues(s) /\ session'.place = "next" /\ session'.outcome = "none"
      /\ session'.viewer = session.viewer /\ session'.which = NULL
      /\ session'.index = session.index
      /\ session'.info = session.info /\ session'.pages = pages
      /\ session'.pending = {} /\ session'.drawn = {}
      /\ session'.midway = session.midway /\ session' \in Sessions
  <2>1. Continues(s) /\ session'.place = s.place /\ session'.outcome = s.outcome
    BY <1>3, <1>5, GoesOnIs
  <2>2. /\ s.viewer = session.viewer /\ s.which = session.which /\ s.info = session.info
        /\ s.index = session.index /\ s.place = "next" /\ s.outcome = session.outcome
        /\ s.pages = pages /\ s.pending = session.pending /\ s.drawn = session.drawn
        /\ s.midway = session.midway
    <3>1. /\ read \in Sessions
          /\ read.viewer = session.viewer /\ read.which = session.which /\ read.info = session.info
          /\ read.index = session.index /\ read.outcome = session.outcome
          /\ read.pages = pages /\ read.pending = session.pending /\ read.drawn = session.drawn
          /\ read.midway = session.midway
      BY <1>1, <1>4, SessionThatRead DEF Sessions
    <3> HIDE DEF read
    <3>2. QED BY <3>1 DEF Sessions
  <2> HIDE DEF s
  <2>3. /\ session.which = NULL /\ session.drawn = {} /\ session.pending = {}
        /\ session.outcome = "none"
    BY <1>1, <1>6 DEF Whole, WholeProgress, SessionInv, SessionProgress
  <2>4. QED BY <2>1, <2>2, <2>3 DEF Continues
<1> HIDE DEF s, read
<1>8. StatesRead' = StatesRead \cup {session.st} /\ Expected' = Expected
  BY <1>2, <1>4, <1>7 DEF StatesRead, PagesRead, Expected
<1>9. /\ Len(session.pages) = session.index /\ session.index < Len(order)
      /\ Passed(session.index + 1, StatesRead \cup {session.st})
      /\ engine # "Sqlite" \/ ~ disturbed => session.st = order[session.index + 1]
      /\ engine # "Sqlite" \/ ~ disturbed =>
           \A i \in 1..Len(session.pages) : i <= Len(order) /\ session.pages[i].st = order[i]
      /\ Len(order) \in Nat /\ session.index \in Nat
  <2>1. Len(order) \in Nat BY LenProperties DEF DumpInv, SoundTable, Table
  <2>2. session.index \in Nat BY <1>1 DEF Sessions
  <2>3. QED BY <1>1, <1>6, <2>1, <2>2 DEF WholeProgress
<1>10. WholeProgress'
  <2>1. Passed(session.index + 1, StatesRead)' BY <1>2, <1>7, <1>8, <1>9 DEF Passed
  <2>2. engine # "Sqlite" \/ ~ disturbed =>
          \A i \in 1..Len(pages) : i <= Len(order) /\ pages[i].st = order[i]
    <3>1. page.st = session.st BY <1>4
    <3>2. SUFFICES ASSUME engine # "Sqlite" \/ ~ disturbed, NEW i \in 1..Len(pages)
                   PROVE  i <= Len(order) /\ pages[i].st = order[i]
      OBVIOUS
    <3>3. CASE i = session.index + 1 BY <1>4, <1>9, <3>1, <3>2, <3>3
    <3>4. CASE i # session.index + 1
      <4>1. i \in 1..Len(session.pages) BY <1>4, <1>9, <3>2, <3>4
      <4>2. pages[i] = session.pages[i] BY <1>4, <4>1
      <4>3. i <= Len(order) /\ session.pages[i].st = order[i] BY <1>9, <3>2, <4>1
      <4>4. QED BY <4>2, <4>3
    <3>5. QED BY <3>3, <3>4
  <2>3. QED BY <1>2, <1>4, <1>7, <1>9, <2>1, <2>2 DEF WholeProgress
<1>11. InfoProgress' BY <1>1, <1>2, <1>7, InfoStaysTrue DEF pages
<1>12. SessionProgress'
  BY <1>1, <1>2, <1>4, <1>7, <1>10, <1>11 DEF SessionInv, SessionProgress, Whole
<1>13. SessionInv' BY <1>2, <1>7, <1>12 DEF SessionInv, SessionTypes
<1>14. Results' BY <1>7, NoResult
<1>15. QED BY <1>13, <1>14

\* The row of the one state asked for has been read.
LEMMA ReadOfOneKeeps ==
  ASSUME DumpInv, SessionInv, ReadState, ~ Whole PROVE SessionInv' /\ Results'
<1> DEFINE page == PageRead
           pages == PagesThen
           read == [session EXCEPT !.pages = pages]
           others == {l[2] : l \in RowRead(session.st)} \ {page.st}
           s == [read EXCEPT !.place = "follower", !.pending = others, !.midway = UnderWay]
<1>1. /\ session.place = "row" /\ ReaderFrame /\ RowRead(session.st) # NULL
      /\ session \in Sessions /\ ~ AtRest
  BY DEF ReadState, Reads, ReaderFrame, SessionInv, SessionTypes, AtRest
<1>2. /\ UNCHANGED <<engine, list, links, last, figures, tables, disk, dumper, left, locked, began, disturbed>>
      /\ Stored(disk)' = Stored(disk)
  BY <1>1, FrameIs
<1>3. IF Draws(session) /\ others # {} THEN GoesOn(s) ELSE Ends(read, "shown")
  BY DEF ReadState, Whole, PagesThen, PageRead
<1>4. /\ session.st = session.which /\ session.which # NULL /\ session.viewer # "load"
      /\ session.pages = <<>> /\ session.drawn = {} /\ session.outcome = "none"
      /\ session.info = NULL
  BY <1>1 DEF SessionInv, SessionProgress, OneProgress, Whole
<1>5. Len(session.pages) = 0 BY <1>4
<1>6. /\ page \in Page /\ page.st = session.which
      /\ \A l \in page.row : l[2] \in {session.which} \cup others
      /\ others \subseteq {l[2] : l \in page.row}
  <2>1. page \in Page BY <1>1, RowIsRead
  <2>2. page.st = session.which /\ page.row = RowRead(session.st)
    <3>1. page.st = session.st BY <1>1, RowIsRead
    <3>2. QED BY <1>4, <3>1 DEF PageRead
  <2>3. \A l \in page.row : l[2] \in {session.which} \cup others BY <1>4, <2>2
  <2>4. others \subseteq {l[2] : l \in page.row} BY <2>2
  <2>5. QED BY <2>1, <2>2, <2>3, <2>4
<1> HIDE DEF page, others
<1>7. /\ pages \in Seq(Page) /\ Len(pages) = 1 /\ pages[1] = page
      /\ PagesRead(pages) = StatesRead \cup {session.st}
      /\ \A i \in DOMAIN pages :
           /\ pages[i].st \in Stored(disk)
           /\ pages[i].row \subseteq disk.rows[pages[i].st]
           /\ engine # "Mysql" => \A l \in pages[i].row : l[2] \in Stored(disk)
  <2>1. /\ pages \in Seq(Page) /\ Len(pages) = Len(session.pages) + 1
        /\ pages[Len(session.pages) + 1] = page
        /\ PagesRead(pages) = StatesRead \cup {session.st}
        /\ \A i \in DOMAIN pages :
             /\ pages[i].st \in Stored(disk)
             /\ pages[i].row \subseteq disk.rows[pages[i].st]
             /\ engine # "Mysql" => \A l \in pages[i].row : l[2] \in Stored(disk)
    BY <1>1, RowIsRead DEF page
  <2> HIDE DEF pages
  <2>2. QED BY <1>5, <2>1
<1> HIDE DEF pages
<1>8. DOMAIN pages = {1} BY <1>7, LenProperties
<1>9. /\ others \in SUBSET State
      /\ engine # "Mysql" \/ dumper \in {"idle", "opened"} => others \subseteq Stored(disk)
      /\ engine = "Mysql" => UnderWay \/ dumper = "dead" \/ others \subseteq Stored(disk)
  <2>1. \A l \in page.row : l[2] \in State BY <1>6 DEF Page, Row
  <2>2. page.st \in Stored(disk) /\ page.row = disk.rows[page.st]
    <3>1. page.st = session.st /\ page.row = disk.rows[session.st] BY <1>1, RowIsRead DEF page
    <3>2. QED BY <1>7, <1>8, <3>1
  <2>3. engine # "Mysql" \/ dumper \in {"idle", "opened"} => others \subseteq Stored(disk)
    BY <1>6, <2>2, FollowersHaveRows DEF FollowersStored
  <2>4. engine = "Mysql" => UnderWay \/ dumper \in {"idle", "opened", "dead"}
    BY DEF DumpInv, DumpTypes, UnderWay
  <2>5. QED BY <1>6, <2>1, <2>3, <2>4
<1>10. CASE Draws(session) /\ others # {}
  <2>0. UnderWay \in BOOLEAN BY DEF UnderWay
  <2>1. s \in Sessions
    <3>1. read \in Sessions BY <1>1, <1>7, SessionThatRead
    <3> HIDE DEF read
    <3>2. QED BY <1>9, <2>0, <3>1, SessionWithFollowers
  <2>2. /\ session'.place = "follower" /\ session'.outcome = "none"
        /\ session'.viewer = session.viewer /\ session'.which = session.which
        /\ session'.st = session.st /\ session'.info = NULL /\ session'.pages = pages
        /\ session'.pending = others /\ session'.drawn = {}
        /\ (session'.midway <=> UnderWay) /\ session' \in Sessions
    <3>1. Continues(s) /\ session'.place = s.place /\ session'.outcome = s.outcome
      BY <1>3, <1>10, <2>1, GoesOnIs
    <3>2. /\ s.viewer = session.viewer /\ s.which = session.which /\ s.info = session.info
          /\ s.st = session.st /\ s.place = "follower" /\ s.outcome = session.outcome
          /\ s.pages = pages /\ s.pending = others /\ s.drawn = session.drawn
          /\ s.midway = UnderWay
      <4>1. /\ read \in Sessions
            /\ read.viewer = session.viewer /\ read.which = session.which /\ read.info = session.info
            /\ read.st = session.st /\ read.outcome = session.outcome
            /\ read.pages = pages /\ read.drawn = session.drawn
        BY <1>1, <1>7, SessionThatRead DEF Sessions
      <4> HIDE DEF read
      <4>2. QED BY <4>1 DEF Sessions
    <3> HIDE DEF s
    <3>3. QED BY <1>4, <3>1, <3>2 DEF Continues
  <2> HIDE DEF s
  <2>3. OneProgress'
    <3>1. session'.place = "follower" /\ session'.viewer # "load" /\ session'.st = session'.which
          /\ session'.info = NULL /\ session'.drawn \subseteq State
      BY <1>4, <2>2
    <3>2. Draws(session)' /\ Len(session'.pages) = 1 /\ session'.pages[1].st = session'.which
      BY <1>6, <1>7, <1>10, <2>2 DEF Draws
    <3>3. \A l \in session'.pages[1].row :
            l[2] \in {session'.which} \cup session'.pending \cup session'.drawn
      BY <1>6, <1>7, <2>2
    <3>4. /\ engine' = "Mysql" => session'.midway \/ dumper' = "dead" \/ session'.pending \subseteq Stored(disk)'
          /\ engine' # "Mysql" => session'.pending \subseteq Stored(disk)'
      BY <1>2, <1>9, <2>2
    <3>5. QED BY <3>1, <3>2, <3>3, <3>4 DEF OneProgress
  <2>4. InfoProgress' BY <1>2, <2>2 DEF InfoProgress, UnderWay
  <2>5. SessionProgress'
    BY <1>1, <1>2, <1>4, <1>7, <2>2, <2>3, <2>4 DEF SessionInv, SessionProgress, Whole
  <2>6. SessionInv' BY <1>2, <2>2, <2>5 DEF SessionInv, SessionTypes
  <2>7. QED BY <2>2, <2>6, NoResult
<1>11. CASE ~ (Draws(session) /\ others # {})
  <2>1. read \in Sessions BY <1>1, <1>7, SessionThatRead
  <2>2. /\ session'.place = "rest" /\ session'.outcome = "shown"
        /\ session'.viewer = session.viewer /\ session'.which = session.which
        /\ session'.pages = pages /\ session'.drawn = {} /\ session' \in Sessions
    <3>1. Continues(read) /\ session'.place = "rest" /\ session'.outcome = "shown"
      BY <1>3, <1>11, <2>1, EndsIs
    <3>2. /\ read.viewer = session.viewer /\ read.which = session.which
          /\ read.pages = pages /\ read.drawn = session.drawn
      BY <1>1 DEF Sessions
    <3> HIDE DEF read
    <3>3. QED BY <1>4, <3>1, <3>2 DEF Continues
  <2>3. SessionInv' BY <1>2, <2>2 DEF SessionInv, SessionTypes, SessionProgress, AtRest
  <2>4. Draws(session') =>
          \A k \in DOMAIN session'.pages : \A l \in session'.pages[k].row :
            l[2] \in PagesRead(session'.pages) \cup session'.drawn
    BY <1>4, <1>6, <1>7, <1>8, <1>11, <2>2 DEF Draws
  <2>5. QED BY <1>4, <2>2, <2>3, <2>4, OneIsShown
<1>12. QED BY <1>10, <1>11

\* A row has been read.
LEMMA ReadStateKeeps ==
  ASSUME DumpInv, SessionInv, ReadState PROVE SessionInv' /\ Results'
BY ReadOfWholeKeeps, ReadOfOneKeeps

\* And for one that has drawn a following state.
LEMMA SessionThatDrew ==
  ASSUME NEW s \in Sessions, NEW pending \in SUBSET State, NEW drawn \in SUBSET State
  PROVE  [s EXCEPT !.pending = pending, !.drawn = drawn] \in Sessions
BY DEF Sessions

\* A following state of the one state drawn is read and drawn.
LEMMA ReadFollowerKeeps ==
  ASSUME DumpInv, SessionInv, ReadFollower PROVE SessionInv' /\ Results'
<1>1. /\ session.place = "follower" /\ ReaderFrame /\ session \in Sessions /\ ~ AtRest
  BY DEF ReadFollower, Reads, ReaderFrame, SessionInv, SessionTypes, AtRest
<1>2. /\ UNCHANGED <<engine, list, links, last, figures, tables, disk, dumper, left, locked, began, disturbed>>
      /\ Stored(disk)' = Stored(disk)
  BY <1>1, FrameIs
<1>3. PICK f \in session.pending :
        IF RowRead(f) = NULL THEN Exits
        ELSE LET rest == [session EXCEPT !.pending = session.pending \ {f},
                                         !.drawn = session.drawn \cup {f}] IN
             IF rest.pending = {} THEN Ends(rest, "shown") ELSE GoesOn(rest)
  BY DEF ReadFollower
<1>4. ~ Whole /\ OneProgress
  BY <1>1, <1>3 DEF SessionInv, SessionProgress, WholeProgress
<1>5. /\ session.which # NULL /\ session.viewer # "load" /\ session.st = session.which
      /\ Draws(session) /\ Len(session.pages) = 1 /\ session.pages[1].st = session.which
      /\ \A l \in session.pages[1].row :
           l[2] \in {session.which} \cup session.pending \cup session.drawn
      /\ engine # "Mysql" => session.pending \subseteq Stored(disk)
      /\ engine = "Mysql" =>
           session.midway \/ dumper = "dead" \/ session.pending \subseteq Stored(disk)
      /\ session.pending \subseteq State /\ session.drawn \subseteq State
      /\ session.outcome = "none" /\ session.info = NULL
  BY <1>1, <1>4 DEF OneProgress, Whole, SessionInv, SessionProgress, Sessions
<1> DEFINE pending == session.pending \ {f}
           drawn == session.drawn \cup {f}
           rest == [session EXCEPT !.pending = pending, !.drawn = drawn]
<1>6. pending \in SUBSET State /\ drawn \in SUBSET State BY <1>5
<1>7. rest \in Sessions
  <2> HIDE DEF pending, drawn
  <2>1. QED BY <1>1, <1>6, SessionThatDrew
<1>8. /\ rest.viewer = session.viewer /\ rest.which = session.which /\ rest.info = session.info
      /\ rest.st = session.st /\ rest.place = "follower" /\ rest.outcome = "none"
      /\ rest.pages = session.pages /\ rest.pending = pending /\ rest.drawn = drawn
      /\ rest.midway = session.midway
  <2> HIDE DEF pending, drawn
  <2>1. QED BY <1>1, <1>5 DEF Sessions
<1>9. \A l \in session.pages[1].row : l[2] \in {session.which} \cup pending \cup drawn
  BY <1>5
<1>10. CASE RowRead(f) = NULL
  <2>1. Exits BY <1>3, <1>10
  <2>2. Continues(session) /\ session'.place = "exited" /\ session'.outcome = "exited"
    BY <1>1, <2>1, ExitsIs
  <2>3. SessionInv'
    BY <1>2, <2>2 DEF SessionInv, SessionTypes, SessionProgress, AtRest, Continues
  <2>4. SelectFails \/ (engine = "Mysql" /\ (session.midway \/ dumper = "dead"))
    BY <1>5, <1>10 DEF RowRead, Stored
  <2>5. ReaderSurvives'
    BY <1>2, <1>5, <2>2, <2>4 DEF ReaderSurvives, Continues, Draws, Whole
  <2>6. Results'
    BY <2>2, <2>5 DEF Results, WalkComplete, DrawingSound, UnwarnedGraphExact, Shown
  <2>7. QED BY <2>3, <2>6
<1>11. CASE RowRead(f) # NULL /\ pending # {}
  <2>1. GoesOn(rest) BY <1>3, <1>8, <1>11
  <2>2. /\ Continues(rest) /\ session'.place = "follower" /\ session'.outcome = "none"
    BY <1>7, <1>8, <2>1, GoesOnIs
  <2>3. /\ session'.viewer = session.viewer /\ session'.which = session.which
        /\ session'.st = session.st /\ session'.info = session.info
        /\ session'.pages = session.pages /\ session'.pending = pending /\ session'.drawn = drawn
        /\ session'.midway = session.midway /\ session' \in Sessions
    <3> HIDE DEF rest, pending, drawn
    <3>1. QED BY <1>8, <2>2 DEF Continues
  <2>4. /\ engine # "Mysql" => pending \subseteq Stored(disk)
        /\ engine = "Mysql" => session.midway \/ dumper = "dead" \/ pending \subseteq Stored(disk)
    BY <1>5
  <2> HIDE DEF rest, pending, drawn
  <2>5. OneProgress'
    <3>1. session'.place = "follower" /\ session'.viewer # "load" /\ session'.st = session'.which
          /\ session'.info = NULL /\ session'.drawn \subseteq State
      BY <1>5, <1>6, <2>2, <2>3
    <3>2. Draws(session)' /\ Len(session'.pages) = 1 /\ session'.pages[1].st = session'.which
      BY <1>5, <2>3 DEF Draws
    <3>3. \A l \in session'.pages[1].row :
            l[2] \in {session'.which} \cup session'.pending \cup session'.drawn
      BY <1>9, <2>3
    <3>4. /\ engine' = "Mysql" => session'.midway \/ dumper' = "dead" \/ session'.pending \subseteq Stored(disk)'
          /\ engine' # "Mysql" => session'.pending \subseteq Stored(disk)'
      BY <1>2, <2>3, <2>4
    <3>5. QED BY <2>2, <3>1, <3>2, <3>3, <3>4 DEF OneProgress
  <2>6. InfoProgress'
    <3>1. InfoProgress BY <1>1 DEF SessionInv, SessionProgress
    <3>2. QED BY <1>2, <2>3, <3>1, InfoStays
  <2>7. SessionProgress'
    BY <1>1, <1>2, <1>4, <2>2, <2>3, <2>5, <2>6 DEF SessionInv, SessionProgress, Whole
  <2>8. SessionInv' BY <1>2, <2>3, <2>7 DEF SessionInv, SessionTypes
  <2>9. QED BY <2>2, <2>8, NoResult
<1>12. CASE RowRead(f) # NULL /\ pending = {}
  <2>1. Ends(rest, "shown") BY <1>3, <1>8, <1>12
  <2>2. Continues(rest) /\ session'.place = "rest" /\ session'.outcome = "shown"
    BY <1>7, <2>1, EndsIs
  <2>3. /\ session'.viewer = session.viewer /\ session'.which = session.which
        /\ session'.pages = session.pages /\ session'.drawn = drawn /\ session' \in Sessions
    <3> HIDE DEF rest, pending, drawn
    <3>1. QED BY <1>8, <2>2 DEF Continues
  <2>4. SessionInv' BY <1>2, <2>2, <2>3 DEF SessionInv, SessionTypes, SessionProgress, AtRest
  <2>5. session.pages \in Seq(Page) BY <1>1 DEF Sessions
  <2>6. DOMAIN session.pages = {1} BY <1>5, <2>5, LenProperties
  <2>7. session.which \in PagesRead(session.pages) BY <1>5, <2>6 DEF PagesRead
  <2> HIDE DEF rest, drawn
  <2>8. \A k \in DOMAIN session'.pages : \A l \in session'.pages[k].row :
          l[2] \in PagesRead(session'.pages) \cup session'.drawn
    BY <1>9, <1>12, <2>3, <2>6, <2>7
  <2>9. QED BY <1>5, <2>2, <2>3, <2>4, <2>8, OneIsShown
<1>13. QED BY <1>10, <1>11, <1>12

--------------------------------------------------------------------------------
(* Both programs together.                                                    *)

ReaderActs ==
  \/ \E r \in Requests : BeginSession(r[1], r[2])
  \/ \E r \in Requests : SessionRefused(r[1], r[2])
  \/ Session

\* Every step of the reader is right by its session and by what it has shown.
LEMMA ReaderKeeps ==
  ASSUME DumpInv, SessionInv, ReaderActs PROVE DumpInv' /\ SessionInv' /\ Results'
<1>0. \A r \in Requests : r = <<r[1], r[2]>> BY RequestsAssumption
<1>1. CASE \E r \in Requests : BeginSession(r[1], r[2])
  <2>1. PICK r \in Requests : BeginSession(r[1], r[2]) BY <1>1
  <2>2. <<r[1], r[2]>> \in Requests BY <1>0
  <2>3. SessionInv' /\ Results' BY <2>1, <2>2, BeginSessionKeeps
  <2>4. DumpInv' BY <2>1, ReaderKeepsTables DEF BeginSession
  <2>5. QED BY <2>3, <2>4
<1>2. CASE \E r \in Requests : SessionRefused(r[1], r[2])
  <2>1. PICK r \in Requests : SessionRefused(r[1], r[2]) BY <1>2
  <2>2. <<r[1], r[2]>> \in Requests BY <1>0
  <2>3. SessionInv' /\ Results' BY <2>1, <2>2, SessionRefusedKeeps
  <2>4. DumpInv' BY <2>1, ReaderKeepsTables DEF SessionRefused
  <2>5. QED BY <2>3, <2>4
<1>3. CASE Session
  <2>1. UNCHANGED <<engine, dumpVars>>
    BY <1>3 DEF Session, ReadInfo, NoInfo, FirstState, NextState, ReadState, NoState,
                ReadFollower, Reads
  <2>2. SessionInv' /\ Results'
    BY <1>3, ReadInfoKeeps, NoInfoKeeps, WalkKeeps, ReadStateKeeps, NoStateKeeps,
       ReadFollowerKeeps DEF Session
  <2>3. QED BY <2>1, <2>2, ReaderKeepsTables
<1>4. QED BY <1>1, <1>2, <1>3 DEF ReaderActs

\* The results of a session do not change where nothing they are about does.
LEMMA SameResults ==
  ASSUME Results, engine' = engine, session' = session, began' = began, disturbed' <=> disturbed,
         dumper = "dead" => dumper' = "dead"
  PROVE  Results'
<1>1. WalkComplete'
  BY DEF Results, WalkComplete, Shown, Whole, StatesRead
<1>2. DrawingSound'
  <2>1. Nodes(session)' = Nodes(session) /\ Arrows(session)' = Arrows(session)
    BY DEF Nodes, Arrows, Drawings
  <2>2. QED BY <2>1 DEF Results, DrawingSound, Shown, Whole, StatesRead, Draws
<1>3. UnwarnedGraphExact'
  <2>1. Loaded(session.pages)' = Loaded(session'.pages) OBVIOUS
  <2>2. QED BY <2>1 DEF Results, UnwarnedGraphExact, Shown
<1>4. ReaderSurvives' BY DEF Results, ReaderSurvives, Draws, Whole
<1>5. QED BY <1>1, <1>2, <1>3, <1>4 DEF Results

\* A dump changes nothing of what a session that is over has shown.
LEMMA DumpKeepsResults ==
  ASSUME DumpInv, SessionInv, Results, DiskMoves PROVE Results'
<1>1. /\ engine' = engine /\ session' = session /\ began' = began
      /\ disturbed \in BOOLEAN /\ disturbed' = (disturbed \/ (~ AtRest /\ disk' # disk))
      /\ dumper = "dead" => dumper' = "dead"
  BY DEF DiskMoves, Noticed, SessionInv, SessionTypes
<1>2. CASE AtRest
  <2>1. disturbed' <=> disturbed BY <1>1, <1>2
  <2>2. QED BY <1>1, <2>1, SameResults
<1>3. CASE ~ AtRest
  <2>1. session'.outcome = "none" BY <1>1, <1>3 DEF SessionInv, SessionProgress
  <2>2. QED BY <2>1, NoResult
<1>4. QED BY <1>2, <1>3

\* No session was begun.
LEMMA SessionsInitial == ValuesFit /\ Init => SessionInv /\ Results
<1> SUFFICES ASSUME ValuesFit, Init PROVE SessionInv /\ Results OBVIOUS
<1>1. /\ session = Fresh("load", NULL) /\ began = {} /\ disturbed \in BOOLEAN /\ ~ disturbed
  BY DEF Init
<1>2. session =
        [viewer |-> "load", which |-> NULL, place |-> "rest",
         index |-> 0, st |-> NULL, info |-> NULL, moment |-> Moment(NoFigures, NULL), pages |-> <<>>,
         pending |-> {}, drawn |-> {}, missed |-> FALSE, midway |-> FALSE,
         outcome |-> "none", warned |-> FALSE]
  BY <1>1 DEF Fresh
<1>3. session \in Sessions
  <2>1. <<>> \in Seq(Page) /\ "load" \in Viewer BY DEF Viewer
  <2>2. QED BY <1>2, <2>1, MomentIsRead DEF Sessions
<1>4. session.place = "rest" /\ session.outcome = "none" BY <1>2
<1>8. engine = "Sqlite" => \A v \in State : SqliteColumn(v) = v BY DEF Init, ValuesFit
<1>5. SessionInv BY <1>1, <1>3, <1>4, <1>8 DEF SessionInv, SessionTypes, SessionProgress, AtRest
<1>6. Results
  BY <1>4 DEF Results, WalkComplete, DrawingSound, UnwarnedGraphExact, ReaderSurvives, Shown
<1>7. QED BY <1>5, <1>6

\* The whole invariant.
Inv == DumpInv /\ SessionInv /\ Results

\* It holds of a storage nobody has written to and a reader that has not begun.
LEMMA InvIsInitial == ValuesFit /\ Init => Inv
BY TablesInitial, SessionsInitial DEF Inv

\* A step is one of the program that dumps or one of the reader.
LEMMA InvIsKept == Inv /\ [SessionsNext]_vars => Inv'
<1> SUFFICES ASSUME Inv, [SessionsNext]_vars PROVE Inv' OBVIOUS
<1>1. disturbed \in BOOLEAN /\ DumpInv /\ SessionInv /\ Results
  BY DEF Inv, SessionInv, SessionTypes
<1>2. CASE DumperActs
  <2>1. DumpInv' /\ DiskMoves BY <1>1, <1>2, DumperKeeps
  <2>2. QED BY <1>1, <2>1, DumpKeepsSession, DumpKeepsResults DEF Inv
<1>3. CASE ReaderActs BY <1>1, <1>3, ReaderKeeps DEF Inv
<1>4. CASE UNCHANGED vars
  <2>1. /\ UNCHANGED <<engine, dumpVars>> /\ session' = session /\ began' = began
        /\ disturbed' = disturbed /\ engine' = engine /\ disk' = disk /\ dumper' = dumper
    BY <1>4 DEF vars, dumpVars
  <2>2. DumpInv' BY <1>1, <2>1, ReaderKeepsTables
  <2>3. DiskMoves
    <3>1. Noticed BY <1>1, <2>1 DEF Noticed
    <3>2. Grown(disk, disk') BY <2>1, GrownSame
    <3>3. Len(disk.order) <= Len(disk'.order)
      <4>1. Len(disk.order) \in Nat BY <1>1, LenProperties DEF DumpInv, SoundTable, Table
      <4>2. QED BY <2>1, <4>1
    <3>4. QED BY <2>1, <3>1, <3>2, <3>3 DEF DiskMoves
  <2>4. QED BY <1>1, <2>2, <2>3, DumpKeepsSession, DumpKeepsResults DEF Inv
<1>5. QED BY <1>2, <1>3, <1>4 DEF SessionsNext, DumperActs, ReaderActs

\* So it always holds.
LEMMA InvHolds == ASSUME ValuesFit PROVE SessionsSpec => []Inv
<1>1. Init => Inv BY InvIsInitial
<1>2. QED BY <1>1, InvIsKept, PTL DEF SessionsSpec

\* A load or a view of the whole memory that met no lock has read every state
\* that was stored when it began, whatever is dumped meanwhile, and no state
\* twice: in the tables of Mysql rows keep their places, in those of Sqlite they
\* move on and never back, and a dump and a session of an agent exclude each
\* other (getStateByIndex() of the storages and the loop of view()).
THEOREM WalksAreComplete == ASSUME ValuesFit PROVE SessionsSpec => []WalkComplete
<1>1. Inv => WalkComplete BY DEF Inv, Results
<1>2. QED BY <1>1, InvHolds, PTL

\* A drawing names every state it read by a node of its own.  The arrows of the
\* drawing of one state end at such nodes; those of a whole memory do where no
\* commit came in between, no statement failed and the storage is Sqlite or an
\* agent (dotStateInfo(), cleanDotStateInfo() and viewState()).
THEOREM DrawingsAreSound == ASSUME ValuesFit PROVE SessionsSpec => []DrawingSound
<1>1. Inv => DrawingSound BY DEF Inv, Results
<1>2. QED BY <1>1, InvHolds, PTL

\* A load that does not warn has brought back the states and links of the memory
\* whose information it read, although loadMemoryFromStorage() only compares
\* numbers: what it loaded is part of that memory or holds all of it, and then
\* equal numbers make both the same.  Of counts and payoffs it says nothing.
THEOREM UnwarnedGraphsAreExact == ASSUME ValuesFit PROVE SessionsSpec => []UnwarnedGraphExact
<1>1. Inv => UnwarnedGraphExact BY DEF Inv, Results
<1>2. QED BY <1>1, InvHolds, PTL

\* Where values are read back as they were written, ERROR() ends a reader only
\* where a lock made a statement fail or a dump of Mysql has not reached a
\* following state.
THEOREM ReadersSurvive == ASSUME ValuesFit PROVE SessionsSpec => []ReaderSurvives
<1>1. Inv => ReaderSurvives BY DEF Inv, Results
<1>2. QED BY <1>1, InvHolds, PTL

--------------------------------------------------------------------------------
(* The counts, the payoffs and the last state that a load brings back.         *)

\* The rows of t are of the moment its memory information is of.
Current(t) ==
  /\ \A s \in Stored(t) : t.figures[s] = t.moment.figures[s]
  /\ t.moment.last # NULL => t.moment.last \in t.info.states

\* So they are between dumps, but those of Mysql after a dump was killed; and a
\* dump under way writes what the agent is at.
DumpFigures ==
  engine # "Agent" =>
    /\ disk.info # NULL /\ (engine = "Sqlite" \/ dumper \in {"idle", "opened"}) => Current(disk)
    /\ dumper = "dumping" =>
         /\ tables.moment = Moment(figures, last)
         /\ \A s \in ToSet(list) \ ToSet(left) : tables.figures[s] = figures[s]

\* A session that no commit came into has read what is stored.
SessionFigures ==
  ~ AtRest /\ ~ disturbed =>
    /\ \A i \in DOMAIN session.pages :
         /\ session.pages[i].row = disk.rows[session.pages[i].st]
         /\ session.pages[i].figure = disk.figures[session.pages[i].st]
    /\ session.info # NULL =>
         /\ session.moment = MomentRead
         /\ engine # "Agent" /\ ~ session.midway =>
              Current(disk) \/ (engine = "Mysql" /\ dumper = "dead")

FigureInv == DumpFigures /\ SessionFigures /\ LoadIsWhole

\* Every step of the program that dumps.
LEMMA DumpKeepsFigures ==
  ASSUME DumpInv, DumpInv', disturbed \in BOOLEAN, DumpFigures, DumperActs PROVE DumpFigures'
<1> SUFFICES ASSUME engine # "Agent" PROVE DumpFigures'
  <2>1. engine' = engine BY DumperKeeps DEF DiskMoves
  <2>2. QED BY <2>1 DEF DumpFigures
<1>0. /\ disk.info # NULL /\ (engine = "Sqlite" \/ dumper \in {"idle", "opened"}) => Current(disk)
      /\ dumper = "dumping" =>
           /\ tables.moment = Moment(figures, last)
           /\ \A s \in ToSet(list) \ ToSet(left) : tables.figures[s] = figures[s]
      /\ engine # "Sqlite" \/ dumper # "dumping" => tables = disk
  BY DEF DumpFigures, DumpInv, DumpProgress
<1>1. \A t : disk' = t => (Current(disk)' <=> Current(t)) BY DEF Current, Stored
<1>2. CASE Learn \/ OpenDumpFails
  <2>1. disk' = disk /\ dumper = "idle" /\ dumper' \in {"idle", "dead"} /\ engine' = engine
    BY <1>2 DEF Learn, OpenDumpFails
  <2>2. QED BY <1>0, <1>1, <2>1 DEF DumpFigures
<1>3. CASE OpenDump
  <2>1. /\ engine' = engine /\ dumper = "idle" /\ dumper' = "opened"
        /\ disk' = [tables EXCEPT !.created = TRUE]
    BY <1>3 DEF OpenDump
  <2>2. tables = disk /\ disk \in Table BY <1>0, <2>1 DEF DumpInv, SoundTable
  <2>3. /\ disk'.rows = disk.rows /\ disk'.info = disk.info /\ disk'.figures = disk.figures
        /\ disk'.moment = disk.moment
    BY <2>1, <2>2 DEF Table
  <2>4. Current(disk') <=> Current(disk) BY <2>3 DEF Current, Stored
  <2>5. QED BY <1>0, <1>1, <2>1, <2>3, <2>4 DEF DumpFigures
<1>4. CASE AddMemoryInfo
  <2>1. /\ engine' = engine /\ figures' = figures /\ last' = last /\ list' = list /\ left' = list
        /\ dumper = "opened" /\ dumper' = "dumping"
        /\ tables' = [tables EXCEPT !.info = Known, !.moment = Moment(figures, last)]
        /\ engine = "Sqlite" => disk' = disk
    BY <1>4 DEF AddMemoryInfo, agentVars, Written, Known
  <2>2. tables'.moment = Moment(figures, last) BY <2>1 DEF DumpInv, SoundTable, Table
  <2>3. Moment(figures, last)' = Moment(figures, last) BY <2>1 DEF Moment
  <2>4. QED BY <1>0, <1>1, <2>1, <2>2, <2>3 DEF DumpFigures
<1>5. CASE DumpState
  <2> DEFINE s == Head(left)
  <2>1. /\ engine' = engine /\ figures' = figures /\ last' = last /\ list' = list
        /\ dumper = "dumping" /\ dumper' = "dumping" /\ left # <<>> /\ left' = Tail(left)
        /\ tables' \in DatabasePut(tables, s, getStateInfo(s))
        /\ engine = "Sqlite" => disk' = disk
    BY <1>5 DEF DumpState, agentVars, Written
  <2>2. SoundTable(tables) /\ tables.info = Known
    BY <2>1 DEF DumpInv, DumpProgress
  <2>3. s \in ToSet(list) /\ ToSet(left) = {s} \cup ToSet(left')
    BY <2>1, HeadAndTailHold DEF DumpInv, DumpTypes
  <2>4. /\ tables'.moment = tables.moment /\ tables'.figures[s] = figures[s]
        /\ \A x \in Stored(tables) \ {s} : tables'.figures[x] = tables.figures[x]
    BY <2>1, <2>2, <2>3, PutIsSound DEF DumpInv
  <2>5. \A x \in ToSet(list) \ ToSet(left) : x \in Stored(tables)
    BY <2>1 DEF DumpInv, DumpProgress
  <2> HIDE DEF s
  <2>6. \A x \in ToSet(list) \ ToSet(left') : tables'.figures[x] = figures[x]
    <3> TAKE x \in ToSet(list) \ ToSet(left')
    <3>1. CASE x = s BY <2>4, <3>1
    <3>2. CASE x # s BY <1>0, <2>1, <2>3, <2>4, <2>5, <3>2
    <3>3. QED BY <3>1, <3>2
  <2>7. Moment(figures, last)' = Moment(figures, last) BY <2>1 DEF Moment
  <2>8. QED BY <1>0, <1>1, <2>1, <2>4, <2>6, <2>7 DEF DumpFigures
<1>6. CASE Lock
  <2>1. UNCHANGED <<engine, list, last, figures, tables, disk, dumper, left>>
    BY <1>6 DEF Lock, agentVars
  <2>2. Moment(figures, last)' = Moment(figures, last) BY <2>1 DEF Moment
  <2>3. QED BY <1>0, <1>1, <2>1, <2>2 DEF DumpFigures
<1>7. CASE CommitFails
  <2>1. disk' = disk /\ engine' = engine /\ engine = "Sqlite" /\ dumper' = "idle"
    BY <1>7 DEF CommitFails, EndDump
  <2>2. QED BY <1>0, <1>1, <2>1 DEF DumpFigures
<1>8. CASE CloseDump
  <2>1. /\ disk' = tables /\ engine' = engine /\ dumper = "dumping" /\ left = <<>> /\ dumper' = "idle"
    BY <1>8 DEF CloseDump, EndDump
  <2>2. ToSet(left) = {} BY <2>1 DEF ToSet
  <2>3. /\ tables.info = Known /\ Within(tables, Known) /\ Known.states = ToSet(list)
        /\ IF list = <<>> THEN last = NULL ELSE last \in ToSet(list)
    BY <2>1 DEF DumpInv, DumpTypes, DumpProgress, SoundTable, Known
  <2>4. /\ tables.moment = Moment(figures, last)
        /\ \A s \in ToSet(list) : tables.figures[s] = figures[s]
    BY <1>0, <2>1, <2>2
  <2>5. tables.moment.figures = figures /\ tables.moment.last = last BY <2>4 DEF Moment
  <2>6. Current(tables) BY <2>3, <2>4, <2>5 DEF Current, Within
  <2>7. QED BY <1>1, <2>1, <2>6 DEF DumpFigures
<1>9. CASE Kill
  <2>1. disk' = disk /\ engine' = engine /\ dumper' = "dead" BY <1>9 DEF Kill
  <2>2. QED BY <1>0, <1>1, <2>1 DEF DumpFigures
<1>10. QED BY <1>2, <1>3, <1>4, <1>5, <1>6, <1>7, <1>8, <1>9 DEF DumperActs

\* What a session has read stays what is stored as long as no commit comes in.
LEMMA DumpKeepsSessionFigures ==
  ASSUME disturbed \in BOOLEAN, SessionFigures, LoadIsWhole, DiskMoves
  PROVE  SessionFigures' /\ LoadIsWhole'
<1>1. /\ engine' = engine /\ session' = session /\ (AtRest' <=> AtRest)
      /\ disturbed' = (disturbed \/ (~ AtRest /\ disk' # disk))
      /\ dumper = "dead" => dumper' = "dead"
  BY DEF DiskMoves, Noticed, AtRest
<1>2. SessionFigures'
  <2>1. CASE ~ AtRest /\ ~ disturbed'
    <3>1. disk' = disk /\ ~ disturbed BY <1>1, <2>1
    <3>2. MomentRead' = MomentRead BY <1>1, <3>1 DEF MomentRead, column
    <3>3. Current(disk)' <=> Current(disk) BY <3>1 DEF Current, Stored
    <3>4. QED BY <1>1, <2>1, <3>1, <3>2, <3>3 DEF SessionFigures
  <2>2. CASE AtRest \/ disturbed' BY <1>1, <2>2 DEF SessionFigures
  <2>3. QED BY <2>1, <2>2
<1>3. LoadIsWhole'
  <2>1. Loaded(session.pages)' = Loaded(session'.pages) OBVIOUS
  <2>2. QED BY <1>1, <2>1 DEF LoadIsWhole, OneMoment, Shown
<1>4. QED BY <1>2, <1>3

\* At the end of the rows, a session that no commit came into has brought back
\* the memory whose information it read, with the counts and payoffs of then.
LEMMA WalkBringsBack ==
  ASSUME DumpInv, SessionInv, SessionFigures, session.place \in {"first", "next"}, Whole,
         ~ SelectFails, ~ disturbed, session.info # NULL,
         engine = "Mysql" => ~ session.midway /\ dumper # "dead",
         StateByIndex(IF session.place = "first" THEN 0 ELSE session.index + 1) = NULL
  PROVE  /\ Loaded(session.pages) = session.info /\ ~ Differs(session)
         /\ OneMoment
         /\ session.moment.last # NULL => session.moment.last \in session.info.states
<1> DEFINE pages == session.pages
           info == session.info
<1>1. ~ AtRest /\ session \in Sessions /\ pages \in Seq(Page)
  BY DEF AtRest, SessionInv, SessionTypes, Sessions
<1>2. /\ began = Stored(disk)
      /\ \A i \in DOMAIN pages : pages[i].st \in Stored(disk) /\ pages[i].row \subseteq disk.rows[pages[i].st]
      /\ InfoProgress
  BY <1>1 DEF SessionInv, SessionProgress
<1>3. /\ \A i \in DOMAIN pages :
           /\ pages[i].row = disk.rows[pages[i].st]
           /\ pages[i].figure = disk.figures[pages[i].st]
      /\ session.moment = MomentRead
      /\ engine # "Agent" /\ ~ session.midway => Current(disk) \/ (engine = "Mysql" /\ dumper = "dead")
  BY <1>1 DEF SessionFigures
<1>4. Stored(disk) \subseteq PagesRead(pages)
  <2>1. Expected \cap Stored(disk) \subseteq StatesRead BY AllPassed
  <2>2. StatesRead = PagesRead(pages) BY DEF StatesRead, PagesRead
  <2>3. QED BY <1>2, <2>1, <2>2 DEF Expected
<1>5. /\ WellFormed(info) /\ info = IF engine = "Agent" THEN Graph(disk.rows) ELSE disk.info
      /\ session.midway => engine = "Mysql"
      /\ engine # "Agent" /\ ~ session.midway =>
           \/ engine = "Mysql" /\ dumper = "dead" /\ info = disk.info
           \/ Holds(disk, info) /\ PagesHold(info)
  BY <1>2 DEF InfoProgress
<1>6. disk \in Table BY DEF DumpInv, SoundTable
<1> HIDE DEF pages, info
<1>7. /\ Within(disk, info) /\ info.states \subseteq Stored(disk)
      /\ \A i \in DOMAIN pages : \A l \in info.links :
           l[1] = pages[i].st => <<l[2], l[3]>> \in pages[i].row
  <2>1. CASE engine = "Agent"
    <3>1. info = Graph(disk.rows) BY <1>5, <2>1
    <3>2. FollowersStored(disk) BY <2>1, FollowersHaveRows
    <3>3. /\ Stored(disk) \subseteq info.states
          /\ \A s \in Stored(disk) : \A r \in disk.rows[s] :
               r[2] \in info.states /\ <<s, r[1], r[2]>> \in info.links
          /\ \A l \in info.links :
               \E s \in Stored(disk) : \E r \in disk.rows[s] : l = <<s, r[1], r[2]>>
          /\ \A m : Within(disk, m) => info.states \subseteq m.states
      BY <1>6, <3>1, GraphOfRows
    <3>4. Within(disk, info) BY <3>3 DEF Within
    <3>5. info.states \subseteq Stored(disk)
      <4> DEFINE m == [states |-> Stored(disk), links |-> info.links]
      <4>1. m.states = Stored(disk) /\ m.links = info.links OBVIOUS
      <4> HIDE DEF m
      <4>2. Within(disk, m) BY <3>2, <3>3, <4>1 DEF Within, FollowersStored
      <4>3. QED BY <3>3, <4>1, <4>2
    <3>6. ASSUME NEW i \in DOMAIN pages, NEW l \in info.links, l[1] = pages[i].st
          PROVE  <<l[2], l[3]>> \in pages[i].row
      <4>1. PICK s \in Stored(disk) : \E r \in disk.rows[s] : l = <<s, r[1], r[2]>> BY <3>3
      <4>2. PICK r \in disk.rows[s] : l = <<s, r[1], r[2]>> BY <4>1
      <4>3. l[1] = s /\ l[2] = r[1] /\ l[3] = r[2] BY <4>2
      <4>4. disk.rows[s] \in Row BY <1>6, StoredIn
      <4>5. r = <<r[1], r[2]>> BY <4>4 DEF Row
      <4>6. QED BY <1>3, <3>6, <4>3, <4>5
    <3>7. QED BY <3>4, <3>5, <3>6
  <2>2. CASE engine # "Agent"
    <3>1. ~ session.midway /\ info = disk.info BY <1>5, <2>2
    <3>2. Holds(disk, info) /\ PagesHold(info) BY <1>5, <2>2, <3>1
    <3>3. Within(disk, info) BY <2>2, <3>1 DEF DumpInv, SoundTable, info
    <3>4. QED BY <3>2, <3>3 DEF Holds, PagesHold, pages
  <2>3. QED BY <2>1, <2>2
<1>8. /\ WellFormed(Loaded(pages))
      /\ Loaded(pages).states \subseteq info.states /\ Loaded(pages).links \subseteq info.links
  BY <1>1, <1>2, <1>7, LoadedIsStored DEF pages
<1>9. info.states \subseteq Loaded(pages).states /\ info.links \subseteq Loaded(pages).links
  <2>1. info.states \subseteq PagesRead(pages) BY <1>4, <1>7
  <2>2. pages \in Seq(Page) /\ WellFormed(info) BY <1>1, <1>5
  <2>3. \A i \in DOMAIN pages : \A l \in info.links :
           l[1] = pages[i].st => <<l[2], l[3]>> \in pages[i].row
    BY <1>7
  <2>4. QED BY ONLY <2>1, <2>2, <2>3, LoadedHolds
<1>10. Loaded(pages) = info
  <2> DEFINE g == Loaded(pages)
  <2>1. WellFormed(info) /\ WellFormed(g) BY <1>5, <1>8
  <2>2. g.states = info.states /\ g.links = info.links BY <1>8, <1>9
  <2> HIDE DEF g
  <2>3. g \in Memory /\ info \in Memory BY ONLY <2>1 DEF WellFormed
  <2>4. g = info BY ONLY <2>2, <2>3 DEF Memory
  <2>5. QED BY <2>4 DEF g
<1>11. OneMoment
  <2>1. \A i \in DOMAIN pages : disk.figures[pages[i].st] = session.moment.figures[pages[i].st]
    <3>1. CASE engine = "Agent"
      <4>1. session.moment.figures = disk.figures BY <1>3, <3>1 DEF MomentRead, Moment
      <4>2. QED BY <4>1
    <3>2. CASE engine # "Agent"
      <4>1. session.moment.figures = disk.moment.figures
        BY <1>3, <1>6, <3>2 DEF MomentRead, Table, Moments
      <4>2. Current(disk) BY <1>3, <1>5, <3>2
      <4>3. QED BY <1>2, <4>1, <4>2 DEF Current, pages
    <3>3. QED BY <3>1, <3>2
  <2>2. QED BY <1>3, <2>1 DEF OneMoment, pages
<1>12. session.moment.last # NULL => session.moment.last \in info.states
  <2>1. CASE engine = "Agent" BY <1>3, <2>1 DEF MomentRead, Moment
  <2>2. CASE engine # "Agent"
    <3>1. disk.moment.last \in State \cup {NULL} /\ disk.moment \in Moments
      BY <1>6 DEF Table, Moments
    <3>2. session.moment.last = IF disk.moment.last = NULL THEN NULL ELSE column(disk.moment.last)
      BY <1>3, <2>2, <3>1 DEF MomentRead, Moments
    <3>3. Current(disk) /\ info = disk.info BY <1>3, <1>5, <2>2
    <3>4. QED BY <3>1, <3>2, <3>3, ColumnFits DEF Current
  <2>3. QED BY <2>1, <2>2
<1>13. ~ Differs(session) BY <1>10 DEF Differs, pages, info
<1>14. QED BY <1>10, <1>11, <1>12, <1>13 DEF pages, info

\* What was read before stays read.
LEMMA SameReadings ==
  ASSUME SessionFigures, ReaderFrame, ~ AtRest, session'.pages = session.pages,
         session'.info = session.info, session'.moment = session.moment,
         session'.midway = session.midway
  PROVE  SessionFigures'
<1>1. UNCHANGED <<engine, disk, dumper, disturbed>> BY FrameIs
<1>2. MomentRead' = MomentRead BY <1>1 DEF MomentRead, column
<1>3. Current(disk)' <=> Current(disk) BY <1>1 DEF Current, Stored
<1>4. QED BY <1>1, <1>2, <1>3 DEF SessionFigures

\* Where nothing is loaded nothing has to be whole.
LEMMA NothingLoaded ==
  ASSUME session'.outcome # "shown" \/ session'.viewer # "load" PROVE LoadIsWhole'
BY DEF LoadIsWhole, Shown

\* The memory information and what was stored with it are read.
LEMMA ReadInfoFigures ==
  ASSUME DumpInv, SessionInv, DumpFigures, ReadInfo PROVE SessionFigures' /\ LoadIsWhole'
<1> DEFINE s == [session EXCEPT !.info = InfoRead, !.moment = MomentRead, !.place = "first",
                                !.midway = UnderWay]
<1>1. /\ session.place = "info" /\ ReaderFrame /\ GoesOn(s) /\ session \in Sessions /\ ~ AtRest
  BY DEF ReadInfo, Reads, ReaderFrame, SessionInv, SessionTypes, AtRest
<1>2. session.pages = <<>> /\ session.outcome = "none"
  BY <1>1 DEF SessionInv, SessionProgress, OneProgress, WholeProgress
<1>3. session' = [s EXCEPT !.missed = s.missed \/ SelectFails] BY <1>1 DEF GoesOn
<1>4. /\ s.info = InfoRead /\ s.moment = MomentRead /\ (s.midway <=> UnderWay)
      /\ s.pages = <<>> /\ s.outcome = "none"
      /\ {"info", "moment", "midway", "pages", "outcome"} \subseteq DOMAIN s
  BY <1>1, <1>2 DEF Sessions
<1> HIDE DEF s
<1>5. /\ session'.info = InfoRead /\ session'.moment = MomentRead /\ (session'.midway <=> UnderWay)
      /\ session'.pages = <<>> /\ session'.outcome = "none"
  BY <1>3, <1>4
<1>6. UNCHANGED <<engine, disk, dumper, disturbed>> BY <1>1, FrameIs
<1>7. MomentRead' = MomentRead BY <1>6 DEF MomentRead, column
<1>8. Current(disk)' <=> Current(disk) BY <1>6 DEF Current, Stored
<1>9. InfoRead # NULL /\ engine # "Agent" /\ ~ UnderWay =>
        Current(disk) \/ (engine = "Mysql" /\ dumper = "dead")
  <2>1. InfoRead # NULL /\ engine # "Agent" => disk.info # NULL BY DEF InfoRead
  <2>2. dumper \in {"idle", "opened", "dumping", "dead"} /\ engine \in {"Sqlite", "Mysql", "Agent"}
    BY DEF DumpInv, DumpTypes
  <2>3. QED BY <2>1, <2>2 DEF DumpFigures, UnderWay
<1>10. SessionFigures' BY <1>5, <1>6, <1>7, <1>8, <1>9 DEF SessionFigures
<1>11. QED BY <1>5, <1>10, NothingLoaded

\* The loop goes on with a row, or is over.
LEMMA WalkFigures ==
  ASSUME DumpInv, SessionInv, SessionFigures, FirstState \/ NextState
  PROVE  SessionFigures' /\ LoadIsWhole'
<1> DEFINE i == IF session.place = "first" THEN 0 ELSE session.index + 1
           st == StateByIndex(i)
           warned == session.viewer = "load" /\ Differs(session)
           row == [session EXCEPT !.index = i, !.st = st, !.place = "row"]
           over == [session EXCEPT !.index = i, !.st = st, !.warned = warned]
<1>1. /\ session.place \in {"first", "next"} /\ ReaderFrame /\ At(session, i)
      /\ session \in Sessions /\ ~ AtRest
  <2>1. CASE FirstState
    BY <2>1 DEF FirstState, Reads, ReaderFrame, SessionInv, SessionTypes, AtRest
  <2>2. CASE NextState
    BY <2>2 DEF NextState, Reads, ReaderFrame, SessionInv, SessionTypes, AtRest
  <2>3. QED BY <2>1, <2>2
<1>2. Whole /\ session.outcome = "none"
  BY <1>1 DEF SessionInv, SessionProgress, AtRest, OneProgress
<1>3. CASE st # NULL
  <2>1. session' = [row EXCEPT !.missed = row.missed \/ SelectFails] BY <1>1, <1>3 DEF At, GoesOn
  <2>2. /\ row.pages = session.pages /\ row.info = session.info /\ row.moment = session.moment
        /\ row.midway = session.midway /\ row.outcome = "none"
        /\ {"info", "moment", "midway", "pages", "outcome"} \subseteq DOMAIN row
    <3> HIDE DEF i, st
    <3>1. QED BY <1>1, <1>2 DEF Sessions
  <2> HIDE DEF row
  <2>3. /\ session'.pages = session.pages /\ session'.info = session.info
        /\ session'.moment = session.moment /\ session'.midway = session.midway
        /\ session'.outcome = "none"
    BY <2>1, <2>2
  <2>4. QED BY <1>1, <2>3, SameReadings, NothingLoaded
<1>4. CASE st = NULL
  <2>1. session' = [over EXCEPT !.missed = over.missed \/ SelectFails, !.place = "rest",
                                !.outcome = "shown"]
    BY <1>1, <1>4 DEF At, Ends
  <2>2. /\ over.pages = session.pages /\ over.info = session.info /\ over.moment = session.moment
        /\ over.midway = session.midway /\ over.viewer = session.viewer /\ over.missed = session.missed
        /\ over.which = session.which /\ over.warned = warned
        /\ {"info", "moment", "midway", "pages", "outcome", "place", "viewer", "which", "warned",
            "missed"} \subseteq DOMAIN over
    <3> HIDE DEF i, st, warned
    <3>1. QED BY <1>1, <1>2 DEF Sessions
  <2> HIDE DEF over
  <2>3. /\ session'.pages = session.pages /\ session'.info = session.info
        /\ session'.moment = session.moment /\ session'.midway = session.midway
        /\ session'.viewer = session.viewer
        /\ session'.missed = (session.missed \/ SelectFails)
        /\ session'.warned = warned /\ session'.place = "rest"
    BY <2>1, <2>2
  <2>4. SessionFigures' BY <2>3 DEF SessionFigures, AtRest
  <2>5. LoadIsWhole'
    <3>1. UNCHANGED <<engine, dumper, disturbed>> BY <1>1, FrameIs
    <3>2. SUFFICES ASSUME session.viewer = "load", session.info # NULL, ~ disturbed, ~ SelectFails,
                          engine = "Mysql" => ~ session.midway /\ dumper # "dead"
                   PROVE  /\ ~ session'.warned /\ Loaded(session'.pages) = session'.info
                          /\ \A k \in DOMAIN session'.pages :
                               session'.pages[k].figure = session'.moment.figures[session'.pages[k].st]
                          /\ session'.moment.last # NULL =>
                               session'.moment.last \in session'.info.states
      <4>1. Loaded(session.pages)' = Loaded(session'.pages) OBVIOUS
      <4>2. QED BY <2>3, <3>1, <4>1 DEF LoadIsWhole, OneMoment
    <3>3. /\ Loaded(session.pages) = session.info /\ ~ Differs(session)
          /\ OneMoment
          /\ session.moment.last # NULL => session.moment.last \in session.info.states
      BY <1>1, <1>2, <1>4, <3>2, WalkBringsBack
    <3>4. ~ warned BY <3>3
    <3>5. QED BY <2>3, <3>3, <3>4 DEF OneMoment
  <2>6. QED BY <2>4, <2>5
<1>5. QED BY <1>3, <1>4

\* A row is read with its counts and payoffs.
LEMMA ReadStateFigures ==
  ASSUME DumpInv, SessionInv, SessionFigures, ReadState PROVE SessionFigures' /\ LoadIsWhole'
<1> DEFINE read == [session EXCEPT !.pages = PagesThen]
           others == {l[2] : l \in RowRead(session.st)} \ {PageRead.st}
           nextRow == [read EXCEPT !.place = "next"]
           follow == [read EXCEPT !.place = "follower", !.pending = others, !.midway = UnderWay]
<1>1. /\ session.place = "row" /\ ReaderFrame /\ RowRead(session.st) # NULL
      /\ session \in Sessions /\ ~ AtRest /\ session.outcome = "none"
  BY DEF ReadState, Reads, ReaderFrame, SessionInv, SessionTypes, SessionProgress, AtRest
<1>2. IF session.which = NULL THEN GoesOn(nextRow)
      ELSE IF Draws(session) /\ others # {} THEN GoesOn(follow) ELSE Ends(read, "shown")
  BY DEF ReadState, PagesThen, PageRead
<1>3. /\ PagesThen \in Seq(Page) /\ PageRead.st = session.st /\ PageRead.row = disk.rows[session.st]
      /\ PageRead.figure = disk.figures[session.st]
  BY <1>1, RowIsRead DEF PageRead
<1>4. \A i \in DOMAIN PagesThen :
        PagesThen[i] = PageRead \/ (i \in DOMAIN session.pages /\ PagesThen[i] = session.pages[i])
  <2>1. PageRead \in Page /\ session.pages \in Seq(Page) BY <1>1, RowIsRead DEF Sessions
  <2>2. QED BY <2>1, OneMorePage DEF PagesThen
<1>5. /\ read \in Sessions /\ read.pages = PagesThen /\ read.info = session.info
      /\ read.moment = session.moment /\ read.viewer = session.viewer
      /\ read.midway = session.midway /\ read.outcome = "none"
  <2>1. read \in Sessions BY <1>1, <1>3, SessionThatRead
  <2>2. QED BY <1>1, <2>1 DEF Sessions
<1> HIDE DEF read, others
<1>6. UNCHANGED <<engine, disk, dumper, disturbed>> BY <1>1, FrameIs
<1>7. MomentRead' = MomentRead BY <1>6 DEF MomentRead, column
<1>8. Current(disk)' <=> Current(disk) BY <1>6 DEF Current, Stored
<1>9. ASSUME session'.pages = PagesThen, session'.info = session.info,
             session'.info = NULL \/ (session'.moment = session.moment /\ session'.midway = session.midway)
      PROVE  SessionFigures'
  BY <1>1, <1>3, <1>4, <1>6, <1>7, <1>8, <1>9 DEF SessionFigures
<1>10. CASE session.which = NULL
  <2>1. session' = [nextRow EXCEPT !.missed = nextRow.missed \/ SelectFails] BY <1>2, <1>10 DEF GoesOn
  <2>2. /\ nextRow.pages = PagesThen /\ nextRow.info = session.info /\ nextRow.moment = session.moment
        /\ nextRow.midway = session.midway /\ nextRow.outcome = "none"
        /\ {"info", "moment", "midway", "pages", "outcome"} \subseteq DOMAIN nextRow
    BY <1>5 DEF Sessions
  <2> HIDE DEF nextRow
  <2>3. /\ session'.pages = PagesThen /\ session'.info = session.info
        /\ session'.moment = session.moment /\ session'.midway = session.midway
        /\ session'.outcome = "none"
    BY <2>1, <2>2
  <2>4. QED BY <1>9, <2>3, NothingLoaded
<1>11. CASE session.which # NULL
  <2>1. session.viewer # "load" /\ session.info = NULL
    BY <1>1, <1>11 DEF SessionInv, SessionProgress, OneProgress, Whole
  <2>2. CASE Draws(session) /\ others # {}
    <3>1. session' = [follow EXCEPT !.missed = follow.missed \/ SelectFails]
      BY <1>2, <1>11, <2>2 DEF GoesOn
    <3>2. /\ follow.pages = PagesThen /\ follow.info = NULL /\ follow.outcome = "none"
          /\ {"info", "pages", "outcome"} \subseteq DOMAIN follow
      BY <1>5, <2>1 DEF Sessions
    <3> HIDE DEF follow
    <3>3. session'.pages = PagesThen /\ session'.info = NULL /\ session'.outcome = "none"
      BY <3>1, <3>2
    <3>4. QED BY <1>9, <2>1, <3>3, NothingLoaded
  <2>3. CASE ~ (Draws(session) /\ others # {})
    <3>1. Continues(read) /\ session'.place = "rest" /\ session'.outcome = "shown"
      BY <1>2, <1>5, <1>11, <2>3, EndsIs
    <3>2. session'.viewer # "load" /\ AtRest' BY <1>5, <2>1, <3>1 DEF Continues, AtRest
    <3>3. QED BY <3>2, NothingLoaded DEF SessionFigures
  <2>4. QED BY <2>2, <2>3
<1>12. QED BY <1>10, <1>11

\* A following state is drawn, which no load does.
LEMMA ReadFollowerFigures ==
  ASSUME DumpInv, SessionInv, SessionFigures, ReadFollower PROVE SessionFigures' /\ LoadIsWhole'
<1>1. /\ session.place = "follower" /\ ReaderFrame /\ session \in Sessions /\ ~ AtRest
  BY DEF ReadFollower, Reads, ReaderFrame, SessionInv, SessionTypes, AtRest
<1>2. PICK f \in session.pending :
        IF RowRead(f) = NULL THEN Exits
        ELSE LET rest == [session EXCEPT !.pending = session.pending \ {f},
                                         !.drawn = session.drawn \cup {f}] IN
             IF rest.pending = {} THEN Ends(rest, "shown") ELSE GoesOn(rest)
  BY DEF ReadFollower
<1>3. session.viewer # "load" /\ session.drawn \subseteq State /\ session.pending \subseteq State
  BY <1>1, <1>2 DEF SessionInv, SessionProgress, WholeProgress, OneProgress, Sessions
<1> DEFINE rest == [session EXCEPT !.pending = session.pending \ {f}, !.drawn = session.drawn \cup {f}]
<1>4. rest \in Sessions
  <2>1. session.pending \ {f} \in SUBSET State /\ session.drawn \cup {f} \in SUBSET State
    BY <1>3
  <2>2. QED BY <1>1, <2>1, SessionThatDrew
<1>5. /\ rest.pages = session.pages /\ rest.info = session.info /\ rest.moment = session.moment
      /\ rest.midway = session.midway /\ rest.viewer = session.viewer
  BY <1>1 DEF Sessions
<1> HIDE DEF rest
<1>6. Continues(session) \/ Continues(rest)
  <2>1. Exits \/ Ends(rest, "shown") \/ GoesOn(rest) BY <1>2 DEF rest
  <2>2. QED BY <1>1, <1>4, <2>1, ExitsIs, EndsIs, GoesOnIs
<1>7. /\ session'.pages = session.pages /\ session'.info = session.info
      /\ session'.moment = session.moment /\ session'.midway = session.midway
      /\ session'.viewer # "load"
  BY <1>3, <1>5, <1>6 DEF Continues
<1>8. QED BY <1>1, <1>7, SameReadings, NothingLoaded

\* Every step of the reader.
LEMMA ReaderKeepsFigures ==
  ASSUME DumpInv, SessionInv, FigureInv, ReaderActs PROVE FigureInv'
<1>1. UNCHANGED <<engine, dumpVars>>
  BY DEF ReaderActs, Session, ReadInfo, NoInfo, FirstState, NextState, ReadState, NoState,
         ReadFollower, Reads, BeginSession, SessionRefused
<1>2. DumpFigures'
  <2>1. UNCHANGED <<engine, list, last, figures, tables, disk, dumper, left>>
    BY <1>1 DEF dumpVars, agentVars
  <2>2. Moment(figures, last)' = Moment(figures, last) BY <2>1 DEF Moment
  <2>3. Current(disk)' <=> Current(disk) BY <2>1 DEF Current, Stored
  <2>4. QED BY <2>1, <2>2, <2>3 DEF FigureInv, DumpFigures
<1> SUFFICES SessionFigures' /\ LoadIsWhole' BY <1>2 DEF FigureInv
<1>3. CASE \E r \in Requests : BeginSession(r[1], r[2])
  <2>1. PICK r \in Requests : BeginSession(r[1], r[2]) BY <1>3
  <2>2. session'.pages = <<>> /\ session'.info = NULL /\ session'.outcome = "none"
    BY <2>1 DEF BeginSession, Fresh
  <2>3. QED BY <2>2, NothingLoaded DEF SessionFigures
<1>4. CASE \E r \in Requests : SessionRefused(r[1], r[2])
  <2>1. PICK r \in Requests : SessionRefused(r[1], r[2]) BY <1>4
  <2>2. session'.place = "rest" /\ session'.outcome = "not_opened"
    BY <2>1 DEF SessionRefused, Fresh
  <2>3. QED BY <2>2, NothingLoaded DEF SessionFigures, AtRest
<1>5. CASE ReadInfo BY <1>5, ReadInfoFigures DEF FigureInv
<1>6. CASE NoInfo \/ NoState
  <2>1. session \in Sessions BY DEF SessionInv, SessionTypes
  <2>2. Ends(session, "not_found") \/ Exits BY <1>6 DEF NoInfo, NoState
  <2>3. session'.place \in {"rest", "exited"} /\ session'.outcome \in {"not_found", "exited"}
    BY <2>1, <2>2, EndsIs, ExitsIs
  <2>4. QED BY <2>3, NothingLoaded DEF SessionFigures, AtRest
<1>7. CASE FirstState \/ NextState BY <1>7, WalkFigures DEF FigureInv
<1>8. CASE ReadState BY <1>8, ReadStateFigures DEF FigureInv
<1>9. CASE ReadFollower BY <1>9, ReadFollowerFigures DEF FigureInv
<1>10. QED BY <1>3, <1>4, <1>5, <1>6, <1>7, <1>8, <1>9 DEF ReaderActs, Session

\* A load that no commit came into and no lock stopped brings back one memory of
\* one moment: the states, the links, the counts, the payoffs and the last state
\* that loadMemoryFromStorage() reads were all written by the same dump, although
\* a dump may have been killed or its commit have failed before; and it does not
\* warn.  In Mysql this takes a dump that is over, and it needs values that are
\* read back as they were written.
THEOREM LoadsAreWhole == ASSUME ValuesFit PROVE SessionsSpec => []LoadIsWhole
<1>1. Init => FigureInv
  <2> SUFFICES ASSUME Init PROVE FigureInv OBVIOUS
  <2>1. disk.info = NULL /\ dumper = "idle" BY DEF Init, NoTables
  <2>2. session.place = "rest" /\ session.outcome = "none" BY DEF Init, Fresh
  <2>3. QED BY <2>1, <2>2 DEF FigureInv, DumpFigures, SessionFigures, LoadIsWhole, AtRest, Shown
<1>2. Inv /\ FigureInv /\ [SessionsNext]_vars => FigureInv'
  <2> SUFFICES ASSUME Inv, FigureInv, [SessionsNext]_vars PROVE FigureInv' OBVIOUS
  <2>1. DumpInv /\ SessionInv /\ disturbed \in BOOLEAN BY DEF Inv, SessionInv, SessionTypes
  <2>2. CASE DumperActs
    <3>1. DumpInv' /\ DiskMoves BY <2>1, <2>2, DumperKeeps
    <3>2. QED BY <2>1, <2>2, <3>1, DumpKeepsFigures, DumpKeepsSessionFigures DEF FigureInv
  <2>3. CASE ReaderActs BY <2>1, <2>3, ReaderKeepsFigures
  <2>4. CASE UNCHANGED vars
    <3>1. UNCHANGED <<engine, list, last, figures, tables, disk, dumper, left, session, disturbed>>
      BY <2>4 DEF vars, dumpVars, agentVars
    <3>2. Moment(figures, last)' = Moment(figures, last) BY <3>1 DEF Moment
    <3>3. Current(disk)' <=> Current(disk) BY <3>1 DEF Current, Stored
    <3>4. MomentRead' = MomentRead BY <3>1 DEF MomentRead, column
    <3>5. Loaded(session.pages)' = Loaded(session'.pages) OBVIOUS
    <3>6. DumpFigures' BY <3>1, <3>2, <3>3 DEF FigureInv, DumpFigures
    <3>7. SessionFigures' BY <3>1, <3>3, <3>4 DEF FigureInv, SessionFigures, AtRest
    <3>8. LoadIsWhole' BY <3>1, <3>5 DEF FigureInv, LoadIsWhole, OneMoment, Shown
    <3>9. QED BY <3>6, <3>7, <3>8 DEF FigureInv
  <2>5. QED BY <2>2, <2>3, <2>4 DEF SessionsNext, DumperActs, ReaderActs
<1>3. FigureInv => LoadIsWhole BY DEF FigureInv
<1>4. QED BY <1>1, <1>2, <1>3, InvHolds, PTL DEF SessionsSpec

--------------------------------------------------------------------------------
(* The connections.                                                           *)

Handles == {"null", "open", "failed", "freed"}
ConnectionInv ==
  /\ DumpInv /\ disturbed \in BOOLEAN /\ "place" \in DOMAIN session
  /\ con \in [{"dumper", "reader"} -> Handles] /\ misused \in BOOLEAN
  /\ ConnectionsClosed

\* A step that dumps leaves the reader's handle alone.
LEMMA DumperCloses ==
  ASSUME ConnectionInv, DumperActs PROVE ConnectionInv'
<1>0. /\ session' = session /\ engine' = engine /\ DumpInv' /\ Noticed
  BY DumperKeeps DEF DiskMoves, ConnectionInv
<1>1. /\ session' = session /\ engine' = engine /\ (AtRest' <=> AtRest)
      /\ DumpInv' /\ disturbed' \in BOOLEAN /\ "place" \in DOMAIN session'
  BY <1>0 DEF ConnectionInv, AtRest, Noticed
<1>2. /\ con \in [{"dumper", "reader"} -> Handles] /\ misused \in BOOLEAN
      /\ AtRest /\ con["reader"] # "null" =>
           con["reader"] = "failed" /\ session.viewer # "load" /\ session.outcome = "not_opened"
      /\ dumper = "idle" => con["dumper"] = "null"
      /\ misused => engine = "Sqlite" /\ dumper = "dead" /\ "create" \in Failures
  BY DEF ConnectionInv, ConnectionsClosed
<1>3. (dumper = "idle" => ~ locked /\ tables = disk)'
  BY <1>1 DEF DumpInv, DumpTypes, DumpProgress
<1>4. SUFFICES
        /\ con' \in [{"dumper", "reader"} -> Handles] /\ misused' \in BOOLEAN
        /\ con'["reader"] = con["reader"]
        /\ dumper' = "idle" => con'["dumper"] = "null"
        /\ misused' => engine = "Sqlite" /\ dumper' = "dead" /\ "create" \in Failures
  BY <1>1, <1>2, <1>3 DEF ConnectionInv, ConnectionsClosed
<1>5. ASSUME NEW c \in Handles, con' = [con EXCEPT !["dumper"] = c]
      PROVE  /\ con' \in [{"dumper", "reader"} -> Handles]
             /\ con'["reader"] = con["reader"] /\ con'["dumper"] = c
  BY <1>2, <1>5
<1>6. CASE Learn \/ Lock \/ AddMemoryInfo \/ DumpState
  BY <1>2, <1>6 DEF Learn, Lock, AddMemoryInfo, DumpState
<1>7. CASE OpenDump
  <2>1. PICK c \in Opened(TRUE) : con' = [con EXCEPT !["dumper"] = c] BY <1>7 DEF OpenDump
  <2>2. c \in Handles BY DEF Opened, Handles
  <2>3. dumper = "idle" /\ dumper' = "opened" /\ misused' = misused BY <1>7 DEF OpenDump
  <2>4. QED BY <1>2, <1>5, <2>1, <2>2, <2>3
<1>8. CASE OpenDumpFails
  <2>1. PICK c \in OpenFailed("dumper", TRUE) :
          IF c = "freed"
          THEN misused' = TRUE /\ dumper' = "dead" /\ con' = [con EXCEPT !["dumper"] = c]
          ELSE con' = [con EXCEPT !["dumper"] = "null"] /\ misused' = misused /\ dumper' = dumper
    BY <1>8 DEF OpenDumpFails, Closed
  <2>2. dumper = "idle" BY <1>8 DEF OpenDumpFails
  <2>3. c = "freed" => engine = "Sqlite" /\ "create" \in Failures
    BY <1>2, <2>1, <2>2 DEF OpenFailed, SqliteFailed, MysqlFailed
  <2>4. "freed" \in Handles /\ "null" \in Handles BY DEF Handles
  <2>5. CASE c = "freed"
    <3>1. misused' \in BOOLEAN BY <2>1, <2>5
    <3>2. dumper' = "dead" /\ con' = [con EXCEPT !["dumper"] = "freed"] BY <2>1, <2>5
    <3>3. QED BY <1>5, <2>3, <2>4, <2>5, <3>1, <3>2
  <2>6. CASE c # "freed"
    <3>1. con' = [con EXCEPT !["dumper"] = "null"] /\ misused' = misused /\ dumper' = dumper
      BY <2>1, <2>6
    <3>2. QED BY <1>2, <1>5, <2>2, <2>4, <3>1
  <2>7. QED BY <2>5, <2>6
<1>9. CASE CloseDump \/ CommitFails
  <2>1. /\ con' = [con EXCEPT !["dumper"] = "null"] /\ misused' = misused
        /\ dumper = "dumping" /\ dumper' = "idle"
    BY <1>9 DEF CloseDump, CommitFails, EndDump, Closed
  <2>2. "null" \in Handles BY DEF Handles
  <2>3. QED BY <1>2, <1>5, <2>1, <2>2
<1>10. CASE Kill
  <2>1. /\ con' = [con EXCEPT !["dumper"] = "null"] /\ misused' = misused
        /\ dumper \in {"opened", "dumping"} /\ dumper' = "dead"
    BY <1>10 DEF Kill
  <2>2. "null" \in Handles BY DEF Handles
  <2>3. QED BY <1>2, <1>5, <2>1, <2>2
<1>11. QED BY <1>6, <1>7, <1>8, <1>9, <1>10 DEF DumperActs

\* And a step of the reader the handle of the dump: a session that is over has
\* closed its own, but for a viewer that was refused.
LEMMA ReaderCloses ==
  ASSUME ConnectionInv, ReaderActs PROVE ConnectionInv'
<1>1. /\ con \in [{"dumper", "reader"} -> Handles] /\ misused \in BOOLEAN
      /\ AtRest /\ con["reader"] # "null" =>
           con["reader"] = "failed" /\ session.viewer # "load" /\ session.outcome = "not_opened"
      /\ dumper = "idle" => con["dumper"] = "null"
      /\ misused => engine = "Sqlite" /\ dumper = "dead" /\ "create" \in Failures
  BY DEF ConnectionInv, ConnectionsClosed
<1>2. UNCHANGED <<engine, dumpVars, misused>> /\ disturbed' \in BOOLEAN
  BY DEF ConnectionInv, ReaderActs, Session, ReadInfo, NoInfo, FirstState, NextState, ReadState, NoState,
         ReadFollower, Reads, BeginSession, SessionRefused
<1>3. (dumper = "idle" => ~ locked /\ tables = disk)' /\ DumpInv' /\ dumper' = dumper
  <2>1. DumpInv' BY <1>2, ReaderKeepsTables DEF ConnectionInv
  <2>2. QED BY <1>2, <2>1 DEF dumpVars, DumpInv, DumpTypes, DumpProgress
<1>4. SUFFICES
        /\ "place" \in DOMAIN session'
        /\ con' \in [{"dumper", "reader"} -> Handles] /\ con'["dumper"] = con["dumper"]
        /\ AtRest' /\ con'["reader"] # "null" =>
             /\ con'["reader"] = "failed"
             /\ session'.viewer # "load" /\ session'.outcome = "not_opened"
  BY <1>1, <1>2, <1>3 DEF ConnectionInv, ConnectionsClosed
<1>5. ASSUME NEW c \in Handles, con' = [con EXCEPT !["reader"] = c]
      PROVE  /\ con' \in [{"dumper", "reader"} -> Handles]
             /\ con'["dumper"] = con["dumper"] /\ con'["reader"] = c
  BY <1>1, <1>5
<1>6. "null" \in Handles BY DEF Handles
<1>7. "place" \in DOMAIN session BY DEF ConnectionInv
<1>14. "place" \in DOMAIN session'
  <2>1. ASSUME NEW r \in Requests, BeginSession(r[1], r[2]) \/ SessionRefused(r[1], r[2])
        PROVE  "place" \in DOMAIN session'
    BY <2>1 DEF BeginSession, SessionRefused, Fresh
  <2>2. CASE ReadInfo BY <1>7, <2>2 DEF ReadInfo, GoesOn
  <2>3. CASE NoInfo BY <1>7, <2>3 DEF NoInfo, Ends
  <2>4. CASE FirstState \/ NextState BY <1>7, <2>4 DEF FirstState, NextState, At, GoesOn, Ends
  <2>5. CASE ReadState BY <1>7, <2>5 DEF ReadState, GoesOn, Ends
  <2>6. CASE NoState BY <1>7, <2>6 DEF NoState, Ends, Exits
  <2>7. CASE ReadFollower BY <1>7, <2>7 DEF ReadFollower, GoesOn, Ends, Exits
  <2>8. QED BY <2>1, <2>2, <2>3, <2>4, <2>5, <2>6, <2>7 DEF ReaderActs, Session
<1>8. CASE con' = [con EXCEPT !["reader"] = "null"] BY <1>5, <1>6, <1>8, <1>14
<1>9. CASE con' = con /\ ~ AtRest' BY <1>1, <1>9, <1>14
<1>10. CASE \E r \in Requests : BeginSession(r[1], r[2])
  <2>1. PICK r \in Requests : BeginSession(r[1], r[2]) BY <1>10
  <2>2. PICK c \in Opened(FALSE) : con' = [con EXCEPT !["reader"] = c] BY <2>1 DEF BeginSession
  <2>3. c \in Handles BY DEF Opened, Handles
  <2>4. session'.place \in {"info", "row"} BY <2>1 DEF BeginSession, Fresh
  <2>5. ~ AtRest' BY <2>4 DEF AtRest
  <2>6. QED BY <1>5, <1>14, <2>2, <2>3, <2>5
<1>11. CASE \E r \in Requests : SessionRefused(r[1], r[2])
  <2>1. PICK r \in Requests : SessionRefused(r[1], r[2]) BY <1>11
  <2>2. PICK c \in OpenFailed("reader", FALSE) :
          con' = [con EXCEPT !["reader"] = IF r[1] = "load" THEN "null" ELSE c]
    BY <2>1 DEF SessionRefused, Closed
  <2>3. AtRest /\ session'.viewer = r[1] /\ session'.outcome = "not_opened"
    BY <2>1 DEF SessionRefused, Fresh
  <2>4. c \in {"null", "failed"}
    BY <1>1, <2>3 DEF OpenFailed, SqliteFailed, MysqlFailed
  <2> DEFINE d == IF r[1] = "load" THEN "null" ELSE c
  <2>5. d \in Handles /\ (d # "null" => d = "failed" /\ r[1] # "load")
    BY <1>6, <2>4 DEF Handles
  <2> HIDE DEF d
  <2>6. con' = [con EXCEPT !["reader"] = d] BY <2>2 DEF d
  <2>7. QED BY <1>5, <1>14, <2>3, <2>5, <2>6
<1>12. CASE Session
  <2>1. con' = [con EXCEPT !["reader"] = "null"] \/ con' = con
    BY <1>12 DEF Session, ReadInfo, NoInfo, FirstState, NextState, At, ReadState, NoState,
                 ReadFollower, GoesOn, Ends, Exits, Closed
  <2>2. con' = [con EXCEPT !["reader"] = "null"] \/ ~ AtRest'
    <3>1. CASE ReadInfo
      BY <1>7, <3>1 DEF ReadInfo, Reads, GoesOn, AtRest
    <3>2. CASE NoInfo BY <3>2 DEF NoInfo, Ends, Closed
    <3>3. CASE FirstState \/ NextState
      BY <1>7, <3>3 DEF FirstState, NextState, Reads, At, GoesOn, Ends, Closed, AtRest
    <3>4. CASE ReadState
      BY <1>7, <3>4 DEF ReadState, Reads, GoesOn, Ends, Closed, AtRest
    <3>5. CASE NoState BY <3>5 DEF NoState, Ends, Exits, Closed
    <3>6. CASE ReadFollower
      BY <1>7, <3>6 DEF ReadFollower, Reads, GoesOn, Ends, Exits, Closed, AtRest
    <3>7. QED BY <1>12, <3>1, <3>2, <3>3, <3>4, <3>5, <3>6 DEF Session
  <2>3. QED BY <1>8, <1>9, <2>1, <2>2
<1>13. QED BY <1>10, <1>11, <1>12 DEF ReaderActs

\* Every early return of dumpMemoryToStorage(), loadMemoryFromStorage(), view()
\* and viewState() included, a session or a dump that is over has closed its
\* connection, ended its transaction and released its lock, but for a viewer
\* that could not open its storage.
THEOREM ConnectionsAreClosed == SessionsSpec => []ConnectionsClosed
<1>1. Init => ConnectionInv
  <2> SUFFICES ASSUME Init PROVE ConnectionInv OBVIOUS
  <2>1. /\ con = [side \in {"dumper", "reader"} |-> "null"] /\ ~ misused /\ misused \in BOOLEAN
        /\ dumper = "idle" /\ ~ locked /\ tables = disk
    BY DEF Init
  <2>2. disturbed \in BOOLEAN /\ "place" \in DOMAIN session BY DEF Init, Fresh
  <2>3. DumpInv BY TablesInitial
  <2>4. QED BY <2>1, <2>2, <2>3 DEF ConnectionInv, ConnectionsClosed, Handles
<1>2. ConnectionInv /\ [SessionsNext]_vars => ConnectionInv'
  <2> SUFFICES ASSUME ConnectionInv, [SessionsNext]_vars PROVE ConnectionInv' OBVIOUS
  <2>1. CASE DumperActs BY <2>1, DumperCloses
  <2>2. CASE ReaderActs BY <2>2, ReaderCloses
  <2>3. CASE UNCHANGED vars
    <3>1. /\ UNCHANGED <<engine, tables, disk, dumper, locked, con, misused, session, disturbed>>
          /\ UNCHANGED <<engine, dumpVars>>
      BY <2>3 DEF vars, dumpVars
    <3>2. AtRest' <=> AtRest BY <3>1 DEF AtRest
    <3>3. DumpInv' BY <3>1, ReaderKeepsTables DEF ConnectionInv
    <3>4. QED BY <3>1, <3>2, <3>3 DEF ConnectionInv, ConnectionsClosed
  <2>4. QED BY <2>1, <2>2, <2>3 DEF SessionsNext, DumperActs, ReaderActs
<1>3. ConnectionInv => ConnectionsClosed BY DEF ConnectionInv
<1>4. QED BY <1>1, <1>2, <1>3, PTL DEF SessionsSpec

================================================================================
