--------------------------- MODULE SSEReaderProofs ---------------------------
(***************************************************************************)
(* Reassembly, for a buffer of any size, streams of any lines that fit it  *)
(* and any way the network cuts them.  The invariant says where in the     *)
(* stream bufio's buffer is: what is unread in it is what follows the end  *)
(* of some line, what is in the network comes next, and the reader has     *)
(* seen the lines before as a reader of whole lines would.                 *)
(***************************************************************************)
EXTENDS SSEReader, SequenceTheorems, WellFoundedInduction, TLAPS

\* What is true of 0, and of a number when it is true of the one before, is
\* true of all.
LEMMA NatInductionSet ==
  ASSUME NEW S, 0 \in S, \A n \in Nat : n \in S => n + 1 \in S
  PROVE  Nat \subseteq S
<1> DEFINE Less == {ss \in Nat \X Nat : ss[1] < ss[2]}
           T == Nat \ S
<1>1. IsWellFoundedOn(Less, Nat)
  <2>1. OpToRel(<, Nat) = Less
    BY DEF OpToRel
  <2> QED BY <2>1, NatLessThanWellFounded
<1>2. SUFFICES ASSUME T # {} PROVE FALSE
  OBVIOUS
<1>3. PICK n \in T : \A m \in T : <<m, n>> \notin Less
  <2>1. T \subseteq Nat
    OBVIOUS
  <2> HIDE DEF T, Less
  <2> QED BY <1>1, <1>2, <2>1, WFMin
<1>4. n \in Nat /\ n # 0 /\ n \notin S
  OBVIOUS
<1>5. n - 1 \in Nat /\ (n - 1) + 1 = n
  BY <1>4
<1>6. <<n - 1, n>> \in Nat \X Nat /\ n - 1 < n
  BY <1>4, <1>5
<1>7. <<n - 1, n>> \in Less
  BY <1>6
<1>8. n - 1 \in S
  BY <1>3, <1>5, <1>7
<1> QED BY <1>4, <1>5, <1>8

\* A function may be defined by its first value and the step to the next.
Recursive(f, n, S, base, step) ==
  /\ f \in [0 .. n -> S] /\ f[0] = base
  /\ \A k \in 1 .. n : f[k] = step[<<k, f[k - 1]>>]

LEMMA Recursion ==
  ASSUME NEW S, NEW base \in S, NEW n \in Nat, NEW step \in [(1 .. n) \X S -> S]
  PROVE  \E f : Recursive(f, n, S, base, step)
<1> USE DEF Recursive
<1> DEFINE Right(f, m) == Recursive(f, m, S, base, step)
           T == {m \in Nat : m <= n => \E f : Right(f, m)}
<1>1. 0 \in T
  <2> DEFINE f == [k \in 0 .. 0 |-> base]
  <2>1. Right(f, 0)
    OBVIOUS
  <2> QED BY <2>1
<1>2. ASSUME NEW m \in Nat, m \in T PROVE m + 1 \in T
  <2>1. SUFFICES ASSUME m + 1 <= n PROVE \E f : Right(f, m + 1)
    OBVIOUS
  <2>2. PICK f : Right(f, m)
    BY <1>2, <2>1
  <2>3. m + 1 \in 1 .. n /\ m \in 0 .. m /\ f[m] \in S
    BY <2>1, <2>2
  <2> DEFINE last == step[<<m + 1, f[m]>>]
             more == [k \in 0 .. m + 1 |-> IF k <= m THEN f[k] ELSE last]
  <2>4. last \in S
    BY <2>3
  <2> HIDE DEF last
  <2>5. more \in [0 .. m + 1 -> S] /\ more[0] = base
    BY <2>2, <2>3, <2>4
  <2>6. ASSUME NEW k \in 1 .. m + 1 PROVE more[k] = step[<<k, more[k - 1]>>]
    <3>1. CASE k <= m
      <4>1. k - 1 \in 0 .. m + 1 /\ k - 1 <= m /\ k \in 1 .. m /\ k \in 0 .. m + 1
        BY <3>1
      <4>2. more[k] = f[k] /\ more[k - 1] = f[k - 1]
        BY <3>1, <4>1
      <4> QED BY <2>2, <4>1, <4>2
    <3>2. CASE ~(k <= m)
      <4>1. k = m + 1 /\ k - 1 = m /\ m \in 0 .. m + 1 /\ k \in 0 .. m + 1 /\ m <= m
        BY <3>2
      <4>2. more[k] = last /\ more[k - 1] = f[m]
        BY <3>2, <4>1
      <4> QED BY <4>1, <4>2 DEF last
    <3> QED BY <3>1, <3>2
  <2> HIDE DEF more
  <2> QED BY <2>5, <2>6
<1> HIDE DEF T
<1>3. Nat \subseteq T
  BY <1>1, <1>2, NatInductionSet
<1>4. n \in T /\ n <= n
  BY <1>3
<1> QED BY <1>4 DEF T

-----------------------------------------------------------------------------
\* What is in a cell, in an event, and what a reader has seen.
Kinds == Fields \cup {"text", "end"}
Cell == [kind : Kinds, place : Nat]
Event == [type : Seq(Cell), id : Seq(Cell), data : Seq(Seq(Cell))]
Seen == [events : Seq(Event), event : Event]

\* A line's cells are its field's name and its text, and no line end.
LEMMA CellsOfLine ==
  ASSUME NEW line \in Lines
  PROVE  /\ CellsOf(line) \in Seq(Kinds \ {"end"})
         /\ Len(CellsOf(line)) \in Nat
         /\ DOMAIN CellsOf(line) = 1 .. Len(CellsOf(line))
<1>1. CellsOf(line) \in Seq(Kinds \ {"end"})
  <2>1. CASE line = Blank
    BY <2>1, EmptySeq DEF CellsOf
  <2>2. CASE line # Blank
    <3>1. line.field \in Fields /\ line.length \in Nat
      BY <2>2, ReaderAssumption DEF Lines
    <3>2. line.field \in Kinds \ {"end"}
      BY <3>1, ReaderAssumption DEF Kinds
    <3>3. "text" \in Kinds \ {"end"}
      BY DEF Kinds
    <3> DEFINE text == [i \in 1 .. line.length |-> "text"]
    <3>4. text \in Seq(Kinds \ {"end"})
      BY <3>1, <3>3
    <3>5. <<line.field>> \in Seq(Kinds \ {"end"})
      BY <3>2
    <3> HIDE DEF text
    <3>6. <<line.field>> \o text \in Seq(Kinds \ {"end"})
      BY <3>4, <3>5, ConcatProperties
    <3> QED BY <2>2, <3>6 DEF CellsOf, text
  <2> QED BY <2>1, <2>2
<1> QED BY <1>1, LenProperties

\* The recursive definition of Ends, step by step.
LEMMA EndsSteps ==
  ASSUME NEW ls \in Seq(Lines)
  PROVE  /\ Ends(ls) \in [0 .. Len(ls) -> Nat]
         /\ Ends(ls)[0] = 0
         /\ \A i \in 1 .. Len(ls) :
              Ends(ls)[i] = Ends(ls)[i - 1] + Len(CellsOf(ls[i])) + 1
<1> DEFINE n == Len(ls)
           step == [x \in (1 .. n) \X Nat |-> x[2] + Len(CellsOf(ls[x[1]])) + 1]
<1>1. n \in Nat /\ \A i \in 1 .. n : ls[i] \in Lines
  BY LenProperties, ElementOfSeq
<1>2. \A i \in 1 .. n : Len(CellsOf(ls[i])) \in Nat
  BY <1>1, CellsOfLine
<1>3. step \in [(1 .. n) \X Nat -> Nat]
  <2>1. ASSUME NEW x \in (1 .. n) \X Nat PROVE x[2] + Len(CellsOf(ls[x[1]])) + 1 \in Nat
    <3>1. x[2] \in Nat /\ Len(CellsOf(ls[x[1]])) \in Nat
      BY <1>2
    <3> QED BY <3>1
  <2> QED BY <2>1
<1> HIDE DEF n
<1>4. PICK f : Recursive(f, n, Nat, 0, step)
  <2> HIDE DEF step
  <2> QED BY <1>1, <1>3, Recursion
<1>5. f \in [0 .. n -> Nat] /\ f[0] = 0
  BY <1>4 DEF Recursive
<1>6. ASSUME NEW i \in 1 .. n PROVE f[i] = f[i - 1] + Len(CellsOf(ls[i])) + 1
  <2>1. i - 1 \in 0 .. n
    BY <1>1
  <2>2. <<i, f[i - 1]>> \in (1 .. n) \X Nat
    BY <1>5, <2>1
  <2>3. f[i] = step[<<i, f[i - 1]>>]
    BY <1>4 DEF Recursive
  <2> QED BY <2>2, <2>3
<1>7. Ends(ls) = f
  <2> DEFINE Value(g, i) ==
               IF i = 0 THEN 0 ELSE g[i - 1] + Len(CellsOf(ls[i])) + 1
             Equation(g) == g = [i \in 0 .. n |-> Value(g, i)]
             ends == CHOOSE g : Equation(g)
  <2>1. Ends(ls) = ends
    BY DEF Ends, n
  <2>2. Equation(f)
    <3>1. ASSUME NEW i \in 0 .. n PROVE f[i] = Value(f, i)
      BY <1>1, <1>5, <1>6
    <3> QED BY <1>5, <3>1
  <2>3. Equation(ends)
    <3> HIDE DEF Equation
    <3> QED BY <2>2
  <2> HIDE DEF ends
  <2>4. \A i \in 0 .. n : ends[i] = f[i]
    <3> DEFINE T == {i \in Nat : i <= n => ends[i] = f[i]}
    <3>1. 0 \in T
      <4>1. ends[0] = 0
        BY <1>1, <2>3
      <4> QED BY <1>5, <4>1
    <3>2. ASSUME NEW i \in Nat, i \in T PROVE i + 1 \in T
      <4>1. SUFFICES ASSUME i + 1 <= n PROVE ends[i + 1] = f[i + 1]
        OBVIOUS
      <4>2. i + 1 \in 1 .. n /\ i + 1 \in 0 .. n /\ i + 1 # 0 /\ (i + 1) - 1 = i /\ i <= n
        BY <1>1, <4>1
      <4>3. ends[i + 1] = Value(ends, i + 1)
        BY <2>3, <4>2
      <4>4. ends[i] = f[i]
        BY <3>2, <4>2
      <4>5. f[i + 1] = f[i] + Len(CellsOf(ls[i + 1])) + 1
        BY <1>6, <4>2
      <4> QED BY <4>2, <4>3, <4>4, <4>5
    <3> HIDE DEF T
    <3>3. Nat \subseteq T
      BY <3>1, <3>2, NatInductionSet
    <3> QED BY <1>1, <3>3 DEF T
  <2>5. DOMAIN ends = 0 .. n
    BY <2>3
  <2>6. ends = [i \in 0 .. n |-> f[i]]
    <3>1. ends = [i \in 0 .. n |-> Value(ends, i)]
      BY <2>3
    <3>2. ends = [i \in DOMAIN ends |-> ends[i]]
      BY <3>1
    <3> QED BY <2>4, <2>5, <3>2
  <2> QED BY <1>5, <2>1, <2>6
<1> QED BY <1>5, <1>6, <1>7 DEF n

-----------------------------------------------------------------------------
\* The cells of a line at their places in the stream.
LEMMA LineCellsType ==
  ASSUME NEW ls \in Seq(Lines), NEW i \in 1 .. Len(ls)
  PROVE  /\ LineCells(ls, i) \in Seq(Cell)
         /\ Len(LineCells(ls, i)) = Len(CellsOf(ls[i]))
         /\ Len(CellsOf(ls[i])) \in Nat
         /\ \A j \in 1 .. Len(CellsOf(ls[i])) :
              /\ LineCells(ls, i)[j].kind # "end"
              /\ LineCells(ls, i)[j] \in Cell
<1> DEFINE n == Len(CellsOf(ls[i]))
<1>1. ls[i] \in Lines /\ i - 1 \in 0 .. Len(ls)
  BY LenProperties, ElementOfSeq
<1>2. /\ CellsOf(ls[i]) \in Seq(Kinds \ {"end"})
      /\ n \in Nat /\ DOMAIN CellsOf(ls[i]) = 1 .. n
  BY <1>1, CellsOfLine
<1>3. Ends(ls)[i - 1] \in Nat
  BY <1>1, EndsSteps
<1>4. ASSUME NEW j \in 1 .. n
      PROVE  /\ CellsOf(ls[i])[j] \in Kinds /\ CellsOf(ls[i])[j] # "end"
             /\ [kind |-> CellsOf(ls[i])[j], place |-> Ends(ls)[i - 1] + j] \in Cell
  <2>1. CellsOf(ls[i])[j] \in Kinds \ {"end"}
    BY <1>2, ElementOfSeq
  <2>2. Ends(ls)[i - 1] + j \in Nat
    BY <1>2, <1>3
  <2> QED BY <2>1, <2>2 DEF Cell
<1> HIDE DEF n
<1>5. LineCells(ls, i)
        = [j \in 1 .. n |-> [kind |-> CellsOf(ls[i])[j], place |-> Ends(ls)[i - 1] + j]]
  BY <1>2 DEF LineCells
<1>6. LineCells(ls, i) \in Seq(Cell) /\ Len(LineCells(ls, i)) = n
  BY <1>2, <1>4, <1>5
<1> QED BY <1>2, <1>4, <1>5, <1>6 DEF n

\* A line changes the event that is being read.
LEMMA ParseLineType ==
  ASSUME NEW ev \in Event, NEW cells \in Seq(Cell), cells # <<>>
  PROVE  ParseLine(ev, cells) \in Event
<1>1. Values(cells) \in Seq(Cell)
  BY HeadTailProperties DEF Values
<1>2. Append(ev.data, Values(cells)) \in Seq(Seq(Cell))
  BY <1>1, AppendProperties DEF Event
<1> QED BY <1>1, <1>2 DEF ParseLine, Event

LEMMA NoEventType == NoEvent \in Event
BY EmptySeq DEF NoEvent, Event

\* The end of an event.
LEMMA FinishType ==
  ASSUME NEW state \in Seen
  PROVE  /\ Finish(state) \in Seq(Event)
         /\ Finish(state) = state.events
              \/ Finish(state) = Append(state.events, state.event)
<1>1. state.events \in Seq(Event) /\ state.event \in Event
  BY DEF Seen
<1>2. Append(state.events, state.event) \in Seq(Event)
  BY <1>1, AppendProperties
<1> QED BY <1>1, <1>2 DEF Finish

LEMMA ReadWholeType ==
  ASSUME NEW state \in Seen, NEW cells \in Seq(Cell)
  PROVE  /\ ReadWhole(state, cells) \in Seen
         /\ cells # <<>> =>
              /\ ReadWhole(state, cells).events = state.events
              /\ ReadWhole(state, cells).event = ParseLine(state.event, cells)
         /\ cells = <<>> =>
              /\ ReadWhole(state, cells).events = Finish(state)
              /\ ReadWhole(state, cells).event = NoEvent
<1>1. CASE cells # <<>>
  <2>1. ReadWhole(state, cells) = [state EXCEPT !.event = ParseLine(state.event, cells)]
    BY <1>1 DEF ReadWhole
  <2>2. ParseLine(state.event, cells) \in Event
    BY <1>1, ParseLineType DEF Seen
  <2> QED BY <1>1, <2>1, <2>2 DEF Seen
<1>2. CASE cells = <<>>
  <2>1. ReadWhole(state, cells) = [events |-> Finish(state), event |-> NoEvent]
    BY <1>2 DEF ReadWhole
  <2> QED BY <1>2, <2>1, FinishType, NoEventType DEF Seen
<1> QED BY <1>1, <1>2

\* The recursive definition of After, step by step.
LEMMA AfterSteps ==
  ASSUME NEW ls \in Seq(Lines)
  PROVE  /\ After(ls) \in [0 .. Len(ls) -> Seen]
         /\ After(ls)[0] = [events |-> <<>>, event |-> NoEvent]
         /\ \A i \in 1 .. Len(ls) :
              After(ls)[i] = ReadWhole(After(ls)[i - 1], LineCells(ls, i))
<1> DEFINE n == Len(ls)
           base == [events |-> <<>>, event |-> NoEvent]
           step == [x \in (1 .. n) \X Seen |-> ReadWhole(x[2], LineCells(ls, x[1]))]
<1>1. n \in Nat /\ \A i \in 1 .. n : LineCells(ls, i) \in Seq(Cell)
  BY LenProperties, LineCellsType
<1>2. base \in Seen
  BY NoEventType, EmptySeq DEF Seen
<1>3. step \in [(1 .. n) \X Seen -> Seen]
  <2>1. ASSUME NEW x \in (1 .. n) \X Seen
        PROVE  ReadWhole(x[2], LineCells(ls, x[1])) \in Seen
    <3>1. x[2] \in Seen /\ LineCells(ls, x[1]) \in Seq(Cell)
      BY <1>1
    <3> QED BY <3>1, ReadWholeType
  <2> QED BY <2>1
<1> HIDE DEF n, base
<1>4. PICK f : Recursive(f, n, Seen, base, step)
  <2> HIDE DEF step
  <2> QED BY <1>1, <1>2, <1>3, Recursion
<1>5. f \in [0 .. n -> Seen] /\ f[0] = base
  BY <1>4 DEF Recursive
<1>6. ASSUME NEW i \in 1 .. n PROVE f[i] = ReadWhole(f[i - 1], LineCells(ls, i))
  <2>1. i - 1 \in 0 .. n
    BY <1>1
  <2>2. <<i, f[i - 1]>> \in (1 .. n) \X Seen
    BY <1>5, <2>1
  <2>3. f[i] = step[<<i, f[i - 1]>>]
    BY <1>4 DEF Recursive
  <2> QED BY <2>2, <2>3
<1>7. After(ls) = f
  <2> DEFINE Value(g, i) ==
               IF i = 0 THEN base ELSE ReadWhole(g[i - 1], LineCells(ls, i))
             Equation(g) == g = [i \in 0 .. n |-> Value(g, i)]
             after == CHOOSE g : Equation(g)
  <2>1. After(ls) = after
    BY DEF After, n, base
  <2>2. Equation(f)
    <3>1. ASSUME NEW i \in 0 .. n PROVE f[i] = Value(f, i)
      BY <1>1, <1>5, <1>6
    <3> QED BY <1>5, <3>1
  <2>3. Equation(after)
    <3> HIDE DEF Equation
    <3> QED BY <2>2
  <2> HIDE DEF after
  <2>4. \A i \in 0 .. n : after[i] = f[i]
    <3> DEFINE T == {i \in Nat : i <= n => after[i] = f[i]}
    <3>1. 0 \in T
      <4>1. after[0] = base
        BY <1>1, <2>3
      <4> QED BY <1>5, <4>1
    <3>2. ASSUME NEW i \in Nat, i \in T PROVE i + 1 \in T
      <4>1. SUFFICES ASSUME i + 1 <= n PROVE after[i + 1] = f[i + 1]
        OBVIOUS
      <4>2. i + 1 \in 1 .. n /\ i + 1 \in 0 .. n /\ i + 1 # 0 /\ (i + 1) - 1 = i /\ i <= n
        BY <1>1, <4>1
      <4>3. after[i + 1] = Value(after, i + 1)
        BY <2>3, <4>2
      <4>4. after[i] = f[i]
        BY <3>2, <4>2
      <4>5. f[i + 1] = ReadWhole(f[i], LineCells(ls, i + 1))
        BY <1>6, <4>2
      <4> QED BY <4>2, <4>3, <4>4, <4>5
    <3> HIDE DEF T
    <3>3. Nat \subseteq T
      BY <3>1, <3>2, NatInductionSet
    <3> QED BY <1>1, <3>3 DEF T
  <2>5. after = [i \in 0 .. n |-> after[i]]
    BY <2>3
  <2>6. after = [i \in 0 .. n |-> f[i]]
    BY <2>4, <2>5
  <2> QED BY <1>5, <2>1, <2>6
<1> QED BY <1>5, <1>6, <1>7 DEF n, base

-----------------------------------------------------------------------------
\* Every line has its place in the stream, with a cell for its end.
LEMMA EndsGrow ==
  ASSUME NEW ls \in Seq(Lines)
  PROVE  /\ Len(ls) \in Nat
         /\ \A i \in 0 .. Len(ls) : Ends(ls)[i] \in Nat
         /\ \A i, k \in 0 .. Len(ls) : i < k => Ends(ls)[i] < Ends(ls)[k]
<1> DEFINE n == Len(ls)
           T == {k \in Nat : k <= n => \A i \in 0 .. n : i < k => Ends(ls)[i] < Ends(ls)[k]}
<1>1. n \in Nat /\ \A i \in 0 .. n : Ends(ls)[i] \in Nat
  BY EndsSteps, LenProperties
<1>2. 0 \in T
  BY <1>1
<1>3. ASSUME NEW k \in Nat, k \in T PROVE k + 1 \in T
  <2>1. SUFFICES ASSUME k + 1 <= n, NEW i \in 0 .. n, i < k + 1
                 PROVE  Ends(ls)[i] < Ends(ls)[k + 1]
    OBVIOUS
  <2>2. k + 1 \in 1 .. n /\ (k + 1) - 1 = k /\ k \in 0 .. n /\ k <= n /\ ls[k + 1] \in Lines
    BY <1>1, <2>1, ElementOfSeq
  <2>3. Ends(ls)[k + 1] = Ends(ls)[k] + Len(CellsOf(ls[k + 1])) + 1
    BY <2>2, EndsSteps
  <2>4. Len(CellsOf(ls[k + 1])) \in Nat
    BY <2>2, CellsOfLine
  <2>5. Ends(ls)[k] < Ends(ls)[k + 1]
    BY <1>1, <2>2, <2>3, <2>4
  <2>6. i = k \/ Ends(ls)[i] < Ends(ls)[k]
    BY <1>3, <2>1, <2>2
  <2>7. Ends(ls)[i] \in Nat /\ Ends(ls)[k] \in Nat /\ Ends(ls)[k + 1] \in Nat
    BY <1>1, <2>2
  <2> QED BY <2>5, <2>6, <2>7
<1> HIDE DEF T
<1>4. Nat \subseteq T
  BY <1>2, <1>3, NatInductionSet
<1> QED BY <1>1, <1>4 DEF T

LEMMA PlaceHasLine ==
  ASSUME NEW ls \in Seq(Lines), NEW p \in 1 .. Ends(ls)[Len(ls)]
  PROVE  \E i \in 1 .. Len(ls) : Ends(ls)[i - 1] < p /\ p <= Ends(ls)[i]
<1> DEFINE n == Len(ls)
           T == {k \in Nat : k <= n /\ p <= Ends(ls)[k] =>
                   \E i \in 1 .. n : Ends(ls)[i - 1] < p /\ p <= Ends(ls)[i]}
<1>1. n \in Nat /\ Ends(ls)[0] = 0 /\ \A i \in 0 .. n : Ends(ls)[i] \in Nat
  BY EndsSteps, EndsGrow
<1>2. p \in Nat /\ 1 <= p /\ p <= Ends(ls)[n]
  BY <1>1
<1>3. 0 \in T
  BY <1>1, <1>2
<1>4. ASSUME NEW k \in Nat, k \in T PROVE k + 1 \in T
  <2>1. SUFFICES ASSUME k + 1 <= n, p <= Ends(ls)[k + 1]
                 PROVE  \E i \in 1 .. n : Ends(ls)[i - 1] < p /\ p <= Ends(ls)[i]
    OBVIOUS
  <2>2. k + 1 \in 1 .. n /\ (k + 1) - 1 = k /\ k <= n /\ Ends(ls)[k] \in Nat
    BY <1>1, <2>1
  <2>3. CASE p <= Ends(ls)[k]
    BY <1>4, <2>2, <2>3
  <2>4. CASE ~(p <= Ends(ls)[k])
    <3>1. Ends(ls)[(k + 1) - 1] < p
      BY <1>2, <2>2, <2>4
    <3> QED BY <2>1, <2>2, <3>1
  <2> QED BY <2>3, <2>4
<1> HIDE DEF T
<1>5. Nat \subseteq T
  BY <1>3, <1>4, NatInductionSet
<1> QED BY <1>1, <1>2, <1>5 DEF T

\* The cells of a stream are those of its lines, with their ends.
LEMMA StreamCells ==
  ASSUME NEW ls \in Seq(Lines), NEW isEnded \in BOOLEAN
  PROVE  /\ Encode(ls, isEnded) \in Seq(Cell)
         /\ Len(Encode(ls, isEnded))
              = Ends(ls)[Len(ls)] - (IF isEnded \/ ls = <<>> THEN 0 ELSE 1)
         /\ \A i \in 1 .. Len(ls) : \A j \in 1 .. Len(CellsOf(ls[i])) + 1 :
              Ends(ls)[i - 1] + j <= Len(Encode(ls, isEnded)) =>
                IF j = Len(CellsOf(ls[i])) + 1
                  THEN Encode(ls, isEnded)[Ends(ls)[i - 1] + j].kind = "end"
                  ELSE Encode(ls, isEnded)[Ends(ls)[i - 1] + j] = LineCells(ls, i)[j]
<1> DEFINE n == Len(ls)
           ends == Ends(ls)
           cut == IF isEnded \/ ls = <<>> THEN 0 ELSE 1
           size == ends[n] - cut
           In(i, p) == ends[i - 1] < p /\ p <= ends[i]
           lineAt(p) == CHOOSE i \in 1 .. n : In(i, p)
           cell(p) == IF p = ends[lineAt(p)]
                        THEN [kind |-> "end", place |-> p]
                        ELSE LineCells(ls, lineAt(p))[p - ends[lineAt(p) - 1]]
<1>1. n \in Nat /\ DOMAIN ls = 1 .. n /\ (ls = <<>> <=> n = 0)
  BY LenProperties, EmptySeq
<1>2. /\ \A i \in 0 .. n : ends[i] \in Nat
      /\ \A i, k \in 0 .. n : i < k => ends[i] < ends[k]
      /\ ends[0] = 0
  BY EndsGrow, EndsSteps
<1>3. \A i \in 1 .. n : ends[i] = ends[i - 1] + Len(CellsOf(ls[i])) + 1
  BY EndsSteps
<1>4. \A i \in 1 .. n : Len(CellsOf(ls[i])) \in Nat
  BY LineCellsType
<1>5. size \in Nat /\ size <= ends[n]
  <2>1. CASE n = 0
    BY <1>1, <1>2, <2>1
  <2>2. CASE n # 0
    <3>1. 0 \in 0 .. n /\ n \in 0 .. n /\ 0 < n
      BY <1>1, <2>2
    <3>2. ends[0] < ends[n]
      BY <1>2, <3>1
    <3>3. ends[n] \in Nat /\ ends[n] > 0
      BY <1>2, <3>1, <3>2
    <3>4. cut = 0 \/ cut = 1
      OBVIOUS
    <3> QED BY <3>3, <3>4
  <2> QED BY <2>1, <2>2
<1>6. Encode(ls, isEnded) = [p \in 1 .. size |-> cell(p)]
  BY <1>1 DEF Encode
<1>7. ASSUME NEW i \in 1 .. n, NEW j \in 1 .. Len(CellsOf(ls[i])) + 1
      PROVE  /\ ends[i - 1] + j \in Nat
             /\ lineAt(ends[i - 1] + j) = i
             /\ ends[i - 1] + j = ends[i] <=> j = Len(CellsOf(ls[i])) + 1
  <2>1. i - 1 \in 0 .. n /\ i \in 0 .. n /\ j \in Nat /\ 1 <= j
    BY <1>1, <1>4
  <2>2. /\ ends[i - 1] \in Nat /\ ends[i] \in Nat
        /\ ends[i] = ends[i - 1] + Len(CellsOf(ls[i])) + 1
        /\ Len(CellsOf(ls[i])) \in Nat
    BY <1>2, <1>3, <1>4, <2>1
  <2> DEFINE p == ends[i - 1] + j
  <2>3. p \in Nat /\ In(i, p)
    BY <2>1, <2>2
  <2> HIDE DEF p
  <2>4. ASSUME NEW k \in 1 .. n, In(k, p) PROVE k = i
    <3>1. k - 1 \in 0 .. n /\ k \in 0 .. n /\ k \in Nat /\ i \in Nat
      BY <1>1
    <3>2. ends[k - 1] \in Nat /\ ends[k] \in Nat
      BY <1>2, <3>1
    <3>3. CASE k < i
      <4>1. CASE k = i - 1
        <5>1. p <= ends[i - 1]
          BY <2>4, <4>1
        <5> QED BY <2>2, <2>3, <5>1
      <4>2. CASE k < i - 1
        <5>1. ends[k] < ends[i - 1]
          BY <1>2, <2>1, <3>1, <4>2
        <5>2. p <= ends[k] /\ ends[i - 1] < p
          BY <2>3, <2>4
        <5> QED BY <2>2, <2>3, <3>2, <5>1, <5>2
      <4> QED BY <3>1, <3>3, <4>1, <4>2
    <3>4. CASE i < k
      <4>1. CASE i = k - 1
        <5>1. ends[i] < p
          BY <2>4, <4>1
        <5> QED BY <2>2, <2>3, <5>1
      <4>2. CASE i < k - 1
        <5>1. ends[i] < ends[k - 1]
          BY <1>2, <2>1, <3>1, <4>2
        <5>2. p <= ends[i] /\ ends[k - 1] < p
          BY <2>3, <2>4
        <5> QED BY <2>2, <2>3, <3>2, <5>1, <5>2
      <4> QED BY <3>1, <3>4, <4>1, <4>2
    <3> QED BY <3>1, <3>3, <3>4
  <2> HIDE DEF p, In
  <2>5. lineAt(p) = i
    BY <2>3, <2>4
  <2>6. p = ends[i] <=> j = Len(CellsOf(ls[i])) + 1
    <3> DEFINE a == ends[i - 1]
               b == ends[i]
               m == Len(CellsOf(ls[i]))
    <3>1. a \in Nat /\ m \in Nat /\ b = a + m + 1 /\ j \in Nat
      BY <2>1, <2>2
    <3> HIDE DEF a, b, m
    <3>2. a + j = b <=> j = m + 1
      BY <3>1
    <3> QED BY <3>2 DEF p, a, b, m
  <2> QED BY <2>3, <2>5, <2>6 DEF p
<1>8. ASSUME NEW i \in 1 .. n, NEW j \in 1 .. Len(CellsOf(ls[i])) + 1
      PROVE  cell(ends[i - 1] + j)
               = IF j = Len(CellsOf(ls[i])) + 1
                   THEN [kind |-> "end", place |-> ends[i - 1] + j]
                   ELSE LineCells(ls, i)[j]
  <2>1. (ends[i - 1] + j) - ends[i - 1] = j
    <3>1. i - 1 \in 0 .. n /\ j \in Nat
      BY <1>1, <1>4
    <3> DEFINE a == ends[i - 1]
    <3>2. a \in Nat
      BY <1>2, <3>1
    <3> HIDE DEF a
    <3>3. (a + j) - a = j
      BY <3>1, <3>2
    <3> QED BY <3>3 DEF a
  <2> DEFINE q == ends[i - 1] + j
  <2>2. lineAt(q) = i /\ (q = ends[i] <=> j = Len(CellsOf(ls[i])) + 1) /\ q - ends[i - 1] = j
    BY <1>7, <2>1
  <2> HIDE DEF lineAt, q, ends
  <2>3. cell(q) = IF q = ends[i] THEN [kind |-> "end", place |-> q]
                                 ELSE LineCells(ls, i)[q - ends[i - 1]]
    BY <2>2
  <2> QED BY <2>2, <2>3 DEF q
<1>9. ASSUME NEW p \in 1 .. size PROVE cell(p) \in Cell
  <2>1. p \in 1 .. ends[n]
    BY <1>1, <1>2, <1>5
  <2>2. PICK i \in 1 .. n : ends[i - 1] < p /\ p <= ends[i]
    BY <2>1, PlaceHasLine
  <2>3. i - 1 \in 0 .. n /\ ends[i - 1] \in Nat /\ ends[i] \in Nat /\ p \in Nat
    BY <1>1, <1>2, <1>5
  <2> DEFINE j == p - ends[i - 1]
  <2>4. Len(CellsOf(ls[i])) \in Nat /\ ends[i] = ends[i - 1] + Len(CellsOf(ls[i])) + 1
    BY <1>3, <1>4
  <2>5. j \in 1 .. Len(CellsOf(ls[i])) + 1 /\ ends[i - 1] + j = p
    BY <2>2, <2>3, <2>4
  <2> HIDE DEF j, cell
  <2>6. cell(p) = IF j = Len(CellsOf(ls[i])) + 1
                    THEN [kind |-> "end", place |-> p]
                    ELSE LineCells(ls, i)[j]
    BY <1>8, <2>5
  <2>7. CASE j = Len(CellsOf(ls[i])) + 1
    BY <2>3, <2>6, <2>7 DEF Cell, Kinds
  <2>8. CASE j # Len(CellsOf(ls[i])) + 1
    <3>1. j \in 1 .. Len(CellsOf(ls[i]))
      BY <2>4, <2>5, <2>8
    <3> QED BY <2>6, <2>8, <3>1, LineCellsType
  <2> QED BY <2>7, <2>8
<1> HIDE DEF cell, size
<1>10. Encode(ls, isEnded) \in Seq(Cell) /\ Len(Encode(ls, isEnded)) = size
  BY <1>5, <1>6, <1>9
<1>11. ASSUME NEW i \in 1 .. n, NEW j \in 1 .. Len(CellsOf(ls[i])) + 1,
              ends[i - 1] + j <= size
       PROVE  Encode(ls, isEnded)[ends[i - 1] + j] = cell(ends[i - 1] + j)
  <2>1. i - 1 \in 0 .. n /\ j \in Nat /\ 1 <= j
    BY <1>1, <1>4
  <2>2. ends[i - 1] \in Nat
    BY <1>2, <2>1
  <2>3. ends[i - 1] + j \in 1 .. size
    BY <1>5, <1>11, <2>1, <2>2
  <2> QED BY <1>6, <2>3
<1>12. ASSUME NEW i \in 1 .. n, NEW j \in 1 .. Len(CellsOf(ls[i])) + 1,
              ends[i - 1] + j <= size
       PROVE  IF j = Len(CellsOf(ls[i])) + 1
                THEN Encode(ls, isEnded)[ends[i - 1] + j].kind = "end"
                ELSE Encode(ls, isEnded)[ends[i - 1] + j] = LineCells(ls, i)[j]
  <2> DEFINE e == Encode(ls, isEnded)[ends[i - 1] + j]
  <2>1. e = cell(ends[i - 1] + j)
    BY <1>11, <1>12
  <2>2. cell(ends[i - 1] + j)
          = IF j = Len(CellsOf(ls[i])) + 1
              THEN [kind |-> "end", place |-> ends[i - 1] + j]
              ELSE LineCells(ls, i)[j]
    BY <1>8
  <2> HIDE DEF e
  <2>3. IF j = Len(CellsOf(ls[i])) + 1 THEN e.kind = "end" ELSE e = LineCells(ls, i)[j]
    BY <2>1, <2>2
  <2> QED BY <2>3 DEF e
<1> HIDE DEF ends, n
<1>13. \A i \in 1 .. n : \A j \in 1 .. Len(CellsOf(ls[i])) + 1 :
         ends[i - 1] + j <= Len(Encode(ls, isEnded)) =>
           IF j = Len(CellsOf(ls[i])) + 1
             THEN Encode(ls, isEnded)[ends[i - 1] + j].kind = "end"
             ELSE Encode(ls, isEnded)[ends[i - 1] + j] = LineCells(ls, i)[j]
  BY <1>10, <1>12
<1> QED BY <1>10, <1>13 DEF size, ends, n, cut

-----------------------------------------------------------------------------
\* The inductive invariant.

Typed ==
  /\ lines \in Seq(Lines) /\ ended \in BOOLEAN /\ broken \in BOOLEAN
  /\ network \in Seq(Cell)
  /\ buf \in [1 .. BufSize -> Cell] /\ r \in 0 .. BufSize /\ w \in r .. BufSize
  /\ pc \in {"line", "rest", "eof", "failed"}
  /\ fullLine \in Seq(Cell) /\ aliased \in BOOLEAN
  /\ aliased => pc \in {"rest", "eof", "failed"}
  /\ event \in Event /\ events \in Seq(Event)

Text == Encode(lines, ended)

\* Where in the text bufio's buffer ends when k lines have been taken from it.
Reach(k) == Ends(lines)[k] + (w - r)

\* Some lines were taken, and what is unread follows them.
AtLine(k) ==
  /\ pc = "line" /\ Reach(k) <= Len(Text)
  /\ \A i \in 1 .. w - r : buf[r + i] = Text[Ends(lines)[k] + i]
  /\ broken => network = <<>>
  /\ ~broken => /\ Reach(k) + Len(network) = Len(Text)
                /\ \A i \in 1 .. Len(network) : network[i] = Text[Reach(k) + i]
  /\ events = After(lines)[k].events /\ event = After(lines)[k].event

\* The stream was read to its end; one event may be left to return.
AllRead ==
  /\ ~broken /\ network = <<>> /\ r = w
  /\ pc \in {"line", "eof"} /\ (pc = "eof" => ~Started(event))
  /\ Finish([events |-> events, event |-> event]) = EventsOfLines

\* The connection broke inside a line, of which the reader took what it got.
CutOff ==
  /\ broken /\ network = <<>> /\ r = w
  /\ pc \in {"line", "failed"}
  /\ \E k \in 0 .. Len(lines) : events = After(lines)[k].events

Position == (\E k \in 0 .. Len(lines) : AtLine(k)) \/ AllRead \/ CutOff

Inv == Typed /\ (FitsBuffer => Position)

\* A set of numbers that is not empty has a least one.
LEMMA LeastNat ==
  ASSUME NEW S, S \subseteq Nat, S # {}
  PROVE  \E i \in S : \A j \in S : i <= j
<1>1. PICK i \in S : \A j \in S : <<j, i>> \notin OpToRel(<, Nat)
  BY NatLessThanWellFounded, WFMin
<1>2. \A j \in S : ~(j < i)
  BY <1>1 DEF OpToRel
<1> QED BY <1>2

LEMMA LinesType == lines \in BoundedSeq(Lines, MaxLines) => lines \in Seq(Lines)
<1> SUFFICES ASSUME lines \in BoundedSeq(Lines, MaxLines) PROVE lines \in Seq(Lines)
  OBVIOUS
<1>1. PICK m \in 0 .. MaxLines : lines \in [1 .. m -> Lines]
  BY DEF BoundedSeq, SeqOf
<1>2. m \in Nat
  BY ReaderAssumption
<1> QED BY <1>1, <1>2

LEMMA NoCellType == NoCell \in Cell
BY DEF NoCell, Cell, Kinds

LEMMA InitTyped == Init => Typed
<1> SUFFICES ASSUME Init PROVE Typed
  OBVIOUS
<1>1. lines \in Seq(Lines) /\ ended \in BOOLEAN
  BY LinesType DEF Init
<1>2. network \in Seq(Cell)
  BY <1>1, StreamCells DEF Init
<1>3. buf \in [1 .. BufSize -> Cell]
  BY NoCellType DEF Init
<1>4. event \in Event /\ events \in Seq(Event) /\ fullLine \in Seq(Cell)
  BY NoEventType, EmptySeq DEF Init
<1>5. r \in 0 .. BufSize /\ w \in r .. BufSize
  BY ReaderAssumption DEF Init
<1>6. /\ pc \in {"line", "rest", "eof", "failed"} /\ broken \in BOOLEAN
      /\ aliased \in BOOLEAN /\ (aliased => pc \in {"rest", "eof", "failed"})
  BY DEF Init
<1> QED BY <1>1, <1>2, <1>3, <1>4, <1>5, <1>6 DEF Typed

\* A line, whole or in parts, is a sequence of cells of the buffer.
LEMMA PartType ==
  ASSUME Typed, NEW a \in r .. w, NEW b \in r .. w
  PROVE  SubSeq(buf, a + 1, b) \in Seq(Cell)
<1>1. r \in Nat /\ w \in Nat /\ w <= BufSize /\ BufSize \in Nat
  BY ReaderAssumption DEF Typed
<1>2. \A i \in a + 1 .. b : i \in 1 .. BufSize
  BY <1>1
<1>3. \A i \in a + 1 .. b : buf[i] \in Cell
  BY <1>2 DEF Typed
<1> QED BY <1>1, <1>3, SubSeqProperties

LEMMA JoinedType == ASSUME Typed PROVE Joined \in Seq(Cell) /\ buf \in Seq(Cell)
<1>1. BufSize \in Nat /\ buf \in [1 .. BufSize -> Cell]
  BY ReaderAssumption DEF Typed
<1>2. buf \in Seq(Cell)
  BY <1>1
<1> QED BY <1>2 DEF Joined, Typed

LEMMA TakeLineTyped ==
  ASSUME Typed, NEW cells \in Seq(Cell), TakeLine(cells)
  PROVE  /\ event' \in Event /\ events' \in Seq(Event)
         /\ pc' = "line" /\ fullLine' = <<>> /\ ~aliased'
<1>1. CASE cells # <<>>
  <2>1. event' = ParseLine(event, cells) /\ events' = events
    BY <1>1 DEF TakeLine
  <2> QED BY <1>1, <2>1, ParseLineType DEF Typed, TakeLine
<1>2. CASE cells = <<>>
  <2>1. events' = events \/ events' = Append(events, event)
    BY <1>2 DEF TakeLine
  <2>2. events \in Seq(Event) /\ Append(events, event) \in Seq(Event)
    BY AppendProperties DEF Typed
  <2>3. events' \in Seq(Event)
    BY <2>1, <2>2
  <2> QED BY <1>2, <2>3, NoEventType DEF TakeLine
<1> QED BY <1>1, <1>2

LEMMA LastPartTyped ==
  ASSUME Typed, NEW cells \in Seq(Cell), LastPart(cells)
  PROVE  /\ event' \in Event /\ events' \in Seq(Event)
         /\ pc' = "line" /\ fullLine' = <<>> /\ ~aliased'
<1>1. Joined \o cells \in Seq(Cell)
  BY JoinedType, ConcatProperties
<1>2. (IF pc = "rest" THEN Joined \o cells ELSE cells) \in Seq(Cell)
  BY <1>1
<1> QED BY <1>2, TakeLineTyped DEF LastPart

LEMMA NextTyped == ASSUME Typed, [Next]_vars PROVE Typed'
<1>1. CASE ReadBufferedLine
  <2> DEFINE e == CHOOSE i \in LineEnds : \A j \in LineEnds : i <= j
  <2>1. e \in LineEnds
    <3>1. LineEnds \subseteq Nat /\ LineEnds # {}
      <4>1. r \in Nat /\ w \in Nat
        BY ReaderAssumption DEF Typed
      <4>2. LineEnds \subseteq Nat
        BY <4>1 DEF LineEnds
      <4>3. LineEnds # {}
        BY <1>1 DEF ReadBufferedLine
      <4> QED BY <4>2, <4>3
    <3>2. \E i \in LineEnds : \A j \in LineEnds : i <= j
      BY <3>1, LeastNat
    <3> QED BY <3>2
  <2>2. LastPart(SubSeq(buf, r + 1, e - 1)) /\ r' = e
    BY <1>1 DEF ReadBufferedLine
  <2> HIDE DEF e
  <2>3. e \in r + 1 .. w /\ e - 1 \in r .. w /\ r \in r .. w /\ e \in 0 .. BufSize /\ w \in e .. BufSize
    BY <2>1, ReaderAssumption DEF LineEnds, Typed
  <2>4. SubSeq(buf, r + 1, e - 1) \in Seq(Cell)
    BY <2>3, PartType
  <2>5. /\ event' \in Event /\ events' \in Seq(Event)
        /\ pc' = "line" /\ fullLine' = <<>> /\ ~aliased'
    BY <2>2, <2>4, LastPartTyped
  <2>6. aliased' \in BOOLEAN
    BY <1>1 DEF ReadBufferedLine, LastPart, TakeLine
  <2> QED BY <1>1, <2>2, <2>3, <2>5, <2>6, EmptySeq DEF ReadBufferedLine, Typed
<1>2. CASE ReadFullBuffer
  <2>1. Joined \o buf \in Seq(Cell)
    BY JoinedType, ConcatProperties
  <2>2. fullLine' \in Seq(Cell) /\ aliased' \in BOOLEAN /\ pc' = "rest"
    BY <1>2, <2>1, EmptySeq DEF ReadFullBuffer, Prefix
  <2>3. r' \in 0 .. BufSize /\ w' \in r' .. BufSize
    BY <1>2, ReaderAssumption DEF ReadFullBuffer, Typed
  <2>4. event' = event /\ events' = events
    BY <1>2 DEF ReadFullBuffer, Prefix
  <2> QED BY <1>2, <2>2, <2>3, <2>4 DEF ReadFullBuffer, Typed
<1>3. CASE Fill
  <2>1. PICK n \in 1 .. Len(network) :
          /\ n <= BufSize - (w - r)
          /\ buf' = [i \in 1 .. BufSize |->
                       IF i <= w - r THEN buf[r + i]
                       ELSE IF i <= w - r + n THEN network[i - (w - r)]
                       ELSE buf[i]]
          /\ r' = 0 /\ w' = w - r + n
          /\ network' = SubSeq(network, n + 1, Len(network))
    BY <1>3 DEF Fill
  <2>2. Len(network) \in Nat /\ BufSize \in Nat /\ n \in Nat /\ r \in Nat /\ w \in Nat
        /\ r <= w /\ w <= BufSize
    BY LenProperties, ReaderAssumption DEF Typed
  <2>3. network' \in Seq(Cell)
    <3>1. \A i \in n + 1 .. Len(network) : network[i] \in Cell
      BY <2>2, ElementOfSeq DEF Typed
    <3> QED BY <2>1, <2>2, <3>1, SubSeqProperties
  <2>4. buf' \in [1 .. BufSize -> Cell]
    <3>1. ASSUME NEW i \in 1 .. BufSize
          PROVE  (IF i <= w - r THEN buf[r + i]
                  ELSE IF i <= w - r + n THEN network[i - (w - r)]
                  ELSE buf[i]) \in Cell
      <4>1. CASE i <= w - r
        <5>1. r + i \in 1 .. BufSize
          BY <2>2, <4>1
        <5> QED BY <4>1, <5>1 DEF Typed
      <4>2. CASE ~(i <= w - r) /\ i <= w - r + n
        <5>1. i - (w - r) \in 1 .. Len(network)
          BY <2>2, <4>2
        <5>2. network[i - (w - r)] \in Cell
          BY <5>1, ElementOfSeq DEF Typed
        <5> QED BY <4>2, <5>2
      <4>3. CASE ~(i <= w - r) /\ ~(i <= w - r + n)
        BY <4>3 DEF Typed
      <4> QED BY <4>1, <4>2, <4>3
    <3> QED BY <2>1, <3>1
  <2>5. r' \in 0 .. BufSize /\ w' \in r' .. BufSize
    BY <2>1, <2>2
  <2> QED BY <1>3, <2>3, <2>4, <2>5 DEF Fill, Typed
<1>4. CASE ReadLastLine
  <2>1. Unread \in Seq(Cell)
    <3>1. r \in r .. w /\ w \in r .. w
      BY ReaderAssumption DEF Typed
    <3> QED BY <3>1, PartType DEF Unread
  <2>2. LastPart(Unread)
    BY <1>4 DEF ReadLastLine
  <2>3. /\ event' \in Event /\ events' \in Seq(Event)
        /\ pc' = "line" /\ fullLine' = <<>> /\ ~aliased'
    BY <2>1, <2>2, LastPartTyped
  <2>4. aliased' \in BOOLEAN
    BY <2>2 DEF LastPart, TakeLine
  <2>5. r' \in 0 .. BufSize /\ w' \in r' .. BufSize
    BY <1>4, ReaderAssumption DEF ReadLastLine, Typed
  <2> QED BY <1>4, <2>3, <2>4, <2>5, EmptySeq DEF ReadLastLine, Typed
<1>5. CASE ReadError
  <2>1. Append(events, event) \in Seq(Event)
    BY AppendProperties DEF Typed
  <2>2. event' \in Event /\ events' \in Seq(Event)
    BY <1>5, <2>1, NoEventType DEF ReadError, Typed
  <2>3. pc' \in {"line", "rest", "eof", "failed"} /\ (aliased' => pc' \in {"rest", "eof", "failed"})
    BY <1>5 DEF ReadError, Typed
  <2> QED BY <1>5, <2>2, <2>3 DEF ReadError, Typed
<1>6. CASE Break
  BY <1>6, EmptySeq DEF Break, Typed
<1>7. CASE Terminated \/ UNCHANGED vars
  BY <1>7 DEF Terminated, vars, Typed
<1> QED BY <1>1, <1>2, <1>3, <1>4, <1>5, <1>6, <1>7 DEF Next

-----------------------------------------------------------------------------
\* What is sent does not change.
LEMMA SameStream ==
  ASSUME UNCHANGED <<lines, ended>>
  PROVE  /\ Text' = Text /\ FitsBuffer' = FitsBuffer
         /\ EventsOfLines' = EventsOfLines
         /\ Ends(lines)' = Ends(lines) /\ After(lines)' = After(lines)
         /\ Len(lines)' = Len(lines)
BY DEF Text, FitsBuffer, EventsOfLines

LEMMA Numbers ==
  ASSUME Typed
  PROVE  /\ Len(lines) \in Nat /\ Len(network) \in Nat
         /\ r \in Nat /\ w \in Nat /\ BufSize \in Nat /\ BufSize > 0
         /\ r <= w /\ w <= BufSize
         /\ \A k \in 0 .. Len(lines) : Ends(lines)[k] \in Nat /\ Reach(k) \in Nat
         /\ Text \in Seq(Cell) /\ Len(Text) \in Nat
         /\ Len(Text) = Ends(lines)[Len(lines)]
                          - (IF ended \/ lines = <<>> THEN 0 ELSE 1)
         /\ Len(Text) <= Ends(lines)[Len(lines)]
<1>1. lines \in Seq(Lines) /\ ended \in BOOLEAN /\ network \in Seq(Cell)
  BY DEF Typed
<1>2. Len(lines) \in Nat /\ \A k \in 0 .. Len(lines) : Ends(lines)[k] \in Nat
  BY <1>1, EndsGrow
<1>3. /\ r \in Nat /\ w \in Nat /\ BufSize \in Nat /\ BufSize > 0
      /\ r <= w /\ w <= BufSize
  BY ReaderAssumption DEF Typed
<1>4. ASSUME NEW k \in 0 .. Len(lines) PROVE Reach(k) \in Nat
  <2>1. Ends(lines)[k] \in Nat
    BY <1>2
  <2> QED BY <1>3, <2>1 DEF Reach
<1>5. /\ Text \in Seq(Cell)
      /\ Len(Text) = Ends(lines)[Len(lines)] - (IF ended \/ lines = <<>> THEN 0 ELSE 1)
  BY <1>1, StreamCells DEF Text
<1>6. Len(Text) \in Nat
  BY <1>5, LenProperties
<1>7. Len(Text) <= Ends(lines)[Len(lines)]
  <2>1. Ends(lines)[Len(lines)] \in Nat
    BY <1>2
  <2> QED BY <1>5, <2>1
<1> QED BY <1>1, <1>2, <1>3, <1>4, <1>5, <1>6, <1>7, LenProperties

\* What is unread begins with the next line.
LEMMA NextLine ==
  ASSUME Typed, NEW k \in 0 .. Len(lines), AtLine(k), r < w
  PROVE  /\ k + 1 \in 1 .. Len(lines)
         /\ Ends(lines)[k + 1] = Ends(lines)[k] + Len(CellsOf(lines[k + 1])) + 1
         /\ Len(CellsOf(lines[k + 1])) \in Nat
         /\ \A j \in 1 .. Len(CellsOf(lines[k + 1])) + 1 : j <= w - r =>
              IF j = Len(CellsOf(lines[k + 1])) + 1
                THEN buf[r + j].kind = "end"
                ELSE /\ buf[r + j] = LineCells(lines, k + 1)[j]
                     /\ buf[r + j].kind # "end"
<1> DEFINE n == Len(CellsOf(lines[k + 1]))
<1>1. lines \in Seq(Lines) /\ ended \in BOOLEAN
  BY DEF Typed
<1>2. k + 1 \in 1 .. Len(lines) /\ (k + 1) - 1 = k
  <2>1. k # Len(lines)
    <3>1. SUFFICES ASSUME k = Len(lines) PROVE FALSE
      OBVIOUS
    <3>2. Reach(k) <= Ends(lines)[k] /\ Ends(lines)[k] \in Nat
      BY <3>1, Numbers DEF AtLine
    <3> QED BY <3>2, Numbers DEF Reach
  <2> QED BY <2>1, Numbers
<1>3. Ends(lines)[k + 1] = Ends(lines)[k] + n + 1
  BY <1>1, <1>2, EndsSteps
<1>4. n \in Nat
  BY <1>1, <1>2, LineCellsType
<1>5. ASSUME NEW j \in 1 .. n + 1, j <= w - r
      PROVE  IF j = n + 1
               THEN buf[r + j].kind = "end"
               ELSE buf[r + j] = LineCells(lines, k + 1)[j] /\ buf[r + j].kind # "end"
  <2>1. j \in 1 .. w - r
    BY <1>4, <1>5, Numbers
  <2>2. buf[r + j] = Text[Ends(lines)[k] + j]
    BY <2>1 DEF AtLine
  <2>3. Ends(lines)[k] + j <= Len(Text)
    <3>1. /\ Ends(lines)[k] \in Nat /\ Len(Text) \in Nat
          /\ r \in Nat /\ w \in Nat
      BY Numbers
    <3>2. Ends(lines)[k] + (w - r) <= Len(Text)
      BY DEF AtLine, Reach
    <3> QED BY <2>1, <3>1, <3>2
  <2>4. IF j = n + 1 THEN Text[Ends(lines)[k] + j].kind = "end"
                     ELSE Text[Ends(lines)[k] + j] = LineCells(lines, k + 1)[j]
    <3>1. \A jj \in 1 .. n + 1 :
            Ends(lines)[(k + 1) - 1] + jj <= Len(Text) =>
              IF jj = n + 1 THEN Text[Ends(lines)[(k + 1) - 1] + jj].kind = "end"
                            ELSE Text[Ends(lines)[(k + 1) - 1] + jj] = LineCells(lines, k + 1)[jj]
      BY <1>1, <1>2, StreamCells DEF Text
    <3>2. \A jj \in 1 .. n + 1 :
            Ends(lines)[k] + jj <= Len(Text) =>
              IF jj = n + 1 THEN Text[Ends(lines)[k] + jj].kind = "end"
                            ELSE Text[Ends(lines)[k] + jj] = LineCells(lines, k + 1)[jj]
      BY <1>2, <3>1
    <3> QED BY <2>3, <3>2
  <2>5. j # n + 1 => LineCells(lines, k + 1)[j].kind # "end"
    <3>1. j # n + 1 => j \in 1 .. n
      BY <1>4
    <3> QED BY <1>1, <1>2, <3>1, LineCellsType
  <2> QED BY <2>2, <2>4, <2>5
<1> QED BY <1>2, <1>3, <1>4, <1>5

\* A reader that takes the next line sees what a reader of whole lines sees.
LEMMA LineTaken ==
  ASSUME Typed, NEW k \in 0 .. Len(lines), k + 1 \in 1 .. Len(lines),
         events = After(lines)[k].events, event = After(lines)[k].event,
         TakeLine(LineCells(lines, k + 1))
  PROVE  /\ events' = After(lines)[k + 1].events
         /\ event' = After(lines)[k + 1].event
         /\ pc' = "line"
<1> DEFINE cells == LineCells(lines, k + 1)
           state == After(lines)[k]
<1>1. lines \in Seq(Lines) /\ (k + 1) - 1 = k
  BY DEF Typed
<1>2. After(lines)[k + 1] = ReadWhole(state, cells) /\ state \in Seen
  BY <1>1, AfterSteps
<1>3. cells \in Seq(Cell)
  BY <1>1, LineCellsType
<1>4. /\ cells # <<>> => /\ After(lines)[k + 1].events = state.events
                         /\ After(lines)[k + 1].event = ParseLine(state.event, cells)
      /\ cells = <<>> => /\ After(lines)[k + 1].events = Finish(state)
                         /\ After(lines)[k + 1].event = NoEvent
  BY <1>2, <1>3, ReadWholeType
<1>5. TakeLine(cells) /\ events = state.events /\ event = state.event
  OBVIOUS
<1>6. Finish(state) = IF Started(event) THEN Append(events, event) ELSE events
  BY <1>5 DEF Finish
<1> HIDE DEF cells, state
<1>7. CASE cells # <<>>
  BY <1>4, <1>5, <1>7 DEF TakeLine
<1>8. CASE cells = <<>>
  BY <1>4, <1>5, <1>6, <1>8 DEF TakeLine
<1> QED BY <1>7, <1>8

-----------------------------------------------------------------------------
\* Each step from the end of a line.
LEMMA BufferedStep ==
  ASSUME Typed, NEW k \in 0 .. Len(lines), AtLine(k), ReadBufferedLine
  PROVE  k + 1 \in 0 .. Len(lines) /\ AtLine(k + 1)'
<1> DEFINE n == Len(CellsOf(lines[k + 1]))
           e == CHOOSE i \in LineEnds : \A j \in LineEnds : i <= j
           cells == SubSeq(buf, r + 1, e - 1)
<1>1. e \in LineEnds /\ \A j \in LineEnds : e <= j
  <2>1. LineEnds \subseteq Nat /\ LineEnds # {}
    <3>1. r \in Nat /\ w \in Nat
      BY Numbers
    <3>2. LineEnds \subseteq Nat
      BY <3>1 DEF LineEnds
    <3>3. LineEnds # {}
      BY DEF ReadBufferedLine
    <3> QED BY <3>2, <3>3
  <2>2. \E i \in LineEnds : \A j \in LineEnds : i <= j
    BY <2>1, LeastNat
  <2> QED BY <2>2
<1>2. LastPart(cells) /\ r' = e
  BY DEF ReadBufferedLine
<1>3. UNCHANGED <<lines, ended, network, broken, buf, w>>
  BY DEF ReadBufferedLine
<1> HIDE DEF e
<1>4. e \in Nat /\ r < e /\ e <= w /\ buf[e].kind = "end"
  BY <1>1, Numbers DEF LineEnds
<1>5. ASSUME NEW i \in r + 1 .. w, buf[i].kind = "end" PROVE e <= i
  BY <1>1, <1>5 DEF LineEnds
<1>6. /\ k + 1 \in 1 .. Len(lines)
      /\ Ends(lines)[k + 1] = Ends(lines)[k] + n + 1
      /\ n \in Nat
      /\ \A j \in 1 .. n + 1 : j <= w - r =>
           IF j = n + 1
             THEN buf[r + j].kind = "end"
             ELSE buf[r + j] = LineCells(lines, k + 1)[j] /\ buf[r + j].kind # "end"
  BY <1>4, Numbers, NextLine
<1> HIDE DEF n, cells
<1>n. r \in Nat /\ w \in Nat /\ r <= w /\ n \in Nat
  BY <1>6, Numbers
<1>7. e = r + n + 1
  <2>1. CASE n + 1 < e - r
    <3>1. n + 1 \in 1 .. n + 1 /\ n + 1 <= w - r /\ r + (n + 1) \in r + 1 .. w
      BY <1>4, <1>n, <2>1
    <3>2. buf[r + (n + 1)].kind = "end"
      BY <1>6, <3>1
    <3>3. e <= r + (n + 1)
      BY <1>5, <3>1, <3>2
    <3> QED BY <1>4, <1>n, <2>1, <3>3
  <2>2. CASE e - r < n + 1
    <3>1. e - r \in 1 .. n + 1 /\ e - r <= w - r /\ r + (e - r) = e /\ e - r # n + 1
      BY <1>4, <1>n, <2>2
    <3>2. buf[r + (e - r)].kind # "end"
      BY <1>6, <3>1
    <3> QED BY <1>4, <3>1, <3>2
  <2> QED BY <1>4, <1>n, <2>1, <2>2
<1>8. cells = LineCells(lines, k + 1)
  <2>1. /\ LineCells(lines, k + 1) \in Seq(Cell)
        /\ Len(LineCells(lines, k + 1)) = n
    BY <1>6, LineCellsType DEF Typed, n
  <2>2. cells \in Seq(Cell) /\ Len(cells) = n /\ \A j \in 1 .. n : cells[j] = buf[r + j]
    <3>1. r \in r .. w /\ e - 1 \in r .. w /\ (e - 1) - (r + 1) + 1 = n
      BY <1>4, <1>7, <1>n
    <3>2. cells \in Seq(Cell)
      BY <3>1, PartType DEF cells
    <3>3. cells = [j \in 1 .. n |-> buf[r + j]]
      <4>1. r + 1 \in Nat /\ e - 1 \in Nat
        BY <1>4, <1>n
      <4>2. cells = [j \in 1 .. (e - 1) - (r + 1) + 1 |-> buf[j + (r + 1) - 1]]
        BY <4>1 DEF cells
      <4>3. \A j \in 1 .. n : j + (r + 1) - 1 = r + j
        BY <1>n
      <4>4. cells = [j \in 1 .. n |-> buf[j + (r + 1) - 1]]
        BY <3>1, <4>2
      <4> QED BY <4>3, <4>4
    <3>4. DOMAIN cells = 1 .. n /\ Len(cells) \in Nat /\ DOMAIN cells = 1 .. Len(cells)
      BY <3>2, <3>3, LenProperties
    <3>5. Len(cells) = n
      BY <1>6, <3>4
    <3> QED BY <3>2, <3>3, <3>5
  <2>3. ASSUME NEW j \in 1 .. n PROVE cells[j] = LineCells(lines, k + 1)[j]
    <3>1. j \in 1 .. n + 1 /\ j <= w - r /\ j # n + 1
      BY <1>4, <1>7, <1>n
    <3> QED BY <1>6, <2>2, <3>1
  <2> QED BY <2>1, <2>2, <2>3, SeqEqual
<1>9. TakeLine(LineCells(lines, k + 1))
  BY <1>2, <1>8 DEF LastPart, AtLine, cells
<1>10. /\ events' = After(lines)[k + 1].events
       /\ event' = After(lines)[k + 1].event
       /\ pc' = "line"
  BY <1>6, <1>9, LineTaken DEF AtLine
<1> DEFINE a == Ends(lines)[k]
           b == Ends(lines)[k + 1]
<1>11. a \in Nat /\ b = a + n + 1
  <2>1. a \in Nat
    BY Numbers
  <2>2. b = a + n + 1
    BY <1>6
  <2> QED BY <2>1, <2>2
<1> HIDE DEF a, b
<1>12. Reach(k + 1)' = Reach(k)
  <2>1. Reach(k + 1)' = Ends(lines)[k + 1] + (w - e)
    BY <1>2, <1>3 DEF Reach
  <2>2. b + (w - e) = a + (w - r)
    BY <1>4, <1>7, <1>n, <1>11
  <2> QED BY <2>1, <2>2 DEF Reach, a, b
<1>13. \A i \in 1 .. w - e : buf[e + i] = Text[Ends(lines)[k + 1] + i]
  <2>1. SUFFICES ASSUME NEW i \in 1 .. w - e
                 PROVE  buf[e + i] = Text[Ends(lines)[k + 1] + i]
    OBVIOUS
  <2>2. /\ n + 1 + i \in 1 .. w - r /\ r + (n + 1 + i) = e + i
        /\ a + (n + 1 + i) = b + i
    BY <1>4, <1>7, <1>n, <1>11
  <2>3. buf[r + (n + 1 + i)] = Text[a + (n + 1 + i)]
    BY <2>2 DEF AtLine, a
  <2> QED BY <2>2, <2>3 DEF b
<1>14. Text' = Text /\ Ends(lines)' = Ends(lines) /\ After(lines)' = After(lines)
  BY <1>3, SameStream
<1>15. AtLine(k + 1)'
  BY <1>2, <1>3, <1>10, <1>12, <1>13, <1>14 DEF AtLine
<1>16. k + 1 \in 0 .. Len(lines)
  BY <1>6, Numbers
<1> QED BY <1>15, <1>16

\* A line that fits the buffer has its end there when the buffer is full.
LEMMA FullStep ==
  ASSUME Typed, NEW k \in 0 .. Len(lines), AtLine(k), FitsBuffer, ReadFullBuffer
  PROVE  FALSE
<1> DEFINE n == Len(CellsOf(lines[k + 1]))
<1>1. r = 0 /\ w = BufSize /\ LineEnds = {}
  BY DEF ReadFullBuffer
<1>2. /\ k + 1 \in 1 .. Len(lines) /\ n \in Nat
      /\ \A j \in 1 .. n + 1 : j <= w - r => (j = n + 1 => buf[r + j].kind = "end")
  BY <1>1, Numbers, NextLine
<1>3. n < BufSize
  <2>1. k + 1 \in DOMAIN lines
    BY <1>2, LenProperties DEF Typed
  <2> QED BY <2>1 DEF FitsBuffer
<1> HIDE DEF n
<1>4. n + 1 \in 1 .. n + 1 /\ n + 1 <= w - r /\ r + (n + 1) \in r + 1 .. w
  BY <1>1, <1>2, <1>3, Numbers
<1>5. r + (n + 1) \in LineEnds
  BY <1>2, <1>4 DEF LineEnds
<1> QED BY <1>1, <1>5

\* What comes from the network follows what is unread.
LEMMA FillStep ==
  ASSUME Typed, NEW k \in 0 .. Len(lines), AtLine(k), Fill
  PROVE  AtLine(k)'
<1>1. PICK n \in 1 .. Len(network) :
        /\ n <= BufSize - (w - r)
        /\ buf' = [i \in 1 .. BufSize |->
                     IF i <= w - r THEN buf[r + i]
                     ELSE IF i <= w - r + n THEN network[i - (w - r)]
                     ELSE buf[i]]
        /\ r' = 0 /\ w' = w - r + n
        /\ network' = SubSeq(network, n + 1, Len(network))
  BY DEF Fill
<1>2. UNCHANGED <<lines, ended, broken, pc, event, events>> /\ network # <<>>
  BY DEF Fill
<1> DEFINE E == Ends(lines)[k]
<1>3. /\ E \in Nat /\ r \in Nat /\ w \in Nat /\ r <= w /\ BufSize \in Nat
      /\ n \in Nat /\ 1 <= n /\ n <= Len(network) /\ Len(network) \in Nat
      /\ Len(Text) \in Nat
  BY Numbers
<1>4. /\ ~broken /\ E + (w - r) + Len(network) = Len(Text)
      /\ \A i \in 1 .. Len(network) : network[i] = Text[E + (w - r) + i]
      /\ \A i \in 1 .. w - r : buf[r + i] = Text[E + i]
  BY <1>2 DEF AtLine, Reach
<1>5. Text' = Text /\ Ends(lines)' = Ends(lines) /\ After(lines)' = After(lines)
  BY <1>2, SameStream
<1> HIDE DEF E
<1>6. Reach(k)' = E + (w - r + n)
  <2>1. Reach(k)' = E + (w' - r')
    BY <1>5 DEF Reach, E
  <2> QED BY <1>1, <1>3, <2>1
<1>7. Reach(k)' <= Len(Text)
  BY <1>3, <1>4, <1>6
<1>8. \A i \in 1 .. w' - r' : buf'[r' + i] = Text[E + i]
  <2>1. SUFFICES ASSUME NEW i \in 1 .. w - r + n PROVE buf'[i] = Text[E + i]
    <3>1. w' - r' = w - r + n /\ \A i \in 1 .. w - r + n : r' + i = i
      BY <1>1, <1>3
    <3> QED BY <3>1
  <2>2. i \in 1 .. BufSize /\ i \in Nat
    BY <1>1, <1>3
  <2>3. buf'[i] = IF i <= w - r THEN buf[r + i]
                  ELSE IF i <= w - r + n THEN network[i - (w - r)]
                  ELSE buf[i]
    BY <1>1, <2>2
  <2>4. CASE i <= w - r
    <3>1. i \in 1 .. w - r
      BY <1>3, <2>4
    <3> QED BY <1>4, <2>3, <2>4, <3>1
  <2>5. CASE ~(i <= w - r)
    <3>1. /\ i <= w - r + n /\ i - (w - r) \in 1 .. Len(network)
          /\ E + (w - r) + (i - (w - r)) = E + i
      BY <1>3, <2>5
    <3>2. network[i - (w - r)] = Text[E + (w - r) + (i - (w - r))]
      BY <1>4, <3>1
    <3> QED BY <2>3, <2>5, <3>1, <3>2
  <2> QED BY <2>4, <2>5
<1>9. /\ Len(network') = Len(network) - n
      /\ \A i \in 1 .. Len(network') : network'[i] = network[n + i]
  <2>1. network' = [i \in 1 .. Len(network) - n |-> network[n + i]]
    <3>1. n + 1 \in Nat /\ Len(network) - (n + 1) + 1 = Len(network) - n
      BY <1>3
    <3>2. network' = [i \in 1 .. Len(network) - (n + 1) + 1 |-> network[i + (n + 1) - 1]]
      BY <1>1, <1>3, <3>1
    <3>3. \A i \in 1 .. Len(network) - n : i + (n + 1) - 1 = n + i
      BY <1>3
    <3>4. network' = [i \in 1 .. Len(network) - n |-> network[i + (n + 1) - 1]]
      BY <3>1, <3>2
    <3> QED BY <3>3, <3>4
  <2> DEFINE m == Len(network) - n
  <2>2. m \in Nat
    BY <1>3
  <2> HIDE DEF m
  <2>3. network' = [i \in 1 .. m |-> network[n + i]]
    BY <2>1 DEF m
  <2>4. Len(network') = m
    BY <2>2, <2>3
  <2>5. \A i \in 1 .. m : network'[i] = network[n + i]
    BY <2>3
  <2> QED BY <2>4, <2>5 DEF m
<1>10. Reach(k)' + Len(network') = Len(Text)
  BY <1>3, <1>4, <1>6, <1>9
<1>11. ASSUME NEW i \in 1 .. Len(network')
       PROVE  network'[i] = Text[Reach(k)' + i]
  <2>1. n + i \in 1 .. Len(network) /\ E + (w - r) + (n + i) = Reach(k)' + i
    BY <1>3, <1>6, <1>9
  <2>2. network'[i] = network[n + i]
    BY <1>9
  <2>3. network[n + i] = Text[E + (w - r) + (n + i)]
    BY <1>4, <2>1
  <2> QED BY <2>1, <2>2, <2>3
<1>12. /\ events' = After(lines)[k].events /\ event' = After(lines)[k].event
       /\ pc' = "line"
  BY <1>2 DEF AtLine
<1>13. \A i \in 1 .. w' - r' : buf'[r' + i] = Text'[Ends(lines)'[k] + i]
  BY <1>5, <1>8 DEF E
<1> QED BY <1>2, <1>4, <1>5, <1>7, <1>10, <1>11, <1>12, <1>13 DEF AtLine

\* What is lost with the connection is not expected any more.
LEMMA BreakStep ==
  ASSUME Typed, NEW k \in 0 .. Len(lines), AtLine(k), Break
  PROVE  AtLine(k)'
<1>1. /\ UNCHANGED <<lines, ended, buf, r, w, pc, event, events>>
      /\ network' = <<>> /\ broken'
  BY DEF Break
<1>2. Text' = Text /\ Ends(lines)' = Ends(lines) /\ After(lines)' = After(lines)
  BY <1>1, SameStream
<1>3. Reach(k)' = Reach(k)
  BY <1>1, <1>2 DEF Reach
<1> QED BY <1>1, <1>2, <1>3 DEF AtLine

\* At the end of the stream a blank line makes no difference.
LEMMA AtEnd ==
  ASSUME Typed, NEW k \in 0 .. Len(lines),
         events = After(lines)[k].events, event = After(lines)[k].event,
         \/ k = Len(lines)
         \/ k + 1 = Len(lines) /\ Len(CellsOf(lines[k + 1])) = 0
  PROVE  /\ Finish([events |-> events, event |-> event]) = Finish(After(lines)[k])
         /\ Finish([events |-> events, event |-> event]) = EventsOfLines
<1>1. Finish([events |-> events, event |-> event]) = Finish(After(lines)[k])
  BY DEF Finish
<1>2. CASE k = Len(lines)
  BY <1>1, <1>2 DEF EventsOfLines
<1>3. CASE k + 1 = Len(lines) /\ Len(CellsOf(lines[k + 1])) = 0
  <2>1. k + 1 \in 1 .. Len(lines) /\ (k + 1) - 1 = k /\ lines \in Seq(Lines)
    BY <1>3, Numbers DEF Typed
  <2>2. After(lines)[k + 1] = ReadWhole(After(lines)[k], LineCells(lines, k + 1))
        /\ After(lines)[k] \in Seen
    BY <2>1, AfterSteps
  <2>3. LineCells(lines, k + 1) \in Seq(Cell) /\ LineCells(lines, k + 1) = <<>>
    BY <1>3, <2>1, LineCellsType, EmptySeq
  <2>4. /\ After(lines)[k + 1].events = Finish(After(lines)[k])
        /\ After(lines)[k + 1].event = NoEvent
    BY <2>2, <2>3, ReadWholeType
  <2>5. Finish(After(lines)[k + 1]) = Finish(After(lines)[k])
    BY <2>4 DEF Finish, Started
  <2> QED BY <1>1, <1>3, <2>5 DEF EventsOfLines
<1> QED BY <1>2, <1>3

\* What is left at the end of the stream is returned once.
LEMMA ReturnLast ==
  ASSUME ReadError, ~broken, pc = "line", network = <<>>, r = w,
         Finish([events |-> events, event |-> event]) = EventsOfLines
  PROVE  AllRead'
<1>1. /\ UNCHANGED <<lines, ended, network, broken, buf, r, w>>
  BY DEF ReadError
<1>2. EventsOfLines' = EventsOfLines
  BY <1>1, SameStream
<1>3. CASE Started(event)
  <2>1. events' = Append(events, event) /\ event' = NoEvent /\ pc' = "line"
    BY <1>3 DEF ReadError
  <2>2. events' = EventsOfLines
    BY <1>3, <2>1 DEF Finish
  <2>3. Finish([events |-> events', event |-> event']) = events'
    BY <2>1 DEF Finish, Started
  <2> QED BY <1>1, <1>2, <2>1, <2>2, <2>3 DEF AllRead, Finish, Started
<1>4. CASE ~Started(event)
  <2>1. events' = events /\ event' = event /\ pc' = "eof"
    BY <1>4 DEF ReadError
  <2> QED BY <1>1, <1>2, <1>4, <2>1 DEF AllRead, Finish, Started
<1> QED BY <1>3, <1>4

\* The text ends inside line k + 1, or before its end, when there is none: the
\* reader sees what a reader of whole lines sees.
LEMMA EndsShort ==
  ASSUME Typed, NEW k \in 0 .. Len(lines), k + 1 \in 1 .. Len(lines),
         Len(Text) < Ends(lines)[k + 1]
  PROVE  k + 1 = Len(lines) /\ Len(Text) = Ends(lines)[k + 1] - 1
<1>1. lines \in Seq(Lines) /\ k + 1 \in 0 .. Len(lines) /\ Len(lines) \in 0 .. Len(lines)
  BY Numbers DEF Typed
<1>2. k + 1 < Len(lines) => Ends(lines)[k + 1] < Ends(lines)[Len(lines)]
  BY <1>1, EndsGrow
<1>3. /\ Ends(lines)[k + 1] \in Nat /\ Ends(lines)[Len(lines)] \in Nat
      /\ Len(lines) \in Nat
  BY <1>1, Numbers
<1>4. Len(Text) = Ends(lines)[Len(lines)] \/ Len(Text) = Ends(lines)[Len(lines)] - 1
  BY <1>3, Numbers
<1>5. k + 1 = Len(lines)
  BY <1>1, <1>2, <1>3, <1>4
<1> QED BY <1>3, <1>4, <1>5

\* The last line, without its end, is taken as it is.
LEMMA LastStep ==
  ASSUME Typed, NEW k \in 0 .. Len(lines), AtLine(k), ReadLastLine
  PROVE  AllRead' \/ CutOff'
<1> DEFINE n == Len(CellsOf(lines[k + 1]))
<1>1. /\ UNCHANGED <<lines, ended, network, broken, buf, w>>
      /\ network = <<>> /\ r < w /\ LineEnds = {} /\ r' = w
      /\ LastPart(Unread)
  BY DEF ReadLastLine
<1>2. TakeLine(Unread)
  BY <1>1 DEF LastPart, AtLine
<1>3. /\ EventsOfLines' = EventsOfLines /\ After(lines)' = After(lines)
      /\ Len(lines)' = Len(lines)
  BY <1>1, SameStream
<1>4. r' = w' /\ network' = <<>> /\ pc' = "line"
  BY <1>1, <1>2 DEF TakeLine
<1>5. /\ Unread = [j \in 1 .. w - r |-> buf[r + j]]
      /\ Unread \in Seq(Cell) /\ Len(Unread) = w - r
  <2>1. r + 1 \in Nat /\ w \in Nat /\ r \in Nat /\ w - (r + 1) + 1 = w - r /\ w - r \in Nat
    BY <1>1, Numbers
  <2>2. Unread = [j \in 1 .. w - (r + 1) + 1 |-> buf[j + (r + 1) - 1]]
    BY <2>1 DEF Unread
  <2>3. \A j \in 1 .. w - r : j + (r + 1) - 1 = r + j
    BY <2>1
  <2>4. Unread = [j \in 1 .. w - r |-> buf[j + (r + 1) - 1]]
    BY <2>1, <2>2
  <2>5. Unread = [j \in 1 .. w - r |-> buf[r + j]]
    BY <2>3, <2>4
  <2>6. Unread \in Seq(Cell)
    <3>1. r \in r .. w /\ w \in r .. w
      BY <1>1, Numbers
    <3> QED BY <3>1, PartType DEF Unread
  <2>7. Len(Unread) = w - r
    BY <2>1, <2>5
  <2> QED BY <2>5, <2>6, <2>7
<1>6. CASE broken
  <2>1. Unread # <<>>
    BY <1>1, <1>5, EmptySeq, Numbers
  <2>2. events' = events
    BY <1>2, <2>1 DEF TakeLine
  <2>3. events' = After(lines)[k].events /\ broken'
    BY <1>1, <1>6, <2>2 DEF AtLine
  <2> QED BY <1>3, <1>4, <2>3 DEF CutOff
<1>7. CASE ~broken
  <2>1. /\ k + 1 \in 1 .. Len(lines) /\ n \in Nat
        /\ Ends(lines)[k + 1] = Ends(lines)[k] + n + 1
        /\ \A j \in 1 .. n + 1 : j <= w - r =>
             IF j = n + 1
               THEN buf[r + j].kind = "end"
               ELSE buf[r + j] = LineCells(lines, k + 1)[j] /\ buf[r + j].kind # "end"
    BY <1>1, NextLine
  <2>2. /\ r \in Nat /\ w \in Nat /\ Ends(lines)[k] \in Nat /\ n \in Nat
        /\ Ends(lines)[k + 1] = Ends(lines)[k] + n + 1
    BY <2>1, Numbers
  <2>3. Ends(lines)[k] + (w - r) = Len(Text)
    <3>1. Reach(k) + Len(network) = Len(Text) /\ Len(network) = 0
      BY <1>1, <1>7, EmptySeq DEF AtLine
    <3> QED BY <2>2, <3>1 DEF Reach
  <2> HIDE DEF n
  <2>4. w - r < n + 1
    <3>1. SUFFICES ASSUME n + 1 <= w - r PROVE FALSE
      BY <2>2
    <3>2. n + 1 \in 1 .. n + 1 /\ r + (n + 1) \in r + 1 .. w
      BY <2>2, <3>1
    <3>3. buf[r + (n + 1)].kind = "end"
      BY <2>1, <3>1, <3>2
    <3>4. r + (n + 1) \in LineEnds
      BY <3>2, <3>3 DEF LineEnds
    <3> QED BY <1>1, <3>4
  <2>5. k + 1 = Len(lines) /\ Len(Text) = Ends(lines)[k + 1] - 1
    <3>1. Len(Text) < Ends(lines)[k + 1]
      BY <2>2, <2>3, <2>4
    <3> QED BY <2>1, <3>1, EndsShort
  <2>6. w - r = n
    BY <2>2, <2>3, <2>5
  <2>7. Unread = LineCells(lines, k + 1)
    <3>1. /\ LineCells(lines, k + 1) \in Seq(Cell)
          /\ Len(LineCells(lines, k + 1)) = n
      BY <2>1, LineCellsType DEF Typed, n
    <3>2. ASSUME NEW j \in 1 .. n PROVE Unread[j] = LineCells(lines, k + 1)[j]
      <4>1. j \in 1 .. n + 1 /\ j <= w - r /\ j # n + 1
        BY <2>2, <2>6
      <4>2. buf[r + j] = LineCells(lines, k + 1)[j]
        BY <2>1, <4>1
      <4> QED BY <1>5, <2>6, <4>2
    <3> QED BY <1>5, <2>6, <3>1, <3>2, SeqEqual
  <2>8. /\ events' = After(lines)[k + 1].events
        /\ event' = After(lines)[k + 1].event
    BY <1>2, <2>1, <2>7, LineTaken DEF AtLine
  <2>9. Finish([events |-> events', event |-> event']) = EventsOfLines
    BY <2>5, <2>8 DEF Finish, EventsOfLines
  <2> QED BY <1>1, <1>3, <1>4, <1>7, <2>9 DEF AllRead, Finish, Started, NoEvent
<1> QED BY <1>6, <1>7

\* At the end of the stream the event read so far is returned.
LEMMA ErrorStep ==
  ASSUME Typed, NEW k \in 0 .. Len(lines), AtLine(k), ReadError
  PROVE  AllRead' \/ CutOff'
<1>1. /\ UNCHANGED <<lines, ended, network, broken, buf, r, w>>
      /\ network = <<>> /\ r = w /\ pc = "line"
  BY DEF ReadError, AtLine
<1>2. /\ EventsOfLines' = EventsOfLines /\ After(lines)' = After(lines)
      /\ Len(lines)' = Len(lines)
  BY <1>1, SameStream
<1>3. r' = w' /\ network' = <<>>
  BY <1>1
<1>4. CASE broken
  <2>1. events' = events /\ pc' = "failed" /\ broken'
    BY <1>1, <1>4 DEF ReadError
  <2>2. events' = After(lines)[k].events
    BY <2>1 DEF AtLine
  <2> QED BY <1>2, <1>3, <2>1, <2>2 DEF CutOff
<1>5. CASE ~broken
  <2>1. Ends(lines)[k] = Len(Text)
    <3>1. Reach(k) + Len(network) = Len(Text) /\ Len(network) = 0
      BY <1>1, <1>5, EmptySeq DEF AtLine
    <3>2. Ends(lines)[k] \in Nat /\ r \in Nat /\ w \in Nat
      BY Numbers
    <3> QED BY <1>1, <3>1, <3>2 DEF Reach
  <2>2. \/ k = Len(lines)
        \/ k + 1 = Len(lines) /\ Len(CellsOf(lines[k + 1])) = 0
    <3>1. SUFFICES ASSUME k # Len(lines)
                   PROVE  k + 1 = Len(lines) /\ Len(CellsOf(lines[k + 1])) = 0
      OBVIOUS
    <3>2. k + 1 \in 1 .. Len(lines) /\ (k + 1) - 1 = k /\ lines \in Seq(Lines)
      BY <3>1, Numbers DEF Typed
    <3>3. /\ Ends(lines)[k + 1] = Ends(lines)[k] + Len(CellsOf(lines[k + 1])) + 1
          /\ Len(CellsOf(lines[k + 1])) \in Nat /\ Ends(lines)[k] \in Nat
      BY <3>2, EndsSteps, LineCellsType, Numbers
    <3>4. Len(Text) < Ends(lines)[k + 1]
      BY <2>1, <3>3
    <3>5. k + 1 = Len(lines) /\ Len(Text) = Ends(lines)[k + 1] - 1
      BY <3>2, <3>4, EndsShort
    <3> QED BY <2>1, <3>3, <3>5
  <2>3. Finish([events |-> events, event |-> event]) = EventsOfLines
    BY <2>2, AtEnd DEF AtLine
  <2> QED BY <1>1, <1>2, <1>3, <1>5, <2>3, ReturnLast
<1> QED BY <1>4, <1>5

-----------------------------------------------------------------------------
LEMMA InitPosition == Init => Position
<1> SUFFICES ASSUME Init PROVE Position
  OBVIOUS
<1>1. Typed
  BY InitTyped
<1>2. lines \in Seq(Lines) /\ network = Text
  BY <1>1 DEF Init, Text, Typed
<1>3. Ends(lines)[0] = 0 /\ After(lines)[0] = [events |-> <<>>, event |-> NoEvent]
  BY <1>2, EndsSteps, AfterSteps
<1>4. r = 0 /\ w = 0 /\ pc = "line" /\ ~broken /\ events = <<>> /\ event = NoEvent
  BY DEF Init
<1>5. Reach(0) = 0 /\ Len(Text) \in Nat /\ 0 \in 0 .. Len(lines)
  BY <1>1, <1>3, <1>4, Numbers DEF Reach
<1>6. \A i \in 1 .. Len(network) : network[i] = Text[Reach(0) + i]
  <2>1. \A i \in 1 .. Len(Text) : Reach(0) + i = i
    BY <1>5
  <2> QED BY <1>2, <2>1
<1>7. \A i \in 1 .. w - r : buf[r + i] = Text[Ends(lines)[0] + i]
  BY <1>4
<1>8. AtLine(0)
  BY <1>2, <1>3, <1>4, <1>5, <1>6, <1>7 DEF AtLine
<1> QED BY <1>5, <1>8 DEF Position

\* When all is read, only the error is left to be returned.
LEMMA NothingLeft ==
  ASSUME Typed, network = <<>>, r = w, [Next]_vars
  PROVE  ReadError \/ UNCHANGED vars
<1>1. LineEnds = {} /\ r \in Nat /\ w \in Nat /\ BufSize > 0 /\ BufSize \in Nat
  BY Numbers DEF LineEnds
<1>2. ~ReadBufferedLine /\ ~ReadFullBuffer /\ ~ReadLastLine
  BY <1>1 DEF ReadBufferedLine, ReadFullBuffer, ReadLastLine
<1>3. ~Fill /\ ~Break
  BY DEF Fill, Break
<1> QED BY <1>2, <1>3 DEF Next, Terminated

LEMMA AllReadStep == ASSUME Typed, AllRead, [Next]_vars PROVE AllRead'
<1>1. CASE ReadError
  <2>1. pc = "line"
    BY <1>1 DEF AllRead, ReadError, Reading
  <2> QED BY <1>1, <2>1, ReturnLast DEF AllRead
<1>2. CASE UNCHANGED vars
  <2>1. EventsOfLines' = EventsOfLines
    BY <1>2, SameStream DEF vars
  <2> QED BY <1>2, <2>1 DEF vars, AllRead, Finish, Started, NoEvent
<1> QED BY <1>1, <1>2, NothingLeft DEF AllRead

LEMMA CutOffStep == ASSUME Typed, CutOff, [Next]_vars PROVE CutOff'
<1>1. CASE ReadError
  <2>1. /\ UNCHANGED <<lines, ended, network, broken, buf, r, w>>
        /\ events' = events /\ pc' = "failed"
    BY <1>1 DEF CutOff, ReadError
  <2>2. After(lines)' = After(lines) /\ Len(lines)' = Len(lines)
    BY <2>1, SameStream
  <2> QED BY <2>1, <2>2 DEF CutOff
<1>2. CASE UNCHANGED vars
  <2>1. After(lines)' = After(lines) /\ Len(lines)' = Len(lines)
    BY <1>2, SameStream DEF vars
  <2> QED BY <1>2, <2>1 DEF vars, CutOff
<1> QED BY <1>1, <1>2, NothingLeft DEF CutOff

LEMMA AtLineStep ==
  ASSUME Typed, FitsBuffer, NEW k \in 0 .. Len(lines), AtLine(k), [Next]_vars
  PROVE  Position'
<1>1. UNCHANGED <<lines, ended>>
  BY DEF Next, ReadBufferedLine, ReadFullBuffer, Fill, ReadLastLine, ReadError,
         Break, Terminated, vars
<1>2. Len(lines)' = Len(lines)
  BY <1>1, SameStream
<1>3. CASE ReadBufferedLine
  <2>1. k + 1 \in 0 .. Len(lines) /\ AtLine(k + 1)'
    BY <1>3, BufferedStep
  <2> QED BY <1>2, <2>1 DEF Position
<1>4. CASE ReadFullBuffer
  BY <1>4, FullStep
<1>5. CASE Fill
  <2>1. AtLine(k)'
    BY <1>5, FillStep
  <2> QED BY <1>2, <2>1 DEF Position
<1>6. CASE ReadLastLine
  BY <1>6, LastStep DEF Position
<1>7. CASE ReadError
  BY <1>7, ErrorStep DEF Position
<1>8. CASE Break
  <2>1. AtLine(k)'
    BY <1>8, BreakStep
  <2> QED BY <1>2, <2>1 DEF Position
<1>9. CASE Terminated \/ UNCHANGED vars
  <2>1. UNCHANGED vars
    BY <1>9 DEF Terminated
  <2>2. Text' = Text /\ Ends(lines)' = Ends(lines) /\ After(lines)' = After(lines)
    BY <1>1, SameStream
  <2>3. AtLine(k)'
    BY <2>1, <2>2 DEF AtLine, Reach, vars
  <2> QED BY <1>2, <2>3 DEF Position
<1> QED BY <1>3, <1>4, <1>5, <1>6, <1>7, <1>8, <1>9 DEF Next

-----------------------------------------------------------------------------
\* The invariant holds throughout: bufio's buffer is always somewhere between
\* the end of a line and the part of the stream that was not read yet.
THEOREM ReaderInvariant == Spec => []Inv
<1>1. Init => Inv
  BY InitTyped, InitPosition DEF Inv
<1>2. Inv /\ [Next]_vars => Inv'
  <2> SUFFICES ASSUME Inv, [Next]_vars PROVE Inv'
    OBVIOUS
  <2>1. Typed /\ Typed'
    BY NextTyped DEF Inv
  <2>2. FitsBuffer' => FitsBuffer
    <3>1. UNCHANGED <<lines, ended>>
      BY DEF Next, ReadBufferedLine, ReadFullBuffer, Fill, ReadLastLine, ReadError,
             Break, Terminated, vars
    <3> QED BY <3>1, SameStream
  <2>3. ASSUME FitsBuffer' PROVE Position'
    <3>1. FitsBuffer /\ Position
      BY <2>2, <2>3 DEF Inv
    <3>2. CASE \E k \in 0 .. Len(lines) : AtLine(k)
      BY <2>1, <3>1, <3>2, AtLineStep
    <3>3. CASE AllRead
      BY <2>1, <3>3, AllReadStep DEF Position
    <3>4. CASE CutOff
      BY <2>1, <3>4, CutOffStep DEF Position
    <3> QED BY <3>1, <3>2, <3>3, <3>4 DEF Position
  <2> QED BY <2>1, <2>3 DEF Inv
<1> QED BY <1>1, <1>2, PTL DEF Spec

\* Every variable keeps its type, whatever the lines: a part of a line that is
\* an alias of bufio's buffer (scanner.go:51) is only held inside the loop.
THEOREM ReaderTypeOK == Spec => []TypeOK
<1>1. Inv => TypeOK
  <2> SUFFICES ASSUME Inv PROVE TypeOK
    OBVIOUS
  <2>1. DOMAIN event = {"type", "id", "data"}
    BY DEF Inv, Typed, Event
  <2> QED BY <2>1 DEF Inv, Typed, TypeOK
<1> QED BY <1>1, ReaderInvariant, PTL

\* A sequence begins like another.
Begins(s, t) == Len(s) <= Len(t) /\ \A i \in 1 .. Len(s) : s[i] = t[i]

LEMMA BeginsPrefix ==
  ASSUME NEW S, NEW s \in Seq(S), NEW t \in Seq(S), Begins(s, t)
  PROVE  IsPrefix(s, t)
<1>1. Len(s) \in Nat /\ Len(t) \in Nat /\ Len(s) <= Len(t)
  BY LenProperties DEF Begins
<1>2. SubSeq(s, 1, Len(s)) = [i \in 1 .. Len(s) |-> s[i]]
  <2>1. SubSeq(s, 1, Len(s)) = [i \in 1 .. Len(s) - 1 + 1 |-> s[i + 1 - 1]]
    BY <1>1
  <2>2. Len(s) - 1 + 1 = Len(s) /\ \A i \in 1 .. Len(s) : i + 1 - 1 = i
    BY <1>1
  <2> QED BY <2>1, <2>2
<1>3. SubSeq(t, 1, Len(s)) = [i \in 1 .. Len(s) |-> t[i]]
  <2>1. SubSeq(t, 1, Len(s)) = [i \in 1 .. Len(s) - 1 + 1 |-> t[i + 1 - 1]]
    BY <1>1
  <2>2. Len(s) - 1 + 1 = Len(s) /\ \A i \in 1 .. Len(s) : i + 1 - 1 = i
    BY <1>1
  <2> QED BY <2>1, <2>2
<1>4. \A i \in 1 .. Len(s) : s[i] = t[i]
  BY DEF Begins
<1> QED BY <1>1, <1>2, <1>3, <1>4 DEF IsPrefix

\* What was returned after some lines is returned first after all of them.
LEMMA EventsGrow ==
  ASSUME NEW ls \in Seq(Lines), NEW k \in 0 .. Len(ls)
  PROVE  /\ After(ls)[k].events \in Seq(Event)
         /\ Finish(After(ls)[Len(ls)]) \in Seq(Event)
         /\ Begins(After(ls)[k].events, Finish(After(ls)[Len(ls)]))
<1> DEFINE n == Len(ls)
           all == Finish(After(ls)[n])
           T == {d \in Nat : d <= n => Begins(After(ls)[n - d].events, all)}
<1>1. n \in Nat /\ \A i \in 0 .. n : After(ls)[i] \in Seen
  BY AfterSteps, LenProperties
<1>2. ASSUME NEW i \in 0 .. n
      PROVE  /\ After(ls)[i].events \in Seq(Event)
             /\ Finish(After(ls)[i]) \in Seq(Event)
             /\ Begins(After(ls)[i].events, Finish(After(ls)[i]))
  <2>1. /\ After(ls)[i] \in Seen
        /\ After(ls)[i].events \in Seq(Event) /\ After(ls)[i].event \in Event
    BY <1>1 DEF Seen
  <2> DEFINE s == After(ls)[i].events
             ev == After(ls)[i].event
  <2>2. Finish(After(ls)[i]) = s \/ Finish(After(ls)[i]) = Append(s, ev)
    BY <2>1, FinishType
  <2>3. Begins(s, s) /\ Begins(s, Append(s, ev))
    BY <2>1, AppendProperties, LenProperties DEF Begins
  <2> QED BY <2>1, <2>2, <2>3, FinishType
<1>3. 0 \in T
  BY <1>1, <1>2
<1>4. ASSUME NEW d \in Nat, d \in T PROVE d + 1 \in T
  <2>1. SUFFICES ASSUME d + 1 <= n PROVE Begins(After(ls)[n - (d + 1)].events, all)
    OBVIOUS
  <2> DEFINE i == n - (d + 1)
  <2>2. i \in 0 .. n /\ i + 1 \in 1 .. n /\ i + 1 \in 0 .. n /\ (i + 1) - 1 = i /\ n - d = i + 1
    BY <1>1, <2>1
  <2>3. Begins(After(ls)[i + 1].events, all)
    BY <1>1, <1>4, <2>1, <2>2
  <2> HIDE DEF i, all
  <2>4. /\ LineCells(ls, i + 1) \in Seq(Cell)
        /\ After(ls)[i + 1] = ReadWhole(After(ls)[i], LineCells(ls, i + 1))
    BY <2>2, AfterSteps, LineCellsType
  <2>5. \/ After(ls)[i + 1].events = After(ls)[i].events
        \/ After(ls)[i + 1].events = Finish(After(ls)[i])
    BY <1>1, <2>2, <2>4, ReadWholeType
  <2>6. /\ After(ls)[i].events \in Seq(Event) /\ After(ls)[i + 1].events \in Seq(Event)
        /\ all \in Seq(Event)
        /\ Begins(After(ls)[i].events, Finish(After(ls)[i]))
    BY <1>1, <1>2, <2>2 DEF all
  <2>7. Begins(After(ls)[i].events, After(ls)[i + 1].events)
    BY <2>5, <2>6, LenProperties DEF Begins
  <2>8. Begins(After(ls)[i].events, all)
    BY <2>3, <2>6, <2>7, LenProperties DEF Begins
  <2> QED BY <2>8 DEF i
<1> HIDE DEF T, all
<1>5. Nat \subseteq T
  BY <1>3, <1>4, NatInductionSet
<1>6. n - k \in Nat /\ n - k <= n /\ n - (n - k) = k /\ n \in 0 .. n
  BY <1>1
<1>7. Begins(After(ls)[k].events, all)
  BY <1>5, <1>6 DEF T
<1> QED BY <1>2, <1>6, <1>7 DEF all

\* However the network cuts a stream whose lines fit the buffer, the events
\* are those of its lines; when the connection breaks, they are the first of
\* them, and none is cut short (scanner.go:36-97).
THEOREM FramesAreExact == Spec => []FittingFramesExact
<1>1. Inv => FittingFramesExact
  <2> SUFFICES ASSUME Inv, FitsBuffer PROVE FramesExact
    BY DEF FittingFramesExact
  <2>1. lines \in Seq(Lines) /\ events \in Seq(Event) /\ Position
    BY DEF Inv, Typed
  <2>2. Len(lines) \in 0 .. Len(lines)
    BY Numbers DEF Inv
  <2>3. EventsOfLines \in Seq(Event)
    BY <2>1, <2>2, EventsGrow DEF EventsOfLines
  <2>4. ASSUME NEW k \in 0 .. Len(lines), events = After(lines)[k].events, pc # "eof"
        PROVE  FramesExact
    <3>1. Begins(events, EventsOfLines)
      BY <2>1, <2>4, EventsGrow DEF EventsOfLines
    <3> QED BY <2>1, <2>3, <2>4, <3>1, BeginsPrefix DEF FramesExact, EventsGenuine
  <2>5. CASE AllRead
    <3>1. \/ EventsOfLines = events /\ ~Started(event)
          \/ EventsOfLines = Append(events, event) /\ Started(event)
      BY <2>5 DEF AllRead, Finish
    <3>2. Begins(events, events) /\ Begins(events, Append(events, event))
      BY <2>1, AppendProperties, LenProperties DEF Begins
    <3>3. Begins(events, EventsOfLines)
      BY <3>1, <3>2
    <3>4. pc = "eof" => events = EventsOfLines
      BY <2>5, <3>1 DEF AllRead
    <3> QED BY <2>1, <2>3, <3>3, <3>4, BeginsPrefix DEF FramesExact, EventsGenuine
  <2>6. CASE CutOff
    BY <2>4, <2>6 DEF CutOff
  <2>7. CASE \E k \in 0 .. Len(lines) : AtLine(k)
    BY <2>4, <2>7 DEF AtLine
  <2> QED BY <2>1, <2>5, <2>6, <2>7 DEF Position
<1> QED BY <1>1, ReaderInvariant, PTL

=============================================================================
