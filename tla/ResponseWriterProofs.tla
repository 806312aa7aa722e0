------------------------ MODULE ResponseWriterProofs ------------------------
(***************************************************************************)
(* ResponseWriter for any number of responses, requests and writes,        *)
(* whatever the pools give and lose and encoders hold back: encoders are   *)
(* never shared, the coding of an answer is one the client prefers, and a  *)
(* client gets its own body, in time and completely.                       *)
(***************************************************************************)
EXTENDS ResponseWriter, SequenceTheorems, FiniteSetTheorems,
        WellFoundedInduction, TLAPS

Phases == {"new", "open", "closing", "closed"}

WriterType ==
  [encoding : Encodings \cup {None}, phase : Phases,
   answer : Answers \cup {None}, header : STRING \cup Encodings \cup {None},
   encoder : Encoders \cup {None}, uncompressed : Nat]

\* A writer can have an encoder from its header until Close has given it back,
\* and has one while Close is at it.
WriterInv ==
  /\ rw \in [Responses -> WriterType]
  /\ pool \subseteq Encoders
  /\ \A r \in Responses :
       /\ rw[r].phase \in {"new", "closed"} => rw[r].encoder = None
       /\ rw[r].phase = "closing" => rw[r].encoder # None

IInv == WriterInv /\ EncodersExclusive

\* What SelectEncoding returns is a coding or nothing.
LEMMA SelectEncodingType ==
  ASSUME NEW accept PROVE SelectEncoding(accept) \in Encodings \cup {None}
BY DEF SelectEncoding, Encodings

\* The pools give no encoder that a response has.
LEMMA AvailableIsFree ==
  ASSUME IInv, NEW coding, NEW e \in Available(coding)
  PROVE  e \in Encoders /\ e # None /\ e \notin Held
BY ResponseAssumption DEF IInv, EncodersExclusive, Available, Encoders

\* A header that starts an encoded body takes a free encoder.
LEMMA WriteHeaderKeeps ==
  ASSUME IInv, NEW r \in Responses, WriteHeader(r) PROVE IInv'
<1>1. PICK answer \in Answers :
        /\ rw[r].phase = "new"
        /\ IF Encodes(r, answer) THEN WriteHeaderEncoded(r, answer)
                                 ELSE WriteHeaderPlain(r, answer)
  BY DEF WriteHeader
<1>2. answer.coding \in STRING \cup {None}
  BY ResponseAssumption DEF Answer
<1>3. rw[r] \in WriterType /\ rw[r].encoder = None
  BY <1>1 DEF IInv, WriterInv
<1>4. CASE WriteHeaderPlain(r, answer)
  <2> DEFINE w == [rw[r] EXCEPT !.phase = "open", !.answer = answer,
                                !.header = answer.coding, !.encoding = None]
  <2>1. rw' = [rw EXCEPT ![r] = w] /\ pool' = pool
    BY <1>4 DEF WriteHeaderPlain
  <2>2. w \in WriterType
    BY <1>2, <1>3 DEF WriterType, Phases
  <2>3. w.encoder = None /\ w.phase = "open"
    BY <1>3 DEF WriterType
  <2> HIDE DEF w
  <2>4. \A s \in Responses : rw'[s] = IF s = r THEN w ELSE rw[s]
    BY <2>1 DEF IInv, WriterInv
  <2>5. WriterInv'
    BY <2>1, <2>2, <2>3, <2>4 DEF IInv, WriterInv
  <2>6. EncodersExclusive'
    BY <1>3, <2>1, <2>3, <2>4 DEF IInv, EncodersExclusive, Held
  <2> QED BY <2>5, <2>6 DEF IInv
<1>5. CASE Encodes(r, answer) /\ WriteHeaderEncoded(r, answer)
  <2>1. PICK e \in Available(rw[r].encoding) :
          /\ pool' = pool \ {e}
          /\ rw' = [rw EXCEPT ![r].phase = "open", ![r].answer = answer,
                              ![r].header = rw[r].encoding, ![r].encoder = e]
    BY <1>5 DEF WriteHeaderEncoded
  <2> DEFINE w == [rw[r] EXCEPT !.phase = "open", !.answer = answer,
                                !.header = rw[r].encoding, !.encoder = e]
  <2>2. e \in Encoders /\ e # None /\ e \notin Held
    BY AvailableIsFree
  <2>3. rw' = [rw EXCEPT ![r] = w]
    BY <2>1
  <2>4. rw[r].encoding \in Encodings \cup {None}
    BY <1>3 DEF WriterType
  <2>5. w \in WriterType
    BY <1>3, <2>2, <2>4 DEF WriterType, Phases
  <2>6. w.encoder = e /\ w.phase = "open"
    BY <1>3 DEF WriterType
  <2> HIDE DEF w
  <2>7. \A s \in Responses : rw'[s] = IF s = r THEN w ELSE rw[s]
    BY <2>3 DEF IInv, WriterInv
  <2>8. WriterInv'
    BY <2>1, <2>3, <2>5, <2>6, <2>7 DEF IInv, WriterInv
  <2>9. EncodersExclusive'
    <3>1. \A s \in Responses :
            /\ rw'[s].encoder = IF s = r THEN e ELSE rw[s].encoder
            /\ rw[s].encoder # e /\ rw[s].encoder \notin pool
      BY <2>2, <2>6, <2>7 DEF IInv, EncodersExclusive, Held
    <3>2. Held' \cap pool' = {}
      BY <2>1, <3>1 DEF Held
    <3>3. ASSUME NEW s \in Responses, NEW t \in Responses,
                 s # t, rw'[s].encoder # None
          PROVE  rw'[s].encoder # rw'[t].encoder
      BY <3>1, <3>3 DEF IInv, EncodersExclusive
    <3> QED BY <3>2, <3>3 DEF EncodersExclusive
  <2> QED BY <2>8, <2>9 DEF IInv
<1> QED BY <1>1, <1>4, <1>5

\* Writing and closing an encoded body leave the encoder with its response.
LEMMA UseKeeps ==
  ASSUME IInv, NEW r \in Responses, Write(r) \/ CloseEncoder(r) PROVE IInv'
<1>1. rw[r] \in WriterType
  BY DEF IInv, WriterInv
<1>2. pool' = pool /\ rw' \in [Responses -> WriterType]
  <2>1. CASE Write(r)
    <3>1. pool' = pool /\ (rw' = rw \/ WriteEncoded(r))
      BY <2>1 DEF Write, WritePlain
    <3>2. CASE WriteEncoded(r)
      <4>1. rw' = [rw EXCEPT ![r].uncompressed = @ + 1]
        BY <3>2 DEF WriteEncoded
      <4> QED BY <1>1, <3>1, <4>1 DEF IInv, WriterInv, WriterType
    <3> QED BY <3>1, <3>2 DEF IInv, WriterInv
  <2>2. CASE CloseEncoder(r)
    BY <1>1, <2>2 DEF CloseEncoder, IInv, WriterInv, WriterType, Phases
  <2> QED BY <2>1, <2>2
<1>3. \A s \in Responses :
        /\ rw'[s].encoder = rw[s].encoder
        /\ rw'[s].phase \in {"new", "closed"} => rw'[s].phase = rw[s].phase
        /\ rw'[s].phase = "closing" => rw[s].encoder # None
  <2>1. CASE Write(r)
    BY <1>1, <2>1
       DEF Write, WritePlain, WriteEncoded, IInv, WriterInv, WriterType
  <2>2. CASE CloseEncoder(r)
    BY <1>1, <2>2 DEF CloseEncoder, IInv, WriterInv, WriterType
  <2> QED BY <2>1, <2>2
<1> QED BY <1>2, <1>3 DEF IInv, WriterInv, EncodersExclusive, Held

\* Close gives the encoder back and forgets it, in one step.
LEMMA CloseKeeps ==
  ASSUME IInv, NEW r \in Responses, ClosePlain(r) \/ PutEncoder(r) PROVE IInv'
<1>1. rw[r] \in WriterType
  BY DEF IInv, WriterInv
<1>2. CASE ClosePlain(r)
  BY <1>1, <1>2
     DEF ClosePlain, IInv, WriterInv, WriterType, Phases, EncodersExclusive, Held
<1>3. CASE PutEncoder(r)
  <2>1. rw' \in [Responses -> WriterType]
    BY <1>1, <1>3 DEF PutEncoder, IInv, WriterInv, WriterType, Phases
  <2>2. \A s \in Responses :
          /\ rw'[s].encoder = IF s = r THEN None ELSE rw[s].encoder
          /\ rw'[s].phase = IF s = r THEN "closed" ELSE rw[s].phase
    BY <1>1, <1>3 DEF PutEncoder, IInv, WriterInv, WriterType
  <2>3. rw[r].encoder \in Encoders /\ rw[r].encoder # None
    BY <1>1, <1>3 DEF PutEncoder, IInv, WriterInv, WriterType
  <2>4. pool' = pool \cup {rw[r].encoder}
    BY <1>3 DEF PutEncoder
  <2>5. None \notin pool'
    BY <2>3, <2>4, ResponseAssumption DEF IInv, WriterInv, Encoders
  <2>6. WriterInv'
    BY <2>1, <2>2, <2>3, <2>4 DEF IInv, WriterInv
  <2>7. EncodersExclusive'
    BY <2>2, <2>3, <2>4, <2>5 DEF IInv, EncodersExclusive, Held
  <2> QED BY <2>6, <2>7 DEF IInv
<1> QED BY <1>2, <1>3

\* The encoders of the responses and of the pools, in every behaviour.
THEOREM Invariance == Spec => []IInv
<1>1. Init => IInv
  <2> SUFFICES ASSUME Init PROVE IInv
    OBVIOUS
  <2>1. \A r \in Responses :
          rw[r] \in WriterType /\ rw[r].phase = "new" /\ rw[r].encoder = None
    BY SelectEncodingType DEF Init, WrapResponseWriter, WriterType, Phases
  <2>2. rw \in [Responses -> WriterType] /\ pool = {}
    BY <2>1 DEF Init
  <2> QED BY <2>1, <2>2 DEF IInv, WriterInv, EncodersExclusive, Held
<1>2. IInv /\ [Next]_vars => IInv'
  <2> SUFFICES ASSUME IInv, [Next]_vars PROVE IInv'
    OBVIOUS
  <2>1. ASSUME NEW r \in Responses, WriteHeader(r) PROVE IInv'
    BY <2>1, WriteHeaderKeeps
  <2>2. ASSUME NEW r \in Responses, Write(r) \/ CloseEncoder(r) PROVE IInv'
    BY <2>2, UseKeeps
  <2>3. ASSUME NEW r \in Responses, ClosePlain(r) \/ PutEncoder(r) PROVE IInv'
    BY <2>3, CloseKeeps
  <2>4. ASSUME NEW r \in Responses, Flush(r) \/ ClientLeaves(r) PROVE IInv'
    BY <2>4 DEF Flush, ClientLeaves, IInv, WriterInv, EncodersExclusive, Held
  <2>5. CASE PoolDrops
    BY <2>5 DEF PoolDrops, IInv, WriterInv, EncodersExclusive, Held
  <2>6. CASE Terminated \/ UNCHANGED vars
    BY <2>6 DEF Terminated, vars, IInv, WriterInv, EncodersExclusive, Held
  <2> QED BY <2>1, <2>2, <2>3, <2>4, <2>5, <2>6 DEF Next
<1> QED BY <1>1, <1>2, PTL DEF Spec

\* An encoder serves one response at a time, and one in a pool serves none:
\* Close (compress.go:272-277, 283-288) puts it back when it has ended the
\* body, and forgets it.
THEOREM EncodersNotShared == Spec => []EncodersExclusive
<1>1. IInv => EncodersExclusive
  BY DEF IInv
<1> QED BY <1>1, Invariance, PTL

-----------------------------------------------------------------------------
\* The Accept-Encoding header, read from the left (compress.go:66-105).

\* What is true of 0, and of a number when it is true of the one before, is
\* true of all.
LEMMA NatInductionSet ==
  ASSUME NEW S, 0 \in S, \A n \in Nat : n \in S => n + 1 \in S
  PROVE  Nat \subseteq S
<1> DEFINE Less == {ss \in Nat \X Nat : ss[1] < ss[2]}
           T == Nat \ S
<1>1. IsWellFoundedOn(Less, Nat)
  <2>1. OpToRel(<, Nat) = Less
    BY DEF OpToRel
  <2> QED BY <2>1, NatLessThanWellFounded
<1>2. SUFFICES ASSUME T # {} PROVE FALSE
  OBVIOUS
<1>3. PICK n \in T : \A m \in T : <<m, n>> \notin Less
  <2>1. T \subseteq Nat
    OBVIOUS
  <2> HIDE DEF T, Less
  <2> QED BY <1>1, <1>2, <2>1, WFMin
<1>4. n \in Nat /\ n # 0 /\ n \notin S
  OBVIOUS
<1>5. n - 1 \in Nat /\ (n - 1) + 1 = n
  BY <1>4
<1>6. <<n - 1, n>> \in Nat \X Nat /\ n - 1 < n
  BY <1>4, <1>5
<1>7. <<n - 1, n>> \in Less
  BY <1>6
<1>8. n - 1 \in S
  BY <1>3, <1>5, <1>7
<1> QED BY <1>4, <1>5, <1>8

Codings == Encodings \cup {"*"}

\* The items after n mentions.
ItemsAt(accept, read, n) ==
  IF n = 0 THEN [c \in Codings |-> None] ELSE ReadPart(read[n - 1], accept[n])

\* There is a function that reads any number of mentions.
LEMMA ReadExists ==
  ASSUME NEW accept
  PROVE  \A k \in Nat : \E read :
           read = [n \in 0 .. k |-> ItemsAt(accept, read, n)]
<1> DEFINE S == {k \in Nat : \E read :
                   read = [n \in 0 .. k |-> ItemsAt(accept, read, n)]}
<1>1. 0 \in S
  <2> DEFINE read == [n \in 0 .. 0 |-> [c \in Codings |-> None]]
  <2>1. read = [n \in 0 .. 0 |-> ItemsAt(accept, read, n)]
    BY DEF ItemsAt
  <2> QED BY <2>1
<1>2. ASSUME NEW k \in Nat, k \in S PROVE k + 1 \in S
  <2>1. PICK read : read = [n \in 0 .. k |-> ItemsAt(accept, read, n)]
    BY <1>2
  <2> DEFINE more == [n \in 0 .. k + 1 |->
                        IF n <= k THEN read[n] ELSE ReadPart(read[k], accept[k + 1])]
  <2>2. ASSUME NEW n \in 0 .. k + 1 PROVE more[n] = ItemsAt(accept, more, n)
    <3>1. CASE n = 0
      <4>1. more[n] = read[0] /\ read[0] = ItemsAt(accept, read, 0)
        BY <2>1, <3>1
      <4> QED BY <3>1, <4>1 DEF ItemsAt
    <3>2. CASE n \in 1 .. k
      <4>1. /\ n - 1 \in 0 .. k + 1 /\ n - 1 <= k /\ n \in 0 .. k /\ n <= k
            /\ n # 0
        BY <3>2
      <4>2. more[n] = read[n] /\ more[n - 1] = read[n - 1]
        BY <4>1
      <4>3. read[n] = ItemsAt(accept, read, n)
        BY <2>1, <4>1
      <4> QED BY <4>1, <4>2, <4>3 DEF ItemsAt
    <3>3. CASE n = k + 1
      <4>1. /\ k \in 0 .. k + 1 /\ k <= k /\ ~(n <= k) /\ n # 0 /\ n - 1 = k
        BY <3>3
      <4>2. more[n] = ReadPart(read[k], accept[k + 1]) /\ more[k] = read[k]
        BY <4>1
      <4> QED BY <3>3, <4>1, <4>2 DEF ItemsAt
    <3> QED BY <3>1, <3>2, <3>3
  <2>3. more = [n \in 0 .. k + 1 |-> ItemsAt(accept, more, n)]
    <3>1. more = [n \in 0 .. k + 1 |-> more[n]]
      OBVIOUS
    <3> HIDE DEF more
    <3> QED BY <2>2, <3>1
  <2> HIDE DEF more
  <2>4. \E new : new = [n \in 0 .. k + 1 |-> ItemsAt(accept, new, n)]
    BY <2>3
  <2> QED BY <2>4
<1> HIDE DEF S
<1>3. Nat \subseteq S
  BY <1>1, <1>2, NatInductionSet
<1> QED BY <1>3 DEF S

\* Items is what it reads in the end.
LEMMA ItemsRead ==
  ASSUME NEW accept, Len(accept) \in Nat
  PROVE  \E read : /\ read = [n \in 0 .. Len(accept) |-> ItemsAt(accept, read, n)]
                   /\ Items(accept) = read[Len(accept)]
<1> DEFINE read == CHOOSE r : r = [n \in 0 .. Len(accept) |->
                     IF n = 0 THEN [c \in Encodings \cup {"*"} |-> None]
                              ELSE ReadPart(r[n - 1], accept[n])]
<1>1. Items(accept) = read[Len(accept)]
  BY DEF Items
<1>2. \E r : r = [n \in 0 .. Len(accept) |-> ItemsAt(accept, r, n)]
  BY ReadExists
<1>3. read = [n \in 0 .. Len(accept) |-> ItemsAt(accept, read, n)]
  BY <1>2 DEF ItemsAt, Codings
<1> QED BY <1>1, <1>3

Accepts == Seq([coding : STRING, q : Int])

\* The last of the first n mentions of a coding has the weight w, or there is
\* none.
Says(accept, n, c, w) ==
  \/ w = None /\ \A i \in 1 .. n : accept[i].coding # c
  \/ \E i \in 1 .. n : /\ accept[i].coding = c /\ w = Clamp(accept[i].q)
                       /\ \A j \in i + 1 .. n : accept[j].coding # c

\* The loop keeps the last mention of every coding.
LEMMA ItemsSay ==
  ASSUME NEW accept \in Accepts
  PROVE  \A c \in Codings : Says(accept, Len(accept), c, Items(accept)[c])
<1> DEFINE len == Len(accept)
<1>1. len \in Nat
  BY LenProperties DEF Accepts
<1>2. PICK read : /\ read = [n \in 0 .. len |-> ItemsAt(accept, read, n)]
                  /\ Items(accept) = read[len]
  BY <1>1, ItemsRead
<1> HIDE DEF len
<1> DEFINE Right(k) == /\ read[k] \in [Codings -> Int \cup {None}]
                       /\ \A c \in Codings : Says(accept, k, c, read[k][c])
           S == {k \in Nat : k <= len => Right(k)}
<1>3. \A n \in 0 .. len : read[n] = ItemsAt(accept, read, n)
  BY <1>2
<1>4. 0 \in S
  <2>1. 0 \in 0 .. len
    BY <1>1
  <2>2. read[0] = [c \in Codings |-> None]
    BY <1>3, <2>1 DEF ItemsAt
  <2>3. Right(0)
    BY <2>2 DEF Says
  <2> QED BY <2>3
<1>5. ASSUME NEW k \in Nat, k \in S PROVE k + 1 \in S
  <2>1. SUFFICES ASSUME k + 1 <= len PROVE Right(k + 1)
    OBVIOUS
  <2>2. Right(k) /\ k + 1 \in 0 .. len /\ k + 1 # 0 /\ (k + 1) - 1 = k
        /\ k + 1 \in 1 .. len
    BY <1>1, <1>5, <2>1
  <2> DEFINE part == accept[k + 1]
             old == read[k]
             new == read[k + 1]
  <2>3. new = ReadPart(old, part)
    BY <1>3, <2>2 DEF ItemsAt
  <2>4. part.q \in Int
    <3>1. part \in [coding : STRING, q : Int]
      BY <2>2, ElementOfSeq DEF Accepts, len
    <3> QED BY <3>1
  <2>5. Clamp(part.q) \in Int
    BY <2>4 DEF Clamp
  <2>6. old \in [Codings -> Int \cup {None}]
    BY <2>2
  <2> HIDE DEF part, old, new
  <2>7. /\ new \in [Codings -> Int \cup {None}]
        /\ \A c \in Codings : new[c] = IF c = part.coding THEN Clamp(part.q)
                                                          ELSE old[c]
    BY <2>3, <2>5, <2>6 DEF ReadPart
  <2>8. ASSUME NEW c \in Codings PROVE Says(accept, k + 1, c, new[c])
    <3>1. CASE c = part.coding
      <4>1. /\ k + 1 \in 1 .. k + 1 /\ accept[k + 1].coding = c
            /\ new[c] = Clamp(accept[k + 1].q)
            /\ \A j \in (k + 1) + 1 .. k + 1 : accept[j].coding # c
        BY <2>7, <3>1 DEF part
      <4> QED BY <4>1 DEF Says
    <3>2. CASE c # part.coding
      <4>1. Says(accept, k, c, old[c]) /\ new[c] = old[c]
        BY <2>2, <2>7, <3>2 DEF old
      <4>2. accept[k + 1].coding # c
        BY <3>2 DEF part
      <4>3. \A j \in 1 .. k + 1 : j \in 1 .. k \/ j = k + 1
        OBVIOUS
      <4>4. CASE old[c] = None /\ \A i \in 1 .. k : accept[i].coding # c
        BY <4>1, <4>2, <4>3, <4>4 DEF Says
      <4>5. CASE \E i \in 1 .. k : /\ accept[i].coding = c
                                   /\ old[c] = Clamp(accept[i].q)
                                   /\ \A j \in i + 1 .. k : accept[j].coding # c
        <5>1. PICK i \in 1 .. k : /\ accept[i].coding = c
                                  /\ old[c] = Clamp(accept[i].q)
                                  /\ \A j \in i + 1 .. k : accept[j].coding # c
          BY <4>5
        <5>2. i \in 1 .. k + 1
          OBVIOUS
        <5>3. ASSUME NEW j \in i + 1 .. k + 1 PROVE accept[j].coding # c
          <6>1. j \in i + 1 .. k \/ j = k + 1
            OBVIOUS
          <6> QED BY <4>2, <5>1, <6>1
        <5> QED BY <4>1, <5>1, <5>2, <5>3 DEF Says
      <4> QED BY <4>1, <4>4, <4>5 DEF Says
    <3> QED BY <3>1, <3>2
  <2> QED BY <2>7, <2>8 DEF new
<1> HIDE DEF S
<1>6. Nat \subseteq S
  BY <1>4, <1>5, NatInductionSet
<1>7. Right(len)
  BY <1>1, <1>6 DEF S
<1> QED BY <1>2, <1>7 DEF len

\* So the loop finds the weights the client gave.
LEMMA WeightsArePreferences ==
  ASSUME NEW accept \in Accepts
  PROVE  \A c \in Encodings :
           /\ Weights(accept)[c] = Preference(accept, c)
           /\ Weights(accept)[c] \in 0 .. 10
<1> DEFINE len == Len(accept)
           items == Items(accept)
<1>1. len \in Nat /\ DOMAIN accept = 1 .. len
  BY LenProperties DEF Accepts
<1>2. \A i \in 1 .. len : Clamp(accept[i].q) \in 0 .. 10
  <2>1. ASSUME NEW i \in 1 .. len PROVE accept[i].q \in Int
    <3>1. accept[i] \in [coding : STRING, q : Int]
      BY ElementOfSeq DEF Accepts
    <3> QED BY <3>1
  <2> HIDE DEF len
  <2> QED BY <2>1 DEF Clamp
<1>3. ASSUME NEW c \in Codings
      PROVE  IF Mentions(accept, c) = {}
               THEN items[c] = None
               ELSE /\ items[c] = Clamp(accept[Max(Mentions(accept, c))].q)
                    /\ items[c] \in 0 .. 10 /\ items[c] # None
  <2>1. Says(accept, len, c, items[c])
    BY ItemsSay
  <2> HIDE DEF len, items
  <2>2. CASE items[c] = None /\ \A i \in 1 .. len : accept[i].coding # c
    BY <1>1, <2>2 DEF Mentions
  <2>3. CASE \E i \in 1 .. len : /\ accept[i].coding = c
                                 /\ items[c] = Clamp(accept[i].q)
                                 /\ \A j \in i + 1 .. len : accept[j].coding # c
    <3>1. PICK i \in 1 .. len : /\ accept[i].coding = c
                                /\ items[c] = Clamp(accept[i].q)
                                /\ \A j \in i + 1 .. len : accept[j].coding # c
      BY <2>3
    <3>2. i \in Mentions(accept, c) /\ \A j \in Mentions(accept, c) : i >= j
      <4>1. ASSUME NEW j \in Mentions(accept, c) PROVE i >= j
        <5>1. j \in 1 .. len /\ accept[j].coding = c
          BY <1>1 DEF Mentions
        <5>2. ~(j \in i + 1 .. len)
          BY <3>1, <5>1
        <5> QED BY <1>1, <5>1, <5>2
      <4> QED BY <1>1, <3>1, <4>1 DEF Mentions
    <3>3. Mentions(accept, c) \subseteq 1 .. len
      BY <1>1 DEF Mentions
    <3>4. Max(Mentions(accept, c)) = i
      <4> DEFINE M == Mentions(accept, c)
      <4>1. i \in M /\ M \subseteq 1 .. len /\ \A j \in M : i >= j
        BY <3>2, <3>3
      <4> HIDE DEF M
      <4>2. \A m \in M : (\A j \in M : m >= j) => m = i
        BY <1>1, <4>1
      <4>3. Max(M) \in M /\ \A j \in M : Max(M) >= j
        BY <4>1 DEF Max
      <4> QED BY <4>2, <4>3 DEF M
    <3>5. items[c] \in 0 .. 10
      BY <1>2, <3>1
    <3> QED BY <3>1, <3>2, <3>4, <3>5, ResponseAssumption
  <2> QED BY <2>1, <2>2, <2>3 DEF Says
<1> HIDE DEF items
<1>4. ASSUME NEW c \in Encodings
      PROVE  /\ Weights(accept)[c] = Preference(accept, c)
             /\ Weights(accept)[c] \in 0 .. 10
  <2>1. c \in Codings /\ "*" \in Codings
    BY DEF Codings
  <2>2. Weights(accept)[c] = IF items[c] # None THEN items[c]
                             ELSE IF items["*"] # None THEN items["*"] ELSE 0
    BY DEF Weights, items
  <2>3. CASE Mentions(accept, c) # {}
    BY <1>3, <2>1, <2>2, <2>3 DEF Preference
  <2>4. CASE Mentions(accept, c) = {} /\ Mentions(accept, "*") # {}
    BY <1>3, <2>1, <2>2, <2>4 DEF Preference
  <2>5. CASE Mentions(accept, c) = {} /\ Mentions(accept, "*") = {}
    BY <1>3, <2>1, <2>2, <2>5 DEF Preference
  <2> QED BY <2>3, <2>4, <2>5
<1> QED BY <1>4

\* The coding SelectEncoding settles on is one the client accepts and prefers,
\* and it settles on none only if the client accepts none (compress.go:51-130).
THEOREM SelectedIsPreferred ==
  ASSUME NEW accept \in Accepts
  PROVE  LET e == SelectEncoding(accept)
             P(c) == Preference(accept, c)
         IN  IF e = None THEN \A c \in Encodings : P(c) = 0
             ELSE e \in Encodings /\ P(e) > 0 /\ \A c \in Encodings : P(c) <= P(e)
<1> DEFINE q == Weights(accept)
           e == SelectEncoding(accept)
           z == q["zstd"]
           g == q["gzip"]
<1>1. /\ z = Preference(accept, "zstd") /\ g = Preference(accept, "gzip")
      /\ z \in 0 .. 10 /\ g \in 0 .. 10
  BY WeightsArePreferences DEF Encodings
<1>2. e = CASE z > 0 /\ z >= g -> "zstd" [] g > z -> "gzip" [] OTHER -> None
  BY DEF SelectEncoding
<1>3. None \notin Encodings
  BY ResponseAssumption
<1> HIDE DEF q, e, z, g
<1>4. \/ e = "zstd" /\ z > 0 /\ z >= g
      \/ e = "gzip" /\ g > 0 /\ g >= z
      \/ e = None /\ z = 0 /\ g = 0
  BY <1>1, <1>2
<1>5. CASE e = None
  BY <1>1, <1>3, <1>4, <1>5 DEF Encodings, e
<1>6. CASE e # None
  BY <1>1, <1>4, <1>6 DEF Encodings, e
<1> QED BY <1>5, <1>6 DEF e

-----------------------------------------------------------------------------
\* What clients get.

BodyUnit == [of : Responses, n : Nat, coding : Encodings \cup {None}]

EncoderType ==
  [dest : Responses \cup {None}, buffer : Seq(BodyUnit), failed : BOOLEAN]

BodyType ==
  /\ encoders \in [Encoders -> EncoderType]
  /\ wire \in [Responses -> Seq(BodyUnit)]
  /\ seen \in [Responses -> Nat] /\ flushed \in [Responses -> Nat]
  /\ given \in [Responses -> Nat]

\* The units of a sequence are the response's writes after the k-th.
After(r, k, units) == \A i \in 1 .. Len(units) : units[i] = Unit(r, k + i)

\* The client has been given some of the writes, from the first on, ...
Own(r) == After(r, 0, wire[r]) /\ Len(wire[r]) <= given[r]

\* ... or all of them, ...
AllWrites(r) == After(r, 0, wire[r]) /\ Len(wire[r]) = given[r]

\* ... or all of them and the end of an encoded body.
Whole(r) ==
  /\ Len(wire[r]) = given[r] + 1
  /\ \A i \in 1 .. given[r] : wire[r][i] = Unit(r, i)
  /\ wire[r][given[r] + 1] = Unit(r, 0)

\* The encoder writes to the response that has it, and holds what the client
\* has not got of it, unless a write to that client has failed.
Holds(r, enc) ==
  /\ enc.dest = r
  /\ enc.failed => r \in gone
  /\ ~enc.failed => /\ Len(wire[r]) + Len(enc.buffer) = given[r]
                    /\ After(r, Len(wire[r]), enc.buffer)

\* The body of a response, by the phase it is in.
NewBody(r) ==
  rw[r].phase = "new" => /\ wire[r] = <<>> /\ given[r] = 0
                         /\ rw[r].answer = None

PlainBody(r) ==
  rw[r].phase = "open" /\ rw[r].encoder = None =>
    /\ rw[r].encoding = None /\ ~Applied(r)
    /\ Own(r) /\ (r \notin gone => AllWrites(r))

EncodedBody(r) ==
  rw[r].phase = "open" /\ rw[r].encoder # None =>
    /\ rw[r].encoding # None /\ Applied(r)
    /\ Own(r) /\ Holds(r, encoders[rw[r].encoder])

EndedBody(r) ==
  rw[r].phase \in {"closing", "closed"} =>
    /\ rw[r].phase = "closing" => Applied(r)
    /\ Own(r) \/ Whole(r)
    /\ r \notin gone => IF Applied(r) THEN Whole(r) ELSE AllWrites(r)

SentBody(r) ==
  /\ seen[r] <= Len(wire[r])
  /\ r \notin gone => /\ flushed[r] <= seen[r]
                      /\ rw[r].phase = "closed" => seen[r] = Len(wire[r])

Body(r) ==
  NewBody(r) /\ PlainBody(r) /\ EncodedBody(r) /\ EndedBody(r) /\ SentBody(r)

BodyInv == IInv /\ BodyType /\ \A r \in Responses : Body(r)

-----------------------------------------------------------------------------
\* Units of a body.

\* A write of a handler is a unit.
LEMMA UnitOfBody ==
  ASSUME IInv, NEW r \in Responses, NEW n \in Nat PROVE Unit(r, n) \in BodyUnit
<1>1. rw[r] \in WriterType
  BY DEF IInv, WriterInv
<1> QED BY <1>1 DEF WriterType, Unit, BodyUnit

\* Two sequences of units, one after the other.
LEMMA ConcatUnits ==
  ASSUME NEW s \in Seq(BodyUnit), NEW t \in Seq(BodyUnit)
  PROVE  /\ s \o t \in Seq(BodyUnit) /\ Len(s \o t) = Len(s) + Len(t)
         /\ \A i \in 1 .. Len(s) : (s \o t)[i] = s[i]
         /\ \A j \in 1 .. Len(t) : (s \o t)[Len(s) + j] = t[j]
<1>1. /\ s \o t \in Seq(BodyUnit) /\ Len(s \o t) = Len(s) + Len(t)
      /\ Len(s) \in Nat /\ Len(t) \in Nat
  BY ConcatProperties, LenProperties
<1>2. ASSUME NEW i \in 1 .. Len(s) + Len(t)
      PROVE  (s \o t)[i] = IF i <= Len(s) THEN s[i] ELSE t[i - Len(s)]
  BY ConcatProperties
<1>3. ASSUME NEW i \in 1 .. Len(s) PROVE (s \o t)[i] = s[i]
  BY <1>1, <1>2
<1>4. ASSUME NEW j \in 1 .. Len(t) PROVE (s \o t)[Len(s) + j] = t[j]
  <2>1. /\ Len(s) + j \in 1 .. Len(s) + Len(t) /\ ~(Len(s) + j <= Len(s))
        /\ Len(s) + j - Len(s) = j
    BY <1>1
  <2> QED BY <1>2, <2>1
<1> QED BY <1>1, <1>3, <1>4

\* Writes that follow writes.
LEMMA AfterConcat ==
  ASSUME NEW r \in Responses, NEW s \in Seq(BodyUnit), NEW t \in Seq(BodyUnit),
         NEW k \in Nat, After(r, k, s), After(r, k + Len(s), t)
  PROVE  After(r, k, s \o t)
<1> SUFFICES ASSUME NEW i \in 1 .. Len(s \o t)
             PROVE  (s \o t)[i] = Unit(r, k + i)
  BY DEF After
<1>1. /\ Len(s \o t) = Len(s) + Len(t) /\ Len(s) \in Nat /\ Len(t) \in Nat
      /\ (s \o t)[i] = IF i <= Len(s) THEN s[i] ELSE t[i - Len(s)]
  BY ConcatProperties, LenProperties
<1>2. CASE i <= Len(s)
  BY <1>1, <1>2 DEF After
<1>3. CASE i > Len(s)
  <2>1. i - Len(s) \in 1 .. Len(t)
    BY <1>1, <1>3
  <2>2. t[i - Len(s)] = Unit(r, k + Len(s) + (i - Len(s)))
    BY <2>1 DEF After
  <2>3. k + Len(s) + (i - Len(s)) = k + i
    BY <1>1
  <2> QED BY <1>1, <1>3, <2>2, <2>3
<1> QED BY <1>1, <1>2, <1>3

\* What an encoder writes and what it holds back.
LEMMA AfterSplit ==
  ASSUME NEW r \in Responses, NEW data \in Seq(BodyUnit), NEW k \in Nat,
         NEW n \in 0 .. Len(data)
  PROVE  LET units == SubSeq(data, 1, n)
             rest == SubSeq(data, n + 1, Len(data))
         IN  /\ units \in Seq(BodyUnit) /\ rest \in Seq(BodyUnit)
             /\ Len(units) = n /\ Len(rest) = Len(data) - n
             /\ After(r, k, data) => After(r, k, units) /\ After(r, k + n, rest)
<1> DEFINE units == SubSeq(data, 1, n)
           rest == SubSeq(data, n + 1, Len(data))
<1>1. Len(data) \in Nat /\ n \in Nat
  BY LenProperties
<1>2. /\ units \in Seq(BodyUnit) /\ Len(units) = n
      /\ \A i \in 1 .. n : units[i] = data[i]
  BY <1>1, SubSeqProperties
<1>3. /\ rest \in Seq(BodyUnit) /\ Len(rest) = Len(data) - n
      /\ \A i \in 1 .. Len(data) - n : rest[i] = data[n + i]
  BY <1>1, SubSeqProperties
<1>4. After(r, k, data) => After(r, k, units)
  BY <1>1, <1>2 DEF After
<1>5. After(r, k, data) => After(r, k + n, rest)
  <2> SUFFICES ASSUME After(r, k, data), NEW i \in 1 .. Len(rest)
               PROVE  rest[i] = Unit(r, k + n + i)
    BY DEF After
  <2>1. n + i \in 1 .. Len(data) /\ k + (n + i) = k + n + i
    BY <1>1, <1>3
  <2>2. data[n + i] = Unit(r, k + (n + i))
    BY <2>1 DEF After
  <2> QED BY <1>3, <2>1, <2>2
<1> QED BY <1>2, <1>3, <1>4, <1>5

\* One more write after those that are held back.
LEMMA AfterAppend ==
  ASSUME NEW r \in Responses, NEW s \in Seq(BodyUnit), NEW k \in Nat,
         NEW u \in BodyUnit, After(r, k, s), u = Unit(r, k + Len(s) + 1)
  PROVE  After(r, k, Append(s, u))
<1>1. /\ Len(Append(s, u)) = Len(s) + 1 /\ Len(s) \in Nat
      /\ Append(s, u)[Len(s) + 1] = u
      /\ \A i \in 1 .. Len(s) : Append(s, u)[i] = s[i]
  BY AppendProperties, LenProperties
<1> SUFFICES ASSUME NEW i \in 1 .. Len(s) + 1
             PROVE  Append(s, u)[i] = Unit(r, k + i)
  BY <1>1 DEF After
<1>2. CASE i = Len(s) + 1
  <2>1. k + Len(s) + 1 = k + i
    BY <1>1, <1>2
  <2> QED BY <1>1, <1>2, <2>1
<1>3. CASE i \in 1 .. Len(s)
  BY <1>1, <1>3 DEF After
<1> QED BY <1>1, <1>2, <1>3

\* What a step does not touch stays as it was.
LEMMA OthersKeep ==
  ASSUME BodyInv, NEW s \in Responses, rw'[s] = rw[s], wire'[s] = wire[s],
         given'[s] = given[s], seen'[s] = seen[s], flushed'[s] = flushed[s],
         s \in gone' <=> s \in gone,
         rw[s].encoder # None =>
           encoders'[rw[s].encoder] = encoders[rw[s].encoder]
  PROVE  Body(s)'
<1>1. Body(s)
  BY DEF BodyInv
<1>3. Own(s)' <=> Own(s)
  BY DEF Own, After, Unit
<1>4. AllWrites(s)' <=> AllWrites(s)
  BY DEF AllWrites, After, Unit
<1>5. Whole(s)' <=> Whole(s)
  BY DEF Whole, Unit
<1>6. Applied(s)' <=> Applied(s)
  BY DEF Applied
<1>7. rw[s].encoder # None =>
        (Holds(s, encoders[rw[s].encoder])' <=> Holds(s, encoders[rw[s].encoder]))
  BY DEF Holds, After, Unit
<1>8. NewBody(s)' /\ PlainBody(s)'
  BY <1>1, <1>3, <1>4, <1>6 DEF Body, NewBody, PlainBody
<1>9. EncodedBody(s)'
  BY <1>1, <1>3, <1>6, <1>7 DEF Body, EncodedBody
<1>10. EndedBody(s)'
  BY <1>1, <1>3, <1>4, <1>5, <1>6 DEF Body, EndedBody
<1>11. SentBody(s)'
  BY <1>1 DEF Body, SentBody
<1> QED BY <1>8, <1>9, <1>10, <1>11 DEF Body

-----------------------------------------------------------------------------
\* The operations.

\* An encoder that writes either fails, for a client that is gone, or gives
\* it the units and holds the rest.
LEMMA OutputKeeps ==
  ASSUME BodyInv, NEW r \in Responses, rw[r].phase = "open",
         rw[r].encoder # None, NEW units \in Seq(BodyUnit),
         NEW rest \in Seq(BodyUnit), EncoderOutput(rw[r].encoder, units, rest)
  PROVE  LET e == rw[r].encoder
         IN  /\ encoders' \in [Encoders -> EncoderType]
             /\ wire' \in [Responses -> Seq(BodyUnit)]
             /\ \A s \in Responses \ {r} : wire'[s] = wire[s]
             /\ \A f \in Encoders \ {e} : encoders'[f] = encoders[f]
             /\ encoders'[e].dest = r
             /\ \/ encoders'[e].failed /\ r \in gone /\ wire'[r] = wire[r]
                \/ /\ ~encoders'[e].failed /\ ~encoders[e].failed
                   /\ wire'[r] = wire[r] \o units /\ encoders'[e].buffer = rest
<1> DEFINE e == rw[r].encoder
           enc == encoders[e]
           broken == enc.failed \/ (enc.dest \in gone /\ units # <<>>)
           new == [enc EXCEPT !.buffer = rest, !.failed = broken]
<1>1. e \in Encoders
  BY DEF BodyInv, IInv, WriterInv, WriterType
<1>2. enc \in EncoderType /\ enc.dest = r /\ (enc.failed => r \in gone)
  BY <1>1 DEF BodyInv, BodyType, Body, EncodedBody, Holds
<1>3. new \in EncoderType /\ new.dest = r /\ new.failed = broken
      /\ new.buffer = rest
  BY <1>2 DEF EncoderType
<1>4. encoders' = [encoders EXCEPT ![e] = new]
  BY DEF EncoderOutput
<1>5. wire' = IF broken THEN wire ELSE [wire EXCEPT ![r] = @ \o units]
  BY <1>2 DEF EncoderOutput
<1> HIDE DEF new
<1>6. /\ encoders' \in [Encoders -> EncoderType] /\ encoders'[e] = new
      /\ \A f \in Encoders \ {e} : encoders'[f] = encoders[f]
  BY <1>1, <1>3, <1>4 DEF BodyInv, BodyType
<1>7. wire[r] \in Seq(BodyUnit) /\ wire[r] \o units \in Seq(BodyUnit)
  BY ConcatProperties DEF BodyInv, BodyType
<1>8. CASE broken
  BY <1>2, <1>3, <1>5, <1>6, <1>8 DEF BodyInv, BodyType
<1>9. CASE ~broken
  <2>1. wire' = [wire EXCEPT ![r] = wire[r] \o units]
    BY <1>5, <1>9
  <2>2. /\ wire' \in [Responses -> Seq(BodyUnit)]
        /\ wire'[r] = wire[r] \o units
        /\ \A s \in Responses \ {r} : wire'[s] = wire[s]
    BY <1>7, <2>1 DEF BodyInv, BodyType
  <2> QED BY <1>2, <1>3, <1>6, <1>9, <2>2
<1> QED BY <1>8, <1>9

\* A step of r that changes no encoder but the one r has, or a free one,
\* leaves the other responses alone.
LEMMA StepOfOne ==
  ASSUME BodyInv, NEW r \in Responses, NEW s \in Responses, s # r,
         \A t \in Responses \ {r} :
           /\ rw'[t] = rw[t] /\ wire'[t] = wire[t] /\ given'[t] = given[t]
           /\ seen'[t] = seen[t] /\ flushed'[t] = flushed[t]
           /\ t \in gone' <=> t \in gone,
         \A f \in Held \ {None} :
           encoders'[f] = encoders[f] \/ f = rw[r].encoder
  PROVE  Body(s)'
<1>1. rw[s].encoder # None => rw[s].encoder # rw[r].encoder
  BY DEF BodyInv, IInv, EncodersExclusive
<1>2. rw[s].encoder \in Held
  BY DEF Held
<1> QED BY <1>1, <1>2, OthersKeep

\* The header starts a body, encoded or not.
LEMMA HeaderKeepsBody ==
  ASSUME BodyInv, NEW r \in Responses, WriteHeader(r)
  PROVE  BodyType' /\ \A s \in Responses : Body(s)'
<1>1. PICK answer \in Answers :
        /\ rw[r].phase = "new"
        /\ IF Encodes(r, answer) THEN WriteHeaderEncoded(r, answer)
                                 ELSE WriteHeaderPlain(r, answer)
        /\ UNCHANGED <<request, wire, seen, given, flushed, gone, totals>>
  BY DEF WriteHeader
<1>2. answer # None
  BY ResponseAssumption
<1>3. rw \in [Responses -> WriterType] /\ rw[r] \in WriterType
  BY DEF BodyInv, IInv, WriterInv
<1>4. /\ wire[r] = <<>> /\ given[r] = 0 /\ rw[r].encoder = None
      /\ seen[r] <= Len(wire[r]) /\ (r \notin gone => flushed[r] <= seen[r])
  BY <1>1 DEF BodyInv, IInv, WriterInv, Body, NewBody, SentBody
<1>5. CASE WriteHeaderPlain(r, answer)
  <2>1. /\ rw'[r].phase = "open" /\ rw'[r].answer = answer
        /\ rw'[r].header = answer.coding /\ rw'[r].encoding = None
        /\ rw'[r].encoder = None
        /\ \A t \in Responses \ {r} : rw'[t] = rw[t]
    BY <1>3, <1>4, <1>5 DEF WriteHeaderPlain, WriterType
  <2>2. BodyType'
    BY <1>1, <1>5 DEF BodyInv, BodyType, WriteHeaderPlain
  <2>3. Body(r)'
    BY <1>1, <1>4, <2>1
       DEF Body, NewBody, PlainBody, EncodedBody, EndedBody, SentBody, Own,
           AllWrites, After, Applied
  <2>4. ASSUME NEW s \in Responses, s # r PROVE Body(s)'
    BY <1>1, <1>5, <2>1, <2>4, StepOfOne DEF WriteHeaderPlain
  <2> QED BY <2>2, <2>3, <2>4
<1>6. CASE Encodes(r, answer) /\ WriteHeaderEncoded(r, answer)
  <2>1. PICK e \in Available(rw[r].encoding) :
          /\ encoders' = [encoders EXCEPT ![e] = Reset(e, r)]
          /\ rw' = [rw EXCEPT ![r].phase = "open", ![r].answer = answer,
                              ![r].header = rw[r].encoding, ![r].encoder = e]
    BY <1>6 DEF WriteHeaderEncoded
  <2>2. e \in Encoders /\ e # None /\ e \notin Held
    BY AvailableIsFree DEF BodyInv
  <2>3. /\ rw'[r].phase = "open" /\ rw'[r].answer = answer
        /\ rw'[r].header = rw[r].encoding /\ rw'[r].encoder = e
        /\ rw'[r].encoding = rw[r].encoding
        /\ \A t \in Responses \ {r} : rw'[t] = rw[t]
    BY <1>3, <2>1 DEF WriterType
  <2>4. rw[r].encoding # None /\ answer.coding = None
    BY <1>6 DEF Encodes
  <2>5. Reset(e, r) \in EncoderType
    <3>1. <<>> \in Seq(BodyUnit)
      BY EmptySeq
    <3> QED BY <3>1 DEF Reset, EncoderType
  <2>6. BodyType'
    BY <1>1, <2>1, <2>5 DEF BodyInv, BodyType
  <2>7. encoders'[e] = Reset(e, r)
    BY <2>1, <2>2 DEF BodyInv, BodyType
  <2>8. Holds(r, encoders[rw[r].encoder])'
    BY <1>1, <1>4, <2>3, <2>7 DEF Holds, Reset, After
  <2>9. Body(r)'
    BY <1>1, <1>2, <1>4, <2>2, <2>3, <2>4, <2>8
       DEF Body, NewBody, PlainBody, EncodedBody, EndedBody, SentBody, Own,
           After, Applied
  <2>10. ASSUME NEW s \in Responses, s # r PROVE Body(s)'
    <3>1. \A f \in Held \ {None} : encoders'[f] = encoders[f]
      <4> SUFFICES ASSUME NEW f \in Held \ {None} PROVE encoders'[f] = encoders[f]
        OBVIOUS
      <4>1. f \in Encoders
        BY <1>3 DEF Held, WriterType
      <4> QED BY <2>1, <2>2, <4>1 DEF BodyInv, BodyType
    <3> QED BY <1>1, <2>3, <2>10, <3>1, StepOfOne
  <2> QED BY <2>6, <2>9, <2>10
<1> QED BY <1>1, <1>5, <1>6

\* What is known of a response whose body is being encoded.
LEMMA EncodedState ==
  ASSUME BodyInv, NEW r \in Responses, rw[r].phase = "open",
         rw[r].encoder # None
  PROVE  LET enc == encoders[rw[r].encoder]
         IN  /\ rw[r] \in WriterType /\ rw[r].encoder \in Encoders
             /\ enc.buffer \in Seq(BodyUnit) /\ wire[r] \in Seq(BodyUnit)
             /\ Len(enc.buffer) \in Nat /\ Len(wire[r]) \in Nat
             /\ given[r] \in Nat /\ rw[r].encoding # None /\ Applied(r)
             /\ Own(r) /\ Holds(r, enc)
<1>1. rw[r] \in WriterType /\ rw[r].encoder \in Encoders
  BY DEF BodyInv, IInv, WriterInv, WriterType
<1>2. encoders[rw[r].encoder].buffer \in Seq(BodyUnit)
  BY <1>1 DEF BodyInv, BodyType, EncoderType
<1>3. wire[r] \in Seq(BodyUnit) /\ given[r] \in Nat
  BY DEF BodyInv, BodyType
<1> QED BY <1>1, <1>2, <1>3, LenProperties DEF BodyInv, Body, EncodedBody

\* A plain write goes to net/http, or is lost with the client.
LEMMA WritePlainKeepsBody ==
  ASSUME BodyInv, NEW r \in Responses, Write(r), rw[r].encoding = None
  PROVE  BodyType' /\ \A s \in Responses : Body(s)'
<1> DEFINE unit == Unit(r, given[r] + 1)
<1>1. /\ rw[r].phase = "open" /\ rw' = rw /\ encoders' = encoders
      /\ seen' = seen /\ flushed' = flushed /\ gone' = gone
      /\ given' = [given EXCEPT ![r] = @ + 1]
      /\ wire' = IF r \in gone THEN wire
                 ELSE [wire EXCEPT ![r] = Append(@, unit)]
  BY DEF Write, WritePlain
<1>2. /\ given[r] \in Nat /\ wire[r] \in Seq(BodyUnit) /\ Len(wire[r]) \in Nat
      /\ seen[r] \in Nat
  BY LenProperties DEF BodyInv, BodyType
<1>3. rw[r].encoder = None
  BY <1>1 DEF BodyInv, Body, EncodedBody
<1>4. /\ ~Applied(r) /\ Own(r) /\ (r \notin gone => AllWrites(r)) /\ SentBody(r)
  BY <1>1, <1>3 DEF BodyInv, Body, PlainBody
<1>5. given'[r] = given[r] + 1 /\ given' \in [Responses -> Nat]
      /\ \A t \in Responses \ {r} : given'[t] = given[t]
  BY <1>1, <1>2 DEF BodyInv, BodyType
<1>6. unit \in BodyUnit
  BY <1>2, UnitOfBody DEF BodyInv
<1> HIDE DEF unit
<1>7. ASSUME NEW s \in Responses, s # r PROVE Body(s)'
  <2>1. \A t \in Responses \ {r} : wire'[t] = wire[t]
    BY <1>1 DEF BodyInv, BodyType
  <2> QED BY <1>1, <1>5, <1>7, <2>1, StepOfOne
<1>8. ~Applied(r)'
  BY <1>1, <1>4 DEF Applied
<1>9. CASE r \in gone
  <2>1. Own(r)'
    BY <1>1, <1>2, <1>4, <1>5, <1>9 DEF Own, After, Unit
  <2>2. Body(r)'
    BY <1>1, <1>3, <1>4, <1>8, <1>9, <2>1
       DEF Body, NewBody, PlainBody, EncodedBody, EndedBody, SentBody
  <2> QED BY <1>1, <1>5, <1>7, <1>9, <2>2 DEF BodyInv, BodyType
<1>10. CASE r \notin gone
  <2>1. /\ Append(wire[r], unit) \in Seq(BodyUnit)
        /\ Len(Append(wire[r], unit)) = Len(wire[r]) + 1
    BY <1>2, <1>6, AppendProperties
  <2>2. wire' \in [Responses -> Seq(BodyUnit)] /\ wire'[r] = Append(wire[r], unit)
    BY <1>1, <1>10, <2>1 DEF BodyInv, BodyType
  <2>3. After(r, 0, Append(wire[r], unit))
    <3>1. After(r, 0, wire[r]) /\ Len(wire[r]) = given[r]
      BY <1>4, <1>10 DEF AllWrites
    <3>2. unit = Unit(r, 0 + Len(wire[r]) + 1)
      BY <1>2, <3>1 DEF unit
    <3> QED BY <1>2, <1>6, <3>1, <3>2, AfterAppend
  <2>4. AllWrites(r)' /\ Own(r)'
    BY <1>1, <1>2, <1>4, <1>5, <1>10, <2>1, <2>2, <2>3
       DEF AllWrites, Own, After, Unit
  <2>5. SentBody(r)'
    BY <1>1, <1>2, <1>4, <2>1, <2>2 DEF SentBody
  <2>6. Body(r)'
    BY <1>1, <1>3, <1>8, <2>4, <2>5
       DEF Body, NewBody, PlainBody, EncodedBody, EndedBody,
           BodyInv
  <2> QED BY <1>1, <1>5, <1>7, <2>2, <2>6 DEF BodyInv, BodyType
<1> QED BY <1>9, <1>10

\* An encoder passes on a part of what it has, in order.
LEMMA WriteEncodedKeepsBody ==
  ASSUME BodyInv, NEW r \in Responses, Write(r), rw[r].encoding # None
  PROVE  BodyType' /\ \A s \in Responses : Body(s)'
<1> DEFINE e == rw[r].encoder
           unit == Unit(r, given[r] + 1)
           data == Append(encoders[e].buffer, unit)
<1>1. /\ rw[r].phase = "open" /\ given' = [given EXCEPT ![r] = @ + 1]
      /\ seen' = seen /\ flushed' = flushed /\ gone' = gone
      /\ rw' = [rw EXCEPT ![r].uncompressed = @ + 1]
  BY DEF Write, WriteEncoded
<1>2. e # None
  BY <1>1 DEF BodyInv, Body, PlainBody
<1>3. /\ rw[r] \in WriterType /\ e \in Encoders
      /\ encoders[e].buffer \in Seq(BodyUnit) /\ wire[r] \in Seq(BodyUnit)
      /\ Len(encoders[e].buffer) \in Nat /\ Len(wire[r]) \in Nat
      /\ given[r] \in Nat /\ Applied(r) /\ Own(r) /\ Holds(r, encoders[e])
  BY <1>1, <1>2, EncodedState
<1>4. unit \in BodyUnit
  BY <1>3, UnitOfBody DEF BodyInv
<1>5. /\ rw'[r].phase = "open" /\ rw'[r].encoder = e
      /\ rw'[r].encoding = rw[r].encoding /\ rw'[r].answer = rw[r].answer
      /\ rw'[r].header = rw[r].header
      /\ \A t \in Responses \ {r} : rw'[t] = rw[t]
  BY <1>1, <1>3 DEF BodyInv, IInv, WriterInv, WriterType
<1>6. /\ given' \in [Responses -> Nat] /\ given'[r] = given[r] + 1
      /\ \A t \in Responses \ {r} : given'[t] = given[t]
  BY <1>1, <1>3 DEF BodyInv, BodyType
<1>7. data \in Seq(BodyUnit) /\ Len(data) = Len(encoders[e].buffer) + 1
  BY <1>3, <1>4, AppendProperties
<1>8. ~encoders[e].failed => After(r, Len(wire[r]), data)
  <2> SUFFICES ASSUME ~encoders[e].failed PROVE After(r, Len(wire[r]), data)
    OBVIOUS
  <2>1. /\ Len(wire[r]) + Len(encoders[e].buffer) = given[r]
        /\ After(r, Len(wire[r]), encoders[e].buffer)
    BY <1>3 DEF Holds
  <2> QED BY <1>3, <1>4, <2>1, AfterAppend
<1>9. PICK k \in 0 .. Len(data) :
        EncoderOutput(e, SubSeq(data, 1, k), SubSeq(data, k + 1, Len(data)))
  BY DEF Write, WriteEncoded
<1> DEFINE units == SubSeq(data, 1, k)
           rest == SubSeq(data, k + 1, Len(data))
<1> HIDE DEF unit, data
<1>10. EncoderOutput(e, units, rest)
  BY <1>9
<1>11. /\ units \in Seq(BodyUnit) /\ rest \in Seq(BodyUnit)
       /\ Len(units) = k /\ Len(rest) = Len(data) - k /\ k \in Nat
       /\ After(r, Len(wire[r]), data) =>
            /\ After(r, Len(wire[r]), units)
            /\ After(r, Len(wire[r]) + k, rest)
  <2>1. Len(data) \in Nat
    BY <1>7, LenProperties
  <2>2. k \in Nat
    BY <2>1
  <2>3. Len(wire[r]) \in Nat
    BY <1>3
  <2> QED BY <1>7, <2>2, <2>3, AfterSplit, Zenon
<1> HIDE DEF units, rest
<1>12. /\ encoders' \in [Encoders -> EncoderType]
       /\ wire' \in [Responses -> Seq(BodyUnit)]
       /\ \A t \in Responses \ {r} : wire'[t] = wire[t]
       /\ \A f \in Encoders \ {e} : encoders'[f] = encoders[f]
       /\ encoders'[e].dest = r
       /\ \/ encoders'[e].failed /\ r \in gone /\ wire'[r] = wire[r]
          \/ /\ ~encoders'[e].failed /\ ~encoders[e].failed
             /\ wire'[r] = wire[r] \o units /\ encoders'[e].buffer = rest
  BY <1>1, <1>2, <1>10, <1>11, OutputKeeps
<1>13. BodyType'
  BY <1>1, <1>6, <1>12 DEF BodyInv, BodyType
<1>14. ASSUME NEW s \in Responses, s # r PROVE Body(s)'
  <2>1. Held \ {None} \subseteq Encoders
    BY DEF BodyInv, IInv, WriterInv, WriterType, Held
  <2> QED BY <1>1, <1>5, <1>6, <1>12, <1>14, <2>1, StepOfOne
<1>15. Own(r)' /\ Holds(r, encoders[e])' /\ Len(wire'[r]) >= Len(wire[r])
  <2>1. CASE encoders'[e].failed /\ r \in gone /\ wire'[r] = wire[r]
    <3>1. /\ After(r, 0, wire[r]) /\ Len(wire[r]) <= given[r]
          /\ Len(wire[r]) \in Nat /\ given[r] \in Nat
      BY <1>3 DEF Own
    <3>2. Own(r)'
      BY <1>5, <1>6, <2>1, <3>1 DEF Own, After, Unit
    <3>3. Holds(r, encoders[e])'
      BY <1>1, <1>5, <1>12, <2>1 DEF Holds
    <3> QED BY <2>1, <3>1, <3>2, <3>3
  <2>2. CASE /\ ~encoders'[e].failed /\ ~encoders[e].failed
             /\ wire'[r] = wire[r] \o units /\ encoders'[e].buffer = rest
    <3>1. /\ After(r, Len(wire[r]), units) /\ After(r, Len(wire[r]) + k, rest)
          /\ Len(wire[r]) + Len(encoders[e].buffer) = given[r]
          /\ After(r, 0, wire[r])
      BY <1>3, <1>8, <1>11, <2>2 DEF Holds, Own
    <3>2. After(r, 0, wire[r] \o units)
      <4>1. After(r, 0 + Len(wire[r]), units)
        BY <1>3, <3>1
      <4> QED BY <1>3, <1>11, <3>1, <4>1, AfterConcat
    <3>3. Len(wire'[r]) = Len(wire[r]) + k
      BY <1>3, <1>11, <2>2, ConcatProperties
    <3>4. /\ Len(wire'[r]) + Len(rest) = given'[r] /\ Len(rest) \in Nat
          /\ Len(wire'[r]) \in Nat /\ given'[r] \in Nat
      <4>1. /\ Len(wire[r]) \in Nat /\ Len(encoders[e].buffer) \in Nat
            /\ given[r] \in Nat
        BY <1>3
      <4>2. Len(rest) = Len(encoders[e].buffer) + 1 - k /\ k \in Nat
        BY <1>7, <1>11
      <4>3. Len(rest) \in Nat
        BY <1>11, LenProperties
      <4>4. /\ Len(wire[r]) + Len(encoders[e].buffer) = given[r]
            /\ given'[r] = given[r] + 1
        BY <1>6, <3>1
      <4> DEFINE lw == Len(wire[r])
                 lb == Len(encoders[e].buffer)
                 lr == Len(rest)
                 lw1 == Len(wire'[r])
      <4>5. /\ lw \in Nat /\ lb \in Nat /\ lr \in Nat /\ k \in Nat
            /\ lr = lb + 1 - k /\ lw + lb = given[r] /\ lw1 = lw + k
            /\ given[r] \in Nat /\ given'[r] = given[r] + 1
        BY <3>3, <4>1, <4>2, <4>3, <4>4
      <4> HIDE DEF lw, lb, lr, lw1
      <4>6. lw1 + lr = given'[r] /\ lw1 \in Nat /\ given'[r] \in Nat
        BY <4>5
      <4> QED BY <4>3, <4>6 DEF lw1, lr
    <3>5. Own(r)'
      <4>1. Len(wire'[r]) <= given'[r]
        BY <3>4
      <4>2. After(r, 0, wire[r])'
        BY <1>5, <2>2, <3>2 DEF After, Unit
      <4> QED BY <4>1, <4>2 DEF Own
    <3>6. Holds(r, encoders[e])'
      BY <1>5, <1>12, <2>2, <3>1, <3>3, <3>4 DEF Holds, After, Unit
    <3> QED BY <1>3, <1>11, <3>3, <3>5, <3>6
  <2> QED BY <1>12, <2>1, <2>2
<1>16. SentBody(r)'
  <2>1. SentBody(r) /\ seen[r] \in Nat
    BY DEF BodyInv, Body, BodyType
  <2>2. Len(wire'[r]) \in Nat
    BY <1>12, LenProperties
  <2> QED BY <1>1, <1>3, <1>5, <1>15, <2>1, <2>2 DEF SentBody
<1>17. Applied(r)'
  BY <1>3, <1>5 DEF Applied
<1>18. Body(r)'
  BY <1>2, <1>5, <1>15, <1>16, <1>17
     DEF Body, NewBody, PlainBody, EncodedBody, EndedBody
<1> QED BY <1>13, <1>14, <1>18

\* A flush gives the client what the encoder held, and sends it.
LEMMA FlushKeepsBody ==
  ASSUME BodyInv, NEW r \in Responses, Flush(r)
  PROVE  BodyType' /\ \A s \in Responses : Body(s)'
<1> DEFINE e == rw[r].encoder
           enc == encoders[e]
<1>1. /\ rw[r].phase = "open" /\ rw' = rw /\ given' = given /\ gone' = gone
      /\ flushed' = [flushed EXCEPT ![r] = given[r]]
      /\ seen' = IF r \in gone THEN seen ELSE [seen EXCEPT ![r] = Len(wire'[r])]
      /\ FlushEncoder(r)
  BY DEF Flush, Leave
<1>2. given[r] \in Nat /\ wire[r] \in Seq(BodyUnit) /\ SentBody(r)
      /\ seen[r] \in Nat /\ Len(wire[r]) \in Nat
  BY LenProperties DEF BodyInv, BodyType, Body
\* What FlushEncoder does, with an encoder or without one.
<1>3. /\ encoders' \in [Encoders -> EncoderType]
      /\ wire' \in [Responses -> Seq(BodyUnit)]
      /\ \A t \in Responses \ {r} : wire'[t] = wire[t]
      /\ \A f \in Encoders \ {e} : encoders'[f] = encoders[f]
      /\ Own(r)' /\ Len(wire[r]) <= Len(wire'[r])
      /\ r \notin gone => Len(wire'[r]) = given[r]
      /\ PlainBody(r)' /\ EncodedBody(r)'
  <2>1. CASE e = None
    <3>1. UNCHANGED <<encoders, wire>>
      BY <1>1, <2>1 DEF FlushEncoder
    <3>2. PlainBody(r) /\ Own(r) /\ (r \notin gone => AllWrites(r)) /\ ~Applied(r)
          /\ rw[r].encoding = None
      BY <1>1, <2>1 DEF BodyInv, Body, PlainBody
    <3>3. Own(r)' /\ (r \notin gone => AllWrites(r)') /\ ~Applied(r)'
      BY <1>1, <3>1, <3>2 DEF Own, AllWrites, Applied, After, Unit
    <3>4. PlainBody(r)' /\ EncodedBody(r)'
      BY <1>1, <2>1, <3>2, <3>3 DEF PlainBody, EncodedBody
    <3>5. r \notin gone => Len(wire'[r]) = given[r]
      BY <3>1, <3>2 DEF AllWrites
    <3> QED BY <1>2, <3>1, <3>3, <3>4, <3>5 DEF BodyInv, BodyType
  <2>2. CASE e # None
    <3> DEFINE units == enc.buffer
               rest == <<>>
    <3>1. EncoderOutput(e, units, rest)
      BY <1>1, <2>2 DEF FlushEncoder
    <3>2. /\ enc.buffer \in Seq(BodyUnit) /\ Len(enc.buffer) \in Nat
          /\ rw[r].encoding # None /\ Applied(r) /\ Own(r) /\ Holds(r, enc)
      BY <1>1, <2>2, EncodedState
    <3>3. /\ rest \in Seq(BodyUnit) /\ Len(rest) = 0
          /\ units \in Seq(BodyUnit) /\ Len(units) \in Nat
          /\ ~enc.failed => /\ Len(wire[r]) + Len(units) = given[r]
                            /\ After(r, Len(wire[r]), units)
      BY <3>2, EmptySeq DEF Holds
    <3> HIDE DEF units, rest
    <3>4. /\ encoders' \in [Encoders -> EncoderType]
          /\ wire' \in [Responses -> Seq(BodyUnit)]
          /\ \A t \in Responses \ {r} : wire'[t] = wire[t]
          /\ \A f \in Encoders \ {e} : encoders'[f] = encoders[f]
          /\ encoders'[e].dest = r
          /\ \/ encoders'[e].failed /\ r \in gone /\ wire'[r] = wire[r]
             \/ /\ ~encoders'[e].failed /\ ~enc.failed
                /\ wire'[r] = wire[r] \o units /\ encoders'[e].buffer = rest
      BY <1>1, <2>2, <3>1, <3>3, OutputKeeps, ZenonT(40)
    <3>5. /\ Own(r)' /\ Holds(r, encoders[e])' /\ Len(wire[r]) <= Len(wire'[r])
          /\ r \notin gone => Len(wire'[r]) = given[r]
      <4>1. CASE encoders'[e].failed /\ r \in gone /\ wire'[r] = wire[r]
        <5>1. Own(r)'
          BY <1>1, <3>2, <4>1 DEF Own, After, Unit
        <5>2. Holds(r, encoders[e])'
          BY <1>1, <3>4, <4>1 DEF Holds
        <5> QED BY <1>2, <4>1, <5>1, <5>2
      <4>2. CASE /\ ~encoders'[e].failed /\ ~enc.failed
                 /\ wire'[r] = wire[r] \o units /\ encoders'[e].buffer = rest
        <5>1. /\ Len(wire[r]) + Len(units) = given[r] /\ After(r, 0, wire[r])
              /\ After(r, 0 + Len(wire[r]), units) /\ Len(wire[r]) <= given[r]
          BY <1>2, <3>2, <3>3, <4>2 DEF Own
        <5>2. After(r, 0, wire[r] \o units)
          BY <1>2, <3>3, <5>1, AfterConcat
        <5>3. Len(wire'[r]) = given[r]
          BY <1>2, <3>3, <4>2, <5>1, ConcatProperties
        <5>4. Own(r)'
          <6>1. After(r, 0, wire[r])'
            BY <1>1, <4>2, <5>2 DEF After, Unit
          <6>2. Len(wire'[r]) <= given'[r]
            BY <1>1, <1>2, <5>3
          <6> QED BY <6>1, <6>2 DEF Own
        <5>5. Holds(r, encoders[e])'
          BY <1>1, <1>2, <3>3, <3>4, <4>2, <5>3 DEF Holds, After
        <5> QED BY <5>1, <5>3, <5>4, <5>5
      <4> QED BY <3>4, <4>1, <4>2
    <3>6. Applied(r)'
      BY <1>1, <3>2 DEF Applied
    <3>7. PlainBody(r)' /\ EncodedBody(r)'
      BY <1>1, <2>2, <3>2, <3>5, <3>6 DEF PlainBody, EncodedBody
    <3> QED BY <3>4, <3>5, <3>7
  <2> QED BY <2>1, <2>2
<1>4. Len(wire'[r]) \in Nat
  BY <1>3, LenProperties
<1>5. /\ seen' \in [Responses -> Nat] /\ flushed' \in [Responses -> Nat]
      /\ flushed'[r] = given[r]
      /\ seen'[r] = IF r \in gone THEN seen[r] ELSE Len(wire'[r])
      /\ \A t \in Responses \ {r} : seen'[t] = seen[t] /\ flushed'[t] = flushed[t]
  BY <1>1, <1>2, <1>4 DEF BodyInv, BodyType
<1>6. BodyType'
  BY <1>1, <1>3, <1>5 DEF BodyInv, BodyType
<1>7. SentBody(r)'
  BY <1>1, <1>2, <1>3, <1>4, <1>5 DEF SentBody
<1>8. Body(r)'
  BY <1>1, <1>3, <1>7 DEF Body, NewBody, EndedBody
<1>9. ASSUME NEW s \in Responses, s # r PROVE Body(s)'
  <2>1. Held \ {None} \subseteq Encoders
    BY DEF BodyInv, IInv, WriterInv, WriterType, Held
  <2> QED BY <1>1, <1>3, <1>5, <1>9, <2>1, StepOfOne
<1> QED BY <1>6, <1>8, <1>9

\* Without an encoder the body has left as it was written.
LEMMA ClosePlainKeepsBody ==
  ASSUME BodyInv, NEW r \in Responses, ClosePlain(r)
  PROVE  BodyType' /\ \A s \in Responses : Body(s)'
<1>1. /\ rw[r].phase \in {"new", "open"} /\ rw[r].encoder = None
      /\ rw' = [rw EXCEPT ![r].phase = "closed"] /\ wire' = wire
      /\ seen' = IF r \in gone THEN seen ELSE [seen EXCEPT ![r] = Len(wire[r])]
      /\ encoders' = encoders /\ given' = given /\ flushed' = flushed
      /\ gone' = gone
  BY DEF ClosePlain, Leave
<1>2. /\ rw[r] \in WriterType /\ wire[r] \in Seq(BodyUnit) /\ SentBody(r)
      /\ seen[r] \in Nat /\ flushed[r] \in Nat /\ Len(wire[r]) \in Nat
  BY LenProperties DEF BodyInv, IInv, WriterInv, BodyType, Body
<1>3. /\ rw'[r].phase = "closed" /\ rw'[r].encoding = rw[r].encoding
      /\ rw'[r].answer = rw[r].answer /\ rw'[r].header = rw[r].header
      /\ \A t \in Responses \ {r} : rw'[t] = rw[t]
  BY <1>1, <1>2 DEF BodyInv, IInv, WriterInv, WriterType
<1>4. ~Applied(r) /\ Own(r) /\ (r \notin gone => AllWrites(r))
  <2>1. CASE rw[r].phase = "new"
    BY <2>1 DEF BodyInv, Body, NewBody, Applied, Own, AllWrites, After
  <2>2. CASE rw[r].phase = "open"
    BY <1>1, <2>2 DEF BodyInv, Body, PlainBody
  <2> QED BY <1>1, <2>1, <2>2
<1>5. ~Applied(r)' /\ Own(r)' /\ (r \notin gone => AllWrites(r)')
  BY <1>1, <1>3, <1>4 DEF Applied, Own, AllWrites, After, Unit
<1>6. /\ seen' \in [Responses -> Nat]
      /\ seen'[r] = IF r \in gone THEN seen[r] ELSE Len(wire[r])
      /\ \A t \in Responses \ {r} : seen'[t] = seen[t]
  BY <1>1, <1>2 DEF BodyInv, BodyType
<1>7. SentBody(r)'
  BY <1>1, <1>2, <1>3, <1>6 DEF SentBody, BodyInv, BodyType
<1>8. Body(r)'
  BY <1>1, <1>3, <1>5, <1>7
     DEF Body, NewBody, PlainBody, EncodedBody, EndedBody
<1>9. ASSUME NEW s \in Responses, s # r PROVE Body(s)'
  BY <1>1, <1>3, <1>6, <1>9, StepOfOne
<1>10. BodyType'
  BY <1>1, <1>6 DEF BodyInv, BodyType
<1> QED BY <1>8, <1>9, <1>10

\* What is sent after the end of an encoded body was written is all of it.
LEMMA PutEncoderKeepsBody ==
  ASSUME BodyInv, NEW r \in Responses, PutEncoder(r)
  PROVE  BodyType' /\ \A s \in Responses : Body(s)'
<1>1. /\ rw[r].phase = "closing"
      /\ rw' = [rw EXCEPT ![r].phase = "closed", ![r].encoder = None]
      /\ wire' = wire
      /\ seen' = IF r \in gone THEN seen ELSE [seen EXCEPT ![r] = Len(wire[r])]
      /\ encoders' = encoders /\ given' = given /\ flushed' = flushed
      /\ gone' = gone
  BY DEF PutEncoder, Leave
<1>2. /\ rw[r] \in WriterType /\ wire[r] \in Seq(BodyUnit) /\ SentBody(r)
      /\ seen[r] \in Nat /\ flushed[r] \in Nat /\ Len(wire[r]) \in Nat
  BY LenProperties DEF BodyInv, IInv, WriterInv, BodyType, Body
<1>3. /\ rw'[r].phase = "closed" /\ rw'[r].encoding = rw[r].encoding
      /\ rw'[r].answer = rw[r].answer /\ rw'[r].header = rw[r].header
      /\ \A t \in Responses \ {r} : rw'[t] = rw[t]
  BY <1>1, <1>2 DEF BodyInv, IInv, WriterInv, WriterType
<1>4. Applied(r) /\ (Own(r) \/ Whole(r)) /\ (r \notin gone => Whole(r))
  BY <1>1 DEF BodyInv, Body, EndedBody
<1>5. Applied(r)' /\ (Own(r)' \/ Whole(r)') /\ (r \notin gone => Whole(r)')
  <2>1. Applied(r)'
    BY <1>3, <1>4 DEF Applied
  <2>2. Own(r) => Own(r)'
    BY <1>1, <1>3 DEF Own, After, Unit
  <2>3. Whole(r) => Whole(r)'
    BY <1>1, <1>3 DEF Whole, Unit
  <2> QED BY <1>4, <2>1, <2>2, <2>3
<1>6. /\ seen' \in [Responses -> Nat]
      /\ seen'[r] = IF r \in gone THEN seen[r] ELSE Len(wire[r])
      /\ \A t \in Responses \ {r} : seen'[t] = seen[t]
  BY <1>1, <1>2 DEF BodyInv, BodyType
<1>7. SentBody(r)'
  BY <1>1, <1>2, <1>3, <1>6 DEF SentBody
<1>8. Body(r)'
  BY <1>1, <1>3, <1>5, <1>7
     DEF Body, NewBody, PlainBody, EncodedBody, EndedBody
<1>9. ASSUME NEW s \in Responses, s # r PROVE Body(s)'
  BY <1>1, <1>3, <1>6, <1>9, StepOfOne
<1>10. BodyType'
  BY <1>1, <1>6 DEF BodyInv, BodyType
<1> QED BY <1>8, <1>9, <1>10

\* The end of an encoded body follows all that was held back, or fails.
LEMMA CloseEncoderKeepsBody ==
  ASSUME BodyInv, NEW r \in Responses, CloseEncoder(r)
  PROVE  BodyType' /\ \A s \in Responses : Body(s)'
<1> DEFINE e == rw[r].encoder
           enc == encoders[e]
           end == Unit(r, 0)
           units == Append(enc.buffer, end)
           rest == <<>>
<1>1. /\ rw[r].phase = "open" /\ e # None
      /\ rw' = [rw EXCEPT ![r].phase = "closing"]
      /\ seen' = seen /\ given' = given /\ flushed' = flushed /\ gone' = gone
      /\ EncoderOutput(e, units, rest)
  BY DEF CloseEncoder
<1>2. /\ rw[r] \in WriterType /\ enc.buffer \in Seq(BodyUnit)
      /\ wire[r] \in Seq(BodyUnit) /\ Len(enc.buffer) \in Nat
      /\ Len(wire[r]) \in Nat /\ given[r] \in Nat /\ Applied(r)
      /\ Own(r) /\ Holds(r, enc)
  BY <1>1, EncodedState
<1>3. SentBody(r) /\ seen[r] \in Nat
  BY DEF BodyInv, BodyType, Body
<1>4. /\ rw'[r].phase = "closing" /\ rw'[r].encoding = rw[r].encoding
      /\ rw'[r].answer = rw[r].answer /\ rw'[r].header = rw[r].header
      /\ \A t \in Responses \ {r} : rw'[t] = rw[t]
  BY <1>1, <1>2 DEF BodyInv, IInv, WriterInv, WriterType
<1>5. end \in BodyUnit
  BY UnitOfBody DEF BodyInv
<1> HIDE DEF end
<1>6. /\ units \in Seq(BodyUnit) /\ Len(units) = Len(enc.buffer) + 1
      /\ units[Len(enc.buffer) + 1] = end
      /\ \A i \in 1 .. Len(enc.buffer) : units[i] = enc.buffer[i]
      /\ rest \in Seq(BodyUnit)
  <2> DEFINE held == enc.buffer
  <2>1. held \in Seq(BodyUnit)
    BY <1>2
  <2> HIDE DEF held
  <2>2. /\ Append(held, end) \in Seq(BodyUnit) /\ Len(Append(held, end)) = Len(held) + 1
        /\ Append(held, end)[Len(held) + 1] = end
        /\ \A i \in 1 .. Len(held) : Append(held, end)[i] = held[i]
    BY <1>5, <2>1, AppendProperties
  <2>3. rest \in Seq(BodyUnit)
    BY EmptySeq
  <2> QED BY <2>2, <2>3 DEF held
<1> HIDE DEF units, rest
<1>7. /\ encoders' \in [Encoders -> EncoderType]
      /\ wire' \in [Responses -> Seq(BodyUnit)]
      /\ \A t \in Responses \ {r} : wire'[t] = wire[t]
      /\ \A f \in Encoders \ {e} : encoders'[f] = encoders[f]
      /\ \/ encoders'[e].failed /\ r \in gone /\ wire'[r] = wire[r]
         \/ /\ ~encoders'[e].failed /\ ~enc.failed
            /\ wire'[r] = wire[r] \o units /\ encoders'[e].buffer = rest
  BY <1>1, <1>6, OutputKeeps
<1>8. /\ (Own(r)' \/ Whole(r)') /\ (r \notin gone => Whole(r)')
      /\ Len(wire[r]) <= Len(wire'[r])
  <2>1. CASE encoders'[e].failed /\ r \in gone /\ wire'[r] = wire[r]
    <3>1. Own(r)'
      BY <1>1, <1>2, <1>4, <2>1 DEF Own, After, Unit
    <3> QED BY <1>2, <2>1, <3>1
  <2>2. CASE ~enc.failed /\ wire'[r] = wire[r] \o units
    <3> DEFINE lw == Len(wire[r])
               lb == Len(enc.buffer)
    <3>1. /\ lw + lb = given[r] /\ lw \in Nat /\ lb \in Nat
          /\ \A i \in 1 .. lw : wire[r][i] = Unit(r, 0 + i)
          /\ \A i \in 1 .. lb : enc.buffer[i] = Unit(r, lw + i)
      BY <1>2, <2>2 DEF Holds, Own, After
    <3>2. /\ Len(wire'[r]) = lw + (lb + 1)
          /\ \A i \in 1 .. lw : wire'[r][i] = wire[r][i]
          /\ \A j \in 1 .. lb + 1 : wire'[r][lw + j] = units[j]
      <4>1. Len(units) = lb + 1
        BY <1>6
      <4>2. wire[r] \in Seq(BodyUnit) /\ units \in Seq(BodyUnit)
        BY <1>2, <1>6
      <4> DEFINE all == wire[r] \o units
      <4>3. /\ Len(all) = lw + Len(units)
            /\ \A i \in 1 .. lw : all[i] = wire[r][i]
            /\ \A j \in 1 .. Len(units) : all[lw + j] = units[j]
        BY <4>2, ConcatUnits, Zenon
      <4>4. wire'[r] = all
        BY <2>2
      <4> HIDE DEF all, lw, lb
      <4> QED BY <4>1, <4>3, <4>4
    <3>3. /\ \A i \in 1 .. lb : units[i] = enc.buffer[i]
          /\ units[lb + 1] = end
      BY <1>6
    <3> HIDE DEF lw, lb
    <3>4. Len(wire'[r]) = given[r] + 1
      BY <3>1, <3>2
    <3>5. ASSUME NEW i \in 1 .. given[r] PROVE wire'[r][i] = Unit(r, i)
      <4>1. i \in Nat /\ 0 + i = i
        BY <3>1, <3>5
      <4>2. CASE i <= lw
        <5>1. i \in 1 .. lw
          BY <3>1, <4>1, <4>2, <3>5
        <5> QED BY <3>1, <3>2, <4>1, <4>2, <5>1
      <4>3. CASE ~(i <= lw)
        <5>1. i - lw \in 1 .. lb /\ lw + (i - lw) = i
          BY <3>1, <3>5, <4>1, <4>3
        <5>2. wire'[r][lw + (i - lw)] = units[i - lw]
          <6>1. i - lw \in 1 .. lb + 1
            BY <3>1, <5>1
          <6> QED BY <3>2, <6>1
        <5>3. units[i - lw] = Unit(r, lw + (i - lw))
          BY <3>1, <3>3, <5>1
        <5> QED BY <5>1, <5>2, <5>3
      <4> QED BY <4>2, <4>3
    <3>6. wire'[r][given[r] + 1] = Unit(r, 0)
      <4>1. given[r] + 1 = lw + (lb + 1) /\ lb + 1 \in 1 .. lb + 1
        BY <3>1
      <4>2. wire'[r][lw + (lb + 1)] = units[lb + 1]
        BY <3>2, <4>1
      <4> QED BY <3>3, <4>1, <4>2 DEF end
    <3>7. \A n : Unit(r, n)' = Unit(r, n)
      BY <1>4 DEF Unit
    <3>8. Whole(r)'
      BY <1>1, <3>4, <3>5, <3>6, <3>7 DEF Whole
    <3>9. Len(wire[r]) <= Len(wire'[r])
      <4>1. lw <= Len(wire'[r])
        BY <3>1, <3>2
      <4> QED BY <4>1 DEF lw
    <3> QED BY <3>8, <3>9
  <2> QED BY <1>7, <2>1, <2>2
<1>9. Applied(r)'
  BY <1>2, <1>4 DEF Applied
<1>10. SentBody(r)'
  <2>1. Len(wire'[r]) \in Nat
    BY <1>7, LenProperties
  <2> QED BY <1>1, <1>2, <1>3, <1>4, <1>8, <2>1 DEF SentBody
<1>11. Body(r)'
  BY <1>1, <1>4, <1>8, <1>9, <1>10
     DEF Body, NewBody, PlainBody, EncodedBody, EndedBody
<1>12. ASSUME NEW s \in Responses, s # r PROVE Body(s)'
  <2>1. Held \ {None} \subseteq Encoders
    BY DEF BodyInv, IInv, WriterInv, WriterType, Held
  <2> QED BY <1>1, <1>4, <1>7, <1>12, <2>1, StepOfOne
<1>13. BodyType'
  BY <1>1, <1>7 DEF BodyInv, BodyType
<1> QED BY <1>11, <1>12, <1>13

\* A client that goes away loses what has not left; nothing it got changes.
LEMMA LeavingKeepsBody ==
  ASSUME BodyInv, NEW r \in Responses, ClientLeaves(r)
  PROVE  BodyType' /\ \A s \in Responses : Body(s)'
<1>1. /\ gone' = gone \cup {r}
      /\ UNCHANGED <<rw, encoders, wire, seen, given, flushed>>
  BY DEF ClientLeaves
<1>2. ASSUME NEW s \in Responses, s # r PROVE Body(s)'
  BY <1>1, <1>2, StepOfOne
<1>3. r \in gone' /\ (r \in gone => r \in gone')
  BY <1>1
<1>4. Body(r)
  BY DEF BodyInv
<1>5. /\ Own(r)' <=> Own(r)
      /\ Whole(r)' <=> Whole(r)
      /\ Applied(r)' <=> Applied(r)
  BY <1>1 DEF Own, Whole, Applied, After, Unit
<1>6. Holds(r, encoders[rw[r].encoder]) => Holds(r, encoders[rw[r].encoder])'
  BY <1>1 DEF Holds, After, Unit
<1>7. Body(r)'
  BY <1>1, <1>3, <1>4, <1>5, <1>6
     DEF Body, NewBody, PlainBody, EncodedBody, EndedBody, SentBody
<1>8. BodyType'
  BY <1>1 DEF BodyInv, BodyType
<1> QED BY <1>2, <1>7, <1>8

-----------------------------------------------------------------------------
\* The bodies of all responses, in every behaviour.
THEOREM BodyInvariance == Spec => []BodyInv
<1>1. Init /\ IInv => BodyInv
  <2> SUFFICES ASSUME Init, IInv PROVE BodyInv
    OBVIOUS
  <2>1. <<>> \in Seq(BodyUnit)
    BY EmptySeq
  <2>2. BodyType
    BY <2>1 DEF Init, BodyType, Blank, EncoderType
  <2>3. ASSUME NEW r \in Responses PROVE Body(r)
    BY DEF Init, WrapResponseWriter, Body, NewBody, PlainBody, EncodedBody,
           EndedBody, SentBody
  <2> QED BY <2>2, <2>3 DEF BodyInv
<1>2. BodyInv /\ IInv' /\ [Next]_vars => BodyInv'
  <2> SUFFICES ASSUME BodyInv, [Next]_vars
               PROVE  BodyType' /\ \A s \in Responses : Body(s)'
    BY DEF BodyInv
  <2>1. CASE \E r \in Responses : WriteHeader(r)
    BY <2>1, HeaderKeepsBody
  <2>2. CASE \E r \in Responses : Write(r)
    BY <2>2, WritePlainKeepsBody, WriteEncodedKeepsBody
  <2>3. CASE \E r \in Responses : Flush(r)
    BY <2>3, FlushKeepsBody
  <2>4. CASE \E r \in Responses : ClosePlain(r)
    BY <2>4, ClosePlainKeepsBody
  <2>5. CASE \E r \in Responses : CloseEncoder(r)
    BY <2>5, CloseEncoderKeepsBody
  <2>6. CASE \E r \in Responses : PutEncoder(r)
    BY <2>6, PutEncoderKeepsBody
  <2>7. CASE \E r \in Responses : ClientLeaves(r)
    BY <2>7, LeavingKeepsBody
  <2>8. CASE PoolDrops \/ Terminated \/ UNCHANGED vars
    <3>1. UNCHANGED <<rw, encoders, wire, seen, given, flushed, gone>>
      BY <2>8 DEF PoolDrops, Terminated, vars
    <3>2. BodyType'
      BY <3>1 DEF BodyInv, BodyType
    <3>3. ASSUME NEW s \in Responses PROVE Body(s)'
      BY <3>1, OthersKeep
    <3> QED BY <3>2, <3>3
  <2> QED BY <2>1, <2>2, <2>3, <2>4, <2>5, <2>6, <2>7, <2>8 DEF Next
<1> QED BY <1>1, <1>2, Invariance, PTL DEF Spec

\* A client gets nothing but its own handler's writes, in order and in one
\* coding, and an end only at the end, whoever had the encoder before it:
\* WriteHeader resets what the pool gives (compress.go:196-207).
THEOREM BodiesNotMixed == Spec => []OwnBytesOnly
<1>1. BodyInv => OwnBytesOnly
  <2> SUFFICES ASSUME BodyInv, NEW r \in Responses
               PROVE  LET end == rw[r].phase \in {"closing", "closed"}
                                   /\ wire[r] # <<>> /\ Last(wire[r]) = Unit(r, 0)
                          body == IF end THEN Front(wire[r]) ELSE wire[r]
                      IN  body = Numbered(r, Len(body)) /\ Len(body) <= given[r]
    BY DEF OwnBytesOnly
  <2> DEFINE end == rw[r].phase \in {"closing", "closed"}
                      /\ wire[r] # <<>> /\ Last(wire[r]) = Unit(r, 0)
  <2>1. /\ wire[r] \in Seq(BodyUnit) /\ Len(wire[r]) \in Nat /\ given[r] \in Nat
        /\ wire[r] = [i \in 1 .. Len(wire[r]) |-> wire[r][i]]
    BY LenProperties DEF BodyInv, BodyType
  <2>2. Own(r) \/ (Whole(r) /\ rw[r].phase \in {"closing", "closed"})
    <3>1. rw[r].phase \in Phases
      BY DEF BodyInv, IInv, WriterInv, WriterType
    <3>2. rw[r].phase = "new" => Own(r)
      BY DEF BodyInv, Body, NewBody, Own, After
    <3>3. rw[r].phase = "open" => Own(r)
      BY DEF BodyInv, Body, PlainBody, EncodedBody
    <3>4. rw[r].phase \in {"closing", "closed"} => Own(r) \/ Whole(r)
      BY DEF BodyInv, Body, EndedBody
    <3> QED BY <3>1, <3>2, <3>3, <3>4 DEF Phases
  <2>3. CASE Own(r)
    <3>1. \A i \in 1 .. Len(wire[r]) : wire[r][i] = Unit(r, i)
      BY <2>1, <2>3 DEF Own, After
    <3>2. wire[r] = Numbered(r, Len(wire[r]))
      BY <2>1, <3>1 DEF Numbered
    <3>3. ~end
      <4> SUFFICES ASSUME wire[r] # <<>> PROVE Last(wire[r]) # Unit(r, 0)
        OBVIOUS
      <4>1. Len(wire[r]) \in 1 .. Len(wire[r])
        BY <2>1, EmptySeq
      <4>2. Last(wire[r]) = Unit(r, Len(wire[r]))
        BY <3>1, <4>1 DEF Last
      <4> QED BY <2>1, <4>1, <4>2 DEF Unit
    <3> QED BY <2>3, <3>2, <3>3 DEF Own
  <2>4. CASE Whole(r) /\ rw[r].phase \in {"closing", "closed"}
    <3>1. end
      BY <2>1, <2>4 DEF Whole, Last
    <3>2. Front(wire[r]) = [i \in 1 .. given[r] |-> wire[r][i]]
      BY <2>1, <2>4 DEF Whole, Front
    <3>3. Front(wire[r]) = Numbered(r, given[r]) /\ Len(Front(wire[r])) = given[r]
      BY <2>1, <2>4, <3>2 DEF Whole, Numbered
    <3> QED BY <2>1, <3>1, <3>3
  <2> QED BY <2>2, <2>3, <2>4
<1> QED BY <1>1, BodyInvariance, PTL

\* After a Flush the client has, or can decode, all that was written before
\* it: the encoder is flushed before net/http is (compress.go:238-258).
THEOREM FlushesReachClients == Spec => []FlushedIsSeen
<1>1. BodyInv => FlushedIsSeen
  BY DEF BodyInv, BodyType, Body, SentBody, FlushedIsSeen
<1> QED BY <1>1, BodyInvariance, PTL

\* A response that is over is complete, with the end of its body if it is
\* encoded: Close ends the body (compress.go:260-289).
THEOREM BodiesComplete == Spec => []CompleteAtEnd
<1>1. BodyInv => CompleteAtEnd
  <2> SUFFICES ASSUME BodyInv, NEW r \in Responses, rw[r].phase = "closed",
                      r \notin gone
               PROVE  /\ seen[r] = Len(wire[r])
                      /\ wire[r] = Numbered(r, given[r])
                                     \o IF Applied(r) THEN <<Unit(r, 0)>> ELSE <<>>
    BY DEF CompleteAtEnd
  <2>1. /\ seen[r] = Len(wire[r])
        /\ IF Applied(r) THEN Whole(r) ELSE AllWrites(r)
    BY DEF BodyInv, Body, EndedBody, SentBody
  <2>2. /\ wire[r] \in Seq(BodyUnit) /\ Len(wire[r]) \in Nat /\ given[r] \in Nat
        /\ wire[r] = [i \in 1 .. Len(wire[r]) |-> wire[r][i]]
    BY LenProperties DEF BodyInv, BodyType
  <2>3. /\ Numbered(r, given[r]) \in Seq(BodyUnit)
        /\ Len(Numbered(r, given[r])) = given[r]
        /\ \A i \in 1 .. given[r] : Numbered(r, given[r])[i] = Unit(r, i)
    <3>1. \A i \in 1 .. given[r] : Unit(r, i) \in BodyUnit
      BY <2>2, UnitOfBody DEF BodyInv
    <3> QED BY <2>2, <3>1, IsASeq DEF Numbered
  <2>4. CASE Applied(r)
    <3> DEFINE end == <<Unit(r, 0)>>
    <3>1. Unit(r, 0) \in BodyUnit
      BY UnitOfBody DEF BodyInv
    <3>2. end \in Seq(BodyUnit) /\ Len(end) = 1 /\ end[1] = Unit(r, 0)
      BY <3>1
    <3> HIDE DEF end
    <3> DEFINE writes == Numbered(r, given[r])
               all == writes \o end
    <3>3. /\ all \in Seq(BodyUnit) /\ Len(all) = given[r] + 1
          /\ \A i \in 1 .. given[r] + 1 :
               all[i] = IF i <= given[r] THEN Unit(r, i) ELSE Unit(r, 0)
      <4>1. /\ writes \in Seq(BodyUnit) /\ Len(writes) = given[r]
            /\ \A i \in 1 .. given[r] : writes[i] = Unit(r, i)
        BY <2>3
      <4> HIDE DEF writes
      <4>2. /\ all \in Seq(BodyUnit) /\ Len(all) = Len(writes) + Len(end)
            /\ \A i \in 1 .. Len(writes) : all[i] = writes[i]
            /\ \A j \in 1 .. Len(end) : all[Len(writes) + j] = end[j]
        BY <3>2, <4>1, ConcatUnits
      <4> HIDE DEF all
      <4>3. /\ \A i \in 1 .. given[r] : all[i] = Unit(r, i)
            /\ all[given[r] + 1] = Unit(r, 0)
        BY <3>2, <4>1, <4>2
      <4>4. ASSUME NEW i \in 1 .. given[r] + 1
            PROVE  all[i] = IF i <= given[r] THEN Unit(r, i) ELSE Unit(r, 0)
        <5>1. CASE i <= given[r]
          BY <2>2, <4>3, <5>1
        <5>2. CASE ~(i <= given[r])
          <6>1. i = given[r] + 1
            BY <2>2, <5>2
          <6> QED BY <4>3, <5>2, <6>1
        <5> QED BY <5>1, <5>2
      <4> QED BY <3>2, <4>1, <4>2, <4>4
    <3> HIDE DEF all
    <3>4. /\ Len(wire[r]) = given[r] + 1
          /\ \A i \in 1 .. given[r] + 1 :
               wire[r][i] = IF i <= given[r] THEN Unit(r, i) ELSE Unit(r, 0)
      BY <2>1, <2>2, <2>4 DEF Whole
    <3>5. wire[r] = all
      <4>1. \A i \in 1 .. Len(wire[r]) : wire[r][i] = all[i]
        BY <3>3, <3>4
      <4>2. Len(wire[r]) = Len(all)
        BY <3>3, <3>4
      <4> QED BY <2>2, <3>3, <4>1, <4>2, SeqEqual
    <3> QED BY <2>1, <2>4, <3>5 DEF all, end
  <2>5. CASE ~Applied(r)
    <3>1. \A i \in 1 .. Len(wire[r]) : wire[r][i] = Unit(r, i)
      BY <2>1, <2>2, <2>5 DEF AllWrites, After
    <3>2. Len(wire[r]) = given[r]
      BY <2>1, <2>5 DEF AllWrites
    <3>3. wire[r] = Numbered(r, given[r])
      BY <2>2, <2>3, <3>1, <3>2, SeqEqual
    <3>4. Numbered(r, given[r]) \o <<>> = Numbered(r, given[r])
      BY <2>3, ConcatEmptySeq
    <3> QED BY <2>1, <2>5, <3>3, <3>4
  <2> QED BY <2>4, <2>5
<1> QED BY <1>1, BodyInvariance, PTL

-----------------------------------------------------------------------------
\* The coding of a body and its header.

\* The coding the request asks for.
Wanted(r) == WrapResponseWriter(request[r]).encoding

\* The header a writer has sent is that of upstream or of its own coding, and
\* before its header a writer has the coding the request asks for.
HeaderInv ==
  /\ request \in [Responses -> Requests]
  /\ \A r \in Responses :
       /\ rw[r].phase = "new" => rw[r].answer = None
       /\ rw[r].phase = "new" => rw[r].encoding = Wanted(r)
       /\ rw[r].answer # None =>
            \/ /\ rw[r].encoding = None /\ rw[r].header = rw[r].answer.coding
            \/ /\ rw[r].encoding = Wanted(r) /\ rw[r].encoding # None
               /\ rw[r].header = rw[r].encoding /\ rw[r].answer.coding = None

\* Only WriteHeader settles on a coding, and sets the header with it.
LEMMA HeaderStep ==
  ASSUME IInv, HeaderInv, [Next]_vars
  PROVE  HeaderInv'
<1>1. rw \in [Responses -> WriterType]
  BY DEF IInv, WriterInv
<1>2. ASSUME request' = request,
             \A s \in Responses :
               /\ rw'[s].answer = rw[s].answer /\ rw'[s].header = rw[s].header
               /\ rw'[s].encoding = rw[s].encoding
               /\ rw'[s].phase = "new" => rw[s].phase = "new"
      PROVE  HeaderInv'
  <2>1. \A s \in Responses : Wanted(s)' = Wanted(s)
    BY <1>2 DEF Wanted, WrapResponseWriter
  <2> QED BY <1>2, <2>1 DEF HeaderInv
<1>3. ASSUME NEW r \in Responses, WriteHeader(r) PROVE HeaderInv'
  <2>1. PICK answer \in Answers :
          /\ rw[r].phase = "new"
          /\ IF Encodes(r, answer) THEN WriteHeaderEncoded(r, answer)
                                   ELSE WriteHeaderPlain(r, answer)
          /\ request' = request
    BY <1>3 DEF WriteHeader
  <2>2. rw[r] \in WriterType /\ rw[r].encoding = Wanted(r)
    BY <1>1, <2>1 DEF HeaderInv
  <2>3. \A s \in Responses : Wanted(s)' = Wanted(s)
    BY <2>1 DEF Wanted, WrapResponseWriter
  <2>4. /\ \A s \in Responses \ {r} : rw'[s] = rw[s]
        /\ rw'[r].phase = "open" /\ rw'[r].answer = answer
        /\ \/ rw'[r].encoding = None /\ rw'[r].header = answer.coding
           \/ /\ rw'[r].encoding = rw[r].encoding /\ rw[r].encoding # None
              /\ rw'[r].header = rw[r].encoding /\ answer.coding = None
    <3>1. CASE WriteHeaderPlain(r, answer)
      BY <1>1, <2>2, <3>1 DEF WriteHeaderPlain, WriterType
    <3>2. CASE Encodes(r, answer) /\ WriteHeaderEncoded(r, answer)
      <4>1. rw[r].encoding # None /\ answer.coding = None
        BY <3>2 DEF Encodes
      <4> QED BY <1>1, <2>2, <3>2, <4>1 DEF WriteHeaderEncoded, WriterType
    <3> QED BY <2>1, <3>1, <3>2
  <2> QED BY <2>1, <2>2, <2>3, <2>4 DEF HeaderInv
<1>4. ASSUME NEW r \in Responses,
             ClosePlain(r) \/ CloseEncoder(r) \/ PutEncoder(r) PROVE HeaderInv'
  <2>1. rw[r] \in WriterType /\ request' = request
    BY <1>1, <1>4 DEF ClosePlain, CloseEncoder, PutEncoder
  <2>2. PICK phase \in {"closing", "closed"} :
          \/ rw' = [rw EXCEPT ![r].phase = phase]
          \/ rw' = [rw EXCEPT ![r].phase = phase, ![r].encoder = None]
    BY <1>4 DEF ClosePlain, CloseEncoder, PutEncoder
  <2> QED BY <1>1, <1>2, <2>1, <2>2 DEF WriterType
<1>5. ASSUME NEW r \in Responses, Write(r) PROVE HeaderInv'
  <2>1. request' = request
        /\ (rw' = rw \/ rw' = [rw EXCEPT ![r].uncompressed = @ + 1])
    BY <1>5 DEF Write, WritePlain, WriteEncoded
  <2> QED BY <1>1, <1>2, <2>1 DEF WriterType
<1>6. CASE UNCHANGED <<request, rw>>
  BY <1>2, <1>6
<1>7. ASSUME NEW r \in Responses, Flush(r) \/ ClientLeaves(r)
      PROVE  UNCHANGED <<request, rw>>
  BY <1>7 DEF Flush, ClientLeaves
<1>8. CASE PoolDrops \/ Terminated \/ UNCHANGED vars
  BY <1>6, <1>8 DEF PoolDrops, Terminated, vars
<1> QED BY <1>3, <1>4, <1>5, <1>6, <1>7, <1>8 DEF Next

\* The header of every response, in every behaviour.
LEMMA HeaderInvariance == Spec => []HeaderInv
<1>1. Init => HeaderInv
  <2> SUFFICES ASSUME Init PROVE HeaderInv
    OBVIOUS
  <2>1. \A r \in Responses : rw[r] = WrapResponseWriter(request[r])
    BY DEF Init
  <2> QED BY <2>1 DEF Init, HeaderInv, Wanted, WrapResponseWriter
<1>2. IInv /\ HeaderInv /\ [Next]_vars => HeaderInv'
  BY HeaderStep
<1> QED BY <1>1, <1>2, Invariance, PTL DEF Spec

\* What the client has been given has the coding of the writer.
LEMMA UnitsOfCoding ==
  ASSUME BodyInv, NEW r \in Responses
  PROVE  \A i \in DOMAIN wire[r] : wire[r][i].coding = rw[r].encoding
<1>1. /\ wire[r] \in Seq(BodyUnit) /\ Len(wire[r]) \in Nat
      /\ DOMAIN wire[r] = 1 .. Len(wire[r]) /\ given[r] \in Nat
  BY LenProperties DEF BodyInv, BodyType
<1>2. Own(r) \/ Whole(r)
  <2>1. rw[r].phase \in Phases
    BY DEF BodyInv, IInv, WriterInv, WriterType
  <2>2. rw[r].phase = "new" => Own(r)
    BY DEF BodyInv, Body, NewBody, Own, After
  <2> QED BY <2>1, <2>2 DEF Phases, BodyInv, Body, PlainBody, EncodedBody, EndedBody
<1>3. \A n : Unit(r, n).coding = rw[r].encoding
  BY DEF Unit
<1>4. CASE Own(r)
  <2>1. \A i \in 1 .. Len(wire[r]) : wire[r][i] = Unit(r, 0 + i)
    BY <1>4 DEF Own, After
  <2> QED BY <1>1, <1>3, <2>1
<1>5. CASE Whole(r)
  <2>1. ASSUME NEW i \in 1 .. Len(wire[r])
        PROVE  \E n : wire[r][i] = Unit(r, n)
    <3>1. i \in 1 .. given[r] \/ i = given[r] + 1
      BY <1>1, <1>5 DEF Whole
    <3>2. CASE i \in 1 .. given[r]
      BY <1>5, <3>2 DEF Whole
    <3>3. CASE i = given[r] + 1
      BY <1>5, <3>3 DEF Whole
    <3> QED BY <3>1, <3>2, <3>3
  <2> QED BY <1>1, <1>3, <2>1
<1> QED BY <1>2, <1>4, <1>5

\* The header names the coding of the body, and the proxy's own is one the
\* client accepts and prefers: SelectEncoding reads every Accept-Encoding so
\* (compress.go:51-130), and WriteHeader leaves a body with a coding alone
\* (compress.go:181-189).
THEOREM HeadersNameCodings == Spec => []HeaderNamesCoding
<1>1. BodyInv /\ HeaderInv => HeaderNamesCoding
  <2> SUFFICES ASSUME BodyInv, HeaderInv, NEW r \in Responses, rw[r].answer # None
               PROVE  LET applied == {wire[r][i].coding : i \in DOMAIN wire[r]} \ {None}
                          P(coding) == Preference(request[r].accept, coding)
                      IN  /\ applied \subseteq {rw[r].header}
                          /\ rw[r].answer.coding # None =>
                               rw[r].header = rw[r].answer.coding /\ applied = {}
                          /\ Applied(r) =>
                               /\ P(rw[r].header) > 0 /\ ~request[r].range
                               /\ \A c \in Encodings : P(c) <= P(rw[r].header)
    BY DEF HeaderNamesCoding
  <2> DEFINE applied == {wire[r][i].coding : i \in DOMAIN wire[r]} \ {None}
             accept == request[r].accept
  <2>1. applied \subseteq {rw[r].encoding} \ {None}
    BY UnitsOfCoding
  <2>2. CASE rw[r].encoding = None /\ rw[r].header = rw[r].answer.coding
    <3>1. applied = {} /\ ~Applied(r)
      BY <2>1, <2>2 DEF Applied
    <3> QED BY <2>2, <3>1
  <2>3. CASE /\ rw[r].encoding = Wanted(r) /\ rw[r].encoding # None
             /\ rw[r].header = rw[r].encoding /\ rw[r].answer.coding = None
    <3>1. applied \subseteq {rw[r].header}
      BY <2>1, <2>3
    <3>2. /\ ~request[r].range /\ rw[r].header = SelectEncoding(accept)
          /\ SelectEncoding(accept) # None
      BY <2>3 DEF Wanted, WrapResponseWriter
    <3>3. accept \in Accepts
      <4>1. request[r] \in Request
        BY ResponseAssumption DEF HeaderInv
      <4> QED BY <4>1 DEF Request, Accepts
    <3>4. /\ Preference(accept, rw[r].header) > 0
          /\ \A c \in Encodings :
               Preference(accept, c) <= Preference(accept, rw[r].header)
      BY <3>2, <3>3, SelectedIsPreferred
    <3> QED BY <2>3, <3>1, <3>2, <3>4
  <2> QED BY <2>2, <2>3 DEF HeaderInv
<1> QED BY <1>1, BodyInvariance, HeaderInvariance, PTL

-----------------------------------------------------------------------------
\* The bytes that are reported.

\* So many of each response of a set, one by one.
Rows(R, count) == UNION {{r} \X (1 .. count[r]) : r \in R}

\* The bytes the handler and the client have of each response.
Sent == [r \in Responses |-> Len(wire[r])]

\* A writer that has an encoder counts what its handler writes, and what is
\* told to the metrics are the writes and the units of the reported responses.
ReportInv ==
  /\ \A r \in Responses :
       /\ rw[r].phase = "new" => rw[r].uncompressed = 0
       /\ rw[r].encoder # None => rw[r].uncompressed = given[r]
  /\ IsFiniteSet(Tally(given)) /\ IsFiniteSet(Tally(Sent))
  /\ BytesReportedOnce

\* A response that is added to the tally adds its own count.
LEMMA RowAdded ==
  ASSUME NEW R, NEW r, r \notin R, NEW count, count[r] \in Nat,
         IsFiniteSet(Rows(R, count))
  PROVE  /\ IsFiniteSet(Rows(R \cup {r}, count))
         /\ Cardinality(Rows(R \cup {r}, count))
              = Cardinality(Rows(R, count)) + count[r]
<1> DEFINE row == {r} \X (1 .. count[r])
           S == Rows(R, count)
           one == Cardinality({r})
           length == Cardinality(1 .. count[r])
           size == Cardinality(S)
           added == Cardinality(row)
<1>1. IsFiniteSet({r}) /\ one = 1
  BY FS_Singleton
<1>2. IsFiniteSet(1 .. count[r]) /\ length = count[r]
  <2>1. 1 \in Int /\ count[r] \in Int
    OBVIOUS
  <2>2. /\ IsFiniteSet(1 .. count[r])
        /\ length = IF 1 > count[r] THEN 0 ELSE count[r] - 1 + 1
    BY <2>1, FS_Interval
  <2> HIDE DEF length
  <2> QED BY <2>2
<1>3. IsFiniteSet(row) /\ added = one * length
  BY <1>1, <1>2, FS_Product
<1>4. size \in Nat /\ Cardinality({}) = 0
  BY FS_CardinalityType, FS_EmptySet
<1>5. /\ IsFiniteSet(S \cup row)
      /\ Cardinality(S \cup row) = size + added - Cardinality(S \cap row)
  BY <1>3, FS_Union
<1>6. S \cap row = {} /\ Rows(R \cup {r}, count) = S \cup row
  BY DEF Rows
<1> HIDE DEF row, S, length, one, size, added
<1>7. added = count[r]
  BY <1>1, <1>2, <1>3
<1>8. Cardinality(S \cap row) = 0
  BY <1>4, <1>6
<1>9. size + added - 0 = size + count[r]
  BY <1>4, <1>7
<1>10. Cardinality(S \cup row) = size + count[r]
  BY <1>5, <1>8, <1>9
<1> QED BY <1>5, <1>6, <1>10 DEF size, S

\* The tally depends on the counts of its responses only.
LEMMA RowsSame ==
  ASSUME NEW R, NEW count, NEW other, \A r \in R : count[r] = other[r]
  PROVE  Rows(R, count) = Rows(R, other)
BY DEF Rows

\* An encoder writes to the response that has it.
LEMMA OutputToOne ==
  ASSUME BodyInv, NEW r \in Responses, rw[r].phase = "open",
         rw[r].encoder # None, NEW units, NEW rest,
         EncoderOutput(rw[r].encoder, units, rest)
  PROVE  \A s \in Responses \ {r} : wire'[s] = wire[s]
<1>1. encoders[rw[r].encoder].dest = r
  BY DEF BodyInv, Body, EncodedBody, Holds
<1>2. wire \in [Responses -> Seq(BodyUnit)]
  BY DEF BodyInv, BodyType
<1> QED BY <1>1, <1>2 DEF EncoderOutput

\* A response that is over stays what it is, and only PutEncoder adds one to
\* those that are reported or tells the metrics anything.
LEMMA ClosedKeeps ==
  ASSUME BodyInv, [Next]_vars, \A r \in Responses : ~PutEncoder(r)
  PROVE  /\ Reported' = Reported /\ totals' = totals
         /\ \A r \in Reported : given'[r] = given[r] /\ wire'[r] = wire[r]
<1>1. /\ rw \in [Responses -> WriterType]
      /\ wire \in [Responses -> Seq(BodyUnit)] /\ given \in [Responses -> Nat]
  BY DEF BodyInv, IInv, WriterInv, BodyType
<1>2. ASSUME NEW r \in Responses, rw[r].phase # "closed", totals' = totals,
             \A s \in Responses \ {r} :
               rw'[s] = rw[s] /\ given'[s] = given[s] /\ wire'[s] = wire[s],
             rw'[r].phase # "closed" \/ ~Applied(r)'
      PROVE  /\ Reported' = Reported /\ totals' = totals
             /\ \A s \in Reported : given'[s] = given[s] /\ wire'[s] = wire[s]
  <2>1. \A s \in Responses \ {r} : Applied(s)' <=> Applied(s)
    BY <1>2 DEF Applied
  <2>2. r \notin Reported /\ r \notin Reported'
    BY <1>2 DEF Reported
  <2>3. \A s \in Responses \ {r} : s \in Reported' <=> s \in Reported
    BY <1>2, <2>1 DEF Reported
  <2>4. Reported \subseteq Responses /\ Reported' \subseteq Responses
    BY DEF Reported
  <2> QED BY <1>2, <2>2, <2>3, <2>4
<1>3. ASSUME NEW r \in Responses, WriteHeader(r)
      PROVE  /\ rw[r].phase = "new" /\ totals' = totals
             /\ \A s \in Responses \ {r} :
                  rw'[s] = rw[s] /\ given'[s] = given[s] /\ wire'[s] = wire[s]
             /\ rw'[r].phase = "open"
  BY <1>1, <1>3 DEF WriteHeader, WriteHeaderPlain, WriteHeaderEncoded, WriterType
<1>4. ASSUME NEW r \in Responses, Write(r)
      PROVE  /\ rw[r].phase = "open" /\ totals' = totals
             /\ \A s \in Responses \ {r} :
                  rw'[s] = rw[s] /\ given'[s] = given[s] /\ wire'[s] = wire[s]
             /\ rw'[r].phase = "open"
  <2>1. CASE rw[r].encoding = None
    BY <1>1, <1>4, <2>1 DEF Write, WritePlain
  <2>2. CASE rw[r].encoding # None
    <3>1. rw[r].phase = "open" /\ WriteEncoded(r)
      BY <1>4, <2>2 DEF Write
    <3>2. rw[r].encoder # None
      BY <2>2, <3>1 DEF BodyInv, Body, PlainBody
    <3>3. \A s \in Responses \ {r} : wire'[s] = wire[s]
      BY <3>1, <3>2, OutputToOne DEF WriteEncoded
    <3> QED BY <1>1, <1>4, <3>1, <3>3 DEF Write, WriteEncoded, WriterType
  <2> QED BY <2>1, <2>2
<1>5. ASSUME NEW r \in Responses, Flush(r)
      PROVE  /\ rw[r].phase = "open" /\ totals' = totals /\ rw' = rw
             /\ given' = given
             /\ \A s \in Responses \ {r} : wire'[s] = wire[s]
  BY <1>1, <1>5, OutputToOne DEF Flush, FlushEncoder
<1>6. ASSUME NEW r \in Responses, ClosePlain(r)
      PROVE  /\ rw[r].phase # "closed" /\ totals' = totals
             /\ \A s \in Responses \ {r} :
                  rw'[s] = rw[s] /\ given'[s] = given[s] /\ wire'[s] = wire[s]
             /\ ~Applied(r)'
  <2>1. rw[r].phase \in {"new", "open"} /\ rw[r].encoder = None
        /\ rw' = [rw EXCEPT ![r].phase = "closed"]
    BY <1>6 DEF ClosePlain
  <2>2. ~Applied(r)
    BY <2>1 DEF BodyInv, Body, NewBody, PlainBody, Applied
  <2>3. ~Applied(r)'
    BY <1>1, <2>1, <2>2 DEF Applied, WriterType
  <2> QED BY <1>1, <1>6, <2>1, <2>3 DEF ClosePlain
<1>7. ASSUME NEW r \in Responses, CloseEncoder(r)
      PROVE  /\ rw[r].phase = "open" /\ totals' = totals
             /\ \A s \in Responses \ {r} :
                  rw'[s] = rw[s] /\ given'[s] = given[s] /\ wire'[s] = wire[s]
             /\ rw'[r].phase = "closing"
  BY <1>1, <1>7, OutputToOne DEF CloseEncoder, WriterType
<1>8. CASE \E r \in Responses : WriteHeader(r) \/ Write(r) \/ CloseEncoder(r)
  BY <1>2, <1>3, <1>4, <1>7, <1>8
<1>9. CASE \E r \in Responses : Flush(r)
  BY <1>2, <1>5, <1>9
<1>10. CASE \E r \in Responses : ClosePlain(r)
  BY <1>2, <1>6, <1>10
<1>11. CASE \/ \E r \in Responses : ClientLeaves(r)
            \/ PoolDrops \/ Terminated \/ UNCHANGED vars
  <2>1. UNCHANGED <<rw, given, wire, totals>>
    BY <1>11 DEF ClientLeaves, PoolDrops, Terminated, vars
  <2> QED BY <2>1 DEF Reported, Applied
<1> QED BY <1>8, <1>9, <1>10, <1>11 DEF Next

\* Each step of a response keeps its count, or adds it to what is reported.
LEMMA ReportStep ==
  ASSUME BodyInv, BodyInv', ReportInv, [Next]_vars
  PROVE  ReportInv'
<1>1. /\ rw \in [Responses -> WriterType]
      /\ wire \in [Responses -> Seq(BodyUnit)] /\ given \in [Responses -> Nat]
  BY DEF BodyInv, IInv, WriterInv, BodyType
<1>2. \A r \in Responses :
        /\ rw'[r].phase = "new" => rw'[r].uncompressed = 0
        /\ rw'[r].encoder # None => rw'[r].uncompressed = given'[r]
  <2> DEFINE Counts(r) ==
        /\ rw'[r].phase = "new" => rw'[r].uncompressed = 0
        /\ rw'[r].encoder # None => rw'[r].uncompressed = given'[r]
  <2>1. ASSUME NEW r \in Responses, NEW s \in Responses,
               rw'[s] = rw[s], given'[s] = given[s]
        PROVE  Counts(s)
    BY <2>1 DEF ReportInv
  <2>2. ASSUME NEW r \in Responses, WriteHeader(r)
        PROVE  /\ \A s \in Responses \ {r} : rw'[s] = rw[s]
               /\ given' = given /\ Counts(r)
    <3>1. /\ rw[r].phase = "new" /\ rw[r].encoder = None
          /\ rw[r].uncompressed = 0 /\ given[r] = 0
      BY <2>2 DEF WriteHeader, ReportInv, BodyInv, IInv, WriterInv, Body, NewBody
    <3> QED BY <1>1, <2>2, <3>1
            DEF WriteHeader, WriteHeaderPlain, WriteHeaderEncoded, WriterType
  <2>3. ASSUME NEW r \in Responses, Write(r)
        PROVE  /\ \A s \in Responses \ {r} :
                    rw'[s] = rw[s] /\ given'[s] = given[s]
               /\ Counts(r)
    <3>1. /\ rw[r].phase = "open" /\ given' = [given EXCEPT ![r] = @ + 1]
          /\ \/ rw[r].encoding = None /\ rw' = rw
             \/ rw' = [rw EXCEPT ![r].uncompressed = @ + 1]
      BY <2>3 DEF Write, WritePlain, WriteEncoded
    <3>2. rw[r].encoding = None => rw[r].encoder = None
      BY <3>1 DEF BodyInv, Body, EncodedBody
    <3>3. rw[r].encoder # None => rw[r].uncompressed = given[r]
      BY DEF ReportInv
    <3>4. given'[r] = given[r] + 1
          /\ \A s \in Responses \ {r} : rw'[s] = rw[s] /\ given'[s] = given[s]
      BY <1>1, <3>1
    <3>5. CASE rw[r].encoding = None /\ rw' = rw
      BY <3>1, <3>2, <3>4, <3>5
    <3>6. CASE rw' = [rw EXCEPT ![r].uncompressed = @ + 1]
      <4>1. /\ rw'[r].phase = "open" /\ rw'[r].encoder = rw[r].encoder
            /\ rw'[r].uncompressed = rw[r].uncompressed + 1
        BY <1>1, <3>1, <3>6 DEF WriterType
      <4> QED BY <3>3, <3>4, <4>1
    <3> QED BY <3>1, <3>5, <3>6
  <2>4. ASSUME NEW r \in Responses, ClosePlain(r) \/ CloseEncoder(r) \/ PutEncoder(r)
        PROVE  /\ \A s \in Responses \ {r} : rw'[s] = rw[s]
               /\ given' = given /\ Counts(r)
    <3>1. PICK phase \in {"closing", "closed"} :
            \/ rw' = [rw EXCEPT ![r].phase = phase]
            \/ rw' = [rw EXCEPT ![r].phase = phase, ![r].encoder = None]
      BY <2>4 DEF ClosePlain, CloseEncoder, PutEncoder
    <3>2. given' = given
      BY <2>4 DEF ClosePlain, CloseEncoder, PutEncoder
    <3>3. rw[r].encoder # None => rw[r].uncompressed = given[r]
      BY DEF ReportInv
    <3> QED BY <1>1, <3>1, <3>2, <3>3 DEF WriterType
  <2>5. ASSUME \/ \E r \in Responses : Flush(r) \/ ClientLeaves(r)
               \/ PoolDrops \/ Terminated \/ UNCHANGED vars
        PROVE  UNCHANGED <<rw, given>>
    BY <2>5 DEF Flush, ClientLeaves, PoolDrops, Terminated, vars
  <2> HIDE DEF Counts
  <2>6. \A r \in Responses : Counts(r)
    BY <2>1, <2>2, <2>3, <2>4, <2>5 DEF Next
  <2> QED BY <2>6 DEF Counts
<1>3. Tally(given) = Rows(Reported, given) /\ Tally(Sent) = Rows(Reported, Sent)
  BY DEF Tally, Rows
<1>4. /\ Tally(given)' = Rows(Reported', given')
      /\ Tally(Sent)' = Rows(Reported', Sent')
  BY DEF Tally, Rows
<1>5. /\ Reported \subseteq Responses /\ \A s \in Responses : Sent[s] = Len(wire[s])
      /\ \A s \in Responses : Sent'[s] = Len(wire'[s])
  BY DEF Reported, Sent
<1>6. CASE \A r \in Responses : ~PutEncoder(r)
  <2>1. /\ Reported' = Reported /\ totals' = totals
        /\ \A s \in Reported : given'[s] = given[s] /\ Sent'[s] = Sent[s]
    BY <1>5, <1>6, ClosedKeeps
  <2>2. /\ Rows(Reported, given') = Rows(Reported, given)
        /\ Rows(Reported, Sent') = Rows(Reported, Sent)
    BY <2>1, RowsSame
  <2>3. Tally(given)' = Tally(given) /\ Tally(Sent)' = Tally(Sent)
    BY <1>3, <1>4, <2>1, <2>2
  <2> QED BY <1>2, <2>1, <2>3 DEF ReportInv, BytesReportedOnce, Sent
<1>7. ASSUME NEW r \in Responses, PutEncoder(r) PROVE ReportInv'
  <2>1. /\ rw[r].phase = "closing" /\ given' = given /\ wire' = wire
        /\ rw' = [rw EXCEPT ![r].phase = "closed", ![r].encoder = None]
        /\ totals' = [uncompressed |-> totals.uncompressed + rw[r].uncompressed,
                      compressed |-> totals.compressed + Len(wire[r])]
    BY <1>7 DEF PutEncoder
  <2>2. Applied(r) /\ rw[r].encoder # None /\ rw[r].uncompressed = given[r]
    BY <2>1 DEF BodyInv, Body, EndedBody, IInv, WriterInv, ReportInv
  <2>3. Reported' = Reported \cup {r} /\ r \notin Reported
    <3>1. \A s \in Responses : Applied(s)' <=> Applied(s)
      BY <1>1, <2>1 DEF Applied, WriterType
    <3>2. /\ rw'[r].phase = "closed"
          /\ \A s \in Responses \ {r} : rw'[s] = rw[s]
      BY <1>1, <2>1 DEF WriterType
    <3> QED BY <2>1, <2>2, <3>1, <3>2 DEF Reported
  <2>4. given[r] \in Nat /\ Sent[r] \in Nat /\ Sent' = Sent /\ Sent[r] = Len(wire[r])
    BY <1>1, <2>1, LenProperties DEF Sent
  <2>5. /\ IsFiniteSet(Tally(given)')
        /\ Cardinality(Tally(given)') = Cardinality(Tally(given)) + given[r]
    <3>1. IsFiniteSet(Rows(Reported, given))
      BY <1>3 DEF ReportInv
    <3>2. /\ IsFiniteSet(Rows(Reported \cup {r}, given))
          /\ Cardinality(Rows(Reported \cup {r}, given))
               = Cardinality(Rows(Reported, given)) + given[r]
      BY <2>3, <2>4, <3>1, RowAdded
    <3>3. Tally(given)' = Rows(Reported \cup {r}, given)
      BY <1>4, <2>1, <2>3
    <3> QED BY <1>3, <3>2, <3>3
  <2>6. /\ IsFiniteSet(Tally(Sent)')
        /\ Cardinality(Tally(Sent)') = Cardinality(Tally(Sent)) + Len(wire[r])
    <3>1. IsFiniteSet(Rows(Reported, Sent))
      BY <1>3 DEF ReportInv
    <3>2. /\ IsFiniteSet(Rows(Reported \cup {r}, Sent))
          /\ Cardinality(Rows(Reported \cup {r}, Sent))
               = Cardinality(Rows(Reported, Sent)) + Sent[r]
      BY <2>3, <2>4, <3>1, RowAdded
    <3>3. Tally(Sent)' = Rows(Reported \cup {r}, Sent)
      BY <1>4, <2>3, <2>4
    <3> QED BY <1>3, <2>4, <3>2, <3>3
  <2>7. /\ totals'.uncompressed = Cardinality(Tally(given)')
        /\ totals'.compressed = Cardinality(Tally(Sent)')
    BY <2>1, <2>2, <2>5, <2>6 DEF ReportInv, BytesReportedOnce, Sent
  <2> QED BY <1>2, <2>5, <2>6, <2>7 DEF ReportInv, BytesReportedOnce, Sent
<1> QED BY <1>6, <1>7

\* The metrics are told the bytes of every encoded response when it is over,
\* and once: Close reports what the writer counted (compress.go:255-288).
THEOREM BytesReported == Spec => []BytesReportedOnce
<1>1. Init => ReportInv
  <2> SUFFICES ASSUME Init PROVE ReportInv
    OBVIOUS
  <2>1. \A r \in Responses :
          /\ rw[r].phase = "new" /\ rw[r].uncompressed = 0
          /\ rw[r].encoder = None
    BY DEF Init, WrapResponseWriter
  <2>2. Reported = {}
    BY <2>1 DEF Reported
  <2>3. Tally(given) = {} /\ Tally(Sent) = {}
    BY <2>2 DEF Tally
  <2>4. IsFiniteSet({}) /\ Cardinality({}) = 0
    BY FS_EmptySet
  <2> QED BY <2>1, <2>3, <2>4 DEF Init, ReportInv, BytesReportedOnce, Sent
<1>2. BodyInv /\ BodyInv' /\ ReportInv /\ [Next]_vars => ReportInv'
  BY ReportStep
<1>3. ReportInv => BytesReportedOnce
  BY DEF ReportInv
<1> QED BY <1>1, <1>2, <1>3, BodyInvariance, PTL DEF Spec

=============================================================================
