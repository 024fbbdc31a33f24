------------------------- MODULE ResearchRecordsProofs -------------------------
(***************************************************************************)
(* What holds of the ledger and of the rebuild check whatever the writers, *)
(* the experiments, the run matrix and the documents.  The ledger's proof  *)
(* follows each row from the check that built it to the file: a row is     *)
(* legal after the contents its hash vouches for, and in a file that       *)
(* verifies those are the contents before it.                              *)
(***************************************************************************)
EXTENDS ResearchRecords, SequenceTheorems, FiniteSetTheorems, WellFoundedInduction, TLAPS

Content == [kind : {"registration", "decision"}, experiment : Experiments,
            time : Times, text : Texts]
Row     == [content : Content, prev : Seq(Content)]
Flight  == [phase : {"checked", "staged", "replaced"}, row : Row, content : Seq(Row)]

(* Types of the ledger's state. *)
LedgerRight ==
    /\ file \in Seq(Row)
    /\ pending \in [Writers -> Flight \cup {Idle}]
    /\ acknowledged \in SUBSET Row
    /\ overlapped \in BOOLEAN

(* Every row links to the one before; texts may still break the file.      *)
Linked(rows) ==
    \A i \in 1..Len(rows) :
        rows[i].prev = IF i = 1 THEN NoHash ELSE RecordHash(rows[i - 1])

(* Without overlap one operation is in flight, and what it carries still   *)
(* fits the file.                                                          *)
InFlight(p) ==
    /\ p.phase = "checked"  => p.row.prev = LastHash(file)
    /\ p.phase = "staged"   => p.row.prev = LastHash(file) /\ p.content = Append(file, p.row)
    /\ p.phase = "replaced" => \E i \in 1..Len(file) : file[i] = p.row

Serial ==
    /\ \A v, w \in Writers : pending[v] # Idle /\ pending[w] # Idle => v = w
    /\ \A w \in Writers : pending[w] # Idle => InFlight(pending[w])
    /\ Linked(file)
    /\ \A row \in acknowledged : \E i \in 1..Len(file) : file[i] = row

(* A registration is the first of its experiment among the contents before *)
(* it, a decision is no earlier than the first registration there.         *)
LegalAfter(before, c) ==
    LET of == {i \in DOMAIN before : before[i].kind = "registration"
                                     /\ before[i].experiment = c.experiment}
    IN  IF c.kind = "registration" THEN of = {}
        ELSE \E i \in of : before[i].time <= c.time /\ \A j \in of : i <= j

LegalRow(row) == LegalAfter(row.prev, row.content)

Vouched ==
    /\ \A i \in 1..Len(file) : LegalRow(file[i])
    /\ \A w \in Writers : pending[w] # Idle =>
          /\ LegalRow(pending[w].row)
          /\ \A i \in 1..Len(pending[w].content) : LegalRow(pending[w].content[i])

-----------------------------------------------------------------------------
(* Operators *)

(* Idle is no operation in flight.                                         *)
LEMMA IdleIsNoFlight == \A p \in Flight : p.phase # Idle.phase /\ p # Idle
  BY DEF Flight, Idle

(* The hash of a row is the contents up to it.                             *)
LEMMA HashType ==
    ASSUME NEW row \in Row
    PROVE  /\ RecordHash(row) \in Seq(Content)
           /\ Len(row.prev) \in Nat
           /\ Len(RecordHash(row)) = Len(row.prev) + 1
           /\ \A j \in 1..Len(row.prev) : RecordHash(row)[j] = row.prev[j]
           /\ RecordHash(row)[Len(row.prev) + 1] = row.content
<1>1. row.prev \in Seq(Content) /\ row.content \in Content
  BY DEF Row
<1>. QED  BY <1>1, AppendProperties, LenProperties DEF RecordHash

(* The hash of the last row is a sequence of contents.                     *)
LEMMA LastHashType ==
    ASSUME NEW rows \in Seq(Row)
    PROVE  LastHash(rows) \in Seq(Content)
<1>1. CASE rows = <<>>
  BY <1>1, EmptySeq DEF LastHash, NoHash
<1>2. CASE rows # <<>>
  <2>1. Len(rows) \in 1..Len(rows)
    BY <1>2, LenProperties, EmptySeq
  <2>2. rows[Len(rows)] \in Row
    BY <2>1, ElementOfSeq
  <2>. QED  BY <1>2, <2>2, HashType DEF LastHash
<1>. QED  BY <1>1, <1>2

(* A row of a linked file vouches for exactly the contents before it.      *)
LEMMA LinkedVouches ==
    ASSUME NEW rows \in Seq(Row), Linked(rows)
    PROVE  \A i \in 1..Len(rows) :
              /\ Len(rows[i].prev) = i - 1
              /\ \A j \in 1..(i - 1) : rows[i].prev[j] = rows[j].content
<1>. DEFINE Right(i) == /\ Len(rows[i].prev) = i - 1
                        /\ \A j \in 1..(i - 1) : rows[i].prev[j] = rows[j].content
            wrong == {i \in 1..Len(rows) : ~ Right(i)}
<1>0. Len(rows) \in Nat /\ \A i \in 1..Len(rows) : rows[i] \in Row
  BY LenProperties, ElementOfSeq
<1>1. SUFFICES ASSUME wrong # {} PROVE FALSE
  OBVIOUS
<1>2. PICK i \in wrong : \A y \in wrong : ~ (<<y, i>> \in OpToRel(<, Nat))
  <2>1. wrong \subseteq Nat
    BY <1>0
  <2>. HIDE DEF wrong
  <2>. QED  BY <1>1, <2>1, NatLessThanWellFounded, WFMin
<1>3. i \in 1..Len(rows) /\ ~ Right(i)
  OBVIOUS
<1>4. CASE i = 1
  <2>1. rows[i].prev = <<>>
    BY <1>3, <1>4 DEF Linked, NoHash
  <2>. QED  BY <2>1, <1>3, <1>4, EmptySeq
<1>5. CASE i # 1
  <2>1. i - 1 \in 1..Len(rows) /\ i - 1 \in Nat /\ i \in Nat
    BY <1>0, <1>3, <1>5
  <2>2. <<i - 1, i>> \in OpToRel(<, Nat)
    BY <2>1 DEF OpToRel
  <2>3. Right(i - 1)
    <3>1. i - 1 \notin wrong
      BY <1>2, <2>2
    <3>. QED  BY <3>1, <2>1
  <2>4. rows[i].prev = RecordHash(rows[i - 1])
    BY <1>3, <1>5 DEF Linked
  <2>5. /\ Len(RecordHash(rows[i - 1])) = Len(rows[i - 1].prev) + 1
        /\ \A j \in 1..Len(rows[i - 1].prev) : RecordHash(rows[i - 1])[j] = rows[i - 1].prev[j]
        /\ RecordHash(rows[i - 1])[Len(rows[i - 1].prev) + 1] = rows[i - 1].content
    BY <1>0, <2>1, HashType
  <2>6. /\ Len(rows[i - 1].prev) = (i - 1) - 1
        /\ \A j \in 1..((i - 1) - 1) : rows[i - 1].prev[j] = rows[j].content
    BY <2>3
  <2>7. Len(rows[i].prev) = i - 1
    BY <2>4, <2>5, <2>6, <2>1
  <2>8. ASSUME NEW j \in 1..(i - 1) PROVE rows[i].prev[j] = rows[j].content
    <3>1. CASE j = i - 1
      BY <3>1, <2>4, <2>5, <2>6, <2>1
    <3>2. CASE j # i - 1
      <4>1. j \in 1..((i - 1) - 1)
        BY <3>2, <2>1
      <4>. QED  BY <4>1, <2>4, <2>5, <2>6
    <3>. QED  BY <3>1, <3>2
  <2>. QED  BY <2>7, <2>8, <1>3
<1>. QED  BY <1>4, <1>5

(* The hash of the last row of a linked file vouches for all of it.        *)
LEMMA LastHashVouches ==
    ASSUME NEW rows \in Seq(Row), Linked(rows)
    PROVE  /\ Len(LastHash(rows)) = Len(rows)
           /\ \A j \in 1..Len(rows) : LastHash(rows)[j] = rows[j].content
<1>0. Len(rows) \in Nat
  BY LenProperties
<1>1. CASE rows = <<>>
  BY <1>1, EmptySeq DEF LastHash, NoHash
<1>2. CASE rows # <<>>
  <2>. DEFINE n == Len(rows)
  <2>1. n \in 1..n /\ n \in Nat
    BY <1>0, <1>2, EmptySeq
  <2>2. rows[n] \in Row
    BY <2>1, ElementOfSeq
  <2>3. LastHash(rows) = RecordHash(rows[n])
    BY <1>2 DEF LastHash
  <2>4. Len(rows[n].prev) = n - 1 /\ \A j \in 1..(n - 1) : rows[n].prev[j] = rows[j].content
    BY <2>1, LinkedVouches
  <2>. HIDE DEF n
  <2>5. /\ Len(RecordHash(rows[n])) = Len(rows[n].prev) + 1
        /\ \A j \in 1..Len(rows[n].prev) : RecordHash(rows[n])[j] = rows[n].prev[j]
        /\ RecordHash(rows[n])[Len(rows[n].prev) + 1] = rows[n].content
    BY <2>2, HashType
  <2>6. ASSUME NEW j \in 1..n PROVE LastHash(rows)[j] = rows[j].content
    <3>1. CASE j = n
      BY <3>1, <2>3, <2>4, <2>5
    <3>2. CASE j # n
      <4>1. j \in 1..(n - 1)
        BY <3>2, <2>1
      <4>. QED  BY <4>1, <2>3, <2>4, <2>5
    <3>. QED  BY <3>1, <3>2
  <2>7. Len(LastHash(rows)) = n
    BY <2>1, <2>3, <2>4, <2>5
  <2>. QED  BY <2>6, <2>7 DEF n
<1>. QED  BY <1>1, <1>2

(* A row built on the last hash keeps the file linked.                     *)
LEMMA AppendLinks ==
    ASSUME NEW rows \in Seq(Row), NEW row \in Row, Linked(rows), row.prev = LastHash(rows)
    PROVE  Linked(Append(rows, row))
<1>. DEFINE longer == Append(rows, row)
            n == Len(rows)
<1>1. /\ n \in Nat /\ Len(longer) = n + 1
      /\ \A i \in 1..n : longer[i] = rows[i]
      /\ longer[n + 1] = row
  BY AppendProperties, LenProperties
<1>2. n = 0 <=> rows = <<>>
  BY EmptySeq
<1>3. \A i \in 1..n : rows[i].prev = IF i = 1 THEN NoHash ELSE RecordHash(rows[i - 1])
  BY DEF Linked
<1>4. LastHash(rows) = IF n = 0 THEN NoHash ELSE RecordHash(rows[n])
  BY <1>2 DEF LastHash
<1>. HIDE DEF longer, n
<1>5. ASSUME NEW i \in 1..(n + 1)
      PROVE  longer[i].prev = IF i = 1 THEN NoHash ELSE RecordHash(longer[i - 1])
  <2>1. CASE i = n + 1
    <3>1. CASE n = 0
      BY <2>1, <3>1, <1>1, <1>4
    <3>2. CASE n # 0
      <4>1. i # 1 /\ i - 1 = n /\ n \in 1..n
        BY <2>1, <3>2, <1>1
      <4>. QED  BY <2>1, <3>2, <4>1, <1>1, <1>4
    <3>. QED  BY <3>1, <3>2
  <2>2. CASE i # n + 1
    <3>1. i \in 1..n /\ (i # 1 => i - 1 \in 1..n)
      BY <2>2, <1>1
    <3>. QED  BY <3>1, <1>1, <1>3
  <2>. QED  BY <2>1, <2>2
<1>. QED  BY <1>1, <1>5 DEF Linked, longer

(* What verifies is linked, and the other way when no text is cut.         *)
LEMMA VerifiedIsLinked ==
    /\ \A rows : Verified(rows) => Linked(rows)
    /\ \A rows \in Seq(Row) : "separator" \notin Texts /\ Linked(rows) => Verified(rows)
<1>1. \A rows : Verified(rows) => Linked(rows)
  BY DEF Verified, Linked
<1>2. ASSUME NEW rows \in Seq(Row), "separator" \notin Texts, Linked(rows)
      PROVE  Verified(rows)
  <2>1. ASSUME NEW i \in 1..Len(rows) PROVE rows[i].content.text \in Texts
    <3>1. rows[i] \in Row
      BY ElementOfSeq
    <3>. QED  BY <3>1 DEF Row, Content
  <2>. QED  BY <2>1, <1>2 DEF Verified, Linked
<1>. QED  BY <1>1, <1>2

-----------------------------------------------------------------------------
(* Steps of the ledger *)

(* One writer's steps. *)
WriterStep(w) ==
    \/ \E e \in Experiments, time \in Times, text \in Texts :
          PreRegister(w, e, time, text) \/ AppendDecision(w, e, time, text)
    \/ Stage(w) \/ Replace(w) \/ Return(w) \/ Abort(w)

(* An operation begins with a row of its content on the last hash.         *)
LEMMA BeginRow ==
    ASSUME LedgerRight, NEW w \in Writers, NEW c \in Content, Begin(w, c)
    PROVE  /\ [content |-> c, prev |-> LastHash(file)] \in Row
           /\ [phase |-> "checked", content |-> <<>>,
               row |-> [content |-> c, prev |-> LastHash(file)]] \in Flight
<1>1. LastHash(file) \in Seq(Content)
  BY LastHashType DEF LedgerRight
<1>2. <<>> \in Seq(Row)
  BY EmptySeq
<1>. QED  BY <1>1, <1>2 DEF Row, Flight

(* What an operation in flight carries. *)
LEMMA FlightTypes ==
    ASSUME LedgerRight, NEW w \in Writers, pending[w] # Idle
    PROVE  /\ pending[w] \in Flight
           /\ pending[w].phase \in {"checked", "staged", "replaced"}
           /\ pending[w].row \in Row /\ pending[w].content \in Seq(Row)
<1>1. pending[w] \in Flight
  BY DEF LedgerRight
<1>. QED  BY <1>1 DEF Flight

(* A phase other than idle is that of an operation in flight.              *)
LEMMA InPhase ==
    ASSUME NEW w \in Writers, pending[w].phase # "idle"
    PROVE  pending[w] # Idle
  BY DEF Idle

(* The contents a step of Next checks. *)
LEMMA ContentTypes ==
    \A e \in Experiments, time \in Times, text \in Texts :
        /\ [kind |-> "registration", experiment |-> e, time |-> time, text |-> text] \in Content
        /\ [kind |-> "decision", experiment |-> e, time |-> time, text |-> text] \in Content
  BY DEF Content

(* What each step does, in one form: at most one operation changes. *)
LEMMA StepCases ==
    ASSUME LedgerRight, NEW w \in Writers, WriterStep(w)
    PROVE  \/ \E c \in Content : Begin(w, c) /\ Verified(file)
           \/ Stage(w) \/ Replace(w) \/ Return(w) \/ Abort(w)
<1>1. CASE \E e \in Experiments, time \in Times, text \in Texts :
              PreRegister(w, e, time, text) \/ AppendDecision(w, e, time, text)
  <2>1. PICK e \in Experiments, time \in Times, text \in Texts :
           PreRegister(w, e, time, text) \/ AppendDecision(w, e, time, text)
    BY <1>1
  <2>. QED  BY <2>1, ContentTypes DEF PreRegister, AppendDecision
<1>. QED  BY <1>1 DEF WriterStep

(* Types are kept. *)
LEMMA TypesStep ==
    ASSUME LedgerRight, NEW w \in Writers, WriterStep(w)
    PROVE  LedgerRight'
<1>1. CASE \E c \in Content : Begin(w, c)
  <2>1. PICK c \in Content : Begin(w, c)
    BY <1>1
  <2>2. [phase |-> "checked", content |-> <<>>,
         row |-> [content |-> c, prev |-> LastHash(file)]] \in Flight
    BY <2>1, BeginRow
  <2>. QED  BY <2>1, <2>2 DEF Begin, LedgerRight
<1>2. CASE Stage(w)
  <2>1. pending[w] \in Flight /\ pending[w].row \in Row /\ file \in Seq(Row)
    BY <1>2, InPhase, FlightTypes DEF Stage, LedgerRight
  <2>2. Append(file, pending[w].row) \in Seq(Row)
    BY <2>1, AppendProperties
  <2>3. [pending[w] EXCEPT !.phase = "staged", !.content = Append(file, pending[w].row)] \in Flight
    BY <2>1, <2>2 DEF Flight
  <2>4. pending' = [pending EXCEPT ![w] = [pending[w] EXCEPT
                      !.phase = "staged", !.content = Append(file, pending[w].row)]]
    BY <1>2 DEF Stage, LedgerRight
  <2>. QED  BY <1>2, <2>3, <2>4 DEF Stage, LedgerRight
<1>3. CASE Replace(w)
  <2>1. pending[w] \in Flight /\ pending[w].content \in Seq(Row)
    BY <1>3, InPhase, FlightTypes DEF Replace
  <2>2. [pending[w] EXCEPT !.phase = "replaced"] \in Flight
    BY <2>1 DEF Flight
  <2>3. pending' = [pending EXCEPT ![w] = [pending[w] EXCEPT !.phase = "replaced"]]
    BY <1>3 DEF Replace, LedgerRight
  <2>. QED  BY <1>3, <2>1, <2>2, <2>3 DEF Replace, LedgerRight
<1>4. CASE Return(w)
  <2>1. pending[w].row \in Row
    BY <1>4, InPhase, FlightTypes DEF Return
  <2>. QED  BY <1>4, <2>1 DEF Return, LedgerRight
<1>5. CASE Abort(w)
  BY <1>5 DEF Abort, LedgerRight
<1>. QED  BY <1>1, <1>2, <1>3, <1>4, <1>5, StepCases

(* Without overlap a step leaves one operation that fits the file.         *)
LEMMA SerialStep ==
    ASSUME LedgerRight, ~ overlapped => Serial, NEW w \in Writers, WriterStep(w), ~ overlapped'
    PROVE  Serial'
<1>1. ~ overlapped /\ Serial
  BY StepCases DEF Begin, Stage, Replace, Return, Abort, LedgerRight
<1>2. CASE \E c \in Content : Begin(w, c)
  <2>1. PICK c \in Content : Begin(w, c)
    BY <1>2
  <2>2. \A v \in Writers \ {w} : pending[v] = Idle
    BY <2>1 DEF Begin
  <2>3. /\ file' = file /\ acknowledged' = acknowledged
        /\ \A v \in Writers : pending'[v] = IF v = w
              THEN [phase |-> "checked", content |-> <<>>,
                    row |-> [content |-> c, prev |-> LastHash(file)]] ELSE pending[v]
    BY <2>1 DEF Begin, LedgerRight
  <2>4. \A v, u \in Writers : pending'[v] # Idle /\ pending'[u] # Idle => v = u
    BY <2>2, <2>3
  <2>5. pending'[w].phase = "checked" /\ pending'[w].row.prev = LastHash(file')
    BY <2>3
  <2>6. \A v \in Writers : pending'[v] # Idle => InFlight(pending[v])'
    BY <2>2, <2>3, <2>5 DEF InFlight
  <2>. QED  BY <1>1, <2>3, <2>4, <2>6 DEF Serial
<1>3. CASE Stage(w)
  <2>1. /\ pending[w] # Idle /\ pending[w] \in Flight
        /\ pending[w].phase = "checked" /\ pending[w].row.prev = LastHash(file)
    BY <1>1, <1>3, InPhase, FlightTypes DEF Stage, Serial, InFlight
  <2>2. \A v \in Writers \ {w} : pending[v] = Idle
    BY <1>1, <2>1 DEF Serial
  <2>3. /\ file' = file /\ acknowledged' = acknowledged
        /\ \A v \in Writers : pending'[v] = IF v = w
              THEN [pending[w] EXCEPT !.phase = "staged", !.content = Append(file, pending[w].row)]
              ELSE pending[v]
    BY <1>3 DEF Stage, LedgerRight
  <2>4. /\ pending'[w].phase = "staged" /\ pending'[w].row = pending[w].row
        /\ pending'[w].content = Append(file', pending'[w].row)
    BY <2>1, <2>3 DEF Flight
  <2>5. \A v, u \in Writers : pending'[v] # Idle /\ pending'[u] # Idle => v = u
    BY <2>2, <2>3
  <2>6. \A v \in Writers : pending'[v] # Idle => InFlight(pending[v])'
    BY <2>1, <2>2, <2>3, <2>4 DEF InFlight
  <2>. QED  BY <1>1, <2>3, <2>5, <2>6 DEF Serial
<1>4. CASE Replace(w)
  <2>1. /\ pending[w] # Idle /\ pending[w] \in Flight /\ pending[w].row \in Row
        /\ pending[w].phase = "staged" /\ pending[w].row.prev = LastHash(file)
        /\ pending[w].content = Append(file, pending[w].row) /\ file \in Seq(Row)
    BY <1>1, <1>4, InPhase, FlightTypes DEF Replace, Serial, InFlight, LedgerRight
  <2>2. \A v \in Writers \ {w} : pending[v] = Idle
    BY <1>1, <2>1 DEF Serial
  <2>3. /\ file' = Append(file, pending[w].row) /\ acknowledged' = acknowledged
        /\ \A v \in Writers : pending'[v] = IF v = w
              THEN [pending[w] EXCEPT !.phase = "replaced"] ELSE pending[v]
    BY <1>4, <2>1 DEF Replace, LedgerRight
  <2>4. Linked(file')
    BY <1>1, <2>1, <2>3, AppendLinks DEF Serial
  <2>5. /\ Len(file) \in Nat /\ Len(file') = Len(file) + 1
        /\ \A i \in 1..Len(file) : file'[i] = file[i]
        /\ file'[Len(file) + 1] = pending[w].row
    BY <2>1, <2>3, AppendProperties, LenProperties
  <2>6. Len(file) + 1 \in 1..Len(file') /\ \A i \in 1..Len(file) : i \in 1..Len(file')
    BY <2>5
  <2>7. \A row \in acknowledged' : \E i \in 1..Len(file') : file'[i] = row
    BY <1>1, <2>3, <2>5, <2>6 DEF Serial
  <2>8. pending'[w].phase = "replaced" /\ pending'[w].row = pending[w].row
    BY <2>1, <2>3 DEF Flight
  <2>9. InFlight(pending[w])'
    BY <2>5, <2>6, <2>8 DEF InFlight
  <2>10. /\ \A v, u \in Writers : pending'[v] # Idle /\ pending'[u] # Idle => v = u
         /\ \A v \in Writers : pending'[v] # Idle => v = w
    BY <2>2, <2>3
  <2>. QED  BY <2>4, <2>7, <2>9, <2>10 DEF Serial
<1>5. CASE Return(w) \/ Abort(w)
  <2>1. /\ file' = file
        /\ \A v \in Writers : pending'[v] = IF v = w THEN Idle ELSE pending[v]
        /\ acknowledged' \subseteq acknowledged \cup
              (IF pending[w].phase = "replaced" THEN {pending[w].row} ELSE {})
    BY <1>5 DEF Return, Abort, LedgerRight
  <2>2. pending[w] # Idle
    BY <1>5, InPhase DEF Return, Abort
  <2>3. \A row \in acknowledged' : \E i \in 1..Len(file') : file'[i] = row
    BY <1>1, <2>1, <2>2 DEF Serial, InFlight
  <2>4. \A v \in Writers : pending'[v] = Idle
    BY <1>1, <2>1, <2>2 DEF Serial
  <2>. QED  BY <1>1, <2>1, <2>3, <2>4 DEF Serial
<1>. QED  BY <1>2, <1>3, <1>4, <1>5, StepCases

(* The first registration of an experiment in a file, and among the        *)
(* contents its rows carry.                                                *)
LEMMA LegalByContents ==
    ASSUME NEW rows \in Seq(Row), NEW before \in Seq(Content), NEW c \in Content,
           Len(before) = Len(rows),
           \A j \in 1..Len(rows) : before[j] = rows[j].content
    PROVE  LegalAfter(before, c) <=>
              IF c.kind = "registration" THEN Registrations(rows, c.experiment) = {}
              ELSE RegisteredBy(rows, c.experiment, c.time)
<1>. DEFINE of == {i \in DOMAIN before : before[i].kind = "registration"
                                         /\ before[i].experiment = c.experiment}
<1>1. DOMAIN before = 1..Len(rows)
  BY LenProperties
<1>2. of = Registrations(rows, c.experiment)
  BY <1>1 DEF Registrations
<1>3. \A i \in of : before[i].time = rows[i].content.time
  BY <1>1
<1>4. (\E i \in of : before[i].time <= c.time /\ \A j \in of : i <= j)
         <=> RegisteredBy(rows, c.experiment, c.time)
  BY <1>2, <1>3 DEF RegisteredBy
<1>. QED  BY <1>2, <1>4 DEF LegalAfter

(* A checked row is legal. *)
LEMMA CheckedIsLegal ==
    ASSUME LedgerRight, NEW w \in Writers, WriterStep(w)
    PROVE  \/ \E c \in Content : Begin(w, c) /\ LegalAfter(LastHash(file), c)
           \/ Stage(w) \/ Replace(w) \/ Return(w) \/ Abort(w)
<1>1. ASSUME NEW e \in Experiments, NEW time \in Times, NEW text \in Texts,
             PreRegister(w, e, time, text) \/ AppendDecision(w, e, time, text)
      PROVE  \E c \in Content : Begin(w, c) /\ LegalAfter(LastHash(file), c)
  <2>1. /\ file \in Seq(Row) /\ Linked(file)
    BY <1>1, VerifiedIsLinked DEF PreRegister, AppendDecision, LedgerRight
  <2>2. /\ LastHash(file) \in Seq(Content) /\ Len(LastHash(file)) = Len(file)
        /\ \A j \in 1..Len(file) : LastHash(file)[j] = file[j].content
    BY <2>1, LastHashType, LastHashVouches
  <2>3. CASE PreRegister(w, e, time, text)
    <3>. DEFINE c == [kind |-> "registration", experiment |-> e, time |-> time, text |-> text]
    <3>1. c \in Content /\ c.kind = "registration" /\ c.experiment = e
      BY ContentTypes
    <3>2. Registrations(file, e) = {} /\ Begin(w, c)
      BY <2>3 DEF PreRegister
    <3>. HIDE DEF c
    <3>3. LegalAfter(LastHash(file), c)
      BY <2>1, <2>2, <3>1, <3>2, LegalByContents
    <3>. QED  BY <3>1, <3>2, <3>3
  <2>4. CASE AppendDecision(w, e, time, text)
    <3>. DEFINE c == [kind |-> "decision", experiment |-> e, time |-> time, text |-> text]
    <3>1. c \in Content /\ c.kind # "registration" /\ c.experiment = e /\ c.time = time
      BY ContentTypes
    <3>2. RegisteredBy(file, e, time) /\ Begin(w, c)
      BY <2>4 DEF AppendDecision
    <3>. HIDE DEF c
    <3>3. LegalAfter(LastHash(file), c)
      BY <2>1, <2>2, <3>1, <3>2, LegalByContents
    <3>. QED  BY <3>1, <3>2, <3>3
  <2>. QED  BY <1>1, <2>3, <2>4
<1>. QED  BY <1>1 DEF WriterStep

(* Every row in the file or in flight stays legal after what it vouches    *)
(* for, overlap or not.                                                    *)
LEMMA VouchedStep ==
    ASSUME LedgerRight, Vouched, NEW w \in Writers, WriterStep(w)
    PROVE  Vouched'
<1>1. CASE \E c \in Content : Begin(w, c) /\ LegalAfter(LastHash(file), c)
  <2>1. PICK c \in Content : Begin(w, c) /\ LegalAfter(LastHash(file), c)
    BY <1>1
  <2>2. /\ file' = file
        /\ \A v \in Writers : pending'[v] = IF v = w
              THEN [phase |-> "checked", content |-> <<>>,
                    row |-> [content |-> c, prev |-> LastHash(file)]] ELSE pending[v]
    BY <2>1 DEF Begin, LedgerRight
  <2>3. LegalRow(pending'[w].row) /\ Len(pending'[w].content) = 0
    BY <2>1, <2>2, EmptySeq DEF LegalRow
  <2>. QED  BY <2>2, <2>3 DEF Vouched
<1>2. CASE Stage(w)
  <2>1. /\ pending[w] # Idle /\ pending[w] \in Flight /\ pending[w].row \in Row
        /\ file \in Seq(Row)
    BY <1>2, InPhase, FlightTypes DEF Stage, LedgerRight
  <2>2. /\ file' = file
        /\ \A v \in Writers : pending'[v] = IF v = w
              THEN [pending[w] EXCEPT !.phase = "staged", !.content = Append(file, pending[w].row)]
              ELSE pending[v]
    BY <1>2 DEF Stage, LedgerRight
  <2>3. pending'[w].row = pending[w].row /\ pending'[w].content = Append(file, pending[w].row)
    BY <2>1, <2>2 DEF Flight
  <2>4. LegalRow(pending[w].row) /\ \A i \in 1..Len(file) : LegalRow(file[i])
    BY <2>1 DEF Vouched
  <2>5. /\ Len(file) \in Nat /\ Len(Append(file, pending[w].row)) = Len(file) + 1
        /\ \A i \in 1..Len(file) : Append(file, pending[w].row)[i] = file[i]
        /\ Append(file, pending[w].row)[Len(file) + 1] = pending[w].row
    BY <2>1, AppendProperties, LenProperties
  <2>6. \A i \in 1..(Len(file) + 1) : i \in 1..Len(file) \/ i = Len(file) + 1
    BY <2>5
  <2>7. \A i \in 1..Len(pending'[w].content) : LegalRow(pending'[w].content[i])
    BY <2>3, <2>4, <2>5, <2>6
  <2>. QED  BY <2>2, <2>3, <2>4, <2>7 DEF Vouched
<1>3. CASE Replace(w)
  <2>1. pending[w] # Idle /\ pending[w] \in Flight
    BY <1>3, InPhase, FlightTypes DEF Replace
  <2>2. /\ file' = pending[w].content
        /\ \A v \in Writers : pending'[v] = IF v = w
              THEN [pending[w] EXCEPT !.phase = "replaced"] ELSE pending[v]
    BY <1>3 DEF Replace, LedgerRight
  <2>3. pending'[w].row = pending[w].row /\ pending'[w].content = pending[w].content
    BY <2>1, <2>2 DEF Flight
  <2>. QED  BY <2>1, <2>2, <2>3 DEF Vouched
<1>4. CASE Return(w) \/ Abort(w)
  <2>1. /\ file' = file
        /\ \A v \in Writers : pending'[v] = IF v = w THEN Idle ELSE pending[v]
    BY <1>4 DEF Return, Abort, LedgerRight
  <2>. QED  BY <2>1 DEF Vouched
<1>. QED  BY <1>1, <1>2, <1>3, <1>4, CheckedIsLegal

(* A file that verifies holds legal rows only: the contents a row vouches  *)
(* for are those before it.                                                *)
LEMMA VouchedIsLegal ==
    ASSUME LedgerRight, Vouched
    PROVE  VerifiedIsLegal
<1>1. SUFFICES ASSUME Verified(file), NEW i \in 1..Len(file)
               PROVE  IF file[i].content.kind = "registration"
                      THEN Registrations(SubSeq(file, 1, i - 1), file[i].content.experiment) = {}
                      ELSE RegisteredBy(SubSeq(file, 1, i - 1), file[i].content.experiment,
                                        file[i].content.time)
  BY DEF VerifiedIsLegal
<1>2. file \in Seq(Row) /\ Len(file) \in Nat /\ \A j \in 1..Len(file) : file[j] \in Row
  BY LenProperties, ElementOfSeq DEF LedgerRight
<1>3. Linked(file)
  BY <1>1, VerifiedIsLinked
<1>4. /\ file[i].prev \in Seq(Content) /\ file[i].content \in Content
      /\ Len(file[i].prev) = i - 1
      /\ \A j \in 1..(i - 1) : file[i].prev[j] = file[j].content
  BY <1>2, <1>3, LinkedVouches DEF Row
<1>. DEFINE before == SubSeq(file, 1, i - 1)
<1>5. /\ before \in Seq(Row) /\ Len(before) = i - 1
      /\ \A j \in 1..(i - 1) : before[j] = file[j]
  <2>1. \A j \in 1..(i - 1) : file[j] \in Row
    BY <1>2
  <2>2. i - 1 \in Nat /\ (i - 1) - 1 + 1 = i - 1
    BY <1>2
  <2>3. before \in Seq(Row)
    BY <2>1, <2>2, SubSeqProperties
  <2>4. Len(before) = IF 1 <= i - 1 THEN (i - 1) - 1 + 1 ELSE 0
    BY <2>1, <2>2, SubSeqProperties
  <2>5. \A j \in 1..((i - 1) - 1 + 1) : before[j] = file[1 + j - 1]
    BY <2>1, <2>2, SubSeqProperties
  <2>. HIDE DEF before
  <2>6. \A j \in 1..(i - 1) : before[j] = file[j]
    BY <2>2, <2>5
  <2>7. Len(before) = i - 1
    BY <2>2, <2>4
  <2>. QED  BY <2>3, <2>6, <2>7
<1>6. LegalAfter(file[i].prev, file[i].content)
  BY DEF Vouched, LegalRow
<1>. HIDE DEF before
<1>7. IF file[i].content.kind = "registration"
      THEN Registrations(before, file[i].content.experiment) = {}
      ELSE RegisteredBy(before, file[i].content.experiment, file[i].content.time)
  BY <1>4, <1>5, <1>6, LegalByContents
<1>. QED  BY <1>7 DEF before

(* A step without overlap leaves the file or adds one row at its end.      *)
LEMMA GrowsByOne ==
    ASSUME LedgerRight, ~ overlapped => Serial, NEW w \in Writers, WriterStep(w), ~ overlapped'
    PROVE  /\ Len(file') \in Len(file) .. (Len(file) + 1)
           /\ SubSeq(file', 1, Len(file)) = file
<1>1. file \in Seq(Row) /\ Len(file) \in Nat
  BY LenProperties DEF LedgerRight
<1>2. file' = file \/ \E row \in Row : file' = Append(file, row)
  <2>1. CASE Replace(w)
    <3>1. ~ overlapped
      BY <2>1 DEF Replace
    <3>2. pending[w] # Idle /\ pending[w].row \in Row
      BY <2>1, InPhase, FlightTypes DEF Replace
    <3>. QED  BY <2>1, <3>1, <3>2 DEF Replace, Serial, InFlight
  <2>. QED  BY <2>1, StepCases DEF Begin, Stage, Return, Abort
<1>3. /\ file' \in Seq(Row) /\ Len(file') \in Len(file) .. (Len(file) + 1)
      /\ \A i \in 1..Len(file) : file'[i] = file[i] /\ file'[i] \in Row
  <2>1. \A i \in 1..Len(file) : file[i] \in Row
    BY <1>1, ElementOfSeq
  <2>2. CASE file' = file
    BY <1>1, <2>1, <2>2
  <2>3. CASE \E row \in Row : file' = Append(file, row)
    <3>1. PICK row \in Row : file' = Append(file, row)
      BY <2>3
    <3>. QED  BY <1>1, <2>1, <3>1, AppendProperties
  <2>. QED  BY <1>2, <2>2, <2>3
<1>. DEFINE front == SubSeq(file', 1, Len(file))
<1>4. front \in Seq(Row)
  BY <1>1, <1>3, SubSeqProperties
<1>5. Len(front) = IF 1 <= Len(file) THEN Len(file) - 1 + 1 ELSE 0
  BY <1>1, <1>3, SubSeqProperties
<1>6. \A i \in 1..(Len(file) - 1 + 1) : front[i] = file'[1 + i - 1]
  BY <1>1, <1>3, SubSeqProperties
<1>. HIDE DEF front
<1>7. Len(front) = Len(file) /\ \A i \in 1..Len(front) : front[i] = file[i]
  BY <1>1, <1>3, <1>5, <1>6
<1>8. front = file
  BY <1>1, <1>4, <1>7, SeqEqual
<1>. QED  BY <1>3, <1>8 DEF front

-----------------------------------------------------------------------------
(* Theorems of the ledger *)

LedgerInv == LedgerRight /\ (~ overlapped => Serial) /\ Vouched

(* An empty ledger satisfies the invariant.                                *)
LEMMA LedgerInitInv == Init => LedgerInv
<1>. SUFFICES ASSUME Init PROVE LedgerInv
  OBVIOUS
<1>1. file = <<>> /\ Len(file) = 0 /\ file \in Seq(Row)
  BY EmptySeq DEF Init
<1>2. acknowledged = {} /\ overlapped = FALSE /\ pending \in [Writers -> {Idle}]
  BY DEF Init
<1>3. LedgerRight
  BY <1>1, <1>2 DEF LedgerRight
<1>4. Serial
  BY <1>1, <1>2 DEF Serial, Linked
<1>5. Vouched
  BY <1>1, <1>2 DEF Vouched
<1>. QED  BY <1>3, <1>4, <1>5 DEF LedgerInv

(* Every step of every writer keeps the ledger's invariant.                *)
LEMMA LedgerStep == LedgerInv /\ [Next]_vars => LedgerInv'
<1>. SUFFICES ASSUME LedgerInv, [Next]_vars PROVE LedgerInv'
  OBVIOUS
<1>1. CASE Next
  <2>1. PICK w \in Writers : WriterStep(w)
    BY <1>1 DEF Next, WriterStep
  <2>2. LedgerRight'
    BY <2>1, TypesStep DEF LedgerInv
  <2>3. ~ overlapped' => Serial'
    BY <2>1, SerialStep DEF LedgerInv
  <2>4. Vouched'
    BY <2>1, VouchedStep DEF LedgerInv
  <2>. QED  BY <2>2, <2>3, <2>4 DEF LedgerInv
<1>2. CASE UNCHANGED vars
  BY <1>2 DEF vars, LedgerInv, LedgerRight, Serial, InFlight, Vouched
<1>. QED  BY <1>1, <1>2

(* The records of either kind are the ledger's as far as its file goes. *)
LEMMA LedgerPart ==
    /\ RecordsInit => Init
    /\ [RecordsNext]_recordVars => [Next]_vars
  BY DEF RecordsInit, RecordsNext, recordVars, vars

(* The ledger's invariant: types; without overlap, a linked file and an    *)
(* operation in flight that still fits it; always, rows that are legal     *)
(* after what their hash vouches for.                                      *)
THEOREM LedgerInvariance == RecordsSpec => []LedgerInv
<1>1. RecordsInit => LedgerInv
  BY LedgerPart, LedgerInitInv
<1>2. LedgerInv /\ [RecordsNext]_recordVars => LedgerInv'
  BY LedgerPart, LedgerStep
<1>. QED  BY <1>1, <1>2, PTL DEF RecordsSpec

(* Whatever crashes, and however many processes keep the ledger: as long   *)
(* as no two operations overlap the file verifies and keeps every row it   *)
(* acknowledged, provided no text has a line separator JSON does not       *)
(* escape.  The separator is the one thing that breaks a serial ledger:    *)
(* the links hold with it too (Serial).                                    *)
THEOREM SerialChainIntact ==
    ASSUME "separator" \notin Texts
    PROVE  RecordsSpec => []ChainIntact
<1>1. LedgerInv => ChainIntact
  BY VerifiedIsLinked DEF LedgerInv, LedgerRight, Serial, ChainIntact
<1>. QED  BY <1>1, LedgerInvariance, PTL

(* As long as no two operations overlap, a step leaves the file as it is   *)
(* or adds one row at its end.                                             *)
THEOREM SerialAppendOnly == RecordsSpec => AppendOnly
<1>. DEFINE Grows == ~ overlapped' => /\ Len(file') \in Len(file) .. (Len(file) + 1)
                                      /\ SubSeq(file', 1, Len(file)) = file
<1>1. LedgerInv /\ [RecordsNext]_recordVars => [Grows]_vars
  <2>. SUFFICES ASSUME LedgerInv, [RecordsNext]_recordVars PROVE Grows \/ UNCHANGED vars
    OBVIOUS
  <2>1. CASE Next
    <3>1. PICK w \in Writers : WriterStep(w)
      BY <2>1 DEF Next, WriterStep
    <3>. QED  BY <3>1, GrowsByOne DEF LedgerInv
  <2>. QED  BY <2>1, LedgerPart
<1>. QED  BY <1>1, LedgerInvariance, PTL DEF RecordsSpec, AppendOnly

(* A file that verifies is a legal history, with any number of writers in  *)
(* each other's way: the hash an operation was checked against goes into   *)
(* its row, and a file the row does not fit no longer verifies.            *)
THEOREM VerifiedHistoriesAreLegal == RecordsSpec => []VerifiedIsLegal
<1>1. LedgerInv => VerifiedIsLegal
  BY VouchedIsLegal DEF LedgerInv
<1>. QED  BY <1>1, LedgerInvariance, PTL

-----------------------------------------------------------------------------
(* The rebuild check: what the validators accept *)

Runtimes  == RuntimeLists \cup {Published.runs}
Coverages == CoverageLists \cup {Published.rows}

(* Every list the artifacts hold is a sequence. *)
LEMMA ListType ==
    ASSUME NEW list \in Runtimes \cup Coverages
    PROVE  /\ list \in Seq(ToSet(list)) /\ Len(list) \in Nat
           /\ DOMAIN list = 1..Len(list)
<1>1. list \in Seq(ToSet(list))
  BY EvidenceAssumption DEF Runtimes, Coverages
<1>. QED  BY <1>1, LenProperties

(* A nonempty set of positions has a last one.                             *)
LEMMA MaxIsLast ==
    ASSUME NEW n \in Nat, NEW S \in SUBSET (1..n), S # {}
    PROVE  Max(S) \in S /\ \A y \in S : y <= Max(S)
<1>. DEFINE back == {n - i : i \in S}
<1>1. back \subseteq Nat /\ back # {}
  <2>1. \A i \in S : n - i \in Nat
    OBVIOUS
  <2>2. back \subseteq Nat
    BY <2>1
  <2>3. PICK i \in S : TRUE
    OBVIOUS
  <2>4. n - i \in back
    OBVIOUS
  <2>. QED  BY <2>2, <2>4
<1>. HIDE DEF back
<1>2. PICK x \in back : \A y \in back : ~ (<<y, x>> \in OpToRel(<, Nat))
  BY <1>1, NatLessThanWellFounded, WFMin
<1>3. \A y \in back : x <= y
  <2>1. OpToRel(<, Nat) = {ss \in Nat \X Nat : ss[1] < ss[2]}
    BY DEF OpToRel
  <2>2. \A y \in back : ~ (y < x)
    BY <1>1, <1>2, <2>1
  <2>. QED  BY <1>1, <2>2
<1>. USE DEF back
<1>4. PICK i \in S : x = n - i
  OBVIOUS
<1>5. \A y \in S : i >= y
  <2>1. \A y \in S : x <= n - y
    BY <1>3
  <2>. QED  BY <1>4, <2>1
<1>6. \E m \in S : \A y \in S : m >= y
  BY <1>5
<1>7. Max(S) \in S /\ \A y \in S : Max(S) >= y
  BY <1>6, Zenon DEF Max
<1>. QED  BY <1>7

(* The hash listed for a run is that of its last row.                      *)
LEMMA LastRow ==
    ASSUME NEW rows \in Runtimes \cup Coverages, NEW i \in DOMAIN rows
    PROVE  LET last == HashByRun(rows)[Key(rows[i])]
           IN  /\ last \in DOMAIN rows /\ Key(rows[last]) = Key(rows[i])
               /\ \A k \in DOMAIN rows : k > last => Key(rows[k]) # Key(rows[i])
<1>. DEFINE key == Key(rows[i])
            of == {k \in 1..Len(rows) : Key(rows[k]) = key}
<1>1. Len(rows) \in Nat /\ DOMAIN rows = 1..Len(rows)
  BY ListType
<1>2. of \in SUBSET (1..Len(rows)) /\ of # {}
  BY <1>1
<1>3. key \in {Key(row) : row \in ToSet(rows)}
  BY DEF ToSet
<1>4. HashByRun(rows)[key] = SelectLastInSeq(rows, LAMBDA row : Key(row) = key)
  BY <1>3 DEF HashByRun
<1>5. SelectLastInSeq(rows, LAMBDA row : Key(row) = key) = Max(of)
  BY <1>2 DEF SelectLastInSeq
<1>6. Max(of) \in of /\ \A y \in of : y <= Max(of)
  <2>. HIDE DEF of
  <2>. QED  BY <1>1, <1>2, MaxIsLast
<1>7. \A k \in 1..Len(rows) : k > Max(of) => Key(rows[k]) # key
  BY <1>6
<1>. QED  BY <1>1, <1>4, <1>5, <1>6, <1>7

(* Which key has which coverage. *)
LEMMA HashesAre ==
    ASSUME NEW rows \in Runtimes \cup Coverages
    PROVE  Hashes(rows) = {<<Key(rows[i]), rows[HashByRun(rows)[Key(rows[i])]].coverage>> :
                              i \in DOMAIN rows}
<1>1. DOMAIN HashByRun(rows) = {Key(rows[i]) : i \in DOMAIN rows}
  BY DEF HashByRun, ToSet
<1>. QED  BY <1>1 DEF Hashes

(* One run of each cell, by counting: as many runs as cells, and no cell   *)
(* without one.                                                            *)
LEMMA OneRunPerCell ==
    ASSUME NEW runs \in Runtimes, RuntimeAccepted(runs), NEW cell \in Cells
    PROVE  Cardinality({i \in DOMAIN runs : runs[i].cell = cell}) = 1
<1>. DEFINE n == Len(runs)
            cellOf == [i \in 1..n |-> runs[i].cell]
<1>1. n \in Nat /\ DOMAIN runs = 1..n
  BY ListType
<1>2. n = Cardinality(Cells) /\ {runs[i].cell : i \in 1..n} = Cells
  BY <1>1 DEF RuntimeAccepted
<1>. HIDE DEF n
<1>3. IsFiniteSet(1..n) /\ Cardinality(1..n) = n
  BY <1>1, FS_Interval
<1>4. cellOf \in Surjection(1..n, Cells)
  BY <1>2 DEF Surjection
<1>5. cellOf \in Injection(1..n, Cells)
  BY <1>2, <1>3, <1>4, FS_SurjSameCardinalityImpliesInj
<1>6. PICK i \in 1..n : runs[i].cell = cell
  BY <1>2
<1>7. \A j \in 1..n : runs[j].cell = cell => j = i
  BY <1>5, <1>6 DEF Injection, IsInjective
<1>8. {j \in DOMAIN runs : runs[j].cell = cell} = {i}
  BY <1>1, <1>6, <1>7
<1>. QED  BY <1>8, FS_Singleton

(* In an accepted runtime document the last run of a key is that run. *)
LEMMA RunsAreOfOneKey ==
    ASSUME NEW runs \in Runtimes, RuntimeAccepted(runs), NEW i \in DOMAIN runs
    PROVE  HashByRun(runs)[Key(runs[i])] = i
<1>. DEFINE last == HashByRun(runs)[Key(runs[i])]
<1>1. last \in DOMAIN runs /\ Key(runs[last]) = Key(runs[i])
  BY LastRow
<1>2. runs[last].backtest = runs[i].backtest
  BY <1>1 DEF Key
<1>. HIDE DEF last
<1>3. last = i
  BY <1>1, <1>2 DEF RuntimeAccepted
<1>. QED  BY <1>3 DEF last

(* The last row of each run carries the coverage the run reported, and     *)
(* every row is of a run.                                                  *)
LEMMA CoverageIsOfTheRuns ==
    ASSUME NEW runs \in Runtimes, NEW rows \in Coverages,
           RuntimeAccepted(runs), CoverageAccepted(rows, runs)
    PROVE  /\ \A i \in DOMAIN runs : \E j \in DOMAIN rows :
                 /\ Key(rows[j]) = Key(runs[i]) /\ rows[j].coverage = runs[i].coverage
                 /\ \A k \in DOMAIN rows : k > j => Key(rows[k]) # Key(runs[i])
           /\ \A j \in DOMAIN rows : rows[j].reconciles /\ rows[j].cell \in Cells
<1>1. Hashes(runs) = {<<Key(runs[i]), runs[i].coverage>> : i \in DOMAIN runs}
  <2>1. \A i \in DOMAIN runs : HashByRun(runs)[Key(runs[i])] = i
    BY RunsAreOfOneKey
  <2>. QED  BY <2>1, HashesAre
<1>2. Hashes(rows) = {<<Key(rows[j]), rows[HashByRun(rows)[Key(rows[j])]].coverage>> :
                         j \in DOMAIN rows}
  BY HashesAre
<1>3. Hashes(rows) = Hashes(runs) /\ \A j \in DOMAIN rows : rows[j].reconciles
  BY DEF CoverageAccepted
<1>4. ASSUME NEW i \in DOMAIN runs
      PROVE  \E j \in DOMAIN rows :
                /\ Key(rows[j]) = Key(runs[i]) /\ rows[j].coverage = runs[i].coverage
                /\ \A k \in DOMAIN rows : k > j => Key(rows[k]) # Key(runs[i])
  <2>1. <<Key(runs[i]), runs[i].coverage>> \in Hashes(rows)
    BY <1>1, <1>3
  <2>2. PICK j \in DOMAIN rows :
           <<Key(runs[i]), runs[i].coverage>>
             = <<Key(rows[j]), rows[HashByRun(rows)[Key(rows[j])]].coverage>>
    BY <2>1, <1>2
  <2>. DEFINE last == HashByRun(rows)[Key(rows[j])]
  <2>3. Key(rows[j]) = Key(runs[i]) /\ rows[last].coverage = runs[i].coverage
    BY <2>2
  <2>4. /\ last \in DOMAIN rows /\ Key(rows[last]) = Key(rows[j])
        /\ \A k \in DOMAIN rows : k > last => Key(rows[k]) # Key(rows[j])
    BY LastRow
  <2>. HIDE DEF last
  <2>. QED  BY <2>3, <2>4
<1>5. ASSUME NEW j \in DOMAIN rows PROVE rows[j].cell \in Cells
  <2>1. PICK i \in DOMAIN runs :
           <<Key(runs[i]), runs[i].coverage>>
             = <<Key(rows[j]), rows[HashByRun(rows)[Key(rows[j])]].coverage>>
    BY <1>1, <1>2, <1>3
  <2>2. rows[j].cell = runs[i].cell
    BY <2>1 DEF Key
  <2>. QED  BY <2>2 DEF RuntimeAccepted
<1>. QED  BY <1>3, <1>4, <1>5

-----------------------------------------------------------------------------
(* The rebuild check: its steps *)

SourceVersions == Versions \cup {Published.version}
Maths          == [version : SourceVersions, passed : BOOLEAN]
Indexes        == [runtime : Runtimes, coverage : Coverages, math : Maths]
Manifests      == [version : SourceVersions, hashes : Indexes]

BodiesOf(a) ==
    CASE a = "manifest" -> Manifests [] a = "runtime" -> Runtimes
      [] a = "coverage" -> Coverages [] a = "index" -> Indexes [] a = "math" -> Maths

AnyBody == Manifests \cup Runtimes \cup Coverages \cup Indexes \cup Maths

(* A document may have been edited under the hash it has. *)
DocumentsOf(a) == [hash : BodiesOf(a), body : BodiesOf(a)]

(* At most one document per artifact, of its kind. *)
DiskRight ==
    /\ DOMAIN disk = Artifacts /\ disk = [a \in Artifacts |-> disk[a]]
    /\ \A a \in Artifacts : disk[a] = <<>> \/ \E d \in DocumentsOf(a) : disk[a] = <<d>>

(* What a check has read is of the kinds it asked for; one that passed has *)
(* read everything, and the validators accepted it.                        *)
CheckRight ==
    /\ check \in [phase : {"idle", "pending", "reading", "final"},
                  contract : SourceVersions, read : Seq(AnyBody)]
    /\ Len(check.read) <= Len(ReadingOrder)
    /\ \A i \in 1..Len(check.read) : check.read[i] \in BodiesOf(ReadingOrder[i])
    /\ check.phase = "final" =>
          /\ Len(check.read) = Len(ReadingOrder)
          /\ EvidenceValid(check.contract, check.read[1], check.read[2], check.read[3],
                           check.read[4], check.read[5])

EvidenceInv == source \in SourceVersions /\ DiskRight /\ CheckRight

(* The five artifacts and the order they are read in.                      *)
LEMMA ArtifactsAre ==
    /\ Len(ReadingOrder) = 5 /\ DOMAIN ReadingOrder = 1..5
    /\ ReadingOrder[1] = "manifest" /\ ReadingOrder[2] = "runtime"
    /\ ReadingOrder[3] = "coverage" /\ ReadingOrder[4] = "index" /\ ReadingOrder[5] = "math"
    /\ Artifacts = {"manifest", "runtime", "coverage", "index", "math"}
<1>1. /\ Len(ReadingOrder) = 5 /\ DOMAIN ReadingOrder = 1..5
      /\ ReadingOrder[1] = "manifest" /\ ReadingOrder[2] = "runtime"
      /\ ReadingOrder[3] = "coverage" /\ ReadingOrder[4] = "index" /\ ReadingOrder[5] = "math"
  BY DEF ReadingOrder
<1>2. 1..5 = {1, 2, 3, 4, 5}
  OBVIOUS
<1>. QED  BY <1>1, <1>2 DEF Artifacts, ToSet

(* The bodies a document of each kind may have.                            *)
LEMMA BodiesAre ==
    /\ BodiesOf("manifest") = Manifests /\ BodiesOf("runtime") = Runtimes
    /\ BodiesOf("coverage") = Coverages /\ BodiesOf("index") = Indexes
    /\ BodiesOf("math") = Maths
    /\ \A a \in Artifacts : BodiesOf(a) \subseteq AnyBody
<1>1. /\ BodiesOf("manifest") = Manifests /\ BodiesOf("runtime") = Runtimes
      /\ BodiesOf("coverage") = Coverages /\ BodiesOf("index") = Indexes
      /\ BodiesOf("math") = Maths
  BY DEF BodiesOf
<1>. QED  BY <1>1, ArtifactsAre DEF AnyBody

(* A document is one of its artifact, and so is an edited one.             *)
LEMMA DocumentTypes ==
    ASSUME NEW a \in Artifacts, NEW body \in BodiesOf(a)
    PROVE  /\ Document(body) \in DocumentsOf(a)
           /\ \A d \in DocumentsOf(a) : [d EXCEPT !.body = body] \in DocumentsOf(a)
  BY DEF Document, DocumentsOf

(* The first and only document. *)
LEMMA OnDisk ==
    ASSUME DiskRight, NEW a \in Artifacts, disk[a] # <<>>
    PROVE  /\ disk[a][1] \in DocumentsOf(a) /\ disk[a] = <<disk[a][1]>>
           /\ disk[a][1].hash \in BodiesOf(a) /\ disk[a][1].body \in BodiesOf(a)
<1>1. PICK d \in DocumentsOf(a) : disk[a] = <<d>>
  BY DEF DiskRight
<1>2. disk[a][1] = d
  BY <1>1
<1>. QED  BY <1>1, <1>2 DEF DocumentsOf

(* What is written is of its artifact's kind. *)
LEMMA WrittenBodies ==
    ASSUME source \in SourceVersions, DiskRight, NEW a \in Artifacts, NEW body \in Bodies(a)
    PROVE  body \in BodiesOf(a)
<1>1. CASE a = "runtime"
  BY <1>1, BodiesAre DEF Bodies, Runtimes
<1>2. CASE a = "coverage"
  BY <1>2, BodiesAre DEF Bodies, Coverages
<1>3. CASE a = "math"
  BY <1>3, BodiesAre DEF Bodies, Maths
<1>4. CASE a \in {"index", "manifest"}
  <2>1. \A b \in {"runtime", "coverage", "math"} : disk[b] # <<>>
    BY <1>4 DEF Bodies
  <2>2. /\ body = IF a = "index" THEN IndexOf(disk) ELSE ManifestOf(source, disk)
    BY <1>4, <2>1 DEF Bodies
  <2>3. \A b \in {"runtime", "coverage", "math"} : disk[b][1].hash \in BodiesOf(b)
    BY <2>1, OnDisk, ArtifactsAre
  <2>4. IndexOf(disk) \in Indexes
    BY <2>3, BodiesAre DEF IndexOf, Indexes
  <2>5. ManifestOf(source, disk) \in Manifests
    BY <2>4 DEF ManifestOf, Manifests
  <2>. QED  BY <1>4, <2>2, <2>4, <2>5, BodiesAre
<1>. QED  BY <1>1, <1>2, <1>3, <1>4, ArtifactsAre

(* Replacing or removing one artifact keeps the disk right. *)
LEMMA DiskUpdate ==
    ASSUME DiskRight, NEW a \in Artifacts, NEW new, disk' = [disk EXCEPT ![a] = new],
           new = <<>> \/ \E d \in DocumentsOf(a) : new = <<d>>
    PROVE  DiskRight'
<1>1. DOMAIN disk = Artifacts
  BY DEF DiskRight
<1>2. disk' = [b \in Artifacts |-> IF b = a THEN new ELSE disk[b]]
  BY <1>1
<1>. QED  BY <1>2 DEF DiskRight

(* What others write are documents of the right kind.                      *)
LEMMA ChangeStep ==
    ASSUME source \in SourceVersions, DiskRight, Change
    PROVE  source' \in SourceVersions /\ DiskRight'
<1>1. CASE source' \in Versions \ {source} /\ UNCHANGED disk
  BY <1>1 DEF SourceVersions, DiskRight
<1>2. ASSUME NEW a \in Artifacts, NEW body \in Bodies(a),
             disk' = [disk EXCEPT ![a] = <<Document(body)>>]
      PROVE  DiskRight'
  BY <1>2, WrittenBodies, DocumentTypes, DiskUpdate
<1>3. ASSUME NEW a \in Artifacts, NEW body \in Bodies(a), disk[a] # <<>>,
             disk' = [disk EXCEPT ![a][1].body = body]
      PROVE  DiskRight'
  <2>. DEFINE d == disk[a][1]
              edited == [d EXCEPT !.body = body]
  <2>1. d \in DocumentsOf(a) /\ disk[a] = <<d>>
    BY <1>3, OnDisk
  <2>2. edited \in DocumentsOf(a)
    BY <2>1, WrittenBodies, DocumentTypes
  <2>3. disk' = [disk EXCEPT ![a] = [disk[a] EXCEPT ![1] = edited]]
    BY <1>3
  <2>. HIDE DEF d, edited
  <2>4. [disk[a] EXCEPT ![1] = edited] = <<edited>>
    BY <2>1
  <2>. QED  BY <2>2, <2>3, <2>4, DiskUpdate
<1>4. ASSUME NEW a \in Artifacts, disk' = [disk EXCEPT ![a] = <<>>]
      PROVE  DiskRight'
  BY <1>4, DiskUpdate
<1>. QED  BY <1>1, <1>2, <1>3, <1>4 DEF Change

(* Reading the next artifact adds a body of its kind. *)
LEMMA ReadStep ==
    ASSUME EvidenceInv, Read
    PROVE  CheckRight'
<1>. DEFINE n == Len(check.read)
            artifact == ReadingOrder[n + 1]
            body == disk[artifact][1].body
<1>1. /\ check \in [phase : {"idle", "pending", "reading", "final"},
                    contract : SourceVersions, read : Seq(AnyBody)]
      /\ check.read \in Seq(AnyBody) /\ n \in Nat /\ n < 5 /\ check.phase = "reading"
  <2>1. check.read \in Seq(AnyBody)
    BY DEF EvidenceInv, CheckRight
  <2>. QED  BY <2>1, LenProperties, ArtifactsAre DEF EvidenceInv, CheckRight, Read
<1>2. artifact \in Artifacts /\ disk[artifact] # <<>>
  <2>1. n + 1 \in {1, 2, 3, 4, 5}
    BY <1>1
  <2>2. artifact \in Artifacts
    <3>. HIDE DEF n
    <3>. QED  BY <2>1, ArtifactsAre
  <2>. QED  BY <2>2 DEF Read
<1>3. body \in BodiesOf(artifact) /\ body \in AnyBody
  <2>. HIDE DEF artifact
  <2>. QED  BY <1>2, OnDisk, BodiesAre DEF EvidenceInv
<1>4. check' = [check EXCEPT !.read = Append(check.read, body)]
  BY DEF Read
<1>. DEFINE longer == Append(check.read, body)
<1>5. /\ longer \in Seq(AnyBody) /\ Len(longer) = n + 1
      /\ \A i \in 1..n : longer[i] = check.read[i]
      /\ longer[n + 1] = body
  <2>. HIDE DEF body
  <2>. QED  BY <1>1, <1>3, AppendProperties
<1>. HIDE DEF body, longer
<1>6. check'.phase = "reading" /\ check'.read = longer
      /\ check' \in [phase : {"idle", "pending", "reading", "final"},
                     contract : SourceVersions, read : Seq(AnyBody)]
  BY <1>1, <1>4, <1>5 DEF longer
<1>7. \A i \in 1..n : check.read[i] \in BodiesOf(ReadingOrder[i])
  BY DEF EvidenceInv, CheckRight
<1>8. \A i \in 1..(n + 1) : longer[i] \in BodiesOf(ReadingOrder[i])
  <2>. SUFFICES ASSUME NEW i \in 1..(n + 1) PROVE longer[i] \in BodiesOf(ReadingOrder[i])
    OBVIOUS
  <2>1. i \in 1..n \/ i = n + 1
    BY <1>1
  <2>. QED  BY <2>1, <1>3, <1>5, <1>7
<1>. HIDE DEF n
<1>. QED  BY <1>1, <1>5, <1>6, <1>8, ArtifactsAre DEF CheckRight

(* Every step keeps the invariant of the rebuild check.                    *)
LEMMA EvidenceStep == EvidenceInv /\ [EvidenceNext]_evidenceVars => EvidenceInv'
<1>. SUFFICES ASSUME EvidenceInv, [EvidenceNext]_evidenceVars PROVE EvidenceInv'
  OBVIOUS
<1>0. /\ check \in [phase : {"idle", "pending", "reading", "final"},
                    contract : SourceVersions, read : Seq(AnyBody)]
      /\ <<>> \in Seq(AnyBody) /\ Len(<<>>) = 0
  BY EmptySeq DEF EvidenceInv, CheckRight
<1>1. CASE Change
  BY <1>1, ChangeStep DEF Change, EvidenceInv, CheckRight
<1>2. CASE Start
  <2>1. /\ check'.phase \in {"pending", "reading"} /\ check'.read = <<>>
        /\ check' \in [phase : {"idle", "pending", "reading", "final"},
                       contract : SourceVersions, read : Seq(AnyBody)]
    BY <1>0, <1>2 DEF Start, EvidenceInv
  <2>2. CheckRight'
    BY <1>0, <2>1, ArtifactsAre DEF CheckRight
  <2>. QED  BY <1>2, <2>2 DEF Start, EvidenceInv, DiskRight
<1>3. CASE Read
  BY <1>3, ReadStep DEF Read, EvidenceInv, DiskRight
<1>4. CASE Validate
  <2>1. /\ check'.phase = "final" /\ check'.read = check.read
        /\ check'.contract = check.contract
        /\ check' \in [phase : {"idle", "pending", "reading", "final"},
                       contract : SourceVersions, read : Seq(AnyBody)]
    BY <1>0, <1>4 DEF Validate
  <2>2. CheckRight'
    BY <1>4, <2>1 DEF Validate, EvidenceInv, CheckRight
  <2>. QED  BY <1>4, <2>2 DEF Validate, EvidenceInv, DiskRight
<1>5. CASE WriteReport \/ Raise
  <2>1. check' = NoCheck /\ UNCHANGED <<source, disk>>
    BY <1>5 DEF WriteReport, Raise
  <2>2. /\ check'.phase = "idle" /\ check'.read = <<>>
        /\ check' \in [phase : {"idle", "pending", "reading", "final"},
                       contract : SourceVersions, read : Seq(AnyBody)]
    BY <1>0, <2>1 DEF NoCheck, SourceVersions
  <2>3. CheckRight'
    BY <1>0, <2>2, ArtifactsAre DEF CheckRight
  <2>. QED  BY <2>1, <2>3 DEF EvidenceInv, DiskRight
<1>6. CASE UNCHANGED evidenceVars
  BY <1>6 DEF evidenceVars, EvidenceInv, DiskRight, CheckRight
<1>. QED  BY <1>1, <1>2, <1>3, <1>4, <1>5, <1>6 DEF EvidenceNext

(* The published set is a disk of right documents. *)
LEMMA EvidenceInitInv == EvidenceInit => EvidenceInv
<1>. SUFFICES ASSUME EvidenceInit PROVE EvidenceInv
  OBVIOUS
<1>1. source \in SourceVersions
  BY DEF EvidenceInit, SourceVersions
<1>2. CheckRight
  <2>1. check = NoCheck /\ <<>> \in Seq(AnyBody) /\ Len(<<>>) = 0
    BY EmptySeq DEF EvidenceInit
  <2>2. /\ check.phase = "idle" /\ check.read = <<>>
        /\ check \in [phase : {"idle", "pending", "reading", "final"},
                      contract : SourceVersions, read : Seq(AnyBody)]
    BY <2>1 DEF NoCheck, SourceVersions
  <2>. QED  BY <2>1, <2>2, ArtifactsAre DEF CheckRight
<1>3. CASE disk = [a \in Artifacts |-> <<>>]
  BY <1>1, <1>2, <1>3 DEF EvidenceInv, DiskRight
<1>4. CASE disk = PublishedSet
  <2>. DEFINE math == [version |-> Published.version, passed |-> TRUE]
              measured == [runtime  |-> <<Document(Published.runs)>>,
                           coverage |-> <<Document(Published.rows)>>,
                           math     |-> <<Document(math)>>]
  <2>1. /\ Published.runs \in BodiesOf("runtime") /\ Published.rows \in BodiesOf("coverage")
        /\ math \in BodiesOf("math")
    BY BodiesAre DEF Runtimes, Coverages, Maths, SourceVersions
  <2>2. IndexOf(measured) = [runtime |-> Published.runs, coverage |-> Published.rows,
                             math |-> math]
    BY DEF IndexOf, Document
  <2>3. IndexOf(measured) \in BodiesOf("index")
    BY <2>1, <2>2, BodiesAre DEF Indexes
  <2>4. ManifestOf(Published.version, measured) \in BodiesOf("manifest")
    BY <2>3, BodiesAre DEF ManifestOf, Manifests, SourceVersions
  <2>5. disk = [a \in Artifacts |->
                  CASE a = "index"    -> <<Document(IndexOf(measured))>>
                    [] a = "manifest" -> <<Document(ManifestOf(Published.version, measured))>>
                    [] OTHER          -> measured[a]]
    BY <1>4 DEF PublishedSet
  <2>6. /\ disk["index"] = <<Document(IndexOf(measured))>>
        /\ disk["manifest"] = <<Document(ManifestOf(Published.version, measured))>>
        /\ disk["runtime"] = <<Document(Published.runs)>>
        /\ disk["coverage"] = <<Document(Published.rows)>>
        /\ disk["math"] = <<Document(math)>>
    BY <2>5, ArtifactsAre
  <2>. HIDE DEF math, measured
  <2>7. ASSUME NEW a \in Artifacts PROVE \E d \in DocumentsOf(a) : disk[a] = <<d>>
    BY <2>1, <2>3, <2>4, <2>6, ArtifactsAre, DocumentTypes
  <2>8. DiskRight
    BY <2>5, <2>7 DEF DiskRight
  <2>. QED  BY <1>1, <1>2, <2>8 DEF EvidenceInv
<1>. QED  BY <1>3, <1>4 DEF EvidenceInit

(* The rebuild check's invariant: whatever is rewritten, edited or removed *)
(* between its reads, the check holds documents of the kinds it asked for, *)
(* and in its final phase the very documents it validated.                 *)
THEOREM EvidenceInvariance == RecordsSpec => []EvidenceInv
<1>1. RecordsInit => EvidenceInv
  BY EvidenceInitInv DEF RecordsInit
<1>2. [RecordsNext]_recordVars => [EvidenceNext]_evidenceVars
  BY DEF RecordsNext, recordVars, evidenceVars
<1>3. EvidenceInv /\ [RecordsNext]_recordVars => EvidenceInv'
  BY <1>2, EvidenceStep
<1>. QED  BY <1>1, <1>3, PTL DEF RecordsSpec

(* A check that passes has seen evidence of one set: one completed run per *)
(* cell of the matrix, for each the coverage it reported and no other as   *)
(* its last row, an index and a manifest that vouch for these documents,   *)
(* and a certification of the version whose source was hashed; for any     *)
(* matrix, any documents and any rewriting between the reads.              *)
THEOREM AcceptedEvidence == RecordsSpec => []AcceptedEvidenceIsOfOneSet
<1>1. EvidenceInv => AcceptedEvidenceIsOfOneSet
  <2>. SUFFICES ASSUME EvidenceInv, check.phase = "final" PROVE AcceptedEvidenceIsOfOneSet
    BY DEF AcceptedEvidenceIsOfOneSet
  <2>. DEFINE runs == check.read[2]
              rows == check.read[3]
  <2>1. EvidenceValid(check.contract, check.read[1], runs, rows, check.read[4], check.read[5])
    BY DEF EvidenceInv, CheckRight
  <2>2. runs \in Runtimes /\ rows \in Coverages
    BY ArtifactsAre, BodiesAre DEF EvidenceInv, CheckRight
  <2>3. RuntimeAccepted(runs) /\ CoverageAccepted(rows, runs)
    BY <2>1 DEF EvidenceValid
  <2>4. /\ check.read[4] = check.read[1].hashes
        /\ check.read[5].version = check.contract
    BY <2>1 DEF EvidenceValid
  <2>. HIDE DEF runs, rows
  <2>5. \A cell \in Cells : Cardinality({i \in DOMAIN runs : runs[i].cell = cell}) = 1
    BY <2>2, <2>3, OneRunPerCell
  <2>6. \A i \in DOMAIN runs : runs[i].completed
    BY <2>3 DEF RuntimeAccepted
  <2>7. /\ \A i \in DOMAIN runs : \E j \in DOMAIN rows :
              /\ Key(rows[j]) = Key(runs[i]) /\ rows[j].coverage = runs[i].coverage
              /\ \A k \in DOMAIN rows : k > j => Key(rows[k]) # Key(runs[i])
        /\ \A j \in DOMAIN rows : rows[j].reconciles /\ rows[j].cell \in Cells
    BY <2>2, <2>3, CoverageIsOfTheRuns
  <2>. QED  BY <2>4, <2>5, <2>6, <2>7 DEF AcceptedEvidenceIsOfOneSet, runs, rows
<1>. QED  BY <1>1, EvidenceInvariance, PTL

=============================================================================
