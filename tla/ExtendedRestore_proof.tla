------------------------ MODULE ExtendedRestore_proof ------------------------
(***************************************************************************)
(* Proofs about ExtendedRestore, for any items, values, profiles, lists    *)
(* and bounds: its type invariant, that a run replaces nothing but what    *)
(* was shown and confirmed, that what it changed is kept and what it tells *)
(* is so, and that an undo reported verified has put the body back.        *)
(*                                                                         *)
(* What is replaced needs three links (IInv): the plan that is executed is *)
(* the plan that was confirmed; a line that is a write names what the      *)
(* camera held when the apply read it; and until somebody changes the      *)
(* camera it holds that value or already the one of the plan.              *)
(*                                                                         *)
(* The rest (RunInv) needs what each reading and each line of a plan says  *)
(* of the body, whose turn has passed and with which outcome, where the    *)
(* rebuild of the list is, and that an undo has before it everything in    *)
(* which the body differs from the one it goes back to.                    *)
(***************************************************************************)
EXTENDS ExtendedRestore, SequenceTheorems, TLAPS

PlanIsConfirmed == pc \in {"saving", "writing"} => Plan = asked

FromIsHeld ==
    pc \in {"saving", "writing"} /\ ~edited =>
        \A i \in Simple : asked.val[i].act = "write" =>
            body.val[i] \in {asked.val[i].from, asked.val[i].to}

IInv == TypeOK /\ PlanIsConfirmed /\ FromIsHeld

-----------------------------------------------------------------------------
(* Readings, plans and lists. *)

LEMMA ListsAreSequences ==
    ASSUME NEW l \in Lists
    PROVE  l \in Seq(Profiles) /\ Len(l) \in Nat /\ Len(l) <= Limit
BY LenProperties DEF Lists

LEMMA NoPointTyped == NoPoint \in Reading
<1>1. <<>> \in Seq(Profiles)
  BY EmptySeq
<1>2. NoList \in FtpReading
  BY <1>1 DEF NoList, FtpReading
<1> QED
  BY <1>2 DEF NoPoint, Reading

\* What a read answers is a reading, and a value in it is the one the camera holds.
LEMMA ReadingsTyped ==
    ASSUME body \in Body, NEW r \in Readings
    PROVE  /\ r \in Reading
           /\ \A i \in Simple : r.val[i] \in {body.val[i], Lacks, Unread}
<1>1. body.ftp \in Seq(Profiles) /\ <<>> \in Seq(Profiles)
  BY ListsAreSequences, EmptySeq DEF Body
<1>2. NoList \in FtpReading
  BY <1>1 DEF NoList, FtpReading
<1>3. Sound.ftp \in FtpReading
  BY <1>1 DEF Sound, FtpReading
<1>4. \A i \in Simple : Sound.val[i] \in {body.val[i], Lacks}
  BY DEF Sound
<1>5. Sound \in Reading
  BY <1>3 DEF Sound, Reading, Body
<1>6. CASE r = Sound
  BY <1>4, <1>5, <1>6
<1>7. ASSUME NEW U, r = Misread(U) PROVE r \in Reading /\ \A i \in Simple : r.val[i] \in {body.val[i], Lacks, Unread}
  <2>1. r.ftp \in FtpReading
    BY <1>2, <1>3, <1>7 DEF Misread
  <2>2. \A i \in Simple : r.val[i] \in {body.val[i], Lacks, Unread}
    BY <1>4, <1>7 DEF Misread
  <2>3. r = [val |-> [i \in Simple |-> IF i \in U THEN Unread ELSE Sound.val[i]], ftp |-> r.ftp]
    BY <1>7 DEF Misread
  <2>4. [i \in Simple |-> IF i \in U THEN Unread ELSE Sound.val[i]] \in [Simple -> Values \cup {Lacks, Unread}]
    BY <1>4 DEF Body
  <2> QED
    BY <2>1, <2>2, <2>3, <2>4 DEF Reading
<1> QED
  BY <1>6, <1>7 DEF Readings

LEMMA JudgeTyped ==
    ASSUME NEW i, NEW want, NEW now, NEW r
    PROVE  /\ Judge(i, want, now, r) \in Actions
           /\ Judge(i, want, now, r) = "write" => now \notin {Lacks, Unread} /\ want \notin {Lacks, Unread}
BY DEF Judge, Actions

LEMMA JudgeListTyped ==
    ASSUME NEW want, NEW now
    PROVE  JudgeList(want, now) \in Actions
BY DEF JudgeList, Actions

\* A line of a plan that is a write names what was read.
LEMMA PlanTyped ==
    ASSUME NEW src \in Reading, NEW r \in Reading, NEW only
    PROVE  /\ PlanOf(src, r, only) \in Plans
           /\ \A i \in Simple : PlanOf(src, r, only).val[i].act = "write" =>
                 /\ PlanOf(src, r, only).val[i].from = r.val[i]
                 /\ r.val[i] \notin {Lacks, Unread}
                 /\ PlanOf(src, r, only).val[i].to \in Values
<1> DEFINE Plan0 == PlanOf(src, r, only)
           Lines(i) == IF Category(i) \in only THEN PlanItem(i, src, r)
                       ELSE Line("not_selected", Unread, Unread)
<1>1. ASSUME NEW i \in Simple
      PROVE  /\ Lines(i) \in PlanItems
             /\ Lines(i).act = "write" => 
                   Lines(i).from = r.val[i] /\ r.val[i] \notin {Lacks, Unread} /\ Lines(i).to \in Values
  <2>1. src.val[i] \in Values \cup {Lacks, Unread} /\ r.val[i] \in Values \cup {Lacks, Unread}
    BY DEF Reading
  <2>2. Line("not_selected", Unread, Unread) \in PlanItems
    BY DEF Line, PlanItems, Actions
  <2> DEFINE act == Judge(i, src.val[i], r.val[i], r)
  <2>3. act \in Actions /\ (act = "write" => r.val[i] \notin {Lacks, Unread} /\ src.val[i] \in Values)
    BY <2>1, JudgeTyped
  <2>4. PlanItem(i, src, r) = IF act \in {"not_selected", "no_value"} THEN Line(act, Unread, Unread)
                              ELSE Line(act, src.val[i], r.val[i])
    BY DEF PlanItem, Unbound
  <2> HIDE DEF act
  <2>5. PlanItem(i, src, r) \in PlanItems
    BY <2>1, <2>3, <2>4 DEF Line, PlanItems
  <2>6. PlanItem(i, src, r).act = "write" =>
         PlanItem(i, src, r).from = r.val[i] /\ r.val[i] \notin {Lacks, Unread} /\ PlanItem(i, src, r).to \in Values
    BY <2>3, <2>4 DEF Line
  <2>7. Line("not_selected", Unread, Unread).act # "write"
    BY DEF Line
  <2> QED
    BY <2>2, <2>5, <2>6, <2>7
<1>2. \A i \in Simple : Plan0.val[i] = Lines(i)
  BY DEF PlanOf
<1>3. Plan0.ftp \in [act : Actions, to : Seq(Profiles), from : Seq(Profiles)]
  <2>1. src.ftp.list \in Seq(Profiles) /\ r.ftp.list \in Seq(Profiles)
    BY DEF Reading, FtpReading
  <2>2. <<>> \in Seq(Profiles)
    BY EmptySeq
  <2> DEFINE act == JudgeList(src.ftp, r.ftp)
  <2>3. act \in Actions
    BY JudgeListTyped
  <2>4. PlanList(src, r) = IF act \in {"not_selected", "no_value"} THEN Line(act, <<>>, <<>>)
                           ELSE Line(act, src.ftp.list, r.ftp.list)
    BY DEF PlanList, Unbound
  <2> HIDE DEF act
  <2>5. PlanList(src, r) \in [act : Actions, to : Seq(Profiles), from : Seq(Profiles)]
    BY <2>1, <2>2, <2>3, <2>4 DEF Line
  <2>6. Line("not_selected", <<>>, <<>>) \in [act : Actions, to : Seq(Profiles), from : Seq(Profiles)]
    BY <2>2 DEF Line, Actions
  <2> QED
    BY <2>5, <2>6 DEF PlanOf
<1>4. Plan0 = [val |-> [i \in Simple |-> Lines(i)], ftp |-> Plan0.ftp]
  BY DEF PlanOf
<1> HIDE DEF Lines, Plan0
<1>5. Plan0 \in Plans
  <2>1. [i \in Simple |-> Lines(i)] \in [Simple -> PlanItems]
    BY <1>1
  <2> QED
    BY <2>1, <1>3, <1>4 DEF Plans
<1> QED
  BY <1>1, <1>2, <1>5 DEF Plan0

\* The body after a write of one item.
LEMMA WithValueTyped ==
    ASSUME body \in Body, NEW i \in Simple, NEW v \in Values
    PROVE  /\ WithValue(i, v) \in Body
           /\ WithValue(i, v).val = [body.val EXCEPT ![i] = v]
           /\ WithValue(i, v).ftp = body.ftp
BY DEF WithValue, Body

\* Taking one profile out of the list, or putting one in front of it.
LEMMA ListStepsTyped ==
    ASSUME body \in Body
    PROVE  /\ \A k \in 1..Len(body.ftp) : WithList(Without(body.ftp, k)) \in Body
           /\ \A p \in Profiles : Len(body.ftp) < Limit => WithList(<<p>> \o body.ftp) \in Body
<1> DEFINE l == body.ftp
<1>1. l \in Seq(Profiles) /\ Len(l) \in Nat /\ Len(l) <= Limit /\ Limit \in Nat
  BY ListsAreSequences, BodyAssumption DEF Body
<1>2. \A k \in 1..Len(l) : l[k] \in Profiles
  BY <1>1, ElementOfSeq
<1>3. body.val \in [Simple -> Values]
  BY DEF Body
<1> HIDE DEF l
<1>4. ASSUME NEW k \in 1..Len(l) PROVE Without(l, k) \in Lists
  <2>1. SubSeq(l, 1, k - 1) \in Seq(Profiles) /\ Len(SubSeq(l, 1, k - 1)) = k - 1
    <3>1. \A j \in 1..(k - 1) : l[j] \in Profiles
      BY <1>1, <1>2
    <3> QED
      BY <1>1, <3>1, SubSeqProperties
  <2>2. SubSeq(l, k + 1, Len(l)) \in Seq(Profiles) /\ Len(SubSeq(l, k + 1, Len(l))) = Len(l) - k
    <3>1. \A j \in (k + 1)..Len(l) : l[j] \in Profiles
      BY <1>1, <1>2
    <3>2. /\ SubSeq(l, k + 1, Len(l)) \in Seq(Profiles)
          /\ Len(SubSeq(l, k + 1, Len(l))) = IF k + 1 <= Len(l) THEN Len(l) - (k + 1) + 1 ELSE 0
      BY <1>1, <3>1, SubSeqProperties
    <3> QED
      BY <1>1, <3>2
  <2> DEFINE head == SubSeq(l, 1, k - 1)
             tail == SubSeq(l, k + 1, Len(l))
  <2>3. Without(l, k) = head \o tail
    BY DEF Without
  <2>4. /\ head \in Seq(Profiles) /\ Len(head) = k - 1
        /\ tail \in Seq(Profiles) /\ Len(tail) = Len(l) - k
    BY <2>1, <2>2
  <2> HIDE DEF head, tail
  <2>5. head \o tail \in Seq(Profiles) /\ Len(head \o tail) = Len(head) + Len(tail)
    BY <2>4, ConcatProperties
  <2>6. Len(head \o tail) <= Limit
    BY <1>1, <2>4, <2>5
  <2> QED
    BY <2>3, <2>5, <2>6 DEF Lists
<1>5. ASSUME NEW p \in Profiles, Len(l) < Limit PROVE <<p>> \o l \in Lists
  <2>1. <<p>> \in Seq(Profiles) /\ Len(<<p>>) = 1
    OBVIOUS
  <2>2. <<p>> \o l \in Seq(Profiles) /\ Len(<<p>> \o l) = 1 + Len(l)
    BY <1>1, <2>1, ConcatProperties
  <2> QED
    BY <1>1, <1>5, <2>2 DEF Lists
<1> QED
  BY <1>3, <1>4, <1>5 DEF WithList, Body, l

-----------------------------------------------------------------------------
(* Pieces of a step. *)

LEMMA FaultTyped ==
    ASSUME TypeOK, Fault \/ NoFault
    PROVE  faults' \in 0..MaxTroubles /\ poisoned' \in BOOLEAN
<1>1. /\ faults \in 0..MaxTroubles /\ edits \in 0..MaxEdits /\ poisoned \in BOOLEAN
      /\ MaxTroubles \in Nat /\ MaxEdits \in Nat
  BY BoundsAssumption DEF TypeOK
<1>2. CASE Fault
  <2>1. faults' = faults + 1 /\ faults + edits < MaxTroubles
    BY <1>2 DEF Fault
  <2>2. poisoned' \in {poisoned, TRUE}
    BY <1>2 DEF Fault
  <2>3. faults' \in 0..MaxTroubles
    BY <1>1, <2>1
  <2>4. poisoned' \in BOOLEAN
    BY <1>1, <2>2, Zenon
  <2> QED
    BY <2>3, <2>4
<1>3. CASE NoFault
  BY <1>1, <1>3 DEF NoFault
<1> QED
  BY <1>2, <1>3

LEMMA CurrentTyped ==
    ASSUME TypeOK
    PROVE  /\ Len(Order) \in Nat /\ at \in 1..(Len(Order) + 2)
           /\ Current \in Items
<1>1. Order \in Seq(Simple) /\ Len(Order) \in Nat /\ at \in 1..(Len(Order) + 2)
  BY ItemsAssumption, LenProperties DEF TypeOK
<1>2. \A k \in 1..Len(Order) : Order[k] \in Simple
  BY <1>1, ElementOfSeq
<1> QED
  BY <1>1, <1>2 DEF Current, Items

LEMMA EndTyped ==
    ASSUME TypeOK, ~AllPassed, NEW outcome \in Outcomes, NEW i, End(i, outcome)
    PROVE  at' \in 1..(Len(Order) + 2) /\ results' \in [Items -> Outcomes]
<1>1. Len(Order) \in Nat /\ at \in 1..(Len(Order) + 2) /\ results \in [Items -> Outcomes]
  BY CurrentTyped DEF TypeOK
<1>2. at' \in 1..(Len(Order) + 2)
  <2>1. at' = at + 1 /\ ~(at > Len(Order) + 1)
    BY DEF End, AllPassed
  <2> QED
    BY <1>1, <2>1
<1>3. results' = [results EXCEPT ![i] = outcome]
  BY DEF End
<1>4. results' \in [Items -> Outcomes]
  BY <1>1, <1>3
<1> QED
  BY <1>2, <1>4

\* The plan of the run that writes, and the item whose turn it is.
LEMMA TurnFacts ==
    ASSUME IInv, NEW i, Turn(i)
    PROVE  /\ Plan = asked /\ ActionOf(asked, i) = "write"
           /\ Plan \in Plans /\ i \in Items /\ ~AllPassed
           /\ i \in Simple => asked.val[i].act = "write" /\ Plan.val[i].to \in Values
           /\ i = Ftp => asked.ftp.act = "write"
<1>1. Plan = asked /\ job.source \in Reading /\ live \in Reading
  BY DEF Turn, IInv, PlanIsConfirmed, TypeOK
<1>2. Plan \in Plans /\ \A j \in Simple : Plan.val[j].act = "write" => Plan.val[j].to \in Values
  BY <1>1, PlanTyped DEF Plan
<1>3. i \in Items /\ ~AllPassed /\ ActionOf(Plan, i) = "write"
  BY CurrentTyped DEF Turn, IInv
<1>4. i \in Simple => ActionOf(Plan, i) = Plan.val[i].act
  BY ItemsAssumption DEF ActionOf
<1>5. i = Ftp => ActionOf(Plan, i) = Plan.ftp.act
  BY DEF ActionOf
<1> QED
  BY <1>1, <1>2, <1>3, <1>4, <1>5

-----------------------------------------------------------------------------
(* A step of the writing phase, in two halves: types, and what is replaced. *)

LEMMA WriteStepTyped ==
    ASSUME TypeOK, UNCHANGED writeUnchanged,
           body' \in Body, changed' \in SUBSET Items,
           faults' \in 0..MaxTroubles /\ poisoned' \in BOOLEAN,
           at' \in 1..(Len(Order) + 2) /\ results' \in [Items -> Outcomes],
           left' \in Nat /\ added' \in Nat /\ allOk' \in BOOLEAN
    PROVE  TypeOK'
BY DEF TypeOK, writeUnchanged

LEMMA WriteStepConfirmed ==
    ASSUME IInv, pc = "writing", UNCHANGED writeUnchanged,
           \A i \in Simple : body'.val[i] = body.val[i]
                             \/ (asked.val[i].act = "write" /\ body'.val[i] = asked.val[i].to),
           body'.ftp = body.ftp \/ asked.ftp.act = "write"
    PROVE  PlanIsConfirmed' /\ FromIsHeld' /\ ReplacesConfirmed
<1>1. /\ pc' = pc /\ job' = job /\ asked' = asked /\ live' = live /\ edited' = edited
  BY DEF writeUnchanged
<1>2. Plan' = Plan
  BY <1>1 DEF Plan
<1>3. PlanIsConfirmed'
  BY <1>1, <1>2 DEF IInv, PlanIsConfirmed
<1>4. ~edited => \A i \in Simple : asked.val[i].act = "write" =>
                    body.val[i] \in {asked.val[i].from, asked.val[i].to}
  BY DEF IInv, FromIsHeld
<1>5. FromIsHeld'
  BY <1>1, <1>4 DEF FromIsHeld
<1>6. ReplacesConfirmed
  BY <1>4 DEF ReplacesConfirmed
<1> QED
  BY <1>3, <1>5, <1>6

\* A command for one simple item that leaves it as it was or with the value of the plan.
LEMMA LeavesValue ==
    ASSUME IInv, NEW i \in Simple, Turn(i),
           NEW b \in {body, WithValue(i, Plan.val[i].to)}, Leaves(i, b)
    PROVE  /\ body' \in Body /\ changed' \in SUBSET Items
           /\ \A j \in Simple : body'.val[j] = body.val[j]
                                \/ (asked.val[j].act = "write" /\ body'.val[j] = asked.val[j].to)
           /\ body'.ftp = body.ftp
<1>1. /\ Plan = asked /\ asked.val[i].act = "write" /\ Plan.val[i].to \in Values /\ i \in Items
  BY TurnFacts
<1>2. body \in Body /\ changed \in SUBSET Items /\ body.val \in [Simple -> Values]
  BY DEF IInv, TypeOK, Body
<1>3. /\ WithValue(i, Plan.val[i].to) \in Body
      /\ WithValue(i, Plan.val[i].to).val = [body.val EXCEPT ![i] = Plan.val[i].to]
      /\ WithValue(i, Plan.val[i].to).ftp = body.ftp
  BY <1>1, <1>2, WithValueTyped
<1>4. body' = b /\ changed' \in SUBSET Items
  BY <1>1, <1>2 DEF Leaves
<1>5. CASE b = body
  BY <1>2, <1>4, <1>5
<1>6. CASE b = WithValue(i, Plan.val[i].to)
  <2>1. body'.val = [body.val EXCEPT ![i] = asked.val[i].to]
    BY <1>1, <1>3, <1>4, <1>6
  <2>2. \A j \in Simple : body'.val[j] = IF j = i THEN asked.val[i].to ELSE body.val[j]
    BY <1>2, <2>1
  <2> QED
    BY <1>1, <1>3, <1>4, <1>6, <2>2
<1> QED
  BY <1>5, <1>6

\* A command for the list leaves every other item alone.
LEMMA LeavesList ==
    ASSUME IInv, Turn(Ftp), NEW b \in Body, b.val = body.val, Leaves(Ftp, b)
    PROVE  /\ body' \in Body /\ changed' \in SUBSET Items
           /\ \A j \in Simple : body'.val[j] = body.val[j]
                                \/ (asked.val[j].act = "write" /\ body'.val[j] = asked.val[j].to)
           /\ asked.ftp.act = "write"
<1>1. asked.ftp.act = "write" /\ Ftp \in Items
  BY TurnFacts
<1>2. changed \in SUBSET Items
  BY DEF IInv, TypeOK
<1> QED
  BY <1>1, <1>2 DEF Leaves

-----------------------------------------------------------------------------
(* The actions. *)

LEMMA WriteItemSteps ==
    ASSUME IInv, NEW i \in Simple,
           WriteRefused(i) \/ WriteDone(i) \/ WriteUnconfirmed(i) \/ WriteLost(i)
    PROVE  IInv' /\ ReplacesConfirmed
<1>1. /\ Turn(i) /\ pc = "writing" /\ ~AllPassed /\ UNCHANGED writeUnchanged
      /\ UNCHANGED <<left, added, allOk>>
  BY DEF WriteRefused, WriteDone, WriteUnconfirmed, WriteLost, Turn
<1>2. faults' \in 0..MaxTroubles /\ poisoned' \in BOOLEAN
  <2>1. Fault \/ NoFault
    BY DEF WriteRefused, WriteDone, WriteUnconfirmed, WriteLost, SureIf
  <2> QED
    BY <2>1, FaultTyped DEF IInv
<1>3. at' \in 1..(Len(Order) + 2) /\ results' \in [Items -> Outcomes]
  <2>1. \E o \in Outcomes : End(i, o)
    BY DEF WriteRefused, WriteDone, WriteUnconfirmed, WriteLost, Outcomes
  <2> QED
    BY <1>1, <2>1, EndTyped DEF IInv
<1>4. /\ body' \in Body /\ changed' \in SUBSET Items
      /\ \A j \in Simple : body'.val[j] = body.val[j]
                           \/ (asked.val[j].act = "write" /\ body'.val[j] = asked.val[j].to)
      /\ body'.ftp = body.ftp
  <2>1. CASE WriteRefused(i)
    BY <2>1 DEF WriteRefused, IInv, TypeOK
  <2>2. CASE ~WriteRefused(i)
    <3>1. \E b \in {body, WithValue(i, Plan.val[i].to)} : Leaves(i, b)
      BY <2>2 DEF WriteDone, WriteUnconfirmed, WriteLost
    <3> QED
      BY <1>1, <3>1, LeavesValue
  <2> QED
    BY <2>1, <2>2
<1>5. left' \in Nat /\ added' \in Nat /\ allOk' \in BOOLEAN
  BY <1>1 DEF IInv, TypeOK
<1>6. TypeOK'
  BY <1>1, <1>2, <1>3, <1>4, <1>5, WriteStepTyped DEF IInv
<1>7. PlanIsConfirmed' /\ FromIsHeld' /\ ReplacesConfirmed
  BY <1>1, <1>4, WriteStepConfirmed
<1> QED
  BY <1>6, <1>7 DEF IInv

\* The two list commands that change the body.
LEMMA DeletedTyped ==
    ASSUME IInv, Deleting, left <= Len(body.ftp)
    PROVE  /\ Turn(Ftp) /\ left \in Nat /\ left - 1 \in Nat
           /\ body \in Body /\ Deleted \in Body /\ Deleted.val = body.val
<1>1. body \in Body /\ left \in Nat /\ Turn(Ftp) /\ left > 0
  BY DEF IInv, TypeOK, Deleting
<1>2. Len(body.ftp) \in Nat
  BY <1>1, ListsAreSequences DEF Body
<1>3. left \in 1..Len(body.ftp)
  BY <1>1, <1>2
<1>4. Deleted \in Body
  BY <1>1, <1>3, ListStepsTyped DEF Deleted
<1> QED
  BY <1>1, <1>4 DEF Deleted, WithList

LEMMA AddedTyped ==
    ASSUME IInv, Adding, CanAdd
    PROVE  Turn(Ftp) /\ body \in Body /\ Added \in Body /\ Added.val = body.val
<1>1. body \in Body /\ Turn(Ftp) /\ added \in Nat /\ added < Len(Target) /\ Len(body.ftp) < Limit
  BY DEF IInv, TypeOK, Adding, CanAdd
<1>2. Target \in Seq(Profiles)
  BY <1>1, TurnFacts DEF Target, Plans
<1>3. Target[Len(Target) - added] \in Profiles
  <2>1. Len(Target) \in Nat
    BY <1>2, LenProperties
  <2>2. Len(Target) - added \in 1..Len(Target)
    BY <1>1, <2>1
  <2> QED
    BY <1>2, <2>2, ElementOfSeq
<1>4. Added \in Body
  BY <1>1, <1>3, ListStepsTyped DEF Added
<1> QED
  BY <1>1, <1>4 DEF Added, WithList

LEMMA WriteListSteps ==
    ASSUME IInv, WriteList
    PROVE  IInv' /\ ReplacesConfirmed
<1>1. /\ Turn(Ftp) /\ pc = "writing" /\ ~AllPassed /\ UNCHANGED writeUnchanged
      /\ Fault \/ NoFault
  BY DEF WriteList, DeleteRefused, DeleteDone, DeleteLost, AddRefused, AddDone, AddLost, ListDone,
         Deleting, Adding, Turn, SureIf
<1>2. faults' \in 0..MaxTroubles /\ poisoned' \in BOOLEAN
  BY <1>1, FaultTyped DEF IInv
<1>3. /\ left \in Nat /\ added \in Nat /\ allOk \in BOOLEAN /\ body \in Body /\ changed \in SUBSET Items
      /\ at \in 1..(Len(Order) + 2) /\ results \in [Items -> Outcomes]
  BY DEF IInv, TypeOK
<1>4. /\ body' \in Body /\ changed' \in SUBSET Items
      /\ \A j \in Simple : body'.val[j] = body.val[j]
                           \/ (asked.val[j].act = "write" /\ body'.val[j] = asked.val[j].to)
      /\ body'.ftp = body.ftp \/ asked.ftp.act = "write"
  <2>1. CASE DeleteRefused \/ AddRefused \/ ListDone
    BY <1>3, <2>1 DEF DeleteRefused, AddRefused, ListDone
  <2>2. CASE DeleteDone \/ DeleteLost
    <3>1. /\ Deleting /\ left <= Len(body.ftp)
          /\ \E b \in {body, Deleted} : Leaves(Ftp, b)
      BY <2>2 DEF DeleteDone, DeleteLost
    <3> QED
      BY <1>1, <3>1, DeletedTyped, LeavesList
  <2>3. CASE AddDone \/ AddLost
    <3>1. /\ Adding /\ CanAdd
          /\ \E b \in {body, Added} : Leaves(Ftp, b)
      BY <2>3 DEF AddDone, AddLost
    <3> QED
      BY <1>1, <3>1, AddedTyped, LeavesList
  <2> QED
    BY <2>1, <2>2, <2>3 DEF WriteList
<1>5. at' \in 1..(Len(Order) + 2) /\ results' \in [Items -> Outcomes]
  <2>1. ASSUME \E o \in Outcomes : End(Ftp, o) PROVE at' \in 1..(Len(Order) + 2) /\ results' \in [Items -> Outcomes]
    BY <1>1, <2>1, EndTyped DEF IInv
  <2>2. CASE DeleteRefused \/ DeleteLost \/ AddRefused \/ AddLost \/ ListDone
    BY <2>1, <2>2 DEF DeleteRefused, DeleteLost, AddRefused, AddLost, ListDone, Outcomes
  <2>3. CASE DeleteDone
    BY <1>3, <2>1, <2>3 DEF DeleteDone, Outcomes
  <2>4. CASE AddDone
    BY <1>3, <2>4 DEF AddDone
  <2> QED
    BY <2>2, <2>3, <2>4 DEF WriteList
<1>6. left' \in Nat /\ added' \in Nat /\ allOk' \in BOOLEAN
  <2>1. CASE DeleteRefused \/ DeleteLost \/ AddRefused \/ AddLost \/ ListDone
    BY <1>3, <2>1 DEF DeleteRefused, DeleteLost, AddRefused, AddLost, ListDone
  <2>2. CASE DeleteDone
    <3>1. left - 1 \in Nat
      BY <2>2, DeletedTyped DEF DeleteDone
    <3> QED
      BY <1>3, <2>2, <3>1 DEF DeleteDone
  <2>3. CASE AddDone
    <3>1. left' = left /\ added' = added + 1
      BY <2>3 DEF AddDone
    <3>2. allOk' = allOk \/ allOk' = FALSE
      BY <2>3 DEF AddDone
    <3>3. allOk' \in BOOLEAN
      BY <1>3, <3>2, Zenon
    <3> QED
      BY <1>3, <3>1, <3>3
  <2> QED
    BY <2>1, <2>2, <2>3 DEF WriteList
<1>7. TypeOK'
  BY <1>1, <1>2, <1>4, <1>5, <1>6, WriteStepTyped DEF IInv
<1>8. PlanIsConfirmed' /\ FromIsHeld' /\ ReplacesConfirmed
  BY <1>1, <1>4, WriteStepConfirmed
<1> QED
  BY <1>7, <1>8 DEF IInv

LEMMA PassStep ==
    ASSUME IInv, Pass
    PROVE  IInv' /\ ReplacesConfirmed
<1>1. pc = "writing" /\ ~AllPassed /\ UNCHANGED <<body, poisoned, left, added, allOk>>
  BY DEF Pass
<1>2. UNCHANGED writeUnchanged /\ UNCHANGED <<changed, faults>>
  BY DEF Pass, ghosts, writeUnchanged
<1>3. TypeOK
  BY DEF IInv
<1>4. at' \in 1..(Len(Order) + 2) /\ results' \in [Items -> Outcomes]
  <2>1. CASE End(Current, "not_attempted")
    BY <1>1, <1>3, <2>1, EndTyped DEF Outcomes
  <2>2. CASE at' = at + 1 /\ UNCHANGED results
    <3>1. Len(Order) \in Nat /\ at \in 1..(Len(Order) + 2) /\ ~(at > Len(Order) + 1)
      BY <1>1, <1>3, CurrentTyped DEF AllPassed
    <3>2. at' \in 1..(Len(Order) + 2)
      BY <2>2, <3>1
    <3> QED
      BY <1>3, <2>2, <3>2 DEF TypeOK
  <2> QED
    BY <2>1, <2>2 DEF Pass
<1>5. /\ body' \in Body /\ changed' \in SUBSET Items
      /\ faults' \in 0..MaxTroubles /\ poisoned' \in BOOLEAN
      /\ left' \in Nat /\ added' \in Nat /\ allOk' \in BOOLEAN
  BY <1>1, <1>2, <1>3 DEF TypeOK
<1>6. TypeOK'
  BY <1>2, <1>3, <1>4, <1>5, WriteStepTyped
<1>7. PlanIsConfirmed' /\ FromIsHeld' /\ ReplacesConfirmed
  BY <1>1, <1>2, WriteStepConfirmed
<1> QED
  BY <1>6, <1>7 DEF IInv

-----------------------------------------------------------------------------
(* The steps that change nothing in the camera, and those of a person. *)

LEMMA ReportTyped ==
    ASSUME NEW s \in Statuses, NEW n \in BOOLEAN, NEW u \in SUBSET Categories, NEW d \in SUBSET Items
    PROVE  Report(s, n, u, d) \in [status : Statuses, no_op : BOOLEAN, undo : SUBSET Categories,
                                   differing : SUBSET Items]
BY DEF Report

LEMMA AskStep ==
    ASSUME IInv, NEW src \in Reading, NEW only \in SUBSET Categories, NEW undo \in BOOLEAN,
           Ask(src, only, undo)
    PROVE  IInv' /\ ReplacesConfirmed
<1>1. TypeOK /\ MaxRuns \in Nat /\ MaxTroubles \in Nat
  BY BoundsAssumption DEF IInv
<1>2. PICK r \in Readings :
         /\ \/ r = Sound /\ faults' = faults /\ poisoned' = FALSE
            \/ r # Sound /\ faults + edits < MaxTroubles /\ faults' = faults + 1 /\ poisoned' \in BOOLEAN
         /\ asked' = PlanOf(src, r, only)
  BY DEF Ask
<1>3. asked' \in Plans
  BY <1>1, <1>2, ReadingsTyped, PlanTyped DEF TypeOK
<1>4. faults' \in 0..MaxTroubles
  BY <1>1, <1>2 DEF TypeOK
<1>5. poisoned' \in BOOLEAN
  BY <1>2, Zenon
<1>6. job' \in [source : Reading, only : SUBSET Categories, undo : BOOLEAN, want : Body]
  BY <1>1 DEF Ask, TypeOK
<1>7. runs' \in 0..MaxRuns
  BY <1>1 DEF Ask, TypeOK
<1>8. report' \in [status : Statuses, no_op : BOOLEAN, undo : SUBSET Categories, differing : SUBSET Items]
  BY ReportTyped DEF Ask, NoReport, Statuses
<1>9. results' \in [Items -> Outcomes] /\ changed' \in SUBSET Items
  BY DEF Ask, NoResults, Outcomes
<1>10. pc' = "asked" /\ UNCHANGED <<body, live, at, left, added, allOk, point, before, edited, edits>>
  BY DEF Ask
<1>11. TypeOK'
  BY <1>1, <1>3, <1>4, <1>5, <1>6, <1>7, <1>8, <1>9, <1>10 DEF TypeOK
<1>12. PlanIsConfirmed' /\ FromIsHeld' /\ ReplacesConfirmed
  BY <1>10 DEF PlanIsConfirmed, FromIsHeld, ReplacesConfirmed
<1> QED
  BY <1>11, <1>12 DEF IInv

\* The apply goes on only with the plan it was given, made from what it has just read.
LEMMA ApplyStep ==
    ASSUME IInv, Apply
    PROVE  IInv' /\ ReplacesConfirmed
<1>1. TypeOK
  BY DEF IInv
<1>2. /\ edited' = FALSE
      /\ UNCHANGED <<body, job, asked, at, left, added, allOk, results, point, before,
                     changed, runs, edits>>
  BY DEF Apply
<1>3. faults' \in 0..MaxTroubles /\ poisoned' \in BOOLEAN
  BY <1>1, FaultTyped DEF Apply, CannotRead, SureIf, Reads
<1> DEFINE Reported == report' \in [status : Statuses, no_op : BOOLEAN, undo : SUBSET Categories,
                                    differing : SUBSET Items]
<1>4. ASSUME NEW s \in {"refused", "verified", "failed"}, NEW n \in BOOLEAN, Ends(s, n)
      PROVE  Reported /\ pc' = "idle"
  BY <1>4, ReportTyped DEF Ends, Statuses
<1>5. CASE Ends("refused", FALSE) /\ UNCHANGED live
  <2>1. Reported /\ pc' = "idle" /\ live' = live
    BY <1>4, <1>5
  <2>2. TypeOK'
    BY <1>1, <1>2, <1>3, <2>1 DEF TypeOK
  <2> QED
    BY <1>2, <2>1, <2>2 DEF IInv, PlanIsConfirmed, FromIsHeld, ReplacesConfirmed
<1>6. ASSUME NEW r \in Readings, ApplyPlan(PlanOf(job.source, r, job.only), r)
      PROVE  IInv' /\ ReplacesConfirmed
  <2> DEFINE plan == PlanOf(job.source, r, job.only)
  <2>1. r \in Reading /\ \A i \in Simple : r.val[i] \in {body.val[i], Lacks, Unread}
    BY <1>1, ReadingsTyped DEF TypeOK
  <2>2. /\ plan \in Plans
        /\ \A i \in Simple : plan.val[i].act = "write" =>
              plan.val[i].from = r.val[i] /\ r.val[i] \notin {Lacks, Unread}
    BY <1>1, <2>1, PlanTyped DEF TypeOK
  <2>3. CASE pc' = "idle" /\ Reported /\ live' = live
    <3>1. TypeOK'
      BY <1>1, <1>2, <1>3, <2>3 DEF TypeOK
    <3> QED
      BY <1>2, <2>3, <3>1 DEF IInv, PlanIsConfirmed, FromIsHeld, ReplacesConfirmed
  <2>4. CASE plan = asked /\ pc' = "saving" /\ live' = r /\ report' = report
    <3>1. TypeOK'
      BY <1>1, <1>2, <1>3, <2>1, <2>4 DEF TypeOK
    <3>2. Plan' = plan
      BY <1>2, <2>4 DEF Plan
    <3>3. PlanIsConfirmed'
      BY <1>2, <2>4, <3>2 DEF PlanIsConfirmed
    <3>4. \A i \in Simple : asked.val[i].act = "write" => body.val[i] = asked.val[i].from
      BY <2>1, <2>2, <2>4
    <3>5. FromIsHeld'
      BY <1>2, <3>4 DEF FromIsHeld
    <3>6. ReplacesConfirmed
      BY <1>2 DEF ReplacesConfirmed
    <3> QED
      BY <3>1, <3>3, <3>5, <3>6 DEF IInv
  <2>5. \/ pc' = "idle" /\ Reported /\ live' = live
        \/ plan = asked /\ pc' = "saving" /\ live' = r /\ report' = report
    <3>1. \/ Ends("refused", FALSE) /\ live' = live
          \/ Ends(ZeroWriteStatus(plan), TRUE) /\ live' = live
          \/ plan = asked /\ pc' = "saving" /\ live' = r /\ report' = report
      BY <1>6 DEF ApplyPlan
    <3>2. ZeroWriteStatus(plan) \in {"verified", "failed"}
      BY DEF ZeroWriteStatus
    <3> QED
      BY <1>4, <3>1, <3>2
  <2> QED
    BY <2>3, <2>4, <2>5
<1> QED
  BY <1>5, <1>6 DEF Apply

LEMMA SaveSteps ==
    ASSUME IInv, SaveFails \/ SavePoint
    PROVE  IInv' /\ ReplacesConfirmed
<1>1. TypeOK /\ pc = "saving" /\ PlanIsConfirmed /\ FromIsHeld
  BY DEF IInv, SaveFails, SavePoint
<1>2. /\ UNCHANGED <<body, poisoned, job, asked, live, results>>
      /\ changed' = changed /\ edited' = edited /\ runs' = runs /\ faults' = faults /\ edits' = edits
  BY DEF SaveFails, SavePoint, ghosts
<1>3. CASE SaveFails
  <2>1. report' = Report("refused", FALSE, {}, {}) /\ pc' = "idle"
        /\ UNCHANGED <<at, left, added, allOk, point, before>>
    BY <1>3 DEF SaveFails, Ends
  <2>2. report' \in [status : Statuses, no_op : BOOLEAN, undo : SUBSET Categories, differing : SUBSET Items]
    BY <2>1, ReportTyped DEF Statuses
  <2>3. TypeOK'
    BY <1>1, <1>2, <2>1, <2>2 DEF TypeOK
  <2> QED
    BY <1>2, <2>1, <2>3 DEF IInv, PlanIsConfirmed, FromIsHeld, ReplacesConfirmed
<1>4. CASE SavePoint
  <2>1. /\ point' = live /\ before' = body /\ pc' = "writing" /\ at' = 1 /\ added' = 0 /\ allOk' = TRUE
        /\ report' = report
        /\ left' = IF live.ftp.state = "read" THEN Len(live.ftp.list) ELSE 0
    BY <1>4 DEF SavePoint
  <2>2. left' \in Nat
    <3>1. live.ftp.list \in Seq(Profiles)
      BY <1>1 DEF TypeOK, Reading, FtpReading
    <3> QED
      BY <2>1, <3>1, LenProperties
  <2>3. at' \in 1..(Len(Order) + 2)
    BY <1>1, <2>1, CurrentTyped
  <2>4. TypeOK'
    BY <1>1, <1>2, <2>1, <2>2, <2>3 DEF TypeOK
  <2>5. Plan' = Plan
    BY <1>2 DEF Plan
  <2> QED
    BY <1>1, <1>2, <2>1, <2>4, <2>5 DEF IInv, PlanIsConfirmed, FromIsHeld, ReplacesConfirmed
<1> QED
  BY <1>3, <1>4

LEMMA EndSteps ==
    ASSUME IInv, AfterRead \/ Dies
    PROVE  IInv' /\ ReplacesConfirmed
<1>1. TypeOK
  BY DEF IInv
<1>2. /\ pc' = "idle"
      /\ UNCHANGED <<body, job, asked, live, at, left, added, allOk, results, point, before,
                     changed, edited, runs, edits>>
  BY DEF AfterRead, Dies
<1>3. faults' \in 0..MaxTroubles /\ poisoned' \in BOOLEAN
  BY <1>1, FaultTyped DEF AfterRead, Dies, CannotRead, SureIf, Reads
<1>4. report' \in [status : Statuses, no_op : BOOLEAN, undo : SUBSET Categories, differing : SUBSET Items]
  <2>1. ASSUME NEW d \in SUBSET Items, NEW b \in BOOLEAN
        PROVE  Report(StatusOf(d, b), FALSE, UndoSet, d) \in
                   [status : Statuses, no_op : BOOLEAN, undo : SUBSET Categories, differing : SUBSET Items]
    <3>1. StatusOf(d, b) \in Statuses
      BY DEF StatusOf, Statuses
    <3>2. UndoSet \in SUBSET Categories
      BY DEF UndoSet, Category, Categories
    <3> QED
      BY <3>1, <3>2, ReportTyped
  <2>2. CASE Dies
    <3>1. job.only \in SUBSET Categories
      BY <1>1 DEF TypeOK
    <3> QED
      BY <2>2, <3>1, ReportTyped DEF Dies, Statuses
  <2>3. CASE AfterRead
    <3>1. ASSUME NEW a PROVE Differing(a) \in SUBSET Items /\ Uncheckable(a) \in BOOLEAN
      BY DEF Differing, Uncheckable, Written, Had
    <3>2. \/ ReportWith({}, TRUE)
          \/ \E a : ReportWith(Differing(a), Uncheckable(a))
      BY <2>3 DEF AfterRead
    <3> QED
      BY <2>1, <3>1, <3>2 DEF ReportWith
  <2> QED
    BY <2>2, <2>3
<1>5. TypeOK'
  BY <1>1, <1>2, <1>3, <1>4 DEF TypeOK
<1> QED
  BY <1>2, <1>5 DEF IInv, PlanIsConfirmed, FromIsHeld, ReplacesConfirmed

LEMMA EditStep ==
    ASSUME IInv, Edit
    PROVE  IInv' /\ ReplacesConfirmed
<1>1. TypeOK /\ body \in Body
  BY DEF IInv, TypeOK
<1>2. /\ edited' = TRUE /\ edits' = edits + 1 /\ edits < MaxEdits
      /\ UNCHANGED <<poisoned, pc, job, asked, live, at, left, added, allOk, results, point, before,
                     report, changed, runs, faults>>
  BY DEF Edit
<1>3. body' \in Body
  <2>1. DOMAIN body.ftp = 1..Len(body.ftp)
    BY <1>1, ListsAreSequences, LenProperties DEF Body
  <2>2. /\ \A i \in Simple, v \in Values : WithValue(i, v) \in Body
        /\ \A k \in DOMAIN body.ftp : WithList(Without(body.ftp, k)) \in Body
        /\ \A p \in Profiles : Len(body.ftp) < Limit => WithList(<<p>> \o body.ftp) \in Body
    BY <1>1, <2>1, WithValueTyped, ListStepsTyped
  <2> QED
    BY <2>2 DEF Edit
<1>4. edits' \in 0..MaxEdits /\ edits' # edits
  BY <1>1, <1>2, BoundsAssumption DEF TypeOK
<1>5. TypeOK'
  BY <1>1, <1>2, <1>3, <1>4 DEF TypeOK
<1>6. Plan' = Plan
  BY <1>2 DEF Plan
<1> QED
  BY <1>2, <1>4, <1>5, <1>6 DEF IInv, PlanIsConfirmed, FromIsHeld, ReplacesConfirmed

-----------------------------------------------------------------------------
(* The invariant. *)

LEMMA InitHolds == Init => IInv
<1> SUFFICES ASSUME Init PROVE IInv
  OBVIOUS
<1>1. body \in Body /\ before \in Body /\ NoPoint \in Reading
  BY NoPointTyped, BodyAssumption DEF Init
<1>2. asked \in Plans
  BY <1>1, PlanTyped DEF Init
<1>3. job \in [source : Reading, only : SUBSET Categories, undo : BOOLEAN, want : Body]
  BY <1>1 DEF Init
<1>4. report \in [status : Statuses, no_op : BOOLEAN, undo : SUBSET Categories, differing : SUBSET Items]
  BY ReportTyped DEF Init, NoReport, Statuses
<1>5. at \in 1..(Len(Order) + 2) /\ results \in [Items -> Outcomes]
  BY ItemsAssumption, LenProperties DEF Init, NoResults, Outcomes
<1>6. TypeOK
  <2>1. /\ runs \in 0..MaxRuns /\ faults \in 0..MaxTroubles /\ edits \in 0..MaxEdits
        /\ left \in Nat /\ added \in Nat /\ allOk \in BOOLEAN
    BY BoundsAssumption DEF Init
  <2>2. /\ poisoned \in BOOLEAN /\ edited \in BOOLEAN /\ changed \in SUBSET Items
        /\ pc \in {"idle", "asked", "saving", "writing"}
        /\ live \in Reading /\ point \in Reading
    BY <1>1 DEF Init
  <2> QED
    BY <1>1, <1>2, <1>3, <1>4, <1>5, <2>1, <2>2 DEF TypeOK
<1> QED
  BY <1>6 DEF Init, IInv, PlanIsConfirmed, FromIsHeld

LEMMA NextKeeps ==
    ASSUME IInv, [Next]_vars
    PROVE  IInv' /\ ReplacesConfirmed
<1>1. ASSUME NEW src \in Sources, NEW only \in Scopes, Ask(src, only, FALSE)
      PROVE  IInv' /\ ReplacesConfirmed
  BY <1>1, AskStep, BodyAssumption
<1>2. CASE PlanUndo
  <2>1. point \in Reading /\ report.undo \in SUBSET Categories
    BY DEF IInv, TypeOK
  <2> QED
    BY <1>2, <2>1, AskStep DEF PlanUndo
<1>3. CASE WriteItem
  BY <1>3, WriteItemSteps DEF WriteItem
<1>4. CASE UNCHANGED vars
  <2>1. TypeOK'
    BY <1>4 DEF IInv, TypeOK, vars
  <2>2. Plan' = Plan
    BY <1>4 DEF Plan, vars
  <2> QED
    BY <1>4, <2>1, <2>2 DEF IInv, PlanIsConfirmed, FromIsHeld, ReplacesConfirmed, vars
<1> QED
  BY <1>1, <1>2, <1>3, <1>4, ApplyStep, SaveSteps, PassStep, WriteListSteps, EndSteps, EditStep
     DEF Next, PlanRestore

\* The inductive invariant of the restore.
THEOREM Inductive == Spec => []IInv
<1>1. IInv /\ [Next]_vars => IInv'
  BY NextKeeps
<1> QED
  BY InitHolds, <1>1, PTL DEF Spec

\* Every state of the restore is well typed (apply_extended_restore, for any bodies and lists).
THEOREM TypesHold == Spec => []TypeOK
<1>1. IInv => TypeOK
  BY DEF IInv
<1> QED
  BY Inductive, <1>1, PTL

\* A restore replaces nothing but what was shown to the person who confirmed it, for any items,
\* any plan and any interference between the plan and the writes.
THEOREM ConfirmedIsAllThatIsReplaced == Spec => OnlyConfirmedIsReplaced
<1>1. IInv /\ [Next]_vars => [ReplacesConfirmed]_vars
  BY NextKeeps
<1> QED
  BY Inductive, <1>1, PTL DEF Spec, OnlyConfirmedIsReplaced
-----------------------------------------------------------------------------
(* What a run knows, and what it did: the invariant of the second half. *)

\* r is what was read of a body that holds b.
ReadOf(r, b) ==
    /\ \A i \in Simple :
          /\ r.val[i] \in Values => r.val[i] = b.val[i] /\ i \notin Absent
          /\ r.val[i] = Lacks => i \in Absent
    /\ r.ftp.state = "read" => r.ftp.list = b.ftp /\ r.ftp.whole /\ Ftp \notin Absent
    /\ r.ftp.state = "lacks" => Ftp \in Absent

\* What a line of a plan says of the snapshot and of the camera it was made for.
LineSays(i, line, src, only) ==
    /\ line.act = "not_selected" => Category(i) \notin only
    /\ line.act = "no_value" => src.val[i] \notin Values
    /\ line.act = "lacks" => i \in Absent
    /\ line.act \in {"write", "unchanged"} => src.val[i] \in Values
    /\ line.act = "write" => Category(i) \in only /\ i \notin Absent /\ line.to = src.val[i]

ListLineSays(line, src, only) ==
    /\ line.act = "not_selected" => "ftp" \notin only
    /\ line.act = "no_value" => src.ftp.state # "read"
    /\ line.act = "lacks" => Ftp \in Absent
    /\ line.act \in {"write", "unchanged"} => src.ftp.state = "read"
    /\ line.act = "write" => "ftp" \in only /\ Ftp \notin Absent /\ line.to = src.ftp.list

PlanSays(plan, src, only) ==
    /\ \A i \in Simple : LineSays(i, plan.val[i], src, only)
    /\ ListLineSays(plan.ftp, src, only)

Bookkeeping ==
    /\ pc \in {"asked", "saving"} => changed = {} /\ results = NoResults
    /\ pc # "idle" => report.status = "none"
    /\ pc = "idle" /\ changed # {} => report.status # "none"
    /\ edits = 0 => ~edited
    /\ pc = "writing" => point = live
    /\ \A i \in changed : ActionOf(asked, i) = "write"

\* The restore point is what was read of the body; what the run did not change is as it was.
HasWritten == pc = "writing" \/ (pc = "idle" /\ report.undo # {})

PointIsRead ==
    /\ pc = "saving" /\ ~edited => ReadOf(live, body)
    /\ HasWritten /\ ~edited =>
          /\ ReadOf(point, before)
          /\ \A i \in Simple \ changed : body.val[i] = before.val[i]
          /\ Ftp \notin changed => body.ftp = before.ftp
    /\ \A i \in changed \cap Simple : point.val[i] \in Values
    /\ Ftp \in changed => point.ftp.state = "read"

\* What the plan leaves alone because it is as the snapshot has it stays so.
UnchangedIsHeld ==
    pc \in {"saving", "writing"} /\ ~edited =>
        /\ \A i \in Simple : asked.val[i].act = "unchanged" => body.val[i] = job.source.val[i]
        /\ asked.ftp.act = "unchanged" => body.ftp = job.source.ftp.list

\* The items whose turn has not passed.
Ahead == {Order[k] : k \in at..Len(Order)} \cup (IF AllPassed THEN {} ELSE {Ftp})

\* An item has its outcome when its turn has passed, and none before; before, only the list that
\* is being rebuilt is changed.
Progress ==
    pc = "writing" =>
        /\ left <= Len(live.ftp.list)
        /\ \A i \in Ahead : results[i] = "none"
        /\ \A i \in changed \cap Ahead :
              Current = Ftp /\ ~Stopped /\ (left = 0 \/ left < Len(live.ftp.list))
        /\ \A i \in Items \ Ahead : ActionOf(asked, i) = "write" => results[i] # "none"
        /\ \A i \in changed \ Ahead : results[i] # "not_attempted"

\* Where the rebuild of the list is: deleting, adding, or over.
ListWay ==
    pc = "writing" /\ ~edited /\ asked.ftp.act = "write" =>
        /\ AllPassed => IsPrefixOf(body.ftp, point.ftp.list) \/ IsSuffixOf(body.ftp, job.source.ftp.list)
        /\ ~AllPassed /\ left > 0 =>
              added = 0 /\ left <= Len(point.ftp.list) /\ body.ftp = SubSeq(point.ftp.list, 1, left)
        /\ ~AllPassed /\ left = 0 => IsSuffixOf(body.ftp, job.source.ftp.list)

\* The restore point an undo puts back is what was read of the body it undoes the run for, and it
\* holds everything in which the body differs.
UndoWay ==
    job.undo /\ edits = 0 =>
        /\ ReadOf(job.source, job.want)
        /\ \A i \in Simple : body.val[i] # job.want.val[i] =>
              Category(i) \in job.only /\ job.source.val[i] \in Values /\ i \notin Absent
        /\ body.ftp # job.want.ftp =>
              "ftp" \in job.only /\ job.source.ftp.state = "read" /\ Ftp \notin Absent

Kept == Bookkeeping /\ PointIsRead /\ UnchangedIsHeld /\ UndoWay /\ PlanSays(asked, job.source, job.only)
Told == ChangesAreKept /\ ListsAreNotMixed /\ NothingChangedIsTrue /\ VerifiedMeansHeld
RunInv == Kept /\ Progress /\ ListWay /\ Told
-----------------------------------------------------------------------------
(* Lists in pieces. *)

\* The last profile of a head taken out leaves a shorter head.
LEMMA HeadShrinks ==
    ASSUME NEW S, NEW l \in Seq(S), NEW n \in 1..Len(l)
    PROVE  /\ SubSeq(l, 1, n) \in Seq(S) /\ Len(SubSeq(l, 1, n)) = n
           /\ Without(SubSeq(l, 1, n), n) = SubSeq(l, 1, n - 1)
<1> DEFINE h == SubSeq(l, 1, n)
<1>1. Len(l) \in Nat /\ \A j \in 1..Len(l) : l[j] \in S
  BY LenProperties, ElementOfSeq
<1>2. h \in Seq(S) /\ Len(h) = n /\ \A j \in 1..n : h[j] = l[j]
  BY <1>1, SubSeqProperties
<1>3. /\ SubSeq(l, 1, n - 1) \in Seq(S) /\ Len(SubSeq(l, 1, n - 1)) = n - 1
      /\ \A j \in 1..(n - 1) : SubSeq(l, 1, n - 1)[j] = l[j]
  BY <1>1, SubSeqProperties
<1>4. /\ SubSeq(h, 1, n - 1) \in Seq(S) /\ Len(SubSeq(h, 1, n - 1)) = n - 1
      /\ \A j \in 1..(n - 1) : SubSeq(h, 1, n - 1)[j] = h[j]
  <2>1. \A j \in 1..(n - 1) : h[j] \in S
    BY <1>1, <1>2
  <2> QED
    BY <1>1, <1>2, <2>1, SubSeqProperties
<1> HIDE DEF h
<1>5. SubSeq(h, 1, n - 1) = SubSeq(l, 1, n - 1)
  BY <1>2, <1>3, <1>4, SeqEqual
<1>6. SubSeq(h, n + 1, Len(h)) = <<>>
  BY <1>2, SubSeqEmpty
<1>7. Without(h, n) = SubSeq(h, 1, n - 1)
  BY <1>4, <1>6, ConcatEmptySeq DEF Without
<1> QED
  BY <1>2, <1>5, <1>7 DEF h

LEMMA HeadIsPrefix ==
    ASSUME NEW S, NEW l \in Seq(S), NEW n \in 0..Len(l)
    PROVE  IsPrefixOf(SubSeq(l, 1, n), l) /\ SubSeq(l, 1, 0) = <<>> /\ SubSeq(l, 1, Len(l)) = l
<1>1. Len(l) \in Nat /\ \A j \in 1..Len(l) : l[j] \in S
  BY LenProperties, ElementOfSeq
<1>2. Len(SubSeq(l, 1, n)) = n
  BY <1>1, SubSeqProperties
<1>3. SubSeq(l, 1, 0) = <<>> /\ SubSeq(l, 1, Len(l)) = l
  BY SubSeqEmpty, SubSeqFull
<1> QED
  BY <1>1, <1>2, <1>3 DEF IsPrefixOf

LEMMA NoneIsSuffix ==
    ASSUME NEW S, NEW l \in Seq(S)
    PROVE  IsSuffixOf(<<>>, l)
<1>1. Len(l) \in Nat /\ Len(<<>>) = 0
  BY LenProperties, EmptySeq
<1>2. SubSeq(l, Len(l) - 0 + 1, Len(l)) = <<>>
  BY <1>1, SubSeqEmpty
<1> QED
  BY <1>1, <1>2 DEF IsSuffixOf

\* The profile before a tail put in front of it makes a longer tail.
LEMMA SuffixGrows ==
    ASSUME NEW S, NEW l \in Seq(S), NEW t \in Seq(S), IsSuffixOf(t, l), Len(t) < Len(l)
    PROVE  IsSuffixOf(<<l[Len(l) - Len(t)]>> \o t, l)
<1> DEFINE m == Len(l) - Len(t)
<1>1. Len(l) \in Nat /\ Len(t) \in Nat /\ m \in 1..Len(l)
  BY LenProperties
<1>2. t = SubSeq(l, m + 1, Len(l))
  BY DEF IsSuffixOf
<1>3. l[m] \in S
  BY <1>1, ElementOfSeq
<1> DEFINE u == <<l[m]>> \o t
<1>4. u \in Seq(S) /\ Len(u) = 1 + Len(t)
  <2>1. <<l[m]>> \in Seq(S) /\ Len(<<l[m]>>) = 1
    BY <1>3
  <2> QED
    BY <2>1, ConcatProperties
<1>5. u = SubSeq(l, m, Len(l))
  <2>1. Len(l) \in m..Len(l)
    BY <1>1
  <2> QED
    BY <1>1, <1>2, <2>1, SubSeqRecursiveFirst
<1>6. Len(l) - Len(u) + 1 = m /\ Len(u) <= Len(l)
  BY <1>1, <1>4
<1> HIDE DEF u
<1>7. IsSuffixOf(u, l)
  BY <1>5, <1>6 DEF IsSuffixOf
<1> QED
  BY <1>7 DEF u

-----------------------------------------------------------------------------
(* What a plan says of the readings it is made from. *)

LEMMA ReadingsRead ==
    ASSUME body \in Body, NEW r \in Readings
    PROVE  ReadOf(r, body)
<1>1. Lacks \notin Values /\ Unread \notin Values /\ Lacks # Unread
  BY ItemsAssumption
<1>2. \A i \in Simple : body.val[i] \in Values
  BY DEF Body
<1>3. \A i \in Simple : Sound.val[i] = IF i \in Absent THEN Lacks ELSE body.val[i]
  BY DEF Sound
<1>4. /\ Sound.ftp.state = "read" => Sound.ftp.list = body.ftp /\ Sound.ftp.whole /\ Ftp \notin Absent
      /\ Sound.ftp.state = "lacks" => Ftp \in Absent
  BY DEF Sound
<1>5. CASE r = Sound
  BY <1>1, <1>2, <1>3, <1>4, <1>5 DEF ReadOf
<1>6. ASSUME NEW U, r = Misread(U) PROVE ReadOf(r, body)
  <2>1. \A i \in Simple : r.val[i] \in {Unread, Sound.val[i]}
    BY <1>6 DEF Misread
  <2>2. r.ftp = NoList \/ r.ftp = Sound.ftp
    BY <1>6 DEF Misread
  <2>3. NoList.state = "unread"
    BY DEF NoList
  <2> QED
    BY <1>1, <1>2, <1>3, <1>4, <2>1, <2>2, <2>3 DEF ReadOf
<1> QED
  BY <1>5, <1>6 DEF Readings

\* Where a plan finds nothing to do, the body it was read of is as the snapshot has it; what it
\* writes was read.
LEMMA PlanIsTrue ==
    ASSUME NEW src \in Reading, NEW r \in Reading, NEW b \in Body, ReadOf(r, b), NEW only,
           NEW plan, plan = PlanOf(src, r, only)
    PROVE  /\ PlanSays(plan, src, only)
           /\ \A i \in Simple :
                 /\ plan.val[i].act = "unchanged" => b.val[i] = src.val[i]
                 /\ plan.val[i].act = "write" => r.val[i] \in Values
           /\ plan.ftp.act = "unchanged" => b.ftp = src.ftp.list
           /\ plan.ftp.act = "write" => r.ftp.state = "read"
<1>1. ASSUME NEW i \in Simple
      PROVE  /\ LineSays(i, plan.val[i], src, only)
             /\ plan.val[i].act = "unchanged" => b.val[i] = src.val[i]
             /\ plan.val[i].act = "write" => r.val[i] \in Values
  <2>1. /\ src.val[i] \in Values \cup {Lacks, Unread} /\ r.val[i] \in Values \cup {Lacks, Unread}
        /\ r.val[i] \in Values => r.val[i] = b.val[i] /\ i \notin Absent
        /\ r.val[i] = Lacks => i \in Absent
        /\ Lacks \notin Values /\ Unread \notin Values
    BY ItemsAssumption DEF Reading, ReadOf
  <2>2. plan.val[i] = IF Category(i) \in only THEN PlanItem(i, src, r)
                      ELSE Line("not_selected", Unread, Unread)
    BY DEF PlanOf
  <2>3. CASE Category(i) \notin only
    BY <2>2, <2>3 DEF Line, LineSays
  <2>4. CASE Category(i) \in only
    <3> DEFINE act == Judge(i, src.val[i], r.val[i], r)
    <3>1. /\ act # "not_selected"
          /\ act = "no_value" => src.val[i] \notin Values
          /\ act = "lacks" => r.val[i] = Lacks
          /\ act = "unchanged" => r.val[i] = src.val[i] /\ src.val[i] \in Values
          /\ act = "write" => r.val[i] \in Values /\ src.val[i] \in Values
      BY <2>1 DEF Judge
    <3>2. plan.val[i] = IF act = "no_value" THEN Line(act, Unread, Unread)
                        ELSE Line(act, src.val[i], r.val[i])
      BY <2>2, <2>4, <3>1 DEF PlanItem, Unbound
    <3> HIDE DEF act
    <3>3. plan.val[i].act = act /\ (act = "write" => plan.val[i].to = src.val[i])
      BY <3>2 DEF Line
    <3> QED
      BY <2>1, <2>4, <3>1, <3>3 DEF LineSays
  <2> QED
    BY <2>3, <2>4
<1>2. /\ ListLineSays(plan.ftp, src, only)
      /\ plan.ftp.act = "unchanged" => b.ftp = src.ftp.list
      /\ plan.ftp.act = "write" => r.ftp.state = "read"
  <2>1. /\ src.ftp.state \in {"read", "lacks", "unread"} /\ r.ftp.state \in {"read", "lacks", "unread"}
        /\ r.ftp.state = "read" => r.ftp.list = b.ftp /\ Ftp \notin Absent
        /\ r.ftp.state = "lacks" => Ftp \in Absent
    BY DEF Reading, FtpReading, ReadOf
  <2>2. plan.ftp = IF "ftp" \in only THEN PlanList(src, r) ELSE Line("not_selected", <<>>, <<>>)
    BY DEF PlanOf
  <2>3. CASE "ftp" \notin only
    BY <2>2, <2>3 DEF Line, ListLineSays
  <2>4. CASE "ftp" \in only
    <3> DEFINE act == JudgeList(src.ftp, r.ftp)
    <3>1. /\ act # "not_selected"
          /\ act = "no_value" => src.ftp.state # "read"
          /\ act = "lacks" => r.ftp.state = "lacks"
          /\ act = "unchanged" => r.ftp.list = src.ftp.list /\ src.ftp.state = "read" /\ r.ftp.state = "read"
          /\ act = "write" => r.ftp.state = "read" /\ src.ftp.state = "read"
      BY <2>1 DEF JudgeList
    <3>2. plan.ftp = IF act = "no_value" THEN Line(act, <<>>, <<>>)
                     ELSE Line(act, src.ftp.list, r.ftp.list)
      BY <2>2, <2>4, <3>1 DEF PlanList, Unbound
    <3> HIDE DEF act
    <3>3. plan.ftp.act = act /\ (act = "write" => plan.ftp.to = src.ftp.list)
      BY <3>2 DEF Line
    <3> QED
      BY <2>1, <2>4, <3>1, <3>3 DEF ListLineSays
  <2> QED
    BY <2>3, <2>4
<1> QED
  BY <1>1, <1>2 DEF PlanSays

-----------------------------------------------------------------------------
(* The items whose turn is to come. *)

LEMMA AheadFacts ==
    ASSUME TypeOK
    PROVE  /\ Ahead \subseteq Items
           /\ AllPassed => Ahead = {}
           /\ ~AllPassed => Current \in Ahead /\ Ftp \in Ahead /\ (Current = Ftp => Ahead = {Ftp})
           /\ ~AllPassed /\ at' = at + 1 => Ahead' = Ahead \ {Current}
           /\ at' = at => Ahead' = Ahead
           /\ at' = 1 => Ahead' = Items /\ ~AllPassed'
<1> DEFINE n == Len(Order)
<1>1. /\ n \in Nat /\ at \in 1..(n + 2) /\ Ftp \notin Simple
      /\ {Order[k] : k \in 1..n} = Simple
      /\ \A j, k \in 1..n : Order[j] = Order[k] => j = k
  BY ItemsAssumption, CurrentTyped
<1>2. \A k \in 1..n : Order[k] \in Simple /\ Order[k] # Ftp
  BY <1>1
<1>3. /\ Ahead = {Order[k] : k \in at..n} \cup (IF at > n + 1 THEN {} ELSE {Ftp})
      /\ Ahead' = {Order[k] : k \in at'..n} \cup (IF at' > n + 1 THEN {} ELSE {Ftp})
      /\ Current = (IF at <= n THEN Order[at] ELSE Ftp) /\ (AllPassed <=> at > n + 1)
      /\ AllPassed' <=> at' > n + 1
  BY DEF Ahead, AllPassed, Current
<1> HIDE DEF n
<1>4. Ahead \subseteq Items
  BY <1>1, <1>2, <1>3 DEF Items
<1>5. AllPassed => Ahead = {}
  BY <1>1, <1>3
<1>6. ASSUME ~AllPassed PROVE Current \in Ahead /\ Ftp \in Ahead /\ (Current = Ftp => Ahead = {Ftp})
  BY <1>1, <1>2, <1>3, <1>6
<1>7. ASSUME ~AllPassed, at' = at + 1 PROVE Ahead' = Ahead \ {Current}
  <2>1. CASE at <= n
    <3>1. Current = Order[at] /\ at \in 1..n
      BY <1>1, <1>3, <2>1
    <3>2. {Order[k] : k \in (at + 1)..n} = {Order[k] : k \in at..n} \ {Order[at]}
      <4>1. \A k \in (at + 1)..n : k \in at..n /\ Order[k] # Order[at]
        BY <1>1, <3>1
      <4>2. \A k \in at..n : k = at \/ k \in (at + 1)..n
        BY <1>1
      <4> QED
        BY <4>1, <4>2
    <3>3. Ahead = {Order[k] : k \in at..n} \cup {Ftp} /\ Ahead' = {Order[k] : k \in (at + 1)..n} \cup {Ftp}
      BY <1>1, <1>3, <1>7, <2>1
    <3> QED
      BY <1>2, <3>1, <3>2, <3>3
  <2>2. CASE at = n + 1
    BY <1>1, <1>3, <1>7, <2>2
  <2> QED
    BY <1>1, <1>3, <1>7, <2>1, <2>2
<1>8. at' = 1 => Ahead' = Items /\ ~AllPassed'
  BY <1>1, <1>3 DEF Items
<1> QED
  BY <1>3, <1>4, <1>5, <1>6, <1>7, <1>8
-----------------------------------------------------------------------------
(* A step of the writing phase, in three parts: what it leaves in the camera, whose turn is next, *)
(* and where the list is.                                                                          *)

\* What the turn of an item shows.
LEMMA TurnIsBound ==
    ASSUME IInv, RunInv, NEW i, Turn(i)
    PROVE  /\ i \in Ahead /\ i = Current /\ ActionOf(asked, i) = "write"
           /\ results[i] = "none" /\ results[Ftp] = "none" /\ point = live
           /\ i \in Simple => /\ live.val[i] \in Values /\ asked.val[i].to = job.source.val[i]
                              /\ job.source.val[i] \in Values /\ Category(i) \in job.only /\ i \notin Absent
                              /\ asked.val[i].act = "write"
           /\ i = Ftp => /\ live.ftp.state = "read" /\ Target = job.source.ftp.list
                         /\ job.source.ftp.state = "read" /\ "ftp" \in job.only /\ Ftp \notin Absent
                         /\ asked.ftp.act = "write"
<1>1. /\ Plan = asked /\ ActionOf(asked, i) = "write" /\ ~AllPassed /\ pc = "writing" /\ i = Current
      /\ i \in Simple => asked.val[i].act = "write"
      /\ i = Ftp => asked.ftp.act = "write"
  BY TurnFacts DEF Turn
<1>2. i \in Ahead /\ Ftp \in Ahead
  BY <1>1, AheadFacts DEF IInv
<1>3. results[i] = "none" /\ results[Ftp] = "none" /\ point = live
  BY <1>1, <1>2 DEF RunInv, Progress, Kept, Bookkeeping
<1>4. job.source \in Reading /\ live \in Reading
  BY DEF IInv, TypeOK
<1>5. /\ Plan.val[i].act = "write" /\ i \in Simple => live.val[i] \in Values
      /\ Plan.ftp.act = "write" => live.ftp.state = "read"
  <2>1. i \in Simple /\ Plan.val[i].act = "write" => live.val[i] \in Values
    <3>1. \A j \in Simple : Plan.val[j].act = "write" => live.val[j] \notin {Lacks, Unread}
      BY <1>4, PlanTyped DEF Plan
    <3> QED
      BY <1>4, <3>1 DEF Reading
  <2>2. Plan.ftp.act = "write" => live.ftp.state = "read"
    <3>1. Plan.ftp = IF "ftp" \in job.only THEN PlanList(job.source, live) ELSE Line("not_selected", <<>>, <<>>)
      BY DEF Plan, PlanOf
    <3>2. JudgeList(job.source.ftp, live.ftp) = "write" => live.ftp.state = "read"
      <4>1. live.ftp.state \in {"read", "lacks", "unread"}
        BY <1>4 DEF Reading, FtpReading
      <4> QED
        BY <4>1 DEF JudgeList
    <3>3. PlanList(job.source, live).act = JudgeList(job.source.ftp, live.ftp)
      BY DEF PlanList, Line
    <3> QED
      BY <3>1, <3>2, <3>3 DEF Line
  <2> QED
    BY <2>1, <2>2
<1>6. /\ \A j \in Simple : LineSays(j, asked.val[j], job.source, job.only)
      /\ ListLineSays(asked.ftp, job.source, job.only)
  BY DEF RunInv, Kept, PlanSays
<1> QED
  BY <1>1, <1>2, <1>3, <1>5, <1>6 DEF LineSays, ListLineSays, Target

\* A command for the item whose turn it is leaves it as it was or as the plan says (the list: in
\* pieces), and nothing else is touched.
LEMMA CommandKeeps ==
    ASSUME IInv, RunInv, pc = "writing", UNCHANGED writeUnchanged, body' \in Body, NEW i,
           changed' = changed \cup (IF body' = body THEN {} ELSE {i}),
           body' # body => Turn(i),
           \A j \in Simple : body'.val[j] = body.val[j] \/ (j = i /\ body'.val[j] = asked.val[j].to),
           body'.ftp = body.ftp \/ i = Ftp
    PROVE  Kept'
<1>1. /\ pc' = pc /\ job' = job /\ asked' = asked /\ live' = live /\ point' = point /\ before' = before
      /\ report' = report /\ edited' = edited /\ edits' = edits
  BY DEF writeUnchanged
<1>2. Ftp \notin Simple
  BY ItemsAssumption
<1>3. body' # body =>
         /\ ActionOf(asked, i) = "write" /\ point = live
         /\ i \in Simple => /\ live.val[i] \in Values /\ asked.val[i].to = job.source.val[i]
                            /\ job.source.val[i] \in Values /\ Category(i) \in job.only /\ i \notin Absent
                            /\ asked.val[i].act = "write"
         /\ i = Ftp => /\ live.ftp.state = "read" /\ job.source.ftp.state = "read" /\ "ftp" \in job.only
                       /\ Ftp \notin Absent /\ asked.ftp.act = "write"
  BY TurnIsBound
<1>4. Kept
  BY DEF RunInv
<1>5. Bookkeeping'
  BY <1>1, <1>3, <1>4 DEF Kept, Bookkeeping, ActionOf
<1>6. PointIsRead'
  <2>1. HasWritten' <=> HasWritten
    BY <1>1 DEF HasWritten
  <2>2. ASSUME HasWritten, ~edited
        PROVE  /\ \A j \in Simple \ changed' : body'.val[j] = before.val[j]
               /\ Ftp \notin changed' => body'.ftp = before.ftp
    BY <1>4, <2>2 DEF Kept, PointIsRead
  <2>3. \A j \in changed' \cap Simple : point.val[j] \in Values
    BY <1>3, <1>4 DEF Kept, PointIsRead
  <2>4. Ftp \in changed' => point.ftp.state = "read"
    BY <1>3, <1>4 DEF Kept, PointIsRead
  <2>5. HasWritten /\ ~edited => ReadOf(point, before)
    BY <1>4 DEF Kept, PointIsRead
  <2> QED
    BY <1>1, <2>1, <2>2, <2>3, <2>4, <2>5 DEF PointIsRead, ReadOf
<1>7. UnchangedIsHeld'
  <2>1. ASSUME ~edited
        PROVE  /\ \A j \in Simple : asked.val[j].act = "unchanged" => body'.val[j] = job.source.val[j]
               /\ asked.ftp.act = "unchanged" => body'.ftp = job.source.ftp.list
    BY <1>3, <1>4, <2>1 DEF Kept, UnchangedIsHeld
  <2> QED
    BY <1>1, <2>1 DEF UnchangedIsHeld
<1>8. UndoWay'
  <2>1. ASSUME job.undo, edits = 0
        PROVE  /\ \A j \in Simple : body'.val[j] # job.want.val[j] =>
                     Category(j) \in job.only /\ job.source.val[j] \in Values /\ j \notin Absent
               /\ body'.ftp # job.want.ftp =>
                     "ftp" \in job.only /\ job.source.ftp.state = "read" /\ Ftp \notin Absent
    BY <1>3, <1>4, <2>1 DEF Kept, UndoWay
  <2>2. job.undo /\ edits = 0 => ReadOf(job.source, job.want)
    BY <1>4 DEF Kept, UndoWay
  <2> QED
    BY <1>1, <2>1, <2>2 DEF UndoWay, ReadOf, Category
<1>9. PlanSays(asked, job.source, job.only)'
  BY <1>1, <1>4 DEF Kept, PlanSays, LineSays, ListLineSays, Category
<1> QED
  BY <1>5, <1>6, <1>7, <1>8, <1>9 DEF Kept

\* The turn of an item passes, with an outcome if the plan writes it.
LEMMA TurnPasses ==
    ASSUME IInv, RunInv, pc = "writing", ~AllPassed, UNCHANGED writeUnchanged, at' = at + 1,
           NEW i, i = Current,
           \A j \in Items : j # i => results'[j] = results[j],
           left' = left,
           changed \subseteq changed' /\ changed' \subseteq changed \cup {i},
           ActionOf(asked, i) = "write" => results'[i] # "none",
           i \in changed' => results'[i] # "not_attempted" /\ (results'[i] = "failed" => i = Ftp /\ left = 0)
    PROVE  Progress' /\ NothingChangedIsTrue'
<1>1. pc' = pc /\ asked' = asked /\ live' = live
  BY DEF writeUnchanged
<1>2. /\ Ahead \subseteq Items /\ i \in Ahead /\ Ftp \in Ahead /\ (i = Ftp => Ahead = {Ftp})
      /\ Ahead' = Ahead \ {i}
  BY AheadFacts DEF IInv
<1>3. /\ left <= Len(live.ftp.list)
      /\ \A j \in Ahead : results[j] = "none"
      /\ \A j \in changed \cap Ahead : i = Ftp
      /\ \A j \in Items \ Ahead : ActionOf(asked, j) = "write" => results[j] # "none"
      /\ \A j \in changed \ Ahead : results[j] # "not_attempted"
  BY DEF RunInv, Progress
<1>4. changed \subseteq Items
  BY DEF IInv, TypeOK
<1>5. changed' \cap Ahead' = {}
  BY <1>2, <1>3
<1>6. \A j \in Items \ Ahead' : ActionOf(asked, j) = "write" => results'[j] # "none"
  BY <1>2, <1>3
<1>7. \A j \in changed' \ Ahead' : results'[j] # "not_attempted"
  BY <1>2, <1>3, <1>4
<1>8. \A j \in Ahead' : results'[j] = "none"
  BY <1>2, <1>3
<1>9. Progress'
  BY <1>1, <1>3, <1>5, <1>6, <1>7, <1>8 DEF Progress, ActionOf
<1>10. NothingChangedIsTrue'
  <2>1. ASSUME NEW j \in changed' PROVE results'[j] # "not_attempted" /\ (results'[j] = "failed" => j = Ftp /\ left' = 0)
    <3>1. CASE j = i
      BY <2>1, <3>1
    <3>2. CASE j # i
      BY <1>4, <2>1, <3>2 DEF RunInv, Told, NothingChangedIsTrue
    <3> QED
      BY <3>1, <3>2
  <2> QED
    BY <2>1 DEF NothingChangedIsTrue
<1> QED
  BY <1>9, <1>10

\* The rebuild of the list goes on.
LEMMA ListGoesOn ==
    ASSUME IInv, RunInv, Turn(Ftp), UNCHANGED writeUnchanged, UNCHANGED <<at, results>>,
           changed \subseteq changed' /\ changed' \subseteq changed \cup {Ftp},
           left' <= Len(live.ftp.list),
           left' = 0 \/ left' < Len(live.ftp.list)
    PROVE  Progress' /\ NothingChangedIsTrue'
<1>1. pc' = pc /\ asked' = asked /\ live' = live /\ pc = "writing" /\ ~AllPassed /\ Ftp = Current /\ ~Stopped
  BY DEF writeUnchanged, Turn
<1>2. Ahead = {Ftp} /\ Ahead' = Ahead
  BY <1>1, AheadFacts DEF IInv
<1>3. Current' = Current /\ Stopped' = Stopped
  BY DEF Current, Stopped
<1>4. /\ \A j \in Ahead : results[j] = "none"
      /\ \A j \in Items \ Ahead : ActionOf(asked, j) = "write" => results[j] # "none"
      /\ \A j \in changed \ Ahead : results[j] # "not_attempted"
  BY <1>1 DEF RunInv, Progress
<1>5. Progress'
  BY <1>1, <1>2, <1>3, <1>4 DEF Progress, ActionOf
<1>6. NothingChangedIsTrue'
  <2>1. ASSUME NEW j \in changed' PROVE results'[j] # "not_attempted" /\ (results'[j] = "failed" => j = Ftp /\ left' = 0)
    <3>1. CASE j = Ftp
      BY <1>2, <1>4, <3>1
    <3>2. CASE j # Ftp
      BY <2>1, <3>2 DEF RunInv, Told, NothingChangedIsTrue
    <3> QED
      BY <3>1, <3>2
  <2> QED
    BY <2>1 DEF NothingChangedIsTrue
<1> QED
  BY <1>5, <1>6

\* While the run writes, no result is out, and the list is a head of the old one or a tail of the new.
LEMMA WhileWriting ==
    ASSUME IInv', pc' = "writing", Kept', Progress', ListWay', NothingChangedIsTrue'
    PROVE  RunInv'
<1>1. ChangesAreKept'
  <2>1. /\ HasWritten' /\ report'.status = "none"
    BY DEF Kept, Bookkeeping, HasWritten
  <2>2. ~edited' => /\ \A i \in Simple : point'.val[i] \in Values => point'.val[i] = before'.val[i]
                    /\ point'.ftp.state = "read" => point'.ftp.list = before'.ftp /\ point'.ftp.whole
    BY <2>1 DEF Kept, PointIsRead, ReadOf
  <2> QED
    BY <2>1, <2>2 DEF Kept, PointIsRead, ChangesAreKept
<1>2. ListsAreNotMixed'
  <2> SUFFICES ASSUME Ftp \in changed', ~edited'
               PROVE  IsPrefixOf(body'.ftp, point'.ftp.list) \/ IsSuffixOf(body'.ftp, job'.source.ftp.list)
    BY DEF ListsAreNotMixed, IsPrefixOf, IsSuffixOf
  <2>1. asked'.ftp.act = "write"
    BY DEF Kept, Bookkeeping, ActionOf
  <2>2. left' \in Nat /\ point'.ftp.list \in Seq(Profiles)
    BY DEF IInv, TypeOK, Reading, FtpReading
  <2>3. CASE AllPassed' \/ left' = 0
    BY <2>1, <2>3 DEF ListWay, IsPrefixOf, IsSuffixOf
  <2>4. CASE ~AllPassed' /\ left' > 0
    <3>1. left' <= Len(point'.ftp.list) /\ body'.ftp = SubSeq(point'.ftp.list, 1, left')
      BY <2>1, <2>4 DEF ListWay
    <3>2. Len(point'.ftp.list) \in Nat
      BY <2>2, LenProperties
    <3>3. left' \in 0..Len(point'.ftp.list)
      BY <2>2, <3>1, <3>2
    <3> QED
      BY <2>2, <3>1, <3>3, HeadIsPrefix
  <2> QED
    BY <2>2, <2>3, <2>4
<1>3. VerifiedMeansHeld'
  BY DEF VerifiedMeansHeld
<1> QED
  BY <1>1, <1>2, <1>3 DEF RunInv, Told
\* The list when a turn passes.
LEMMA ListTurnPasses ==
    ASSUME IInv, RunInv, pc = "writing", ~AllPassed, UNCHANGED writeUnchanged, at' = at + 1,
           UNCHANGED <<left, added>>,
           \/ body'.ftp = body.ftp
           \/ /\ Current = Ftp
              /\ ~edited => \/ IsPrefixOf(body'.ftp, point.ftp.list)
                            \/ IsSuffixOf(body'.ftp, job.source.ftp.list)
    PROVE  ListWay'
<1>1. pc' = pc /\ asked' = asked /\ point' = point /\ job' = job /\ edited' = edited
  BY DEF writeUnchanged
<1>2. Len(Order) \in Nat /\ at \in 1..(Len(Order) + 2)
  BY CurrentTyped DEF IInv
<1>3. CASE at <= Len(Order)
  <2>1. ~AllPassed' /\ Current \in Simple
    <3>1. at \in 1..Len(Order) /\ Order \in Seq(Simple)
      BY <1>2, <1>3, ItemsAssumption
    <3>2. Order[at] \in Simple
      BY <3>1, ElementOfSeq
    <3> QED
      BY <1>2, <1>3, <3>2 DEF AllPassed, Current
  <2>2. body'.ftp = body.ftp
    BY <2>1, ItemsAssumption
  <2>3. ListWay
    BY DEF RunInv
  <2> QED
    BY <1>1, <2>1, <2>2, <2>3 DEF ListWay, IsSuffixOf
<1>4. CASE at = Len(Order) + 1
  <2>1. AllPassed'
    BY <1>2, <1>4 DEF AllPassed
  <2>2. ASSUME ~edited, asked.ftp.act = "write", body'.ftp = body.ftp
        PROVE  IsPrefixOf(body'.ftp, point.ftp.list) \/ IsSuffixOf(body'.ftp, job.source.ftp.list)
    <3>1. left \in Nat /\ point.ftp.list \in Seq(Profiles)
      BY DEF IInv, TypeOK, Reading, FtpReading
    <3>2. CASE left = 0
      BY <2>2, <3>2 DEF RunInv, ListWay
    <3>3. CASE left > 0
      <4>1. left <= Len(point.ftp.list) /\ body.ftp = SubSeq(point.ftp.list, 1, left)
        BY <2>2, <3>3 DEF RunInv, ListWay
      <4>2. Len(point.ftp.list) \in Nat
        BY <3>1, LenProperties
      <4>3. left \in 0..Len(point.ftp.list)
        BY <3>1, <4>1, <4>2
      <4> QED
        BY <2>2, <3>1, <4>1, <4>3, HeadIsPrefix
    <3> QED
      BY <3>1, <3>2, <3>3
  <2> QED
    BY <1>1, <2>1, <2>2 DEF ListWay, IsPrefixOf, IsSuffixOf
<1> QED
  BY <1>2, <1>3, <1>4 DEF AllPassed

-----------------------------------------------------------------------------
(* The writes. *)

LEMMA WriteItemKeeps ==
    ASSUME IInv, IInv', RunInv, NEW i \in Simple,
           WriteRefused(i) \/ WriteDone(i) \/ WriteUnconfirmed(i) \/ WriteLost(i)
    PROVE  RunInv'
<1>1. /\ Turn(i) /\ pc = "writing" /\ ~AllPassed /\ i = Current /\ UNCHANGED writeUnchanged
      /\ UNCHANGED <<left, added>>
  BY DEF WriteRefused, WriteDone, WriteUnconfirmed, WriteLost, Turn
<1>2. /\ \E o \in Outcomes \ {"none", "not_attempted"} : End(i, o) /\ (o = "failed" => WriteRefused(i))
  BY DEF WriteRefused, WriteDone, WriteUnconfirmed, WriteLost, Outcomes
<1>3. PICK o \in Outcomes \ {"none", "not_attempted"} : End(i, o) /\ (o = "failed" => body' = body /\ changed' = changed)
  BY <1>2 DEF WriteRefused
<1>4. /\ body' \in Body
      /\ \A j \in Simple : body'.val[j] = body.val[j] \/ (j = i /\ body'.val[j] = asked.val[j].to)
      /\ body'.ftp = body.ftp
      /\ changed' = changed \cup (IF body' = body THEN {} ELSE {i})
  <2>1. body' \in Body /\ body \in Body
    BY DEF IInv, TypeOK
  <2>2. CASE WriteRefused(i)
    BY <2>1, <2>2 DEF WriteRefused
  <2>3. CASE ~WriteRefused(i)
    <3>1. \E b \in {body, WithValue(i, Plan.val[i].to)} : Leaves(i, b)
      BY <2>3 DEF WriteDone, WriteUnconfirmed, WriteLost
    <3>2. Plan = asked
      BY <1>1, TurnFacts
    <3>3. /\ body' \in {body, WithValue(i, asked.val[i].to)}
          /\ changed' = changed \cup (IF body' # body THEN {i} ELSE {})
      BY <3>1, <3>2 DEF Leaves
    <3>4. \A j \in Simple : j # i => WithValue(i, asked.val[i].to).val[j] = body.val[j]
      BY <2>1 DEF WithValue, Body
    <3>5. WithValue(i, asked.val[i].to).val[i] = asked.val[i].to /\ WithValue(i, asked.val[i].to).ftp = body.ftp
      BY <2>1 DEF WithValue, Body
    <3> QED
      BY <2>1, <3>3, <3>4, <3>5
  <2> QED
    BY <2>2, <2>3
<1>5. Kept'
  BY <1>1, <1>4, CommandKeeps
<1>6. i \in Items /\ results \in [Items -> Outcomes] /\ i # Ftp
  BY ItemsAssumption DEF IInv, TypeOK, Items
<1>7. /\ at' = at + 1 /\ results'[i] = o /\ \A j \in Items : j # i => results'[j] = results[j]
  BY <1>3, <1>6 DEF End
<1>8. i \notin changed
  <2>1. i \in Ahead
    BY <1>1, TurnIsBound
  <2> QED
    BY <1>1, <1>6, <2>1 DEF RunInv, Progress
<1>9. Progress' /\ NothingChangedIsTrue'
  <2>1. i \in changed' => results'[i] # "not_attempted" /\ (results'[i] = "failed" => i = Ftp /\ left = 0)
    BY <1>3, <1>7, <1>8
  <2>2. changed \subseteq changed' /\ changed' \subseteq changed \cup {i}
    BY <1>4
  <2>3. results'[i] # "none"
    BY <1>7
  <2> QED
    BY <1>1, <1>7, <2>1, <2>2, <2>3, TurnPasses
<1>10. ListWay'
  BY <1>1, <1>4, <1>7, ListTurnPasses
<1>11. pc' = "writing"
  BY <1>1 DEF writeUnchanged
<1> QED
  BY <1>5, <1>9, <1>10, <1>11, WhileWriting

LEMMA PassKeeps ==
    ASSUME IInv, IInv', RunInv, Pass
    PROVE  RunInv'
<1>1. /\ pc = "writing" /\ ~AllPassed /\ UNCHANGED <<body, left, added, changed>> /\ UNCHANGED writeUnchanged
  BY DEF Pass, ghosts, writeUnchanged
<1>2. body \in Body /\ results \in [Items -> Outcomes] /\ changed \subseteq Items /\ Current \in Items
  BY CurrentTyped DEF IInv, TypeOK
<1>3. Kept'
  <2>1. \A j \in Simple : body'.val[j] = body.val[j]
    BY <1>1
  <2>2. changed' = changed \cup (IF body' = body THEN {} ELSE {Current})
    BY <1>1
  <2> QED
    BY <1>1, <1>2, <2>1, <2>2, CommandKeeps
<1>4. Plan = asked
  BY <1>1 DEF IInv, PlanIsConfirmed
<1>5. /\ at' = at + 1 /\ \A j \in Items : j # Current => results'[j] = results[j]
      /\ ActionOf(asked, Current) = "write" => results'[Current] = "not_attempted" /\ Stopped
      /\ ActionOf(asked, Current) # "write" => results' = results
  BY <1>2, <1>4 DEF Pass, End
<1>6. Current \notin changed
  <2>1. Current \in Ahead
    BY <1>1, AheadFacts DEF IInv
  <2>2. Current \in changed => ~Stopped /\ ActionOf(asked, Current) = "write"
    BY <1>1, <2>1 DEF RunInv, Progress, Kept, Bookkeeping
  <2> QED
    BY <1>5, <2>2
<1>7. Progress' /\ NothingChangedIsTrue'
  <2>1. Current \notin changed' /\ changed \subseteq changed' /\ changed' \subseteq changed \cup {Current}
    BY <1>1, <1>6
  <2>2. ActionOf(asked, Current) = "write" => results'[Current] # "none"
    BY <1>5
  <2>3. left' = left
    BY <1>1
  <2> QED
    BY <1>1, <1>5, <2>1, <2>2, <2>3, TurnPasses
<1>8. ListWay'
  BY <1>1, <1>5, ListTurnPasses
<1>9. pc' = "writing"
  BY <1>1 DEF writeUnchanged
<1> QED
  BY <1>3, <1>7, <1>8, <1>9, WhileWriting

\* Among the deletes the camera holds a head of the old list.
LEMMA DeletedIsHead ==
    ASSUME IInv, RunInv, Deleting, ~edited
    PROVE  /\ Len(body.ftp) = left /\ left \in 1..Len(point.ftp.list)
           /\ IsPrefixOf(body.ftp, point.ftp.list) /\ IsPrefixOf(Deleted.ftp, point.ftp.list)
           /\ Deleted.ftp = SubSeq(point.ftp.list, 1, left - 1) /\ Len(Deleted.ftp) = left - 1
           /\ added = 0
<1>1. /\ pc = "writing" /\ ~AllPassed /\ Turn(Ftp) /\ left > 0 /\ left \in Nat
      /\ point.ftp.list \in Seq(Profiles)
  BY DEF Deleting, Turn, IInv, TypeOK, Reading, FtpReading
<1>2. asked.ftp.act = "write"
  BY <1>1, TurnIsBound
<1>3. added = 0 /\ left <= Len(point.ftp.list) /\ body.ftp = SubSeq(point.ftp.list, 1, left)
  BY <1>1, <1>2 DEF RunInv, ListWay
<1>4. Len(point.ftp.list) \in Nat
  BY <1>1, LenProperties
<1>5. left \in 1..Len(point.ftp.list) /\ left \in 0..Len(point.ftp.list) /\ left - 1 \in 0..Len(point.ftp.list)
  BY <1>1, <1>3, <1>4
<1>6. Len(body.ftp) = left /\ Without(body.ftp, left) = SubSeq(point.ftp.list, 1, left - 1)
  BY <1>1, <1>3, <1>5, HeadShrinks
<1>7. IsPrefixOf(body.ftp, point.ftp.list) /\ IsPrefixOf(SubSeq(point.ftp.list, 1, left - 1), point.ftp.list)
  BY <1>1, <1>3, <1>5, HeadIsPrefix
<1>8. Deleted.ftp = SubSeq(point.ftp.list, 1, left - 1)
  BY <1>6 DEF Deleted, WithList
<1>9. Len(SubSeq(point.ftp.list, 1, left - 1)) = left - 1
  <2>1. \A k \in 1..(left - 1) : point.ftp.list[k] \in Profiles
    BY <1>1, <1>4, <1>5, ElementOfSeq
  <2> QED
    BY <1>1, <1>5, <2>1, SubSeqProperties
<1> QED
  BY <1>3, <1>5, <1>6, <1>7, <1>8, <1>9

\* Among the adds it holds a tail of the new one.
LEMMA AddedIsTail ==
    ASSUME IInv, RunInv, Adding, CanAdd, ~edited
    PROVE  IsSuffixOf(body.ftp, job.source.ftp.list) /\ IsSuffixOf(Added.ftp, job.source.ftp.list)
<1>1. /\ pc = "writing" /\ ~AllPassed /\ Turn(Ftp) /\ left = 0 /\ added < Len(Target) /\ Len(body.ftp) = added
      /\ job.source.ftp.list \in Seq(Profiles) /\ body.ftp \in Lists
  BY DEF Adding, CanAdd, Turn, IInv, TypeOK, Reading, FtpReading, Body
<1>2. asked.ftp.act = "write" /\ Target = job.source.ftp.list
  BY <1>1, TurnIsBound
<1>3. IsSuffixOf(body.ftp, job.source.ftp.list)
  BY <1>1, <1>2 DEF RunInv, ListWay
<1>4. body.ftp \in Seq(Profiles)
  BY <1>1, ListsAreSequences
<1>5. IsSuffixOf(<<Target[Len(Target) - added]>> \o body.ftp, Target)
  BY <1>1, <1>2, <1>3, <1>4, SuffixGrows
<1>6. Added.ftp = <<Target[Len(Target) - added]>> \o body.ftp
  BY DEF Added, WithList
<1> QED
  BY <1>2, <1>3, <1>5, <1>6

LEMMA WriteListKeeps ==
    ASSUME IInv, IInv', RunInv, WriteList
    PROVE  RunInv'
<1>1. /\ Turn(Ftp) /\ pc = "writing" /\ ~AllPassed /\ Current = Ftp /\ UNCHANGED writeUnchanged
  BY DEF WriteList, DeleteRefused, DeleteDone, DeleteLost, AddRefused, AddDone, AddLost, ListDone,
         Deleting, Adding, Turn
<1>2. /\ left \in Nat /\ added \in Nat /\ body \in Body /\ body' \in Body /\ Ftp \in Items /\ Ftp \notin Simple
      /\ results \in [Items -> Outcomes]
  BY ItemsAssumption DEF IInv, TypeOK, Items
<1>3. /\ Ahead = {Ftp} /\ asked.ftp.act = "write" /\ point = live
  BY <1>1, AheadFacts, TurnIsBound DEF IInv
<1>4. /\ left <= Len(live.ftp.list) /\ Len(live.ftp.list) \in Nat
      /\ Ftp \in changed => left = 0 \/ left < Len(live.ftp.list)
  <2>1. live.ftp.list \in Seq(Profiles)
    BY DEF IInv, TypeOK, Reading, FtpReading
  <2> QED
    BY <1>1, <1>3, <2>1, LenProperties DEF RunInv, Progress
<1>5. /\ body' \in {body, Deleted, Added} /\ changed' = changed \cup (IF body' = body THEN {} ELSE {Ftp})
      /\ body'.val = body.val
  <2>1. Deleted.val = body.val /\ Added.val = body.val
    BY DEF Deleted, Added, WithList
  <2>2. CASE DeleteRefused \/ AddRefused \/ ListDone
    BY <2>2 DEF DeleteRefused, AddRefused, ListDone
  <2>3. CASE DeleteDone \/ DeleteLost
    BY <2>1, <2>3 DEF DeleteDone, DeleteLost, Leaves
  <2>4. CASE AddDone \/ AddLost
    BY <2>1, <2>4 DEF AddDone, AddLost, Leaves
  <2> QED
    BY <2>2, <2>3, <2>4 DEF WriteList
<1>6. Kept'
  BY <1>1, <1>2, <1>5, CommandKeeps
<1>7. changed \subseteq changed' /\ changed' \subseteq changed \cup {Ftp}
  BY <1>5
<1>8. pc' = "writing" /\ point' = point /\ job' = job /\ asked' = asked /\ edited' = edited
  BY <1>1 DEF writeUnchanged
<1>9. ASSUME NEW o \in Outcomes \ {"none", "not_attempted"}, End(Ftp, o), UNCHANGED <<left, added>>,
             o = "failed" => body' = body /\ (Ftp \in changed => left = 0),
             \/ body'.ftp = body.ftp
             \/ ~edited => \/ IsPrefixOf(body'.ftp, point.ftp.list)
                           \/ IsSuffixOf(body'.ftp, job.source.ftp.list)
      PROVE  RunInv'
  <2>1. /\ at' = at + 1 /\ results'[Ftp] = o /\ \A j \in Items : j # Ftp => results'[j] = results[j]
    BY <1>2, <1>9 DEF End
  <2>2. Ftp \in changed' => results'[Ftp] # "not_attempted" /\ (results'[Ftp] = "failed" => left = 0)
    BY <1>5, <1>9, <2>1
  <2>3. results'[Ftp] # "none" /\ left' = left
    BY <1>9, <2>1
  <2>4. Progress' /\ NothingChangedIsTrue'
    BY <1>1, <1>7, <2>1, <2>2, <2>3, TurnPasses
  <2>5. ListWay'
    BY <1>1, <1>9, <2>1, ListTurnPasses
  <2> QED
    BY <1>6, <1>8, <2>4, <2>5, WhileWriting
<1>10. ASSUME UNCHANGED <<at, results>>, left' <= Len(live.ftp.list), left' = 0 \/ left' < Len(live.ftp.list),
              ListWay'
       PROVE  RunInv'
  <2>1. Progress' /\ NothingChangedIsTrue'
    BY <1>1, <1>7, <1>10, ListGoesOn
  <2> QED
    BY <1>6, <1>8, <1>10, <2>1, WhileWriting
<1>11. CASE DeleteRefused
  <2>1. /\ left > 0 /\ body' = body /\ UNCHANGED <<left, added>>
        /\ End(Ftp, IF left = Len(live.ftp.list) THEN "failed" ELSE "indeterminate")
    BY <1>11 DEF DeleteRefused, Deleting
  <2>2. left = Len(live.ftp.list) => Ftp \notin changed
    BY <1>2, <1>4, <2>1
  <2>3. CASE left = Len(live.ftp.list)
    BY <1>9, <2>1, <2>2, <2>3 DEF Outcomes
  <2>4. CASE left # Len(live.ftp.list)
    BY <1>9, <2>1, <2>4 DEF Outcomes
  <2> QED
    BY <2>3, <2>4
<1>12. CASE DeleteDone
  <2>1. /\ Deleting /\ left > 0 /\ body' \in {body, Deleted} /\ added' = added
        /\ \/ Len(body'.ftp) = left - 1 /\ left' = left - 1 /\ UNCHANGED <<results, at>>
           \/ End(Ftp, "indeterminate") /\ left' = left
    BY <1>12 DEF DeleteDone, Deleting, Leaves
  <2>2. CASE End(Ftp, "indeterminate") /\ left' = left
    <3>1. \/ body'.ftp = body.ftp
          \/ ~edited => IsPrefixOf(body'.ftp, point.ftp.list)
      BY <2>1, DeletedIsHead
    <3> QED
      BY <1>9, <2>1, <2>2, <3>1 DEF Outcomes
  <2>3. CASE Len(body'.ftp) = left - 1 /\ left' = left - 1 /\ UNCHANGED <<results, at>>
    <3>1. left' <= Len(live.ftp.list) /\ (left' = 0 \/ left' < Len(live.ftp.list))
      BY <1>2, <1>4, <2>1, <2>3
    <3>2. ASSUME ~edited
          PROVE  /\ left' > 0 => added' = 0 /\ left' <= Len(point.ftp.list)
                                 /\ body'.ftp = SubSeq(point.ftp.list, 1, left')
                 /\ left' = 0 => IsSuffixOf(body'.ftp, job.source.ftp.list)
      <4>1. /\ Len(body.ftp) = left /\ left \in 1..Len(point.ftp.list) /\ added = 0
            /\ Deleted.ftp = SubSeq(point.ftp.list, 1, left - 1)
        BY <2>1, <3>2, DeletedIsHead
      <4>2. body'.ftp = SubSeq(point.ftp.list, 1, left - 1)
        BY <1>2, <2>1, <2>3, <4>1
      <4>3. point.ftp.list \in Seq(Profiles) /\ job.source.ftp.list \in Seq(Profiles)
        BY DEF IInv, TypeOK, Reading, FtpReading
      <4>4. left' <= Len(point.ftp.list)
        BY <1>3, <3>1
      <4>5. left' = 0 => body'.ftp = <<>>
        BY <2>3, <4>2, <4>3, HeadIsPrefix, <1>3, <1>4
      <4> QED
        BY <2>1, <2>3, <4>1, <4>2, <4>3, <4>4, <4>5, NoneIsSuffix
    <3>3. AllPassed' = AllPassed
      BY <2>3 DEF AllPassed
    <3>4. ListWay'
      BY <1>1, <1>8, <3>2, <3>3 DEF ListWay, IsSuffixOf
    <3> QED
      BY <1>10, <2>3, <3>1, <3>4
  <2> QED
    BY <2>1, <2>2, <2>3
<1>13. CASE DeleteLost
  <2>1. /\ Deleting /\ body' \in {body, Deleted} /\ UNCHANGED <<left, added>> /\ End(Ftp, "indeterminate")
    BY <1>13 DEF DeleteLost, Leaves
  <2>2. \/ body'.ftp = body.ftp
        \/ ~edited => IsPrefixOf(body'.ftp, point.ftp.list)
    BY <2>1, DeletedIsHead
  <2> QED
    BY <1>9, <2>1, <2>2 DEF Outcomes
<1>14. CASE AddRefused
  <2>1. left = 0 /\ body' = body /\ UNCHANGED <<left, added>> /\ End(Ftp, "failed")
    BY <1>14 DEF AddRefused, Adding
  <2> QED
    BY <1>9, <2>1 DEF Outcomes
<1>15. CASE AddDone
  <2>1. /\ Adding /\ CanAdd /\ left = 0 /\ left' = left /\ UNCHANGED <<results, at>> /\ body' \in {body, Added}
    BY <1>15 DEF AddDone, Adding, Leaves
  <2>2. ~edited => IsSuffixOf(body'.ftp, job.source.ftp.list)
    BY <2>1, AddedIsTail
  <2>3. AllPassed' = AllPassed
    BY <2>1 DEF AllPassed
  <2>4. ListWay'
    <3>1. ~AllPassed' /\ left' = 0 /\ ~(left' > 0)
      BY <1>1, <2>1, <2>3
    <3> QED
      BY <1>8, <2>2, <3>1 DEF ListWay, IsSuffixOf
  <2> QED
    BY <1>4, <1>10, <2>1, <2>4
<1>16. CASE AddLost
  <2>1. Adding /\ CanAdd /\ UNCHANGED <<left, added>> /\ End(Ftp, "indeterminate") /\ body' \in {body, Added}
    BY <1>16 DEF AddLost, Leaves
  <2>2. ~edited => IsSuffixOf(body'.ftp, job.source.ftp.list)
    BY <2>1, AddedIsTail
  <2> QED
    BY <1>9, <2>1, <2>2 DEF Outcomes
<1>17. CASE ListDone
  <2>1. body' = body /\ UNCHANGED <<left, added>> /\ End(Ftp, IF allOk THEN "verified" ELSE "unverified")
    BY <1>17 DEF ListDone
  <2>2. CASE allOk
    BY <1>9, <2>1, <2>2 DEF Outcomes
  <2>3. CASE ~allOk
    BY <1>9, <2>1, <2>3 DEF Outcomes
  <2> QED
    BY <2>2, <2>3
<1> QED
  BY <1>11, <1>12, <1>13, <1>14, <1>15, <1>16, <1>17 DEF WriteList
-----------------------------------------------------------------------------
(* The steps around the writes. *)

LEMMA RunInvStarts == Init => RunInv
<1> SUFFICES ASSUME Init PROVE RunInv
  OBVIOUS
<1>1. /\ pc = "idle" /\ changed = {} /\ ~edited /\ report = NoReport /\ ~job.undo
      /\ asked = PlanOf(NoPoint, NoPoint, {}) /\ job.source = NoPoint /\ job.only = {}
  BY DEF Init
<1>2. report.undo = {} /\ report.status = "none"
  BY <1>1 DEF NoReport, Report
<1>3. PlanSays(asked, job.source, job.only)
  <2>1. \A i \in Simple : asked.val[i].act = "not_selected"
    BY <1>1 DEF PlanOf, Line
  <2>2. asked.ftp.act = "not_selected"
    BY <1>1 DEF PlanOf, Line
  <2> QED
    BY <1>1, <2>1, <2>2 DEF PlanSays, LineSays, ListLineSays
<1>4. Kept
  BY <1>1, <1>2, <1>3 DEF Kept, Bookkeeping, PointIsRead, HasWritten, UnchangedIsHeld, UndoWay
<1>5. Progress /\ ListWay
  BY <1>1 DEF Progress, ListWay
<1>6. Told
  BY <1>1, <1>2 DEF Told, ChangesAreKept, ListsAreNotMixed, NothingChangedIsTrue, VerifiedMeansHeld
<1> QED
  BY <1>4, <1>5, <1>6 DEF RunInv

\* An undo is planned from a restore point that was read of the body before the run it undoes, for
\* every category in which the body differs.
LEMMA AskKeeps ==
    ASSUME IInv, RunInv, NEW src \in Reading, NEW only, NEW undo \in BOOLEAN, Ask(src, only, undo),
           undo => src = point /\ only = report.undo /\ report.undo # {}
    PROVE  RunInv'
<1>1. /\ pc = "idle" /\ pc' = "asked" /\ report' = NoReport /\ results' = NoResults /\ changed' = {}
      /\ job' = [source |-> src, only |-> only, undo |-> undo, want |-> before]
      /\ UNCHANGED <<body, point, before, edited, edits>>
  BY DEF Ask
<1>2. PICK r \in Readings : asked' = PlanOf(src, r, only)
  BY DEF Ask
<1>3. body \in Body
  BY DEF IInv, TypeOK
<1>4. PlanSays(asked', src, only)
  BY <1>2, <1>3, ReadingsTyped, ReadingsRead, PlanIsTrue
<1>5. PlanSays(asked, job.source, job.only)'
  BY <1>1, <1>4 DEF PlanSays, LineSays, ListLineSays, Category
<1>6. UndoWay'
  <2>1. ASSUME undo, edits = 0
        PROVE  /\ ReadOf(src, before)
               /\ \A i \in Simple : body.val[i] # before.val[i] =>
                     Category(i) \in only /\ src.val[i] \in Values /\ i \notin Absent
               /\ body.ftp # before.ftp => "ftp" \in only /\ src.ftp.state = "read" /\ Ftp \notin Absent
    <3>1. /\ ReadOf(point, before)
          /\ \A i \in Simple \ changed : body.val[i] = before.val[i]
          /\ Ftp \notin changed => body.ftp = before.ftp
      BY <1>1, <2>1 DEF RunInv, Kept, Bookkeeping, PointIsRead, HasWritten
    <3>2. /\ \A i \in changed \cap Simple : point.val[i] \in Values
          /\ Ftp \in changed => point.ftp.state = "read"
      BY DEF RunInv, Kept, PointIsRead
    <3>3. \A i \in changed : Category(i) \in only
      BY <1>1, <2>1 DEF RunInv, Kept, Bookkeeping, Told, ChangesAreKept
    <3>4. Category(Ftp) = "ftp"
      BY ItemsAssumption DEF Category, Simple
    <3> QED
      BY <2>1, <3>1, <3>2, <3>3, <3>4 DEF ReadOf
  <2> QED
    BY <1>1, <2>1 DEF UndoWay, ReadOf, Category
<1>7. Bookkeeping' /\ PointIsRead' /\ UnchangedIsHeld'
  <2>1. report'.status = "none"
    BY <1>1 DEF NoReport, Report
  <2>2. NoResults' = NoResults
    BY DEF NoResults
  <2>3. edits = 0 => ~edited
    BY DEF RunInv, Kept, Bookkeeping
  <2> QED
    BY <1>1, <2>1, <2>2, <2>3 DEF Bookkeeping, PointIsRead, HasWritten, UnchangedIsHeld
<1>8. Progress' /\ ListWay' /\ Told'
  BY <1>1 DEF Progress, ListWay, Told, ChangesAreKept, ListsAreNotMixed, NothingChangedIsTrue, VerifiedMeansHeld
<1> QED
  BY <1>5, <1>6, <1>7, <1>8 DEF RunInv, Kept

\* A run that is over before it wrote.
LEMMA RunStops ==
    ASSUME RunInv, pc \in {"asked", "saving"}, pc' = "idle",
           UNCHANGED <<body, job, asked, results, point, before, changed, edits>>,
           edited' => edited, report'.undo = {}, VerifiedMeansHeld'
    PROVE  RunInv'
<1>1. changed = {} /\ changed' = {} /\ (edits = 0 => ~edited)
  BY DEF RunInv, Kept, Bookkeeping
<1>2. Bookkeeping' /\ PointIsRead' /\ UnchangedIsHeld'
  BY <1>1 DEF Bookkeeping, PointIsRead, HasWritten, UnchangedIsHeld
<1>3. UndoWay'
  BY DEF RunInv, Kept, UndoWay, ReadOf, Category
<1>4. PlanSays(asked, job.source, job.only)'
  BY DEF RunInv, Kept, PlanSays, LineSays, ListLineSays, Category
<1>5. Progress' /\ ListWay' /\ ChangesAreKept' /\ ListsAreNotMixed' /\ NothingChangedIsTrue'
  BY <1>1 DEF Progress, ListWay, ChangesAreKept, ListsAreNotMixed, NothingChangedIsTrue
<1> QED
  BY <1>2, <1>3, <1>4, <1>5 DEF RunInv, Kept, Told

\* A plan that has nothing to do, of what the body holds now.
LEMMA NothingToDo ==
    ASSUME TypeOK, NEW r \in Readings, asked = PlanOf(job.source, r, job.only),
           ZeroWriteStatus(asked) = "verified", With(asked, {"write"}) = {}
    PROVE  \A i \in With(asked, {"write", "unchanged"} \cup Blocked) : Held(i)
<1>1. body \in Body /\ job.source \in Reading
  BY DEF TypeOK
<1>2. /\ \A i \in Simple : asked.val[i].act = "unchanged" => body.val[i] = job.source.val[i]
      /\ asked.ftp.act = "unchanged" => body.ftp = job.source.ftp.list
  <2>1. r \in Reading /\ ReadOf(r, body)
    BY <1>1, ReadingsTyped, ReadingsRead
  <2> QED
    BY <1>1, <2>1, PlanIsTrue
<1>3. With(asked, Blocked) = {}
  BY DEF ZeroWriteStatus
<1>4. \A i \in With(asked, {"write", "unchanged"} \cup Blocked) : ActionOf(asked, i) = "unchanged" /\ i \in Items
  BY <1>3 DEF With
<1> QED
  BY <1>2, <1>4 DEF Held, ActionOf, Items

LEMMA ApplyKeeps ==
    ASSUME IInv, RunInv, Apply
    PROVE  RunInv'
<1>1. /\ pc = "asked" /\ edited' = FALSE
      /\ UNCHANGED <<body, job, asked, at, left, added, allOk, results, point, before,
                     changed, runs, edits>>
  BY DEF Apply
<1>2. TypeOK
  BY DEF IInv
<1>3. ASSUME NEW s, NEW n, Ends(s, n), s = "verified" => n /\ \A i \in With(asked, {"write", "unchanged"} \cup Blocked) : Held(i)
      PROVE  RunInv'
  <2>1. /\ pc' = "idle" /\ report'.undo = {} /\ report'.status = s /\ report'.no_op = n
    BY <1>3 DEF Ends, Report
  <2>2. VerifiedMeansHeld'
    <3>1. With(asked, {"write", "unchanged"} \cup Blocked)' = With(asked, {"write", "unchanged"} \cup Blocked)
      BY <1>1 DEF With, ActionOf
    <3>2. \A i : Held(i)' = Held(i)
      BY <1>1 DEF Held
    <3>3. s = "verified" => \A i \in With(asked, {"write", "unchanged"} \cup Blocked)' : Held(i)'
      BY <1>3, <3>1, <3>2
    <3> QED
      BY <1>3, <2>1, <3>3 DEF VerifiedMeansHeld, With, Held
  <2> QED
    BY <1>1, <2>1, <2>2, RunStops
<1>4. CASE Ends("refused", FALSE)
  BY <1>3, <1>4
<1>5. ASSUME NEW r \in Readings, ApplyPlan(PlanOf(job.source, r, job.only), r)
      PROVE  RunInv'
  <2> DEFINE plan == PlanOf(job.source, r, job.only)
  <2>1. CASE Ends("refused", FALSE)
    BY <1>4, <2>1
  <2>2. CASE plan = asked /\ With(plan, {"write"}) = {} /\ Ends(ZeroWriteStatus(plan), TRUE)
    <3>1. ZeroWriteStatus(plan) = "verified" => \A i \in With(asked, {"write", "unchanged"} \cup Blocked) : Held(i)
      BY <1>2, <2>2, NothingToDo
    <3> QED
      BY <1>3, <2>2, <3>1
  <2>3. CASE plan = asked /\ pc' = "saving" /\ live' = r /\ report' = report
    <3>1. body \in Body /\ job.source \in Reading /\ ReadOf(r, body)
      BY <1>2, ReadingsRead DEF TypeOK
    <3>2. /\ \A i \in Simple : asked.val[i].act = "unchanged" => body.val[i] = job.source.val[i]
          /\ asked.ftp.act = "unchanged" => body.ftp = job.source.ftp.list
      <4>1. r \in Reading
        BY <3>1, ReadingsTyped
      <4> QED
        BY <2>3, <3>1, <4>1, PlanIsTrue
    <3>3. /\ changed = {} /\ results = NoResults /\ report.status = "none"
      BY <1>1 DEF RunInv, Kept, Bookkeeping
    <3>4. Bookkeeping'
      BY <1>1, <2>3, <3>3 DEF Bookkeeping, NoResults
    <3>5. PointIsRead' /\ UnchangedIsHeld'
      BY <1>1, <2>3, <3>1, <3>2, <3>3 DEF PointIsRead, UnchangedIsHeld, HasWritten, ReadOf
    <3>6. UndoWay'
      BY <1>1 DEF RunInv, Kept, UndoWay, ReadOf, Category
    <3>7. PlanSays(asked, job.source, job.only)'
      BY <1>1 DEF RunInv, Kept, PlanSays, LineSays, ListLineSays, Category
    <3>8. Progress' /\ ListWay' /\ Told'
      BY <1>1, <2>3, <3>3 DEF Progress, ListWay, Told, ChangesAreKept, ListsAreNotMixed, NothingChangedIsTrue, VerifiedMeansHeld
    <3> QED
      BY <3>4, <3>5, <3>6, <3>7, <3>8 DEF RunInv, Kept
  <2> QED
    BY <1>5, <2>1, <2>2, <2>3 DEF ApplyPlan
<1> QED
  BY <1>4, <1>5 DEF Apply

LEMMA SaveKeeps ==
    ASSUME IInv, IInv', RunInv, SaveFails \/ SavePoint
    PROVE  RunInv'
<1>1. /\ pc = "saving" /\ UNCHANGED <<body, job, asked, live, results, changed, edited, edits>>
  BY DEF SaveFails, SavePoint, ghosts
<1>2. CASE SaveFails
  <2>1. pc' = "idle" /\ report'.undo = {} /\ report'.status = "refused" /\ UNCHANGED <<point, before>>
    BY <1>2 DEF SaveFails, Ends, Report
  <2>2. VerifiedMeansHeld'
    BY <2>1 DEF VerifiedMeansHeld
  <2> QED
    BY <1>1, <2>1, <2>2, RunStops
<1>3. CASE SavePoint
  <2>1. /\ point' = live /\ before' = body /\ pc' = "writing" /\ at' = 1 /\ added' = 0 /\ report' = report
        /\ left' = IF live.ftp.state = "read" THEN Len(live.ftp.list) ELSE 0
    BY <1>3 DEF SavePoint
  <2>2. /\ changed = {} /\ results = NoResults /\ report.status = "none" /\ (edits = 0 => ~edited)
    BY <1>1 DEF RunInv, Kept, Bookkeeping
  <2>3. ~edited => ReadOf(live, body)
    BY <1>1 DEF RunInv, Kept, PointIsRead
  <2>4. Bookkeeping'
    BY <1>1, <2>1, <2>2 DEF Bookkeeping
  <2>5. PointIsRead'
    BY <1>1, <2>1, <2>2, <2>3 DEF PointIsRead, HasWritten, ReadOf
  <2>6. UnchangedIsHeld'
    BY <1>1, <2>1 DEF RunInv, Kept, UnchangedIsHeld
  <2>7. UndoWay'
    BY <1>1 DEF RunInv, Kept, UndoWay, ReadOf, Category
  <2>8. PlanSays(asked, job.source, job.only)'
    BY <1>1 DEF RunInv, Kept, PlanSays, LineSays, ListLineSays, Category
  <2>9. Ahead' = Items /\ ~AllPassed'
    BY <2>1, AheadFacts DEF IInv
  <2>10. live.ftp.list \in Seq(Profiles) /\ Len(live.ftp.list) \in Nat /\ job.source.ftp.list \in Seq(Profiles)
    BY LenProperties DEF IInv, TypeOK, Reading, FtpReading
  <2>11. Progress'
    BY <1>1, <2>1, <2>2, <2>9, <2>10 DEF Progress, NoResults
  <2>12. ListWay'
    <3> SUFFICES ASSUME ~edited, asked.ftp.act = "write"
                 PROVE  /\ left' > 0 => left' <= Len(live.ftp.list) /\ body.ftp = SubSeq(live.ftp.list, 1, left')
                        /\ left' = 0 => IsSuffixOf(body.ftp, job.source.ftp.list)
      BY <1>1, <2>1, <2>9 DEF ListWay, IsSuffixOf
    <3>1. live.ftp.state = "read"
      <4>1. Plan = asked
        BY <1>1 DEF IInv, PlanIsConfirmed
      <4>2. Plan.ftp = IF "ftp" \in job.only THEN PlanList(job.source, live) ELSE Line("not_selected", <<>>, <<>>)
        BY DEF Plan, PlanOf
      <4>3. JudgeList(job.source.ftp, live.ftp) = "write" => live.ftp.state = "read"
        <5>1. live.ftp.state \in {"read", "lacks", "unread"}
          BY DEF IInv, TypeOK, Reading, FtpReading
        <5> QED
          BY <5>1 DEF JudgeList
      <4>4. PlanList(job.source, live).act = JudgeList(job.source.ftp, live.ftp)
        BY DEF PlanList, Line
      <4> QED
        BY <4>1, <4>2, <4>3, <4>4 DEF Line
    <3>2. left' = Len(live.ftp.list) /\ body.ftp = live.ftp.list
      BY <2>1, <2>3, <3>1 DEF ReadOf
    <3>3. body.ftp = SubSeq(live.ftp.list, 1, Len(live.ftp.list))
      BY <2>10, <3>2, SubSeqFull
    <3>4. left' = 0 => body.ftp = <<>>
      BY <2>10, <3>2, EmptySeq
    <3>5. left' = 0 => IsSuffixOf(body.ftp, job.source.ftp.list)
      BY <2>10, <3>4, NoneIsSuffix
    <3> QED
      BY <2>10, <3>2, <3>3, <3>5
  <2>13. NothingChangedIsTrue'
    BY <1>1, <2>2 DEF NothingChangedIsTrue
  <2>14. Kept'
    BY <2>4, <2>5, <2>6, <2>7, <2>8 DEF Kept
  <2> QED
    BY <2>1, <2>11, <2>12, <2>13, <2>14, WhileWriting
<1> QED
  BY <1>2, <1>3

\* A run that ends after it wrote.
LEMMA RunEnds ==
    ASSUME RunInv, pc = "writing", pc' = "idle",
           UNCHANGED <<body, job, asked, left, results, point, before, changed, edited, edits>>,
           report'.status # "none", \A i \in changed : Category(i) \in report'.undo, VerifiedMeansHeld'
    PROVE  RunInv'
<1>1. Bookkeeping'
  BY DEF RunInv, Kept, Bookkeeping, ActionOf
<1>2. PointIsRead' /\ UnchangedIsHeld'
  BY DEF RunInv, Kept, PointIsRead, HasWritten, UnchangedIsHeld, ReadOf
<1>3. UndoWay'
  BY DEF RunInv, Kept, UndoWay, ReadOf, Category
<1>4. PlanSays(asked, job.source, job.only)'
  BY DEF RunInv, Kept, PlanSays, LineSays, ListLineSays, Category
<1>5. Progress' /\ ListWay'
  BY DEF Progress, ListWay
<1>6. ChangesAreKept'
  BY DEF RunInv, Told, ChangesAreKept, Category
<1>7. ListsAreNotMixed' /\ NothingChangedIsTrue'
  BY DEF RunInv, Told, ListsAreNotMixed, NothingChangedIsTrue, IsPrefixOf, IsSuffixOf
<1> QED
  BY <1>1, <1>2, <1>3, <1>4, <1>5, <1>6, <1>7 DEF RunInv, Kept, Told

\* A status of verified: every write was read back, and the read afterwards finds nothing to do.
LEMMA AllVerified ==
    ASSUME IInv, RunInv, pc = "writing", AllPassed, ~edited, NEW r \in Readings,
           NEW after, after = PlanOf(job.source, r, job.only),
           StatusOf(Differing(after), Uncheckable(after)) = "verified"
    PROVE  \A i \in With(asked, {"write", "unchanged"}) : Held(i)
<1>1. /\ \A i \in Items : results[i] \notin {"indeterminate", "failed", "not_attempted", "unverified"}
      /\ Differing(after) = {} /\ ~Uncheckable(after)
  <2>1. /\ Had({"indeterminate"}) = {} /\ Had({"failed", "not_attempted"}) = {} /\ Had({"unverified"}) = {}
        /\ Differing(after) = {} /\ ~Uncheckable(after)
    BY DEF StatusOf
  <2> QED
    BY <2>1 DEF Had
<1>2. \A i \in Items : ActionOf(asked, i) = "write" => results[i] = "verified"
  <2>1. Ahead = {} /\ results \in [Items -> Outcomes]
    BY AheadFacts DEF IInv, TypeOK
  <2>2. \A i \in Items : ActionOf(asked, i) = "write" => results[i] # "none"
    BY <2>1 DEF RunInv, Progress
  <2> QED
    BY <1>1, <2>1, <2>2 DEF Outcomes
<1>3. \A i \in Items : ActionOf(asked, i) = "write" => ActionOf(after, i) = "unchanged"
  BY <1>1, <1>2 DEF Differing, Uncheckable, Written, Had
<1>4. body \in Body /\ job.source \in Reading
  BY DEF IInv, TypeOK
<1>5. /\ \A i \in Simple : after.val[i].act = "unchanged" => body.val[i] = job.source.val[i]
      /\ after.ftp.act = "unchanged" => body.ftp = job.source.ftp.list
  BY <1>4, ReadingsTyped, ReadingsRead, PlanIsTrue
<1>6. /\ \A i \in Simple : asked.val[i].act = "unchanged" => body.val[i] = job.source.val[i]
      /\ asked.ftp.act = "unchanged" => body.ftp = job.source.ftp.list
  BY DEF RunInv, Kept, UnchangedIsHeld
<1> QED
  BY <1>3, <1>5, <1>6 DEF With, ActionOf, Held, Items

LEMMA EndsKeep ==
    ASSUME IInv, RunInv, AfterRead \/ Dies
    PROVE  RunInv'
<1>1. /\ pc = "writing" /\ pc' = "idle"
      /\ UNCHANGED <<body, job, asked, live, at, left, added, allOk, results, point, before,
                     changed, edited, runs, edits>>
  BY DEF AfterRead, Dies
<1>2. changed \subseteq Items /\ \A i \in changed : ActionOf(asked, i) = "write"
  BY DEF IInv, TypeOK, RunInv, Kept, Bookkeeping
<1>3. CASE Dies
  <2>1. report'.status = "died" /\ report'.undo = job.only
    BY <1>3 DEF Dies, Report
  <2>2. \A i \in changed : Category(i) \in job.only
    <3>1. Category(Ftp) = "ftp" /\ Ftp \notin Simple
      BY ItemsAssumption DEF Category, Simple
    <3> QED
      BY <1>2, <3>1 DEF RunInv, Kept, PlanSays, LineSays, ListLineSays, ActionOf, Items
  <2>3. VerifiedMeansHeld'
    BY <2>1 DEF VerifiedMeansHeld
  <2> QED
    BY <1>1, <2>1, <2>2, <2>3, RunEnds
<1>4. CASE AfterRead
  <2>1. AllPassed /\ Ahead = {} /\ results \in [Items -> Outcomes]
    BY <1>4, AheadFacts DEF AfterRead, IInv, TypeOK
  <2>2. \A i \in changed : Category(i) \in UndoSet
    <3>1. \A i \in changed : results[i] \in Outcomes \ {"none", "not_attempted"}
      BY <1>1, <1>2, <2>1 DEF RunInv, Progress
    <3> QED
      BY <1>2, <3>1 DEF UndoSet, Had
  <2>3. ASSUME NEW d, NEW u, ReportWith(d, u),
               StatusOf(d, u) = "verified" /\ ~edited => \A i \in With(asked, {"write", "unchanged"}) : Held(i)
        PROVE  RunInv'
    <3>1. report'.status = StatusOf(d, u) /\ report'.undo = UndoSet /\ report'.no_op = FALSE
      BY <2>3 DEF ReportWith, Report
    <3>2. StatusOf(d, u) # "none"
      BY DEF StatusOf
    <3>3. VerifiedMeansHeld'
      <4>1. \A i : Held(i)' = Held(i)
        BY <1>1 DEF Held
      <4>2. With(asked, {"write", "unchanged"} \cup {})' = With(asked, {"write", "unchanged"})
        BY <1>1 DEF With, ActionOf
      <4>3. StatusOf(d, u) = "verified" /\ ~edited =>
              \A i \in With(asked, {"write", "unchanged"} \cup {})' : Held(i)'
        BY <2>3, <4>1, <4>2
      <4> QED
        BY <1>1, <3>1, <4>3 DEF VerifiedMeansHeld, With, Held
    <3> QED
      BY <1>1, <2>2, <3>1, <3>2, <3>3, RunEnds
  <2>4. CASE ReportWith({}, TRUE)
    <3>1. StatusOf({}, TRUE) # "verified"
      BY DEF StatusOf
    <3> QED
      BY <2>3, <2>4, <3>1
  <2>5. ASSUME NEW r \in Readings, NEW after, after = PlanOf(job.source, r, job.only),
               ReportWith(Differing(after), Uncheckable(after))
        PROVE  RunInv'
    <3>1. StatusOf(Differing(after), Uncheckable(after)) = "verified" /\ ~edited =>
             \A i \in With(asked, {"write", "unchanged"}) : Held(i)
      BY <1>1, <2>1, <2>5, AllVerified
    <3> QED
      BY <2>3, <2>5, <3>1
  <2> QED
    BY <1>4, <2>4, <2>5 DEF AfterRead
<1> QED
  BY <1>3, <1>4

LEMMA EditKeeps ==
    ASSUME IInv, RunInv, Edit
    PROVE  RunInv'
<1>1. /\ edited' /\ edits' = edits + 1
      /\ UNCHANGED <<pc, job, asked, live, at, left, added, allOk, results, point, before, report, changed>>
  BY DEF Edit
<1>2. edits' # 0
  BY <1>1 DEF IInv, TypeOK
<1>3. Bookkeeping'
  BY <1>1, <1>2 DEF RunInv, Kept, Bookkeeping, ActionOf, NoResults
<1>4. PointIsRead' /\ UnchangedIsHeld' /\ UndoWay' /\ ListWay'
  BY <1>1, <1>2 DEF RunInv, Kept, PointIsRead, UnchangedIsHeld, UndoWay, ListWay
<1>5. PlanSays(asked, job.source, job.only)'
  BY <1>1 DEF RunInv, Kept, PlanSays, LineSays, ListLineSays, Category
<1>6. Progress'
  <2>1. Ahead' = Ahead /\ Current' = Current /\ Stopped' = Stopped
    BY <1>1 DEF Ahead, AllPassed, Current, Stopped
  <2> QED
    BY <1>1, <2>1 DEF RunInv, Progress, ActionOf
<1>7. ChangesAreKept'
  BY <1>1 DEF RunInv, Told, ChangesAreKept, Category
<1>8. ListsAreNotMixed' /\ NothingChangedIsTrue' /\ VerifiedMeansHeld'
  BY <1>1 DEF RunInv, Told, ListsAreNotMixed, NothingChangedIsTrue, VerifiedMeansHeld
<1> QED
  BY <1>3, <1>4, <1>5, <1>6, <1>7, <1>8 DEF RunInv, Kept, Told

LEMMA RunInvStutters ==
    ASSUME RunInv, UNCHANGED vars
    PROVE  RunInv'
<1>1. Kept'
  BY DEF vars, RunInv, Kept, Bookkeeping, PointIsRead, HasWritten, UnchangedIsHeld, UndoWay, ReadOf, PlanSays,
         LineSays, ListLineSays, Category, ActionOf, NoResults
<1>2. Progress'
  <2>1. Ahead' = Ahead /\ Current' = Current /\ Stopped' = Stopped
    BY DEF vars, Ahead, AllPassed, Current, Stopped
  <2> QED
    BY <2>1 DEF vars, RunInv, Progress, ActionOf
<1>3. ListWay' /\ Told'
  BY DEF vars, RunInv, ListWay, Told, AllPassed, IsPrefixOf, IsSuffixOf, ChangesAreKept, ListsAreNotMixed,
         NothingChangedIsTrue, VerifiedMeansHeld, Category, With, ActionOf, Held
<1> QED
  BY <1>1, <1>2, <1>3 DEF RunInv

LEMMA RunInvNext ==
    ASSUME IInv, IInv', RunInv, [Next]_vars
    PROVE  RunInv'
<1>1. CASE PlanRestore
  <2>1. PICK src \in Sources, only \in Scopes : Ask(src, only, FALSE)
    BY <1>1 DEF PlanRestore
  <2>2. src \in Reading
    BY BodyAssumption
  <2> QED
    BY <2>1, <2>2, AskKeeps
<1>2. CASE PlanUndo
  <2>1. point \in Reading /\ report.undo # {} /\ Ask(point, report.undo, TRUE)
    BY <1>2 DEF PlanUndo, IInv, TypeOK
  <2> QED
    BY <2>1, AskKeeps
<1>3. CASE WriteItem
  BY <1>3, WriteItemKeeps DEF WriteItem
<1> QED
  BY <1>1, <1>2, <1>3, ApplyKeeps, SaveKeeps, PassKeeps, WriteListKeeps, EndsKeep, EditKeeps, RunInvStutters DEF Next

LEMMA RunInvariant == Spec => []RunInv
<1>1. IInv /\ IInv' /\ RunInv /\ [Next]_vars => RunInv'
  BY RunInvNext
<1> QED
  BY Inductive, RunInvStarts, <1>1, PTL DEF Spec

\* Whatever a run changed, however it ended, is in its restore point and in its undo_set, for any
\* items and any failures of the writes (apply_extended_restore, undo_categories).
THEOREM ChangesStayKept == Spec => []ChangesAreKept
<1>1. RunInv => ChangesAreKept
  BY DEF RunInv, Told
<1> QED
  BY RunInvariant, <1>1, PTL

\* The rebuild of an FTP list of any length, by deletes from the end and adds at the front, goes
\* through heads of the old list and tails of the new one only (execute_ftp).
THEOREM ListsStayApart == Spec => []ListsAreNotMixed
<1>1. RunInv => ListsAreNotMixed
  BY DEF RunInv, Told
<1> QED
  BY RunInvariant, <1>1, PTL

\* What a client is told of an item and of the run is so (status_of, judge_after_write).
THEOREM ReportsAreTrue == Spec => []ReportIsTrue
<1>1. RunInv => ReportIsTrue
  BY DEF RunInv, Told, ReportIsTrue
<1> QED
  BY RunInvariant, <1>1, PTL

\* The undo of a run, whatever that run did to the body, puts it back when it is reported verified
\* and nothing was in its way.
LEMMA UndoFromInvariant ==
    ASSUME IInv, RunInv
    PROVE  UndoPutsBack
<1> SUFFICES ASSUME pc = "idle", job.undo, report.status = "verified", edits = 0, With(asked, Blocked) = {}
             PROVE  body = job.want
  BY DEF UndoPutsBack
<1>1. ~edited /\ \A i \in With(asked, {"write", "unchanged"}) : Held(i)
  BY DEF RunInv, Kept, Bookkeeping, Told, VerifiedMeansHeld, With
<1>2. /\ body \in Body /\ job.want \in Body /\ asked \in Plans /\ Ftp \in Items /\ Ftp \notin Simple
      /\ Simple \subseteq Items
  BY ItemsAssumption DEF IInv, TypeOK, Items
<1>3. UndoWay /\ PlanSays(asked, job.source, job.only)
  BY DEF RunInv, Kept
<1>4. ASSUME NEW i \in Simple PROVE body.val[i] = job.want.val[i]
  <2> SUFFICES ASSUME body.val[i] # job.want.val[i] PROVE FALSE
    OBVIOUS
  <2>1. /\ Category(i) \in job.only /\ job.source.val[i] \in Values /\ i \notin Absent
        /\ job.source.val[i] = job.want.val[i]
    BY <1>3 DEF UndoWay, ReadOf
  <2>2. asked.val[i].act \notin {"not_selected", "no_value", "lacks"}
    BY <1>3, <2>1 DEF PlanSays, LineSays
  <2>3. asked.val[i].act \in Actions /\ ActionOf(asked, i) = asked.val[i].act
    BY <1>2 DEF Plans, PlanItems, ActionOf
  <2>4. asked.val[i].act \notin Blocked
    BY <1>2, <2>3 DEF With
  <2>5. i \in With(asked, {"write", "unchanged"})
    BY <1>2, <2>2, <2>3, <2>4 DEF Actions, Blocked, With
  <2> QED
    BY <1>1, <1>2, <2>1, <2>5 DEF Held
<1>5. body.ftp = job.want.ftp
  <2> SUFFICES ASSUME body.ftp # job.want.ftp PROVE FALSE
    OBVIOUS
  <2>1. /\ "ftp" \in job.only /\ job.source.ftp.state = "read" /\ Ftp \notin Absent
        /\ job.source.ftp.list = job.want.ftp
    BY <1>3 DEF UndoWay, ReadOf
  <2>2. asked.ftp.act \notin {"not_selected", "no_value", "lacks"}
    BY <1>3, <2>1 DEF PlanSays, ListLineSays
  <2>3. asked.ftp.act \in Actions /\ ActionOf(asked, Ftp) = asked.ftp.act
    BY <1>2 DEF Plans, ActionOf
  <2>4. asked.ftp.act \notin Blocked
    BY <1>2, <2>3 DEF With
  <2>5. Ftp \in With(asked, {"write", "unchanged"})
    BY <1>2, <2>2, <2>3, <2>4 DEF Actions, Blocked, With
  <2> QED
    BY <1>1, <2>1, <2>5 DEF Held
<1>6. body.val = job.want.val
  BY <1>2, <1>4 DEF Body
<1> QED
  BY <1>2, <1>5, <1>6 DEF Body

\* A verified undo has put the body back, for any body, any snapshot and any failure of the run
\* that is undone (apply_extended_restore with the restore point, limited to the undo_set).
THEOREM UndoRestores == Spec => []UndoPutsBack
<1>1. IInv /\ RunInv => UndoPutsBack
  BY UndoFromInvariant
<1> QED
  BY Inductive, RunInvariant, <1>1, PTL
=============================================================================
