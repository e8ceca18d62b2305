------------------------ MODULE GuardedWindow_proof ------------------------
(***************************************************************************)
(* What the guarded write promises, for any windows, snapshots, rows and   *)
(* data directories and any number of confirmations and changes.           *)
(*                                                                         *)
(* The UI, the channels and the worker agree on an apply only through what *)
(* was put into the channel, so the invariant follows every apply from its *)
(* confirmation: as a command, in hand, and as an answer.  Applies keep    *)
(* the order of their confirmations on that way, and a command finds the   *)
(* data directory that was in use when it was sent because the changes of  *)
(* the directory go through the same channel (DirOn).                      *)
(***************************************************************************)
EXTENDS GuardedWindow, SequenceTheorems, FiniteSetTheorems, TLAPS

Senders == Windows \cup {"none"}
AllDirs == Dirs \cup {NoDir}
Orders == [kind : {"none", "plan", "apply", "setdir", "discover", "refresh"}, win : Senders,
           req : Request, seen : Nat, id : 0..MaxApplies, dir : AllDirs]
Outcomes == {"report", "not_applied", "indeterminate"}
Answers == [kind : {"applied"}, win : Senders, req : Request, seen : Nat, id : 0..MaxApplies,
            outcome : Outcomes, row : Rows \cup {NoRow}]
News == [kind : {"cameras", "other", "planned"}, win : Senders, req : Request, seen : Nat,
         id : 0..MaxApplies, outcome : {"ok", "failed"}, row : Rows \cup {NoRow}]
Approvals == [req : Request, form : Request, seen : Nat, dir : AllDirs]
Written == [id : 1..MaxApplies, req : Request, seen : Nat, dir : AllDirs]

Types ==
    /\ TypeOK
    /\ cmds \in Seq(Orders)
    /\ evts \in Seq(Answers \cup News)
    /\ job \in Orders
    /\ approved \in [1..MaxApplies -> Approvals]
    /\ writes \subseteq Written

\* The data directory the worker will have when it takes the command at k of queue q.
DirOn(q, now, k, d) ==
    \/ /\ now = d
       /\ \A l \in 1..k-1 : q[l].kind # "setdir"
    \/ \E j \in 1..k-1 :
          /\ q[j].kind = "setdir" /\ q[j].dir = d
          /\ \A l \in j+1..k-1 : q[l].kind # "setdir"

\* A confirmed apply is what the form asked for, and what is held while a frame is drawn is too.
Confirmed ==
    /\ \A i \in 1..applies : approved[i].req = approved[i].form
    /\ pc = "draw" => \A w \in Windows : stage[w].at \in Holding => stage[w].req = Asked(w)

\* Outcomes are shown when an apply is done, and it has its number.
Numbered ==
    \A w \in Windows :
        /\ stage[w].at \in {"applying", "done"} => stage[w].id \in 1..applies
        /\ stage[w].outcome # "none" => stage[w].at = "done"

\* An apply on its way is the one confirmed under its number, and its window waits for it.
Exact(c) ==
    /\ c.id \in 1..applies
    /\ c.req = approved[c.id].req /\ c.seen = approved[c.id].seen
Awaited(c) ==
    /\ c.win \in Windows
    /\ stage[c.win].at = "applying" /\ stage[c.win].id = c.id /\ stage[c.win].req = c.req

Queued ==
    /\ worker # "alive" => cmds = <<>>
    /\ worker = "alive" => DirOn(cmds, wdir, Len(cmds) + 1, dir)
    /\ \A k \in 1..Len(cmds) : cmds[k].kind = "apply" =>
          /\ Exact(cmds[k]) /\ Awaited(cmds[k])
          /\ DirOn(cmds, wdir, k, approved[cmds[k].id].dir)

InJob ==
    /\ child # "none" => job # NoJob
    /\ job # NoJob =>
          /\ Exact(job) /\ wdir = approved[job.id].dir
          /\ worker = "alive" => Awaited(job)

Answered ==
    \A k \in 1..Len(evts) : evts[k].kind = "applied" =>
        evts[k].id \in 1..applies /\ Awaited(evts[k])

\* Answers come before what is in hand, that before what is queued, each in the order sent.
InOrder ==
    /\ \A k, l \in 1..Len(cmds) :
          k < l /\ cmds[k].kind = "apply" /\ cmds[l].kind = "apply" => cmds[k].id < cmds[l].id
    /\ \A k, l \in 1..Len(evts) :
          k < l /\ evts[k].kind = "applied" /\ evts[l].kind = "applied" => evts[k].id < evts[l].id
    /\ \A k \in 1..Len(cmds), l \in 1..Len(evts) :
          cmds[k].kind = "apply" /\ evts[l].kind = "applied" => evts[l].id < cmds[k].id
    /\ job # NoJob =>
          /\ \A k \in 1..Len(cmds) : cmds[k].kind = "apply" => job.id < cmds[k].id
          /\ \A k \in 1..Len(evts) : evts[k].kind = "applied" => evts[k].id < job.id

\* What was written was confirmed; what is queued has not been written, what is in hand only by
\* the child that wrote.
Recorded ==
    /\ WrittenIsApproved
    /\ \A x \in writes :
          /\ x.id \in 1..applies
          /\ \A k \in 1..Len(cmds) : cmds[k].kind = "apply" => x.id < cmds[k].id
          /\ x.id = job.id => child = "wrote"
\* Nothing more is to come of an apply that was answered with "not applied".
Over(i) ==
    /\ \A x \in writes : x.id # i
    /\ job # NoJob => job.id # i
    /\ \A k \in 1..Len(cmds) : cmds[k].kind = "apply" => cmds[k].id # i
ToldRefused(i) ==
    \/ \E w \in Windows : stage[w].outcome = "not_applied" /\ stage[w].id = i
    \/ \E k \in 1..Len(evts) :
          evts[k].kind = "applied" /\ evts[k].outcome = "not_applied" /\ evts[k].id = i
Refused == \A i \in 1..MaxApplies : ToldRefused(i) => Over(i)

Applies == Numbered /\ Queued /\ InJob /\ Answered /\ InOrder /\ Recorded /\ Refused
IInv == Types /\ Confirmed /\ Applies

-----------------------------------------------------------------------------
(* The channels. *)

LEMMA AppendFacts ==
    ASSUME NEW S, NEW q \in Seq(S), NEW c \in S
    PROVE /\ Append(q, c) \in Seq(S)
          /\ Len(Append(q, c)) = Len(q) + 1
          /\ Append(q, c)[Len(q) + 1] = c
          /\ \A k \in 1..Len(q) : Append(q, c)[k] = q[k]
  OBVIOUS

LEMMA TailFacts ==
    ASSUME NEW S, NEW q \in Seq(S), q # <<>>
    PROVE /\ Tail(q) \in Seq(S)
          /\ Len(q) \in Nat \ {0}
          /\ Len(Tail(q)) = Len(q) - 1
          /\ Head(q) = q[1] /\ Head(q) \in S
          /\ \A k \in 1..Len(Tail(q)) : k + 1 \in 1..Len(q) /\ Tail(q)[k] = q[k + 1]
  OBVIOUS

\* What is sent later does not change what an earlier command finds.
LEMMA DirOnAppend ==
    ASSUME NEW q \in Seq(Orders), NEW c \in Orders, NEW now, NEW d, NEW k \in 1..Len(q) + 1,
           DirOn(q, now, k, d)
    PROVE DirOn(Append(q, c), now, k, d)
  <1>1. \A l \in 1..k-1 : l \in 1..Len(q) /\ Append(q, c)[l] = q[l]
    OBVIOUS
  <1>2. CASE now = d /\ \A l \in 1..k-1 : q[l].kind # "setdir"
    BY <1>1, <1>2 DEF DirOn
  <1>3. CASE \E j \in 1..k-1 : /\ q[j].kind = "setdir" /\ q[j].dir = d
                               /\ \A l \in j+1..k-1 : q[l].kind # "setdir"
    <2> PICK j \in 1..k-1 : /\ q[j].kind = "setdir" /\ q[j].dir = d
                            /\ \A l \in j+1..k-1 : q[l].kind # "setdir"
      BY <1>3
    <2>1. \A l \in j+1..k-1 : l \in 1..k-1
      OBVIOUS
    <2> QED BY <1>1, <2>1 DEF DirOn
  <1> QED BY <1>2, <1>3 DEF DirOn

LEMMA DirOnAppendOther ==
    ASSUME NEW q \in Seq(Orders), NEW c \in Orders, c.kind # "setdir", NEW now, NEW d,
           DirOn(q, now, Len(q) + 1, d)
    PROVE DirOn(Append(q, c), now, Len(q) + 2, d)
  <1> DEFINE a == Append(q, c)
  <1>1. /\ Len(q) \in Nat /\ a[Len(q) + 1] = c
        /\ \A l \in 1..Len(q) : a[l] = q[l]
    OBVIOUS
  <1> HIDE DEF a
  <1>2. CASE now = d /\ \A l \in 1..(Len(q) + 1)-1 : q[l].kind # "setdir"
    <2>1. \A l \in 1..(Len(q) + 2)-1 : l = Len(q) + 1 \/ l \in 1..Len(q)
      BY <1>1
    <2> QED BY <1>1, <1>2, <2>1 DEF DirOn, a
  <1>3. CASE \E j \in 1..(Len(q) + 1)-1 : /\ q[j].kind = "setdir" /\ q[j].dir = d
                               /\ \A l \in j+1..(Len(q) + 1)-1 : q[l].kind # "setdir"
    <2> PICK j \in 1..(Len(q) + 1)-1 : /\ q[j].kind = "setdir" /\ q[j].dir = d
                            /\ \A l \in j+1..(Len(q) + 1)-1 : q[l].kind # "setdir"
      BY <1>3
    <2>1. \A l \in j+1..(Len(q) + 2)-1 : l = Len(q) + 1 \/ l \in j+1..(Len(q) + 1)-1
      BY <1>1
    <2>2. \A l \in j+1..(Len(q) + 1)-1 : l \in 1..Len(q)
      BY <1>1
    <2>3. j \in 1..(Len(q) + 2)-1 /\ j \in 1..Len(q)
      BY <1>1
    <2>4. \A l \in j+1..(Len(q) + 2)-1 : a[l].kind # "setdir"
      BY <1>1, <2>1, <2>2
    <2> QED BY <1>1, <2>3, <2>4 DEF DirOn, a
  <1> QED BY <1>2, <1>3 DEF DirOn

LEMMA DirOnAppendSet ==
    ASSUME NEW q \in Seq(Orders), NEW c \in Orders, c.kind = "setdir", NEW now
    PROVE DirOn(Append(q, c), now, Len(q) + 2, c.dir)
  <1>1. Len(q) + 1 \in 1..(Len(q) + 2)-1 /\ Append(q, c)[Len(q) + 1] = c
    OBVIOUS
  <1>2. \A l \in (Len(q) + 1)+1..(Len(q) + 2)-1 : FALSE
    OBVIOUS
  <1> QED BY <1>1, <1>2 DEF DirOn

\* A command is taken: what the next ones find stays the same.
LEMMA DirOnTail ==
    ASSUME NEW q \in Seq(Orders), q # <<>>, NEW now, NEW d, NEW k \in 1..Len(q),
           DirOn(q, now, k + 1, d)
    PROVE DirOn(Tail(q), IF Head(q).kind = "setdir" THEN Head(q).dir ELSE now, k, d)
  <1> DEFINE t == Tail(q)
  <1>1. /\ Len(q) \in Nat \ {0} /\ Head(q) = q[1]
        /\ \A l \in 1..k-1 : l + 1 \in 1..(k + 1)-1 /\ t[l] = q[l + 1]
    BY TailFacts, LenProperties
  <1> HIDE DEF t
  <1>2. CASE now = d /\ \A l \in 1..(k + 1)-1 : q[l].kind # "setdir"
    BY <1>1, <1>2 DEF DirOn, t
  <1>3. CASE \E j \in 1..(k + 1)-1 : /\ q[j].kind = "setdir" /\ q[j].dir = d
                               /\ \A l \in j+1..(k + 1)-1 : q[l].kind # "setdir"
    <2> PICK j \in 1..(k + 1)-1 : /\ q[j].kind = "setdir" /\ q[j].dir = d
                            /\ \A l \in j+1..(k + 1)-1 : q[l].kind # "setdir"
      BY <1>3
    <2>1. CASE j = 1
      <3>1. \A l \in 1..k-1 : l + 1 \in j+1..(k + 1)-1
        BY <2>1
      <3>2. \A l \in 1..k-1 : t[l].kind # "setdir"
        BY <1>1, <3>1
      <3> QED BY <1>1, <2>1, <3>2 DEF DirOn, t
    <2>2. CASE j # 1
      <3>1. j-1 \in 1..k-1 /\ t[j-1] = q[j]
        BY <1>1, <2>2
      <3>2. \A l \in (j-1)+1..k-1 : l \in 1..k-1 /\ l + 1 \in j+1..(k + 1)-1
        OBVIOUS
      <3>3. \A l \in (j-1)+1..k-1 : t[l].kind # "setdir"
        BY <1>1, <3>2
      <3> QED BY <3>1, <3>3 DEF DirOn, t
    <2> QED BY <2>1, <2>2
  <1> QED BY <1>2, <1>3 DEF DirOn

-----------------------------------------------------------------------------
(* Steps of the UI that send no apply and get no answer to one.            *)

WorkerRests == UNCHANGED <<worker, wdir, job, child, applies, approved, writes>>
CmdsQuiet ==
    \/ cmds' = cmds
    \/ worker = "alive" /\ \E c \in Orders : c.kind \notin {"apply", "setdir"} /\ cmds' = Append(cmds, c)
EvtsQuiet ==
    \/ evts' = evts
    \/ evts # <<>> /\ Head(evts).kind # "applied" /\ evts' = Tail(evts)
StagesQuiet ==
    \A w \in Windows :
        \/ stage'[w] = stage[w]
        \/ /\ stage[w].at # "applying"
           /\ stage'[w].at \notin {"applying", "done"} /\ stage'[w].outcome = "none"

LEMMA CmdsFacts ==
    ASSUME cmds \in Seq(Orders), CmdsQuiet
    PROVE /\ cmds' \in Seq(Orders)
          /\ \A k \in 1..Len(cmds') : cmds'[k].kind = "apply" => k \in 1..Len(cmds) /\ cmds'[k] = cmds[k]
  <1>1. CASE cmds' = cmds
    BY <1>1
  <1>2. CASE \E c \in Orders : c.kind \notin {"apply", "setdir"} /\ cmds' = Append(cmds, c)
    <2> PICK c \in Orders : c.kind \notin {"apply", "setdir"} /\ cmds' = Append(cmds, c)
      BY <1>2
    <2>1. /\ Len(cmds) \in Nat /\ Len(cmds') = Len(cmds) + 1 /\ cmds'[Len(cmds) + 1] = c
          /\ \A k \in 1..Len(cmds) : cmds'[k] = cmds[k]
      BY AppendFacts
    <2>2. \A k \in 1..Len(cmds') : k \in 1..Len(cmds) \/ k = Len(cmds) + 1
      BY <2>1
    <2>3. cmds' \in Seq(Orders)
      BY AppendFacts
    <2> QED BY <2>1, <2>2, <2>3
  <1> QED BY <1>1, <1>2 DEF CmdsQuiet

\* What a UI step does to the channel, whichever commands it sends.
CmdsKept ==
    /\ \A k \in 1..Len(cmds') : cmds'[k].kind = "apply" =>
          /\ k \in 1..Len(cmds) /\ cmds'[k] = cmds[k]
          /\ DirOn(cmds', wdir', k, approved[cmds[k].id].dir)
    /\ worker # "alive" => cmds' = <<>>
    /\ worker = "alive" => DirOn(cmds', wdir', Len(cmds') + 1, dir')

LEMMA QuietKeeps ==
    ASSUME IInv, CmdsQuiet, wdir' = wdir, dir' = dir
    PROVE CmdsKept
  <1>1. cmds \in Seq(Orders) /\ Len(cmds) \in Nat
    BY DEF IInv, Types
  <1>2. \A k \in 1..Len(cmds') : cmds'[k].kind = "apply" => k \in 1..Len(cmds) /\ cmds'[k] = cmds[k]
    BY <1>1, CmdsFacts
  <1>3. ASSUME NEW k \in 1..Len(cmds'), cmds'[k].kind = "apply"
        PROVE DirOn(cmds', wdir', k, approved[cmds[k].id].dir)
    <2>1. k \in 1..Len(cmds) + 1 /\ DirOn(cmds, wdir, k, approved[cmds[k].id].dir)
      BY <1>1, <1>2, <1>3 DEF IInv, Applies, Queued
    <2> QED BY <1>1, <2>1, DirOnAppend DEF CmdsQuiet
  <1>4. worker # "alive" => cmds' = <<>>
    BY DEF IInv, Applies, Queued, CmdsQuiet
  <1>5. worker = "alive" => DirOn(cmds', wdir', Len(cmds') + 1, dir')
    <2>1. CASE cmds' = cmds
      BY <2>1 DEF IInv, Applies, Queued
    <2>2. CASE worker = "alive" /\ \E c \in Orders : c.kind \notin {"apply", "setdir"} /\ cmds' = Append(cmds, c)
      <3> PICK c \in Orders : c.kind \notin {"apply", "setdir"} /\ cmds' = Append(cmds, c)
        BY <2>2
      <3>1. DirOn(cmds, wdir, Len(cmds) + 1, dir)
        BY <2>2 DEF IInv, Applies, Queued
      <3>2. Len(cmds') + 1 = Len(cmds) + 2
        BY <1>1, AppendFacts
      <3>3. DirOn(Append(cmds, c), wdir, Len(cmds) + 2, dir)
        BY <1>1, <3>1, DirOnAppendOther
      <3> QED BY <3>2, <3>3
    <2> QED BY <2>1, <2>2 DEF CmdsQuiet
  <1> QED BY <1>2, <1>3, <1>4, <1>5 DEF CmdsKept

LEMMA EvtsFacts ==
    ASSUME evts \in Seq(Answers \cup News), EvtsQuiet
    PROVE /\ evts' \in Seq(Answers \cup News)
          /\ \E n \in 0..1 : \A k \in 1..Len(evts') :
                k + n \in 1..Len(evts) /\ evts'[k] = evts[k + n]
  <1>1. CASE evts' = evts
    <2>1. \A k \in 1..Len(evts') : k + 0 \in 1..Len(evts) /\ evts'[k] = evts[k + 0]
      BY <1>1
    <2> QED BY <1>1, <2>1
  <1>2. CASE evts # <<>> /\ evts' = Tail(evts)
    <2>1. \A k \in 1..Len(evts') : k + 1 \in 1..Len(evts) /\ evts'[k] = evts[k + 1]
      BY <1>2, TailFacts
    <2> QED BY <1>2, <2>1, TailFacts
  <1> QED BY <1>1, <1>2 DEF EvtsQuiet

LEMMA UIQuiet ==
    ASSUME IInv, WorkerRests, CmdsKept, EvtsQuiet, StagesQuiet
    PROVE Applies'
  <1>1. /\ cmds \in Seq(Orders) /\ evts \in Seq(Answers \cup News)
        /\ Len(cmds) \in Nat /\ Len(evts) \in Nat
    BY DEF IInv, Types
  <1>2. \A k \in 1..Len(cmds') : cmds'[k].kind = "apply" => k \in 1..Len(cmds) /\ cmds'[k] = cmds[k]
    BY DEF CmdsKept
  <1>3. PICK n \in 0..1 : \A k \in 1..Len(evts') : k + n \in 1..Len(evts) /\ evts'[k] = evts[k + n]
    BY <1>1, EvtsFacts
  <1>4. \A w \in Windows : stage[w].at = "applying" => stage'[w] = stage[w]
    BY DEF StagesQuiet
  <1>5. Numbered'
    BY DEF IInv, Applies, Numbered, StagesQuiet, WorkerRests
  <1>6. Queued'
    <2>1. ASSUME NEW k \in 1..Len(cmds'), cmds'[k].kind = "apply"
          PROVE (Exact(cmds[k]) /\ Awaited(cmds[k]))'
      BY <1>2, <1>4, <2>1 DEF IInv, Applies, Queued, Exact, Awaited, WorkerRests
    <2> QED BY <2>1 DEF Queued, CmdsKept, WorkerRests
  <1>7. InJob'
    BY <1>4 DEF IInv, Applies, InJob, Exact, Awaited, WorkerRests
  <1>8. Answered'
    BY <1>3, <1>4 DEF IInv, Applies, Answered, Awaited, WorkerRests
  <1>9. InOrder'
    <2>1. \A k, l \in 1..Len(cmds') :
            k < l /\ cmds'[k].kind = "apply" /\ cmds'[l].kind = "apply" => cmds'[k].id < cmds'[l].id
      BY <1>2 DEF IInv, Applies, InOrder
    <2>2. \A k, l \in 1..Len(evts') :
            k < l /\ evts'[k].kind = "applied" /\ evts'[l].kind = "applied" => evts'[k].id < evts'[l].id
      <3> SUFFICES ASSUME NEW k \in 1..Len(evts'), NEW l \in 1..Len(evts'),
                          k < l, evts'[k].kind = "applied", evts'[l].kind = "applied"
                   PROVE evts'[k].id < evts'[l].id
        OBVIOUS
      <3>1. k + n < l + n /\ k + n \in 1..Len(evts) /\ l + n \in 1..Len(evts)
        BY <1>3
      <3> QED BY <1>3, <3>1 DEF IInv, Applies, InOrder
    <2>3. \A k \in 1..Len(cmds'), l \in 1..Len(evts') :
            cmds'[k].kind = "apply" /\ evts'[l].kind = "applied" => evts'[l].id < cmds'[k].id
      BY <1>2, <1>3 DEF IInv, Applies, InOrder
    <2>4. job' # NoJob =>
            /\ \A k \in 1..Len(cmds') : cmds'[k].kind = "apply" => job'.id < cmds'[k].id
            /\ \A k \in 1..Len(evts') : evts'[k].kind = "applied" => evts'[k].id < job'.id
      BY <1>2, <1>3 DEF IInv, Applies, InOrder, WorkerRests
    <2> QED BY <2>1, <2>2, <2>3, <2>4 DEF InOrder
  <1>10. Recorded'
    BY <1>2 DEF IInv, Applies, Recorded, WrittenIsApproved, WorkerRests
  <1>11. Refused'
    <2> SUFFICES ASSUME NEW i \in 1..MaxApplies, ToldRefused(i)'
                 PROVE Over(i)'
      BY DEF Refused
    <2>1. ToldRefused(i)
      BY <1>3 DEF ToldRefused, StagesQuiet
    <2>2. Over(i)
      BY <2>1 DEF IInv, Applies, Refused
    <2> QED BY <1>2, <2>2 DEF Over, WorkerRests
  <1> QED BY <1>5, <1>6, <1>7, <1>8, <1>9, <1>10, <1>11 DEF Applies

-----------------------------------------------------------------------------
(* The other steps of the UI. *)

\* A confirmation gets the next number, after everything that is on its way or was written.
LEMMA ConfirmApplies ==
    ASSUME IInv, NEW w \in Windows, ConfirmApply(w), pc = "draw"
    PROVE Applies' /\ \A i \in 1..applies' : approved'[i].req = approved'[i].form
  <1> DEFINE i == applies + 1
             r == stage[w].req
             n == stage[w].seen
             c == ApplyCmd(w, r, n, i)
             a == [req |-> r, form |-> Asked(w), seen |-> n, dir |-> dir]
  <1>1. /\ applies \in Nat /\ MaxApplies \in Nat /\ applies < MaxApplies
        /\ cmds \in Seq(Orders) /\ evts \in Seq(Answers \cup News) /\ job \in Orders
        /\ Len(cmds) \in Nat /\ Len(evts) \in Nat
        /\ stage \in [Windows -> Stages] /\ approved \in [1..MaxApplies -> Approvals]
        /\ dir \in AllDirs
    BY AppliesAssumption DEF IInv, Types, TypeOK, ConfirmApply, AllDirs
  <1>2. /\ stage[w].at = "confirm" /\ r \in Request /\ n \in Nat /\ i \in 1..MaxApplies
        /\ \A j \in 1..applies : j # i /\ j \in 1..MaxApplies
        /\ \A j \in 1..i : j = i \/ j \in 1..applies
    BY <1>1 DEF ConfirmApply, Stages
  <1>3. c \in Orders /\ c.kind = "apply" /\ c.id = i /\ c.req = r /\ c.seen = n /\ c.win = w
    <2>1. NoDir \in AllDirs /\ w \in Senders /\ i \in 0..MaxApplies
      BY <1>1, <1>2 DEF AllDirs, Senders
    <2> QED BY <1>2, <2>1 DEF ApplyCmd, Command, Orders
  <1>4. /\ applies' = i /\ approved' = [approved EXCEPT ![i] = a]
        /\ UNCHANGED <<worker, wdir, job, child, evts, writes, dir>>
        /\ cmds' = (IF worker = "alive" THEN Append(cmds, c) ELSE cmds)
    BY DEF ConfirmApply, Send, Heard, Frame, worker_vars, vars
  <1>5. r = Asked(w)
    BY <1>2 DEF IInv, Confirmed, Holding
  <1>6. /\ \A j \in 1..applies : approved'[j] = approved[j]
        /\ approved'[i].req = r /\ approved'[i].form = r /\ approved'[i].seen = n /\ approved'[i].dir = dir
    BY <1>1, <1>2, <1>4, <1>5
  <1>7. stage' = [stage EXCEPT ![w] = IF worker = "alive" THEN Applying(r, i) ELSE Done(r, i, "not_applied")]
    BY DEF ConfirmApply, Heard, Finish
  <1>8. \A v \in Windows \ {w} : stage'[v] = stage[v]
    BY <1>1, <1>7
  <1>9. /\ stage'[w].req = r /\ stage'[w].id = i
        /\ worker = "alive" => stage'[w].at = "applying" /\ stage'[w].outcome = "none"
        /\ worker # "alive" => stage'[w].at = "done" /\ stage'[w].outcome = "not_applied"
    BY <1>1, <1>7 DEF Applying, Done, St
  <1>10. \A j \in 1..applies' : approved'[j].req = approved'[j].form
    BY <1>2, <1>4, <1>6 DEF IInv, Confirmed
  <1>11. \A v \in Windows : stage[v].at = "applying" => stage'[v] = stage[v]
    BY <1>2, <1>8
  <1>12. Numbered'
    BY <1>1, <1>2, <1>4, <1>8, <1>9 DEF IInv, Applies, Numbered
  <1> HIDE DEF c, a, r, n, i
  <1>13. /\ Len(cmds') = IF worker = "alive" THEN Len(cmds) + 1 ELSE Len(cmds)
         /\ \A k \in 1..Len(cmds) : cmds'[k] = cmds[k]
         /\ worker = "alive" => cmds'[Len(cmds) + 1] = c
    BY <1>1, <1>3, <1>4, AppendFacts
  <1>14. \A k \in 1..Len(cmds') :
            \/ k \in 1..Len(cmds) /\ cmds'[k] = cmds[k]
            \/ k = Len(cmds) + 1 /\ cmds'[k] = c /\ worker = "alive"
    BY <1>1, <1>13
  <1>15. \A k \in 1..Len(cmds) : cmds[k].kind = "apply" => cmds[k].id \in 1..applies
    BY DEF IInv, Applies, Queued, Exact
  <1>16. \A k \in 1..Len(evts) : evts[k].kind = "applied" => evts[k].id \in 1..applies
    BY DEF IInv, Applies, Answered
  <1>17. job # NoJob => job.id \in 1..applies
    BY DEF IInv, Applies, InJob, Exact
  <1>18. \A j \in 1..applies : j < i
    BY <1>1 DEF i
  <1>19. Queued'
    <2>1. worker' # "alive" => cmds' = <<>>
      BY <1>4 DEF IInv, Applies, Queued
    <2>2. worker' = "alive" => DirOn(cmds', wdir', Len(cmds') + 1, dir')
      <3> SUFFICES ASSUME worker = "alive" PROVE DirOn(Append(cmds, c), wdir, Len(cmds) + 2, dir)
        BY <1>1, <1>4, <1>13
      <3>1. DirOn(cmds, wdir, Len(cmds) + 1, dir)
        BY DEF IInv, Applies, Queued
      <3> QED BY <1>1, <1>3, <3>1, DirOnAppendOther
    <2>3. ASSUME NEW k \in 1..Len(cmds'), cmds'[k].kind = "apply"
          PROVE (Exact(cmds[k]) /\ Awaited(cmds[k]))'
      <3>1. CASE k \in 1..Len(cmds) /\ cmds'[k] = cmds[k]
        <4>1. Exact(cmds[k]) /\ Awaited(cmds[k])
          BY <2>3, <3>1 DEF IInv, Applies, Queued
        <4> QED BY <1>1, <1>4, <1>6, <1>11, <1>18, <3>1, <4>1 DEF Exact, Awaited, i
      <3>2. CASE cmds'[k] = c /\ worker = "alive"
        BY <1>1, <1>3, <1>4, <1>6, <1>9, <3>2 DEF Exact, Awaited, i
      <3> QED BY <1>14, <3>1, <3>2
    <2>4. ASSUME NEW k \in 1..Len(cmds'), cmds'[k].kind = "apply"
          PROVE DirOn(cmds', wdir', k, approved'[cmds'[k].id].dir)
      <3> DEFINE d == approved'[cmds'[k].id].dir
      <3>1. k \in 1..Len(cmds) + 1
        BY <1>1, <1>14
      <3>2. DirOn(cmds, wdir, k, d)
        <4>1. CASE k \in 1..Len(cmds) /\ cmds'[k] = cmds[k]
          <5>1. d = approved[cmds[k].id].dir
            BY <1>6, <1>15, <2>4, <4>1
          <5> QED BY <2>4, <4>1, <5>1 DEF IInv, Applies, Queued
        <4>2. CASE k = Len(cmds) + 1 /\ cmds'[k] = c /\ worker = "alive"
          <5>1. d = dir
            BY <1>3, <1>6, <4>2
          <5> QED BY <4>2, <5>1 DEF IInv, Applies, Queued
        <4> QED BY <1>14, <4>1, <4>2
      <3> HIDE DEF d
      <3>3. DirOn(cmds', wdir', k, d)
        BY <1>1, <1>3, <1>4, <3>1, <3>2, DirOnAppend
      <3> QED BY <3>3 DEF d
    <2> QED BY <2>1, <2>2, <2>3, <2>4 DEF Queued
  <1>20. InJob'
    BY <1>1, <1>4, <1>6, <1>11, <1>17, <1>18 DEF IInv, Applies, InJob, Exact, Awaited, i
  <1>21. Answered'
    <2>1. \A j \in 1..applies : j \in 1..applies'
      BY <1>1, <1>4 DEF i
    <2>2. \A k \in 1..Len(evts) : evts[k].kind = "applied" => Awaited(evts[k])'
      BY <1>4, <1>11 DEF IInv, Applies, Answered, Awaited
    <2> QED BY <1>4, <1>16, <2>1, <2>2 DEF Answered
  <1>22. InOrder'
    <2>1. \A k, l \in 1..Len(cmds') :
            k < l /\ cmds'[k].kind = "apply" /\ cmds'[l].kind = "apply" => cmds'[k].id < cmds'[l].id
      <3> SUFFICES ASSUME NEW k \in 1..Len(cmds'), NEW l \in 1..Len(cmds'),
                          k < l, cmds'[k].kind = "apply", cmds'[l].kind = "apply"
                   PROVE cmds'[k].id < cmds'[l].id
        OBVIOUS
      <3>1. k \in 1..Len(cmds) /\ cmds'[k] = cmds[k]
        BY <1>1, <1>13, <1>14
      <3>2. CASE l \in 1..Len(cmds) /\ cmds'[l] = cmds[l]
        BY <3>1, <3>2 DEF IInv, Applies, InOrder
      <3>3. CASE cmds'[l] = c
        BY <1>3, <1>15, <1>18, <3>1, <3>3
      <3> QED BY <1>14, <3>2, <3>3
    <2>2. \A k \in 1..Len(cmds'), l \in 1..Len(evts) :
            cmds'[k].kind = "apply" /\ evts[l].kind = "applied" => evts[l].id < cmds'[k].id
      BY <1>3, <1>14, <1>16, <1>18 DEF IInv, Applies, InOrder
    <2>3. job # NoJob => \A k \in 1..Len(cmds') : cmds'[k].kind = "apply" => job.id < cmds'[k].id
      BY <1>3, <1>14, <1>17, <1>18 DEF IInv, Applies, InOrder
    <2> QED BY <1>4, <2>1, <2>2, <2>3 DEF IInv, Applies, InOrder
  <1>23. Recorded'
    <2>1. \A x \in writes : x.id \in 1..applies
      BY DEF IInv, Applies, Recorded
    <2>2. WrittenIsApproved'
      BY <1>4, <1>6, <2>1 DEF IInv, Applies, Recorded, WrittenIsApproved
    <2>3. \A x \in writes : \A k \in 1..Len(cmds') : cmds'[k].kind = "apply" => x.id < cmds'[k].id
      BY <1>3, <1>14, <1>18, <2>1 DEF IInv, Applies, Recorded
    <2>4. \A x \in writes : x.id \in 1..applies'
      BY <1>1, <1>4, <1>18, <2>1 DEF i
    <2> QED BY <1>4, <2>2, <2>3, <2>4 DEF IInv, Applies, Recorded
  <1>24. Refused'
    <2> SUFFICES ASSUME NEW j \in 1..MaxApplies, ToldRefused(j)'
                 PROVE Over(j)'
      BY DEF Refused
    <2>1. CASE j = i
      <3>1. \A x \in writes : x.id < i
        BY <1>18 DEF IInv, Applies, Recorded
      <3>2. \A v \in Windows \ {w} : stage'[v].outcome = "not_applied" => stage'[v].id \in 1..applies
        BY <1>8 DEF IInv, Applies, Numbered
      <3>3. worker # "alive"
        BY <1>4, <1>9, <1>16, <1>18, <2>1, <3>2 DEF ToldRefused
      <3>4. cmds' = <<>>
        BY <1>4, <3>3 DEF IInv, Applies, Queued
      <3> QED BY <1>4, <1>17, <1>18, <2>1, <3>1, <3>4 DEF Over
    <2>2. CASE j # i
      <3>1. ToldRefused(j)
        BY <1>4, <1>8, <1>9, <2>2 DEF ToldRefused
      <3>2. Over(j)
        BY <3>1 DEF IInv, Applies, Refused
      <3> QED BY <1>3, <1>4, <1>14, <2>2, <3>2 DEF Over
    <2> QED BY <2>1, <2>2
  <1> QED BY <1>10, <1>12, <1>19, <1>20, <1>21, <1>22, <1>23, <1>24 DEF Applies

\* A new data directory goes into the channel behind everything that was sent for the old one.
LEMMA ChangeDirApplies ==
    ASSUME IInv, NEW d \in AllDirs, ChangeDir(d)
    PROVE Applies' /\ cmds' \in Seq(Orders)
  <1>1. cmds \in Seq(Orders) /\ Len(cmds) \in Nat /\ MaxApplies \in Nat
    BY AppliesAssumption DEF IInv, Types
  <1>2. SetDir(d) \in Orders /\ SetDir(d).kind = "setdir" /\ SetDir(d).dir = d
    BY <1>1 DEF SetDir, Command, Orders, Senders, Request, NoReq
  <1>3. Plain("refresh") \in Orders /\ Plain("refresh").kind = "refresh"
    BY <1>1 DEF Plain, Command, Orders, Senders, Request, NoReq, AllDirs
  <1> DEFINE told == Append(cmds, SetDir(d))
             both == Append(told, Plain("refresh"))
  <1>4. /\ told \in Seq(Orders) /\ Len(told) = Len(cmds) + 1 /\ told[Len(cmds) + 1] = SetDir(d)
        /\ \A k \in 1..Len(cmds) : told[k] = cmds[k]
    BY <1>1, <1>2, AppendFacts
  <1>5. /\ both \in Seq(Orders) /\ Len(both) = Len(cmds) + 2 /\ both[Len(cmds) + 2] = Plain("refresh")
        /\ \A k \in 1..Len(cmds) + 1 : both[k] = told[k]
    <2> HIDE DEF told
    <2>1. Len(told) + 1 = Len(cmds) + 2
      BY <1>1, <1>4
    <2> QED BY <1>3, <1>4, <2>1, AppendFacts
  <1>6. /\ UNCHANGED <<worker, wdir, job, child, evts, applies, approved, writes>>
        /\ dir' = d
        /\ cmds' = IF worker = "alive" THEN (IF d = NoDir THEN told ELSE both) ELSE cmds
        /\ stage' = [w \in Windows |-> IF stage[w].at \in DirWithdraws THEN Idle ELSE stage[w]]
    BY DEF ChangeDir, Frame, Heard, worker_vars
  <1>7. DirOn(told, wdir, Len(cmds) + 2, d)
    BY <1>1, <1>2, DirOnAppendSet
  <1>8. DirOn(both, wdir, Len(cmds) + 3, d)
    <2> HIDE DEF told
    <2>1. DirOn(told, wdir, Len(told) + 1, d) /\ Len(told) + 2 = Len(cmds) + 3
      BY <1>1, <1>4, <1>7
    <2> QED BY <1>3, <1>4, <2>1, DirOnAppendOther
  <1> HIDE DEF told, both
  <1>9. CmdsKept
    <2>1. \A k \in 1..Len(cmds') : cmds'[k].kind = "apply" => k \in 1..Len(cmds) /\ cmds'[k] = cmds[k]
      <3> SUFFICES ASSUME NEW k \in 1..Len(cmds'), cmds'[k].kind = "apply"
                   PROVE k \in 1..Len(cmds) /\ cmds'[k] = cmds[k]
        OBVIOUS
      <3>1. k \in 1..Len(cmds) \/ k = Len(cmds) + 1 \/ k = Len(cmds) + 2
        BY <1>1, <1>4, <1>5, <1>6
      <3> QED BY <1>1, <1>2, <1>3, <1>4, <1>5, <1>6, <3>1
    <2>2. ASSUME NEW k \in 1..Len(cmds'), cmds'[k].kind = "apply"
          PROVE DirOn(cmds', wdir', k, approved[cmds[k].id].dir)
      <3> DEFINE e == approved[cmds[k].id].dir
      <3>1. k \in 1..Len(cmds) + 1 /\ k \in 1..Len(told) + 1 /\ DirOn(cmds, wdir, k, e)
        BY <1>1, <1>4, <2>1, <2>2 DEF IInv, Applies, Queued
      <3> HIDE DEF e
      <3>2. DirOn(told, wdir, k, e)
        BY <1>1, <1>2, <3>1, DirOnAppend DEF told
      <3>3. DirOn(both, wdir, k, e)
        BY <1>3, <1>4, <3>1, <3>2, DirOnAppend DEF both
      <3>4. DirOn(cmds', wdir', k, e)
        BY <1>6, <3>1, <3>2, <3>3
      <3> QED BY <3>4 DEF e
    <2>3. worker # "alive" => cmds' = <<>>
      BY <1>6 DEF IInv, Applies, Queued
    <2>4. worker = "alive" => DirOn(cmds', wdir', Len(cmds') + 1, dir')
      <3>1. Len(told) + 1 = Len(cmds) + 2 /\ Len(both) + 1 = Len(cmds) + 3
        BY <1>1, <1>4, <1>5
      <3> QED BY <1>6, <1>7, <1>8, <3>1
    <2> QED BY <2>1, <2>2, <2>3, <2>4 DEF CmdsKept
  <1>10. StagesQuiet
    BY <1>6 DEF StagesQuiet, DirWithdraws, Holding, Idle, St
  <1>11. WorkerRests /\ EvtsQuiet
    BY <1>6 DEF WorkerRests, EvtsQuiet
  <1> QED BY <1>1, <1>4, <1>5, <1>6, <1>9, <1>10, <1>11, UIQuiet

\* An answer to an apply ends the wait of its window, and no other's.
LEMMA ApplyArrivesApplies ==
    ASSUME IInv, ApplyArrives, CmdsQuiet
    PROVE Applies'
  <1> DEFINE e == evts[1]
  <1>1. /\ cmds \in Seq(Orders) /\ evts \in Seq(Answers \cup News) /\ stage \in [Windows -> Stages]
        /\ Len(cmds) \in Nat
    BY DEF IInv, Types, TypeOK
  <1>2. /\ evts # <<>> /\ Head(evts) = e /\ e.kind = "applied" /\ evts' = Tail(evts)
        /\ Len(evts) \in Nat \ {0} /\ 1 \in 1..Len(evts)
        /\ \A k \in 1..Len(evts') : k + 1 \in 1..Len(evts) /\ 1 < k + 1 /\ evts'[k] = evts[k + 1]
    BY <1>1, TailFacts DEF ApplyArrives, Receive
  <1>3. UNCHANGED <<worker, wdir, job, child, applies, approved, writes, dir>>
    BY DEF ApplyArrives, Receive, Kept, worker_vars
  <1>4. Awaited(e) /\ e.id \in 1..applies /\ e.outcome \in Outcomes
    BY <1>1, <1>2 DEF IInv, Applies, Answered, Answers, News
  <1>5. stage' = [stage EXCEPT ![e.win] = Done(e.req, e.id, e.outcome)]
    BY <1>2, <1>4 DEF ApplyArrives, Finish, Awaited
  <1>6. /\ stage'[e.win].at = "done" /\ stage'[e.win].id = e.id /\ stage'[e.win].outcome = e.outcome
        /\ \A w \in Windows : w # e.win => stage'[w] = stage[w]
    BY <1>1, <1>4, <1>5 DEF Done, St, Awaited
  <1>7. CmdsKept
    BY <1>3, QuietKeeps
  <1>8. \A k \in 1..Len(cmds') : cmds'[k].kind = "apply" => k \in 1..Len(cmds) /\ cmds'[k] = cmds[k]
    BY <1>7 DEF CmdsKept
  <1>9. \A k \in 1..Len(cmds) : cmds[k].kind = "apply" => cmds[k].win # e.win
    <2>1. \A k \in 1..Len(cmds) : cmds[k].kind = "apply" => e.id < cmds[k].id
      BY <1>2 DEF IInv, Applies, InOrder
    <2>2. \A k \in 1..Len(cmds) : cmds[k].kind = "apply" => Awaited(cmds[k])
      BY DEF IInv, Applies, Queued
    <2> QED BY <1>4, <2>1, <2>2 DEF Awaited
  <1>10. job # NoJob /\ worker = "alive" => job.win # e.win
    BY <1>2, <1>4 DEF IInv, Applies, InOrder, InJob, Awaited
  <1>11. \A k \in 1..Len(evts') : evts'[k].kind = "applied" => evts'[k].win # e.win
    <2>1. \A k \in 1..Len(evts) : 1 < k /\ evts[k].kind = "applied" => e.id < evts[k].id /\ Awaited(evts[k])
      BY <1>2 DEF IInv, Applies, InOrder, Answered
    <2>2. \A k \in 1..Len(evts) : 1 < k /\ evts[k].kind = "applied" => evts[k].win # e.win
      BY <1>4, <2>1 DEF Awaited
    <2> QED BY <1>2, <2>2
  <1>12. Numbered'
    BY <1>3, <1>4, <1>6 DEF IInv, Applies, Numbered, Awaited
  <1>13. Queued'
    <2>1. ASSUME NEW k \in 1..Len(cmds'), cmds'[k].kind = "apply"
          PROVE (Exact(cmds[k]) /\ Awaited(cmds[k]))'
      BY <1>3, <1>6, <1>8, <1>9, <2>1 DEF IInv, Applies, Queued, Exact, Awaited
    <2> QED BY <1>3, <1>7, <2>1 DEF Queued, CmdsKept
  <1>14. InJob'
    BY <1>3, <1>6, <1>10 DEF IInv, Applies, InJob, Exact, Awaited
  <1>15. Answered'
    BY <1>2, <1>3, <1>6, <1>11 DEF IInv, Applies, Answered, Awaited
  <1>16. InOrder'
    <2>1. \A k, l \in 1..Len(cmds') :
            k < l /\ cmds'[k].kind = "apply" /\ cmds'[l].kind = "apply" => cmds'[k].id < cmds'[l].id
      BY <1>8 DEF IInv, Applies, InOrder
    <2>2. \A k, l \in 1..Len(evts') :
            k < l /\ evts'[k].kind = "applied" /\ evts'[l].kind = "applied" => evts'[k].id < evts'[l].id
      <3> SUFFICES ASSUME NEW k \in 1..Len(evts'), NEW l \in 1..Len(evts'),
                          k < l, evts'[k].kind = "applied", evts'[l].kind = "applied"
                   PROVE evts'[k].id < evts'[l].id
        OBVIOUS
      <3>1. k + 1 < l + 1 /\ k + 1 \in 1..Len(evts) /\ l + 1 \in 1..Len(evts)
        BY <1>2
      <3> QED BY <1>2, <3>1 DEF IInv, Applies, InOrder
    <2>3. \A k \in 1..Len(cmds'), l \in 1..Len(evts') :
            cmds'[k].kind = "apply" /\ evts'[l].kind = "applied" => evts'[l].id < cmds'[k].id
      BY <1>2, <1>8 DEF IInv, Applies, InOrder
    <2>4. job' # NoJob =>
            /\ \A k \in 1..Len(cmds') : cmds'[k].kind = "apply" => job'.id < cmds'[k].id
            /\ \A k \in 1..Len(evts') : evts'[k].kind = "applied" => evts'[k].id < job'.id
      BY <1>2, <1>3, <1>8 DEF IInv, Applies, InOrder
    <2> QED BY <2>1, <2>2, <2>3, <2>4 DEF InOrder
  <1>17. Recorded'
    BY <1>3, <1>8 DEF IInv, Applies, Recorded, WrittenIsApproved
  <1>18. Refused'
    <2> SUFFICES ASSUME NEW i \in 1..MaxApplies, ToldRefused(i)'
                 PROVE Over(i)'
      BY DEF Refused
    <2>1. ToldRefused(i)
      BY <1>2, <1>6 DEF ToldRefused
    <2>2. Over(i)
      BY <2>1 DEF IInv, Applies, Refused
    <2> QED BY <1>3, <1>8, <2>2 DEF Over
  <1> QED BY <1>12, <1>13, <1>14, <1>15, <1>16, <1>17, <1>18 DEF Applies

\* When the channel is closed nothing is on its way any more but what a child may still write.
LEMMA SyncApplies ==
    ASSUME IInv, Sync
    PROVE Applies' /\ \A w \in Windows : stage'[w].at \in Holding => stage'[w].req = Asked(w)'
  <1>1. /\ UNCHANGED <<worker, wdir, job, child, applies, approved, writes, dir, cmds, evts, row>>
        /\ evts = <<>>
    BY DEF Sync, worker_vars
  <1>2. stage \in [Windows -> Stages] /\ cmds \in Seq(Orders)
    BY DEF IInv, Types, TypeOK
  <1>3. /\ stage' = [w \in Windows |-> IF Withdrawn(w) THEN Idle ELSE StageNow[w]]
        /\ sel' = [w \in Windows |-> SelAfter(w) /\ ~Withdrawn(w)]
        /\ file' = [w \in Windows |-> FileAfter(w)]
    BY DEF Sync
  <1>4. \A w \in Windows : stage'[w].at \in Holding => stage'[w].req = Asked(w)'
    <2> SUFFICES ASSUME NEW w \in Windows, stage'[w].at \in Holding
                 PROVE stage'[w].req = [file |-> file'[w], row |-> row', sel |-> sel'[w]]
      BY DEF Asked
    <2>1. ~Withdrawn(w) /\ stage'[w] = StageNow[w]
      BY <1>3 DEF Idle, St, Holding
    <2>2. sel'[w] = SelAfter(w)
      <3>1. SelAfter(w) \in BOOLEAN
        BY DEF SelAfter
      <3> QED BY <1>3, <2>1, <3>1
    <2>3. file'[w] = FileAfter(w)
      BY <1>3
    <2> QED BY <1>1, <2>1, <2>2, <2>3 DEF Withdrawn, AskedAfter
  <1>5. CASE ~Stops
    <2>1. \A w \in Windows : stage'[w] = stage[w] \/ (stage[w].at \in Holding /\ stage'[w] = Idle)
      BY <1>2, <1>3, <1>5 DEF StageNow, Withdrawn
    <2>2. StagesQuiet
      BY <2>1 DEF StagesQuiet, Holding, Idle, St
    <2>3. CmdsKept
      BY <1>1, QuietKeeps DEF CmdsQuiet
    <2> QED BY <1>1, <1>4, <2>2, <2>3, UIQuiet DEF WorkerRests, EvtsQuiet
  <1>6. CASE Stops
    <2>1. worker = "dead" /\ cmds = <<>> /\ Len(cmds) = 0 /\ Len(evts) = 0
      BY <1>1, <1>6 DEF Stops, IInv, Applies, Queued
    <2>2. \A w \in Windows :
            \/ stage'[w] = stage[w]
            \/ stage'[w] = Idle
            \/ stage[w].at = "applying" /\ stage'[w] = Done(stage[w].req, stage[w].id, "indeterminate")
      BY <1>2, <1>3, <1>6 DEF StageNow, Lost
    <2> DEFINE done(w) == Done(stage[w].req, stage[w].id, "indeterminate")
    <2>6. /\ Idle.at = "idle" /\ Idle.outcome = "none"
          /\ \A w \in Windows : /\ done(w).at = "done" /\ done(w).id = stage[w].id
                                /\ done(w).outcome = "indeterminate"
      BY DEF Idle, Done, St
    <2>7. \A w \in Windows :
            \/ stage'[w] = stage[w]
            \/ stage'[w].at = "idle" /\ stage'[w].outcome = "none"
            \/ /\ stage[w].at = "applying" /\ stage'[w].at = "done" /\ stage'[w].id = stage[w].id
               /\ stage'[w].outcome = "indeterminate"
      BY <2>2, <2>6
    <2>3. Numbered'
      BY <1>1, <2>7 DEF IInv, Applies, Numbered
    <2>4. Queued' /\ InJob' /\ Answered' /\ InOrder' /\ Recorded'
      BY <1>1, <2>1 DEF IInv, Applies, Queued, InJob, Answered, InOrder, Recorded, WrittenIsApproved, Exact
    <2>5. Refused'
      <3> SUFFICES ASSUME NEW i \in 1..MaxApplies, ToldRefused(i)'
                   PROVE Over(i)'
        BY DEF Refused
      <3>1. ToldRefused(i)
        BY <1>1, <2>1, <2>7 DEF ToldRefused
      <3> QED BY <1>1, <3>1 DEF IInv, Applies, Refused, Over
    <2> QED BY <1>4, <2>3, <2>4, <2>5 DEF Applies
  <1> QED BY <1>5, <1>6

-----------------------------------------------------------------------------
(* Steps of the worker. *)

UIRests == UNCHANGED <<stage, applies, approved, dir>>

LEMMA TailCmds ==
    ASSUME cmds \in Seq(Orders), cmds # <<>>, cmds' = Tail(cmds)
    PROVE /\ cmds' \in Seq(Orders) /\ Len(cmds) \in Nat \ {0} /\ Len(cmds') = Len(cmds) - 1
          /\ Head(cmds) = cmds[1] /\ cmds[1] \in Orders /\ 1 \in 1..Len(cmds)
          /\ \A k \in 1..Len(cmds') : k + 1 \in 1..Len(cmds) /\ 1 < k + 1 /\ cmds'[k] = cmds[k + 1]
  BY TailFacts

\* A command that is no apply is done and answered, or was a change of the data directory.
LEMMA PlainStep ==
    ASSUME IInv, UIRests, worker = "alive", cmds # <<>>, cmds' = Tail(cmds), cmds[1].kind # "apply",
           wdir' = IF cmds[1].kind = "setdir" THEN cmds[1].dir ELSE wdir,
           job = NoJob, UNCHANGED <<worker, job, child, writes>>,
           evts' = evts \/ \E e \in News : evts' = Append(evts, e)
    PROVE Applies'
  <1>1. cmds \in Seq(Orders) /\ evts \in Seq(Answers \cup News) /\ Len(evts) \in Nat
    BY DEF IInv, Types
  <1>2. /\ cmds' \in Seq(Orders) /\ Len(cmds) \in Nat \ {0} /\ Len(cmds') = Len(cmds) - 1
        /\ Head(cmds) = cmds[1]
        /\ \A k \in 1..Len(cmds') : k + 1 \in 1..Len(cmds) /\ cmds'[k] = cmds[k + 1]
    BY <1>1, TailCmds
  <1>3. \A k \in 1..Len(evts') : evts'[k].kind = "applied" => k \in 1..Len(evts) /\ evts'[k] = evts[k]
    <2>1. CASE evts' = evts
      BY <2>1
    <2>2. CASE \E e \in News : evts' = Append(evts, e)
      <3> PICK e \in News : evts' = Append(evts, e)
        BY <2>2
      <3>1. /\ Len(evts') = Len(evts) + 1 /\ evts'[Len(evts) + 1] = e /\ e.kind # "applied"
            /\ \A k \in 1..Len(evts) : evts'[k] = evts[k]
        BY <1>1, AppendFacts DEF News
      <3>2. \A k \in 1..Len(evts') : k \in 1..Len(evts) \/ k = Len(evts) + 1
        BY <1>1, <3>1
      <3> QED BY <3>1, <3>2
    <2> QED BY <2>1, <2>2
  <1>4. Queued'
    <2>1. \A k \in 1..Len(cmds) : \A d : DirOn(cmds, wdir, k + 1, d) => DirOn(cmds', wdir', k, d)
      BY <1>1, <1>2, DirOnTail
    <2>2. DirOn(cmds', wdir', Len(cmds') + 1, dir')
      <3>1. DirOn(cmds, wdir, Len(cmds) + 1, dir) /\ Len(cmds') + 1 = Len(cmds) /\ Len(cmds) \in 1..Len(cmds)
        BY <1>2 DEF IInv, Applies, Queued
      <3> QED BY <2>1, <3>1 DEF UIRests
    <2>3. ASSUME NEW k \in 1..Len(cmds'), cmds'[k].kind = "apply"
          PROVE (Exact(cmds[k]) /\ Awaited(cmds[k]))'
      <3>1. Exact(cmds[k + 1]) /\ Awaited(cmds[k + 1])
        BY <1>2, <2>3 DEF IInv, Applies, Queued
      <3> QED BY <1>2, <3>1 DEF Exact, Awaited, UIRests
    <2>4. ASSUME NEW k \in 1..Len(cmds'), cmds'[k].kind = "apply"
          PROVE DirOn(cmds', wdir', k, approved'[cmds'[k].id].dir)
      <3>1. DirOn(cmds, wdir, k + 1, approved[cmds[k + 1].id].dir) /\ k \in 1..Len(cmds)
        BY <1>2, <2>4 DEF IInv, Applies, Queued
      <3>2. approved'[cmds'[k].id].dir = approved[cmds[k + 1].id].dir
        BY <1>2 DEF UIRests
      <3> QED BY <2>1, <3>1, <3>2
    <2> QED BY <2>2, <2>3, <2>4 DEF Queued
  <1>5. Numbered' /\ InJob'
    BY DEF IInv, Applies, Numbered, InJob, UIRests
  <1>6. Answered'
    BY <1>3 DEF IInv, Applies, Answered, Awaited, UIRests
  <1>7. InOrder'
    <2>1. ASSUME NEW k \in 1..Len(cmds'), NEW l \in 1..Len(cmds'),
                 k < l, cmds'[k].kind = "apply", cmds'[l].kind = "apply"
          PROVE cmds'[k].id < cmds'[l].id
      <3>1. k + 1 < l + 1
        BY <2>1
      <3> QED BY <1>2, <2>1, <3>1 DEF IInv, Applies, InOrder
    <2>2. \A k, l \in 1..Len(evts') :
            k < l /\ evts'[k].kind = "applied" /\ evts'[l].kind = "applied" => evts'[k].id < evts'[l].id
      BY <1>3 DEF IInv, Applies, InOrder
    <2>3. \A k \in 1..Len(cmds'), l \in 1..Len(evts') :
            cmds'[k].kind = "apply" /\ evts'[l].kind = "applied" => evts'[l].id < cmds'[k].id
      BY <1>2, <1>3 DEF IInv, Applies, InOrder
    <2> QED BY <2>1, <2>2, <2>3 DEF InOrder
  <1>8. Recorded'
    BY <1>2 DEF IInv, Applies, Recorded, WrittenIsApproved, UIRests
  <1>9. Refused'
    <2> SUFFICES ASSUME NEW i \in 1..MaxApplies, ToldRefused(i)'
                 PROVE Over(i)'
      BY DEF Refused
    <2>1. ToldRefused(i)
      BY <1>3 DEF ToldRefused, UIRests
    <2>2. Over(i)
      BY <2>1 DEF IInv, Applies, Refused
    <2> QED BY <1>2, <2>2 DEF Over
  <1> QED BY <1>4, <1>5, <1>6, <1>7, <1>8, <1>9 DEF Applies

\* An apply is taken: it is the oldest queued, and finds the data directory of its confirmation.
LEMMA TakeApplyApplies ==
    ASSUME IInv, TakeApply
    PROVE Applies'
  <1>1. cmds \in Seq(Orders)
    BY DEF IInv, Types
  <1>2. /\ UNCHANGED <<stage, applies, approved, dir, evts, worker, wdir, child, writes>>
        /\ worker = "alive" /\ job = NoJob /\ cmds # <<>> /\ cmds' = Tail(cmds) /\ job' = Head(cmds)
        /\ Head(cmds).kind = "apply"
    BY DEF TakeApply, Takes, Shift, Works, shown
  <1>3. /\ cmds' \in Seq(Orders) /\ Len(cmds) \in Nat \ {0} /\ Len(cmds') = Len(cmds) - 1
        /\ job' = cmds[1] /\ 1 \in 1..Len(cmds) /\ cmds[1].kind = "apply"
        /\ \A k \in 1..Len(cmds') : k + 1 \in 1..Len(cmds) /\ 1 < k + 1 /\ cmds'[k] = cmds[k + 1]
    BY <1>1, <1>2, TailCmds
  <1>4. /\ Exact(cmds[1]) /\ Awaited(cmds[1]) /\ DirOn(cmds, wdir, 1, approved[cmds[1].id].dir)
        /\ \A k \in 1..Len(cmds') : cmds'[k].kind = "apply" => cmds[1].id < cmds'[k].id
    BY <1>3 DEF IInv, Applies, Queued, InOrder
  <1>5. wdir = approved[cmds[1].id].dir
    <2>1. \A j \in 1..1-1 : FALSE
      OBVIOUS
    <2> QED BY <1>4, <2>1 DEF DirOn
  <1>6. child = "none"
    BY <1>2 DEF IInv, Applies, InJob, Types, TypeOK
  <1>7. Queued'
    <2>1. \A k \in 1..Len(cmds) : \A d : DirOn(cmds, wdir, k + 1, d) => DirOn(cmds', wdir', k, d)
      BY <1>1, <1>2, DirOnTail
    <2>2. DirOn(cmds', wdir', Len(cmds') + 1, dir')
      <3>1. DirOn(cmds, wdir, Len(cmds) + 1, dir) /\ Len(cmds') + 1 = Len(cmds) /\ Len(cmds) \in 1..Len(cmds)
        BY <1>2, <1>3 DEF IInv, Applies, Queued
      <3> QED BY <1>2, <2>1, <3>1
    <2>3. ASSUME NEW k \in 1..Len(cmds'), cmds'[k].kind = "apply"
          PROVE (Exact(cmds[k]) /\ Awaited(cmds[k]))'
      <3>1. Exact(cmds[k + 1]) /\ Awaited(cmds[k + 1])
        BY <1>3, <2>3 DEF IInv, Applies, Queued
      <3> QED BY <1>2, <1>3, <3>1 DEF Exact, Awaited
    <2>4. ASSUME NEW k \in 1..Len(cmds'), cmds'[k].kind = "apply"
          PROVE DirOn(cmds', wdir', k, approved'[cmds'[k].id].dir)
      <3>1. DirOn(cmds, wdir, k + 1, approved[cmds[k + 1].id].dir) /\ k \in 1..Len(cmds)
        BY <1>3, <2>4 DEF IInv, Applies, Queued
      <3>2. approved'[cmds'[k].id].dir = approved[cmds[k + 1].id].dir
        BY <1>2, <1>3
      <3> QED BY <2>1, <3>1, <3>2
    <2> QED BY <1>2, <2>2, <2>3, <2>4 DEF Queued
  <1>8. Numbered'
    BY <1>2 DEF IInv, Applies, Numbered
  <1>9. InJob'
    BY <1>2, <1>3, <1>4, <1>5, <1>6 DEF InJob, Exact, Awaited
  <1>10. Answered'
    BY <1>2 DEF IInv, Applies, Answered, Awaited
  <1>11. InOrder'
    <2>1. ASSUME NEW k \in 1..Len(cmds'), NEW l \in 1..Len(cmds'),
                 k < l, cmds'[k].kind = "apply", cmds'[l].kind = "apply"
          PROVE cmds'[k].id < cmds'[l].id
      <3>1. k + 1 < l + 1
        BY <2>1
      <3> QED BY <1>3, <2>1, <3>1 DEF IInv, Applies, InOrder
    <2>2. \A k \in 1..Len(cmds'), l \in 1..Len(evts) :
            cmds'[k].kind = "apply" /\ evts[l].kind = "applied" => evts[l].id < cmds'[k].id
      BY <1>3 DEF IInv, Applies, InOrder
    <2>3. \A l \in 1..Len(evts) : evts[l].kind = "applied" => evts[l].id < cmds[1].id
      BY <1>3 DEF IInv, Applies, InOrder
    <2>4. \A k, l \in 1..Len(evts) :
            k < l /\ evts[k].kind = "applied" /\ evts[l].kind = "applied" => evts[k].id < evts[l].id
      BY DEF IInv, Applies, InOrder
    <2> QED BY <1>2, <1>3, <1>4, <2>1, <2>2, <2>3, <2>4 DEF InOrder
  <1>12. Recorded'
    <2>1. \A x \in writes : x.id < cmds[1].id
      BY <1>3 DEF IInv, Applies, Recorded
    <2>2. \A x \in writes : x.id \in Nat
      BY DEF IInv, Types, Written
    <2>3. \A x \in writes : x.id # cmds[1].id
      BY <2>1, <2>2
    <2>4. \A x \in writes : \A k \in 1..Len(cmds') : cmds'[k].kind = "apply" => x.id < cmds'[k].id
      BY <1>3 DEF IInv, Applies, Recorded
    <2> QED BY <1>2, <1>3, <2>3, <2>4 DEF IInv, Applies, Recorded, WrittenIsApproved
  <1>13. Refused'
    <2> SUFFICES ASSUME NEW i \in 1..MaxApplies, ToldRefused(i)'
                 PROVE Over(i)'
      BY DEF Refused
    <2>1. ToldRefused(i)
      BY <1>2 DEF ToldRefused
    <2>2. Over(i)
      BY <2>1 DEF IInv, Applies, Refused
    <2> QED BY <1>2, <1>3, <2>2 DEF Over
  <1> QED BY <1>7, <1>8, <1>9, <1>10, <1>11, <1>12, <1>13 DEF Applies

\* What is in hand is answered; "not applied" only if its child has not written.
LEMMA AnswerApplies ==
    ASSUME IInv, UIRests, InHand, NEW o \in Outcomes, AnswerApply(o), child' = "none", writes' = writes,
           o = "not_applied" => child # "wrote"
    PROVE Applies' /\ evts' \in Seq(Answers \cup News)
  <1>1. /\ evts \in Seq(Answers \cup News) /\ Len(evts) \in Nat /\ job \in Orders
        /\ worker = "alive" /\ job # NoJob /\ MaxApplies \in Nat
    BY AppliesAssumption DEF IInv, Types, InHand
  <1> DEFINE e == Event("applied", job.win, job.req, 0, job.id, o, NoRow)
  <1>2. /\ e \in Answers \cup News /\ e.kind = "applied" /\ e.win = job.win /\ e.req = job.req
        /\ e.id = job.id /\ e.outcome = o
    BY <1>1 DEF Event, Answers, Orders
  <1>3. /\ evts' = Append(evts, e) /\ job' = NoJob
        /\ UNCHANGED <<cmds, worker, wdir, stage, applies, approved, dir>>
    BY DEF AnswerApply, UIRests
  <1> HIDE DEF e
  <1>4. /\ evts' \in Seq(Answers \cup News) /\ Len(evts') = Len(evts) + 1 /\ evts'[Len(evts) + 1] = e
        /\ \A k \in 1..Len(evts) : evts'[k] = evts[k]
    BY <1>1, <1>2, <1>3, AppendFacts
  <1>5. \A k \in 1..Len(evts') :
            \/ k \in 1..Len(evts) /\ evts'[k] = evts[k]
            \/ k = Len(evts) + 1 /\ evts'[k] = e
    BY <1>1, <1>4
  <1>6. /\ Exact(job) /\ Awaited(job)
        /\ \A k \in 1..Len(cmds) : cmds[k].kind = "apply" => job.id < cmds[k].id
        /\ \A k \in 1..Len(evts) : evts[k].kind = "applied" => evts[k].id < job.id
    BY <1>1 DEF IInv, Applies, InJob, InOrder
  <1>7. job.id \in 1..applies /\ applies \in Nat
    BY <1>1, <1>6 DEF Exact, IInv, Types, TypeOK
  <1>8. Numbered' /\ InJob'
    BY <1>3 DEF IInv, Applies, Numbered, InJob
  <1>9. Queued'
    BY <1>3 DEF IInv, Applies, Queued, Exact, Awaited
  <1>10. Answered'
    <2>1. \A k \in 1..Len(evts') : evts'[k].kind = "applied" =>
            /\ evts'[k].id \in 1..applies /\ evts'[k].win \in Windows
            /\ stage[evts'[k].win].at = "applying" /\ stage[evts'[k].win].id = evts'[k].id
            /\ stage[evts'[k].win].req = evts'[k].req
      BY <1>2, <1>5, <1>6, <1>7 DEF IInv, Applies, Answered, Awaited
    <2> QED BY <1>3, <2>1 DEF Answered, Awaited
  <1>11. InOrder'
    <2>1. ASSUME NEW k \in 1..Len(evts'), NEW l \in 1..Len(evts'),
                 k < l, evts'[k].kind = "applied", evts'[l].kind = "applied"
          PROVE evts'[k].id < evts'[l].id
      <3>1. k \in 1..Len(evts) /\ evts'[k] = evts[k]
        BY <1>1, <1>4, <1>5, <2>1
      <3>2. CASE l \in 1..Len(evts) /\ evts'[l] = evts[l]
        BY <2>1, <3>1, <3>2 DEF IInv, Applies, InOrder
      <3>3. CASE evts'[l] = e
        BY <1>2, <1>6, <2>1, <3>1, <3>3
      <3> QED BY <1>5, <3>2, <3>3
    <2>2. \A k \in 1..Len(cmds), l \in 1..Len(evts') :
            cmds[k].kind = "apply" /\ evts'[l].kind = "applied" => evts'[l].id < cmds[k].id
      BY <1>2, <1>5, <1>6 DEF IInv, Applies, InOrder
    <2>3. \A k, l \in 1..Len(cmds) :
            k < l /\ cmds[k].kind = "apply" /\ cmds[l].kind = "apply" => cmds[k].id < cmds[l].id
      BY DEF IInv, Applies, InOrder
    <2> QED BY <1>3, <2>1, <2>2, <2>3 DEF InOrder
  <1>12. Recorded'
    <2>1. \A x \in writes : x.id # 0
      BY DEF IInv, Types, Written
    <2>2. NoJob.id = 0
      BY DEF NoJob, Plain, Command
    <2> QED BY <1>3, <2>1, <2>2 DEF IInv, Applies, Recorded, WrittenIsApproved
  <1>13. Refused'
    <2> SUFFICES ASSUME NEW i \in 1..MaxApplies, ToldRefused(i)'
                 PROVE Over(i)'
      BY DEF Refused
    <2>1. CASE ToldRefused(i)
      BY <1>3, <2>1 DEF IInv, Applies, Refused, Over
    <2>2. CASE ~ToldRefused(i)
      <3>1. i = job.id /\ o = "not_applied"
        BY <1>2, <1>3, <1>5, <2>2 DEF ToldRefused
      <3>2. \A x \in writes : x.id # i
        BY <3>1 DEF IInv, Applies, Recorded
      <3>3. \A k \in 1..Len(cmds) : cmds[k].kind = "apply" => cmds[k].id # i
        BY <1>6, <1>7, <3>1
      <3> QED BY <1>3, <3>2, <3>3 DEF Over
    <2> QED BY <2>1, <2>2
  <1> QED BY <1>4, <1>8, <1>9, <1>10, <1>11, <1>12, <1>13 DEF Applies

LEMMA SpawnApplies ==
    ASSUME IInv, Spawn
    PROVE Applies'
  <1>1. /\ UNCHANGED <<stage, applies, approved, dir, cmds, evts, worker, wdir, job, writes>>
        /\ job # NoJob /\ child = "none" /\ child' = "running"
    BY DEF Spawn, InHand, Works, shown
  <1>2. Numbered' /\ Queued' /\ InJob' /\ Answered' /\ InOrder'
    BY <1>1 DEF IInv, Applies, Numbered, Queued, InJob, Answered, InOrder, Exact, Awaited
  <1>3. Recorded'
    BY <1>1 DEF IInv, Applies, Recorded, WrittenIsApproved
  <1>4. Refused'
    BY <1>1 DEF IInv, Applies, Refused, ToldRefused, Over
  <1> QED BY <1>2, <1>3, <1>4 DEF Applies

\* The child writes what its command says, in the directory it was started for.
LEMMA ChildWritesApplies ==
    ASSUME IInv, ChildWrites
    PROVE Applies'
  <1> DEFINE x == [id |-> job.id, req |-> job.req, seen |-> world, dir |-> wdir]
  <1>1. /\ UNCHANGED <<stage, applies, approved, dir, cmds, evts, worker, wdir, job>>
        /\ child = "running" /\ child' = "wrote" /\ world = job.seen /\ writes' = writes \cup {x}
    BY DEF ChildWrites, Works, shown
  <1>2. job # NoJob /\ Exact(job) /\ wdir = approved[job.id].dir
    BY <1>1 DEF IInv, Applies, InJob
  <1>3. Numbered' /\ Queued' /\ InJob' /\ Answered' /\ InOrder'
    BY <1>1, <1>2 DEF IInv, Applies, Numbered, Queued, InJob, Answered, InOrder, Exact, Awaited
  <1>4. Recorded'
    <2>1. x.id = job.id /\ x.req = job.req /\ x.seen = job.seen /\ x.dir = wdir
      BY <1>1
    <2> HIDE DEF x
    <2>2. WrittenIsApproved'
      BY <1>1, <1>2, <2>1 DEF IInv, Applies, Recorded, WrittenIsApproved, Confirmed, Exact
    <2>3. \A k \in 1..Len(cmds) : cmds[k].kind = "apply" => x.id < cmds[k].id
      BY <1>2, <2>1 DEF IInv, Applies, InOrder
    <2> QED BY <1>1, <1>2, <2>1, <2>2, <2>3 DEF IInv, Applies, Recorded, Exact
  <1>5. Refused'
    BY <1>1, <1>2 DEF IInv, Applies, Refused, ToldRefused, Over
  <1> QED BY <1>3, <1>4, <1>5 DEF Applies

LEMMA DiesApplies ==
    ASSUME IInv, Dies
    PROVE Applies'
  <1>1. /\ UNCHANGED <<stage, applies, approved, dir, evts, wdir, job, child, writes>>
        /\ worker' = "closing" /\ cmds' = <<>> /\ Len(cmds') = 0
    BY DEF Dies, Works, shown
  <1>2. Numbered' /\ Queued' /\ InJob' /\ Answered'
    BY <1>1 DEF IInv, Applies, Numbered, Queued, InJob, Answered, Exact, Awaited
  <1>3. InOrder' /\ Recorded'
    BY <1>1 DEF IInv, Applies, InOrder, Recorded, WrittenIsApproved
  <1>4. Refused'
    BY <1>1 DEF IInv, Applies, Refused, ToldRefused, Over
  <1> QED BY <1>2, <1>3, <1>4 DEF Applies

\* Nothing of an apply changes with the end of the event channel, the body or the bus.
LEMMA RestApplies ==
    ASSUME IInv, UNCHANGED <<stage, applies, approved, dir, cmds, evts, wdir, job, child, writes>>,
           worker' = worker \/ (worker # "alive" /\ worker' # "alive")
    PROVE Applies'
  <1>1. Numbered' /\ Queued' /\ InJob' /\ Answered'
    BY DEF IInv, Applies, Numbered, Queued, InJob, Answered, Exact, Awaited
  <1>2. InOrder' /\ Recorded'
    BY DEF IInv, Applies, InOrder, Recorded, WrittenIsApproved
  <1>3. Refused'
    BY DEF IInv, Applies, Refused, ToldRefused, Over
  <1> QED BY <1>1, <1>2, <1>3 DEF Applies

-----------------------------------------------------------------------------
(* The clicks and events that send no apply: each keeps its variables'     *)
(* types and is a quiet step.                                              *)

Shapes ==
    /\ stage \in [Windows -> Stages] /\ sel \in [Windows -> BOOLEAN]
    /\ file \in [Windows -> Files \union Points \union {NoFile}]
    /\ pending \in Nat

Quiet == WorkerRests /\ CmdsQuiet /\ EvtsQuiet /\ StagesQuiet /\ dir' = dir

LEMMA QuietInv ==
    ASSUME IInv, Quiet, Shapes', pc' = "poll", row' \in Rows \cup {NoRow},
           UNCHANGED <<gone, bus, world>>
    PROVE IInv'
  <1>1. Applies'
    BY QuietKeeps, UIQuiet DEF Quiet, WorkerRests
  <1>2. Confirmed'
    BY DEF IInv, Confirmed, Quiet, WorkerRests
  <1>3. cmds' \in Seq(Orders) /\ evts' \in Seq(Answers \cup News)
    BY CmdsFacts, EvtsFacts DEF IInv, Types, Quiet
  <1>4. TypeOK'
    BY DEF IInv, Types, TypeOK, Shapes, Quiet, WorkerRests
  <1>5. Types'
    BY <1>3, <1>4 DEF IInv, Types, Quiet, WorkerRests
  <1> QED BY <1>1, <1>2, <1>5 DEF IInv

LEMMA FrameFacts ==
    ASSUME IInv, Frame
    PROVE /\ pc' = "poll" /\ row' = row /\ row' \in Rows \cup {NoRow} /\ EvtsQuiet
          /\ UNCHANGED <<gone, bus, world, worker, wdir, job, child, writes>>
  BY DEF IInv, Types, TypeOK, Frame, EvtsQuiet, worker_vars, world_vars

LEMMA PlainOrders ==
    /\ Plain("refresh") \in Orders /\ Plain("refresh").kind = "refresh"
    /\ Plain("discover") \in Orders /\ Plain("discover").kind = "discover"
  BY AppliesAssumption DEF Plain, Command, Orders, Senders, Request, NoReq, AllDirs

LEMMA SendQuiet ==
    ASSUME NEW c \in Orders, c.kind \notin {"apply", "setdir"}, NEW n \in Nat, Send(n, c)
    PROVE CmdsQuiet /\ pending' \in Nat
  BY DEF Send, Heard, CmdsQuiet

\* A window that waits for no apply gets another stage that is none.
LEMMA SetStage ==
    ASSUME IInv, NEW w \in Windows, stage[w].at # "applying",
           NEW at \in {"idle", "planning", "planned", "aside", "confirm"}, NEW r \in Request,
           NEW n \in Nat, NEW f \in BOOLEAN,
           stage' = [stage EXCEPT ![w] = St(at, r, n, f, 0, "none")]
    PROVE StagesQuiet /\ stage' \in [Windows -> Stages]
  <1> DEFINE v == St(at, r, n, f, 0, "none")
  <1>1. v \in Stages
    BY AppliesAssumption DEF St, Stages
  <1>2. v.at = at /\ v.outcome = "none"
    BY DEF St
  <1>3. stage \in [Windows -> Stages]
    BY DEF IInv, Types, TypeOK
  <1> HIDE DEF v
  <1>4. stage' = [stage EXCEPT ![w] = v]
    BY DEF v
  <1>5. stage'[w] = v /\ \A u \in Windows \ {w} : stage'[u] = stage[u]
    BY <1>3, <1>4
  <1>6. stage' \in [Windows -> Stages]
    BY <1>1, <1>3, <1>4
  <1>7. StagesQuiet
    BY <1>2, <1>5 DEF StagesQuiet
  <1> QED BY <1>6, <1>7

LEMMA SetIdle ==
    ASSUME IInv, NEW w \in Windows, stage[w].at # "applying", stage' = [stage EXCEPT ![w] = Idle]
    PROVE StagesQuiet /\ stage' \in [Windows -> Stages]
  <1>1. NoReq \in Request
    BY DEF NoReq, Request
  <1>2. stage' = [stage EXCEPT ![w] = St("idle", NoReq, 0, FALSE, 0, "none")]
    BY DEF Idle
  <1> QED BY <1>1, <1>2, SetStage

LEMMA SetSel ==
    ASSUME IInv, NEW w, NEW b \in BOOLEAN, sel' = [sel EXCEPT ![w] = b]
    PROVE sel' \in [Windows -> BOOLEAN]
  BY DEF IInv, Types, TypeOK

LEMMA Held ==
    ASSUME IInv, NEW w \in Windows
    PROVE stage[w].req \in Request /\ stage[w].seen \in Nat /\ file[w] \in Files \union Points \union {NoFile}
  BY DEF IInv, Types, TypeOK, Stages

LEMMA BeginPlanQuiet ==
    ASSUME IInv, NEW w \in Windows, stage[w].at # "applying", NEW r \in Request, BeginPlan(w, r)
    PROVE /\ CmdsQuiet /\ StagesQuiet /\ pending' \in Nat
          /\ stage' \in [Windows -> Stages] /\ sel' \in [Windows -> BOOLEAN]
  <1> DEFINE c == PlanCmd(w, r)
  <1>1. c \in Orders /\ c.kind = "plan"
    BY AppliesAssumption DEF PlanCmd, Command, Orders, Senders, AllDirs
  <1>2. CmdsQuiet /\ pending' \in Nat
    <2>1. pending \in Nat /\ Send(pending, c)
      BY DEF IInv, Types, TypeOK, BeginPlan
    <2> HIDE DEF c
    <2> QED BY <1>1, <2>1, SendQuiet
  <1>3. StagesQuiet /\ stage' \in [Windows -> Stages]
    <2>1. CASE worker = "alive"
      <3>1. stage' = [stage EXCEPT ![w] = St("planning", r, 0, FALSE, 0, "none")]
        BY <2>1 DEF BeginPlan, Heard, Planning
      <3> QED BY <3>1, SetStage
    <2>2. CASE worker # "alive"
      <3>1. stage' = [stage EXCEPT ![w] = Idle]
        BY <2>2 DEF BeginPlan, Heard
      <3> QED BY <3>1, SetIdle
    <2> QED BY <2>1, <2>2
  <1>4. sel' \in [Windows -> BOOLEAN]
    <2>1. (Heard /\ r.sel) \in BOOLEAN
      OBVIOUS
    <2> QED BY <2>1, SetSel DEF BeginPlan
  <1> QED BY <1>2, <1>3, <1>4

LEMMA AskedIsRequest ==
    ASSUME IInv, NEW w \in Windows
    PROVE /\ Asked(w) \in Request
          /\ \A b \in BOOLEAN : [file |-> file[w], row |-> row, sel |-> b] \in Request
  <1>1. /\ sel[w] \in BOOLEAN /\ row \in Rows \cup {NoRow}
        /\ file[w] \in Files \union Points \union {NoFile}
    BY DEF IInv, Types, TypeOK
  <1> QED BY <1>1, Zenon DEF Asked, Request

LEMMA ListedIsFile ==
    ASSUME IInv, NEW f \in Listed
    PROVE f \in Files \union Points \union {NoFile}
  BY DEF IInv, Types, Written, Listed, Point, Points

-----------------------------------------------------------------------------
LEMMA NoClickInv ==
    ASSUME IInv, NoClick
    PROVE IInv'
  <1>1. Quiet /\ Shapes'
    BY FrameFacts DEF NoClick, Calm, shown, Quiet, WorkerRests, CmdsQuiet, StagesQuiet, Shapes, IInv, Types, TypeOK
  <1> QED BY <1>1, QuietInv, FrameFacts DEF NoClick

LEMMA PickInv ==
    ASSUME IInv, NEW w \in Windows, NEW f \in Listed, Pick(w, f)
    PROVE IInv'
  <1>1. file' \in [Windows -> Files \union Points \union {NoFile}]
    BY ListedIsFile DEF Pick, IInv, Types, TypeOK
  <1>2. Quiet /\ Shapes'
    BY <1>1, FrameFacts DEF Pick, Calm, Quiet, WorkerRests, CmdsQuiet, StagesQuiet, Shapes, IInv, Types, TypeOK
  <1> QED BY <1>2, QuietInv, FrameFacts DEF Pick

LEMMA StartFromInv ==
    ASSUME IInv, NEW f \in Listed, StartFrom(f)
    PROVE IInv'
  <1>1. file' \in [Windows -> Files \union Points \union {NoFile}]
    BY ListedIsFile DEF StartFrom, IInv, Types, TypeOK
  <1>2. sel' \in [Windows -> BOOLEAN]
    BY SetSel DEF StartFrom
  <1>3. Quiet /\ Shapes'
    BY <1>1, <1>2, FrameFacts DEF StartFrom, Calm, Quiet, WorkerRests, CmdsQuiet, StagesQuiet, Shapes, IInv, Types, TypeOK
  <1> QED BY <1>3, QuietInv, FrameFacts DEF StartFrom

\* The clicks that plan: whatever the request, the plan is begun by a window that waits for none.
LEMMA PlanningInv ==
    ASSUME IInv, Frame, UNCHANGED <<dir, applies, approved>>,
           NEW w \in Windows, stage[w].at # "applying", NEW r \in Request, BeginPlan(w, r),
           file' \in [Windows -> Files \union Points \union {NoFile}]
    PROVE IInv'
  <1>1. Quiet /\ Shapes'
    BY BeginPlanQuiet, FrameFacts DEF Quiet, WorkerRests, Shapes
  <1> QED BY <1>1, QuietInv, FrameFacts

LEMMA PlanInv ==
    ASSUME IInv, NEW w \in Windows, Plan(w)
    PROVE IInv'
  <1>1. Asked(w) \in Request /\ file' = file
    BY AskedIsRequest DEF Plan, Sends
  <1>2. file' \in [Windows -> Files \union Points \union {NoFile}]
    BY <1>1 DEF IInv, Types, TypeOK
  <1> QED BY <1>1, <1>2, PlanningInv DEF Plan, Sends

LEMMA PlanWithInv ==
    ASSUME IInv, NEW w \in Windows, stage[w].at # "applying", NEW b \in BOOLEAN,
           Frame, Sends, PlanWith(w, b)
    PROVE IInv'
  <1> DEFINE r == [file |-> file[w], row |-> row, sel |-> b]
  <1>1. r \in Request
    BY AskedIsRequest
  <1>2. file' \in [Windows -> Files \union Points \union {NoFile}]
    BY DEF IInv, Types, TypeOK, Sends
  <1>3. BeginPlan(w, r) /\ UNCHANGED <<dir, applies, approved>>
    BY DEF PlanWith, Sends
  <1> HIDE DEF r
  <1> QED BY <1>1, <1>2, <1>3, PlanningInv

\* The clicks that turn a plan into a question and back.
LEMMA TurnInv ==
    ASSUME IInv, Frame, Calm, UNCHANGED <<sel, file, pair>>,
           NEW w \in Windows, stage[w].at # "applying",
           NEW at \in {"planned", "aside", "confirm"}, NEW f \in BOOLEAN,
           stage' = [stage EXCEPT ![w] = St(at, stage[w].req, stage[w].seen, f, 0, "none")]
    PROVE IInv'
  <1>1. StagesQuiet /\ stage' \in [Windows -> Stages]
    BY Held, SetStage
  <1>2. Quiet /\ Shapes'
    BY <1>1, FrameFacts DEF Calm, Quiet, WorkerRests, CmdsQuiet, Shapes, IInv, Types, TypeOK
  <1> QED BY <1>2, QuietInv, FrameFacts

LEMMA TurnsInv ==
    ASSUME IInv
    PROVE /\ \A w \in Windows : AskApply(w) \/ CancelConfirmation(w) => IInv'
          /\ "transplant" \in Windows /\ AskOptIn => IInv'
          /\ "restore" \in Windows /\ Toggle => IInv'
  <1>1. ASSUME NEW w \in Windows, AskApply(w) PROVE IInv'
    BY <1>1, TurnInv DEF AskApply
  <1>2. ASSUME NEW w \in Windows, CancelConfirmation(w) PROVE IInv'
    BY <1>2, TurnInv DEF CancelConfirmation
  <1>3. ASSUME "transplant" \in Windows, AskOptIn PROVE IInv'
    BY <1>3, TurnInv DEF AskOptIn
  <1>4. ASSUME "restore" \in Windows, Toggle PROVE IInv'
    <2>1. (~stage["restore"].fewer) \in BOOLEAN /\ stage["restore"].at # "applying"
      BY <1>4 DEF Toggle
    <2> QED BY <1>4, <2>1, TurnInv DEF Toggle
  <1> QED BY <1>1, <1>2, <1>3, <1>4

LEMMA SelectionsInv ==
    ASSUME IInv
    PROVE /\ "transplant" \in Windows /\ (ConfirmOptIn \/ RemoveOptIn) => IInv'
          /\ "restore" \in Windows /\ (PlanSelection \/ PlanEverything) => IInv'
  <1>1. ASSUME "transplant" \in Windows, ConfirmOptIn \/ RemoveOptIn PROVE IInv'
    BY <1>1, PlanWithInv DEF ConfirmOptIn, RemoveOptIn
  <1>2. ASSUME "restore" \in Windows, PlanSelection \/ PlanEverything PROVE IInv'
    BY <1>2, PlanWithInv DEF PlanSelection, PlanEverything
  <1> QED BY <1>1, <1>2

LEMMA DiscardInv ==
    ASSUME IInv, NEW w \in Windows, Discard(w)
    PROVE IInv'
  <1>1. StagesQuiet /\ stage' \in [Windows -> Stages]
    BY SetIdle DEF Discard, GoIdle
  <1>2. sel' \in [Windows -> BOOLEAN]
    BY SetSel DEF Discard, GoIdle
  <1>3. Quiet /\ Shapes'
    BY <1>1, <1>2, FrameFacts DEF Discard, Calm, Quiet, WorkerRests, CmdsQuiet, Shapes, IInv, Types, TypeOK
  <1> QED BY <1>3, QuietInv, FrameFacts DEF Discard

\* An undo names the restore point of an apply that was confirmed.
LEMMA UndoInv ==
    ASSUME IInv, NEW w \in Windows, Undo(w)
    PROVE IInv'
  <1> DEFINE f == Point(stage[w].id)
             r == [file |-> f, row |-> row, sel |-> TRUE]
  <1>1. /\ "restore" \in Windows /\ stage["restore"].at # "applying" /\ stage[w].id \in 1..MaxApplies
        /\ row \in Rows \cup {NoRow}
    <2>1. stage[w].id \in 1..applies /\ applies \in 0..MaxApplies
      BY DEF Undo, IInv, Applies, Numbered, Types, TypeOK
    <2>2. stage[w].id \in 1..MaxApplies
      BY <2>1, AppliesAssumption
    <2> QED BY <2>2 DEF Undo, IInv, Types, TypeOK
  <1>2. f \in Files \union Points \union {NoFile}
    BY <1>1 DEF Point, Points
  <1>3. r \in Request
    BY <1>1, <1>2 DEF Request
  <1>4. /\ Frame /\ UNCHANGED <<dir, applies, approved>>
        /\ file' = [file EXCEPT !["restore"] = f]
        /\ IF row \in Unaimed
           THEN /\ stage' = [stage EXCEPT !["restore"] = Idle]
                /\ sel' = [sel EXCEPT !["restore"] = TRUE]
                /\ UNCHANGED <<cmds, pending>>
           ELSE BeginPlan("restore", r)
    BY DEF Undo, UndoOffer
  <1> HIDE DEF f, r
  <1>5. file' \in [Windows -> Files \union Points \union {NoFile}]
    BY <1>2, <1>4 DEF IInv, Types, TypeOK
  <1>6. CASE row \in Unaimed
    <2>1. StagesQuiet /\ stage' \in [Windows -> Stages]
      BY <1>1, <1>4, <1>6, SetIdle
    <2>2. sel' \in [Windows -> BOOLEAN]
      BY <1>4, <1>6, SetSel
    <2>3. Quiet /\ Shapes'
      BY <1>4, <1>5, <1>6, <2>1, <2>2, FrameFacts DEF Quiet, WorkerRests, CmdsQuiet, Shapes, IInv, Types, TypeOK
    <2> QED BY <1>4, <2>3, QuietInv, FrameFacts
  <1>7. CASE row \notin Unaimed
    BY <1>1, <1>3, <1>4, <1>5, <1>7, PlanningInv
  <1> QED BY <1>6, <1>7

LEMMA DiscoverInv ==
    ASSUME IInv, Discover
    PROVE IInv'
  <1>1. CmdsQuiet /\ pending' \in Nat
    <2>1. pending \in Nat /\ Send(pending, Plain("discover"))
      BY DEF IInv, Types, TypeOK, Discover
    <2> QED BY <2>1, PlainOrders, SendQuiet
  <1>2. Quiet /\ Shapes'
    BY <1>1, FrameFacts DEF Discover, shown, Quiet, WorkerRests, StagesQuiet, Shapes, IInv, Types, TypeOK
  <1> QED BY <1>2, QuietInv, FrameFacts DEF Discover

LEMMA ConfirmApplyInv ==
    ASSUME IInv, NEW w \in Windows, ConfirmApply(w)
    PROVE IInv'
  <1> DEFINE i == applies + 1
             r == stage[w].req
             n == stage[w].seen
             c == ApplyCmd(w, r, n, i)
             a == [req |-> r, form |-> Asked(w), seen |-> n, dir |-> dir]
  <1>1. /\ r \in Request /\ n \in Nat /\ Asked(w) \in Request
        /\ applies \in Nat /\ MaxApplies \in Nat /\ applies < MaxApplies /\ dir \in AllDirs
    BY Held, AskedIsRequest, AppliesAssumption DEF ConfirmApply, IInv, Types, TypeOK, AllDirs
  <1>2. i \in 0..MaxApplies
    BY <1>1
  <1>3. c \in Orders
    <2>1. NoDir \in AllDirs /\ w \in Senders
      BY DEF AllDirs, Senders
    <2> QED BY <1>1, <1>2, <2>1 DEF ApplyCmd, Command, Orders
  <1>4. a \in Approvals
    BY <1>1 DEF Approvals
  <1>5. /\ Frame /\ applies' = i /\ approved' = [approved EXCEPT ![i] = a]
        /\ Send(pending, c) /\ UNCHANGED <<dir, file>>
        /\ IF Heard THEN stage' = [stage EXCEPT ![w] = Applying(r, i)] /\ UNCHANGED sel
           ELSE /\ stage' = [stage EXCEPT ![w] = Done(r, i, "not_applied")]
                /\ sel' = [sel EXCEPT ![w] = FALSE]
    BY DEF ConfirmApply, Finish
  <1>6. Applying(r, i) \in Stages /\ Done(r, i, "not_applied") \in Stages
    BY <1>1, <1>2 DEF Applying, Done, St, Stages
  <1>7. Applies' /\ \A j \in 1..applies' : approved'[j].req = approved'[j].form
    BY ConfirmApplies DEF ConfirmApply, Frame
  <1> HIDE DEF a, c, r, n, i
  <1>8. cmds' \in Seq(Orders) /\ pending' \in Nat
    BY <1>3, <1>5 DEF Send, IInv, Types, TypeOK
  <1>9. approved' \in [1..MaxApplies -> Approvals]
    BY <1>4, <1>5 DEF IInv, Types
  <1>10. stage' \in [Windows -> Stages]
    BY <1>5, <1>6 DEF IInv, Types, TypeOK
  <1>11. sel' \in [Windows -> BOOLEAN]
    BY <1>5 DEF IInv, Types, TypeOK
  <1>12. TypeOK'
    BY <1>2, <1>5, <1>8, <1>10, <1>11 DEF Frame, worker_vars, world_vars, IInv, Types, TypeOK
  <1>13. Types'
    BY <1>5, <1>8, <1>9, <1>12 DEF Frame, worker_vars, IInv, Types
  <1>14. pc' = "poll"
    BY <1>5 DEF Frame
  <1> QED BY <1>7, <1>13, <1>14 DEF IInv, Confirmed

LEMMA ChangeDirInv ==
    ASSUME IInv, NEW d \in AllDirs, ChangeDir(d)
    PROVE IInv'
  <1>1. Applies' /\ cmds' \in Seq(Orders)
    BY ChangeDirApplies
  <1>2. /\ stage' = [w \in Windows |-> IF stage[w].at \in DirWithdraws THEN Idle ELSE stage[w]]
        /\ sel' = [w \in Windows |-> sel[w] /\ stage[w].at \notin DirWithdraws]
        /\ dir' = d /\ pc' = "poll"
        /\ UNCHANGED <<row, gone, evts, worker_vars, writes, world_vars, file, applies, approved>>
    BY DEF ChangeDir, Frame
  <1>3. Idle \in Stages
    BY AppliesAssumption DEF Idle, St, Stages, NoReq, Request
  <1>4. stage' \in [Windows -> Stages]
    BY <1>2, <1>3 DEF IInv, Types, TypeOK
  <1>5. sel' \in [Windows -> BOOLEAN]
    BY <1>2
  <1>6. pending' \in Nat
    BY DEF ChangeDir, IInv, Types, TypeOK
  <1>7. TypeOK'
    BY <1>2, <1>4, <1>5, <1>6 DEF worker_vars, world_vars, IInv, Types, TypeOK, AllDirs
  <1>8. Types'
    BY <1>1, <1>2, <1>7 DEF worker_vars, IInv, Types
  <1>9. Confirmed'
    BY <1>2 DEF IInv, Confirmed
  <1> QED BY <1>1, <1>8, <1>9 DEF IInv

LEMMA ReceiveFacts ==
    ASSUME IInv, NEW k, Receive(k)
    PROVE /\ pc = "poll" /\ pc' = "poll" /\ evts # <<>> /\ Head(evts).kind = k /\ evts' = Tail(evts)
          /\ evts' \in Seq(Answers \cup News) /\ Head(evts) \in Answers \cup News
          /\ UNCHANGED <<file, dir, gone, worker, wdir, job, child, applies, approved, writes, bus, world>>
          /\ Down \in Nat
  <1>1. evts \in Seq(Answers \cup News) /\ pending \in Nat
    BY DEF IInv, Types, TypeOK
  <1> QED BY <1>1, TailFacts DEF Receive, Kept, worker_vars, world_vars, Down

LEMMA CamerasArriveInv ==
    ASSUME IInv, CamerasArrive
    PROVE IInv'
  <1>1. Quiet /\ Shapes' /\ row' \in Rows \cup {NoRow}
    BY ReceiveFacts DEF CamerasArrive, Quiet, WorkerRests, CmdsQuiet, EvtsQuiet, StagesQuiet, Shapes,
                        IInv, Types, TypeOK, Answers, News
  <1> QED BY <1>1, QuietInv, ReceiveFacts DEF CamerasArrive

LEMMA OtherArrivesInv ==
    ASSUME IInv, OtherArrives
    PROVE IInv'
  <1>1. Quiet /\ Shapes' /\ row' \in Rows \cup {NoRow}
    BY ReceiveFacts DEF OtherArrives, Quiet, WorkerRests, CmdsQuiet, EvtsQuiet, StagesQuiet, Shapes,
                        IInv, Types, TypeOK
  <1> QED BY <1>1, QuietInv, ReceiveFacts DEF OtherArrives

LEMMA PlanArrivesInv ==
    ASSUME IInv, PlanArrives
    PROVE IInv'
  <1> DEFINE e == Head(evts)
  <1>1. /\ pc' = "poll" /\ e \in Answers \cup News /\ e.kind = "planned" /\ evts' = Tail(evts) /\ evts # <<>>
        /\ UNCHANGED <<file, dir, gone, worker, wdir, job, child, applies, approved, writes, bus, world>>
        /\ pending' \in Nat
    BY ReceiveFacts DEF PlanArrives
  <1>2. e.req \in Request /\ e.seen \in Nat
    BY <1>1 DEF Answers, News
  <1>3. Wanted(e) => stage[e.win].at # "applying"
    BY DEF Wanted, Planning, St
  <1>4. UNCHANGED <<cmds, row>>
    BY DEF PlanArrives
  <1>5. CASE UNCHANGED <<stage, sel>>
    <2>1. Quiet /\ Shapes' /\ row' \in Rows \cup {NoRow}
      BY <1>1, <1>4, <1>5 DEF Quiet, WorkerRests, CmdsQuiet, EvtsQuiet, StagesQuiet, Shapes, IInv, Types, TypeOK
    <2> QED BY <1>1, <2>1, QuietInv
  <1>6. CASE e.win \in Windows /\ Wanted(e) /\ ~UNCHANGED <<stage, sel>>
    <2>1. \/ stage' = [stage EXCEPT ![e.win] = St("planned", e.req, e.seen, FALSE, 0, "none")] /\ sel' = sel
          \/ stage' = [stage EXCEPT ![e.win] = Idle] /\ sel' = [sel EXCEPT ![e.win] = FALSE]
      BY <1>6 DEF PlanArrives, GoIdle
    <2> HIDE DEF e
    <2>2. StagesQuiet /\ stage' \in [Windows -> Stages]
      BY <1>2, <1>3, <1>6, <2>1, SetStage, SetIdle
    <2>3. sel' \in [Windows -> BOOLEAN]
      BY <2>1, SetSel DEF IInv, Types, TypeOK
    <2>4. Quiet /\ Shapes' /\ row' \in Rows \cup {NoRow}
      BY <1>1, <1>4, <2>2, <2>3 DEF e, Quiet, WorkerRests, CmdsQuiet, EvtsQuiet, Shapes, IInv, Types, TypeOK
    <2> QED BY <1>1, <2>4, QuietInv
  <1>7. CASE e.win \notin Windows
    <2>1. \A v : [stage EXCEPT ![e.win] = v] = stage /\ [sel EXCEPT ![e.win] = v] = sel
      BY <1>7 DEF IInv, Types, TypeOK
    <2> QED BY <1>5, <2>1 DEF PlanArrives, GoIdle
  <1> QED BY <1>5, <1>6, <1>7 DEF PlanArrives

LEMMA ApplyArrivesInv ==
    ASSUME IInv, ApplyArrives
    PROVE IInv'
  <1> DEFINE e == Head(evts)
  <1>1. /\ pc' = "poll" /\ e \in Answers \cup News /\ e.kind = "applied"
        /\ UNCHANGED <<file, dir, gone, worker, wdir, job, child, applies, approved, writes, bus, world>>
        /\ evts' \in Seq(Answers \cup News) /\ Down \in Nat /\ row' = row
    BY ReceiveFacts DEF ApplyArrives
  <1>2. CmdsQuiet /\ pending' \in Nat
    <2>1. CASE e.outcome # "not_applied" /\ dir # NoDir
      <3>1. Send(Down, Plain("refresh"))
        BY <2>1 DEF ApplyArrives
      <3> QED BY <1>1, <3>1, PlainOrders, SendQuiet
    <2>2. CASE ~(e.outcome # "not_applied" /\ dir # NoDir)
      BY <1>1, <2>2 DEF ApplyArrives, CmdsQuiet
    <2> QED BY <2>1, <2>2
  <1>3. Applies'
    BY <1>2, ApplyArrivesApplies
  <1>4. cmds' \in Seq(Orders)
    BY <1>2, CmdsFacts DEF IInv, Types
  <1>5. Done(e.req, e.id, e.outcome) \in Stages
    BY <1>1, AppliesAssumption DEF Answers, News, Outcomes, Done, St, Stages
  <1>6. stage' \in [Windows -> Stages]
    BY <1>5 DEF ApplyArrives, Finish, IInv, Types, TypeOK
  <1>7. sel' \in [Windows -> BOOLEAN]
    BY DEF ApplyArrives, Finish, IInv, Types, TypeOK
  <1>8. Types'
    <2>1. TypeOK'
      BY <1>1, <1>2, <1>6, <1>7 DEF IInv, Types, TypeOK
    <2> QED BY <1>1, <1>4, <2>1 DEF IInv, Types
  <1> QED BY <1>1, <1>3, <1>8 DEF IInv, Confirmed

LEMMA SyncInv ==
    ASSUME IInv, Sync
    PROVE IInv'
  <1>1. Applies' /\ \A w \in Windows : stage'[w].at \in Holding => stage'[w].req = Asked(w)'
    BY SyncApplies
  <1>2. /\ UNCHANGED <<dir, row, cmds, evts, worker_vars, applies, approved, writes, world_vars>>
        /\ pc' = "draw" /\ gone' = (gone \/ Stops)
        /\ pending' = (IF Stops THEN 0 ELSE pending)
        /\ stage' = [w \in Windows |-> IF Withdrawn(w) THEN Idle ELSE StageNow[w]]
        /\ sel' = [w \in Windows |-> SelAfter(w) /\ ~Withdrawn(w)]
        /\ file' = [w \in Windows |-> FileAfter(w)]
    BY DEF Sync
  <1>3. \A w \in Windows : /\ Idle \in Stages
                           /\ Done(stage[w].req, stage[w].id, "indeterminate") \in Stages
    BY AppliesAssumption DEF IInv, Types, TypeOK, Idle, Done, St, Stages, NoReq, Request
  <1>4. \A w \in Windows : StageNow[w] \in Stages
    BY <1>3 DEF StageNow, Lost, IInv, Types, TypeOK
  <1>5. stage' \in [Windows -> Stages]
    BY <1>2, <1>3, <1>4
  <1>6. sel' \in [Windows -> BOOLEAN]
    <2>1. \A w \in Windows : (SelAfter(w) /\ ~Withdrawn(w)) \in BOOLEAN
      OBVIOUS
    <2> QED BY <1>2, <2>1
  <1>7. file' \in [Windows -> Files \union Points \union {NoFile}]
    BY <1>2 DEF FileAfter, IInv, Types, TypeOK
  <1>8. gone' \in BOOLEAN
    BY <1>2
  <1>9. pending' \in Nat
    BY <1>2 DEF IInv, Types, TypeOK
  <1>10. Types'
    <2>1. TypeOK'
      BY <1>2, <1>5, <1>6, <1>7, <1>8, <1>9 DEF worker_vars, world_vars, IInv, Types, TypeOK
    <2> QED BY <1>2, <2>1 DEF worker_vars, IInv, Types
  <1>11. Confirmed'
    BY <1>1, <1>2 DEF IInv, Confirmed
  <1> QED BY <1>1, <1>10, <1>11 DEF IInv

-----------------------------------------------------------------------------
(* The worker and the world. *)

\* The windows stand still while the worker works.
LEMMA WorkerInv ==
    ASSUME IInv, UNCHANGED <<pc, stage, file, sel, dir, row, pending, gone, applies, approved>>, Applies',
           cmds' \in Seq(Orders), evts' \in Seq(Answers \cup News), job' \in Orders,
           writes' \subseteq Written, wdir' \in AllDirs, world' \in Nat, bus' \in Rows \cup {NoRow},
           worker' \in {"alive", "closing", "dead"}, child' \in {"none", "running", "wrote"}
    PROVE IInv'
  <1>1. Types'
    BY DEF IInv, Types, TypeOK, AllDirs
  <1>2. Confirmed'
    BY DEF IInv, Confirmed, Asked
  <1> QED BY <1>1, <1>2 DEF IInv

LEMMA Present ==
    ASSUME IInv
    PROVE /\ cmds \in Seq(Orders) /\ evts \in Seq(Answers \cup News) /\ job \in Orders
          /\ writes \subseteq Written /\ wdir \in AllDirs /\ world \in Nat /\ bus \in Rows \cup {NoRow}
          /\ worker \in {"alive", "closing", "dead"} /\ child \in {"none", "running", "wrote"}
          /\ applies \in 0..MaxApplies /\ MaxApplies \in Nat
  BY AppliesAssumption DEF IInv, Types, TypeOK, AllDirs

LEMMA WorksFacts ==
    ASSUME Works
    PROVE /\ UNCHANGED <<pc, stage, file, sel, dir, row, pending, gone, applies, approved, bus>>
          /\ UIRests
  BY DEF Works, shown, UIRests

LEMMA RunSetDirInv ==
    ASSUME IInv, RunSetDir
    PROVE IInv'
  <1>1. /\ worker = "alive" /\ job = NoJob /\ cmds # <<>> /\ cmds' = Tail(cmds) /\ wdir' = Head(cmds).dir
        /\ Head(cmds).kind = "setdir" /\ Works /\ UNCHANGED <<evts, worker, job, child, world, writes>>
    BY DEF RunSetDir, Takes, Shift
  <1>2. cmds' \in Seq(Orders) /\ Head(cmds) = cmds[1] /\ cmds[1] \in Orders
    BY <1>1, Present, TailCmds
  <1>3. wdir' = (IF cmds[1].kind = "setdir" THEN cmds[1].dir ELSE wdir) /\ cmds[1].kind # "apply"
    BY <1>1, <1>2
  <1>4. Applies'
    BY <1>1, <1>3, WorksFacts, PlainStep
  <1>5. wdir' \in AllDirs
    BY <1>1, <1>2 DEF Orders
  <1> QED BY <1>1, <1>2, <1>4, <1>5, Present, WorksFacts, WorkerInv

LEMMA ReadsInv ==
    ASSUME IInv, NEW k \in {"discover", "refresh", "plan"}, Takes(k), NEW e \in News, Reads(e)
    PROVE IInv'
  <1>1. /\ worker = "alive" /\ job = NoJob /\ cmds # <<>> /\ cmds' = Tail(cmds) /\ evts' = Append(evts, e)
        /\ Head(cmds).kind = k /\ Works /\ UNCHANGED <<worker, wdir, job, child, world, writes>>
    BY DEF Takes, Reads, Shift, worker_vars
  <1>2. cmds' \in Seq(Orders) /\ Head(cmds) = cmds[1]
    BY <1>1, Present, TailCmds
  <1>3. wdir' = (IF cmds[1].kind = "setdir" THEN cmds[1].dir ELSE wdir) /\ cmds[1].kind # "apply"
    BY <1>1, <1>2
  <1>4. Applies'
    BY <1>1, <1>3, WorksFacts, PlainStep
  <1>5. evts' \in Seq(Answers \cup News)
    BY <1>1, Present
  <1> QED BY <1>1, <1>2, <1>4, <1>5, Present, WorksFacts, WorkerInv

LEMMA ReadersInv ==
    ASSUME IInv, RunDiscover \/ RunRefresh \/ RunPlan
    PROVE IInv'
  <1>1. "none" \in Senders /\ NoReq \in Request /\ NoRow \in Rows \cup {NoRow}
    BY DEF Senders, NoReq, Request
  <1>2. CASE RunDiscover
    <2>1. Event("cameras", "none", NoReq, 0, 0, "ok", bus) \in News
      BY <1>1, Present DEF Event, News
    <2> QED BY <1>2, <2>1, ReadsInv DEF RunDiscover
  <1>3. CASE RunRefresh
    <2>1. Event("other", "none", NoReq, 0, 0, "ok", NoRow) \in News
      BY <1>1, Present DEF Event, News
    <2> QED BY <1>3, <2>1, ReadsInv DEF RunRefresh
  <1>4. CASE RunPlan
    <2> DEFINE c == Head(cmds)
    <2>1. c \in Orders /\ Takes("plan")
      BY <1>4, Present, TailCmds, TailFacts DEF RunPlan, Takes
    <2>2. \A n \in Nat, o \in {"ok", "failed"} : Event("planned", c.win, c.req, n, 0, o, NoRow) \in News
      BY <1>1, <2>1, Present DEF Event, News, Orders
    <2>3. \E n \in Nat, o \in {"ok", "failed"} : Reads(Event("planned", c.win, c.req, n, 0, o, NoRow))
      BY <1>4, Present DEF RunPlan
    <2> HIDE DEF c
    <2> QED BY <2>1, <2>2, <2>3, ReadsInv
  <1> QED BY <1>2, <1>3, <1>4

LEMMA TakeApplyInv ==
    ASSUME IInv, TakeApply
    PROVE IInv'
  <1>1. /\ cmds # <<>> /\ cmds' = Tail(cmds) /\ job' = Head(cmds) /\ Works
        /\ UNCHANGED <<evts, worker, wdir, child, world, writes>>
    BY DEF TakeApply, Takes, Shift
  <1>2. cmds' \in Seq(Orders) /\ job' \in Orders
    BY <1>1, Present, TailCmds
  <1> QED BY <1>1, <1>2, TakeApplyApplies, Present, WorksFacts, WorkerInv

LEMMA AnswerInv ==
    ASSUME IInv, NEW o \in Outcomes, InHand, AnswerApply(o), child' = "none", Works,
           UNCHANGED <<writes, world>>, o = "not_applied" => child # "wrote"
    PROVE IInv'
  <1>1. Applies' /\ evts' \in Seq(Answers \cup News)
    BY WorksFacts, AnswerApplies
  <1>2. NoJob \in Orders
    BY Present DEF NoJob, Plain, Command, Orders, Senders, Request, NoReq, AllDirs
  <1>3. job' = NoJob /\ UNCHANGED <<cmds, worker, wdir>>
    BY DEF AnswerApply
  <1> QED BY <1>1, <1>2, <1>3, Present, WorksFacts, WorkerInv

LEMMA AnswersInv ==
    ASSUME IInv, RefuseApply \/ ChildEnds
    PROVE IInv'
  <1>1. CASE RefuseApply
    <2>1. "not_applied" \in Outcomes /\ child = "none" /\ UNCHANGED <<child, writes, world>>
      BY <1>1 DEF Outcomes, RefuseApply
    <2>2. InHand /\ AnswerApply("not_applied") /\ Works
      BY <1>1 DEF RefuseApply
    <2> QED BY <2>1, <2>2, AnswerInv
  <1>2. CASE ChildEnds
    <2>1. ASSUME NEW o \in Classified(child), AnswerApply(o)
          PROVE IInv'
      <3>1. o \in Outcomes /\ (o = "not_applied" => child # "wrote")
        BY DEF Classified, Outcomes
      <3>2. InHand /\ child' = "none" /\ Works /\ UNCHANGED <<writes, world>>
        BY <1>2 DEF ChildEnds
      <3> QED BY <2>1, <3>1, <3>2, AnswerInv
    <2> QED BY <1>2, <2>1 DEF ChildEnds
  <1> QED BY <1>1, <1>2

LEMMA ChildInv ==
    ASSUME IInv, Spawn \/ ChildWrites
    PROVE IInv'
  <1>1. CASE Spawn
    BY <1>1, SpawnApplies, Present, WorksFacts, WorkerInv DEF Spawn
  <1>2. CASE ChildWrites
    <2> DEFINE x == [id |-> job.id, req |-> job.req, seen |-> world, dir |-> wdir]
    <2>1. job.id \in 1..MaxApplies
      <3>1. job.id \in 1..applies
        BY <1>2 DEF ChildWrites, IInv, Applies, InJob, Exact
      <3> QED BY <3>1, Present
    <2>2. x \in Written
      BY <2>1, Present DEF Written, Orders
    <2>3. /\ writes' = writes \cup {x} /\ world' = world + 1 /\ child' = "wrote" /\ Works
          /\ UNCHANGED <<cmds, evts, worker, wdir, job>>
      BY <1>2 DEF ChildWrites
    <2> HIDE DEF x
    <2>4. writes' \subseteq Written /\ world' \in Nat
      BY <2>2, <2>3, Present
    <2> QED BY <1>2, <2>3, <2>4, ChildWritesApplies, Present, WorksFacts, WorkerInv
  <1> QED BY <1>1, <1>2

LEMMA EndsInv ==
    ASSUME IInv, Dies \/ Closes
    PROVE IInv'
  <1>1. CASE Dies
    <2>1. cmds' \in Seq(Orders)
      BY <1>1 DEF Dies
    <2> QED BY <1>1, <2>1, DiesApplies, Present, WorksFacts, WorkerInv DEF Dies
  <1>2. CASE Closes
    <2>1. /\ UNCHANGED <<cmds, evts, wdir, job, child, world, writes>>
          /\ worker = "closing" /\ worker' = "dead" /\ Works
      BY <1>2 DEF Closes
    <2>2. Applies'
      BY <2>1, WorksFacts, RestApplies DEF UIRests
    <2> QED BY <2>1, <2>2, Present, WorksFacts, WorkerInv
  <1> QED BY <1>1, <1>2

LEMMA OthersInv ==
    ASSUME IInv, WorldTurns \/ Plugs
    PROVE IInv'
  <1>1. /\ UNCHANGED <<pc, stage, file, sel, dir, row, pending, gone, applies, approved, cmds, evts,
                       worker, wdir, job, child, writes>>
        /\ world' \in {world, world + 1} /\ bus' \in Rows \cup {NoRow}
    BY Present DEF WorldTurns, Plugs, Others, shown, worker_vars
  <1>2. Applies'
    BY <1>1, RestApplies
  <1>3. world' \in Nat
    BY <1>1, Present
  <1> QED BY <1>1, <1>2, <1>3, Present, WorkerInv

-----------------------------------------------------------------------------
LEMMA InitInv == Init => IInv
  <1> SUFFICES ASSUME Init PROVE IInv
    OBVIOUS
  <1>1. /\ pc = "poll" /\ stage = [w \in Windows |-> Idle]
        /\ file = [w \in Windows |-> NoFile] /\ sel = [w \in Windows |-> FALSE]
        /\ dir \in Dirs /\ wdir = dir /\ row = NoRow /\ bus \in Rows
        /\ cmds = <<Plain("refresh")>> /\ pending = 1 /\ evts = <<>> /\ gone = FALSE
        /\ worker = "alive" /\ job = NoJob /\ child = "none" /\ world = 0
        /\ applies = 0 /\ writes = {}
        /\ approved = [i \in 1..MaxApplies |-> [req |-> NoReq, form |-> NoReq, seen |-> 0, dir |-> NoDir]]
    BY DEF Init
  <1>2. /\ NoReq \in Request /\ Idle \in Stages /\ Idle.at = "idle" /\ Idle.outcome = "none"
        /\ MaxApplies \in Nat /\ 0 \in 0..MaxApplies
    BY AppliesAssumption DEF NoReq, Request, Idle, St, Stages
  <1>3. TypeOK
    BY <1>1, <1>2 DEF TypeOK
  <1>4. Types
    <2>1. NoJob \in Orders /\ Plain("refresh") \in Orders
      BY <1>2, PlainOrders DEF NoJob, Plain, Command, Orders, Senders, AllDirs
    <2>2. [req |-> NoReq, form |-> NoReq, seen |-> 0, dir |-> NoDir] \in Approvals
      BY <1>2 DEF Approvals, AllDirs
    <2>3. cmds \in Seq(Orders) /\ evts \in Seq(Answers \cup News)
      BY <1>1, <2>1
    <2> QED BY <1>1, <1>3, <2>1, <2>2, <2>3 DEF Types
  <1>5. /\ Len(cmds) = 1 /\ cmds[1].kind = "refresh" /\ Len(evts) = 0
        /\ \A k \in 1..Len(cmds) : k = 1
        /\ \A k \in 1..Len(evts) : FALSE
    <2>1. Plain("refresh").kind = "refresh"
      BY PlainOrders
    <2> QED BY <1>1, <2>1
  <1>6. \A i \in 1..applies : FALSE
    BY <1>1
  <1>7. Confirmed /\ Numbered
    BY <1>1, <1>2, <1>6 DEF Confirmed, Numbered
  <1>8. DirOn(cmds, wdir, Len(cmds) + 1, dir)
    BY <1>1, <1>5 DEF DirOn
  <1>9. Queued /\ InJob /\ Answered
    BY <1>1, <1>5, <1>8 DEF Queued, InJob, Answered
  <1>10. InOrder /\ Recorded /\ Refused
    BY <1>1, <1>2, <1>5 DEF InOrder, Recorded, Refused, WrittenIsApproved, ToldRefused
  <1> QED BY <1>4, <1>7, <1>9, <1>10 DEF IInv, Applies

LEMMA ClickInv ==
    ASSUME IInv, Click
    PROVE IInv'
  <1>1. ASSUME NEW w \in Windows,
               \/ \E f \in Listed : Pick(w, f)
               \/ Plan(w) \/ AskApply(w) \/ CancelConfirmation(w) \/ ConfirmApply(w)
               \/ Discard(w) \/ Undo(w)
        PROVE IInv'
    BY <1>1, PickInv, PlanInv, TurnsInv, ConfirmApplyInv, DiscardInv, UndoInv
  <1>2. ASSUME NEW f \in Listed, StartFrom(f) PROVE IInv'
    BY <1>2, StartFromInv
  <1>3. ASSUME NEW d \in Dirs \union {NoDir}, ChangeDir(d) PROVE IInv'
    BY <1>3, ChangeDirInv DEF AllDirs
  <1> QED BY <1>1, <1>2, <1>3, TurnsInv, SelectionsInv, DiscoverInv DEF Click

LEMMA NextInv == IInv /\ [Next]_vars => IInv'
  <1> SUFFICES ASSUME IInv, [Next]_vars PROVE IInv'
    OBVIOUS
  <1>1. CASE UI
    BY <1>1, CamerasArriveInv, OtherArrivesInv, PlanArrivesInv, ApplyArrivesInv, SyncInv, NoClickInv, ClickInv
       DEF UI, Poll
  <1>2. CASE Serves
    BY <1>2, RunSetDirInv, ReadersInv, TakeApplyInv, AnswersInv DEF Serves
  <1>3. CASE Spawn \/ ChildWrites \/ Dies \/ Closes \/ WorldTurns \/ Plugs
    BY <1>3, ChildInv, EndsInv, OthersInv
  <1>4. CASE UNCHANGED vars
    <2>1. /\ UNCHANGED <<pc, stage, file, sel, dir, row, pending, gone, applies, approved, cmds, evts,
                         worker, wdir, job, child, writes, world, bus>>
      BY <1>4 DEF vars, shown, worker_vars, world_vars
    <2>2. Applies'
      BY <2>1, RestApplies
    <2> QED BY <2>1, <2>2, Present, WorkerInv
  <1> QED BY <1>1, <1>2, <1>3, <1>4 DEF Next

\* Every variable of the windows, the channels and the worker keeps its type (guarded.rs, worker.rs).
THEOREM GuardedTypes == Spec => []TypeOK
  <1>1. IInv => TypeOK
    BY DEF IInv, Types
  <1> QED BY <1>1, InitInv, NextInv, PTL DEF Spec

\* What a child of the GUI writes is the plan that was on the screen when it was confirmed, for
\* what the form asked for then, in the data directory in use then (confirm_apply, sync,
\* data_dir_changed, the order of the worker's channel).
THEOREM GuardedWritesApproved == Spec => []WrittenIsApproved
  <1>1. IInv => WrittenIsApproved
    BY DEF IInv, Applies, Recorded
  <1> QED BY <1>1, InitInv, NextInv, PTL DEF Spec

\* "Not applied" is only said of an apply that wrote nothing and can write nothing any more
\* (classify_apply_as, worker_lost, not_sent).
THEOREM GuardedNotApplied == Spec => []NotAppliedIsTrue
  <1>1. IInv => NotAppliedIsTrue
    <2> SUFFICES ASSUME IInv, NEW w \in Windows, stage[w].outcome = "not_applied"
                 PROVE /\ \A x \in writes : x.id # stage[w].id
                       /\ ~(job.id = stage[w].id /\ child # "none")
      BY DEF NotAppliedIsTrue
    <2>1. stage[w].id \in 1..applies
      BY DEF IInv, Applies, Numbered
    <2>2. stage[w].id \in 1..MaxApplies
      BY <2>1, Present
    <2>3. Over(stage[w].id)
      BY <2>2 DEF IInv, Applies, Refused, ToldRefused
    <2> QED BY <2>3 DEF IInv, Applies, InJob, Over
  <1> QED BY <1>1, InitInv, NextInv, PTL DEF Spec

\* While an apply is queued, in hand, or answered and unread, the window that sent it waits for it
\* (applied, data_dir_changed, sync).
THEOREM GuardedAnswersFind == Spec => []AnswersFindTheirWindow
  <1>1. IInv => AnswersFindTheirWindow
    <2> SUFFICES ASSUME IInv, NEW i \in 1..MaxApplies, OnTheWay(i)
                 PROVE \E w \in Windows : stage[w].at = "applying" /\ stage[w].id = i
      BY DEF AnswersFindTheirWindow
    <2> QED BY DEF OnTheWay, IInv, Applies, Queued, InJob, Answered, Awaited
  <1> QED BY <1>1, InitInv, NextInv, PTL DEF Spec

-----------------------------------------------------------------------------
(* The count of what runs.                                                 *)

Items(q) == {k \in 1..Len(q) : q[k].kind # "setdir"}
Weight(c) == IF c.kind = "setdir" THEN 0 ELSE 1
Count(q) == Cardinality(Items(q))

InHandCount == IF job = NoJob THEN 0 ELSE 1

\* A window that was told of the worker's end was told after it.
Pended ==
    /\ worker = "alive" => pending = Count(cmds) + Len(evts) + InHandCount
    /\ gone => worker = "dead" /\ pending = 0

LEMMA ItemsFinite ==
    ASSUME NEW q \in Seq(Orders)
    PROVE IsFiniteSet(Items(q)) /\ Count(q) \in Nat
  <1>1. IsFiniteSet(1..Len(q))
    <2>1. 1 \in Int /\ Len(q) \in Int
      OBVIOUS
    <2> QED BY <2>1, FS_Interval
  <1>2. Items(q) \in SUBSET (1..Len(q))
    BY DEF Items
  <1>3. IsFiniteSet(Items(q))
    BY <1>1, <1>2, FS_Subset
  <1> QED BY <1>3, FS_CardinalityType DEF Count

LEMMA CountAppend ==
    ASSUME NEW q \in Seq(Orders), NEW c \in Orders
    PROVE Count(Append(q, c)) = Count(q) + Weight(c)
  <1> DEFINE a == Append(q, c)
  <1>1. /\ Len(q) \in Nat /\ Len(a) = Len(q) + 1 /\ a[Len(q) + 1] = c
        /\ \A k \in 1..Len(q) : a[k] = q[k]
    BY AppendFacts
  <1> HIDE DEF a
  <1>2. Len(q) + 1 \notin Items(q) /\ \A k \in 1..Len(a) : k \in 1..Len(q) \/ k = Len(q) + 1
    BY <1>1 DEF Items
  <1>3. CASE c.kind = "setdir"
    <2>1. Items(a) = Items(q)
      BY <1>1, <1>2, <1>3 DEF Items
    <2> QED BY <1>3, <2>1, ItemsFinite DEF Count, Weight, a
  <1>4. CASE c.kind # "setdir"
    <2>1. Items(a) = Items(q) \cup {Len(q) + 1}
      BY <1>1, <1>2, <1>4 DEF Items
    <2>2. Cardinality(Items(q) \cup {Len(q) + 1}) = Cardinality(Items(q)) + 1
      BY <1>2, ItemsFinite, FS_AddElement
    <2> QED BY <1>4, <2>1, <2>2 DEF Count, Weight, a
  <1> QED BY <1>3, <1>4

LEMMA CountTail ==
    ASSUME NEW q \in Seq(Orders), q # <<>>
    PROVE Count(q) = Count(Tail(q)) + Weight(q[1])
  <1> DEFINE t == Tail(q)
             f == [k \in Items(t) |-> k + 1]
  <1>1. /\ t \in Seq(Orders) /\ Len(q) \in Nat \ {0} /\ Len(t) = Len(q) - 1
        /\ \A k \in 1..Len(t) : k + 1 \in 1..Len(q) /\ t[k] = q[k + 1]
    BY TailFacts
  <1>2. Items(q) \ {1} = {k + 1 : k \in Items(t)}
    <2>1. ASSUME NEW k \in Items(t) PROVE k + 1 \in Items(q) \ {1}
      BY <1>1 DEF Items
    <2>2. ASSUME NEW k \in Items(q) \ {1} PROVE k - 1 \in Items(t) /\ k = (k - 1) + 1
      <3>1. k \in 1..Len(q) /\ k # 1 /\ q[k].kind # "setdir"
        BY DEF Items
      <3> HIDE DEF t
      <3>2. k - 1 \in 1..Len(t) /\ k = (k - 1) + 1
        BY <1>1, <3>1
      <3> QED BY <1>1, <3>1, <3>2 DEF Items
    <2> QED BY <2>1, <2>2
  <1>3. f \in Bijection(Items(t), Items(q) \ {1})
    <2> HIDE DEF t
    <2>1. f \in [Items(t) -> Items(q) \ {1}]
      BY <1>2
    <2>2. \A k, l \in Items(t) : f[k] = f[l] => k = l
      BY DEF Items
    <2>3. \A y \in Items(q) \ {1} : \E k \in Items(t) : f[k] = y
      BY <1>2
    <2> HIDE DEF f
    <2> QED BY <2>1, <2>2, <2>3 DEF Bijection, Injection, Surjection, IsInjective
  <1>4. Cardinality(Items(q) \ {1}) = Cardinality(Items(t))
    <2>1. IsFiniteSet(Items(t))
      BY <1>1, ItemsFinite
    <2> HIDE DEF f
    <2>2. ExistsBijection(Items(t), Items(q) \ {1})
      BY <1>3 DEF ExistsBijection
    <2> QED BY <2>1, <2>2, FS_Bijection
  <1>5. 1 \in Items(q) <=> q[1].kind # "setdir"
    BY <1>1 DEF Items
  <1>6. Cardinality(Items(q) \ {1}) = IF 1 \in Items(q) THEN Cardinality(Items(q)) - 1 ELSE Cardinality(Items(q))
    BY ItemsFinite, FS_RemoveElement
  <1>7. Count(q) \in Nat /\ Count(t) \in Nat
    BY <1>1, ItemsFinite
  <1> QED BY <1>4, <1>5, <1>6, <1>7 DEF Count, Weight

LEMMA Numbers ==
    ASSUME IInv
    PROVE /\ cmds \in Seq(Orders) /\ evts \in Seq(Answers \cup News)
          /\ Len(cmds) \in Nat /\ Len(evts) \in Nat
          /\ pending \in Nat /\ Count(cmds) \in Nat /\ InHandCount \in Nat
  BY ItemsFinite DEF IInv, Types, TypeOK, InHandCount

\* Whatever else a step of the UI does, the count goes with what it sends.
LEMMA SendPended ==
    ASSUME IInv, Pended, UNCHANGED <<worker, gone, job, evts>>,
           NEW c \in Orders, c.kind # "setdir", Send(pending, c)
    PROVE Pended'
  <1>1. CASE worker = "alive"
    <2>1. cmds' = Append(cmds, c) /\ pending' = pending + 1
      BY <1>1 DEF Send, Heard
    <2>2. Count(cmds') = Count(cmds) + 1
      BY <2>1, CountAppend, Numbers DEF Weight
    <2> QED BY <1>1, <2>1, <2>2, Numbers DEF Pended, InHandCount
  <1>2. CASE worker # "alive"
    <2>1. cmds' = cmds /\ pending' = pending
      BY <1>2 DEF Send, Heard
    <2> QED BY <1>2, <2>1 DEF Pended
  <1> QED BY <1>1, <1>2

LEMMA SamePended ==
    ASSUME Pended, UNCHANGED <<worker, gone, job, evts, cmds, pending>>
    PROVE Pended'
  BY DEF Pended, InHandCount

LEMMA BeginPlanPended ==
    ASSUME IInv, Pended, Frame, NEW w \in Windows, NEW r \in Request, BeginPlan(w, r)
    PROVE Pended'
  <1>1. PlanCmd(w, r) \in Orders /\ PlanCmd(w, r).kind # "setdir"
    BY AppliesAssumption DEF PlanCmd, Command, Orders, Senders, AllDirs
  <1>2. UNCHANGED <<worker, gone, job, evts>>
    BY DEF Frame, worker_vars
  <1> QED BY <1>1, <1>2, SendPended DEF BeginPlan

LEMMA PlanWithPended ==
    ASSUME IInv, Pended, Frame, NEW w \in Windows, NEW b \in BOOLEAN, PlanWith(w, b)
    PROVE Pended'
  <1> DEFINE r == [file |-> file[w], row |-> row, sel |-> b]
  <1>1. r \in Request
    BY AskedIsRequest
  <1>2. BeginPlan(w, r)
    BY DEF PlanWith
  <1> HIDE DEF r
  <1> QED BY <1>1, <1>2, BeginPlanPended

LEMMA CalmPended ==
    ASSUME Pended, Frame, UNCHANGED <<cmds, pending>>
    PROVE Pended'
  BY SamePended DEF Frame, worker_vars

LEMMA ConfirmPended ==
    ASSUME IInv, Pended, NEW w \in Windows, ConfirmApply(w)
    PROVE Pended'
  <1> DEFINE c == ApplyCmd(w, stage[w].req, stage[w].seen, applies + 1)
  <1>1. applies + 1 \in 0..MaxApplies /\ stage[w].req \in Request /\ stage[w].seen \in Nat
    BY Held, Present DEF ConfirmApply
  <1>2. c \in Orders /\ c.kind # "setdir"
    <2>1. NoDir \in AllDirs /\ w \in Senders
      BY DEF AllDirs, Senders
    <2> QED BY <1>1, <2>1 DEF ApplyCmd, Command, Orders
  <1>3. Send(pending, c) /\ UNCHANGED <<worker, gone, job, evts>>
    BY DEF ConfirmApply, Frame, worker_vars
  <1> HIDE DEF c
  <1> QED BY <1>2, <1>3, SendPended

LEMMA UndoPended ==
    ASSUME IInv, Pended, NEW w \in Windows, Undo(w)
    PROVE Pended'
  <1> DEFINE r == [file |-> Point(stage[w].id), row |-> row, sel |-> TRUE]
  <1>1. CASE row \in Unaimed
    BY <1>1, CalmPended DEF Undo
  <1>2. CASE row \notin Unaimed
    <2>1. stage[w].id \in 1..MaxApplies /\ row \in Rows \cup {NoRow} /\ "restore" \in Windows
      <3>1. stage[w].id \in 1..applies
        BY DEF Undo, IInv, Applies, Numbered
      <3>2. stage[w].id \in 1..MaxApplies
        BY <3>1, Present
      <3> QED BY <3>2 DEF Undo, IInv, Types, TypeOK
    <2>2. r \in Request
      BY <2>1 DEF Request, Point, Points
    <2>3. Frame /\ BeginPlan("restore", r)
      BY <1>2 DEF Undo, UndoOffer
    <2> HIDE DEF r
    <2> QED BY <2>1, <2>2, <2>3, BeginPlanPended
  <1> QED BY <1>1, <1>2

LEMMA ChangeDirPended ==
    ASSUME IInv, Pended, NEW d \in AllDirs, ChangeDir(d)
    PROVE Pended'
  <1> DEFINE told == Append(cmds, SetDir(d))
             both == Append(told, Plain("refresh"))
  <1>1. SetDir(d) \in Orders /\ SetDir(d).kind = "setdir"
    BY AppliesAssumption DEF SetDir, Command, Orders, Senders, Request, NoReq
  <1>2. told \in Seq(Orders) /\ Count(told) = Count(cmds)
    <2>1. told \in Seq(Orders)
      BY <1>1, Numbers
    <2>2. Count(told) = Count(cmds) + 0
      BY <1>1, Numbers, CountAppend DEF Weight
    <2> QED BY <2>1, <2>2, Numbers
  <1>3. Count(both) = Count(told) + 1
    <2> HIDE DEF told
    <2> QED BY <1>2, PlainOrders, CountAppend DEF Weight
  <1>4. /\ UNCHANGED <<worker, gone, job, evts>>
        /\ IF worker = "alive"
           THEN /\ cmds' = IF d = NoDir THEN told ELSE both
                /\ pending' = IF d = NoDir THEN pending ELSE pending + 1
           ELSE UNCHANGED <<cmds, pending>>
    BY DEF ChangeDir, Frame, Heard, worker_vars
  <1> HIDE DEF told, both
  <1>5. CASE worker = "alive" /\ d = NoDir
    BY <1>2, <1>4, <1>5 DEF Pended, InHandCount
  <1>6. CASE worker = "alive" /\ d # NoDir
    BY <1>2, <1>3, <1>4, <1>6, Numbers DEF Pended, InHandCount
  <1>7. CASE worker # "alive"
    BY <1>4, <1>7, SamePended
  <1> QED BY <1>5, <1>6, <1>7

LEMMA ClickPended ==
    ASSUME IInv, Pended, Click
    PROVE Pended'
  <1>1. ASSUME NEW w \in Windows,
               (\E f \in Listed : Pick(w, f)) \/ AskApply(w) \/ CancelConfirmation(w) \/ Discard(w)
        PROVE Pended'
    BY <1>1, CalmPended DEF Pick, AskApply, CancelConfirmation, Discard, Calm
  <1>2. ASSUME NEW w \in Windows, Plan(w) \/ ConfirmApply(w) \/ Undo(w)
        PROVE Pended'
    <2>1. CASE Plan(w)
      BY <2>1, AskedIsRequest, BeginPlanPended DEF Plan
    <2> QED BY <1>2, <2>1, ConfirmPended, UndoPended
  <1>3. ASSUME "transplant" \in Windows, AskOptIn \/ ConfirmOptIn \/ RemoveOptIn
        PROVE Pended'
    BY <1>3, CalmPended, PlanWithPended DEF AskOptIn, ConfirmOptIn, RemoveOptIn, Calm
  <1>4. ASSUME "restore" \in Windows, Toggle \/ PlanSelection \/ PlanEverything
        PROVE Pended'
    BY <1>4, CalmPended, PlanWithPended DEF Toggle, PlanSelection, PlanEverything, Calm
  <1>5. ASSUME NEW f \in Listed, StartFrom(f)
        PROVE Pended'
    BY <1>5, CalmPended DEF StartFrom, Calm
  <1>6. ASSUME Discover PROVE Pended'
    <2>1. Send(pending, Plain("discover")) /\ UNCHANGED <<worker, gone, job, evts>>
      BY <1>6 DEF Discover, Frame, worker_vars
    <2> QED BY <2>1, PlainOrders, SendPended
  <1>7. ASSUME NEW d \in Dirs \union {NoDir}, ChangeDir(d)
        PROVE Pended'
    BY <1>7, ChangeDirPended DEF AllDirs
  <1> QED BY <1>1, <1>2, <1>3, <1>4, <1>5, <1>6, <1>7 DEF Click

\* An event that is read is an answer less.
LEMMA ReceivePended ==
    ASSUME IInv, Pended, NEW k, Receive(k)
    PROVE /\ UNCHANGED <<worker, gone, job>>
          /\ worker = "alive" => Down = Count(cmds) + Len(evts') + InHandCount
          /\ gone => worker = "dead" /\ Down = 0
  <1>1. evts # <<>> /\ evts' = Tail(evts) /\ UNCHANGED <<worker, gone, job>>
    BY ReceiveFacts
  <1>2. Len(evts) \in Nat \ {0} /\ Len(evts') = Len(evts) - 1
    BY <1>1, Numbers, TailFacts
  <1> QED BY <1>1, <1>2, Numbers DEF Pended, Down

LEMMA PollPended ==
    ASSUME IInv, Pended, Poll
    PROVE Pended'
  <1>1. ASSUME NEW k \in {"cameras", "other", "planned", "applied"}, Receive(k), pending' = Down, cmds' = cmds
        PROVE Pended'
    BY <1>1, ReceivePended DEF Pended, InHandCount
  <1>2. CASE CamerasArrive \/ OtherArrives \/ PlanArrives
    BY <1>1, <1>2 DEF CamerasArrive, OtherArrives, PlanArrives
  <1>3. CASE ApplyArrives
    <2>1. Receive("applied")
      BY <1>3 DEF ApplyArrives
    <2>2. CASE pending' = Down /\ cmds' = cmds
      BY <1>1, <2>1, <2>2
    <2>3. CASE Send(Down, Plain("refresh"))
      <3>1. CASE worker = "alive"
        <4>1. cmds' = Append(cmds, Plain("refresh")) /\ pending' = Down + 1
          BY <2>3, <3>1 DEF Send, Heard
        <4>2. Count(cmds') = Count(cmds) + 1
          BY <4>1, PlainOrders, Numbers, CountAppend DEF Weight
        <4>3. Len(evts') \in Nat
          BY <2>1, ReceiveFacts
        <4> QED BY <2>1, <3>1, <4>1, <4>2, <4>3, ReceivePended, Numbers DEF Pended, InHandCount
      <3>2. CASE worker # "alive"
        BY <1>1, <2>1, <2>3, <3>2 DEF Send, Heard
      <3> QED BY <3>1, <3>2
    <2> QED BY <1>3, <2>2, <2>3 DEF ApplyArrives
  <1>4. CASE Sync
    BY <1>4 DEF Sync, Stops, worker_vars, Pended, InHandCount
  <1> QED BY <1>2, <1>3, <1>4 DEF Poll

\* A command that is taken is in hand or answered.
LEMMA TakenCount ==
    ASSUME IInv, NEW k, Takes(k), cmds' = Tail(cmds)
    PROVE /\ worker = "alive" /\ job = NoJob /\ Head(cmds) \in Orders /\ Count(cmds') \in Nat
          /\ Count(cmds) = Count(cmds') + (IF k = "setdir" THEN 0 ELSE 1)
  <1>1. cmds # <<>> /\ worker = "alive" /\ job = NoJob /\ Head(cmds).kind = k
    BY DEF Takes
  <1>2. Head(cmds) = cmds[1] /\ Head(cmds) \in Orders /\ cmds' \in Seq(Orders)
    BY <1>1, Numbers, TailFacts
  <1>3. Count(cmds) = Count(Tail(cmds)) + Weight(cmds[1])
    BY <1>1, Numbers, CountTail
  <1> QED BY <1>1, <1>2, <1>3, ItemsFinite DEF Weight

LEMMA ServesPended ==
    ASSUME IInv, Pended, Serves
    PROVE Pended'
  <1>1. CASE RunSetDir
    <2>1. /\ Takes("setdir") /\ cmds' = Tail(cmds) /\ UNCHANGED <<worker, gone, job, evts, pending>>
      BY <1>1 DEF RunSetDir, Shift, Works
    <2> QED BY <2>1, TakenCount DEF Pended, InHandCount
  <1>2. ASSUME NEW k \in {"discover", "refresh", "plan"}, Takes(k), NEW e, Reads(e)
        PROVE Pended'
    <2>1. cmds' = Tail(cmds) /\ evts' = Append(evts, e) /\ UNCHANGED <<worker, gone, job, pending>>
      BY <1>2 DEF Reads, Shift, Works, worker_vars
    <2>2. Len(evts') = Len(evts) + 1
      BY <2>1, Numbers
    <2>3. Count(cmds) = Count(cmds') + 1 /\ Count(cmds') \in Nat
      BY <1>2, <2>1, TakenCount
    <2> QED BY <2>1, <2>2, <2>3, Numbers DEF Pended, InHandCount
  <1>3. CASE RunDiscover \/ RunRefresh \/ RunPlan
    BY <1>2, <1>3 DEF RunDiscover, RunRefresh, RunPlan
  <1>4. CASE TakeApply
    <2>1. Takes("apply") /\ cmds' = Tail(cmds) /\ job' = Head(cmds) /\ UNCHANGED <<worker, gone, evts, pending>>
      BY <1>4 DEF TakeApply, Shift, Works
    <2>2. job' # NoJob
      BY <2>1 DEF Takes, NoJob, Plain, Command
    <2> QED BY <2>1, <2>2, TakenCount, Numbers DEF Pended, InHandCount
  <1>5. ASSUME NEW o, InHand, AnswerApply(o), UNCHANGED <<gone, pending>>
        PROVE Pended'
    <2>1. job # NoJob /\ job' = NoJob /\ UNCHANGED <<cmds, worker>> /\ Len(evts') = Len(evts) + 1
      BY <1>5, Numbers DEF InHand, AnswerApply
    <2> QED BY <1>5, <2>1, Numbers DEF Pended, InHandCount
  <1>6. CASE RefuseApply \/ ChildEnds
    <2>1. UNCHANGED <<gone, pending>> /\ InHand
      BY <1>6 DEF RefuseApply, ChildEnds, Works
    <2>2. CASE RefuseApply
      <3>1. AnswerApply("not_applied")
        BY <2>2 DEF RefuseApply
      <3> QED BY <1>5, <2>1, <3>1
    <2>3. CASE ChildEnds
      <3>1. ASSUME NEW o \in Classified(child), AnswerApply(o)
            PROVE Pended'
        BY <1>5, <2>1, <3>1
      <3> QED BY <2>3, <3>1 DEF ChildEnds
    <2> QED BY <1>6, <2>2, <2>3
  <1> QED BY <1>1, <1>3, <1>4, <1>6 DEF Serves

LEMMA NextPended == IInv /\ Pended /\ [Next]_vars => Pended'
  <1> SUFFICES ASSUME IInv, Pended, [Next]_vars PROVE Pended'
    OBVIOUS
  <1>1. CASE UI
    BY <1>1, PollPended, ClickPended, CalmPended DEF UI, NoClick, Calm
  <1>2. CASE Serves
    BY <1>2, ServesPended
  <1>3. CASE Spawn \/ ChildWrites \/ WorldTurns \/ Plugs
    BY <1>3, SamePended DEF Spawn, ChildWrites, WorldTurns, Plugs, Works, Others, worker_vars
  <1>4. CASE Dies \/ Closes
    BY <1>4 DEF Dies, Closes, Works, Pended
  <1>5. CASE UNCHANGED vars
    BY <1>5, SamePended DEF vars, worker_vars
  <1> QED BY <1>1, <1>2, <1>3, <1>4, <1>5 DEF Next

\* The count that disables the buttons is the number of commands not yet answered, and zero when
\* the worker is gone (send, poll, use_settings_data_dir, worker_stopped).
THEOREM GuardedPendingExact == Spec => []PendingIsExact
  <1>1. Init => Pended
    <2> SUFFICES ASSUME Init PROVE Pended
      OBVIOUS
    <2>1. /\ cmds = <<Plain("refresh")>> /\ evts = <<>> /\ job = NoJob /\ pending = 1 /\ gone = FALSE
      BY DEF Init
    <2>2. Len(cmds) = 1 /\ cmds[1].kind = "refresh" /\ Len(evts) = 0
      BY <2>1, PlainOrders
    <2>3. Items(cmds) = {1}
      BY <2>2 DEF Items
    <2>4. Cardinality({1}) = 1
      BY FS_Singleton
    <2>5. Count(cmds) = 1
      BY <2>3, <2>4 DEF Count
    <2>6. InHandCount = 0
      BY <2>1 DEF InHandCount
    <2>7. pending = Count(cmds) + Len(evts) + InHandCount
      BY <2>1, <2>2, <2>5, <2>6
    <2>8. ~gone
      BY <2>1
    <2> QED BY <2>7, <2>8 DEF Pended
  <1>2. IInv /\ Pended => PendingIsExact
    <2> SUFFICES ASSUME IInv, Pended PROVE PendingIsExact
      OBVIOUS
    <2>1. Cardinality(Counted) = Count(cmds) /\ Unanswered = Len(evts) + InHandCount
      BY DEF Counted, Items, Unanswered, Count, InHandCount
    <2> QED BY <2>1, Numbers DEF PendingIsExact, Pended
  <1> QED BY <1>1, <1>2, InitInv, NextInv, NextPended, PTL DEF Spec
=============================================================================
