------------------------- MODULE LatencyTest_proofs -------------------------
(***************************************************************************)
(* The safety properties of LatencyTest for any profiles, any number of    *)
(* tests and any number of taps.  Three questions carry the argument: may  *)
(* an instance still get calls (QueueInv), may a test still begin to       *)
(* measure (StartInv), may a batch still say something (Through).          *)
(***************************************************************************)
EXTENDS LatencyTest, FiniteSetTheorems, TLAPS

CallRecords == [what : {"start", "cancel", "destroy"}, inst : Nat, test : Nat]
ReplyRecords == [what : {"result", "finish", "cancel"}, test : Nat, guid : Guids \cup {"all"}]
BatchRecords == [inst : Nat, active : BOOLEAN, left : SUBSET Guids, sending : SUBSET Guids,
                 told : SUBSET Guids, end : {"none", "send", "remove", "check", "stop", "done"}]
JobRecords == [what : {"none", "flush", "finish"}, test : Nat,
               pc : {"done", "delay", "join", "lock"}]

Types == /\ begun \in Nat /\ bulk \in Nat /\ launch \in Nat /\ taps \in Nat
         /\ flush \in JobRecords
         /\ batch \in [Tests -> BatchRecords]
         /\ replies \in Seq(ReplyRecords)

\* What a queue holds, and whether an instance is to be destroyed.
Elems(q) == {q[i] : i \in 1..Len(q)}
Doomed(q, inst) == \E c \in Elems(q) : c.what = "destroy" /\ c.inst = inst

\* A call c and a later one d: an instance gets no call after its destroy, and
\* no test is started twice.
Clear(c, d) == /\ c.what = "destroy" => d.inst # c.inst
               /\ c.what = "start" /\ d.what = "start" => d.test # c.test
Ordered(q) == \A i, j \in 1..Len(q) : i < j => Clear(q[i], q[j])

\* Every instance with a call in the queue is up or doomed, and not both.
QueueInv(q, u, n) ==
  /\ q \in Seq(CallRecords) /\ n \in Nat /\ u \in 0..n
  /\ Ordered(q)
  /\ \A c \in Elems(q) : /\ c.inst \in 1..n
                         /\ c.what = "destroy" => c.inst # u
                         /\ c.inst = u \/ Doomed(q, c.inst)

\* A batch that measures is the running test's, past its finish, or doomed;
\* one that reached its finish measures and sends nothing.
BatchInv ==
  \A t \in Tests :
    LET b == batch[t]
    IN  /\ t > begun => b = NoBatch
        /\ b.inst <= created
        /\ b.active => /\ b.inst # 0
                       /\ b.inst = up \/ Doomed(calls, b.inst)
                       /\ t = bulk \/ b.end = "remove" \/ Doomed(calls, b.inst)
        /\ b.end \in {"check", "stop", "done"} => ~b.active
        /\ b.end \in {"send", "remove", "check", "stop"} => b.left = {} /\ b.sending = {}

\* A start, waiting or in preparation, is for a batch that has not begun; it is
\* for the running test unless its instance is doomed.
StartInv ==
  /\ \A c \in Elems(calls) : c.what = "start" =>
        /\ c.test \in 1..begun /\ c.test # launch
        /\ batch[c.test] = NoBatch
        /\ c.test = bulk \/ Doomed(calls, c.inst)
  /\ launch # 0 => batch[launch] = NoBatch

\* A batch that has sent its finish.
Through(b) == b.end \in {"remove", "check", "stop", "done"} /\ b.left = {} /\ b.sending = {}

\* A broadcast r and a later one s: no result follows the finish of its test.
Quiet(r, s) == r.what = "finish" /\ s.what = "result" => s.test # r.test
NothingAfterFinish(q) == \A i, j \in 1..Len(q) : i < j => Quiet(q[i], q[j])

\* A cancel on its way is for a test that neither measures nor will; a finish
\* is for a batch that is through.
ReplyInv ==
  /\ \A r \in Elems(replies) :
        /\ r.test \in 1..begun
        /\ r.what = "result" => r.guid \in Guids
        /\ r.what = "cancel" =>
             /\ ~batch[r.test].active /\ launch # r.test
             /\ \A c \in Elems(calls) : c.what = "start" => c.test # r.test
        /\ r.what = "finish" => Through(batch[r.test])
  /\ NothingAfterFinish(replies)

\* What the running test's batch told is shown, queued or on its way; once the
\* finish job is at work, nothing of it is on its way.
JobInv ==
  /\ flush.what = "finish" =>
        /\ Through(batch[flush.test])
        /\ \A r \in Elems(replies) : r.what = "result" => r.test # flush.test
  /\ bulk # 0 => \A g \in batch[bulk].told :
        \/ <<bulk, g>> \in pending \cup shown
        \/ \E r \in Elems(replies) : r.what = "result" /\ r.test = bulk /\ r.guid = g

\* Two starts that wait are for different instances.
Apart(c, d) == c.what = "start" /\ d.what = "start" => d.inst # c.inst
DistinctStarts(q) == \A i, j \in 1..Len(q) : i < j => Apart(q[i], q[j])

\* Without a tap every test has an instance of its own, and that of the running
\* test is up.
NoTapInv == taps = 0 =>
  /\ launch # 0 => up = 0
  /\ DistinctStarts(calls)
  /\ \A c \in Elems(calls) : c.what # "cancel"
  /\ \A c \in Elems(calls) : c.what = "start" =>
        /\ c.test = bulk => c.inst = up
        /\ \A t \in Tests : batch[t].inst # c.inst
  /\ \A s, t \in Tests : s # t /\ batch[s].inst # 0 => batch[s].inst # batch[t].inst
  /\ TestKeepsItsService

LatInv == /\ Types /\ LatencyInv /\ QueueInv(calls, up, created) /\ BatchInv
          /\ StartInv /\ ReplyInv /\ JobInv /\ NoTapInv

-----------------------------------------------------------------------------
(* Queues as sets of elements and ordered pairs *)

LEMMA ElemsOfAppend ==
  ASSUME NEW S, NEW q \in Seq(S), NEW c \in S
  PROVE  Append(q, c) \in Seq(S) /\ Elems(Append(q, c)) = Elems(q) \cup {c}
<1> DEFINE p == Append(q, c)
<1>1. p \in Seq(S) /\ Len(p) = Len(q) + 1 /\ Len(q) \in Nat
  OBVIOUS
<1>2. p[Len(q) + 1] = c /\ \A i \in 1..Len(q) : p[i] = q[i]
  OBVIOUS
<1> HIDE DEF p
<1>3. Elems(p) \subseteq Elems(q) \cup {c}
  <2>1. SUFFICES ASSUME NEW i \in 1..Len(p) PROVE p[i] \in Elems(q) \cup {c}
    BY DEF Elems
  <2>2. i \in 1..Len(q) \/ i = Len(q) + 1
    BY <1>1
  <2> QED BY <1>2, <2>2 DEF Elems
<1>4. Elems(q) \cup {c} \subseteq Elems(p)
  <2>1. Len(q) + 1 \in 1..Len(p) /\ \A i \in 1..Len(q) : i \in 1..Len(p)
    BY <1>1
  <2> QED BY <2>1, <1>2 DEF Elems
<1> QED BY <1>1, <1>3, <1>4 DEF p

LEMMA ElemsOfTail ==
  ASSUME NEW S, NEW q \in Seq(S), q # <<>>
  PROVE  /\ Tail(q) \in Seq(S) /\ Head(q) \in S
         /\ Elems(q) = {Head(q)} \cup Elems(Tail(q))
<1> DEFINE p == Tail(q)
<1>1. p \in Seq(S) /\ Head(q) = q[1] /\ Len(p) = Len(q) - 1 /\ Len(q) \in Nat /\ Len(q) > 0
  OBVIOUS
<1>2. \A i \in 1..Len(p) : p[i] = q[i + 1]
  OBVIOUS
<1>2a. q[1] \in S
  BY <1>1
<1> HIDE DEF p
<1>3. \A i \in 1..Len(p) : i + 1 \in 1..Len(q)
  BY <1>1
<1>4. {Head(q)} \cup Elems(p) \subseteq Elems(q)
  <2>1. 1 \in 1..Len(q)
    BY <1>1
  <2> QED BY <1>1, <1>2, <1>3, <2>1 DEF Elems
<1>5. Elems(q) \subseteq {Head(q)} \cup Elems(p)
  <2>1. SUFFICES ASSUME NEW i \in 1..Len(q) PROVE q[i] \in {Head(q)} \cup Elems(p)
    BY DEF Elems
  <2>2. i = 1 \/ (i - 1 \in 1..Len(p) /\ i = (i - 1) + 1)
    BY <1>1
  <2> QED BY <1>1, <1>2, <2>2 DEF Elems
<1> QED BY <1>1, <1>2a, <1>4, <1>5 DEF p

LEMMA ElemsOfConcat ==
  ASSUME NEW S, NEW q \in Seq(S), NEW r \in Seq(S)
  PROVE  q \o r \in Seq(S) /\ Elems(q \o r) = Elems(q) \cup Elems(r)
<1> DEFINE p == q \o r
<1>1. p \in Seq(S) /\ Len(p) = Len(q) + Len(r) /\ Len(q) \in Nat /\ Len(r) \in Nat
  OBVIOUS
<1>2. /\ \A i \in 1..Len(q) : p[i] = q[i] /\ i \in 1..Len(p)
      /\ \A i \in 1..Len(r) : p[Len(q) + i] = r[i] /\ Len(q) + i \in 1..Len(p)
  OBVIOUS
<1> HIDE DEF p
<1>3. Elems(q) \cup Elems(r) \subseteq Elems(p)
  BY <1>2 DEF Elems
<1>4. Elems(p) \subseteq Elems(q) \cup Elems(r)
  <2>1. SUFFICES ASSUME NEW i \in 1..Len(p) PROVE p[i] \in Elems(q) \cup Elems(r)
    BY DEF Elems
  <2>2. i \in 1..Len(q) \/ (i - Len(q) \in 1..Len(r) /\ i = Len(q) + (i - Len(q)))
    BY <1>1
  <2> QED BY <1>2, <2>2 DEF Elems
<1> QED BY <1>1, <1>3, <1>4 DEF p

\* The relations between two elements, when one is appended or removed.
LEMMA PairsOfAppend ==
  ASSUME NEW S, NEW q \in Seq(S), NEW c \in S
  PROVE  /\ Ordered(q) /\ (\A d \in Elems(q) : Clear(d, c)) => Ordered(Append(q, c))
         /\ DistinctStarts(q) /\ (\A d \in Elems(q) : Apart(d, c)) => DistinctStarts(Append(q, c))
         /\ NothingAfterFinish(q) /\ (\A d \in Elems(q) : Quiet(d, c))
              => NothingAfterFinish(Append(q, c))
<1> DEFINE p == Append(q, c)
<1>1. Len(p) = Len(q) + 1 /\ Len(q) \in Nat
  OBVIOUS
<1>2. p[Len(q) + 1] = c /\ \A i \in 1..Len(q) : p[i] = q[i] /\ q[i] \in Elems(q)
  BY DEF Elems
<1> HIDE DEF p
<1>3. \A i, j \in 1..Len(p) : i < j =>
        /\ i \in 1..Len(q)
        /\ j \in 1..Len(q) \/ j = Len(q) + 1
  BY <1>1
<1>4. Ordered(q) /\ (\A d \in Elems(q) : Clear(d, c)) => Ordered(p)
  BY <1>2, <1>3 DEF Ordered
<1>5. DistinctStarts(q) /\ (\A d \in Elems(q) : Apart(d, c)) => DistinctStarts(p)
  BY <1>2, <1>3 DEF DistinctStarts
<1>6. NothingAfterFinish(q) /\ (\A d \in Elems(q) : Quiet(d, c)) => NothingAfterFinish(p)
  BY <1>2, <1>3 DEF NothingAfterFinish
<1> QED BY <1>4, <1>5, <1>6 DEF p

LEMMA PairsOfTail ==
  ASSUME NEW S, NEW q \in Seq(S), q # <<>>
  PROVE  /\ Ordered(q) => Ordered(Tail(q)) /\ \A d \in Elems(Tail(q)) : Clear(Head(q), d)
         /\ DistinctStarts(q) => /\ DistinctStarts(Tail(q))
                                 /\ \A d \in Elems(Tail(q)) : Apart(Head(q), d)
         /\ NothingAfterFinish(q) => /\ NothingAfterFinish(Tail(q))
                                     /\ \A d \in Elems(Tail(q)) : Quiet(Head(q), d)
<1> DEFINE p == Tail(q)
<1>1. Head(q) = q[1] /\ Len(p) = Len(q) - 1 /\ Len(q) \in Nat /\ Len(q) > 0
  OBVIOUS
<1>2. \A i \in 1..Len(p) : p[i] = q[i + 1] /\ i + 1 \in 1..Len(q) /\ 1 < i + 1
  BY <1>1
<1> HIDE DEF p
<1>3. 1 \in 1..Len(q) /\ \A i, j \in 1..Len(p) : i < j => i + 1 < j + 1
  BY <1>1
<1>4. \A d \in Elems(p) : \E i \in 1..Len(p) : d = p[i]
  BY DEF Elems
<1>5. Ordered(q) => Ordered(p) /\ \A d \in Elems(p) : Clear(Head(q), d)
  <2>1. Ordered(q) => Ordered(p)
    BY <1>2, <1>3 DEF Ordered
  <2>2. ASSUME Ordered(q), NEW i \in 1..Len(p) PROVE Clear(Head(q), p[i])
    BY <1>1, <1>2, <1>3, <2>2 DEF Ordered
  <2> QED BY <1>4, <2>1, <2>2
<1>6. DistinctStarts(q) => DistinctStarts(p) /\ \A d \in Elems(p) : Apart(Head(q), d)
  <2>1. DistinctStarts(q) => DistinctStarts(p)
    BY <1>2, <1>3 DEF DistinctStarts
  <2>2. ASSUME DistinctStarts(q), NEW i \in 1..Len(p) PROVE Apart(Head(q), p[i])
    BY <1>1, <1>2, <1>3, <2>2 DEF DistinctStarts
  <2> QED BY <1>4, <2>1, <2>2
<1>7. NothingAfterFinish(q) => NothingAfterFinish(p) /\ \A d \in Elems(p) : Quiet(Head(q), d)
  <2>1. NothingAfterFinish(q) => NothingAfterFinish(p)
    BY <1>2, <1>3 DEF NothingAfterFinish
  <2>2. ASSUME NothingAfterFinish(q), NEW i \in 1..Len(p) PROVE Quiet(Head(q), p[i])
    BY <1>1, <1>2, <1>3, <2>2 DEF NothingAfterFinish
  <2> QED BY <1>4, <2>1, <2>2
<1> QED BY <1>5, <1>6, <1>7 DEF p

\* What CancelWorkers says: one cancel for each batch it removes.
LEMMA SayElems ==
  ASSUME NEW T \in SUBSET Tests
  PROVE  /\ Say(T, "cancel") \in Seq(ReplyRecords)
         /\ \A r \in Elems(Say(T, "cancel")) : \E t \in T : r = Reply("cancel", t, "all")
<1> DEFINE f == SetToSeq(T)
<1>1. IsFiniteSet(T)
  <2>1. 1 \in Int /\ MaxTests \in Int
    BY LatencyAssumption
  <2> QED BY <2>1, FS_Interval, FS_Subset DEF Tests
<1>2. Cardinality(T) \in Nat /\ \E g \in [1..Cardinality(T) -> T] : IsInjective(g)
  BY <1>1, FS_CardinalityType DEF ExistsBijection, Bijection, Injection
<1>3. f \in [1..Cardinality(T) -> T]
  BY <1>2 DEF SetToSeq
<1>4. f \in Seq(T) /\ Len(f) \in Nat
  BY <1>2, <1>3
<1> HIDE DEF f
<1>5. \A i \in 1..Len(f) : f[i] \in T /\ f[i] \in Nat
  <2>1. \A t \in Tests : t \in Nat
    BY LatencyAssumption DEF Tests
  <2>2. \A i \in 1..Len(f) : f[i] \in T
    BY <1>4
  <2> QED BY <2>1, <2>2
<1>6. Say(T, "cancel") = [i \in 1..Len(f) |-> Reply("cancel", f[i], "all")]
  BY DEF Say, f
<1>7. \A i \in 1..Len(f) : Reply("cancel", f[i], "all") \in ReplyRecords
  BY <1>5 DEF Reply, ReplyRecords
<1> DEFINE s == Say(T, "cancel")
<1>8. s \in [1..Len(f) -> ReplyRecords]
  BY <1>6, <1>7
<1>9. s \in Seq(ReplyRecords) /\ Len(s) = Len(f)
  BY <1>4, <1>8
<1>10. \A i \in 1..Len(s) : s[i] = Reply("cancel", f[i], "all") /\ f[i] \in T
  BY <1>5, <1>6, <1>9
<1> QED BY <1>9, <1>10 DEF Elems

LEMMA NoResultsAppended ==
  ASSUME NEW S, NEW q \in Seq(S), NEW r \in Seq(S),
         NothingAfterFinish(q), \A s \in Elems(r) : s.what = "cancel"
  PROVE  NothingAfterFinish(q \o r)
<1> DEFINE p == q \o r
<1>1. Len(p) = Len(q) + Len(r) /\ Len(q) \in Nat /\ Len(r) \in Nat
  OBVIOUS
<1>2. /\ \A i \in 1..Len(q) : p[i] = q[i]
      /\ \A i \in 1..Len(r) : p[Len(q) + i] = r[i] /\ r[i].what = "cancel"
  BY DEF Elems
<1> HIDE DEF p
<1>3. \A i \in 1..Len(p) : i \in 1..Len(q) \/ p[i].what = "cancel"
  <2>1. SUFFICES ASSUME NEW i \in 1..Len(p), i \notin 1..Len(q) PROVE p[i].what = "cancel"
    OBVIOUS
  <2>2. i - Len(q) \in 1..Len(r) /\ i = Len(q) + (i - Len(q))
    BY <1>1, <2>1
  <2> QED BY <1>2, <2>2
<1>4. NothingAfterFinish(p)
  BY <1>2, <1>3 DEF NothingAfterFinish, Quiet
<1> QED BY <1>4 DEF p

-----------------------------------------------------------------------------
(* The queue of :tasks: a start, a stop, and the call that is taken *)

LEMMA QueueTail ==
  ASSUME NEW q, NEW u, NEW n, QueueInv(q, u, n), q # <<>>
  PROVE  /\ QueueInv(Tail(q), u, n)
         /\ Head(q) \in CallRecords /\ Elems(q) = {Head(q)} \cup Elems(Tail(q))
         /\ \A d \in Elems(Tail(q)) : Clear(Head(q), d)
         /\ \A k : Doomed(Tail(q), k) => Doomed(q, k)
         /\ \A k : Doomed(q, k) =>
              Doomed(Tail(q), k) \/ (Head(q).what = "destroy" /\ Head(q).inst = k)
         /\ DistinctStarts(q) => DistinctStarts(Tail(q)) /\ \A d \in Elems(Tail(q)) : Apart(Head(q), d)
<1>1. /\ Tail(q) \in Seq(CallRecords) /\ Head(q) \in CallRecords
      /\ Elems(q) = {Head(q)} \cup Elems(Tail(q))
  BY ElemsOfTail DEF QueueInv
<1>2. /\ Ordered(Tail(q)) /\ \A d \in Elems(Tail(q)) : Clear(Head(q), d)
      /\ DistinctStarts(q) => DistinctStarts(Tail(q)) /\ \A d \in Elems(Tail(q)) : Apart(Head(q), d)
  BY PairsOfTail DEF QueueInv
<1>3. \A k : Doomed(Tail(q), k) => Doomed(q, k)
  BY <1>1 DEF Doomed
<1>4. \A k : Doomed(q, k) =>
        Doomed(Tail(q), k) \/ (Head(q).what = "destroy" /\ Head(q).inst = k)
  BY <1>1 DEF Doomed
<1>5. ASSUME NEW c \in Elems(Tail(q))
      PROVE  c.inst \in 1..n /\ (c.what = "destroy" => c.inst # u)
             /\ (c.inst = u \/ Doomed(Tail(q), c.inst))
  BY <1>1, <1>2, <1>4 DEF QueueInv, Clear
<1> QED BY <1>1, <1>2, <1>3, <1>4, <1>5 DEF QueueInv

LEMMA StopFacts ==
  ASSUME NEW q, NEW inst, QueueInv(q, up, created), StopIn(q, inst)
  PROVE  /\ QueueInv(calls', up', created') /\ created' = created
         /\ Elems(q) \subseteq Elems(calls')
         /\ \A c \in Elems(calls') : c \in Elems(q) \/ c.what = "destroy"
         /\ \A k : Doomed(q, k) => Doomed(calls', k)
         /\ \A k : k = up /\ k # 0 => k = up' \/ Doomed(calls', k)
         /\ up' \in {0, up} /\ (inst # up => up' = up) /\ (inst = up => up' = 0)
         /\ DistinctStarts(q) => DistinctStarts(calls')
<1> DEFINE c == [what |-> "destroy", inst |-> inst, test |-> 0]
<1>1. CASE ~(inst # 0 /\ inst = up)
  <2>1. calls' = q /\ up' = up /\ created' = created
    BY <1>1 DEF StopIn
  <2> QED BY <1>1, <2>1
<1>2. CASE inst # 0 /\ inst = up
  <2>1. calls' = Append(q, c) /\ up' = 0 /\ created' = created
    BY <1>2 DEF StopIn
  <2>2. q \in Seq(CallRecords) /\ up \in 0..created /\ created \in Nat
    BY DEF QueueInv
  <2>3. c \in CallRecords /\ c.what = "destroy" /\ c.inst = up
    BY <1>2, <2>2 DEF CallRecords
  <2> HIDE DEF c
  <2>4. calls' \in Seq(CallRecords) /\ Elems(calls') = Elems(q) \cup {c}
    BY <2>1, <2>2, <2>3, ElemsOfAppend
  <2>5. Ordered(calls')
    <3>1. \A d \in Elems(q) : Clear(d, c)
      BY <2>3 DEF QueueInv, Clear
    <3> QED BY <2>1, <2>2, <2>3, <3>1, PairsOfAppend DEF QueueInv
  <2>6. DistinctStarts(q) => DistinctStarts(calls')
    <3>1. \A d \in Elems(q) : Apart(d, c)
      BY <2>3 DEF Apart
    <3> QED BY <2>1, <2>2, <2>3, <3>1, PairsOfAppend
  <2>7. (\A k : Doomed(q, k) => Doomed(calls', k)) /\ Doomed(calls', up)
    BY <2>3, <2>4 DEF Doomed
  <2>8. ASSUME NEW d \in Elems(calls')
        PROVE  /\ d.inst \in 1..created /\ (d.what = "destroy" => d.inst # 0)
               /\ d.inst = 0 \/ Doomed(calls', d.inst)
    <3>1. CASE d = c
      BY <1>2, <2>2, <2>3, <2>7, <3>1
    <3>2. CASE d \in Elems(q)
      BY <2>2, <2>7, <3>2 DEF QueueInv
    <3> QED BY <2>4, <3>1, <3>2
  <2>9. QueueInv(calls', up', created')
    BY <2>1, <2>2, <2>4, <2>5, <2>8 DEF QueueInv
  <2> QED BY <1>2, <2>1, <2>3, <2>4, <2>6, <2>7, <2>9
<1> QED BY <1>1, <1>2

LEMMA StartFacts ==
  ASSUME NEW what \in {"start", "cancel"}, NEW test \in Nat,
         QueueInv(calls, up, created), StartOf(what, test),
         what = "start" => \A d \in Elems(calls) : d.what = "start" => d.test # test
  PROVE  LET c == [what |-> what, inst |-> up', test |-> test]
         IN  /\ QueueInv(calls', up', created') /\ created \in Nat
             /\ Elems(calls') = Elems(calls) \cup {c}
             /\ \A k : Doomed(calls, k) <=> Doomed(calls', k)
             /\ \/ up # 0 /\ up' = up /\ created' = created
                \/ up = 0 /\ up' = created + 1 /\ created' = created + 1
             /\ DistinctStarts(calls) /\ (\A d \in Elems(calls) : d.inst # up')
                  => DistinctStarts(calls')
<1> DEFINE c == [what |-> what, inst |-> up', test |-> test]
<1>1. calls' = Append(calls, c)
  BY DEF StartOf
<1>2. /\ \/ up # 0 /\ up' = up /\ created' = created
         \/ up = 0 /\ up' = created + 1 /\ created' = created + 1
      /\ created \in Nat /\ up \in 0..created /\ calls \in Seq(CallRecords)
  BY DEF StartOf, QueueInv
<1>3. /\ created' \in Nat /\ up' \in 1..created' /\ up' \in Nat /\ created <= created'
      /\ up' \in 0..created'
  BY <1>2
<1>4. c \in CallRecords /\ c.what = what /\ c.inst = up' /\ c.test = test
  BY <1>3 DEF CallRecords
<1> HIDE DEF c
<1>5. calls' \in Seq(CallRecords) /\ Elems(calls') = Elems(calls) \cup {c}
  BY <1>1, <1>2, <1>4, ElemsOfAppend
<1>6. \A d \in Elems(calls) : d.what = "destroy" => d.inst # up'
  BY <1>2 DEF QueueInv
<1>7. Ordered(calls')
  <2>1. \A d \in Elems(calls) : Clear(d, c)
    BY <1>4, <1>6 DEF Clear
  <2> QED BY <1>1, <1>2, <1>4, <2>1, PairsOfAppend DEF QueueInv
<1>8. DistinctStarts(calls) /\ (\A d \in Elems(calls) : d.inst # up') => DistinctStarts(calls')
  <2>1. (\A d \in Elems(calls) : d.inst # up') => \A d \in Elems(calls) : Apart(d, c)
    BY <1>4 DEF Apart
  <2> QED BY <1>1, <1>2, <1>4, <2>1, PairsOfAppend
<1>9. \A k : Doomed(calls, k) <=> Doomed(calls', k)
  BY <1>4, <1>5 DEF Doomed
<1>10. ASSUME NEW d \in Elems(calls')
       PROVE  /\ d.inst \in 1..created' /\ (d.what = "destroy" => d.inst # up')
              /\ d.inst = up' \/ Doomed(calls', d.inst)
  <2>1. CASE d = c
    BY <1>3, <1>4, <2>1
  <2>2. CASE d \in Elems(calls)
    <3>1. d.inst \in 1..created /\ (d.inst = up \/ Doomed(calls, d.inst))
      BY <2>2 DEF QueueInv
    <3>2. d.inst = up => up' = up
      BY <1>2, <3>1
    <3> QED BY <1>2, <1>3, <1>6, <1>9, <2>2, <3>1, <3>2
  <2> QED BY <1>5, <2>1, <2>2
<1>11. QueueInv(calls', up', created')
  BY <1>3, <1>5, <1>7, <1>10 DEF QueueInv
<1> QED BY <1>2, <1>5, <1>8, <1>9, <1>11 DEF c

-----------------------------------------------------------------------------
(* The steps of the main thread of the app *)

LEMMA Basics ==
  ASSUME LatInv
  PROVE  /\ \A t \in Tests : t \in Nat /\ t # 0
         /\ begun \in Nat /\ created \in Nat /\ up \in 0..created
         /\ bulk # 0 => bulk \in Tests /\ bulk = begun
         /\ launch # 0 => launch = bulk
         /\ 1..begun \subseteq Tests
BY LatencyAssumption DEF LatInv, LatencyInv, Types, QueueInv, Tests

LEMMA InitInv == ASSUME Init PROVE LatInv
<1>1. Types
  BY LatencyAssumption DEF Init, Types, NoJob, NoBatch, JobRecords, BatchRecords
<1>2. LatencyInv
  BY LatencyAssumption DEF Init, LatencyInv, NoJob
<1>3. calls = <<>> /\ replies = <<>> /\ Len(calls) = 0 /\ Len(replies) = 0
  BY DEF Init
<1>4. Elems(calls) = {} /\ Elems(replies) = {}
  BY <1>3 DEF Elems
<1>5. Ordered(calls) /\ DistinctStarts(calls) /\ NothingAfterFinish(replies)
  BY <1>3 DEF Ordered, DistinctStarts, NothingAfterFinish
<1>6. QueueInv(calls, up, created)
  BY <1>3, <1>4, <1>5 DEF QueueInv, Init
<1>7. BatchInv
  BY DEF BatchInv, Init, NoBatch
<1>8. StartInv
  BY <1>4 DEF StartInv, Init
<1>9. ReplyInv
  BY <1>4, <1>5 DEF ReplyInv
<1>10. JobInv
  BY DEF JobInv, Init, NoJob
<1>11. NoTapInv
  BY <1>4, <1>5 DEF NoTapInv, TestKeepsItsService, Init, NoBatch
<1> QED BY <1>1, <1>2, <1>6, <1>7, <1>8, <1>9, <1>10, <1>11 DEF LatInv

\* What the screen's stop of the service leaves: every instance is on its way
\* out, and nothing new is asked for.
LEMMA DropFacts ==
  ASSUME LatInv, DropAll
  PROVE  /\ QueueInv(calls', up', created') /\ created' = created /\ up' = 0
         /\ pending' = {} /\ flush' = NoJob
         /\ \A c \in Elems(calls') : c \in Elems(calls) \/ c.what = "destroy"
         /\ \A t \in Tests : batch[t].active => Doomed(calls', batch[t].inst)
         /\ \A c \in Elems(calls) : Doomed(calls', c.inst)
         /\ DistinctStarts(calls) => DistinctStarts(calls')
<1>1. QueueInv(calls, up, created) /\ StopIn(calls, up)
  BY DEF LatInv, DropAll
<1>2. /\ QueueInv(calls', up', created') /\ created' = created /\ up' = 0
      /\ \A c \in Elems(calls') : c \in Elems(calls) \/ c.what = "destroy"
      /\ \A k : Doomed(calls, k) => Doomed(calls', k)
      /\ \A k : k = up /\ k # 0 => k = up' \/ Doomed(calls', k)
      /\ DistinctStarts(calls) => DistinctStarts(calls')
  BY <1>1, StopFacts
<1>3. \A k : k # 0 /\ (k = up \/ Doomed(calls, k)) => Doomed(calls', k)
  BY <1>2
<1>4. \A t \in Tests : batch[t].active => Doomed(calls', batch[t].inst)
  BY <1>3 DEF LatInv, BatchInv
<1>5. \A c \in Elems(calls) : c.inst # 0
  BY <1>1 DEF QueueInv
<1>6. \A c \in Elems(calls) : Doomed(calls', c.inst)
  BY <1>1, <1>3, <1>5 DEF QueueInv
<1> QED BY <1>2, <1>4, <1>6 DEF DropAll

LEMMA CancelAllPingInv == ASSUME LatInv, CancelAllPing PROVE LatInv'
<1> USE DEF LatInv
<1>1. /\ bulk' = 0 /\ launch' = 0 /\ DropAll
      /\ UNCHANGED <<begun, shown, batch, replies, taps>>
  BY DEF CancelAllPing
<1>2. /\ QueueInv(calls', up', created') /\ created' = created /\ up' = 0
      /\ pending' = {} /\ flush' = NoJob
      /\ \A c \in Elems(calls') : c \in Elems(calls) \/ c.what = "destroy"
      /\ \A t \in Tests : batch[t].active => Doomed(calls', batch[t].inst)
      /\ \A c \in Elems(calls) : Doomed(calls', c.inst)
      /\ DistinctStarts(calls) => DistinctStarts(calls')
  BY <1>1, DropFacts
<1>3. Types'
  BY <1>1, <1>2 DEF Types, NoJob, JobRecords
<1>4. LatencyInv'
  BY <1>1, <1>2, Basics DEF LatencyInv, NoJob
<1>5. BatchInv'
  BY <1>1, <1>2 DEF BatchInv
<1>6. StartInv'
  BY <1>1, <1>2, Basics DEF StartInv
<1>7. ReplyInv'
  BY <1>1, <1>2, Basics DEF ReplyInv
<1>8. JobInv'
  BY <1>1, <1>2 DEF JobInv, NoJob
<1>9. NoTapInv'
  BY <1>1, <1>2, Basics DEF NoTapInv, StartInv, TestKeepsItsService
<1> QED BY <1>2, <1>3, <1>4, <1>5, <1>6, <1>7, <1>8, <1>9

LEMMA TestAllRealPingInv == ASSUME LatInv, TestAllRealPing PROVE LatInv'
<1> USE DEF LatInv
<1>1. /\ begun < MaxTests /\ begun' = begun + 1 /\ bulk' = begun + 1 /\ launch' = begun + 1
      /\ DropAll /\ shown' = {}
      /\ UNCHANGED <<batch, replies, taps>>
  BY DEF TestAllRealPing
<1>2. /\ QueueInv(calls', up', created') /\ created' = created /\ up' = 0
      /\ pending' = {} /\ flush' = NoJob
      /\ \A c \in Elems(calls') : c \in Elems(calls) \/ c.what = "destroy"
      /\ \A t \in Tests : batch[t].active => Doomed(calls', batch[t].inst)
      /\ \A c \in Elems(calls) : Doomed(calls', c.inst)
      /\ DistinctStarts(calls) => DistinctStarts(calls')
  BY <1>1, DropFacts
<1>3. Types'
  BY <1>1, <1>2 DEF Types, NoJob, JobRecords
<1>4. LatencyInv'
  BY <1>1, <1>2, Basics, LatencyAssumption DEF LatencyInv, NoJob
<1>5. /\ begun + 1 \in Tests /\ begun \in Nat /\ begun + 1 > begun
      /\ \A t \in Tests : t > begun + 1 => t > begun
  BY <1>1, Basics, LatencyAssumption DEF Tests
<1>6. batch[begun + 1] = NoBatch
  BY <1>5 DEF BatchInv
<1>7. BatchInv'
  BY <1>1, <1>2, <1>5 DEF BatchInv
<1>8. \A t \in 1..begun : t # begun + 1 /\ t \in 1..(begun + 1)
  BY <1>5
<1>9. StartInv'
  BY <1>1, <1>2, <1>6, <1>8 DEF StartInv
<1>10. ReplyInv'
  BY <1>1, <1>2, <1>8 DEF ReplyInv
<1>11. JobInv'
  BY <1>1, <1>2, <1>6 DEF JobInv, NoJob, NoBatch
<1>12. NoTapInv'
  <2>1. SUFFICES ASSUME taps = 0 PROVE NoTapInv'
    BY <1>1 DEF NoTapInv
  <2>2. TestKeepsItsService'
    BY <1>1, <1>6 DEF TestKeepsItsService, NoBatch
  <2>3. \A c \in Elems(calls') : c.what # "cancel"
    BY <1>2, <2>1 DEF NoTapInv
  <2>4. \A c \in Elems(calls') : c.what = "start" =>
           c.test # bulk' /\ \A t \in Tests : batch[t].inst # c.inst
    BY <1>1, <1>2, <1>8, <2>1 DEF NoTapInv, StartInv
  <2> QED BY <1>1, <1>2, <2>1, <2>2, <2>3, <2>4 DEF NoTapInv
<1> QED BY <1>2, <1>3, <1>4, <1>7, <1>9, <1>10, <1>11, <1>12

LEMMA LaunchInv == ASSUME LatInv, Launch PROVE LatInv'
<1> USE DEF LatInv
<1>1. /\ launch # 0 /\ launch' = 0
      /\ UNCHANGED <<begun, bulk, pending, shown, flush, batch, taps>>
  BY DEF Launch
<1>2. launch = bulk /\ launch = begun /\ launch \in Tests /\ launch \in Nat /\ launch \in 1..begun
      /\ batch[launch] = NoBatch
  BY <1>1, Basics DEF StartInv
<1>3. LatencyInv /\ bulk' = bulk /\ begun' = begun
  BY <1>1
<1>4. CASE StartOf("start", launch) /\ UNCHANGED replies
  <2> DEFINE c == [what |-> "start", inst |-> up', test |-> launch]
  <2>1. \A d \in Elems(calls) : d.what = "start" => d.test # launch
    BY DEF StartInv
  <2>2. /\ QueueInv(calls', up', created') /\ created \in Nat
        /\ Elems(calls') = Elems(calls) \cup {c}
        /\ \A k : Doomed(calls, k) <=> Doomed(calls', k)
        /\ \/ up # 0 /\ up' = up /\ created' = created
           \/ up = 0 /\ up' = created + 1 /\ created' = created + 1
        /\ DistinctStarts(calls) /\ (\A d \in Elems(calls) : d.inst # up')
             => DistinctStarts(calls')
    BY <1>2, <1>4, <2>1, StartFacts
  <2>3. c.what = "start" /\ c.inst = up' /\ c.test = launch
    OBVIOUS
  <2> HIDE DEF c
  <2>4. Types'
    BY <1>1, <1>4 DEF Types
  <2>5. LatencyInv'
    BY <1>1, <2>2 DEF LatencyInv, QueueInv
  <2>6. created <= created' /\ \A t \in Tests : batch[t].inst <= created'
    <3>1. \A t \in Tests : batch[t].inst <= created /\ batch[t].inst \in Nat
      BY DEF BatchInv, Types, BatchRecords
    <3> QED BY <2>2, <3>1
  <2>7. BatchInv'
    <3>1. \A k : k = up /\ k # 0 => up' = up
      BY <2>2
    <3> QED BY <1>1, <2>2, <2>6, <3>1 DEF BatchInv
  <2>8. StartInv'
    BY <1>1, <1>2, <2>2, <2>3, Basics DEF StartInv
  <2>9. ReplyInv'
    BY <1>1, <1>2, <1>4, <2>2, <2>3, Basics DEF ReplyInv
  <2>10. JobInv'
    BY <1>1, <1>4 DEF JobInv
  <2>11. NoTapInv'
    <3>1. SUFFICES ASSUME taps = 0 PROVE NoTapInv'
      BY <1>1 DEF NoTapInv
    <3>2. up = 0 /\ up' = created + 1
      BY <1>1, <2>2, <3>1 DEF NoTapInv
    <3>3. \A d \in Elems(calls) : d.inst # up'
      BY <3>2, <2>2 DEF QueueInv
    <3>4. \A t \in Tests : batch[t].inst # up'
      <4>1. \A t \in Tests : batch[t].inst <= created /\ batch[t].inst \in Nat
        BY DEF BatchInv, Types, BatchRecords
      <4> QED BY <3>2, <2>2, <4>1
    <3>5. TestKeepsItsService'
      <4>1. ~batch[bulk].active
        BY <1>2 DEF NoBatch
      <4> QED BY <1>1, <4>1 DEF TestKeepsItsService
    <3>6. \A d \in Elems(calls') : d.what # "cancel"
      BY <2>2, <2>3, <3>1 DEF NoTapInv
    <3>7. \A d \in Elems(calls) : d.what = "start" => d.test # bulk
      BY <2>1, <1>2
    <3>8. \A d \in Elems(calls') : d.what = "start" =>
             /\ d.test = bulk => d.inst = up'
             /\ \A t \in Tests : batch[t].inst # d.inst
      BY <2>2, <2>3, <3>1, <3>4, <3>7 DEF NoTapInv
    <3> QED BY <1>1, <2>2, <3>1, <3>3, <3>5, <3>6, <3>8 DEF NoTapInv
  <2> QED BY <2>2, <2>4, <2>5, <2>7, <2>8, <2>9, <2>10, <2>11
<1>5. CASE replies' = Append(replies, Reply("cancel", launch, "all")) /\ UNCHANGED system
  <2> DEFINE r == Reply("cancel", launch, "all")
  <2>1. r \in ReplyRecords /\ r.what = "cancel" /\ r.test = launch
    BY <1>2 DEF Reply, ReplyRecords
  <2>2. replies' = Append(replies, r) /\ calls' = calls /\ up' = up /\ created' = created
    BY <1>5 DEF system
  <2> HIDE DEF r
  <2>3. replies' \in Seq(ReplyRecords) /\ Elems(replies') = Elems(replies) \cup {r}
    BY <2>1, <2>2, ElemsOfAppend DEF Types
  <2>4. NothingAfterFinish(replies')
    <3>1. \A d \in Elems(replies) : Quiet(d, r)
      BY <2>1 DEF Quiet
    <3> QED BY <2>1, <2>2, <3>1, PairsOfAppend DEF Types, ReplyInv
  <2>5. Types'
    BY <1>1, <2>3 DEF Types
  <2>6. LatencyInv'
    BY <1>1, <2>2 DEF LatencyInv
  <2>7. BatchInv'
    BY <1>1, <2>2 DEF BatchInv
  <2>8. StartInv'
    BY <1>1, <2>2, Basics DEF StartInv
  <2>9. \A c \in Elems(calls) : c.what = "start" => c.test # launch
    BY DEF StartInv
  <2>10. ReplyInv'
    BY <1>1, <1>2, <2>1, <2>2, <2>3, <2>4, <2>9, Basics DEF ReplyInv, NoBatch
  <2>11. JobInv'
    BY <1>1, <2>1, <2>3 DEF JobInv
  <2>12. NoTapInv'
    BY <1>1, <2>2 DEF NoTapInv, TestKeepsItsService
  <2> QED BY <2>2, <2>5, <2>6, <2>7, <2>8, <2>10, <2>11, <2>12
<1> QED BY <1>4, <1>5 DEF Launch

\* The broadcast that is taken; the rest of the queue keeps its promises.
LEMMA EventFacts ==
  ASSUME LatInv, HandleServiceEvent
  PROVE  /\ replies' \in Seq(ReplyRecords)
         /\ Head(replies) \in ReplyRecords /\ Head(replies) \in Elems(replies)
         /\ Elems(replies) = {Head(replies)} \cup Elems(replies')
         /\ \A s \in Elems(replies') : Quiet(Head(replies), s)
         /\ ReplyInv' /\ QueueInv(calls', up', created')
         /\ UNCHANGED <<begun, launch, up, created, calls, batch, taps>>
<1>1. /\ replies # <<>> /\ replies' = Tail(replies) /\ replies \in Seq(ReplyRecords)
      /\ UNCHANGED <<begun, launch, up, created, calls, batch, taps>>
  BY DEF HandleServiceEvent, system, LatInv, Types
<1>2. /\ replies' \in Seq(ReplyRecords) /\ Head(replies) \in ReplyRecords
      /\ Elems(replies) = {Head(replies)} \cup Elems(replies')
  BY <1>1, ElemsOfTail
<1>3. NothingAfterFinish(replies') /\ \A s \in Elems(replies') : Quiet(Head(replies), s)
  BY <1>1, PairsOfTail DEF LatInv, ReplyInv
<1>4. ReplyInv'
  BY <1>1, <1>2, <1>3 DEF LatInv, ReplyInv
<1> QED BY <1>1, <1>2, <1>3, <1>4 DEF LatInv

LEMMA HandleServiceEventInv == ASSUME LatInv, HandleServiceEvent PROVE LatInv'
<1> USE DEF LatInv
<1> DEFINE r == Head(replies)
<1>1. /\ replies' \in Seq(ReplyRecords) /\ r \in ReplyRecords /\ r \in Elems(replies)
      /\ Elems(replies) = {r} \cup Elems(replies')
      /\ \A s \in Elems(replies') : Quiet(r, s)
      /\ ReplyInv' /\ QueueInv(calls', up', created')
      /\ UNCHANGED <<begun, launch, up, created, calls, batch, taps>>
  BY EventFacts
<1>2. \/ r.what = "result" /\ OnResult(r)
      \/ r.what = "finish" /\ OnFinish(r)
      \/ r.what = "cancel" /\ OnCancelled(r)
  BY DEF HandleServiceEvent
<1> HIDE DEF r
<1>3. r.test \in 1..begun /\ r.test \in Tests /\ r.test # 0 /\ r.test \in Nat
  BY <1>1, Basics DEF ReplyInv
<1>4. /\ bulk' = bulk => BatchInv' /\ StartInv'
      /\ bulk' = bulk => NoTapInv'
  <2>1. bulk' = bulk => BatchInv'
    BY <1>1 DEF BatchInv
  <2>2. bulk' = bulk => StartInv'
    BY <1>1 DEF StartInv
  <2>3. bulk' = bulk => NoTapInv'
    BY <1>1 DEF NoTapInv, TestKeepsItsService
  <2> QED BY <2>1, <2>2, <2>3
<1>5. CASE r.what = "result" /\ OnResult(r)
  <2>1. /\ bulk' = bulk /\ shown' = shown
        /\ bulk = r.test => /\ pending' = pending \cup {<<r.test, r.guid>>}
                            /\ flush' = IF flush.what # "none" THEN flush
                                        ELSE [what |-> "flush", test |-> bulk, pc |-> "delay"]
        /\ bulk # r.test => pending' = pending /\ flush' = flush
    BY <1>5 DEF OnResult
  <2>2. flush' = flush \/ flush' = [what |-> "flush", test |-> bulk, pc |-> "delay"]
    BY <2>1
  <2>3. Types'
    BY <1>1, <2>1, <2>2 DEF Types, JobRecords
  <2>4. r.guid \in Guids
    BY <1>1, <1>5 DEF ReplyInv
  <2>5. LatencyInv'
    <3>1. CASE bulk # r.test
      BY <1>1, <2>1, <3>1 DEF LatencyInv
    <3>2. CASE bulk = r.test
      <4>1. pending' \subseteq {bulk} \X Guids
        BY <2>1, <2>4, <3>2 DEF LatencyInv
      <4>2. /\ flush'.what # "none" /\ flush'.test = bulk /\ bulk # 0
            /\ flush'.what \in {"none", "flush", "finish"}
            /\ flush'.pc \in {"done", "delay", "join", "lock"}
        BY <1>3, <2>1, <3>2 DEF LatencyInv
      <4> QED BY <1>1, <2>1, <4>1, <4>2 DEF LatencyInv
    <3> QED BY <3>1, <3>2
  <2>6. JobInv'
    <3>1. flush'.what = "finish" => flush' = flush
      BY <2>2
    <3>2. pending \subseteq pending'
      BY <2>1
    <3>3. \A g \in Guids : r.what = "result" /\ r.test = bulk /\ r.guid = g => <<bulk, g>> \in pending'
      BY <2>1
    <3>4. bulk # 0 => batch[bulk].told \subseteq Guids
      BY Basics DEF Types, BatchRecords
    <3> QED BY <1>1, <2>1, <3>1, <3>2, <3>3, <3>4 DEF JobInv
  <2> QED BY <1>1, <1>4, <2>1, <2>3, <2>5, <2>6
<1>6. CASE r.what = "finish" /\ OnFinish(r)
  <2>1. /\ bulk' = bulk /\ shown' = shown /\ pending' = pending
        /\ flush' = IF bulk # r.test THEN flush
                    ELSE [what |-> "finish", test |-> bulk, pc |-> "join"]
    BY <1>6 DEF OnFinish
  <2>2. Types'
    BY <1>1, <2>1 DEF Types, JobRecords
  <2>3. LatencyInv'
    BY <1>1, <1>3, <2>1 DEF LatencyInv
  <2>4. JobInv'
    <3>1. bulk' # 0 => \A g \in batch'[bulk'].told :
             \/ <<bulk', g>> \in pending' \cup shown'
             \/ \E s \in Elems(replies') : s.what = "result" /\ s.test = bulk' /\ s.guid = g
      BY <1>1, <1>6, <2>1 DEF JobInv
    <3>2. CASE bulk # r.test
      BY <1>1, <2>1, <3>1, <3>2 DEF JobInv
    <3>3. CASE bulk = r.test
      <4>1. flush'.test = r.test
        BY <2>1, <3>3
      <4>2. Through(batch[r.test])
        BY <1>1, <1>6 DEF ReplyInv
      <4>3. \A s \in Elems(replies') : s.what = "result" => s.test # r.test
        BY <1>1, <1>6 DEF Quiet
      <4> QED BY <1>1, <3>1, <4>1, <4>2, <4>3 DEF JobInv
    <3> QED BY <3>2, <3>3
  <2> QED BY <1>1, <1>4, <2>1, <2>2, <2>3, <2>4
<1>7. CASE r.what = "cancel" /\ OnCancelled(r)
  <2>1. CASE ~(bulk = r.test /\ bulk # 0)
    <3>1. UNCHANGED <<bulk, pending, flush, shown>>
      BY <1>7, <2>1 DEF OnCancelled
    <3>2. Types'
      BY <1>1, <3>1 DEF Types
    <3>3. LatencyInv'
      BY <1>1, <3>1 DEF LatencyInv
    <3>4. JobInv'
      BY <1>1, <1>7, <3>1 DEF JobInv
    <3> QED BY <1>1, <1>4, <3>1, <3>2, <3>3, <3>4
  <2>2. CASE bulk = r.test /\ bulk # 0
    <3>1. bulk' = 0 /\ pending' = {} /\ flush' = NoJob /\ shown' = shown
      BY <1>7, <2>2 DEF OnCancelled
    <3>2. /\ ~batch[bulk].active /\ launch # bulk
          /\ \A c \in Elems(calls) : c.what = "start" => c.test # bulk
      BY <1>1, <1>7, <2>2 DEF ReplyInv
    <3>3. launch = 0
      BY <3>2, Basics
    <3>4. Types'
      BY <1>1, <3>1 DEF Types, NoJob, JobRecords
    <3>5. LatencyInv'
      BY <1>1, <3>1, <3>3, Basics DEF LatencyInv, NoJob
    <3>6. BatchInv'
      BY <1>1, <3>1, <3>2 DEF BatchInv
    <3>7. StartInv'
      BY <1>1, <3>1, <3>2 DEF StartInv
    <3>8. JobInv'
      BY <3>1 DEF JobInv, NoJob
    <3>9. NoTapInv'
      <4>1. \A c \in Elems(calls) : c.what = "start" => c.test # 0
        BY Basics DEF StartInv
      <4>2. TestKeepsItsService'
        BY <1>1, <3>1, Basics DEF TestKeepsItsService
      <4> QED BY <1>1, <3>1, <4>1, <4>2 DEF NoTapInv
    <3> QED BY <1>1, <3>4, <3>5, <3>6, <3>7, <3>8, <3>9
  <2> QED BY <2>1, <2>2
<1> QED BY <1>2, <1>5, <1>6, <1>7

LEMMA FlushBeginInv == ASSUME LatInv, FlushBegin PROVE LatInv'
<1> USE DEF LatInv
<1>1. /\ flush' = [flush EXCEPT !.pc = "lock"] /\ flush \in JobRecords
      /\ UNCHANGED <<begun, bulk, launch, pending, shown, up, created, calls, batch, replies, taps>>
  BY DEF FlushBegin, system, Types
<1>2. flush' \in JobRecords /\ flush'.what = flush.what /\ flush'.test = flush.test /\ flush'.pc = "lock"
  BY <1>1 DEF JobRecords
<1>3. Types' /\ LatencyInv'
  BY <1>1, <1>2 DEF Types, LatencyInv
<1>4. BatchInv' /\ StartInv'
  BY <1>1 DEF BatchInv, StartInv
<1>5. ReplyInv' /\ NoTapInv'
  BY <1>1 DEF ReplyInv, NoTapInv, TestKeepsItsService
<1>6. JobInv'
  BY <1>1, <1>2 DEF JobInv
<1> QED BY <1>1, <1>3, <1>4, <1>5, <1>6

\* A job that finishes its test finds it through, so nothing is launched or
\* still measuring for it.
LEMMA FlushEndInv == ASSUME LatInv, FlushEnd PROVE LatInv'
<1> USE DEF LatInv
<1>1. /\ flush.pc = "lock" /\ pending' = {} /\ flush' = NoJob
      /\ shown' = IF bulk = flush.test THEN shown \cup pending ELSE shown
      /\ bulk' = IF flush.what = "finish" /\ bulk = flush.test THEN 0 ELSE bulk
      /\ UNCHANGED <<begun, launch, up, created, calls, batch, replies, taps>>
  BY DEF FlushEnd, system
<1>2. Types'
  BY <1>1 DEF Types, NoJob, JobRecords
<1>3. shown' \subseteq {begun} \X Guids
  <2>1. bulk # 0 => pending \subseteq {begun} \X Guids
    BY Basics DEF LatencyInv
  <2>2. bulk = 0 => pending = {}
    BY DEF LatencyInv
  <2> QED BY <1>1, <2>1, <2>2 DEF LatencyInv
<1>4. bulk # 0 /\ flush.what = "finish" =>
         /\ launch = 0
         /\ batch[bulk].active => batch[bulk].end = "remove"
         /\ batch[bulk] # NoBatch
  <2>1. SUFFICES ASSUME bulk # 0, flush.what = "finish"
                 PROVE  /\ launch = 0
                        /\ batch[bulk].active => batch[bulk].end = "remove"
                        /\ batch[bulk] # NoBatch
    OBVIOUS
  <2>2. flush.test = bulk /\ bulk \in Tests
    BY <2>1, Basics DEF LatencyInv
  <2>3. batch[bulk].end \in {"remove", "check", "stop", "done"}
    BY <2>1, <2>2 DEF JobInv, Through
  <2>4. batch[bulk] # NoBatch
    BY <2>3 DEF NoBatch
  <2>5. batch[bulk].active => batch[bulk].end = "remove"
    BY <2>2, <2>3 DEF BatchInv
  <2>6. launch = 0
    BY <2>4, Basics DEF StartInv
  <2> QED BY <2>4, <2>5, <2>6
<1>5. LatencyInv'
  BY <1>1, <1>3, <1>4, Basics DEF LatencyInv, NoJob
<1>6. \/ bulk' = bulk
      \/ bulk' = 0 /\ bulk # 0 /\ flush.what = "finish"
      \/ bulk' = 0 /\ bulk = 0
  <2>1. CASE flush.what = "finish" /\ bulk = flush.test
    BY <1>1, <2>1
  <2>2. CASE ~(flush.what = "finish" /\ bulk = flush.test)
    BY <1>1, <2>2
  <2> QED BY <2>1, <2>2
<1>7. BatchInv'
  BY <1>1, <1>4, <1>6 DEF BatchInv
<1>8. StartInv'
  BY <1>1, <1>4, <1>6 DEF StartInv
<1>9. ReplyInv'
  BY <1>1 DEF ReplyInv
<1>10. JobInv'
  <2>1. flush'.what = "none"
    BY <1>1 DEF NoJob
  <2>2. bulk' # 0 => bulk' = bulk /\ pending \cup shown \subseteq shown'
    <3>1. bulk' # 0 => bulk' = bulk
      BY <1>6
    <3>2. pending # {} => bulk = flush.test
      BY DEF LatencyInv
    <3> QED BY <1>1, <3>1, <3>2
  <2> QED BY <1>1, <2>1, <2>2 DEF JobInv
<1>11. NoTapInv'
  <2>1. \A c \in Elems(calls) : c.what = "start" => c.test # 0
    BY Basics DEF StartInv
  <2>2. TestKeepsItsService' \/ taps # 0
    BY <1>1, <1>6, Basics DEF TestKeepsItsService, NoTapInv
  <2> QED BY <1>1, <1>6, <2>1, <2>2 DEF NoTapInv
<1> QED BY <1>1, <1>2, <1>5, <1>7, <1>8, <1>9, <1>10, <1>11

-----------------------------------------------------------------------------
(* The steps of :tasks *)

LEMMA TapCancelInv == ASSUME LatInv, TapCancel PROVE LatInv'
<1> USE DEF LatInv
<1> DEFINE c == [what |-> "cancel", inst |-> up', test |-> 0]
<1>1. /\ taps < MaxTaps /\ taps' = taps + 1 /\ taps \in Nat
      /\ StartOf("cancel", 0)
      /\ UNCHANGED <<begun, bulk, launch, pending, shown, flush, batch, replies>>
  BY DEF TapCancel, screen, Types
<1>2. /\ QueueInv(calls', up', created') /\ created \in Nat
      /\ Elems(calls') = Elems(calls) \cup {c}
      /\ \A k : Doomed(calls, k) <=> Doomed(calls', k)
      /\ \/ up # 0 /\ up' = up /\ created' = created
         \/ up = 0 /\ up' = created + 1 /\ created' = created + 1
  BY <1>1, StartFacts
<1>3. c.what = "cancel" /\ c.inst = up'
  OBVIOUS
<1> HIDE DEF c
<1>4. Types'
  BY <1>1 DEF Types
<1>5. LatencyInv'
  BY <1>1, <1>2, LatencyAssumption DEF LatencyInv, QueueInv
<1>6. \A t \in Tests : batch[t].inst <= created'
  <2>1. \A t \in Tests : batch[t].inst <= created /\ batch[t].inst \in Nat
    BY DEF BatchInv, Types, BatchRecords
  <2> QED BY <1>2, <2>1
<1>7. BatchInv'
  <2>1. \A k : k = up /\ k # 0 => up' = up
    BY <1>2
  <2> QED BY <1>1, <1>2, <1>6, <2>1 DEF BatchInv
<1>8. StartInv'
  BY <1>1, <1>2, <1>3 DEF StartInv
<1>9. ReplyInv'
  BY <1>1, <1>2, <1>3 DEF ReplyInv
<1>10. JobInv'
  BY <1>1 DEF JobInv
<1>11. taps' # 0
  BY <1>1
<1>12. NoTapInv'
  BY <1>11 DEF NoTapInv
<1> QED BY <1>2, <1>4, <1>5, <1>7, <1>8, <1>9, <1>10, <1>12

\* A batch that is cancelled, and those that are not.
LEMMA CancelFacts ==
  ASSUME LatInv, NEW inst, CancelWorkers(inst)
  PROVE  /\ batch' \in [Tests -> BatchRecords]
         /\ \A t \in ActiveWorkers(inst) :
              /\ ~batch'[t].active /\ batch'[t].inst = batch[t].inst
              /\ batch'[t].left = {} /\ batch'[t].sending = batch[t].sending
              /\ batch'[t].told = batch[t].told /\ batch[t] # NoBatch
              /\ batch'[t].end = IF batch[t].end = "none" THEN "done" ELSE batch[t].end
         /\ \A t \in Tests : t \notin ActiveWorkers(inst) => batch'[t] = batch[t]
         /\ replies' \in Seq(ReplyRecords) /\ NothingAfterFinish(replies')
         /\ Elems(replies) \subseteq Elems(replies')
         /\ \A r \in Elems(replies') : r \in Elems(replies) \/
              \E t \in ActiveWorkers(inst) : r = Reply("cancel", t, "all")
<1> USE DEF LatInv
<1> DEFINE W == ActiveWorkers(inst)
           s == Say(W, "cancel")
<1>1. W \subseteq Tests /\ \A t \in W : batch[t].active
  BY DEF ActiveWorkers
<1>2. /\ batch' = [t \in Tests |-> IF t \in W THEN Cancelled(batch[t]) ELSE batch[t]]
      /\ replies' = replies \o s
  BY DEF CancelWorkers
<1>3. s \in Seq(ReplyRecords) /\ \A r \in Elems(s) : \E t \in W : r = Reply("cancel", t, "all")
  BY <1>1, SayElems
<1> HIDE DEF W, s
<1>4. batch \in [Tests -> BatchRecords] /\ replies \in Seq(ReplyRecords)
  BY DEF Types
<1>5. ASSUME NEW t \in W
      PROVE  /\ Cancelled(batch[t]) \in BatchRecords
             /\ ~batch'[t].active /\ batch'[t].inst = batch[t].inst
             /\ batch'[t].left = {} /\ batch'[t].sending = batch[t].sending
             /\ batch'[t].told = batch[t].told
             /\ batch'[t].end = IF batch[t].end = "none" THEN "done" ELSE batch[t].end
  <2> DEFINE b == batch[t]
  <2>1. b \in BatchRecords /\ batch'[t] = Cancelled(b)
    BY <1>1, <1>2, <1>4, <1>5
  <2> HIDE DEF b
  <2>2. /\ Cancelled(b) \in BatchRecords
        /\ ~Cancelled(b).active /\ Cancelled(b).inst = b.inst
        /\ Cancelled(b).left = {} /\ Cancelled(b).sending = b.sending
        /\ Cancelled(b).told = b.told
        /\ Cancelled(b).end = IF b.end = "none" THEN "done" ELSE b.end
    BY <2>1 DEF Cancelled, BatchRecords
  <2> QED BY <2>1, <2>2 DEF b
<1>6. \A t \in W : batch[t] # NoBatch
  BY <1>1 DEF NoBatch
<1>7. batch' \in [Tests -> BatchRecords]
  BY <1>2, <1>4, <1>5
<1>8. \A t \in Tests : t \notin W => batch'[t] = batch[t]
  BY <1>2
<1>9. replies' \in Seq(ReplyRecords) /\ Elems(replies') = Elems(replies) \cup Elems(s)
  BY <1>2, <1>3, <1>4, ElemsOfConcat
<1>10. NothingAfterFinish(replies')
  <2>1. \A r \in Elems(s) : r.what = "cancel"
    BY <1>3 DEF Reply
  <2>2. NothingAfterFinish(replies)
    BY DEF ReplyInv
  <2> QED BY <1>2, <1>3, <1>4, <2>1, <2>2, NoResultsAppended
<1> QED BY <1>3, <1>5, <1>6, <1>7, <1>8, <1>9, <1>10 DEF W

\* What is known of a start that is taken from the queue.
LEMMA StartTaken ==
  ASSUME LatInv, calls # <<>>, Head(calls).what = "start"
  PROVE  LET call == Head(calls)
             rest == Elems(Tail(calls))
         IN  /\ call.inst \in Nat /\ call.inst # 0 /\ call.inst <= created
             /\ call.test \in 1..begun /\ call.test \in Tests
             /\ call.test # launch /\ batch[call.test] = NoBatch
             /\ call.inst = up \/ Doomed(Tail(calls), call.inst)
             /\ call.test = bulk \/ Doomed(Tail(calls), call.inst)
             /\ \A k : Doomed(calls, k) => Doomed(Tail(calls), k)
             /\ \A c \in rest : c \in Elems(calls) /\ (c.what = "start" => c.test # call.test)
             /\ \A r \in Elems(replies) : r.what = "cancel" => r.test # call.test
             /\ taps = 0 =>
                  /\ DistinctStarts(Tail(calls))
                  /\ \A c \in rest : c.what = "start" => c.inst # call.inst
                  /\ call.test = bulk => call.inst = up
                  /\ \A t \in Tests : batch[t].inst # call.inst
<1> USE DEF LatInv
<1> DEFINE call == Head(calls)
           p == Tail(calls)
<1>1. /\ QueueInv(p, up, created)
      /\ call \in CallRecords /\ Elems(calls) = {call} \cup Elems(p)
      /\ \A d \in Elems(p) : Clear(call, d)
      /\ \A k : Doomed(calls, k) => Doomed(p, k) \/ (call.what = "destroy" /\ call.inst = k)
      /\ DistinctStarts(calls) => DistinctStarts(p) /\ \A d \in Elems(p) : Apart(call, d)
  BY QueueTail
<1> HIDE DEF call, p
<1>2. call.what = "start" /\ call \in Elems(calls)
  BY <1>1 DEF call
<1>3. /\ call.inst \in 1..created /\ created \in Nat
      /\ call.inst = up \/ Doomed(calls, call.inst)
  BY <1>2 DEF QueueInv
<1>4. call.inst \in Nat /\ call.inst # 0 /\ call.inst <= created
  BY <1>3
<1>5. /\ call.test \in 1..begun /\ call.test # launch /\ batch[call.test] = NoBatch
      /\ call.test = bulk \/ Doomed(calls, call.inst)
  BY <1>2 DEF StartInv
<1>6. \A k : Doomed(calls, k) => Doomed(p, k)
  BY <1>1, <1>2
<1>7. \A c \in Elems(p) : c \in Elems(calls) /\ (c.what = "start" => c.test # call.test)
  BY <1>1, <1>2 DEF Clear
<1>8. \A r \in Elems(replies) : r.what = "cancel" => r.test # call.test
  BY <1>2 DEF ReplyInv
<1>9. taps = 0 => /\ DistinctStarts(p)
                  /\ \A c \in Elems(p) : c.what = "start" => c.inst # call.inst
                  /\ call.test = bulk => call.inst = up
                  /\ \A t \in Tests : batch[t].inst # call.inst
  BY <1>1, <1>2 DEF NoTapInv, Apart
<1>10. call.test \in Tests
  BY <1>5, Basics
<1> QED BY <1>3, <1>4, <1>5, <1>6, <1>7, <1>8, <1>9, <1>10 DEF call, p

LEMMA BatchBegins ==
  ASSUME LatInv, calls # <<>>, Head(calls).what = "start",
         batch' = [batch EXCEPT ![Head(calls).test] =
                     [NoBatch EXCEPT !.inst = Head(calls).inst, !.active = TRUE, !.left = Guids]],
         calls' = Tail(calls), UNCHANGED <<up, created, replies, screen, taps>>
  PROVE  LatInv'
<1> USE DEF LatInv
<1> DEFINE call == Head(calls)
           t0 == call.test
           new == [NoBatch EXCEPT !.inst = call.inst, !.active = TRUE, !.left = Guids]
<1>1. /\ call.inst \in Nat /\ call.inst # 0 /\ call.inst <= created
      /\ t0 \in 1..begun /\ t0 \in Tests
      /\ t0 # launch /\ batch[t0] = NoBatch
      /\ call.inst = up \/ Doomed(calls', call.inst)
      /\ t0 = bulk \/ Doomed(calls', call.inst)
      /\ \A k : Doomed(calls, k) => Doomed(calls', k)
      /\ \A c \in Elems(calls') : c \in Elems(calls) /\ (c.what = "start" => c.test # t0)
      /\ \A r \in Elems(replies) : r.what = "cancel" => r.test # t0
      /\ taps = 0 =>
           /\ DistinctStarts(calls')
           /\ \A c \in Elems(calls') : c.what = "start" => c.inst # call.inst
           /\ t0 = bulk => call.inst = up
           /\ \A t \in Tests : batch[t].inst # call.inst
  BY StartTaken
<1>2. QueueInv(calls', up', created')
  BY QueueTail
<1>3. /\ up' = up /\ created' = created /\ replies' = replies /\ taps' = taps
      /\ UNCHANGED <<begun, bulk, launch, pending, shown, flush>>
  BY DEF screen
<1>4. /\ batch \in [Tests -> BatchRecords]
      /\ batch' = [batch EXCEPT ![t0] = new]
  BY DEF Types
<1> HIDE DEF call, t0
<1>5. /\ new \in BatchRecords /\ new.inst = call.inst /\ new.active /\ new.left = Guids
      /\ new.sending = {} /\ new.told = {} /\ new.end = "none"
  BY <1>1 DEF NoBatch, BatchRecords
<1> HIDE DEF new
<1>6. /\ batch' \in [Tests -> BatchRecords] /\ batch'[t0] = new
      /\ \A t \in Tests : t # t0 => batch'[t] = batch[t]
  <2>1. t0 \in Tests /\ new \in BatchRecords
    BY <1>1, <1>5
  <2> QED BY <1>4, <2>1
<1>7. Types'
  BY <1>3, <1>6 DEF Types
<1>8. LatencyInv'
  BY <1>3 DEF LatencyInv
<1>9. BatchInv'
  <2>1. ~(t0 > begun)
    BY <1>1, Basics
  <2>2. \A t \in Tests : t # t0 =>
          LET b == batch[t]
          IN  /\ b.active => /\ b.inst # 0
                             /\ b.inst = up \/ Doomed(calls', b.inst)
                             /\ t = bulk \/ b.end = "remove" \/ Doomed(calls', b.inst)
              /\ t > begun => b = NoBatch
              /\ b.inst <= created
              /\ b.end \in {"check", "stop", "done"} => ~b.active
              /\ b.end \in {"send", "remove", "check", "stop"} => b.left = {} /\ b.sending = {}
    BY <1>1 DEF BatchInv
  <2>3. /\ new.inst # 0 /\ new.inst <= created
        /\ new.inst = up \/ Doomed(calls', new.inst)
        /\ t0 = bulk \/ Doomed(calls', new.inst)
        /\ new.end = "none"
    BY <1>1, <1>5
  <2> HIDE DEF BatchRecords
  <2> QED BY <1>3, <1>6, <2>1, <2>2, <2>3 DEF BatchInv
<1>10. StartInv'
  BY <1>1, <1>3, <1>6, Basics DEF StartInv
<1>11. ReplyInv'
  <2>1. \A r \in Elems(replies) : r.what = "finish" => r.test # t0
    BY <1>1 DEF ReplyInv, Through, NoBatch
  <2>2. \A r \in Elems(replies) : r.test \in Tests
    BY Basics DEF ReplyInv
  <2> QED BY <1>1, <1>3, <1>6, <2>1, <2>2 DEF ReplyInv
<1>12. JobInv'
  <2>1. flush.what = "finish" => flush.test # t0 /\ flush.test \in Tests
    <3>1. flush.what = "finish" => flush.test = bulk /\ bulk \in Tests
      BY Basics DEF LatencyInv
    <3> QED BY <1>1, <3>1 DEF JobInv, Through, NoBatch
  <2>2. bulk # 0 => batch'[bulk].told \subseteq batch[bulk].told
    BY <1>5, <1>6, Basics
  <2> QED BY <1>3, <1>6, <2>1, <2>2 DEF JobInv
<1>13. NoTapInv'
  <2>1. SUFFICES ASSUME taps = 0 PROVE NoTapInv'
    BY <1>3 DEF NoTapInv
  <2>2. TestKeepsItsService'
    <3>1. \A t \in Tests : t # t0 /\ t = bulk /\ batch[t].active /\ batch[t].end = "none"
             => up = batch[t].inst
      BY <2>1 DEF NoTapInv, TestKeepsItsService
    <3>2. t0 = bulk => up = new.inst
      BY <1>1, <1>5, <2>1
    <3> QED BY <1>3, <1>6, <3>1, <3>2 DEF TestKeepsItsService
  <2>3. \A s, t \in Tests : s # t /\ batch'[s].inst # 0 => batch'[s].inst # batch'[t].inst
    <3>1. new.inst = call.inst /\ \A t \in Tests : batch[t].inst # new.inst
      BY <1>1, <1>5, <2>1
    <3>2. \A s, t \in Tests : s # t /\ batch[s].inst # 0 => batch[s].inst # batch[t].inst
      BY <2>1 DEF NoTapInv
    <3>3. ASSUME NEW s \in Tests, NEW t \in Tests, s # t, batch'[s].inst # 0
          PROVE  batch'[s].inst # batch'[t].inst
      <4>1. CASE s = t0
        BY <1>1, <1>6, <3>1, <3>3, <4>1
      <4>2. CASE t = t0
        BY <1>1, <1>6, <3>1, <3>3, <4>2
      <4>3. CASE s # t0 /\ t # t0
        <5>1. batch'[s] = batch[s] /\ batch'[t] = batch[t]
          BY <1>6, <4>3
        <5>2. batch[s].inst # 0
          BY <3>3, <5>1
        <5> QED BY <3>2, <3>3, <5>1, <5>2
      <4> QED BY <4>1, <4>2, <4>3
    <3> QED BY <3>3
  <2>4. \A c \in Elems(calls') : c.what = "start" =>
           /\ c.test = bulk => c.inst = up
           /\ \A t \in Tests : batch'[t].inst # c.inst
    <3>1. \A c \in Elems(calls') : c.what = "start" => c.inst # new.inst
      BY <1>1, <1>5, <2>1
    <3>2. \A c \in Elems(calls') : c.what = "start" =>
             (c.test = bulk => c.inst = up) /\ \A t \in Tests : batch[t].inst # c.inst
      BY <1>1, <2>1 DEF NoTapInv
    <3>3. ASSUME NEW c \in Elems(calls'), c.what = "start", NEW t \in Tests
          PROVE  batch'[t].inst # c.inst
      <4>1. CASE t = t0
        BY <1>6, <3>1, <3>3, <4>1
      <4>2. CASE t # t0
        BY <1>6, <3>2, <3>3, <4>2
      <4> QED BY <4>1, <4>2
    <3> QED BY <3>2, <3>3
  <2> QED BY <1>1, <1>3, <2>1, <2>2, <2>3, <2>4 DEF NoTapInv
<1> QED BY <1>2, <1>3, <1>7, <1>8, <1>9, <1>10, <1>11, <1>12, <1>13

\* Nothing to measure: the request is cancelled, and the service stops unless
\* another start waits.
LEMMA NothingToMeasure ==
  ASSUME LatInv, calls # <<>>, Head(calls).what = "start",
         replies' = Append(replies, Reply("cancel", Head(calls).test, "all")),
         StopUnlessStarted(Head(calls).inst), UNCHANGED <<batch, screen, taps>>
  PROVE  LatInv'
<1> USE DEF LatInv
<1> DEFINE call == Head(calls)
           t0 == call.test
           p == Tail(calls)
           r == Reply("cancel", t0, "all")
<1>1. /\ call.inst \in Nat /\ call.inst # 0 /\ call.inst <= created
      /\ t0 \in 1..begun /\ t0 \in Tests
      /\ t0 # launch /\ batch[t0] = NoBatch
      /\ \A k : Doomed(calls, k) => Doomed(p, k)
      /\ \A c \in Elems(p) : c \in Elems(calls) /\ (c.what = "start" => c.test # t0)
      /\ taps = 0 =>
           /\ DistinctStarts(p)
           /\ \A c \in Elems(p) : c.what = "start" => c.inst # call.inst
           /\ \A t \in Tests : batch[t].inst # call.inst
  BY StartTaken
<1>2. QueueInv(p, up, created)
  BY QueueTail
<1>3. /\ batch' = batch /\ taps' = taps
      /\ UNCHANGED <<begun, bulk, launch, pending, shown, flush>>
  BY DEF screen
<1>4. r \in ReplyRecords /\ r.what = "cancel" /\ r.test = t0
  BY <1>1, Basics DEF Reply, ReplyRecords
<1>5. replies \in Seq(ReplyRecords) /\ replies' = Append(replies, r)
  BY DEF Types
<1>6. (calls' = p /\ up' = up /\ created' = created) \/ StopIn(p, call.inst)
  BY DEF StopUnlessStarted
<1> HIDE DEF call, t0, p, r
<1>7. /\ QueueInv(calls', up', created') /\ created' = created
      /\ \A c \in Elems(calls') : c \in Elems(p) \/ c.what = "destroy"
      /\ \A k : Doomed(p, k) => Doomed(calls', k)
      /\ \A k : k = up /\ k # 0 => k = up' \/ Doomed(calls', k)
      /\ up' \in {0, up} /\ (call.inst # up => up' = up)
      /\ DistinctStarts(p) => DistinctStarts(calls')
  <2>1. CASE calls' = p /\ up' = up /\ created' = created
    BY <1>2, <2>1
  <2>2. CASE StopIn(p, call.inst)
    BY <1>2, <2>2, StopFacts
  <2> QED BY <1>6, <2>1, <2>2
<1>8. /\ replies' \in Seq(ReplyRecords) /\ Elems(replies') = Elems(replies) \cup {r}
      /\ NothingAfterFinish(replies')
  <2>1. \A d \in Elems(replies) : Quiet(d, r)
    BY <1>4 DEF Quiet
  <2> QED BY <1>4, <1>5, <2>1, ElemsOfAppend, PairsOfAppend DEF ReplyInv
<1>9. Types'
  BY <1>3, <1>8 DEF Types
<1>10. LatencyInv'
  BY <1>3, <1>7, Basics DEF LatencyInv
<1>11. BatchInv'
  BY <1>1, <1>3, <1>7 DEF BatchInv
<1>12. StartInv'
  BY <1>1, <1>3, <1>7 DEF StartInv
<1>13. ReplyInv'
  BY <1>1, <1>3, <1>4, <1>7, <1>8 DEF ReplyInv, NoBatch
<1>14. JobInv'
  BY <1>3, <1>4, <1>8 DEF JobInv
<1>15. NoTapInv'
  <2>1. SUFFICES ASSUME taps = 0 PROVE NoTapInv'
    BY <1>3 DEF NoTapInv
  <2>2. TestKeepsItsService'
    BY <1>1, <1>3, <1>7, <2>1 DEF NoTapInv, TestKeepsItsService
  <2>3. \A c \in Elems(calls') : c.what = "start" /\ c.test = bulk => c.inst = up'
    BY <1>1, <1>7, <2>1 DEF NoTapInv
  <2>4. \A c \in Elems(calls') : c.what # "cancel" /\ (c.what = "start" =>
           \A t \in Tests : batch[t].inst # c.inst)
    BY <1>1, <1>7, <2>1 DEF NoTapInv
  <2>5. launch # 0 => up' = 0
    BY <1>7, <2>1 DEF NoTapInv
  <2> QED BY <1>1, <1>3, <1>7, <2>1, <2>2, <2>3, <2>4, <2>5 DEF NoTapInv
<1> QED BY <1>7, <1>9, <1>10, <1>11, <1>12, <1>13, <1>14, <1>15

\* A cancel or the instance's end: its batches are cancelled, each request told.
LEMMA InstanceCancelled ==
  ASSUME LatInv, calls # <<>>, Head(calls).what # "start",
         CancelWorkers(Head(calls).inst), UNCHANGED <<screen, taps>>,
         \/ Head(calls).what = "cancel" /\ StopIn(Tail(calls), Head(calls).inst)
         \/ Head(calls).what = "destroy" /\ calls' = Tail(calls) /\ UNCHANGED <<up, created>>
  PROVE  LatInv'
<1> USE DEF LatInv
<1> DEFINE call == Head(calls)
           p == Tail(calls)
           W == ActiveWorkers(call.inst)
<1>1. /\ QueueInv(p, up, created)
      /\ call \in CallRecords /\ Elems(calls) = {call} \cup Elems(p)
      /\ \A d \in Elems(p) : Clear(call, d)
      /\ \A k : Doomed(calls, k) => Doomed(p, k) \/ (call.what = "destroy" /\ call.inst = k)
      /\ DistinctStarts(calls) => DistinctStarts(p)
  BY QueueTail
<1>2. /\ batch' \in [Tests -> BatchRecords]
      /\ \A t \in W :
           /\ ~batch'[t].active /\ batch'[t].inst = batch[t].inst
           /\ batch'[t].left = {} /\ batch'[t].sending = batch[t].sending
           /\ batch'[t].told = batch[t].told /\ batch[t] # NoBatch
           /\ batch'[t].end = IF batch[t].end = "none" THEN "done" ELSE batch[t].end
      /\ \A t \in Tests : t \notin W => batch'[t] = batch[t]
      /\ replies' \in Seq(ReplyRecords) /\ NothingAfterFinish(replies')
      /\ Elems(replies) \subseteq Elems(replies')
      /\ \A r \in Elems(replies') : r \in Elems(replies) \/
           \E t \in W : r = Reply("cancel", t, "all")
  BY CancelFacts
<1>3. /\ W \subseteq Tests
      /\ \A t \in Tests : t \notin W /\ batch[t].active => batch[t].inst # call.inst
  BY DEF ActiveWorkers
<1>4. taps' = taps /\ UNCHANGED <<begun, bulk, launch, pending, shown, flush>>
  BY DEF screen
<1>5. \/ call.what = "cancel" /\ StopIn(p, call.inst)
      \/ call.what = "destroy" /\ calls' = p /\ up' = up /\ created' = created
  OBVIOUS
<1> HIDE DEF call, p, W
<1>6. /\ QueueInv(calls', up', created') /\ created' = created
      /\ \A c \in Elems(calls') : c \in Elems(p) \/ c.what = "destroy"
      /\ \A k : Doomed(p, k) => Doomed(calls', k)
      /\ \A k : k = up /\ k # 0 => k = up' \/ Doomed(calls', k)
      /\ up' \in {0, up} /\ (call.what = "destroy" => up' = up)
      /\ DistinctStarts(p) => DistinctStarts(calls')
  <2>1. CASE call.what = "destroy" /\ calls' = p /\ up' = up /\ created' = created
    BY <1>1, <2>1
  <2>2. CASE call.what = "cancel" /\ StopIn(p, call.inst)
    BY <1>1, <2>2, StopFacts
  <2> QED BY <1>5, <2>1, <2>2
<1>7. \A k : Doomed(calls, k) /\ k # call.inst => Doomed(calls', k)
  BY <1>1, <1>6
<1>8. \A c \in Elems(p) : c \in Elems(calls) /\ (Doomed(calls, c.inst) => Doomed(calls', c.inst))
  BY <1>1, <1>6 DEF Clear
<1>9. \A t \in Tests : batch[t] = NoBatch => t \notin W /\ batch'[t] = NoBatch
  BY <1>2
<1>10. \A t \in Tests : /\ batch'[t].inst = batch[t].inst /\ batch'[t].told = batch[t].told
                        /\ batch'[t].active => batch[t].active /\ batch'[t] = batch[t]
  BY <1>2
<1>11. Types'
  BY <1>2, <1>4 DEF Types
<1>12. LatencyInv'
  BY <1>4, <1>6, Basics DEF LatencyInv
<1>13. BatchInv'
  <2>1. \A t \in Tests : t > begun => batch'[t] = NoBatch
    BY <1>9 DEF BatchInv
  <2>2. \A t \in Tests : batch'[t].inst <= created
    BY <1>10 DEF BatchInv
  <2>3. ASSUME NEW t \in Tests, batch'[t].active
        PROVE  /\ batch'[t].inst # 0
               /\ batch'[t].inst = up' \/ Doomed(calls', batch'[t].inst)
               /\ t = bulk \/ batch'[t].end = "remove" \/ Doomed(calls', batch'[t].inst)
    <3>1. batch[t].active /\ batch'[t] = batch[t] /\ batch[t].inst # call.inst
      BY <1>2, <1>3, <1>10, <2>3
    <3>2. /\ batch[t].inst # 0 /\ (batch[t].inst = up \/ Doomed(calls, batch[t].inst))
          /\ t = bulk \/ batch[t].end = "remove" \/ Doomed(calls, batch[t].inst)
      BY <3>1 DEF BatchInv
    <3> QED BY <1>6, <1>7, <3>1, <3>2
  <2>4. \A t \in Tests : batch'[t].end \in {"check", "stop", "done"} => ~batch'[t].active
    BY <1>10 DEF BatchInv
  <2>5. \A t \in Tests : batch'[t].end \in {"send", "remove", "check", "stop"} =>
           batch'[t].left = {} /\ batch'[t].sending = {}
    BY <1>2 DEF BatchInv
  <2> QED BY <1>4, <1>6, <2>1, <2>2, <2>3, <2>4, <2>5 DEF BatchInv
<1>14. StartInv'
  BY <1>4, <1>6, <1>8, <1>9, Basics DEF StartInv
<1>15. \A t \in Tests : Through(batch[t]) => Through(batch'[t])
  BY <1>2 DEF Through
<1>16. ReplyInv'
  <2>1. ASSUME NEW r \in Elems(replies)
        PROVE  /\ r.test \in 1..begun
               /\ r.what = "result" => r.guid \in Guids
               /\ r.what = "cancel" =>
                    /\ ~batch'[r.test].active /\ launch # r.test
                    /\ \A c \in Elems(calls') : c.what = "start" => c.test # r.test
               /\ r.what = "finish" => Through(batch'[r.test])
    BY <1>6, <1>8, <1>10, <1>15, Basics DEF ReplyInv
  <2>2. ASSUME NEW t \in W
        PROVE  /\ t \in 1..begun /\ ~batch'[t].active /\ launch # t
               /\ \A c \in Elems(calls') : c.what = "start" => c.test # t
    <3>1. batch[t] # NoBatch /\ ~batch'[t].active /\ t \in Tests
      BY <1>2, <1>3
    <3>2. ~(t > begun)
      BY <3>1 DEF BatchInv
    <3>3. t \in 1..begun
      BY <3>1, <3>2, Basics, LatencyAssumption DEF Tests
    <3> QED BY <1>6, <1>8, <3>1, <3>3 DEF StartInv
  <2>3. \A t : Reply("cancel", t, "all").what = "cancel" /\ Reply("cancel", t, "all").test = t
    BY DEF Reply
  <2> QED BY <1>2, <1>4, <2>1, <2>2, <2>3 DEF ReplyInv
<1>17. JobInv'
  <2>1. \A r \in Elems(replies') : r.what = "result" => r \in Elems(replies)
    BY <1>2 DEF Reply
  <2>2. flush.what = "finish" => flush.test \in Tests
    BY Basics DEF LatencyInv
  <2> QED BY <1>2, <1>4, <1>10, <1>15, <2>1, <2>2, Basics DEF JobInv
<1>18. NoTapInv'
  <2>1. SUFFICES ASSUME taps = 0 PROVE NoTapInv'
    BY <1>4 DEF NoTapInv
  <2>2. call.what = "destroy" /\ up' = up /\ calls' = p
    BY <1>1, <1>5, <2>1 DEF NoTapInv
  <2>3. TestKeepsItsService'
    BY <1>4, <1>10, <2>1, <2>2 DEF NoTapInv, TestKeepsItsService
  <2> QED BY <1>1, <1>4, <1>6, <1>8, <1>10, <2>1, <2>2, <2>3 DEF NoTapInv
<1> QED BY <1>6, <1>11, <1>12, <1>13, <1>14, <1>16, <1>17, <1>18

LEMMA HandleCallInv == ASSUME LatInv, HandleCall PROVE LatInv'
<1>1. /\ calls # <<>> /\ UNCHANGED <<screen, taps>>
      /\ \/ Head(calls).what = "start" /\ HandleMeasureStart(Head(calls))
         \/ Head(calls).what = "cancel" /\ HandleMeasureCancel(Head(calls))
         \/ Head(calls).what = "destroy" /\ OnDestroy(Head(calls))
  BY DEF HandleCall
<1>2. CASE Head(calls).what = "start" /\ HandleMeasureStart(Head(calls))
  BY <1>1, <1>2, BatchBegins, NothingToMeasure DEF HandleMeasureStart
<1>3. CASE Head(calls).what = "cancel" /\ HandleMeasureCancel(Head(calls))
  BY <1>1, <1>3, InstanceCancelled DEF HandleMeasureCancel
<1>4. CASE Head(calls).what = "destroy" /\ OnDestroy(Head(calls))
  BY <1>1, <1>4, InstanceCancelled DEF OnDestroy
<1> QED BY <1>1, <1>2, <1>3, <1>4

-----------------------------------------------------------------------------
(* The steps of a batch *)

\* A batch changes by a step of its own; what the others promise stays.
LEMMA BatchChanges ==
  ASSUME LatInv, NEW t0 \in Tests, NEW new \in BatchRecords,
         batch' = [batch EXCEPT ![t0] = new]
  PROVE  /\ batch' \in [Tests -> BatchRecords] /\ batch'[t0] = new
         /\ \A t \in Tests : t # t0 => batch'[t] = batch[t]
BY DEF LatInv, Types

\* A step of a batch that says nothing and stops nothing.
LEMMA QuietBatchStep ==
  ASSUME LatInv, NEW t0 \in Tests, UNCHANGED <<screen, system, replies, taps>>,
         batch' \in [Tests -> BatchRecords],
         \A t \in Tests : t # t0 => batch'[t] = batch[t],
         batch[t0] # NoBatch, batch'[t0].inst = batch[t0].inst,
         batch'[t0].told = batch[t0].told,
         batch'[t0].active => /\ batch[t0].active
                              /\ batch'[t0].end = "remove" <=> batch[t0].end = "remove"
                              /\ batch'[t0].end = "none" => batch[t0].end = "none",
         Through(batch[t0]) => Through(batch'[t0]),
         batch'[t0].end \in {"check", "stop", "done"} => ~batch'[t0].active,
         batch'[t0].end \in {"send", "remove", "check", "stop"} =>
            batch'[t0].left = {} /\ batch'[t0].sending = {}
  PROVE  LatInv'
<1> USE DEF LatInv
<1>1. /\ UNCHANGED <<begun, bulk, launch, pending, shown, flush, up, created, calls, replies, taps>>
  BY DEF screen, system
<1>2. \A t \in Tests : /\ batch'[t].inst = batch[t].inst /\ batch'[t].told = batch[t].told
                       /\ batch'[t].active => batch[t].active
                       /\ Through(batch[t]) => Through(batch'[t])
                       /\ batch[t] = NoBatch => batch'[t] = NoBatch
  OBVIOUS
<1>3. Types' /\ LatencyInv' /\ QueueInv(calls', up', created')
  BY <1>1 DEF Types, LatencyInv
<1>4. BatchInv'
  <2>1. ASSUME NEW t \in Tests, t # t0
        PROVE  LET b == batch'[t]
               IN  /\ t > begun => b = NoBatch
                   /\ b.inst <= created
                   /\ b.active => /\ b.inst # 0
                                  /\ b.inst = up \/ Doomed(calls, b.inst)
                                  /\ t = bulk \/ b.end = "remove" \/ Doomed(calls, b.inst)
                   /\ b.end \in {"check", "stop", "done"} => ~b.active
                   /\ b.end \in {"send", "remove", "check", "stop"} => b.left = {} /\ b.sending = {}
    BY <2>1 DEF BatchInv
  <2>2. LET b == batch'[t0]
        IN  /\ ~(t0 > begun)
            /\ b.inst <= created
            /\ b.active => /\ b.inst # 0
                           /\ b.inst = up \/ Doomed(calls, b.inst)
                           /\ t0 = bulk \/ b.end = "remove" \/ Doomed(calls, b.inst)
            /\ b.end \in {"check", "stop", "done"} => ~b.active
            /\ b.end \in {"send", "remove", "check", "stop"} => b.left = {} /\ b.sending = {}
    BY DEF BatchInv
  <2> QED BY <1>1, <2>1, <2>2 DEF BatchInv
<1>5. StartInv'
  BY <1>1, <1>2, Basics DEF StartInv
<1>6. ReplyInv'
  BY <1>1, <1>2, Basics DEF ReplyInv
<1>7. JobInv'
  <2>1. flush.what = "finish" => flush.test \in Tests
    BY Basics DEF LatencyInv
  <2> QED BY <1>1, <1>2, <2>1, Basics DEF JobInv
<1>8. NoTapInv'
  <2>1. \A t \in Tests : batch'[t].active /\ batch'[t].end = "none" =>
           batch[t].active /\ batch[t].end = "none"
    OBVIOUS
  <2> QED BY <1>1, <1>2, <2>1 DEF NoTapInv, TestKeepsItsService
<1> QED BY <1>3, <1>4, <1>5, <1>6, <1>7, <1>8

LEMMA MeasuredInv ==
  ASSUME LatInv, NEW t0 \in Tests, NEW g \in Guids, Measured(t0, g)
  PROVE  LatInv'
<1> DEFINE b == batch[t0]
<1>1. b \in BatchRecords /\ batch \in [Tests -> BatchRecords]
  BY DEF LatInv, Types
<1>2. /\ g \in b.left /\ UNCHANGED <<screen, system, replies, taps>>
      /\ \E result \in {{g}, {g} \ Throwing} :
           batch' = [batch EXCEPT ![t0].left = @ \ {g}, ![t0].sending = @ \cup result]
  BY DEF Measured
<1>3. PICK result \in {{g}, {g} \ Throwing} :
         batch' = [batch EXCEPT ![t0].left = @ \ {g}, ![t0].sending = @ \cup result]
  BY <1>2
<1>4. result \subseteq Guids
  OBVIOUS
<1> DEFINE new == [b EXCEPT !.left = @ \ {g}, !.sending = @ \cup result]
<1>5. batch' = [batch EXCEPT ![t0] = new]
  BY <1>1, <1>3
<1> HIDE DEF b
<1>6. /\ new \in BatchRecords /\ new.inst = b.inst /\ new.told = b.told
      /\ new.active = b.active /\ new.end = b.end
  BY <1>1, <1>4 DEF BatchRecords
<1>7. b # NoBatch /\ b.left # {}
  BY <1>2 DEF NoBatch
<1> HIDE DEF new
<1>8. /\ batch' \in [Tests -> BatchRecords] /\ batch'[t0] = new
      /\ \A t \in Tests : t # t0 => batch'[t] = batch[t]
  BY <1>5, <1>6, BatchChanges
<1>9. /\ b.end \in {"check", "stop", "done"} => ~b.active
      /\ b.end \notin {"send", "remove", "check", "stop"} /\ ~Through(b)
  BY <1>7 DEF LatInv, BatchInv, b, Through
<1> QED BY <1>2, <1>6, <1>7, <1>8, <1>9, QuietBatchStep DEF b


LEMMA SendResultInv ==
  ASSUME LatInv, NEW t0 \in Tests, NEW g \in Guids, SendResult(t0, g)
  PROVE  LatInv'
<1> USE DEF LatInv
<1> DEFINE b == batch[t0]
           r == Reply("result", t0, g)
           new == [b EXCEPT !.sending = @ \ {g}, !.told = @ \cup {g}]
<1>1. b \in BatchRecords /\ batch \in [Tests -> BatchRecords] /\ replies \in Seq(ReplyRecords)
  BY DEF Types
<1>2. /\ g \in b.sending /\ replies' = Append(replies, r)
      /\ batch' = [batch EXCEPT ![t0].sending = @ \ {g}, ![t0].told = @ \cup {g}]
      /\ UNCHANGED <<begun, bulk, launch, pending, shown, flush, up, created, calls, taps>>
  BY DEF SendResult, screen, system
<1>3. batch' = [batch EXCEPT ![t0] = new]
  BY <1>1, <1>2
<1>4. r \in ReplyRecords /\ r.what = "result" /\ r.test = t0 /\ r.guid = g
  BY Basics DEF Reply, ReplyRecords
<1> HIDE DEF b, r
<1>5. /\ new \in BatchRecords /\ new.inst = b.inst /\ new.told = b.told \cup {g}
      /\ new.active = b.active /\ new.end = b.end /\ new.left = b.left
  BY <1>1 DEF BatchRecords
<1> HIDE DEF new
<1>6. /\ batch' \in [Tests -> BatchRecords] /\ batch'[t0] = new
      /\ \A t \in Tests : t # t0 => batch'[t] = batch[t]
  BY <1>3, <1>5, BatchChanges
<1>7. b # NoBatch /\ ~Through(b) /\ b.end \notin {"send", "remove", "check", "stop"}
  BY <1>2 DEF NoBatch, Through, BatchInv, b
<1>8. ~(t0 > begun) /\ t0 \in 1..begun
  <2>1. ~(t0 > begun)
    BY <1>7 DEF BatchInv, b
  <2> QED BY <2>1, Basics, LatencyAssumption DEF Tests
<1>9. /\ replies' \in Seq(ReplyRecords) /\ Elems(replies') = Elems(replies) \cup {r}
  BY <1>1, <1>2, <1>4, ElemsOfAppend
<1>10. NothingAfterFinish(replies')
  <2>1. \A d \in Elems(replies) : Quiet(d, r)
    BY <1>4, <1>7 DEF Quiet, ReplyInv, b
  <2> QED BY <1>1, <1>2, <1>4, <2>1, PairsOfAppend DEF ReplyInv
<1>11. /\ \A t \in Tests : /\ batch'[t].inst = batch[t].inst
                           /\ batch'[t].active = batch[t].active
                           /\ batch'[t].end = batch[t].end
                           /\ Through(batch[t]) => Through(batch'[t])
                           /\ batch[t] = NoBatch => batch'[t] = NoBatch
  BY <1>5, <1>6, <1>7 DEF b
<1>12. Types'
  BY <1>2, <1>6, <1>9 DEF Types
<1>13. LatencyInv' /\ QueueInv(calls', up', created')
  BY <1>2 DEF LatencyInv
<1>14. BatchInv'
  <2>1. \A t \in Tests : batch'[t].end \in {"send", "remove", "check", "stop"} =>
           t # t0 /\ batch'[t].left = {} /\ batch'[t].sending = {}
    BY <1>6, <1>7, <1>11 DEF BatchInv, b
  <2> QED BY <1>2, <1>11, <2>1 DEF BatchInv
<1>15. StartInv'
  BY <1>2, <1>11, Basics DEF StartInv
<1>16. ReplyInv'
  BY <1>2, <1>4, <1>8, <1>9, <1>10, <1>11, Basics DEF ReplyInv
<1>17. JobInv'
  <2>1. flush.what = "finish" => flush.test \in Tests /\ flush.test # t0
    <3>1. flush.what = "finish" => flush.test \in Tests /\ Through(batch[flush.test])
      BY Basics DEF LatencyInv, JobInv
    <3> QED BY <3>1, <1>7 DEF b
  <2>2. ASSUME bulk # 0, NEW h \in batch'[bulk].told
        PROVE  \/ <<bulk, h>> \in pending \cup shown
               \/ \E s \in Elems(replies') : s.what = "result" /\ s.test = bulk /\ s.guid = h
    <3>1. h \in batch[bulk].told \/ (bulk = t0 /\ h = g)
      BY <1>5, <1>6, <2>2, Basics DEF b
    <3> QED BY <1>4, <1>9, <2>2, <3>1 DEF JobInv
  <2> QED BY <1>2, <1>4, <1>9, <1>11, <2>1, <2>2 DEF JobInv
<1>18. NoTapInv'
  <2>1. TestKeepsItsService => TestKeepsItsService'
    BY <1>2, <1>11 DEF TestKeepsItsService
  <2>2. \A t \in Tests : batch'[t].inst = batch[t].inst
    BY <1>11
  <2>3. ASSUME taps = 0
        PROVE  \A s, t \in Tests : s # t /\ batch'[s].inst # 0 => batch'[s].inst # batch'[t].inst
    BY <2>2, <2>3 DEF NoTapInv
  <2>4. ASSUME taps = 0
        PROVE  \A c \in Elems(calls) : c.what = "start" =>
                  /\ c.test = bulk => c.inst = up
                  /\ \A t \in Tests : batch'[t].inst # c.inst
    BY <2>2, <2>4 DEF NoTapInv
  <2> QED BY <1>2, <2>1, <2>3, <2>4 DEF NoTapInv
<1> QED BY <1>12, <1>13, <1>14, <1>15, <1>16, <1>17, <1>18

LEMMA FinishBeginInv ==
  ASSUME LatInv, NEW t0 \in Tests, FinishBegin(t0)
  PROVE  LatInv'
<1> DEFINE b == batch[t0]
           new == [b EXCEPT !.end = "send"]
<1>1. b \in BatchRecords /\ batch \in [Tests -> BatchRecords]
  BY DEF LatInv, Types
<1>2. /\ b.active /\ b.end = "none" /\ b.left = {} /\ b.sending = {}
      /\ batch' = [batch EXCEPT ![t0].end = "send"]
      /\ UNCHANGED <<screen, system, replies, taps>>
  BY DEF FinishBegin, AllJoined
<1>3. batch' = [batch EXCEPT ![t0] = new]
  BY <1>1, <1>2
<1> HIDE DEF b
<1>4. /\ new \in BatchRecords /\ new.inst = b.inst /\ new.told = b.told
      /\ new.left = b.left /\ new.sending = b.sending /\ new.end = "send"
  BY <1>1 DEF BatchRecords
<1> HIDE DEF new
<1>5. /\ batch' \in [Tests -> BatchRecords] /\ batch'[t0] = new
      /\ \A t \in Tests : t # t0 => batch'[t] = batch[t]
  BY <1>3, <1>4, BatchChanges
<1>6. b # NoBatch /\ ~Through(b)
  BY <1>2 DEF NoBatch, Through
<1> QED BY <1>2, <1>4, <1>5, <1>6, QuietBatchStep DEF b

LEMMA FinishSendInv ==
  ASSUME LatInv, NEW t0 \in Tests, FinishSend(t0)
  PROVE  LatInv'
<1> USE DEF LatInv
<1> DEFINE b == batch[t0]
           r == Reply("finish", t0, "all")
           new == [b EXCEPT !.end = "remove"]
<1>1. b \in BatchRecords /\ batch \in [Tests -> BatchRecords] /\ replies \in Seq(ReplyRecords)
  BY DEF Types
<1>2. /\ b.end = "send" /\ replies' = Append(replies, r)
      /\ batch' = [batch EXCEPT ![t0].end = "remove"]
      /\ UNCHANGED <<begun, bulk, launch, pending, shown, flush, up, created, calls, taps>>
  BY DEF FinishSend, screen, system
<1>3. batch' = [batch EXCEPT ![t0] = new]
  BY <1>1, <1>2
<1>4. r \in ReplyRecords /\ r.what = "finish" /\ r.test = t0
  BY Basics DEF Reply, ReplyRecords
<1> HIDE DEF b, r
<1>5. /\ new \in BatchRecords /\ new.inst = b.inst /\ new.told = b.told
      /\ new.active = b.active /\ new.end = "remove"
      /\ new.left = b.left /\ new.sending = b.sending
  BY <1>1 DEF BatchRecords
<1> HIDE DEF new
<1>6. /\ batch' \in [Tests -> BatchRecords] /\ batch'[t0] = new
      /\ \A t \in Tests : t # t0 => batch'[t] = batch[t]
  BY <1>3, <1>5, BatchChanges
<1>7. b # NoBatch /\ ~Through(b) /\ b.left = {} /\ b.sending = {}
  BY <1>2 DEF NoBatch, Through, BatchInv, b
<1>8. Through(new)
  BY <1>5, <1>7 DEF Through
<1>9. ~(t0 > begun) /\ t0 \in 1..begun
  <2>1. ~(t0 > begun)
    BY <1>7 DEF BatchInv, b
  <2> QED BY <2>1, Basics, LatencyAssumption DEF Tests
<1>10. /\ replies' \in Seq(ReplyRecords) /\ Elems(replies') = Elems(replies) \cup {r}
  BY <1>1, <1>2, <1>4, ElemsOfAppend
<1>11. NothingAfterFinish(replies')
  <2>1. \A d \in Elems(replies) : Quiet(d, r)
    BY <1>4 DEF Quiet
  <2> QED BY <1>1, <1>2, <1>4, <2>1, PairsOfAppend DEF ReplyInv
<1>12. /\ \A t \in Tests : /\ batch'[t].inst = batch[t].inst /\ batch'[t].told = batch[t].told
                           /\ batch'[t].active = batch[t].active
                           /\ Through(batch[t]) => Through(batch'[t])
                           /\ batch[t] = NoBatch => batch'[t] = NoBatch
  BY <1>5, <1>6, <1>7 DEF b
<1>13. Types'
  BY <1>2, <1>6, <1>10 DEF Types
<1>14. LatencyInv' /\ QueueInv(calls', up', created')
  BY <1>2 DEF LatencyInv
<1>15. BatchInv'
  <2>1. \A t \in Tests : t # t0 => batch'[t].end = batch[t].end /\ batch'[t].left = batch[t].left
                                   /\ batch'[t].sending = batch[t].sending
    BY <1>6
  <2>2. batch'[t0].end = "remove" /\ batch'[t0].left = {} /\ batch'[t0].sending = {}
    BY <1>5, <1>6, <1>7
  <2> QED BY <1>2, <1>12, <2>1, <2>2 DEF BatchInv
<1>16. StartInv'
  BY <1>2, <1>12, Basics DEF StartInv
<1>17. ReplyInv'
  BY <1>2, <1>4, <1>6, <1>8, <1>9, <1>10, <1>11, <1>12, Basics DEF ReplyInv
<1>18. JobInv'
  <2>1. flush.what = "finish" => flush.test \in Tests
    BY Basics DEF LatencyInv
  <2> QED BY <1>2, <1>4, <1>10, <1>12, <2>1, Basics DEF JobInv
<1>19. NoTapInv'
  <2>1. \A t \in Tests : batch'[t].end = "none" => batch[t].end = "none"
    BY <1>5, <1>6
  <2> QED BY <1>2, <1>12, <2>1 DEF NoTapInv, TestKeepsItsService
<1> QED BY <1>13, <1>14, <1>15, <1>16, <1>17, <1>18, <1>19

LEMMA FinishRemoveInv ==
  ASSUME LatInv, NEW t0 \in Tests, FinishRemove(t0)
  PROVE  LatInv'
<1> DEFINE b == batch[t0]
<1>1. b \in BatchRecords /\ batch \in [Tests -> BatchRecords]
  BY DEF LatInv, Types
<1>2. /\ b.end = "remove" /\ UNCHANGED <<screen, system, replies, taps>>
      /\ batch' = [batch EXCEPT ![t0].active = FALSE, ![t0].end = "check"]
  BY DEF FinishRemove
<1> DEFINE new == [b EXCEPT !.active = FALSE, !.end = "check"]
<1>4. batch' = [batch EXCEPT ![t0] = new]
  BY <1>1, <1>2
<1> HIDE DEF b
<1>5. /\ new \in BatchRecords /\ new.inst = b.inst /\ new.told = b.told /\ ~new.active
      /\ new.left = b.left /\ new.sending = b.sending /\ new.end = "check"
  BY <1>1 DEF BatchRecords
<1> HIDE DEF new
<1>6. /\ batch' \in [Tests -> BatchRecords] /\ batch'[t0] = new
      /\ \A t \in Tests : t # t0 => batch'[t] = batch[t]
  BY <1>4, <1>5, BatchChanges
<1>7. b # NoBatch /\ b.left = {} /\ b.sending = {}
  BY <1>2 DEF NoBatch, LatInv, BatchInv, b
<1>8. Through(new)
  BY <1>5, <1>7 DEF Through
<1> QED BY <1>2, <1>5, <1>6, <1>7, <1>8, QuietBatchStep DEF b

LEMMA FinishCheckInv ==
  ASSUME LatInv, NEW t0 \in Tests, FinishCheck(t0)
  PROVE  LatInv'
<1> DEFINE b == batch[t0]
<1>1. b \in BatchRecords /\ batch \in [Tests -> BatchRecords]
  BY DEF LatInv, Types
<1>2. /\ b.end = "check" /\ UNCHANGED <<screen, system, replies, taps>>
      /\ \E how \in {"stop", "done"} :
           batch' = [batch EXCEPT ![t0].end = how]
  BY DEF FinishCheck
<1>3. PICK how \in {"stop", "done"} :
         batch' = [batch EXCEPT ![t0].end = how]
  BY <1>2
<1> DEFINE new == [b EXCEPT !.end = how]
<1>4. batch' = [batch EXCEPT ![t0] = new]
  BY <1>1, <1>3
<1> HIDE DEF b
<1>5. /\ new \in BatchRecords /\ new.inst = b.inst /\ new.told = b.told /\ new.active = b.active
      /\ new.left = b.left /\ new.sending = b.sending /\ new.end \in {"stop", "done"}
  BY <1>1 DEF BatchRecords
<1> HIDE DEF new
<1>6. /\ batch' \in [Tests -> BatchRecords] /\ batch'[t0] = new
      /\ \A t \in Tests : t # t0 => batch'[t] = batch[t]
  BY <1>4, <1>5, BatchChanges
<1>7. b # NoBatch /\ ~b.active /\ b.left = {} /\ b.sending = {}
  BY <1>2 DEF NoBatch, LatInv, BatchInv, b
<1>8. Through(new)
  BY <1>5, <1>7 DEF Through
<1> QED BY <1>2, <1>5, <1>6, <1>7, <1>8, QuietBatchStep DEF b

LEMMA FinishStopInv ==
  ASSUME LatInv, NEW t0 \in Tests, FinishStop(t0)
  PROVE  LatInv'
<1> USE DEF LatInv
<1> DEFINE b == batch[t0]
           new == [b EXCEPT !.end = "done"]
<1>1. b \in BatchRecords /\ batch \in [Tests -> BatchRecords]
  BY DEF Types
<1>2. /\ b.end = "stop" /\ StopIn(calls, b.inst)
      /\ batch' = [batch EXCEPT ![t0].end = "done"]
      /\ UNCHANGED <<begun, bulk, launch, pending, shown, flush, replies, taps>>
  BY DEF FinishStop, screen
<1>3. batch' = [batch EXCEPT ![t0] = new]
  BY <1>1, <1>2
<1> HIDE DEF b
<1>4. /\ new \in BatchRecords /\ new.inst = b.inst /\ new.told = b.told
      /\ new.active = b.active /\ new.end = "done"
      /\ new.left = b.left /\ new.sending = b.sending
  BY <1>1 DEF BatchRecords
<1> HIDE DEF new
<1>5. /\ batch' \in [Tests -> BatchRecords] /\ batch'[t0] = new
      /\ \A t \in Tests : t # t0 => batch'[t] = batch[t]
  BY <1>3, <1>4, BatchChanges
<1>6. b # NoBatch /\ ~b.active /\ b.left = {} /\ b.sending = {}
  BY <1>2 DEF NoBatch, BatchInv, b
<1>7. Through(new)
  BY <1>4, <1>6 DEF Through
<1>8. /\ QueueInv(calls', up', created') /\ created' = created
      /\ \A c \in Elems(calls') : c \in Elems(calls) \/ c.what = "destroy"
      /\ \A k : Doomed(calls, k) => Doomed(calls', k)
      /\ \A k : k = up /\ k # 0 => k = up' \/ Doomed(calls', k)
      /\ up' \in {0, up} /\ (b.inst # up => up' = up)
      /\ DistinctStarts(calls) => DistinctStarts(calls')
  BY <1>2, StopFacts
<1>9. \A t \in Tests : /\ batch'[t].inst = batch[t].inst /\ batch'[t].told = batch[t].told
                       /\ batch'[t].active => t # t0 /\ batch[t].active /\ batch'[t].end = batch[t].end
                       /\ Through(batch[t]) => Through(batch'[t])
                       /\ batch[t] = NoBatch => batch'[t] = NoBatch
  BY <1>4, <1>5, <1>6, <1>7 DEF b
<1>10. Types'
  BY <1>2, <1>5 DEF Types
<1>11. LatencyInv'
  BY <1>2, <1>8, Basics DEF LatencyInv
<1>12. BatchInv'
  <2>1. ASSUME NEW t \in Tests, t # t0
        PROVE  LET c == batch'[t]
               IN  /\ t > begun => c = NoBatch
                   /\ c.inst <= created
                   /\ c.active => /\ c.inst # 0
                                  /\ c.inst = up' \/ Doomed(calls', c.inst)
                                  /\ t = bulk \/ c.end = "remove" \/ Doomed(calls', c.inst)
                   /\ c.end \in {"check", "stop", "done"} => ~c.active
                   /\ c.end \in {"send", "remove", "check", "stop"} => c.left = {} /\ c.sending = {}
    BY <1>5, <1>8, <2>1 DEF BatchInv
  <2>2. /\ ~(t0 > begun) /\ batch'[t0].inst <= created
        /\ ~batch'[t0].active /\ batch'[t0].end = "done"
    BY <1>4, <1>5, <1>6 DEF BatchInv, b
  <2> QED BY <1>2, <1>8, <2>1, <2>2 DEF BatchInv
<1>13. StartInv'
  BY <1>2, <1>8, <1>9, Basics DEF StartInv
<1>14. ReplyInv'
  BY <1>2, <1>8, <1>9, Basics DEF ReplyInv
<1>15. JobInv'
  <2>1. flush.what = "finish" => flush.test \in Tests
    BY Basics DEF LatencyInv
  <2> QED BY <1>2, <1>9, <2>1, Basics DEF JobInv
<1>16. NoTapInv'
  <2>1. SUFFICES ASSUME taps = 0 PROVE NoTapInv'
    BY <1>2 DEF NoTapInv
  <2>2. TestKeepsItsService'
    <3>1. ASSUME NEW t \in Tests, t = bulk, batch'[t].active, batch'[t].end = "none"
          PROVE  up' = batch'[t].inst
      <4>1. t # t0 /\ batch[t].active /\ batch[t].end = "none" /\ batch'[t].inst = batch[t].inst
        BY <1>9, <3>1
      <4>2. up = batch[t].inst /\ batch[t].inst # 0
        BY <2>1, <3>1, <4>1 DEF NoTapInv, TestKeepsItsService, BatchInv
      <4>3. batch[t].inst # b.inst
        BY <2>1, <4>1, <4>2 DEF NoTapInv, b
      <4> QED BY <1>8, <4>1, <4>2, <4>3
    <3> QED BY <1>2, <3>1 DEF TestKeepsItsService
  <2>3. \A c \in Elems(calls') : c.what = "start" /\ c.test = bulk => c.inst = up'
    <3>1. \A c \in Elems(calls) : c.what = "start" => b.inst # c.inst /\ (c.test = bulk => c.inst = up)
      BY <2>1 DEF NoTapInv, b
    <3> QED BY <1>8, <3>1
  <2>4. \A c \in Elems(calls') : c.what # "cancel" /\ (c.what = "start" =>
           \A t \in Tests : batch'[t].inst # c.inst)
    BY <1>8, <1>9, <2>1 DEF NoTapInv
  <2>5. launch # 0 => up' = 0
    BY <1>8, <2>1 DEF NoTapInv
  <2>6. DistinctStarts(calls')
    BY <1>8, <2>1 DEF NoTapInv
  <2>7. \A s, t \in Tests : s # t /\ batch'[s].inst # 0 => batch'[s].inst # batch'[t].inst
    BY <1>9, <2>1 DEF NoTapInv
  <2> QED BY <1>2, <2>2, <2>3, <2>4, <2>5, <2>6, <2>7 DEF NoTapInv
<1> QED BY <1>8, <1>10, <1>11, <1>12, <1>13, <1>14, <1>15, <1>16

-----------------------------------------------------------------------------
(* The theorems *)

LEMMA StutterInv == ASSUME LatInv, UNCHANGED vars PROVE LatInv'
<1>1. /\ UNCHANGED <<begun, bulk, launch, pending, shown, flush>>
      /\ UNCHANGED <<up, created, calls, batch, replies, taps>>
  BY DEF vars, screen, system
<1>2. Types' /\ LatencyInv' /\ QueueInv(calls', up', created')
  BY <1>1 DEF LatInv, Types, LatencyInv
<1>3. BatchInv' /\ StartInv' /\ ReplyInv'
  BY <1>1 DEF LatInv, BatchInv, StartInv, ReplyInv
<1>4. JobInv' /\ NoTapInv'
  BY <1>1 DEF LatInv, JobInv, NoTapInv, TestKeepsItsService
<1> QED BY <1>2, <1>3, <1>4 DEF LatInv

LEMMA NextInv == ASSUME LatInv, [Next]_vars PROVE LatInv'
<1>1. ASSUME NEW t \in Tests, BatchStep(t) PROVE LatInv'
  BY <1>1, MeasuredInv, SendResultInv, FinishBeginInv, FinishSendInv, FinishRemoveInv, FinishCheckInv,
     FinishStopInv DEF BatchStep
<1> QED BY <1>1, TestAllRealPingInv, CancelAllPingInv, TapCancelInv, LaunchInv,
           HandleServiceEventInv, FlushBeginInv, FlushEndInv, HandleCallInv, StutterInv
        DEF Next, User

\* The invariant the theorems below rest on: the queue of :tasks is in order
\* and every instance in it is up or doomed, a start is for a batch that has
\* not begun, a broadcast cancel or finish is for a batch that is through, and
\* what a batch told is shown, queued or on its way.
THEOREM LatencyInvariance == Spec => []LatInv
BY InitInv, NextInv, PTL DEF Spec

\* The screen's bookkeeping holds for any profiles, tests and taps
\* (MainViewModel.kt:183-215).
THEOREM ScreenInvariance == Spec => []LatencyInv
<1>1. LatInv => LatencyInv
  BY DEF LatInv
<1> QED BY <1>1, LatencyInvariance, PTL

\* A test the user replaced or cancelled does not go on measuring: whatever
\* still measures for it has a destroy ahead of it (MainViewModel.kt:863-870).
THEOREM NoStrayBatchHolds == Spec => []NoStrayBatch
<1>1. LatInv => NoStrayBatch
  BY DEF LatInv, BatchInv, NoStrayBatch, Doomed, Elems
<1> QED BY <1>1, LatencyInvariance, PTL

\* Until the notification is tapped the service stays up under the test the
\* screen waits for (CoreTestService.kt:176-178).
THEOREM TestKeepsItsServiceHolds == Spec => []TestKeepsItsService
<1>1. LatInv => TestKeepsItsService
  BY DEF LatInv, NoTapInv, TestKeepsItsService
<1> QED BY <1>1, LatencyInvariance, PTL

\* No late broadcast ends a newer test, and a test that ends by its finish has
\* shown all its batch told (MainTestRequests.kt:5, MainViewModel.kt:159-168).
THEOREM TestEndsItsOwnWayHolds == Spec => TestEndsItsOwnWay
<1> DEFINE OwnWay == \/ CancelAllPing \/ TestAllRealPing
                     \/ replies # <<>> /\ Head(replies).what = "cancel" /\ Head(replies).test = bulk
                     \/ {bulk} \X batch[bulk].told \subseteq shown'
<1>1. ASSUME LatInv, [Next]_vars, bulk # 0, bulk' # bulk PROVE OwnWay
  <2>1. CASE HandleServiceEvent
    BY <1>1, <2>1 DEF HandleServiceEvent, OnResult, OnFinish, OnCancelled
  <2>2. CASE FlushEnd
    <3>1. flush.what = "finish" /\ bulk = flush.test /\ shown' = shown \cup pending
      BY <1>1, <2>2 DEF FlushEnd
    <3>2. \A g \in batch[bulk].told : <<bulk, g>> \in pending \cup shown
      BY <1>1, <3>1 DEF LatInv, JobInv
    <3> QED BY <3>1, <3>2
  <2>3. CASE CancelAllPing \/ TestAllRealPing
    BY <2>3
  <2>4. bulk' = bulk \/ HandleServiceEvent \/ FlushEnd \/ CancelAllPing \/ TestAllRealPing
    <3>1. ASSUME NEW t \in Tests, BatchStep(t) PROVE bulk' = bulk
      BY <3>1 DEF BatchStep, Measured, SendResult, FinishBegin, FinishSend, FinishRemove, FinishCheck,
                  FinishStop, screen
    <3>2. Launch \/ FlushBegin \/ HandleCall \/ TapCancel \/ UNCHANGED vars => bulk' = bulk
      BY DEF Launch, FlushBegin, HandleCall, TapCancel, vars, screen
    <3> QED BY <1>1, <3>1, <3>2 DEF Next, User
  <2> QED BY <1>1, <2>1, <2>2, <2>3, <2>4
<1>2. LatInv /\ [Next]_vars => [bulk # 0 /\ bulk' # bulk => OwnWay]_vars
  BY <1>1
<1> QED BY <1>2, LatencyInvariance, PTL DEF Spec, TestEndsItsOwnWay

=============================================================================
