---------------------------- MODULE PiLiveProofs -----------------------------
(****************************************************************************)
(* What PiLive guarantees for every set of runtimes and files and every     *)
(* bound. Each step concerns one runtime: a lemma per action (or per branch *)
(* of one) shows that what holds of that runtime still holds and that the   *)
(* others are untouched. Record updates are proved once, with variables for *)
(* the new values, and then instantiated.                                   *)
(****************************************************************************)
EXTENDS PiLiveInvariant, SequenceTheorems, TLAPS

-----------------------------------------------------------------------------
(* Records, functions and the write tail.                                  *)

\* Updating the fields of a task gives a task.
LEMMA Fields ==
    ASSUME NEW x \in Task, NEW g \in Nat, NEW s \in Status, NEW h \in 0..MaxGen,
           NEW b \in BOOLEAN, NEW p \in Path \cup {NoPath}, NEW c \in BOOLEAN
    PROVE  /\ [x EXCEPT !.gen = g, !.status = s, !.handle = h, !.suspended = b] \in Task
           /\ [x EXCEPT !.gen = g, !.handle = h, !.suspended = b, !.status = s] \in Task
           /\ [x EXCEPT !.gen = g, !.handle = h, !.status = s] \in Task
           /\ [x EXCEPT !.handle = h, !.status = s] \in Task
           /\ [x EXCEPT !.status = s] \in Task
           /\ [x EXCEPT !.path = p] \in Task
           /\ [x EXCEPT !.saved = b] \in Task
           /\ [x EXCEPT !.titled = b] \in Task
           /\ [x EXCEPT !.status = s, !.gen = g, !.suspended = b, !.path = p] \in Task
           /\ [x EXCEPT !.status = s, !.gen = g, !.suspended = b, !.path = p, !.saved = c] \in Task
  BY DEF Task

\* What the updates of a task the actions make leave of it.
LEMMA Updated ==
    ASSUME NEW x \in Task, NEW g \in Nat, NEW s \in Status, NEW h \in 0..MaxGen,
           NEW u \in BOOLEAN, NEW p \in Path \cup {NoPath}, NEW c \in BOOLEAN
    PROVE  /\ Looks([x EXCEPT !.gen = g, !.status = s, !.handle = h, !.suspended = u], g, s, h, u, x.saved)
           /\ Looks([x EXCEPT !.gen = g, !.handle = h, !.suspended = u, !.status = s], g, s, h, u, x.saved)
           /\ Looks([x EXCEPT !.gen = g, !.handle = h, !.status = s], g, s, h, x.suspended, x.saved)
           /\ Looks(NextGen(x, s), x.gen + 1, s, 0, x.suspended, x.saved)
           /\ Looks([x EXCEPT !.handle = h, !.status = s], x.gen, s, h, x.suspended, x.saved)
           /\ Looks([x EXCEPT !.status = s], x.gen, s, x.handle, x.suspended, x.saved)
           /\ Looks([x EXCEPT !.path = p], x.gen, x.status, x.handle, x.suspended, x.saved)
           /\ Looks([x EXCEPT !.saved = u], x.gen, x.status, x.handle, x.suspended, u)
           /\ Looks([x EXCEPT !.titled = u], x.gen, x.status, x.handle, x.suspended, x.saved)
           /\ Looks([x EXCEPT !.status = s, !.gen = g, !.suspended = u, !.path = p], g, s, x.handle, u, x.saved)
           /\ Looks([x EXCEPT !.status = s, !.gen = g, !.suspended = u, !.path = p, !.saved = c], g, s, x.handle, u, c)
<1>1. Looks([x EXCEPT !.gen = g, !.status = s, !.handle = h, !.suspended = u], g, s, h, u, x.saved)
  <2>1. [x EXCEPT !.gen = g, !.status = s, !.handle = h, !.suspended = u] \in Task
    BY Fields, ZenonT(60)
  <2> QED
    BY <2>1 DEF Looks, Task
<1>2. Looks([x EXCEPT !.gen = g, !.handle = h, !.suspended = u, !.status = s], g, s, h, u, x.saved)
  <2>1. [x EXCEPT !.gen = g, !.handle = h, !.suspended = u, !.status = s] \in Task
    BY Fields, ZenonT(60)
  <2> QED
    BY <2>1 DEF Looks, Task
<1>3. Looks([x EXCEPT !.gen = g, !.handle = h, !.status = s], g, s, h, x.suspended, x.saved)
  <2>1. [x EXCEPT !.gen = g, !.handle = h, !.status = s] \in Task
    BY Fields, ZenonT(60)
  <2> QED
    BY <2>1 DEF Looks, Task
<1>4. Looks(NextGen(x, s), x.gen + 1, s, 0, x.suspended, x.saved)
  <2>1. x.gen + 1 \in Nat /\ 0 \in 0..MaxGen
    BY ConstantsOK DEF Task
  <2>2. NextGen(x, s) \in Task
    BY <2>1, Fields, ZenonT(60) DEF NextGen
  <2> QED
    BY <2>2 DEF Looks, Task, NextGen
<1>5. Looks([x EXCEPT !.handle = h, !.status = s], x.gen, s, h, x.suspended, x.saved)
  <2>1. [x EXCEPT !.handle = h, !.status = s] \in Task
    BY Fields, ZenonT(60)
  <2> QED
    BY <2>1 DEF Looks, Task
<1>6. Looks([x EXCEPT !.status = s], x.gen, s, x.handle, x.suspended, x.saved)
  <2>1. [x EXCEPT !.status = s] \in Task
    BY Fields, ZenonT(60)
  <2> QED
    BY <2>1 DEF Looks, Task
<1>7. Looks([x EXCEPT !.path = p], x.gen, x.status, x.handle, x.suspended, x.saved)
  <2>1. [x EXCEPT !.path = p] \in Task
    BY Fields, ZenonT(60)
  <2> QED
    BY <2>1 DEF Looks, Task
<1>8. Looks([x EXCEPT !.saved = u], x.gen, x.status, x.handle, x.suspended, u)
  <2>1. [x EXCEPT !.saved = u] \in Task
    BY Fields, ZenonT(60)
  <2> QED
    BY <2>1 DEF Looks, Task
<1>9. Looks([x EXCEPT !.titled = u], x.gen, x.status, x.handle, x.suspended, x.saved)
  <2>1. [x EXCEPT !.titled = u] \in Task
    BY Fields, ZenonT(60)
  <2> QED
    BY <2>1 DEF Looks, Task
<1>10. Looks([x EXCEPT !.status = s, !.gen = g, !.suspended = u, !.path = p], g, s, x.handle, u, x.saved)
  <2>1. [x EXCEPT !.status = s, !.gen = g, !.suspended = u, !.path = p] \in Task
    BY Fields, ZenonT(60)
  <2> QED
    BY <2>1 DEF Looks, Task
<1>11. Looks([x EXCEPT !.status = s, !.gen = g, !.suspended = u, !.path = p, !.saved = c], g, s, x.handle, u, c)
  <2>1. [x EXCEPT !.status = s, !.gen = g, !.suspended = u, !.path = p, !.saved = c] \in Task
    BY Fields, ZenonT(60)
  <2> QED
    BY <2>1 DEF Looks, Task
<1> QED
  BY <1>4, <1>1, <1>2, <1>3, <1>5, <1>6, <1>7, <1>8, <1>9, <1>10, <1>11

\* Assigning a task changes that task and no other.
LEMMA TaskStep ==
    ASSUME Functions, NEW r \in Runtime, NEW x, NEW g, NEW s, NEW h, NEW u, NEW v,
           Looks(x, g, s, h, u, v), rt' = [rt EXCEPT ![r] = x]
    PROVE  Becomes(r, g, s, h, u, v)
  BY ZenonT(60) DEF Becomes, Looks, Functions

\* A step that assigns no task leaves r as it is.
LEMMA TaskStays ==
    ASSUME Functions, NEW r \in Runtime, rt' = rt
    PROVE  Becomes(r, rt[r].gen, rt[r].status, rt[r].handle, rt[r].suspended, rt[r].saved)
  BY ZenonT(60) DEF Becomes, Looks, Functions

\* Assigning a job moves that job and no other.
LEMMA JobStep ==
    ASSUME Functions, NEW r \in Runtime, NEW k \in Kind, NEW s \in JobState, NEW w \in Nat,
           NEW a \in Nat, job' = [job EXCEPT ![r][k] = [pc |-> s, w |-> w, ahead |-> a]]
    PROVE  Moves(r, k, s) /\ job'[r][k].w = w
<1>1. [pc |-> s, w |-> w, ahead |-> a] \in Progress
  BY DEF Progress
<1> QED
  BY <1>1 DEF Moves, Functions

\* Moving a job on leaves the Worker it saw.
LEMMA PcStep ==
    ASSUME Functions, NEW r \in Runtime, NEW k \in Kind, NEW s \in JobState,
           job' = [job EXCEPT ![r][k].pc = s]
    PROVE  Moves(r, k, s) /\ job'[r][k].w = job[r][k].w
<1>1. [job[r][k] EXCEPT !.pc = s] \in Progress
  BY DEF Functions, Progress
<1> QED
  BY <1>1 DEF Moves, Functions, Progress

\* Assigning one hydration task leaves the others.
LEMMA HydrationStep ==
    ASSUME Functions, NEW r \in Runtime, NEW h \in 0..MaxGen, hydration' = [hydration EXCEPT ![r] = h]
    PROVE  HydrationIs(r, h)
  BY DEF HydrationIs, Functions

\* Counting one chain leaves the others.
LEMMA ChainStep ==
    ASSUME Functions, NEW r \in Runtime, NEW c \in Nat, chain' = [chain EXCEPT ![r] = c]
    PROVE  ChainIs(r, c)
  BY DEF ChainIs, Functions

\* Naming a session gives a file to a runtime that had none.
LEMMA FileStep ==
    ASSUME Functions, NEW r \in Runtime, UNCHANGED file \/ NamesSession(r)
    PROVE  FileKept(r)
  BY ConstantsOK DEF FileKept, NamesSession, Functions

\* A write joins a well-formed tail that holds none of its kind.
LEMMA AppendQueue ==
    ASSUME NEW s, WellFormed(s), NEW m \in Message,
           m.op = "remove" <=> m.by = "delete", ~Within(s, m.id, m.by)
    PROVE  /\ WellFormed(Append(s, m))
           /\ \A r \in Runtime, k \in Kinds :
                Within(Append(s, m), r, k) => Within(s, r, k) \/ (r = m.id /\ k = m.by)
<1> DEFINE t == Append(s, m)
<1> HIDE DEF Message
<1>1. /\ s \in Seq(Message) /\ DOMAIN s = 1..Len(s) /\ Len(s) \in Nat
  BY LenProperties DEF WellFormed
<1>2. /\ t \in Seq(Message) /\ Len(t) = Len(s) + 1 /\ t[Len(s) + 1] = m
      /\ \A i \in 1..Len(s) : t[i] = s[i]
  BY <1>1, AppendProperties
<1>3. DOMAIN t = 1..(Len(s) + 1)
  BY <1>2, LenProperties
<1> HIDE DEF t
<1>4. \A i \in DOMAIN t : t[i].op = "remove" <=> t[i].by = "delete"
  BY <1>1, <1>2, <1>3 DEF WellFormed
<1>5. \A i, j \in DOMAIN t : t[i].id = t[j].id /\ t[i].by = t[j].by => i = j
  BY <1>1, <1>2, <1>3 DEF WellFormed, Within
<1>6. \A r \in Runtime, k \in Kinds : Within(t, r, k) => Within(s, r, k) \/ (r = m.id /\ k = m.by)
  BY <1>1, <1>2, <1>3 DEF Within
<1> QED
  BY <1>2, <1>4, <1>5, <1>6 DEF WellFormed, t

\* Taking the first write off a well-formed tail takes the only one of its
\* kind.
LEMMA TailQueue ==
    ASSUME NEW s, WellFormed(s), s # <<>>
    PROVE  /\ Head(s) \in Message /\ Within(s, Head(s).id, Head(s).by)
           /\ Head(s).op = "remove" <=> Head(s).by = "delete"
           /\ WellFormed(Tail(s)) /\ ~Within(Tail(s), Head(s).id, Head(s).by)
           /\ \A r \in Runtime, k \in Kinds : Within(Tail(s), r, k) => Within(s, r, k)
<1> DEFINE t == Tail(s)
<1> HIDE DEF Message
<1>1. /\ s \in Seq(Message) /\ DOMAIN s = 1..Len(s) /\ Len(s) \in Nat
  BY LenProperties DEF WellFormed
<1>2. /\ t \in Seq(Message) /\ Len(t) = Len(s) - 1 /\ Len(s) > 0
      /\ \A i \in 1..Len(t) : t[i] = s[i + 1]
      /\ Head(s) = s[1] /\ Head(s) \in Message
  BY <1>1, HeadTailProperties, EmptySeq
<1>3. DOMAIN t = 1..(Len(s) - 1)
  BY <1>2, LenProperties
<1> HIDE DEF t
<1>4. \A i \in DOMAIN t : i \in Nat /\ i + 1 \in DOMAIN s /\ t[i] = s[i + 1]
  BY <1>1, <1>2, <1>3
<1>5. \A i \in DOMAIN t : t[i].op = "remove" <=> t[i].by = "delete"
  <2> TAKE i \in DOMAIN t
  <2>1. s[i + 1].op = "remove" <=> s[i + 1].by = "delete"
    BY <1>4 DEF WellFormed
  <2> QED
    BY <1>4, <2>1
<1>6. \A i, j \in DOMAIN t : t[i].id = t[j].id /\ t[i].by = t[j].by => i = j
  <2> TAKE i, j \in DOMAIN t
  <2>1. s[i + 1].id = s[j + 1].id /\ s[i + 1].by = s[j + 1].by => i + 1 = j + 1
    BY <1>4 DEF WellFormed
  <2> QED
    BY <1>4, <2>1
<1>7. \A r \in Runtime, k \in Kinds : Within(t, r, k) => Within(s, r, k)
  BY <1>1, <1>2, <1>3 DEF Within
<1>8. ~Within(t, s[1].id, s[1].by)
  BY <1>1, <1>2, <1>3 DEF Within, WellFormed
<1>9. Within(s, s[1].id, s[1].by) /\ (s[1].op = "remove" <=> s[1].by = "delete")
  BY <1>1, <1>2 DEF Within, WellFormed
<1> QED
  BY <1>2, <1>5, <1>6, <1>7, <1>8, <1>9 DEF WellFormed, t

\* A job that has no write in the tail may put one there.
LEMMA PutQueued ==
    ASSUME WellFormed(writes), NEW r \in Runtime, NEW k \in Kinds \ {"delete"}, ~Within(writes, r, k),
           writes' = Append(writes, Put(r, k))
    PROVE  Queues(r, k)
<1>1. Put(r, k) \in Message /\ Put(r, k).id = r /\ Put(r, k).by = k /\ Put(r, k).op = "put"
  BY DEF Put, Message
<1> QED
  BY <1>1, AppendQueue DEF Queues

\* So may a DELETE.
LEMMA RemoveQueued ==
    ASSUME WellFormed(writes), NEW r \in Runtime, ~Within(writes, r, "delete"),
           writes' = Append(writes, Remove(r))
    PROVE  Queues(r, "delete")
<1>1. Remove(r) \in Message /\ Remove(r).id = r /\ Remove(r).by = "delete" /\ Remove(r).op = "remove"
  BY DEF Remove, Message, Kinds, Kind
<1> QED
  BY <1>1, AppendQueue DEF Queues

-----------------------------------------------------------------------------
(* The stored records.                                                     *)

\* Taking one record out leaves all the others, and adds none.
LEMMA OthersStay ==
    ASSUME store \in Seq(Runtime), NEW r \in Runtime
    PROVE  /\ Others(r) \in Seq(Runtime) /\ Len(Others(r)) <= Len(store)
           /\ Stored \ {r} \subseteq Elements(Others(r))
           /\ Elements(Others(r)) \subseteq Stored
<1>1. DOMAIN store = 1..Len(store) /\ Len(store) \in Nat
  BY LenProperties
<1>2. CASE r \notin Stored
  BY <1>2, <1>1 DEF Others, Elements, Stored
<1>3. CASE r \in Stored
  <2> DEFINE p == Place(r)
             a == SubSeq(store, 1, p - 1)
             b == SubSeq(store, p + 1, Len(store))
  <2>1. p \in 1..Len(store) /\ store[p] = r
    BY <1>1, <1>3 DEF Stored, Place
  <2> HIDE DEF p
  <2>2. a \in Seq(Runtime) /\ Len(a) = p - 1 /\ \A i \in 1..(p - 1) : a[i] = store[i]
    BY <1>1, <2>1, SubSeqProperties
  <2>3. b \in Seq(Runtime) /\ Len(b) = Len(store) - p
        /\ \A i \in 1..(Len(store) - p) : b[i] = store[p + i]
    <3>1. /\ p + 1 \in Int /\ Len(store) \in Int
          /\ \A i \in (p + 1)..Len(store) : store[i] \in Runtime
      BY <1>1, <2>1, ElementOfSeq
    <3>2. /\ b \in Seq(Runtime)
          /\ Len(b) = IF p + 1 <= Len(store) THEN Len(store) - (p + 1) + 1 ELSE 0
          /\ \A i \in 1..(Len(store) - (p + 1) + 1) : b[i] = store[(p + 1) + i - 1]
      BY <3>1, SubSeqProperties
    <3> HIDE DEF b
    <3> DEFINE n == Len(store)
    <3>3. n \in Nat /\ p \in 1..n
      BY <1>1, <2>1
    <3>4. Len(b) = IF p + 1 <= n THEN n - (p + 1) + 1 ELSE 0
      BY <3>2
    <3> HIDE DEF n
    <3>5. n - (p + 1) + 1 = n - p /\ (~(p + 1 <= n) => n - p = 0)
      BY <3>3
    <3>6. Len(b) = n - p
      BY <3>3, <3>4, <3>5
    <3>7. Len(b) = Len(store) - p /\ Len(store) - (p + 1) + 1 = Len(store) - p
      BY <3>5, <3>6 DEF n
    <3>8. ASSUME NEW i \in 1..(Len(store) - p) PROVE b[i] = store[p + i]
      <4>1. (p + 1) + i - 1 = p + i
        BY <2>1
      <4> QED
        BY <3>2, <3>7, <4>1
    <3> QED
      BY <3>2, <3>7, <3>8
  <2> HIDE DEF a, b
  <2> DEFINE o == a \o b
  <2>4. o \in Seq(Runtime) /\ Len(o) = Len(store) - 1
        /\ \A i \in 1..(Len(store) - 1) : o[i] = IF i <= p - 1 THEN a[i] ELSE b[i - (p - 1)]
    <3>1. /\ o \in Seq(Runtime) /\ Len(o) = Len(a) + Len(b)
          /\ \A i \in 1..(Len(a) + Len(b)) : o[i] = IF i <= Len(a) THEN a[i] ELSE b[i - Len(a)]
      BY <2>2, <2>3, ConcatProperties, ZenonT(60)
    <3> HIDE DEF o
    <3>2. Len(a) = p - 1 /\ Len(a) + Len(b) = Len(store) - 1
      BY <1>1, <2>1, <2>2, <2>3
    <3> QED
      BY <3>1, <3>2
  <2>5. Others(r) = o
    BY <1>3 DEF Others, o, a, b, p
  <2>6. DOMAIN o = 1..(Len(store) - 1)
    BY <2>4, LenProperties
  <2> HIDE DEF o
  <2>7. \A i \in DOMAIN o : o[i] = store[IF i < p THEN i ELSE i + 1]
    <3> TAKE i \in DOMAIN o
    <3>1. CASE i < p
      BY <1>1, <2>1, <2>2, <2>4, <2>6, <3>1, SMTT(60)
    <3>2. CASE i >= p
      <4>1. o[i] = b[i - (p - 1)] /\ i - (p - 1) \in 1..(Len(store) - p)
        BY <1>1, <2>1, <2>4, <2>6, <3>2, SMTT(60)
      <4>2. p + (i - (p - 1)) = i + 1
        BY <1>1, <2>1, <2>6
      <4> QED
        BY <1>1, <2>1, <2>3, <2>6, <3>2, <4>1, <4>2
    <3> QED
      BY <1>1, <2>1, <2>6, <3>1, <3>2
  <2>8. Elements(o) \subseteq Stored
    BY <1>1, <2>1, <2>6, <2>7 DEF Elements, Stored
  <2>9. ASSUME NEW i \in DOMAIN store, store[i] # r PROVE store[i] \in Elements(o)
    <3>1. CASE i < p
      BY <1>1, <2>1, <2>6, <2>7, <3>1 DEF Elements
    <3>2. CASE i > p
      <4>1. i - 1 \in DOMAIN o /\ o[i - 1] = store[i]
        BY <1>1, <2>1, <2>6, <2>7, <3>2
      <4> QED
        BY <4>1 DEF Elements
    <3> QED
      BY <1>1, <2>1, <2>9, <3>1, <3>2
  <2> QED
    BY <1>1, <2>4, <2>5, <2>8, <2>9 DEF Stored
<1> QED
  BY <1>2, <1>3

\* A record put first is stored, and what was stored stays unless the limit
\* cuts it off.
LEMMA PutStores ==
    ASSUME store \in Seq(Runtime), NEW r \in Runtime
    PROVE  /\ Capped(Newest(r)) \in Seq(Runtime) /\ Len(Capped(Newest(r))) <= MaxRecords
           /\ r \in Elements(Capped(Newest(r)))
           /\ Stored \subseteq Elements(Capped(Newest(r))) \cup CutOff(Newest(r))
           /\ Elements(Capped(Newest(r))) \cup CutOff(Newest(r)) \subseteq Stored \cup {r}
<1> DEFINE o == Others(r)
           n == Newest(r)
           c == Capped(n)
<1>1. o \in Seq(Runtime) /\ Stored \ {r} \subseteq Elements(o) /\ Elements(o) \subseteq Stored
      /\ DOMAIN o = 1..Len(o) /\ Len(o) \in Nat
  BY OthersStay, LenProperties
<1>2. n = <<r>> \o o
  BY DEF Newest
<1> HIDE DEF o, n
<1>3. n \in Seq(Runtime) /\ Len(n) = Len(o) + 1 /\ n[1] = r
      /\ \A i \in 1..Len(o) : n[i + 1] = o[i]
  BY <1>1, <1>2, ConcatProperties
<1>4. DOMAIN n = 1..(Len(o) + 1) /\ Len(n) \in Nat
  BY <1>3, LenProperties
<1>5. Elements(n) \subseteq Stored \cup {r}
  <2> SUFFICES ASSUME NEW i \in DOMAIN n PROVE n[i] \in Stored \cup {r}
    BY DEF Elements
  <2>1. i = 1 \/ (i - 1 \in DOMAIN o /\ n[i] = o[i - 1])
    BY <1>1, <1>3, <1>4
  <2> QED
    BY <1>1, <1>3, <2>1 DEF Elements
<1>6. Stored \subseteq Elements(n)
  <2>1. r \in Elements(n)
    BY <1>1, <1>3, <1>4 DEF Elements
  <2>2. Elements(o) \subseteq Elements(n)
    <3> SUFFICES ASSUME NEW i \in DOMAIN o PROVE o[i] \in Elements(n)
      BY DEF Elements
    <3>1. i + 1 \in DOMAIN n /\ n[i + 1] = o[i]
      BY <1>1, <1>3, <1>4
    <3> QED
      BY <3>1 DEF Elements
  <2> QED
    BY <1>1, <2>1, <2>2
<1>7. MaxRecords \in Nat /\ MaxRecords >= 1
  BY ConstantsOK
<1>8. CASE Len(n) > MaxRecords
  <2>1. c = SubSeq(n, 1, MaxRecords)
    BY <1>8 DEF Capped
  <2>2. c \in Seq(Runtime) /\ Len(c) = MaxRecords /\ \A i \in 1..MaxRecords : c[i] = n[i]
    BY <1>3, <1>4, <1>7, <1>8, <2>1, SubSeqProperties
  <2>3. DOMAIN c = 1..MaxRecords
    BY <2>2, LenProperties
  <2> HIDE DEF c
  <2>4. r \in Elements(c)
    BY <1>3, <1>7, <2>2, <2>3 DEF Elements
  <2>5. Elements(n) \subseteq Elements(c) \cup CutOff(n)
    <3>1. \A i \in DOMAIN n : (i \in DOMAIN c /\ c[i] = n[i]) \/ i \in (MaxRecords + 1)..Len(n)
      BY <1>3, <1>4, <1>7, <1>8, <2>2, <2>3
    <3> QED
      BY <3>1 DEF Elements, CutOff
  <2>6. Elements(c) \subseteq Elements(n) /\ CutOff(n) \subseteq Elements(n)
    <3>1. \A i \in DOMAIN c : i \in DOMAIN n /\ c[i] = n[i]
      BY <1>3, <1>4, <1>7, <1>8, <2>2, <2>3
    <3>2. \A i \in (MaxRecords + 1)..Len(n) : i \in DOMAIN n
      BY <1>3, <1>4, <1>7
    <3> QED
      BY <3>1, <3>2 DEF Elements, CutOff
  <2> QED
    BY <1>5, <1>6, <1>7, <2>2, <2>4, <2>5, <2>6 DEF c, n
<1>9. CASE ~(Len(n) > MaxRecords)
  <2>1. c = n /\ Len(n) <= MaxRecords
    BY <1>4, <1>7, <1>9 DEF Capped
  <2>2. CutOff(n) = {}
    BY <1>4, <1>7, <2>1 DEF CutOff
  <2>3. r \in Elements(n)
    BY <1>1, <1>3, <1>4 DEF Elements
  <2> QED
    BY <1>3, <1>5, <1>6, <2>1, <2>2, <2>3 DEF c, n
<1> QED
  BY <1>8, <1>9

\* A put that succeeds stores its record and loses no other but to the limit; a
\* removal loses no other; a failed write changes nothing.
LEMMA StoresStep ==
    ASSUME Records, NEW r \in Runtime, NEW put \in BOOLEAN, NEW ok \in BOOLEAN,
           store' = IF ~ok THEN store ELSE IF put THEN Capped(Newest(r)) ELSE Others(r),
           evicted' = IF put /\ ok THEN (evicted \ {r}) \cup CutOff(Newest(r)) ELSE evicted
    PROVE  Stores(r, put, ok)
<1>1. CASE ~ok
  BY <1>1 DEF Stores, Records, Safe, Stored
<1>2. CASE ok /\ put
  <2> DEFINE c == Capped(Newest(r))
  <2>1. store' = c /\ evicted' = (evicted \ {r}) \cup CutOff(Newest(r))
    BY <1>2
  <2>2. /\ c \in Seq(Runtime) /\ Len(c) <= MaxRecords /\ r \in Elements(c)
        /\ Stored \subseteq Elements(c) \cup CutOff(Newest(r))
        /\ Elements(c) \cup CutOff(Newest(r)) \subseteq Stored \cup {r}
    BY PutStores DEF Records
  <2> HIDE DEF c
  <2>3. Stored' = Elements(c)
    BY <2>1 DEF Stored, Elements
  <2> QED
    BY <1>2, <2>1, <2>2, <2>3 DEF Stores, Records, Safe
<1>3. CASE ok /\ ~put
  <2>1. store' = Others(r) /\ evicted' = evicted
    BY <1>3
  <2>2. /\ Others(r) \in Seq(Runtime) /\ Len(Others(r)) <= Len(store)
        /\ Stored \ {r} \subseteq Elements(Others(r)) /\ Elements(Others(r)) \subseteq Stored
    BY OthersStay DEF Records
  <2>3. Stored' = Elements(Others(r))
    BY <2>1 DEF Stored, Elements
  <2>4. Records'
    <3>1. Len(store) \in Nat /\ Len(Others(r)) \in Nat /\ MaxRecords \in Nat
      BY <2>2, LenProperties, ConstantsOK DEF Records
    <3> QED
      BY <2>1, <2>2, <3>1 DEF Records
  <2> QED
    BY <1>3, <2>1, <2>2, <2>3, <2>4 DEF Stores, Safe
<1> QED
  BY <1>1, <1>2, <1>3

\* The first write of the tail is of some runtime, for some kind.
LEMMA HeadWrites ==
    ASSUME WellFormed(writes), writes # <<>>
    PROVE  \E r \in Runtime, k \in Kinds : Writes(r, k)
<1>1. /\ Head(writes) \in Message /\ Within(writes, Head(writes).id, Head(writes).by)
      /\ Head(writes).op = "remove" <=> Head(writes).by = "delete"
  BY TailQueue
<1>2. /\ Head(writes).id \in Runtime /\ Head(writes).by \in Kinds
      /\ (Head(writes).op = "put" <=> Head(writes).by # "delete")
  BY <1>1 DEF Message
<1> QED
  BY <1>1, <1>2 DEF Writes

-----------------------------------------------------------------------------
(* From one runtime to all of them.                                        *)

\* The invariant says all of it for each runtime.
LEMMA AtEach ==
    ASSUME IInv, NEW r \in Runtime
    PROVE  Shape /\ Functions /\ At(r)
<1>1. Literals
  BY ConstantsOK DEF Literals, Status, Gens, Kind, Kinds
<1>2. Known(r)
  BY DEF Known, IInv, Shape, Functions, Task
<1> QED
  BY <1>1, <1>2 DEF IInv, Shape, Local, At

\* A runtime without handle has no Worker, unless it was overtaken.
LEMMA NoHandle ==
    ASSUME Shape, NEW r \in Runtime, Held(r), rt[r].handle = 0, r \notin overtaken
    PROVE  \A g \in Nat : <<r, g>> \notin running
<1>1. 0 \notin Gens
  BY DEF Gens
<1> QED
  BY <1>1 DEF Shape, Sets, Workers, Worker, Held

\* A step that is not about q leaves what holds of q, while the process stays
\* in its phase.
LEMMA Elsewhere ==
    ASSUME NEW q \in Runtime, Shape, Local(q), Untouched(q), phase' = phase, loaded' = loaded
    PROVE  Local(q)'
<1> USE DEF Shape, Local, Untouched
<1>1. rt[q].handle \in 0..MaxGen /\ rt[q].gen \in Nat
  BY DEF Functions, Task
<1>2. \A g \in Gens : g \in Nat
  BY ConstantsOK DEF Gens
<1>3. Owed(q)'
  BY DEF Owed, Kinds
<1>4. Quiet(q)'
  BY <1>2 DEF Quiet
<1>5. Ordered(q)'
  <2>1. hydration[q] \in Nat
    BY ConstantsOK DEF Functions
  <2> QED
    BY <1>1, <2>1 DEF Ordered
<1>6. Disposing(q)'
  BY DEF Disposing
<1>7. Recorded(q)'
  BY DEF Recorded
<1>8. Keeps(q)'
  BY <1>1 DEF Keeps, Ready
<1>9. Served(q)'
  BY DEF Served
<1>10. Held(q)'
  <2>1. Left(q)' <=> Left(q)
    BY <1>1 DEF Left, Leaving
  <2> QED
    BY <2>1 DEF Held
<1> QED
  BY <1>3, <1>4, <1>5, <1>6, <1>7, <1>8, <1>9, <1>10

\* So a step about r alone need only be checked for r.
LEMMA Touches ==
    ASSUME IInv, NEW r \in Runtime, Shape', phase' = phase, loaded' = loaded,
           Local(r)', \A q \in Runtime \ {r} : Untouched(q)
    PROVE  IInv'
<1>1. \A q \in Runtime : Local(q)'
  BY Elsewhere DEF IInv
<1> QED
  BY <1>1 DEF IInv

\* Pages, turns and the last moments of a Worker are not read by the invariant.
LEMMA FrameStep ==
    ASSUME IInv, page' \subseteq used, turn' \subseteq used, stopping' \subseteq Worker,
           UNCHANGED <<daemonVars, runtimes, rt, hydration, starting, running, job, storeVars, file, used>>
    PROVE  IInv'
<1> USE DEF daemonVars, storeVars
<1>1. Shape'
  BY DEF IInv, Shape, Sets, Users, Workers, Functions, Process, Records, Stored,
     WellFormed
<1>2. \A q \in Runtime : Untouched(q)
  BY DEF Untouched, Safe, Stored
<1>3. phase' = phase /\ loaded' = loaded
  OBVIOUS
<1> QED
  BY <1>1, <1>2, <1>3, Elsewhere DEF IInv

-----------------------------------------------------------------------------
(* A process begins.                                                       *)

\* A runtime that does not exist yet.
LEMMA BlankLooks == Looks(Blank, 0, "none", 0, FALSE, FALSE)
<1>1. 0 \in Nat /\ 0 \in 0..MaxGen /\ FALSE \in BOOLEAN /\ "none" \in Status
  BY ConstantsOK DEF Status
<1>2. Blank \in Task
  BY <1>1, ZenonT(60) DEF Blank, Task
<1> QED
  BY <1>2 DEF Blank, Looks

\* The empty tail.
LEMMA NoWrites == WellFormed(<<>>) /\ \A r \in Runtime, k \in Kinds : ~Within(<<>>, r, k)
<1>1. <<>> \in Seq(Message) /\ Len(<<>>) = 0
  BY EmptySeq
<1>2. DOMAIN <<>> = {}
  BY <1>1, LenProperties
<1> QED
  BY <1>1, <1>2 DEF WellFormed, Within

\* A process that has just begun satisfies the invariant, whatever the ones
\* before it left in the store.
LEMMA BegunIInv == Begun /\ Found => IInv
<1> SUFFICES ASSUME Begun, Found PROVE IInv
  OBVIOUS
<1>1. NoJob \in Progress /\ 0 \in 0..MaxGen /\ 0 \in Nat /\ Blank \in Task
  BY BlankLooks, ConstantsOK DEF NoJob, Progress, JobState, Looks
<1>2. Functions
  BY <1>1 DEF Begun, Found, Functions
<1>3. Users /\ Workers /\ Process /\ Records
  BY DEF Begun, Found, Users, Workers, Process, Stored
<1>4. WellFormed(writes)
  BY NoWrites DEF Begun
<1>5. Shape
  BY <1>2, <1>3, <1>4 DEF Shape, Sets
<1>6. ASSUME NEW r \in Runtime PROVE Local(r)
  <2>1. /\ Looks(rt[r], 0, "none", 0, FALSE, FALSE) /\ hydration[r] = 0 /\ chain[r] = 0
        /\ \A k \in Kind : job[r][k].pc = "idle" /\ ~Within(writes, r, k)
        /\ ~Within(writes, r, "checkpoint")
    BY BlankLooks, NoWrites DEF Begun, NoJob, Kinds
  <2>2. {"suspend", "restart", "delete", "dispose"} = Kind
    BY DEF Kind
  <2>3. Owed(r)
    BY <2>1 DEF Owed
  <2>4. Quiet(r) /\ Served(r) /\ Disposing(r) /\ Keeps(r)
    BY <2>1, <2>2 DEF Begun, Quiet, Served, Disposing, Keeps, Looks
  <2>5. Ordered(r) /\ Recorded(r)
    BY <2>1, <2>2 DEF Begun, Ordered, Recorded, Looks
  <2>6. Held(r)
    BY <2>1, <2>2 DEF Begun, Held, Left, Leaving, Looks
  <2> QED
    BY <2>3, <2>4, <2>5, <2>6 DEF Local
<1> QED
  BY <1>5, <1>6 DEF IInv

\* The first process does.
LEMMA InitIInv == Init => IInv
<1> SUFFICES ASSUME Init PROVE Begun /\ Found
  BY BegunIInv
<1>1. Begun
  BY DEF Init, Begun
<1>2. <<>> \in Seq(Runtime) /\ Len(<<>>) = 0 /\ DOMAIN <<>> = {}
  BY EmptySeq, LenProperties
<1>3. Records /\ Stored = {}
  BY <1>2, ConstantsOK DEF Init, Records, Stored
<1> QED
  BY <1>1, <1>3 DEF Init, Found

\* So does the next one, however the last one ended: stored records outlive it,
\* tails, chains and jobs do not.
LEMMA NextDaemonStep == ASSUME IInv, NextDaemon PROVE IInv'
<1>1. Begun'
  BY DEF NextDaemon, Begun
<1>2. daemons' \in 1..MaxDaemons \cup {1}
  BY ConstantsOK DEF NextDaemon, IInv, Shape, Process
<1>3. Found'
  BY <1>2 DEF NextDaemon, Found, IInv, Shape, Sets, Users, Functions, Records, Stored
<1>4. Begun' /\ Found' => IInv'
  BY BegunIInv, PTL
<1> QED
  BY <1>1, <1>3, <1>4

\* Loaded runtimes are suspended and have their record.
LEMMA LoadStep == ASSUME IInv, Load PROVE IInv'
<1>1. /\ Shape /\ Functions /\ phase = "running" /\ ~loaded /\ loaded' = TRUE
      /\ runtimes' = runtimes \cup Stored
      /\ UNCHANGED <<phase, daemons, kept, unwritten, overtaken, page, turn, hydration, starting,
                     running, stopping, job, chain, writes, store, evicted, deleted,
                     file, used>>
      /\ Safe' = Safe /\ Stored' = Stored
  BY DEF IInv, Shape, Load, workerVars, storeVars, Safe, Stored
<1>2. \A r \in Runtime : IF r \in Stored \ runtimes THEN Looks(rt'[r], 1, "ready", 0, TRUE, TRUE)
                         ELSE rt'[r] = rt[r]
  <2> TAKE r \in Runtime
  <2>1. CASE r \in Stored \ runtimes
    <3>1. Blank \in Task /\ "ready" \in Status /\ 1 \in Nat /\ TRUE \in BOOLEAN /\ 0 \in 0..MaxGen
          /\ file[r] \in Path \cup {NoPath} /\ Blank.handle = 0
      BY <1>1, BlankLooks, ConstantsOK DEF Looks, Status, Functions
    <3>2. Looks([Blank EXCEPT !.status = "ready", !.gen = 1, !.suspended = TRUE, !.path = file[r], !.saved = TRUE],
                1, "ready", Blank.handle, TRUE, TRUE)
      BY <3>1, Updated, ZenonT(60)
    <3>3. rt'[r] = [Blank EXCEPT !.status = "ready", !.gen = 1, !.suspended = TRUE, !.path = file[r], !.saved = TRUE]
      BY <2>1 DEF Load
    <3> QED
      BY <2>1, <3>1, <3>2, <3>3
  <2>2. CASE r \notin Stored \ runtimes
    BY <2>2 DEF Load
  <2> QED
    BY <2>1, <2>2
<1>3. Functions'
  <2>1. \A r \in Runtime : rt'[r] \in Task
    BY <1>1, <1>2 DEF Looks, Functions
  <2>2. rt' = [r \in Runtime |-> rt'[r]]
    BY DEF Load
  <2> QED
    BY <1>1, <2>1, <2>2 DEF Functions
<1>4. Shape'
  BY <1>1, <1>3 DEF Shape, Sets, Users, Workers, Process, Records, WellFormed
<1>5. ASSUME NEW r \in Runtime PROVE Local(r)'
  <2>1. /\ Known(r) /\ Literals /\ Quiet(r) /\ Owed(r) /\ Ordered(r) /\ Disposing(r)
        /\ Recorded(r) /\ Keeps(r) /\ Held(r)
    BY AtEach DEF At
  <2>2. /\ hydration[r] = 0 /\ chain[r] = 0 /\ \A k \in Kind : job[r][k].pc = "idle"
        /\ \A g \in Nat : <<r, g>> \notin starting /\ <<r, g>> \notin running
        /\ rt[r].status = "none" /\ r \notin kept /\ r \notin runtimes
    BY <1>1, <2>1 DEF Quiet, Disposing
  <2>3. Owed(r)'
    BY <1>1, <2>1 DEF Owed
  <2>4. Quiet(r)'
    BY <1>1, <1>2, <2>2 DEF Quiet, Shape, Sets, Users
  <2>5. Ordered(r)'
    BY <1>1, <1>2, <2>1, <2>2 DEF Ordered, Looks, Known, Literals
  <2>6. Disposing(r)' /\ Keeps(r)'
    BY <1>1, <2>1, <2>2 DEF Disposing, Keeps
  <2>7. Recorded(r)'
    BY <1>1, <1>2, <2>1, <2>2 DEF Recorded, Safe, Literals
  <2>8. Served(r)'
    BY <1>1, <1>2, <2>1, <2>2 DEF Served, Looks, Literals
  <2>9. Held(r)'
    BY <1>1, <1>2, <2>1, <2>2 DEF Held, Left, Leaving, Looks, Literals
  <2> QED
    BY <2>3, <2>4, <2>5, <2>6, <2>7, <2>8, <2>9 DEF Local
<1> QED
  BY <1>4, <1>5 DEF IInv

-----------------------------------------------------------------------------
(* Starting and hydrating.                                                 *)

\* A new runtime has one attempt, and no record yet.
LEMMA StartNewStep == ASSUME IInv, NEW r \in Runtime, StartNew(r) PROVE IInv'
<1>1. Shape /\ Functions /\ At(r)
  BY AtEach
<1>2. /\ phase = "running" /\ loaded /\ r \notin used
      /\ used' = used \cup {r} /\ runtimes' = runtimes \cup {r}
      /\ starting' = starting \cup {<<r, 1>>}
      /\ UNCHANGED <<phase, daemons, loaded, overtaken, page, turn, kept, unwritten,
                    deleted, hydration, running, stopping, job, chain, writes, store,
                    evicted, file>>
      /\ Safe' = Safe /\ Stored' = Stored
  BY <1>1
  DEF At, StartNew, daemonVars, workerVars, storeVars, JobFrame, SwitchFrame, Safe,
      Stored
<1>3. Becomes(r, 1, "initializing", 0, FALSE, rt[r].saved)
  BY <1>1, Updated, TaskStep DEF StartNew, Prepare, Known, Literals, At
<1>4. Functions'
  BY <1>1, <1>2, <1>3 DEF Functions, Becomes, Looks
<1>5. Users' /\ Workers'
  BY <1>1, <1>2 DEF Shape, Sets, Users, Quiet, At, Workers, Worker, Gens, Literals
<1>6. (Process /\ Records /\ WellFormed(writes))'
  BY <1>1, <1>2 DEF Shape, Process, Records, WellFormed
<1>7. \A q \in Runtime \ {r} : Untouched(q)
  BY <1>1, <1>2, <1>3 DEF Untouched, Shape, Functions, Becomes
<1>8. Owed(r)' /\ Quiet(r)'
  BY <1>1, <1>2, <1>3 DEF Owed, Becomes, Looks, Known, Literals, At, Quiet
<1>9. Ordered(r)'
  BY <1>1, <1>2, <1>3 DEF Ordered, Quiet, Becomes, Looks, Known, Literals, At
<1>10. Disposing(r)' /\ Recorded(r)'
  BY <1>1, <1>2, <1>3 DEF Disposing, Becomes, Looks, Known, Literals, At, Recorded
<1>11. Keeps(r)'
  BY <1>1, <1>2, <1>3
  DEF Keeps, Disposing, Recorded, Ready, Becomes, Looks, Known, Literals, At
<1>12. Served(r)'
  BY <1>1, <1>2, <1>3 DEF Served, Becomes, Looks, Known, Literals, At, Quiet
<1>13. Held(r)'
  BY <1>1, <1>2, <1>3
  DEF Held, Left, Leaving, Ordered, Quiet, Becomes, Looks, Known, Literals, At
<1> QED
  BY <1>2, <1>4, <1>5, <1>6, <1>7, <1>8, <1>9, <1>10, <1>11, <1>12, <1>13, Touches
  DEF Shape, Sets, Local

\* A continued session starts suspended, without Worker.
LEMMA StartContinueStep ==
    ASSUME IInv, NEW r \in Runtime, NEW p \in Path, StartContinue(r, p)
    PROVE  IInv'
<1>1. Shape /\ Functions /\ At(r)
  BY AtEach
<1>2. /\ phase = "running" /\ loaded /\ r \notin used
      /\ used' = used \cup {r} /\ runtimes' = runtimes \cup {r}
      /\ UNCHANGED <<phase, daemons, loaded, overtaken, page, turn, kept, unwritten,
                    deleted, hydration, starting, running, stopping, job, chain, writes,
                    store, evicted>>
      /\ Safe' = Safe /\ Stored' = Stored
  BY <1>1
  DEF At, StartContinue, daemonVars, workerVars, storeVars, JobFrame, SwitchFrame, Safe,
      Stored
<1>3. Becomes(r, 1, "ready", 0, TRUE, FALSE)
  <2>1. Looks(Blank, 0, "none", 0, FALSE, FALSE)
    <3>1. Blank \in Task
      BY <1>1, ZenonT(60) DEF Blank, Task, Literals, At
    <3> QED
      BY <3>1 DEF Blank, Looks
  <2>2. Looks([Blank EXCEPT !.status = "ready", !.gen = 1, !.suspended = TRUE, !.path = p],
              1, "ready", Blank.handle, TRUE, Blank.saved)
    <3>1. Blank \in Task /\ "ready" \in Status /\ p \in Path \cup {NoPath}
      BY <1>1, <2>1 DEF Looks, Literals, At
    <3> QED
      BY <1>1, <3>1, Updated, ZenonT(60) DEF Literals, At
  <2> QED
    BY <1>1, <2>1, <2>2, TaskStep DEF StartContinue, Looks, At
<1>4. FileKept(r)
  BY <1>1, ConstantsOK DEF StartContinue, FileKept, Functions, At
<1>5. Functions'
  BY <1>1, <1>2, <1>3, <1>4 DEF Functions, Becomes, Looks, FileKept
<1>6. Users' /\ Workers'
  BY <1>1, <1>2 DEF Shape, Sets, Users, Quiet, At, Workers, Worker, Gens, Literals
<1>7. (Process /\ Records /\ WellFormed(writes))'
  BY <1>1, <1>2 DEF Shape, Process, Records, WellFormed
<1>8. \A q \in Runtime \ {r} : Untouched(q)
  BY <1>1, <1>2, <1>3, <1>4 DEF Untouched, Shape, Functions, Becomes, FileKept
<1>9. Owed(r)' /\ Quiet(r)'
  BY <1>1, <1>2, <1>3 DEF Owed, Becomes, Looks, Known, Literals, At, Quiet
<1>10. Ordered(r)'
  BY <1>1, <1>2, <1>3 DEF Ordered, Quiet, Becomes, Looks, Known, Literals, At
<1>11. Disposing(r)' /\ Recorded(r)'
  BY <1>1, <1>2, <1>3 DEF Disposing, Becomes, Looks, Known, Literals, At, Recorded
<1>12. Keeps(r)'
  BY <1>1, <1>2, <1>3, <1>4
  DEF Keeps, Disposing, Recorded, Ready, Becomes, Looks, Known, Literals, FileKept, At
<1>13. Served(r)'
  BY <1>1, <1>2, <1>3 DEF Served, Becomes, Looks, Known, Literals, At, Quiet
<1>14. Held(r)'
  BY <1>1, <1>2, <1>3
  DEF Held, Left, Leaving, Ordered, Quiet, Becomes, Looks, Known, Literals, At
<1> QED
  BY <1>2, <1>5, <1>6, <1>7, <1>8, <1>9, <1>10, <1>11, <1>12, <1>13, <1>14, Touches
  DEF Shape, Sets, Local

\* Hydrating gives a suspended runtime an attempt of the next generation.
LEMMA HydratingStep == ASSUME IInv, NEW r \in Runtime, Hydrating(r) PROVE IInv'
<1>1. Shape /\ Functions /\ At(r)
  BY AtEach
<1>2. /\ phase = "running" /\ loaded /\ r \in runtimes /\ hydration[r] = 0 /\ rt[r].suspended
      /\ page' \subseteq page \cup {r} /\ rt[r].gen + 1 \in Gens
      /\ starting' = starting \cup {<<r, rt[r].gen + 1>>}
      /\ UNCHANGED <<phase, daemons, loaded, overtaken, runtimes, used, turn, kept,
                    unwritten, deleted, running, stopping, job, chain, writes, store,
                    evicted, file>>
      /\ Safe' = Safe /\ Stored' = Stored
  BY <1>1
  DEF At, Hydrating, Hydrates, Hydrate, Literals, Known, Gens, daemonVars, workerVars,
      storeVars, JobFrame, SwitchFrame, Safe, Stored
<1>3. Becomes(r, rt[r].gen + 1, "initializing", 0, FALSE, rt[r].saved)
  BY <1>1, Updated, TaskStep DEF Hydrating, Hydrate, Prepare, Known, Literals, At
<1>4. HydrationIs(r, rt[r].gen + 1)
  <2>1. rt[r].gen + 1 \in 0..MaxGen
    BY <1>1, <1>2 DEF Known, Literals, Gens, At
  <2> QED
    BY <1>1, <2>1, HydrationStep DEF Hydrating, Hydrate, At
<1>5. Functions'
  BY <1>1, <1>2, <1>3, <1>4 DEF Functions, Becomes, Looks, HydrationIs
<1>6. Users' /\ Workers'
  BY <1>1, <1>2 DEF Shape, Sets, Users, Quiet, At, Workers, Worker, Gens, Literals
<1>7. (Process /\ Records /\ WellFormed(writes))'
  BY <1>1, <1>2 DEF Shape, Process, Records, WellFormed
<1>8. \A q \in Runtime \ {r} : Untouched(q)
  BY <1>1, <1>2, <1>3, <1>4 DEF Untouched, Shape, Functions, Becomes, HydrationIs
<1>9. Owed(r)' /\ Quiet(r)'
  BY <1>1, <1>2, <1>3, <1>4
  DEF Owed, Becomes, Looks, Known, Literals, HydrationIs, At, Quiet
<1>10. Ordered(r)'
  BY <1>1, <1>2, <1>3, <1>4
  DEF Ordered, Becomes, Looks, Known, Literals, HydrationIs, At
<1>11. Disposing(r)' /\ Recorded(r)'
  BY <1>1, <1>2, <1>3 DEF Disposing, Becomes, Looks, Known, Literals, At, Recorded
<1>12. Keeps(r)'
  BY <1>1, <1>2, <1>3
  DEF Keeps, Disposing, Recorded, Ready, Becomes, Looks, Known, Literals, At
<1>13. Served(r)'
  BY <1>1, <1>2, <1>3 DEF Served, Becomes, Looks, Known, Literals, At, Quiet
<1>14. Held(r)'
  <2>1. rt[r].handle = 0 /\ r \notin overtaken => \A g \in Nat : <<r, g>> \notin running
    BY <1>1, NoHandle DEF At
  <2> QED
    BY <1>1, <2>1, <1>2, <1>3, <1>4
    DEF Held, Left, Leaving, Ordered, Quiet, Becomes, Looks, Known, Literals, At,
        HydrationIs
<1> QED
  BY <1>2, <1>5, <1>6, <1>7, <1>8, <1>9, <1>10, <1>11, <1>12, <1>13, <1>14, Touches
  DEF Shape, Sets, Local

\* A handshake that answers after its attempt was given up makes nothing ready.
LEMMA InitDoneStaleStep ==
    ASSUME IInv, NEW r \in Runtime, NEW g \in Gens, InitDone(r, g), ~Current(r, g)
    PROVE  IInv'
<1>1. Shape /\ Functions /\ At(r)
  BY AtEach
<1>2. /\ <<r, g>> \in starting
      /\ starting' = starting \ {<<r, g>>} /\ stopping' = stopping \cup {<<r, g>>}
      /\ UNCHANGED rt
      /\ UNCHANGED <<phase, daemons, loaded, overtaken, runtimes, used, page, turn, kept,
                    unwritten, deleted, running, job, chain, writes, store, evicted, file>>
      /\ Safe' = Safe /\ Stored' = Stored
  BY <1>1
  DEF At, InitDone, daemonVars, workerVars, storeVars, JobFrame, SwitchFrame, Safe,
      Stored
<1>3. HydrationIs(r, IF hydration[r] = g THEN 0 ELSE hydration[r])
  <2>1. (IF hydration[r] = g THEN 0 ELSE hydration[r]) \in 0..MaxGen
    BY <1>1 DEF Known, Literals, At
  <2> QED
    BY <1>1, <2>1, HydrationStep DEF InitDone, InitSettles, At
<1>4. Functions'
  BY <1>1, <1>2, <1>3 DEF Functions, HydrationIs
<1>5. Users' /\ Workers'
  BY <1>1, <1>2 DEF Shape, Sets, Users, Quiet, At, Workers, Worker, Gens, Literals
<1>6. (Process /\ Records /\ WellFormed(writes))'
  BY <1>1, <1>2 DEF Shape, Process, Records, WellFormed
<1>7. \A q \in Runtime \ {r} : Untouched(q)
  BY <1>1, <1>2, <1>3 DEF Untouched, Shape, Functions, HydrationIs
<1>8. Owed(r)' /\ Quiet(r)'
  BY <1>1, <1>2, <1>3 DEF Owed, Known, Literals, HydrationIs, At, Quiet
<1>9. Ordered(r)'
  BY <1>1, <1>2, <1>3 DEF Ordered, Known, Literals, HydrationIs, At
<1>10. Disposing(r)' /\ Recorded(r)'
  BY <1>1, <1>2 DEF Disposing, Known, Literals, At, Recorded
<1>11. Keeps(r)'
  BY <1>1, <1>2 DEF Keeps, Disposing, Recorded, Ready, Known, Literals, At
<1>12. Served(r)'
  BY <1>1, <1>2 DEF Served, Known, Literals, At, Quiet
<1>13. Held(r)'
  BY <1>1, <1>2, <1>3
  DEF Held, Left, Leaving, Ordered, Quiet, Known, Literals, At, HydrationIs
<1> QED
  BY <1>2, <1>4, <1>5, <1>6, <1>7, <1>8, <1>9, <1>10, <1>11, <1>12, <1>13, Touches
  DEF Shape, Sets, Local

\* The current attempt makes its runtime ready and leaves it a handle.
LEMMA InitDoneCurrentStep ==
    ASSUME IInv, NEW r \in Runtime, NEW g \in Gens, InitDone(r, g), Current(r, g)
    PROVE  IInv'
<1>1. Shape /\ Functions /\ At(r)
  BY AtEach
<1>2. /\ <<r, g>> \in starting /\ rt[r].gen = g /\ rt[r].status = "initializing"
      /\ starting' = starting \ {<<r, g>>} /\ running' = running \cup {<<r, g>>}
      /\ UNCHANGED <<phase, daemons, loaded, overtaken, runtimes, used, page, turn, kept,
                    unwritten, deleted, stopping, job, chain, writes, store, evicted>>
      /\ Safe' = Safe /\ Stored' = Stored
  BY <1>1
  DEF At, InitDone, Current, daemonVars, workerVars, storeVars, JobFrame, SwitchFrame,
      Safe, Stored
<1>3. HydrationIs(r, IF hydration[r] = g THEN 0 ELSE hydration[r])
  <2>1. (IF hydration[r] = g THEN 0 ELSE hydration[r]) \in 0..MaxGen
    BY <1>1 DEF Known, Literals, At
  <2> QED
    BY <1>1, <2>1, HydrationStep DEF InitDone, InitSettles, At
<1>4. Becomes(r, rt[r].gen, "ready", g, rt[r].suspended, rt[r].saved)
  <2> DEFINE x == [rt[r] EXCEPT !.handle = g, !.status = "ready"]
  <2>1. Looks(x, rt[r].gen, "ready", g, rt[r].suspended, rt[r].saved)
    BY <1>1, Updated DEF Known, Literals, At
  <2>2. rt' = [rt EXCEPT ![r] = x]
    BY <1>1 DEF InitDone, Functions, At
  <2> QED
    BY <1>1, <2>1, <2>2, TaskStep DEF At
<1>5. FileKept(r)
  BY <1>1, FileStep DEF InitDone, At
<1>6. Functions'
  BY <1>1, <1>2, <1>3, <1>4, <1>5 DEF Functions, Becomes, Looks, HydrationIs, FileKept
<1>7. Users' /\ Workers'
  BY <1>1, <1>2 DEF Shape, Sets, Users, Quiet, At, Workers, Worker, Gens, Literals
<1>8. (Process /\ Records /\ WellFormed(writes))'
  BY <1>1, <1>2 DEF Shape, Process, Records, WellFormed
<1>9. \A q \in Runtime \ {r} : Untouched(q)
  BY <1>1, <1>2, <1>3, <1>4, <1>5
  DEF Untouched, Shape, Functions, Becomes, HydrationIs, FileKept
<1>10. Owed(r)' /\ Quiet(r)'
  BY <1>1, <1>2, <1>3, <1>4
  DEF Owed, Becomes, Looks, Known, Literals, HydrationIs, At, Quiet
<1>11. Ordered(r)'
  BY <1>1, <1>2, <1>3, <1>4
  DEF Ordered, Becomes, Looks, Known, Literals, HydrationIs, At
<1>12. Disposing(r)' /\ Recorded(r)'
  BY <1>1, <1>2, <1>4 DEF Disposing, Becomes, Looks, Known, Literals, At, Recorded
<1>13. Keeps(r)'
  BY <1>1, <1>2, <1>4, <1>5
  DEF Keeps, Disposing, Recorded, Ready, Becomes, Looks, Known, Literals, FileKept, At
<1>14. Served(r)'
  BY <1>1, <1>2, <1>4 DEF Served, Becomes, Looks, Known, Literals, At, Quiet
<1>15. Held(r)'
  <2>1. rt[r].handle = 0 /\ r \notin overtaken => \A h \in Nat : <<r, h>> \notin running
    BY <1>1, NoHandle DEF At
  <2> QED
    BY <1>1, <2>1, <1>2, <1>4, <1>3
    DEF Held, Left, Leaving, Ordered, Quiet, Becomes, Looks, Known, Literals, At,
        HydrationIs
<1> QED
  BY <1>2, <1>6, <1>7, <1>8, <1>9, <1>10, <1>11, <1>12, <1>13, <1>14, <1>15, Touches
  DEF Shape, Sets, Local

\* A failed attempt fails its own generation only.
LEMMA InitFailStep ==
    ASSUME IInv, NEW r \in Runtime, NEW g \in Gens, InitFail(r, g)
    PROVE  IInv'
<1>1. Shape /\ Functions /\ At(r)
  BY AtEach
<1>2. /\ <<r, g>> \in starting
      /\ starting' = starting \ {<<r, g>>}
      /\ UNCHANGED <<phase, daemons, loaded, overtaken, runtimes, used, page, turn, kept,
                    unwritten, deleted, running, stopping, job, chain, writes, store,
                    evicted, file>>
      /\ Safe' = Safe /\ Stored' = Stored
  BY <1>1
  DEF At, InitFail, daemonVars, workerVars, storeVars, JobFrame, SwitchFrame, Safe,
      Stored
<1>3. HydrationIs(r, IF hydration[r] = g THEN 0 ELSE hydration[r])
  <2>1. (IF hydration[r] = g THEN 0 ELSE hydration[r]) \in 0..MaxGen
    BY <1>1 DEF Known, Literals, At
  <2> QED
    BY <1>1, <2>1, HydrationStep DEF InitFail, InitSettles, At
<1>4. Becomes(r, rt[r].gen, IF rt[r].gen = g /\ rt[r].status \notin {"terminating", "terminated"}
                            THEN "failed" ELSE rt[r].status,
              rt[r].handle, rt[r].suspended, rt[r].saved)
  <2>1. CASE rt[r].gen = g /\ rt[r].status \notin {"terminating", "terminated"}
    <3>1. Looks([rt[r] EXCEPT !.status = "failed"], rt[r].gen, "failed", rt[r].handle, rt[r].suspended, rt[r].saved)
      BY <1>1, Updated DEF Known, Literals, At
    <3> QED
      BY <1>1, <2>1, <3>1, TaskStep DEF InitFail, At
  <2>2. CASE ~(rt[r].gen = g /\ rt[r].status \notin {"terminating", "terminated"})
    BY <1>1, <2>2, TaskStays DEF InitFail, At
  <2> QED
    BY <2>1, <2>2
<1>5. Functions'
  BY <1>1, <1>2, <1>3, <1>4 DEF Functions, Becomes, Looks, HydrationIs
<1>6. Users' /\ Workers'
  BY <1>1, <1>2, <1>4 DEF Shape, Sets, Users, Quiet, At, Workers, Worker, Gens, Literals
<1>7. (Process /\ Records /\ WellFormed(writes))'
  BY <1>1, <1>2, <1>4 DEF Shape, Process, Records, WellFormed
<1>8. \A q \in Runtime \ {r} : Untouched(q)
  BY <1>1, <1>2, <1>3, <1>4 DEF Untouched, Shape, Functions, Becomes, HydrationIs
<1>9. Owed(r)' /\ Quiet(r)'
  BY <1>1, <1>2, <1>3, <1>4
  DEF Owed, Becomes, Looks, Known, Literals, HydrationIs, At, Quiet
<1>10. Ordered(r)'
  BY <1>1, <1>2, <1>3, <1>4
  DEF Ordered, Becomes, Looks, Known, Literals, HydrationIs, At
<1>11. Disposing(r)' /\ Recorded(r)'
  BY <1>1, <1>2, <1>4 DEF Disposing, Becomes, Looks, Known, Literals, At, Recorded
<1>12. Keeps(r)'
  BY <1>1, <1>2, <1>4
  DEF Ordered, Keeps, Disposing, Ready, Becomes, Looks, Known, Literals, At
<1>13. Served(r)'
  BY <1>1, <1>2, <1>4 DEF Served, Becomes, Looks, Known, Literals, At, Quiet
<1>14. Held(r)'
  BY <1>1, <1>2, <1>4, <1>3
  DEF Held, Left, Leaving, Ordered, Quiet, Becomes, Looks, Known, Literals, At,
      HydrationIs
<1> QED
  BY <1>2, <1>5, <1>6, <1>7, <1>8, <1>9, <1>10, <1>11, <1>12, <1>13, <1>14, Touches
  DEF Shape, Sets, Local

\* A retry begins the next generation.
LEMMA RetryStep == ASSUME IInv, NEW r \in Runtime, Retry(r) PROVE IInv'
<1>1. Shape /\ Functions /\ At(r)
  BY AtEach
<1>2. /\ loaded /\ r \in runtimes /\ rt[r].gen + 1 \in Gens /\ rt[r].status = "failed"
      /\ starting' = starting \cup {<<r, rt[r].gen + 1>>}
      /\ UNCHANGED <<phase, daemons, loaded, overtaken, runtimes, used, page, turn, kept,
                    unwritten, deleted, hydration, running, stopping, job, chain, writes,
                    store, evicted, file>>
      /\ Safe' = Safe /\ Stored' = Stored
  BY <1>1
  DEF At, Retry, Literals, Known, Gens, daemonVars, workerVars, storeVars, JobFrame,
      SwitchFrame, Safe, Stored
<1>3. Becomes(r, rt[r].gen + 1, "initializing", 0, rt[r].suspended, rt[r].saved)
  BY <1>1, Updated, TaskStep DEF Retry, Known, Literals, At
<1>4. Functions'
  BY <1>1, <1>2, <1>3 DEF Functions, Becomes, Looks
<1>5. Users' /\ Workers'
  BY <1>1, <1>2 DEF Shape, Sets, Users, Quiet, At, Workers, Worker, Gens, Literals
<1>6. (Process /\ Records /\ WellFormed(writes))'
  BY <1>1, <1>2 DEF Shape, Process, Records, WellFormed
<1>7. \A q \in Runtime \ {r} : Untouched(q)
  BY <1>1, <1>2, <1>3 DEF Untouched, Shape, Functions, Becomes
<1>8. Owed(r)' /\ Quiet(r)'
  BY <1>1, <1>2, <1>3 DEF Owed, Becomes, Looks, Known, Literals, At, Quiet
<1>9. Ordered(r)'
  BY <1>1, <1>2, <1>3 DEF Ordered, Becomes, Looks, Known, Literals, At
<1>10. Disposing(r)' /\ Recorded(r)'
  BY <1>1, <1>2, <1>3 DEF Disposing, Becomes, Looks, Known, Literals, At, Recorded
<1>11. Keeps(r)'
  BY <1>1, <1>2, <1>3
  DEF Keeps, Disposing, Recorded, Ready, Becomes, Looks, Known, Literals, At
<1>12. Served(r)'
  BY <1>1, <1>2, <1>3 DEF Served, Becomes, Looks, Known, Literals, At, Quiet
<1>13. Held(r)'
  BY <1>1, <1>2, <1>3
  DEF Held, Left, Leaving, Ordered, Quiet, Becomes, Looks, Known, Literals, At
<1> QED
  BY <1>2, <1>4, <1>5, <1>6, <1>7, <1>8, <1>9, <1>10, <1>11, <1>12, <1>13, Touches
  DEF Shape, Sets, Local

\* A Worker that exits fails its own generation; dispose() owes its task
\* nothing.
LEMMA WorkerExitStep ==
    ASSUME IInv, NEW r \in Runtime, NEW g \in Gens, WorkerExit(r, g)
    PROVE  IInv'
<1>1. Shape /\ Functions /\ At(r)
  BY AtEach
<1>2. /\ <<r, g>> \in running
      /\ kept' = kept \ {r} /\ turn' = turn \ {r}
      /\ running' = running \ {<<r, g>>}
      /\ UNCHANGED <<phase, daemons, loaded, overtaken, runtimes, used, page, unwritten,
                    deleted, hydration, starting, stopping, job, chain, writes, store,
                    evicted, file>>
      /\ Safe' = Safe /\ Stored' = Stored
  BY <1>1
  DEF At, WorkerExit, daemonVars, workerVars, storeVars, JobFrame, SwitchFrame, Safe,
      Stored
<1>3. \/ rt' = rt
      \/ Becomes(r, rt[r].gen, "failed", 0, rt[r].suspended, rt[r].saved)
  <2>1. Looks(Exited(rt[r]), rt[r].gen, "failed", 0, rt[r].suspended, rt[r].saved)
    BY <1>1, Updated DEF Known, Literals, Exited, At
  <2> QED
    BY <1>1, <2>1, TaskStep DEF WorkerExit, At
<1>4. Functions'
  BY <1>1, <1>2, <1>3 DEF Functions, Becomes, Looks
<1>5. Users' /\ Workers'
  BY <1>1, <1>2, <1>3 DEF Shape, Sets, Users, Quiet, At, Workers, Worker, Gens, Literals
<1>6. (Process /\ Records /\ WellFormed(writes))'
  BY <1>1, <1>2, <1>3 DEF Shape, Process, Records, WellFormed
<1>7. \A q \in Runtime \ {r} : Untouched(q)
  BY <1>1, <1>2, <1>3 DEF Untouched, Shape, Functions, Becomes
<1>8. Owed(r)' /\ Quiet(r)'
  BY <1>1, <1>2, <1>3 DEF Owed, Becomes, Looks, Known, Literals, At, Quiet
<1>9. Ordered(r)'
  BY <1>1, <1>2, <1>3 DEF Ordered, Becomes, Looks, Known, Literals, At
<1>10. Disposing(r)' /\ Recorded(r)'
  BY <1>1, <1>2, <1>3 DEF Disposing, Becomes, Looks, Known, Literals, At, Recorded
<1>11. Keeps(r)'
  BY <1>1, <1>2, <1>3
  DEF Keeps, Disposing, Recorded, Ready, Becomes, Looks, Known, Literals, At
<1>12. Served(r)'
  BY <1>1, <1>2, <1>3 DEF Served, Becomes, Looks, Known, Literals, At, Quiet
<1>13. Held(r)'
  BY <1>1, <1>2, <1>3
  DEF Held, Left, Leaving, Ordered, Quiet, Becomes, Looks, Known, Literals, At
<1> QED
  BY <1>2, <1>4, <1>5, <1>6, <1>7, <1>8, <1>9, <1>10, <1>11, <1>12, <1>13, Touches
  DEF Shape, Sets, Local

-----------------------------------------------------------------------------
(* Turns and recovery checkpoints.                                         *)

\* A checkpoint lengthens the chain, and enters the tail only as its first.
LEMMA Checkpointed ==
    ASSUME Functions, WellFormed(writes), NEW r \in Runtime, Owed(r), AddCheckpoint(r)
    PROVE  ChainIs(r, chain[r] + 1) /\ Queues(r, "checkpoint")
<1>1. chain[r] \in Nat /\ chain[r] + 1 \in Nat
  BY DEF Functions
<1>2. chain' = [chain EXCEPT ![r] = chain[r] + 1]
  BY DEF AddCheckpoint
<1>3. ChainIs(r, chain[r] + 1)
  BY <1>1, <1>2, ChainStep
<1>4. ASSUME chain[r] = 0 PROVE Queues(r, "checkpoint")
  <2>1. writes' = Append(writes, Put(r, "checkpoint"))
    BY <1>4 DEF AddCheckpoint
  <2>2. ~Within(writes, r, "checkpoint") /\ "checkpoint" \in Kinds \ {"delete"}
    BY <1>4 DEF Owed, Kinds
  <2> QED
    BY <2>1, <2>2, PutQueued
<1>5. ASSUME chain[r] # 0 PROVE Queues(r, "checkpoint")
  <2>1. writes' = writes
    BY <1>5 DEF AddCheckpoint
  <2> QED
    BY <2>1 DEF Queues
<1> QED
  BY <1>3, <1>4, <1>5

\* The checkpoint of a job enters the tail at once, or waits behind the chain.
LEMMA JobCheckpointed ==
    ASSUME Functions, WellFormed(writes), NEW r \in Runtime, NEW k \in Kind \ {"delete"}, NEW g \in Nat,
           Owed(r), job[r][k].pc # "put", Checkpoint(r, k, g)
    PROVE  /\ Becomes(r, rt[r].gen, rt[r].status, rt[r].handle, rt[r].suspended, rt[r].saved)
           /\ Moves(r, k, IF chain[r] = 0 THEN "put" ELSE "wait")
           /\ Queues(r, k) /\ (chain[r] # 0 => writes' = writes)
<1>1. rt[r] \in Task /\ file[r] \in Path \cup {NoPath} /\ chain[r] \in Nat
  BY DEF Functions
<1>2. Becomes(r, rt[r].gen, rt[r].status, rt[r].handle, rt[r].suspended, rt[r].saved)
  <2>1. Looks([rt[r] EXCEPT !.path = file[r]], rt[r].gen, rt[r].status, rt[r].handle, rt[r].suspended, rt[r].saved)
    <3>1. rt[r].gen \in Nat /\ rt[r].status \in Status /\ rt[r].handle \in 0..MaxGen
          /\ rt[r].suspended \in BOOLEAN /\ rt[r].saved \in BOOLEAN
      BY <1>1 DEF Task
    <3> QED
      BY <1>1, <3>1, Updated, ZenonT(60)
  <2> QED
    BY <2>1, TaskStep DEF Checkpoint
<1>3. (IF chain[r] = 0 THEN "put" ELSE "wait") \in JobState
  BY DEF JobState
<1>4. Moves(r, k, IF chain[r] = 0 THEN "put" ELSE "wait")
  BY <1>1, <1>3, JobStep DEF Checkpoint
<1>5. CASE chain[r] = 0
  BY <1>2, <1>4, <1>5, PutQueued DEF Checkpoint, Owed, Kinds
<1>6. CASE chain[r] # 0
  BY <1>2, <1>4, <1>6 DEF Checkpoint, Queues
<1> QED
  BY <1>5, <1>6

\* A prompt may name the session and refresh its record.
LEMMA PromptStep == ASSUME IInv, NEW r \in Runtime, Prompt(r) PROVE IInv'
<1>1. Shape /\ Functions /\ At(r)
  BY AtEach
<1>2. /\ r \in runtimes /\ turn' = turn \cup {r}
      /\ UNCHANGED <<phase, daemons, loaded, overtaken, runtimes, used, page, kept,
                    unwritten, deleted, hydration, starting, running, stopping, job, store,
                    evicted>>
      /\ Safe' = Safe /\ Stored' = Stored
  BY <1>1
  DEF At, Prompt, daemonVars, workerVars, storeVars, JobFrame, SwitchFrame, Safe, Stored
<1>3. Becomes(r, rt[r].gen, rt[r].status, rt[r].handle, rt[r].suspended, rt[r].saved)
  <2>1. Looks([rt[r] EXCEPT !.titled = TRUE], rt[r].gen, rt[r].status, rt[r].handle, rt[r].suspended, rt[r].saved)
    BY <1>1, Updated DEF Known, Literals, At
  <2> QED
    BY <1>1, <2>1, TaskStep DEF Prompt, At
<1>4. FileKept(r)
  BY <1>1, FileStep DEF Prompt, At
<1>5. (ChainIs(r, chain[r] + 1) /\ Queues(r, "checkpoint")) \/ (UNCHANGED <<chain, writes>>)
  BY <1>1, Checkpointed DEF Prompt, Shape, At
<1>6. Functions'
  BY <1>1, <1>2, <1>3, <1>4, <1>5 DEF Functions, Becomes, Looks, ChainIs, FileKept
<1>7. Users' /\ Workers'
  BY <1>1, <1>2, <1>5 DEF Shape, Sets, Users, Quiet, At, Workers, Worker, Gens, Literals
<1>8. (Process /\ Records /\ WellFormed(writes))'
  BY <1>1, <1>2, <1>5 DEF Shape, Process, Records, WellFormed, Queues
<1>9. \A q \in Runtime \ {r} : Untouched(q)
  BY <1>1, <1>2, <1>3, <1>4, <1>5
  DEF Untouched, Shape, Functions, Becomes, ChainIs, FileKept, Queues
<1>10. Owed(r)' /\ Quiet(r)'
  BY <1>1, <1>2, <1>3, <1>5
  DEF Owed, Becomes, Looks, Known, Literals, ChainIs, Queues, At, Quiet
<1>11. Ordered(r)'
  BY <1>1, <1>2, <1>3, <1>5
  DEF Ordered, Becomes, Looks, Known, Literals, ChainIs, Queues, At
<1>12. Disposing(r)' /\ Recorded(r)'
  BY <1>1, <1>2, <1>3, <1>5
  DEF Disposing, Becomes, Looks, Known, Literals, ChainIs, Queues, At, Recorded
<1>13. Keeps(r)'
  BY <1>1, <1>2, <1>3, <1>4, <1>5
  DEF Keeps, Disposing, Recorded, Ready, Becomes, Looks, Known, Literals, ChainIs,
      FileKept, Queues, At
<1>14. Served(r)'
  BY <1>1, <1>2, <1>3, <1>5
  DEF Served, Becomes, Looks, Known, Literals, ChainIs, Queues, At, Quiet
<1>15. Held(r)'
  BY <1>1, <1>2, <1>3, <1>5
  DEF Held, Left, Leaving, Ordered, Quiet, Becomes, Looks, Known, Literals, ChainIs,
      Queues, At
<1> QED
  BY <1>2, <1>6, <1>7, <1>8, <1>9, <1>10, <1>11, <1>12, <1>13, <1>14, <1>15, Touches
  DEF Shape, Sets, Local

\* A state read checkpoints a session once.
LEMMA ReadStateStep == ASSUME IInv, NEW r \in Runtime, ReadState(r) PROVE IInv'
<1>1. Shape /\ Functions /\ At(r)
  BY AtEach
<1>2. /\ r \in runtimes
      /\ UNCHANGED <<phase, daemons, loaded, overtaken, runtimes, used, page, turn, kept,
                    unwritten, deleted, hydration, starting, running, stopping, job, store,
                    evicted, file>>
      /\ Safe' = Safe /\ Stored' = Stored
  BY <1>1
  DEF At, ReadState, daemonVars, workerVars, storeVars, JobFrame, SwitchFrame, Safe,
      Stored
<1>3. Becomes(r, rt[r].gen, rt[r].status, rt[r].handle, rt[r].suspended, rt[r].saved)
  <2>1. Looks([rt[r] EXCEPT !.path = file[r]], rt[r].gen, rt[r].status, rt[r].handle, rt[r].suspended, rt[r].saved)
    BY <1>1, Updated DEF Known, Literals, At
  <2> QED
    BY <1>1, <2>1, TaskStep DEF ReadState, At
<1>4. ChainIs(r, chain[r] + 1) /\ Queues(r, "checkpoint")
  BY <1>1, Checkpointed DEF ReadState, Shape, At
<1>5. Functions'
  BY <1>1, <1>2, <1>3, <1>4 DEF Functions, Becomes, Looks, ChainIs
<1>6. Users' /\ Workers'
  BY <1>1, <1>2, <1>4 DEF Shape, Sets, Users, Quiet, At, Workers, Worker, Gens, Literals
<1>7. (Process /\ Records /\ WellFormed(writes))'
  BY <1>1, <1>2, <1>4 DEF Shape, Process, Records, WellFormed, Queues
<1>8. \A q \in Runtime \ {r} : Untouched(q)
  BY <1>1, <1>2, <1>3, <1>4 DEF Untouched, Shape, Functions, Becomes, ChainIs, Queues
<1>9. Owed(r)' /\ Quiet(r)'
  BY <1>1, <1>2, <1>3, <1>4
  DEF Owed, Becomes, Looks, Known, Literals, ChainIs, Queues, At, Quiet
<1>10. Ordered(r)'
  BY <1>1, <1>2, <1>3, <1>4
  DEF Ordered, Becomes, Looks, Known, Literals, ChainIs, Queues, At
<1>11. Disposing(r)' /\ Recorded(r)'
  BY <1>1, <1>2, <1>3, <1>4
  DEF Disposing, Becomes, Looks, Known, Literals, ChainIs, Queues, At, Recorded
<1>12. Keeps(r)'
  BY <1>1, <1>2, <1>3, <1>4
  DEF Keeps, Disposing, Recorded, Ready, Becomes, Looks, Known, Literals, ChainIs,
      Queues, At
<1>13. Served(r)'
  BY <1>1, <1>2, <1>3, <1>4
  DEF Served, Becomes, Looks, Known, Literals, ChainIs, Queues, At, Quiet
<1>14. Held(r)'
  BY <1>1, <1>2, <1>3, <1>4
  DEF Held, Left, Leaving, Ordered, Quiet, Becomes, Looks, Known, Literals, ChainIs,
      Queues, At
<1> QED
  BY <1>2, <1>5, <1>6, <1>7, <1>8, <1>9, <1>10, <1>11, <1>12, <1>13, <1>14, Touches
  DEF Shape, Sets, Local

\* The put of a suspension, a restart or a dispose ends: the job moves on,
\* written or not.
LEMMA JobPutStep ==
    ASSUME IInv, NEW ok \in BOOLEAN, NEW r \in Runtime, NEW k \in Kind \ {"delete"},
           StoreWrite(ok), Writes(r, k)
    PROVE  IInv'
<1>1. Shape /\ Functions /\ At(r)
  BY AtEach
<1>2. /\ Within(writes, r, k) /\ k # "checkpoint"
      /\ writes' = Tail(writes)
      /\ unwritten' = IF ~ok THEN unwritten \cup {r} ELSE unwritten
      /\ UNCHANGED <<phase, daemons, loaded, overtaken, runtimes, used, page, turn, kept,
                    deleted, hydration, starting, running, stopping, chain, file>>
  BY <1>1
  DEF At, StoreWrite, Writes, Kind, daemonVars, workerVars, storeVars, JobFrame,
      SwitchFrame, Safe, Stored
<1>3. r \in used /\ loaded /\ job[r][k].pc = "put"
  BY <1>1, <1>2 DEF Owed, Quiet, At
<1>4. Stores(r, TRUE, ok)
  <2>1. /\ store' = IF ~ok THEN store ELSE IF TRUE THEN Capped(Newest(r)) ELSE Others(r)
        /\ evicted' = IF TRUE /\ ok THEN (evicted \ {r}) \cup CutOff(Newest(r)) ELSE evicted
    BY DEF StoreWrite, Writes
  <2> QED
    BY <1>1, <2>1, StoresStep DEF Shape, At
<1>5. Becomes(r, rt[r].gen, rt[r].status, rt[r].handle, rt[r].suspended, IF ok THEN TRUE ELSE rt[r].saved)
  <2>1. Looks([rt[r] EXCEPT !.saved = TRUE], rt[r].gen, rt[r].status, rt[r].handle, rt[r].suspended, TRUE)
    BY <1>1, Updated DEF Known, Literals, At
  <2>2. CASE ok
    BY <1>1, <2>1, <2>2, TaskStep DEF StoreWrite, Writes, SavedIf, At
  <2>3. CASE ~ok
    BY <1>1, <2>3, TaskStays DEF StoreWrite, Writes, SavedIf, At
  <2> QED
    BY <2>2, <2>3
<1>6. /\ WellFormed(Tail(writes)) /\ ~Within(Tail(writes), r, k)
      /\ \A q \in Runtime, j \in Kinds : Within(Tail(writes), q, j) => Within(writes, q, j)
  BY <1>1, TailQueue DEF StoreWrite, Writes, Shape, At
<1>7. Moves(r, k, "stored")
  <2>1. "stored" \in JobState
    BY DEF JobState
  <2>2. job' = [job EXCEPT ![r][k].pc = "stored"]
    BY DEF StoreWrite, Writes, Kind
  <2> QED
    BY <1>1, <2>1, <2>2, PcStep DEF Literals, At
<1>8. Functions'
  BY <1>1, <1>2, <1>3, <1>4, <1>5, <1>6, <1>7 DEF Functions, Becomes, Looks, Moves
<1>9. Users' /\ Workers'
  BY <1>1, <1>2, <1>3, <1>4, <1>6
  DEF Shape, Sets, Users, Quiet, Known, Stores, Owed, Literals, At, Workers, Worker,
      Gens
<1>10. (Process /\ Records /\ WellFormed(writes))'
  BY <1>1, <1>2, <1>3, <1>4, <1>6 DEF Shape, Process, Records, Stores, At
<1>11. \A q \in Runtime \ {r} : Untouched(q)
  BY <1>1, <1>2, <1>3, <1>4, <1>5, <1>6, <1>7
  DEF Untouched, Functions, Becomes, Moves, Stores
<1>12. Owed(r)' /\ Quiet(r)'
  BY <1>1, <1>2, <1>3, <1>4, <1>5, <1>6, <1>7
  DEF Owed, Moves, Literals, Known, At, Quiet, Becomes, Looks
<1>13. Ordered(r)'
  BY <1>1, <1>2, <1>3, <1>4, <1>5, <1>6, <1>7
  DEF Ordered, Becomes, Looks, Moves, Known, Literals, At
<1>14. Disposing(r)' /\ Recorded(r)'
  BY <1>1, <1>2, <1>3, <1>4, <1>5, <1>6, <1>7
  DEF Disposing, Becomes, Looks, Moves, Known, Literals, At, Recorded, Owed, Stores,
      Safe
<1>15. Keeps(r)'
  BY <1>1, <1>2, <1>3, <1>4, <1>5, <1>6, <1>7
  DEF Keeps, Owed, Disposing, Recorded, Ready, Becomes, Looks, Moves, Known, Literals,
      Stores, At
<1>16. Served(r)'
  BY <1>1, <1>2, <1>3, <1>4, <1>5, <1>6, <1>7
  DEF Served, Becomes, Looks, Moves, Known, Literals, At, Quiet
<1>17. Held(r)'
  BY <1>1, <1>2, <1>3, <1>4, <1>5, <1>6, <1>7
  DEF Held, Left, Leaving, Ordered, Quiet, Becomes, Looks, Moves, Known, Literals, At
<1> QED
  BY <1>2, <1>8, <1>9, <1>10, <1>11, <1>12, <1>13, <1>14, <1>15, <1>16, <1>17, Touches
  DEF Shape, Sets, Local

\* The removal of a DELETE ends: the record is gone, or the DELETE fails.
LEMMA JobRemoveStep ==
    ASSUME IInv, NEW ok \in BOOLEAN, NEW r \in Runtime, StoreWrite(ok),
           Writes(r, "delete")
    PROVE  IInv'
<1>1. Shape /\ Functions /\ At(r)
  BY AtEach
<1>2. /\ Within(writes, r, "delete")
      /\ writes' = Tail(writes)
      /\ UNCHANGED rt
      /\ UNCHANGED <<phase, daemons, loaded, overtaken, runtimes, used, page, turn, kept,
                    unwritten, hydration, starting, running, stopping, chain, file>>
  BY <1>1
  DEF At, StoreWrite, Writes, daemonVars, workerVars, storeVars, JobFrame, SwitchFrame,
      Safe, Stored
<1>3. r \in used /\ loaded /\ job[r]["delete"].pc = "put"
  BY <1>1, <1>2 DEF Owed, Quiet, Literals, At
<1>4. Stores(r, FALSE, ok)
  <2>1. /\ store' = IF ~ok THEN store ELSE IF FALSE THEN Capped(Newest(r)) ELSE Others(r)
        /\ evicted' = IF FALSE /\ ok THEN (evicted \ {r}) \cup CutOff(Newest(r)) ELSE evicted
    BY DEF StoreWrite, Writes
  <2> QED
    BY <1>1, <2>1, StoresStep DEF Shape, At
<1>5. /\ WellFormed(Tail(writes)) /\ ~Within(Tail(writes), r, "delete")
      /\ \A q \in Runtime, j \in Kinds : Within(Tail(writes), q, j) => Within(writes, q, j)
  BY <1>1, TailQueue DEF StoreWrite, Writes, Shape, At
<1>6. Moves(r, "delete", IF ok THEN "stored" ELSE "idle")
  <2>1. (IF ok THEN "stored" ELSE "idle") \in JobState
    BY DEF JobState
  <2>2. job' = [job EXCEPT ![r]["delete"].pc = IF ok THEN "stored" ELSE "idle"]
    BY DEF StoreWrite, Writes
  <2> QED
    BY <1>1, <2>1, <2>2, PcStep DEF Literals, At
<1>7. r \in used /\ deleted' \subseteq deleted \cup {r}
  BY <1>1, <1>2 DEF StoreWrite, Writes, Owed, Quiet, Literals, At
<1>8. Functions'
  BY <1>1, <1>2, <1>3, <1>4, <1>5, <1>6, <1>7 DEF Functions, Moves
<1>9. Users' /\ Workers'
  BY <1>1, <1>2, <1>3, <1>4, <1>5, <1>7
  DEF Shape, Sets, Users, Quiet, Known, Stores, Owed, Literals, At, Workers, Worker,
      Gens
<1>10. (Process /\ Records /\ WellFormed(writes))'
  BY <1>1, <1>2, <1>3, <1>4, <1>5, <1>7 DEF Shape, Process, Records, Stores, At
<1>11. \A q \in Runtime \ {r} : Untouched(q)
  BY <1>1, <1>2, <1>3, <1>4, <1>5, <1>6, <1>7 DEF Untouched, Functions, Moves, Stores
<1>12. Owed(r)' /\ Quiet(r)'
  BY <1>1, <1>2, <1>3, <1>4, <1>5, <1>6, <1>7
  DEF Owed, Moves, Literals, Known, At, Quiet
<1>13. Ordered(r)'
  BY <1>1, <1>2, <1>3, <1>4, <1>5, <1>6, <1>7 DEF Ordered, Moves, Known, Literals, At
<1>14. Disposing(r)' /\ Recorded(r)'
  BY <1>1, <1>2, <1>3, <1>4, <1>5, <1>6, <1>7
  DEF Disposing, Moves, Known, Literals, At, Recorded, Owed, Stores, Safe
<1>15. Keeps(r)'
  BY <1>1, <1>2, <1>3, <1>4, <1>5, <1>6, <1>7
  DEF Keeps, Owed, Disposing, Recorded, Ready, Moves, Known, Literals, Stores, At
<1>16. Served(r)'
  BY <1>1, <1>2, <1>3, <1>4, <1>5, <1>6, <1>7
  DEF Served, Moves, Known, Literals, At, Quiet
<1>17. Held(r)'
  BY <1>1, <1>2, <1>3, <1>4, <1>5, <1>6, <1>7
  DEF Held, Left, Leaving, Ordered, Quiet, Moves, Known, Literals, At
<1> QED
  BY <1>2, <1>8, <1>9, <1>10, <1>11, <1>12, <1>13, <1>14, <1>15, <1>16, <1>17, Touches
  DEF Shape, Sets, Local

\* A checkpoint ends: the chain shortens and those who wait behind it wait for
\* one less.
LEMMA CheckpointPutStep ==
    ASSUME IInv, NEW ok \in BOOLEAN, NEW r \in Runtime, StoreWrite(ok),
           Writes(r, "checkpoint")
    PROVE  IInv'
<1>1. Shape /\ Functions /\ At(r)
  BY AtEach
<1>2. /\ Within(writes, r, "checkpoint")
      /\ unwritten' = IF ~ok THEN unwritten \cup {r} ELSE unwritten
      /\ UNCHANGED <<phase, daemons, loaded, overtaken, runtimes, used, page, turn, kept,
                    deleted, hydration, starting, running, stopping, file>>
  BY <1>1
  DEF At, StoreWrite, Writes, daemonVars, workerVars, storeVars, JobFrame, SwitchFrame,
      Safe, Stored
<1>3. Stores(r, TRUE, ok)
  <2>1. /\ store' = IF ~ok THEN store ELSE IF TRUE THEN Capped(Newest(r)) ELSE Others(r)
        /\ evicted' = IF TRUE /\ ok THEN (evicted \ {r}) \cup CutOff(Newest(r)) ELSE evicted
    BY DEF StoreWrite, Writes
  <2> QED
    BY <1>1, <2>1, StoresStep DEF Shape, At
<1>4. Becomes(r, rt[r].gen, rt[r].status, rt[r].handle, rt[r].suspended, IF ok THEN TRUE ELSE rt[r].saved)
  <2>1. Looks([rt[r] EXCEPT !.saved = TRUE], rt[r].gen, rt[r].status, rt[r].handle, rt[r].suspended, TRUE)
    BY <1>1, Updated DEF Known, Literals, At
  <2>2. CASE ok
    BY <1>1, <2>1, <2>2, TaskStep DEF StoreWrite, Writes, SavedIf, At
  <2>3. CASE ~ok
    BY <1>1, <2>3, TaskStays DEF StoreWrite, Writes, SavedIf, At
  <2> QED
    BY <2>2, <2>3
<1>5. /\ WellFormed(Tail(writes)) /\ ~Within(Tail(writes), r, "checkpoint")
      /\ \A q \in Runtime, j \in Kinds : Within(Tail(writes), q, j) => Within(writes, q, j)
  BY <1>1, TailQueue DEF StoreWrite, Writes, Shape, At
<1>6. /\ job' \in [Runtime -> [Kind -> Progress]] /\ \A q \in Runtime \ {r} : job'[q] = job[q]
      /\ \A k \in Kind : job'[r][k].pc = job[r][k].pc
  <2>1. ASSUME NEW k \in Kind
        PROVE  Nearer(job[r][k]) \in Progress /\ Nearer(job[r][k]).pc = job[r][k].pc
    <3>1. job[r][k] \in Progress
      BY <1>1 DEF Known, At
    <3>2. CASE job[r][k].ahead > 0
      <4>1. job[r][k].ahead - 1 \in Nat
        BY <3>1, <3>2 DEF Progress
      <4> QED
        BY <3>1, <4>1 DEF Progress, Nearer
    <3>3. CASE ~(job[r][k].ahead > 0)
      BY <3>1, <3>3 DEF Nearer
    <3> QED
      BY <3>2, <3>3
  <2>2. job' = [job EXCEPT ![r] = [k \in Kind |-> Nearer(job[r][k])]]
    BY DEF StoreWrite, Writes
  <2> QED
    BY <1>1, <2>1, <2>2 DEF Functions, At
<1>7. chain[r] > 0 /\ ChainIs(r, chain[r] - 1)
  <2>1. chain[r] > 0 /\ chain[r] - 1 \in Nat
    BY <1>1, <1>2 DEF Owed, Known, At
  <2>2. chain' = [chain EXCEPT ![r] = chain[r] - 1]
    BY DEF StoreWrite, Writes
  <2> QED
    BY <1>1, <2>1, <2>2, ChainStep DEF At
<1>8. /\ WellFormed(writes') /\ (chain[r] <= 1 => ~Within(writes', r, "checkpoint"))
      /\ \A q \in Runtime, j \in Kinds : Within(writes', q, j) => Within(writes, q, j)
  <2>1. writes' = IF chain[r] > 1 THEN Append(Tail(writes), Head(writes)) ELSE Tail(writes)
    BY DEF StoreWrite, Writes
  <2>2. CASE chain[r] > 1
    <3>1. /\ Head(writes) \in Message /\ Head(writes).id = r /\ Head(writes).by = "checkpoint"
          /\ (Head(writes).op = "remove" <=> Head(writes).by = "delete")
      BY <1>1, TailQueue DEF StoreWrite, Writes, Shape, At
    <3>2. /\ WellFormed(Append(Tail(writes), Head(writes)))
          /\ \A q \in Runtime, j \in Kinds : Within(Append(Tail(writes), Head(writes)), q, j)
                => Within(Tail(writes), q, j) \/ (q = r /\ j = "checkpoint")
      BY <1>5, <3>1, AppendQueue
    <3> QED
      BY <1>1, <1>2, <1>5, <2>1, <2>2, <3>2 DEF Known, At
  <2>3. CASE ~(chain[r] > 1)
    BY <1>1, <1>5, <2>1, <2>3 DEF At
  <2> QED
    BY <2>2, <2>3
<1>9. Functions'
  BY <1>1, <1>2, <1>3, <1>4, <1>5, <1>6, <1>7, <1>8
  DEF Functions, Becomes, Looks, ChainIs
<1>10. Users' /\ Workers'
  BY <1>1, <1>2, <1>3, <1>5, <1>6, <1>7, <1>8
  DEF Shape, Sets, Users, Quiet, Known, Stores, Owed, Literals, At, Workers, Worker,
      Gens
<1>11. (Process /\ Records /\ WellFormed(writes))'
  BY <1>1, <1>2, <1>3, <1>5, <1>6, <1>7, <1>8 DEF Shape, Process, Records, Stores, At
<1>12. \A q \in Runtime \ {r} : Untouched(q)
  BY <1>1, <1>2, <1>3, <1>4, <1>5, <1>6, <1>7, <1>8
  DEF Untouched, Functions, Becomes, ChainIs, Stores
<1>13. Owed(r)' /\ Quiet(r)'
  BY <1>1, <1>2, <1>3, <1>4, <1>5, <1>6, <1>7, <1>8
  DEF Owed, ChainIs, Literals, Known, At, Quiet, Becomes, Looks
<1>14. Ordered(r)'
  BY <1>1, <1>2, <1>3, <1>4, <1>5, <1>6, <1>7, <1>8
  DEF Ordered, Becomes, Looks, Known, Literals, ChainIs, At
<1>15. Disposing(r)' /\ Recorded(r)'
  BY <1>1, <1>2, <1>3, <1>4, <1>5, <1>6, <1>7, <1>8
  DEF Disposing, Becomes, Looks, Known, Literals, ChainIs, At, Recorded, Owed, Stores,
      Safe
<1>16. Keeps(r)'
  BY <1>1, <1>2, <1>3, <1>4, <1>5, <1>6, <1>7, <1>8
  DEF Keeps, Owed, Disposing, Recorded, Ready, Becomes, Looks, Known, Literals, Stores,
      At
<1>17. Served(r)'
  BY <1>1, <1>2, <1>3, <1>4, <1>5, <1>6, <1>7, <1>8
  DEF Served, Becomes, Looks, Known, Literals, ChainIs, At, Quiet
<1>18. Held(r)'
  BY <1>1, <1>2, <1>3, <1>4, <1>5, <1>6, <1>7, <1>8
  DEF Held, Left, Leaving, Ordered, Quiet, Becomes, Looks, Known, Literals, ChainIs, At
<1> QED
  BY <1>2, <1>9, <1>10, <1>11, <1>12, <1>13, <1>14, <1>15, <1>16, <1>17, <1>18, Touches
  DEF Shape, Sets, Local

\* One write of the tail, whoever put it there.
LEMMA StoreWriteStep ==
    ASSUME IInv, NEW ok \in BOOLEAN, StoreWrite(ok)
    PROVE  IInv'
<1>1. PICK r \in Runtime, k \in Kinds : Writes(r, k)
  BY HeadWrites DEF IInv, Shape, StoreWrite
<1>2. CASE k = "checkpoint"
  BY <1>1, <1>2, CheckpointPutStep
<1>3. CASE k = "delete"
  BY <1>1, <1>3, JobRemoveStep
<1>4. CASE k \in Kind \ {"delete"}
  BY <1>1, <1>4, JobPutStep
<1> QED
  BY <1>1, <1>2, <1>3, <1>4 DEF Kinds

-----------------------------------------------------------------------------
(* Suspension and restart.                                                 *)

\* A job whose chain has drained enters the tail.
LEMMA WaitedStep ==
    ASSUME IInv, NEW r \in Runtime, NEW k \in {"suspend", "restart"}, Waited(r, k)
    PROVE  IInv'
<1>1. Shape /\ Functions /\ At(r)
  BY AtEach
<1>2. /\ job[r][k].pc = "wait"
      /\ UNCHANGED rt
      /\ UNCHANGED <<phase, daemons, loaded, overtaken, runtimes, used, page, turn, kept,
                    unwritten, deleted, hydration, starting, running, stopping, chain,
                    store, evicted, file>>
      /\ Safe' = Safe /\ Stored' = Stored
  BY <1>1
  DEF At, Waited, daemonVars, workerVars, storeVars, JobFrame, SwitchFrame, Safe, Stored
<1>3. Moves(r, k, "put")
  <2>1. "put" \in JobState
    BY DEF JobState
  <2> QED
    BY <1>1, <2>1, PcStep DEF Waited, Literals, At
<1>4. Queues(r, k)
  <2>1. ~Within(writes, r, k) /\ k \in Kinds \ {"delete"}
    BY <1>1, <1>2 DEF Owed, Literals, At
  <2> QED
    BY <1>1, <2>1, PutQueued DEF Waited, Shape, At
<1>5. Functions'
  BY <1>1, <1>2, <1>3 DEF Functions, Moves
<1>6. Users' /\ Workers'
  BY <1>1, <1>2 DEF Shape, Sets, Users, Quiet, At, Workers, Worker, Gens, Literals
<1>7. (Process /\ Records /\ WellFormed(writes))'
  BY <1>1, <1>2, <1>4 DEF Shape, Process, Records, WellFormed, Queues
<1>8. \A q \in Runtime \ {r} : Untouched(q)
  BY <1>1, <1>2, <1>3, <1>4 DEF Untouched, Shape, Functions, Moves, Queues
<1>9. Owed(r)' /\ Quiet(r)'
  BY <1>1, <1>2, <1>3, <1>4 DEF Owed, Moves, Known, Literals, Queues, At, Quiet
<1>10. Ordered(r)'
  BY <1>1, <1>2, <1>3 DEF Ordered, Moves, Known, Literals, At
<1>11. Disposing(r)' /\ Recorded(r)'
  BY <1>1, <1>2, <1>3 DEF Disposing, Moves, Known, Literals, At, Recorded
<1>12. Keeps(r)'
  BY <1>1, <1>2, <1>3 DEF Keeps, Disposing, Recorded, Ready, Moves, Known, Literals, At
<1>13. Served(r)'
  BY <1>1, <1>2, <1>3 DEF Served, Moves, Known, Literals, At, Quiet
<1>14. Held(r)'
  BY <1>1, <1>2, <1>3
  DEF Held, Left, Leaving, Ordered, Quiet, Moves, Known, Literals, At
<1> QED
  BY <1>2, <1>5, <1>6, <1>7, <1>8, <1>9, <1>10, <1>11, <1>12, <1>13, <1>14, Touches
  DEF Shape, Sets, Local

\* The idle timer asks the Worker for its state.
LEMMA IdleTimerStep == ASSUME IInv, NEW r \in Runtime, IdleTimer(r) PROVE IInv'
<1>1. Shape /\ Functions /\ At(r)
  BY AtEach
<1>2. /\ Ready(r)
      /\ job[r]["suspend"].pc = "idle"
      /\ UNCHANGED rt
      /\ UNCHANGED <<phase, daemons, loaded, overtaken, runtimes, used, page, turn, kept,
                    unwritten, deleted, hydration, starting, running, stopping, chain,
                    writes, store, evicted, file>>
      /\ Safe' = Safe /\ Stored' = Stored
  BY <1>1
  DEF At, IdleTimer, daemonVars, workerVars, storeVars, JobFrame, SwitchFrame, Safe,
      Stored
<1>3. Moves(r, "suspend", "probe")
  <2>1. "probe" \in JobState /\ 0 \in Nat
    BY DEF JobState
  <2> QED
    BY <1>1, <2>1, JobStep DEF IdleTimer, Literals, Known, At
<1>4. Functions'
  BY <1>1, <1>2, <1>3 DEF Functions, Moves
<1>5. Users' /\ Workers'
  BY <1>1, <1>2 DEF Shape, Sets, Users, Quiet, At, Workers, Worker, Gens, Literals
<1>6. (Process /\ Records /\ WellFormed(writes))'
  BY <1>1, <1>2 DEF Shape, Process, Records, WellFormed
<1>7. \A q \in Runtime \ {r} : Untouched(q)
  BY <1>1, <1>2, <1>3 DEF Untouched, Shape, Functions, Moves
<1>8. Owed(r)' /\ Quiet(r)'
  BY <1>1, <1>2, <1>3 DEF Owed, Moves, Known, Literals, At, Quiet, Ready
<1>9. Ordered(r)'
  BY <1>1, <1>2, <1>3 DEF Ordered, Moves, Known, Literals, At
<1>10. Disposing(r)' /\ Recorded(r)'
  BY <1>1, <1>2, <1>3 DEF Disposing, Moves, Known, Literals, At, Recorded
<1>11. Keeps(r)'
  BY <1>1, <1>2, <1>3 DEF Keeps, Disposing, Recorded, Ready, Moves, Known, Literals, At
<1>12. Served(r)'
  BY <1>1, <1>2, <1>3 DEF Served, Moves, Known, Literals, At, Quiet
<1>13. Held(r)'
  BY <1>1, <1>2, <1>3
  DEF Held, Left, Leaving, Ordered, Quiet, Moves, Known, Literals, At
<1> QED
  BY <1>2, <1>4, <1>5, <1>6, <1>7, <1>8, <1>9, <1>10, <1>11, <1>12, <1>13, Touches
  DEF Shape, Sets, Local

\* An idle Worker with a session is checkpointed before it is suspended.
LEMMA IdleProbedStep == ASSUME IInv, NEW r \in Runtime, IdleProbed(r), StillThere(r, job[r]["suspend"].w) /\ <<r, job[r]["suspend"].w>> \in running
           /\ r \notin turn /\ file[r] # NoPath PROVE IInv'
<1>1. Shape /\ Functions /\ At(r)
  BY AtEach
<1>2. /\ job[r]["suspend"].pc = "probe"
      /\ UNCHANGED <<phase, daemons, loaded, overtaken, runtimes, used, page, turn, kept,
                    unwritten, deleted, hydration, starting, running, stopping, chain,
                    store, evicted, file>>
      /\ Safe' = Safe /\ Stored' = Stored
  BY <1>1
  DEF At, IdleProbed, Checkpoint, daemonVars, workerVars, storeVars, JobFrame,
      SwitchFrame, Safe, Stored
<1>3. /\ Becomes(r, rt[r].gen, rt[r].status, rt[r].handle, rt[r].suspended, rt[r].saved)
      /\ Moves(r, "suspend", IF chain[r] = 0 THEN "put" ELSE "wait")
      /\ Queues(r, "suspend") /\ (chain[r] # 0 => writes' = writes)
  <2>1. job[r]["suspend"].w \in Nat
    BY <1>1 DEF Known, Literals, Progress, At
  <2> QED
    BY <1>1, <1>2, <2>1, JobCheckpointed DEF IdleProbed, Literals, Shape, At
<1>4. Functions'
  BY <1>1, <1>2, <1>3 DEF Functions, Becomes, Looks, Moves
<1>5. Users' /\ Workers'
  BY <1>1, <1>2, <1>3 DEF Shape, Sets, Users, Quiet, At, Workers, Worker, Gens, Literals
<1>6. (Process /\ Records /\ WellFormed(writes))'
  BY <1>1, <1>2, <1>3 DEF Shape, Process, Records, WellFormed, Queues
<1>7. \A q \in Runtime \ {r} : Untouched(q)
  BY <1>1, <1>2, <1>3 DEF Untouched, Shape, Functions, Becomes, Moves, Queues
<1>8. Owed(r)' /\ Quiet(r)'
  BY <1>1, <1>2, <1>3
  DEF Owed, Becomes, Looks, Moves, Known, Literals, Queues, At, Quiet
<1>9. Ordered(r)'
  BY <1>1, <1>2, <1>3 DEF Ordered, Becomes, Looks, Moves, Known, Literals, Queues, At
<1>10. Disposing(r)' /\ Recorded(r)'
  BY <1>1, <1>2, <1>3
  DEF Disposing, Becomes, Looks, Moves, Known, Literals, Queues, At, Recorded
<1>11. Keeps(r)'
  BY <1>1, <1>2, <1>3
  DEF Keeps, Disposing, Recorded, Ready, Becomes, Looks, Moves, Known, Literals, Queues,
      At
<1>12. Served(r)'
  BY <1>1, <1>2, <1>3
  DEF Served, Becomes, Looks, Moves, Known, Literals, Queues, At, Quiet
<1>13. Held(r)'
  BY <1>1, <1>2, <1>3
  DEF Held, Left, Leaving, Ordered, Quiet, Becomes, Looks, Moves, Known, Literals,
      Queues, At
<1> QED
  BY <1>2, <1>4, <1>5, <1>6, <1>7, <1>8, <1>9, <1>10, <1>11, <1>12, <1>13, Touches
  DEF Shape, Sets, Local

\* One that is gone or busy is left alone.
LEMMA IdleProbedBusyStep == ASSUME IInv, NEW r \in Runtime, IdleProbed(r), ~(StillThere(r, job[r]["suspend"].w) /\ <<r, job[r]["suspend"].w>> \in running
           /\ r \notin turn /\ file[r] # NoPath) PROVE IInv'
<1>1. Shape /\ Functions /\ At(r)
  BY AtEach
<1>2. /\ job[r]["suspend"].pc = "probe"
      /\ UNCHANGED rt
      /\ UNCHANGED <<phase, daemons, loaded, overtaken, runtimes, used, page, turn, kept,
                    unwritten, deleted, hydration, starting, running, stopping, chain,
                    writes, store, evicted, file>>
      /\ Safe' = Safe /\ Stored' = Stored
  BY <1>1
  DEF At, IdleProbed, daemonVars, workerVars, storeVars, JobFrame, SwitchFrame, Safe,
      Stored
<1>3. Moves(r, "suspend", "idle")
  <2>1. "idle" \in JobState /\ 0 \in Nat
    BY DEF JobState
  <2> QED
    BY <1>1, <2>1, JobStep DEF IdleProbed, NoJob, Literals, At
<1>4. Functions'
  BY <1>1, <1>2, <1>3 DEF Functions, Moves
<1>5. Users' /\ Workers'
  BY <1>1, <1>2 DEF Shape, Sets, Users, Quiet, At, Workers, Worker, Gens, Literals
<1>6. (Process /\ Records /\ WellFormed(writes))'
  BY <1>1, <1>2 DEF Shape, Process, Records, WellFormed
<1>7. \A q \in Runtime \ {r} : Untouched(q)
  BY <1>1, <1>2, <1>3 DEF Untouched, Shape, Functions, Moves
<1>8. Owed(r)' /\ Quiet(r)'
  BY <1>1, <1>2, <1>3 DEF Owed, Moves, Known, Literals, At, Quiet
<1>9. Ordered(r)'
  BY <1>1, <1>2, <1>3 DEF Ordered, Moves, Known, Literals, At
<1>10. Disposing(r)' /\ Recorded(r)'
  BY <1>1, <1>2, <1>3 DEF Disposing, Moves, Known, Literals, At, Recorded
<1>11. Keeps(r)'
  BY <1>1, <1>2, <1>3 DEF Keeps, Disposing, Recorded, Ready, Moves, Known, Literals, At
<1>12. Served(r)'
  BY <1>1, <1>2, <1>3 DEF Served, Moves, Known, Literals, At, Quiet
<1>13. Held(r)'
  BY <1>1, <1>2, <1>3
  DEF Held, Left, Leaving, Ordered, Quiet, Moves, Known, Literals, At
<1> QED
  BY <1>2, <1>4, <1>5, <1>6, <1>7, <1>8, <1>9, <1>10, <1>11, <1>12, <1>13, Touches
  DEF Shape, Sets, Local

\* A suspended runtime is marked so: it looks ready, has no handle and may be
\* hydrated.
LEMMA SuspendStep == ASSUME IInv, NEW r \in Runtime, Suspend(r) PROVE IInv'
<1>1. Shape /\ Functions /\ At(r)
  BY AtEach
<1>2. /\ job[r]["suspend"].pc = "stored"
      /\ running' = running \ {<<r, job[r]["suspend"].w>>}
      /\ stopping' = stopping \cup ({<<r, job[r]["suspend"].w>>} \cap running)
      /\ turn' = turn \ {r}
      /\ UNCHANGED <<phase, daemons, loaded, runtimes, used, page, kept, unwritten, deleted,
                    hydration, starting, chain, writes, store, evicted, file>>
      /\ overtaken' = IF rt[r].handle \notin {0, job[r]["suspend"].w} \/ Leaving(r)
                      THEN overtaken \cup {r} ELSE overtaken
      /\ Safe' = Safe /\ Stored' = Stored
  BY <1>1
  DEF At, Suspend, Notes, StopWorker, daemonVars, workerVars, storeVars, JobFrame,
      SwitchFrame, Safe, Stored
<1>3. Becomes(r, rt[r].gen + 1, "ready", 0, TRUE, rt[r].saved)
  BY <1>1, Updated, TaskStep DEF Suspend, Hibernated, Known, Literals, At
<1>4. Moves(r, "suspend", "idle")
  <2>1. "idle" \in JobState /\ 0 \in Nat
    BY DEF JobState
  <2> QED
    BY <1>1, <2>1, JobStep DEF Suspend, NoJob, Literals, At
<1>5. Functions'
  BY <1>1, <1>2, <1>3, <1>4 DEF Functions, Becomes, Looks, Moves
<1>6. Users' /\ Workers'
  BY <1>1, <1>2 DEF Shape, Sets, Users, Quiet, At, Workers, Worker, Gens, Literals
<1>7. (Process /\ Records /\ WellFormed(writes))'
  BY <1>1, <1>2 DEF Shape, Process, Records, WellFormed
<1>8. \A q \in Runtime \ {r} : Untouched(q)
  BY <1>1, <1>2, <1>3, <1>4 DEF Untouched, Shape, Functions, Becomes, Moves
<1>9. Owed(r)' /\ Quiet(r)'
  BY <1>1, <1>2, <1>3, <1>4 DEF Owed, Becomes, Looks, Moves, Known, Literals, At, Quiet
<1>10. Ordered(r)'
  BY <1>1, <1>2, <1>3, <1>4 DEF Ordered, Becomes, Looks, Moves, Known, Literals, At
<1>11. Disposing(r)' /\ Recorded(r)'
  BY <1>1, <1>2, <1>3, <1>4
  DEF Disposing, Becomes, Looks, Moves, Known, Literals, At, Recorded
<1>12. Keeps(r)'
  BY <1>1, <1>2, <1>3, <1>4
  DEF Keeps, Disposing, Recorded, Ready, Becomes, Looks, Moves, Known, Literals, At
<1>13. Served(r)'
  BY <1>1, <1>2, <1>3, <1>4
  DEF Served, Becomes, Looks, Moves, Known, Literals, At, Quiet
<1>14. Held(r)'
  BY <1>1, <1>2, <1>3, <1>4
  DEF Held, Left, Leaving, Ordered, Quiet, Becomes, Looks, Moves, Known, Literals, At
<1> QED
  BY <1>2, <1>5, <1>6, <1>7, <1>8, <1>9, <1>10, <1>11, <1>12, <1>13, <1>14, Touches
  DEF Shape, Sets, Local

\* A snapshot that finds the disk ahead asks the Worker for its window.
LEMMA DiskAheadStep == ASSUME IInv, NEW r \in Runtime, DiskAhead(r) PROVE IInv'
<1>1. Shape /\ Functions /\ At(r)
  BY AtEach
<1>2. /\ r \in runtimes
      /\ job[r]["restart"].pc = "idle"
      /\ UNCHANGED rt
      /\ UNCHANGED <<phase, daemons, loaded, overtaken, runtimes, used, page, turn, kept,
                    unwritten, deleted, hydration, starting, running, stopping, chain,
                    writes, store, evicted, file>>
      /\ Safe' = Safe /\ Stored' = Stored
  BY <1>1
  DEF At, DiskAhead, daemonVars, workerVars, storeVars, JobFrame, SwitchFrame, Safe,
      Stored
<1>3. Moves(r, "restart", "probe")
  <2>1. "probe" \in JobState /\ 0 \in Nat
    BY DEF JobState
  <2> QED
    BY <1>1, <2>1, JobStep DEF DiskAhead, Literals, Known, At
<1>4. Functions'
  BY <1>1, <1>2, <1>3 DEF Functions, Moves
<1>5. Users' /\ Workers'
  BY <1>1, <1>2 DEF Shape, Sets, Users, Quiet, At, Workers, Worker, Gens, Literals
<1>6. (Process /\ Records /\ WellFormed(writes))'
  BY <1>1, <1>2 DEF Shape, Process, Records, WellFormed
<1>7. \A q \in Runtime \ {r} : Untouched(q)
  BY <1>1, <1>2, <1>3 DEF Untouched, Shape, Functions, Moves
<1>8. Owed(r)' /\ Quiet(r)'
  BY <1>1, <1>2, <1>3 DEF Owed, Moves, Known, Literals, At, Quiet
<1>9. Ordered(r)'
  BY <1>1, <1>2, <1>3 DEF Ordered, Moves, Known, Literals, At
<1>10. Disposing(r)' /\ Recorded(r)'
  BY <1>1, <1>2, <1>3 DEF Disposing, Moves, Known, Literals, At, Recorded
<1>11. Keeps(r)'
  BY <1>1, <1>2, <1>3 DEF Keeps, Disposing, Recorded, Ready, Moves, Known, Literals, At
<1>12. Served(r)'
  BY <1>1, <1>2, <1>3 DEF Served, Moves, Known, Literals, At, Quiet
<1>13. Held(r)'
  BY <1>1, <1>2, <1>3
  DEF Held, Left, Leaving, Ordered, Quiet, Moves, Known, Literals, At
<1> QED
  BY <1>2, <1>4, <1>5, <1>6, <1>7, <1>8, <1>9, <1>10, <1>11, <1>12, <1>13, Touches
  DEF Shape, Sets, Local

\* Answered, it checkpoints the session and schedules a restart, or neither.
LEMMA ScheduleRestartStep ==
    ASSUME IInv, NEW r \in Runtime, ScheduleRestart(r)
    PROVE  IInv'
<1>1. Shape /\ Functions /\ At(r)
  BY AtEach
<1>2. /\ job[r]["restart"].pc = "probe"
      /\ UNCHANGED <<phase, daemons, loaded, overtaken, runtimes, used, page, turn, kept,
                    unwritten, deleted, starting, running, stopping, store, evicted, file>>
      /\ Safe' = Safe /\ Stored' = Stored
  BY <1>1
  DEF At, ScheduleRestart, daemonVars, workerVars, storeVars, JobFrame, SwitchFrame,
      Safe, Stored
<1>3. Becomes(r, rt[r].gen, rt[r].status, rt[r].handle, rt[r].suspended, rt[r].saved)
  <2>1. Looks([rt[r] EXCEPT !.path = file[r]], rt[r].gen, rt[r].status, rt[r].handle, rt[r].suspended, rt[r].saved)
    BY <1>1, Updated DEF Known, Literals, At
  <2>2. rt' = [rt EXCEPT ![r].path = file[r]] \/ rt' = rt
    BY DEF ScheduleRestart
  <2> QED
    BY <1>1, <2>1, <2>2, TaskStep, TaskStays DEF At
<1>4. ChainIs(r, IF Adopts(r) THEN chain[r] + 1 ELSE chain[r])
  <2>1. /\ (IF Adopts(r) THEN chain[r] + 1 ELSE chain[r]) \in Nat
        /\ chain[r] + (IF Adopts(r) THEN 1 ELSE 0) = IF Adopts(r) THEN chain[r] + 1 ELSE chain[r]
    BY <1>1 DEF Known, At
  <2>2. chain' = [chain EXCEPT ![r] = chain[r] + (IF Adopts(r) THEN 1 ELSE 0)]
    BY DEF ScheduleRestart, Adopts
  <2> QED
    BY <1>1, <2>1, <2>2, ChainStep DEF At
<1>5. HydrationIs(r, IF Restarts(r) THEN rt[r].handle ELSE hydration[r])
  <2>1. (IF Restarts(r) THEN rt[r].handle ELSE hydration[r]) \in 0..MaxGen
    BY <1>1 DEF Known, At
  <2>2. hydration' = [hydration EXCEPT ![r] = IF Restarts(r) THEN rt[r].handle ELSE hydration[r]]
    BY <1>1 DEF ScheduleRestart, Restarts, StillThere, Functions, At
  <2> QED
    BY <1>1, <2>1, <2>2, HydrationStep DEF At
<1>6. \/ Moves(r, "restart", "idle") /\ ~Restarts(r)
      \/ Moves(r, "restart", "wait") /\ Restarts(r) /\ (Adopts(r) \/ chain[r] # 0)
      \/ Moves(r, "restart", "put") /\ Restarts(r) /\ ~Adopts(r) /\ chain[r] = 0
  <2> DEFINE ahead == chain[r] + (IF Adopts(r) THEN 1 ELSE 0)
  <2>1. /\ ahead \in Nat /\ (ahead = 0 <=> ~Adopts(r) /\ chain[r] = 0)
        /\ job[r]["restart"].w \in Nat /\ {"idle", "wait", "put"} \subseteq JobState
    BY <1>1 DEF Known, Literals, Progress, JobState, At
  <2>2. job' = [job EXCEPT ![r]["restart"] =
                  IF Restarts(r) THEN [pc |-> IF ahead = 0 THEN "put" ELSE "wait",
                                       w |-> job[r]["restart"].w, ahead |-> ahead] ELSE NoJob]
    BY DEF ScheduleRestart, Adopts, Restarts
  <2> HIDE DEF ahead
  <2>3. CASE ~Restarts(r)
    BY <1>1, <2>1, <2>2, <2>3, JobStep DEF NoJob, Literals, At
  <2>4. CASE Restarts(r) /\ ahead # 0
    <3>1. job' = [job EXCEPT ![r]["restart"] = [pc |-> "wait", w |-> job[r]["restart"].w, ahead |-> ahead]]
      BY <2>2, <2>4
    <3> QED
      BY <1>1, <2>1, <2>4, <3>1, JobStep DEF Literals, At
  <2>5. CASE Restarts(r) /\ ahead = 0
    <3>1. job' = [job EXCEPT ![r]["restart"] = [pc |-> "put", w |-> job[r]["restart"].w, ahead |-> ahead]]
      BY <2>2, <2>5
    <3>2. "put" \in JobState /\ "restart" \in Kind
      BY <1>1, <2>1 DEF Literals, At
    <3>3. Moves(r, "restart", "put")
      BY <1>1, <2>1, <3>2, <3>1, JobStep, ZenonT(60) DEF At
    <3> QED
      BY <2>1, <2>5, <3>3
  <2> QED
    BY <2>3, <2>4, <2>5
<1>7. /\ Adopts(r) => Queues(r, "checkpoint")
      /\ ~Adopts(r) /\ Restarts(r) /\ chain[r] = 0 => Queues(r, "restart")
      /\ ~Adopts(r) /\ ~(Restarts(r) /\ chain[r] = 0) => writes' = writes
  <2> DEFINE ahead == chain[r] + (IF Adopts(r) THEN 1 ELSE 0)
             told == IF Adopts(r) THEN Append(writes, Put(r, "checkpoint")) ELSE writes
  <2>1. ahead = 0 <=> ~Adopts(r) /\ chain[r] = 0
    BY <1>1 DEF Known, At
  <2>2. writes' = IF Restarts(r) /\ ahead = 0 THEN Append(told, Put(r, "restart")) ELSE told
    BY DEF ScheduleRestart, Adopts, Restarts
  <2> HIDE DEF ahead
  <2>3. ASSUME Adopts(r) PROVE Queues(r, "checkpoint")
    <3>1. writes' = Append(writes, Put(r, "checkpoint")) /\ chain[r] = 0
      BY <2>1, <2>2, <2>3 DEF Adopts, Unadopted
    <3>2. ~Within(writes, r, "checkpoint") /\ "checkpoint" \in Kinds \ {"delete"}
      BY <1>1, <3>1 DEF Owed, Literals, At
    <3> QED
      BY <1>1, <3>1, <3>2, PutQueued DEF Shape, At
  <2>4. ASSUME ~Adopts(r), Restarts(r), chain[r] = 0 PROVE Queues(r, "restart")
    <3>1. writes' = Append(writes, Put(r, "restart"))
      BY <2>1, <2>2, <2>4
    <3>2. ~Within(writes, r, "restart") /\ "restart" \in Kinds \ {"delete"}
      BY <1>1, <1>2 DEF Owed, Literals, At
    <3> QED
      BY <1>1, <3>1, <3>2, PutQueued DEF Shape, At
  <2>5. ~Adopts(r) /\ ~(Restarts(r) /\ chain[r] = 0) => writes' = writes
    BY <2>1, <2>2
  <2> QED
    BY <2>3, <2>4, <2>5
<1>8. Functions'
  BY <1>1, <1>2, <1>3, <1>4, <1>5, <1>6, <1>7
  DEF Functions, Becomes, Looks, Moves, HydrationIs, ChainIs
<1>9. Users' /\ Workers'
  BY <1>1, <1>2, <1>6, <1>7
  DEF Shape, Sets, Users, Quiet, At, Workers, Worker, Gens, Literals
<1>10. (Process /\ Records /\ WellFormed(writes))'
  BY <1>1, <1>2, <1>6, <1>7 DEF Shape, Process, Records, WellFormed, Queues
<1>11. \A q \in Runtime \ {r} : Untouched(q)
  BY <1>1, <1>2, <1>3, <1>4, <1>5, <1>6, <1>7
  DEF Untouched, Shape, Functions, Becomes, Moves, HydrationIs, ChainIs, Queues
<1>12. Owed(r)' /\ Quiet(r)'
  BY <1>1, <1>2, <1>3, <1>4, <1>5, <1>6, <1>7
  DEF Owed, Becomes, Looks, Moves, Known, Literals, HydrationIs, ChainIs, Queues, At,
      Quiet
<1>13. Ordered(r)'
  BY <1>1, <1>2, <1>3, <1>5, <1>6, <1>7
  DEF Ordered, Becomes, Looks, Moves, Known, Literals, HydrationIs, Queues, At
<1>14. Disposing(r)' /\ Recorded(r)'
  BY <1>1, <1>2, <1>3, <1>6, <1>7
  DEF Disposing, Becomes, Looks, Moves, Known, Literals, Queues, At, Recorded
<1>15. Keeps(r)'
  BY <1>1, <1>2, <1>3, <1>6, <1>7
  DEF Keeps, Disposing, Recorded, Ready, Becomes, Looks, Moves, Known, Literals, Queues,
      At
<1>16. Served(r)'
  BY <1>1, <1>2, <1>3, <1>6, <1>7
  DEF Served, Becomes, Looks, Moves, Known, Literals, Queues, At, Quiet
<1>17. Held(r)'
  BY <1>1, <1>2, <1>3, <1>6, <1>7, <1>5
  DEF Held, Left, Leaving, Ordered, Quiet, Becomes, Looks, Moves, Known, Literals,
      Queues, At, HydrationIs
<1> QED
  BY <1>2, <1>8, <1>9, <1>10, <1>11, <1>12, <1>13, <1>14, <1>15, <1>16, <1>17, Touches
  DEF Shape, Sets, Local

\* A restart takes its runtime out of readiness before the old Worker is told
\* to stop.
LEMMA RestartStep == ASSUME IInv, NEW r \in Runtime, Restart(r) PROVE IInv'
<1>1. Shape /\ Functions /\ At(r)
  BY AtEach
<1>2. /\ job[r]["restart"].pc = "stored" /\ rt[r].gen + 1 \in Gens
      /\ turn' = turn \ {r} /\ running' = running \ {<<r, job[r]["restart"].w>>}
      /\ stopping' = stopping \cup ({<<r, job[r]["restart"].w>>} \cap running)
      /\ UNCHANGED <<phase, daemons, loaded, runtimes, used, page, kept, unwritten, deleted,
                    starting, chain, writes, store, evicted, file>>
      /\ overtaken' = IF rt[r].handle \notin {0, job[r]["restart"].w} \/ Leaving(r)
                      THEN overtaken \cup {r} ELSE overtaken
      /\ Safe' = Safe /\ Stored' = Stored
  BY <1>1
  DEF At, Restart, Notes, StopWorker, Literals, Known, Gens, daemonVars, workerVars,
      storeVars, JobFrame, SwitchFrame, Safe, Stored
<1>3. Becomes(r, rt[r].gen + 1, "initializing", 0, FALSE, rt[r].saved)
  BY <1>1, Updated, TaskStep DEF Restart, Prepare, Known, Literals, At
<1>4. HydrationIs(r, rt[r].gen + 1)
  <2>1. rt[r].gen + 1 \in 0..MaxGen
    BY <1>1, <1>2 DEF Known, Literals, Gens, At
  <2> QED
    BY <1>1, <2>1, HydrationStep DEF Restart, At
<1>5. Moves(r, "restart", "ending")
  <2>1. "ending" \in JobState
    BY DEF JobState
  <2> QED
    BY <1>1, <2>1, PcStep DEF Restart, Literals, At
<1>6. Functions'
  BY <1>1, <1>2, <1>3, <1>4, <1>5 DEF Functions, Becomes, Looks, Moves, HydrationIs
<1>7. Users' /\ Workers'
  BY <1>1, <1>2 DEF Shape, Sets, Users, Quiet, At, Workers, Worker, Gens, Literals
<1>8. (Process /\ Records /\ WellFormed(writes))'
  BY <1>1, <1>2 DEF Shape, Process, Records, WellFormed
<1>9. \A q \in Runtime \ {r} : Untouched(q)
  BY <1>1, <1>2, <1>3, <1>4, <1>5
  DEF Untouched, Shape, Functions, Becomes, Moves, HydrationIs
<1>10. Owed(r)' /\ Quiet(r)'
  BY <1>1, <1>2, <1>3, <1>4, <1>5
  DEF Owed, Becomes, Looks, Moves, Known, Literals, HydrationIs, At, Quiet
<1>11. Ordered(r)'
  BY <1>1, <1>2, <1>3, <1>4, <1>5
  DEF Ordered, Becomes, Looks, Moves, Known, Literals, HydrationIs, At
<1>12. Disposing(r)' /\ Recorded(r)'
  BY <1>1, <1>2, <1>3, <1>5
  DEF Disposing, Becomes, Looks, Moves, Known, Literals, At, Recorded
<1>13. Keeps(r)'
  BY <1>1, <1>2, <1>3, <1>5
  DEF Keeps, Disposing, Recorded, Ready, Becomes, Looks, Moves, Known, Literals, At
<1>14. Served(r)'
  BY <1>1, <1>2, <1>3, <1>5
  DEF Served, Becomes, Looks, Moves, Known, Literals, At, Quiet
<1>15. Held(r)'
  BY <1>1, <1>2, <1>3, <1>5, <1>4
  DEF Held, Left, Leaving, Ordered, Quiet, Becomes, Looks, Moves, Known, Literals, At,
      HydrationIs
<1> QED
  BY <1>2, <1>6, <1>7, <1>8, <1>9, <1>10, <1>11, <1>12, <1>13, <1>14, <1>15, Touches
  DEF Shape, Sets, Local

\* The old Worker gone, the restart starts its own generation.
LEMMA RestartStartsCurrentStep ==
    ASSUME IInv, NEW r \in Runtime, RestartStarts(r), rt[r].gen = hydration[r]
    PROVE  IInv'
<1>1. Shape /\ Functions /\ At(r)
  BY AtEach
<1>2. /\ job[r]["restart"].pc = "ending"
      /\ starting' = starting \cup {<<r, hydration[r]>>}
      /\ UNCHANGED rt
      /\ UNCHANGED <<phase, daemons, loaded, overtaken, runtimes, used, page, turn, kept,
                    unwritten, deleted, hydration, running, stopping, chain, writes, store,
                    evicted, file>>
      /\ Safe' = Safe /\ Stored' = Stored
  BY <1>1
  DEF At, RestartStarts, StartGen, daemonVars, workerVars, storeVars, JobFrame,
      SwitchFrame, Safe, Stored
<1>3. Moves(r, "restart", "idle")
  <2>1. "idle" \in JobState /\ 0 \in Nat
    BY DEF JobState
  <2> QED
    BY <1>1, <2>1, JobStep DEF RestartStarts, NoJob, Literals, At
<1>4. hydration[r] \in Gens
  BY <1>1, <1>2 DEF Ordered, Known, Gens, Literals, At
<1>5. Functions'
  BY <1>1, <1>2, <1>3, <1>4 DEF Functions, Moves
<1>6. Users' /\ Workers'
  BY <1>1, <1>2, <1>4 DEF Shape, Sets, Users, Quiet, At, Workers, Worker, Gens, Literals
<1>7. (Process /\ Records /\ WellFormed(writes))'
  BY <1>1, <1>2, <1>4 DEF Shape, Process, Records, WellFormed
<1>8. \A q \in Runtime \ {r} : Untouched(q)
  BY <1>1, <1>2, <1>3, <1>4 DEF Untouched, Shape, Functions, Moves
<1>9. Owed(r)' /\ Quiet(r)'
  BY <1>1, <1>2, <1>3, <1>4 DEF Owed, Moves, Known, Literals, At, Quiet
<1>10. Ordered(r)'
  BY <1>1, <1>2, <1>3, <1>4 DEF Ordered, Moves, Known, Literals, At
<1>11. Disposing(r)' /\ Recorded(r)'
  BY <1>1, <1>2, <1>3, <1>4 DEF Disposing, Moves, Known, Literals, At, Recorded
<1>12. Keeps(r)'
  BY <1>1, <1>2, <1>3, <1>4
  DEF Keeps, Disposing, Recorded, Ready, Moves, Known, Literals, At
<1>13. Served(r)'
  BY <1>1, <1>2, <1>3, <1>4 DEF Served, Moves, Known, Literals, At, Quiet
<1>14. Held(r)'
  BY <1>1, <1>2, <1>3, <1>4
  DEF Held, Left, Leaving, Ordered, Quiet, Moves, Known, Literals, At
<1> QED
  BY <1>2, <1>5, <1>6, <1>7, <1>8, <1>9, <1>10, <1>11, <1>12, <1>13, <1>14, Touches
  DEF Shape, Sets, Local

\* A restart overtaken by a termination starts nothing.
LEMMA RestartStartsStaleStep ==
    ASSUME IInv, NEW r \in Runtime, RestartStarts(r), rt[r].gen # hydration[r]
    PROVE  IInv'
<1>1. Shape /\ Functions /\ At(r)
  BY AtEach
<1>2. /\ job[r]["restart"].pc = "ending"
      /\ UNCHANGED rt
      /\ UNCHANGED <<phase, daemons, loaded, overtaken, runtimes, used, page, turn, kept,
                    unwritten, deleted, starting, running, stopping, chain, writes, store,
                    evicted, file>>
      /\ Safe' = Safe /\ Stored' = Stored
  BY <1>1
  DEF At, RestartStarts, StartGen, daemonVars, workerVars, storeVars, JobFrame,
      SwitchFrame, Safe, Stored
<1>3. Moves(r, "restart", "idle")
  <2>1. "idle" \in JobState /\ 0 \in Nat
    BY DEF JobState
  <2> QED
    BY <1>1, <2>1, JobStep DEF RestartStarts, NoJob, Literals, At
<1>4. HydrationIs(r, 0)
  BY <1>1, HydrationStep DEF RestartStarts, StartGen, Literals, At
<1>5. Functions'
  BY <1>1, <1>2, <1>3, <1>4 DEF Functions, Moves, HydrationIs
<1>6. Users' /\ Workers'
  BY <1>1, <1>2 DEF Shape, Sets, Users, Quiet, At, Workers, Worker, Gens, Literals
<1>7. (Process /\ Records /\ WellFormed(writes))'
  BY <1>1, <1>2 DEF Shape, Process, Records, WellFormed
<1>8. \A q \in Runtime \ {r} : Untouched(q)
  BY <1>1, <1>2, <1>3, <1>4 DEF Untouched, Shape, Functions, Moves, HydrationIs
<1>9. Owed(r)' /\ Quiet(r)'
  BY <1>1, <1>2, <1>3, <1>4 DEF Owed, Moves, Known, Literals, HydrationIs, At, Quiet
<1>10. Ordered(r)'
  BY <1>1, <1>2, <1>3, <1>4 DEF Ordered, Moves, Known, Literals, HydrationIs, At
<1>11. Disposing(r)' /\ Recorded(r)'
  BY <1>1, <1>2, <1>3 DEF Disposing, Moves, Known, Literals, At, Recorded
<1>12. Keeps(r)'
  BY <1>1, <1>2, <1>3 DEF Keeps, Disposing, Recorded, Ready, Moves, Known, Literals, At
<1>13. Served(r)'
  BY <1>1, <1>2, <1>3 DEF Served, Moves, Known, Literals, At, Quiet
<1>14. Held(r)'
  BY <1>1, <1>2, <1>3, <1>4
  DEF Held, Left, Leaving, Ordered, Quiet, Moves, Known, Literals, At, HydrationIs
<1> QED
  BY <1>2, <1>5, <1>6, <1>7, <1>8, <1>9, <1>10, <1>11, <1>12, <1>13, <1>14, Touches
  DEF Shape, Sets, Local

-----------------------------------------------------------------------------
(* DELETE and dispose.                                                     *)

\* Ending a runtime moves it to the next generation without a handle.
LEMMA Terminated ==
    ASSUME Functions, NEW r \in Runtime, Known(r), Literals, NEW k \in {"delete", "dispose"}, TerminateRuntime(r, k)
    PROVE  Becomes(r, rt[r].gen + 1,
                   IF k = "dispose" THEN rt[r].status
                   ELSE IF rt[r].handle = 0 THEN "terminated" ELSE "terminating",
                   0, rt[r].suspended, rt[r].saved)
<1> DEFINE s == EndStatus(r, k, IF rt[r].handle = 0 THEN "terminated" ELSE "terminating")
<1>1. s \in Status /\ s = IF k = "dispose" THEN rt[r].status
                          ELSE IF rt[r].handle = 0 THEN "terminated" ELSE "terminating"
  BY DEF EndStatus, Known, Literals
<1>2. rt' = [rt EXCEPT ![r] = NextGen(rt[r], s)]
  BY DEF TerminateRuntime
<1> HIDE DEF s
<1>3. Looks(NextGen(rt[r], s), rt[r].gen + 1, s, 0, rt[r].suspended, rt[r].saved)
  BY <1>1, Updated DEF Known, Literals
<1> QED
  BY <1>1, <1>2, <1>3, TaskStep

\* DELETE of a runtime this process does not list only removes its record.
LEMMA DeleteUnlistedStep ==
    ASSUME IInv, NEW r \in Runtime, Delete(r), r \notin runtimes
    PROVE  IInv'
<1>1. Shape /\ Functions /\ At(r)
  BY AtEach
<1>2. /\ loaded /\ r \in used /\ r \notin runtimes /\ job[r]["delete"].pc = "idle"
      /\ kept' = kept \ {r}
      /\ UNCHANGED rt
      /\ UNCHANGED <<phase, daemons, loaded, overtaken, runtimes, used, page, turn,
                    unwritten, deleted, hydration, starting, running, stopping, chain,
                    store, evicted, file>>
      /\ Safe' = Safe /\ Stored' = Stored
  BY <1>1
  DEF At, Delete, daemonVars, workerVars, storeVars, JobFrame, SwitchFrame, Safe, Stored
<1>3. Moves(r, "delete", "put")
  <2>1. "put" \in JobState
    BY DEF JobState
  <2> QED
    BY <1>1, <1>2, <2>1, PcStep DEF Delete, Literals, At
<1>4. Queues(r, "delete")
  <2>1. ~Within(writes, r, "delete")
    BY <1>1, <1>2 DEF Owed, Literals, At
  <2> QED
    BY <1>1, <1>2, <2>1, RemoveQueued DEF Delete, Removed, Shape, At
<1>5. Functions'
  BY <1>1, <1>2, <1>3 DEF Functions, Moves
<1>6. Users' /\ Workers'
  BY <1>1, <1>2 DEF Shape, Sets, Users, Quiet, At, Workers, Worker, Gens, Literals
<1>7. (Process /\ Records /\ WellFormed(writes))'
  BY <1>1, <1>2, <1>4 DEF Shape, Process, Records, WellFormed, Queues
<1>8. \A q \in Runtime \ {r} : Untouched(q)
  BY <1>1, <1>2, <1>3, <1>4 DEF Untouched, Shape, Functions, Moves, Queues
<1>9. Owed(r)' /\ Quiet(r)'
  BY <1>1, <1>2, <1>3, <1>4 DEF Owed, Moves, Known, Literals, Queues, At, Quiet
<1>10. Ordered(r)'
  BY <1>1, <1>2, <1>3 DEF Ordered, Moves, Known, Literals, At
<1>11. Disposing(r)' /\ Recorded(r)'
  BY <1>1, <1>2, <1>3 DEF Disposing, Moves, Known, Literals, At, Recorded
<1>12. Keeps(r)'
  BY <1>1, <1>2, <1>3 DEF Keeps, Disposing, Recorded, Ready, Moves, Known, Literals, At
<1>13. Served(r)'
  BY <1>1, <1>2, <1>3 DEF Served, Moves, Known, Literals, At, Quiet
<1>14. Held(r)'
  BY <1>1, <1>2, <1>3
  DEF Held, Left, Leaving, Ordered, Quiet, Moves, Known, Literals, At
<1> QED
  BY <1>2, <1>5, <1>6, <1>7, <1>8, <1>9, <1>10, <1>11, <1>12, <1>13, <1>14, Touches
  DEF Shape, Sets, Local

\* DELETE of a runtime without Worker takes it off the list at once.
LEMMA DeleteAsleepStep ==
    ASSUME IInv, NEW r \in Runtime, Delete(r), r \in runtimes, rt[r].handle = 0
    PROVE  IInv'
<1>1. Shape /\ Functions /\ At(r)
  BY AtEach
<1>2. /\ loaded /\ r \in used /\ r \in runtimes /\ job[r]["delete"].pc = "idle"
      /\ kept' = kept \ {r} /\ turn' = turn \ {r}
      /\ running' = running \ {<<r, rt[r].handle>>}
      /\ stopping' = stopping \cup ({<<r, rt[r].handle>>} \cap running)
      /\ runtimes' = runtimes \ {r}
      /\ UNCHANGED <<phase, daemons, loaded, overtaken, used, page, unwritten, deleted,
                    hydration, starting, chain, store, evicted, file>>
      /\ Safe' = Safe /\ Stored' = Stored
  BY <1>1
  DEF At, Delete, TerminateRuntime, StopWorker, daemonVars, workerVars, storeVars,
      JobFrame, SwitchFrame, Safe, Stored
<1>3. Becomes(r, rt[r].gen + 1, "terminated", 0, rt[r].suspended, rt[r].saved)
  BY <1>1, <1>2, Terminated DEF Delete, At
<1>4. Moves(r, "delete", "put")
  <2>1. "put" \in JobState
    BY DEF JobState
  <2> QED
    BY <1>1, <1>2, <2>1, PcStep DEF Delete, TerminateRuntime, AfterRemoval, Literals, At
<1>5. Queues(r, "delete")
  <2>1. ~Within(writes, r, "delete")
    BY <1>1, <1>2 DEF Owed, Literals, At
  <2> QED
    BY <1>1, <1>2, <2>1, RemoveQueued DEF Delete, TerminateRuntime, Removed, Shape, At
<1>6. Functions'
  BY <1>1, <1>2, <1>3, <1>4 DEF Functions, Becomes, Looks, Moves
<1>7. Users' /\ Workers'
  BY <1>1, <1>2 DEF Shape, Sets, Users, Quiet, At, Workers, Worker, Gens, Literals
<1>8. (Process /\ Records /\ WellFormed(writes))'
  BY <1>1, <1>2, <1>5 DEF Shape, Process, Records, WellFormed, Queues
<1>9. \A q \in Runtime \ {r} : Untouched(q)
  BY <1>1, <1>2, <1>3, <1>4, <1>5
  DEF Untouched, Shape, Functions, Becomes, Moves, Queues
<1>10. Owed(r)' /\ Quiet(r)'
  BY <1>1, <1>2, <1>3, <1>4, <1>5
  DEF Owed, Becomes, Looks, Moves, Known, Literals, Queues, At, Quiet
<1>11. Ordered(r)'
  BY <1>1, <1>2, <1>3, <1>4 DEF Ordered, Becomes, Looks, Moves, Known, Literals, At
<1>12. Disposing(r)' /\ Recorded(r)'
  BY <1>1, <1>2, <1>3, <1>4
  DEF Disposing, Becomes, Looks, Moves, Known, Literals, At, Recorded
<1>13. Keeps(r)'
  BY <1>1, <1>2, <1>3, <1>4
  DEF Keeps, Disposing, Recorded, Ready, Becomes, Looks, Moves, Known, Literals, At
<1>14. Served(r)'
  BY <1>1, <1>2, <1>3, <1>4
  DEF Served, Becomes, Looks, Moves, Known, Literals, At, Quiet
<1>15. Held(r)'
  BY <1>1, <1>2, <1>3, <1>4
  DEF Held, Left, Leaving, Ordered, Quiet, Becomes, Looks, Moves, Known, Literals, At
<1> QED
  BY <1>2, <1>6, <1>7, <1>8, <1>9, <1>10, <1>11, <1>12, <1>13, <1>14, <1>15, Touches
  DEF Shape, Sets, Local

\* DELETE of a running one waits for its Worker first.
LEMMA DeleteAwakeStep ==
    ASSUME IInv, NEW r \in Runtime, Delete(r), r \in runtimes, rt[r].handle # 0
    PROVE  IInv'
<1>1. Shape /\ Functions /\ At(r)
  BY AtEach
<1>2. /\ loaded /\ r \in used /\ r \in runtimes /\ job[r]["delete"].pc = "idle"
      /\ kept' = kept \ {r} /\ turn' = turn \ {r}
      /\ running' = running \ {<<r, rt[r].handle>>}
      /\ stopping' = stopping \cup ({<<r, rt[r].handle>>} \cap running)
      /\ UNCHANGED <<phase, daemons, loaded, overtaken, runtimes, used, page, unwritten,
                    deleted, hydration, starting, chain, writes, store, evicted, file>>
      /\ Safe' = Safe /\ Stored' = Stored
  BY <1>1
  DEF At, Delete, TerminateRuntime, StopWorker, daemonVars, workerVars, storeVars,
      JobFrame, SwitchFrame, Safe, Stored
<1>3. Becomes(r, rt[r].gen + 1, "terminating", 0, rt[r].suspended, rt[r].saved)
  BY <1>1, <1>2, Terminated DEF Delete, At
<1>4. Moves(r, "delete", "ending")
  <2>1. "ending" \in JobState
    BY DEF JobState
  <2>2. job' = [job EXCEPT ![r]["delete"] = [pc |-> "ending", w |-> rt[r].handle, ahead |-> 0]]
    BY <1>1 DEF Delete, TerminateRuntime
  <2>3. 0 \in Nat /\ rt[r].handle \in Nat /\ "delete" \in Kind
    BY <1>1 DEF Known, Literals, At
  <2> QED
    BY <1>1, <2>1, <2>2, <2>3, JobStep
<1>5. Functions'
  BY <1>1, <1>2, <1>3, <1>4 DEF Functions, Becomes, Looks, Moves
<1>6. Users' /\ Workers'
  BY <1>1, <1>2 DEF Shape, Sets, Users, Quiet, At, Workers, Worker, Gens, Literals
<1>7. (Process /\ Records /\ WellFormed(writes))'
  BY <1>1, <1>2 DEF Shape, Process, Records, WellFormed
<1>8. \A q \in Runtime \ {r} : Untouched(q)
  BY <1>1, <1>2, <1>3, <1>4 DEF Untouched, Shape, Functions, Becomes, Moves
<1>9. Owed(r)' /\ Quiet(r)'
  BY <1>1, <1>2, <1>3, <1>4 DEF Owed, Becomes, Looks, Moves, Known, Literals, At, Quiet
<1>10. Ordered(r)'
  BY <1>1, <1>2, <1>3, <1>4 DEF Ordered, Becomes, Looks, Moves, Known, Literals, At
<1>11. Disposing(r)' /\ Recorded(r)'
  BY <1>1, <1>2, <1>3, <1>4
  DEF Disposing, Becomes, Looks, Moves, Known, Literals, At, Recorded
<1>12. Keeps(r)'
  BY <1>1, <1>2, <1>3, <1>4
  DEF Keeps, Disposing, Recorded, Ready, Becomes, Looks, Moves, Known, Literals, At
<1>13. Served(r)'
  BY <1>1, <1>2, <1>3, <1>4
  DEF Served, Becomes, Looks, Moves, Known, Literals, At, Quiet
<1>14. Held(r)'
  BY <1>1, <1>2, <1>3, <1>4
  DEF Held, Left, Leaving, Ordered, Quiet, Becomes, Looks, Moves, Known, Literals, At
<1> QED
  BY <1>2, <1>5, <1>6, <1>7, <1>8, <1>9, <1>10, <1>11, <1>12, <1>13, <1>14, Touches
  DEF Shape, Sets, Local

\* The Worker gone, the runtime leaves the list before its record is removed.
LEMMA DroppedDeleteStep ==
    ASSUME IInv, NEW r \in Runtime, Dropped(r, "delete")
    PROVE  IInv'
<1>1. Shape /\ Functions /\ At(r)
  BY AtEach
<1>2. /\ job[r]["delete"].pc = "ending"
      /\ runtimes' = runtimes \ {r}
      /\ UNCHANGED <<phase, daemons, loaded, overtaken, used, page, turn, kept, unwritten,
                    deleted, hydration, starting, running, stopping, chain, store, evicted,
                    file>>
      /\ Safe' = Safe /\ Stored' = Stored
  BY <1>1
  DEF At, Dropped, daemonVars, workerVars, storeVars, JobFrame, SwitchFrame, Safe, Stored
<1>3. Becomes(r, rt[r].gen, "terminated", rt[r].handle, rt[r].suspended, rt[r].saved)
  <2>1. Looks([rt[r] EXCEPT !.status = "terminated"], rt[r].gen, "terminated", rt[r].handle, rt[r].suspended, rt[r].saved)
    BY <1>1, Updated DEF Known, Literals, At
  <2> QED
    BY <1>1, <2>1, TaskStep DEF Dropped, EndStatus, At
<1>4. Moves(r, "delete", "put")
  <2>1. "put" \in JobState
    BY DEF JobState
  <2> QED
    BY <1>1, <1>2, <2>1, PcStep DEF Dropped, AfterRemoval, Literals, At
<1>5. Queues(r, "delete")
  <2>1. ~Within(writes, r, "delete")
    BY <1>1, <1>2 DEF Owed, Literals, At
  <2> QED
    BY <1>1, <1>2, <2>1, RemoveQueued DEF Dropped, Removed, Shape, At
<1>6. Functions'
  BY <1>1, <1>2, <1>3, <1>4 DEF Functions, Becomes, Looks, Moves
<1>7. Users' /\ Workers'
  BY <1>1, <1>2 DEF Shape, Sets, Users, Quiet, At, Workers, Worker, Gens, Literals
<1>8. (Process /\ Records /\ WellFormed(writes))'
  BY <1>1, <1>2, <1>5 DEF Shape, Process, Records, WellFormed, Queues
<1>9. \A q \in Runtime \ {r} : Untouched(q)
  BY <1>1, <1>2, <1>3, <1>4, <1>5
  DEF Untouched, Shape, Functions, Becomes, Moves, Queues
<1>10. Owed(r)' /\ Quiet(r)'
  BY <1>1, <1>2, <1>3, <1>4, <1>5
  DEF Owed, Becomes, Looks, Moves, Known, Literals, Queues, At, Quiet
<1>11. Ordered(r)'
  BY <1>1, <1>2, <1>3, <1>4 DEF Ordered, Becomes, Looks, Moves, Known, Literals, At
<1>12. Disposing(r)' /\ Recorded(r)'
  BY <1>1, <1>2, <1>3, <1>4
  DEF Disposing, Becomes, Looks, Moves, Known, Literals, At, Recorded
<1>13. Keeps(r)'
  BY <1>1, <1>2, <1>3, <1>4
  DEF Keeps, Disposing, Recorded, Ready, Becomes, Looks, Moves, Known, Literals, At
<1>14. Served(r)'
  BY <1>1, <1>2, <1>3, <1>4
  DEF Served, Becomes, Looks, Moves, Known, Literals, At, Quiet
<1>15. Held(r)'
  <2>1. rt[r].handle = 0 /\ r \notin overtaken => \A g \in Nat : <<r, g>> \notin running
    BY <1>1, NoHandle DEF At
  <2> QED
    BY <1>1, <2>1, <1>2, <1>3, <1>4
    DEF Held, Left, Leaving, Ordered, Quiet, Becomes, Looks, Moves, Known, Literals, At
<1> QED
  BY <1>2, <1>6, <1>7, <1>8, <1>9, <1>10, <1>11, <1>12, <1>13, <1>14, <1>15, Touches
  DEF Shape, Sets, Local

\* The Worker gone, dispose is done with the runtime; its record stays.
LEMMA DroppedDisposeStep ==
    ASSUME IInv, NEW r \in Runtime, Dropped(r, "dispose")
    PROVE  IInv'
<1>1. Shape /\ Functions /\ At(r)
  BY AtEach
<1>2. /\ job[r]["dispose"].pc = "ending"
      /\ runtimes' = runtimes \ {r}
      /\ UNCHANGED <<phase, daemons, loaded, overtaken, used, page, turn, kept, unwritten,
                    deleted, hydration, starting, running, stopping, chain, writes, store,
                    evicted, file>>
      /\ Safe' = Safe /\ Stored' = Stored
  BY <1>1
  DEF At, Dropped, Removed, daemonVars, workerVars, storeVars, JobFrame, SwitchFrame, Safe,
      Stored
<1>3. Becomes(r, rt[r].gen, rt[r].status, rt[r].handle, rt[r].suspended, rt[r].saved)
  <2>1. Looks([rt[r] EXCEPT !.status = rt[r].status], rt[r].gen, rt[r].status, rt[r].handle, rt[r].suspended, rt[r].saved)
    BY <1>1, Updated DEF Known, Literals, At
  <2> QED
    BY <1>1, <2>1, TaskStep DEF Dropped, EndStatus, At
<1>4. Moves(r, "dispose", "done")
  <2>1. "done" \in JobState
    BY DEF JobState
  <2> QED
    BY <1>1, <1>2, <2>1, PcStep DEF Dropped, AfterRemoval, Literals, At
<1>5. Functions'
  BY <1>1, <1>2, <1>3, <1>4 DEF Functions, Becomes, Looks, Moves
<1>6. Users' /\ Workers'
  BY <1>1, <1>2 DEF Shape, Sets, Users, Quiet, At, Workers, Worker, Gens, Literals
<1>7. (Process /\ Records /\ WellFormed(writes))'
  BY <1>1, <1>2 DEF Shape, Process, Records, WellFormed
<1>8. \A q \in Runtime \ {r} : Untouched(q)
  BY <1>1, <1>2, <1>3, <1>4 DEF Untouched, Shape, Functions, Becomes, Moves
<1>9. Owed(r)' /\ Quiet(r)'
  BY <1>1, <1>2, <1>3, <1>4 DEF Owed, Becomes, Looks, Moves, Known, Literals, At, Quiet
<1>10. Ordered(r)'
  BY <1>1, <1>2, <1>3, <1>4 DEF Ordered, Becomes, Looks, Moves, Known, Literals, At
<1>11. Disposing(r)' /\ Recorded(r)'
  BY <1>1, <1>2, <1>3, <1>4
  DEF Disposing, Becomes, Looks, Moves, Known, Literals, At, Recorded
<1>12. Keeps(r)'
  BY <1>1, <1>2, <1>3, <1>4
  DEF Keeps, Disposing, Recorded, Ready, Becomes, Looks, Moves, Known, Literals, At
<1>13. Served(r)'
  BY <1>1, <1>2, <1>3, <1>4
  DEF Served, Becomes, Looks, Moves, Known, Literals, At, Quiet
<1>14. Held(r)'
  <2>1. rt[r].handle = 0 /\ r \notin overtaken => \A g \in Nat : <<r, g>> \notin running
    BY <1>1, NoHandle DEF At
  <2> QED
    BY <1>1, <2>1, <1>2, <1>3, <1>4
    DEF Held, Left, Leaving, Ordered, Quiet, Becomes, Looks, Moves, Known, Literals, At
<1> QED
  BY <1>2, <1>5, <1>6, <1>7, <1>8, <1>9, <1>10, <1>11, <1>12, <1>13, <1>14, Touches
  DEF Shape, Sets, Local

\* dispose() owes the tasks that are ready with a session and not being
\* deleted.
LEMMA DisposeStep == ASSUME IInv, Dispose PROVE IInv'
<1>1. /\ Shape /\ Functions /\ phase = "running" /\ loaded /\ phase' = "disposing"
      /\ kept' = {r \in runtimes : Ready(r) /\ file[r] # NoPath /\ job[r]["delete"].pc = "idle"}
      /\ UNCHANGED <<daemons, loaded, unwritten, overtaken, runtimes, rt, page, turn, hydration,
                     starting, running, stopping, chain, writes, store, evicted,
                     deleted, file, used>>
      /\ Safe' = Safe /\ Stored' = Stored
  BY DEF IInv, Shape, Dispose, workerVars, storeVars, Safe, Stored
<1> DEFINE D(r) == IF r \in runtimes THEN [pc |-> "drain", w |-> 0, ahead |-> chain[r]] ELSE NoJob
<1>2. /\ job' \in [Runtime -> [Kind -> Progress]]
      /\ \A r \in Runtime : /\ job'[r]["dispose"] = D(r)
                            /\ \A k \in Kind \ {"dispose"} : job'[r][k] = job[r][k]
  <2>1. \A r \in Runtime : D(r) \in Progress
    BY <1>1 DEF Functions, Progress, JobState, NoJob
  <2>2. job' = [r \in Runtime |-> [job[r] EXCEPT !["dispose"] = D(r)]]
    BY DEF Dispose
  <2> HIDE DEF D
  <2>3. \A r \in Runtime : job[r] \in [Kind -> Progress]
    BY <1>1 DEF Functions
  <2> QED
    BY <2>1, <2>2, <2>3 DEF Kind
<1>3. \A r \in Runtime : D(r).pc = IF r \in runtimes THEN "drain" ELSE "idle"
  BY DEF NoJob
<1> HIDE DEF D
<1>4. Shape'
  BY <1>1, <1>2 DEF Shape, Sets, Users, Workers, Functions, Process, Records, WellFormed
<1>5. ASSUME NEW r \in Runtime PROVE Local(r)'
  <2>1. Known(r) /\ Literals /\ Quiet(r) /\ Owed(r) /\ Ordered(r) /\ Disposing(r) /\ Recorded(r)
        /\ Keeps(r) /\ Held(r)
    BY AtEach DEF At
  <2>2. /\ job'[r]["dispose"].pc = IF r \in runtimes THEN "drain" ELSE "idle"
        /\ \A k \in Kind \ {"dispose"} : job'[r][k] = job[r][k]
    BY <1>2, <1>3
  <2>3. Owed(r)'
    BY <1>1, <2>1, <2>2 DEF Owed, Disposing, Literals
  <2>4. Quiet(r)'
    BY <1>1, <2>1, <2>2 DEF Quiet, Literals
  <2>5. Ordered(r)'
    BY <1>1, <2>1, <2>2 DEF Ordered, Literals
  <2>6. Disposing(r)'
    BY <1>1, <2>1, <2>2 DEF Disposing, Literals
  <2>7. Keeps(r)'
    BY <1>1, <2>1, <2>2 DEF Keeps, Ready
  <2>8. Recorded(r)'
    BY <1>1, <2>1, <2>2 DEF Recorded, Literals
  <2>9. Served(r)'
    BY <1>1, <2>1, <2>2 DEF Served, Literals
  <2>10. Held(r)'
    BY <1>1, <2>1, <2>2 DEF Held, Left, Leaving, Disposing, Literals
  <2> QED
    BY <2>3, <2>4, <2>5, <2>6, <2>7, <2>8, <2>9, <2>10 DEF Local
<1> QED
  BY <1>4, <1>5 DEF IInv

\* A ready runtime whose checkpoints have drained is persisted again.
LEMMA DisposeDrainedReadyStep ==
    ASSUME IInv, NEW r \in Runtime, DisposeDrained(r), Persists(r)
    PROVE  IInv'
<1>1. Shape /\ Functions /\ At(r)
  BY AtEach
<1>2. /\ job[r]["dispose"].pc = "drain"
      /\ UNCHANGED <<phase, daemons, loaded, overtaken, runtimes, used, page, turn, kept,
                    unwritten, deleted, hydration, starting, running, stopping, chain,
                    store, evicted, file>>
      /\ Safe' = Safe /\ Stored' = Stored
  BY <1>1
  DEF At, DisposeDrained, Persists, daemonVars, workerVars, storeVars, JobFrame,
      SwitchFrame, Safe, Stored
<1>3. Becomes(r, rt[r].gen, rt[r].status, rt[r].handle, rt[r].suspended, rt[r].saved)
  <2>1. Looks([rt[r] EXCEPT !.path = file[r]], rt[r].gen, rt[r].status, rt[r].handle, rt[r].suspended, rt[r].saved)
    BY <1>1, Updated, ZenonT(60) DEF Known, Literals, At
  <2> QED
    BY <1>1, <2>1, TaskStep DEF DisposeDrained, At
<1>4. Moves(r, "dispose", "put")
  <2>1. "put" \in JobState
    BY DEF JobState
  <2> QED
    BY <1>1, <1>2, <2>1, PcStep DEF DisposeDrained, Literals, At
<1>5. Queues(r, "dispose")
  <2>1. ~Within(writes, r, "dispose") /\ "dispose" \in Kinds \ {"delete"}
    BY <1>1, <1>2 DEF Owed, Literals, At
  <2> QED
    BY <1>1, <2>1, PutQueued DEF DisposeDrained, Shape, At
<1>6. Functions'
  BY <1>1, <1>2, <1>3, <1>4 DEF Functions, Becomes, Looks, Moves
<1>7. Users' /\ Workers'
  BY <1>1, <1>2 DEF Shape, Sets, Users, Quiet, At, Workers, Worker, Gens, Literals
<1>8. (Process /\ Records /\ WellFormed(writes))'
  BY <1>1, <1>2, <1>5 DEF Shape, Process, Records, WellFormed, Queues
<1>9. \A q \in Runtime \ {r} : Untouched(q)
  BY <1>1, <1>2, <1>3, <1>4, <1>5
  DEF Untouched, Shape, Functions, Becomes, Moves, Queues
<1>10. Owed(r)' /\ Quiet(r)'
  BY <1>1, <1>2, <1>3, <1>4, <1>5
  DEF Owed, Becomes, Looks, Moves, Known, Literals, Queues, At, Quiet
<1>11. Ordered(r)'
  BY <1>1, <1>2, <1>3, <1>4 DEF Ordered, Becomes, Looks, Moves, Known, Literals, At
<1>12. Disposing(r)' /\ Recorded(r)'
  BY <1>1, <1>2, <1>3, <1>4
  DEF Disposing, Becomes, Looks, Moves, Known, Literals, At, Recorded
<1>13. Keeps(r)'
  BY <1>1, <1>2, <1>3, <1>4
  DEF Keeps, Disposing, Recorded, Ready, Becomes, Looks, Moves, Known, Literals, At
<1>14. Served(r)'
  BY <1>1, <1>2, <1>3, <1>4
  DEF Served, Becomes, Looks, Moves, Known, Literals, At, Quiet
<1>15. Held(r)'
  BY <1>1, <1>2, <1>3, <1>4
  DEF Held, Left, Leaving, Ordered, Quiet, Becomes, Looks, Moves, Known, Literals, At
<1> QED
  BY <1>2, <1>6, <1>7, <1>8, <1>9, <1>10, <1>11, <1>12, <1>13, <1>14, <1>15, Touches
  DEF Shape, Sets, Local

\* Another one is ended without.
LEMMA DisposeDrainedIdleStep ==
    ASSUME IInv, NEW r \in Runtime, DisposeDrained(r), ~Persists(r)
    PROVE  IInv'
<1>1. Shape /\ Functions /\ At(r)
  BY AtEach
<1>2. /\ job[r]["dispose"].pc = "drain"
      /\ ~(Ready(r) /\ file[r] # NoPath)
      /\ UNCHANGED rt
      /\ UNCHANGED <<phase, daemons, loaded, overtaken, runtimes, used, page, turn, kept,
                    unwritten, deleted, hydration, starting, running, stopping, chain,
                    writes, store, evicted, file>>
      /\ Safe' = Safe /\ Stored' = Stored
  BY <1>1
  DEF At, DisposeDrained, Persists, daemonVars, workerVars, storeVars, JobFrame,
      SwitchFrame, Safe, Stored
<1>3. Moves(r, "dispose", "stored")
  <2>1. "stored" \in JobState
    BY DEF JobState
  <2> QED
    BY <1>1, <1>2, <2>1, PcStep DEF DisposeDrained, Literals, At
<1>4. Functions'
  BY <1>1, <1>2, <1>3 DEF Functions, Moves
<1>5. Users' /\ Workers'
  BY <1>1, <1>2 DEF Shape, Sets, Users, Quiet, At, Workers, Worker, Gens, Literals
<1>6. (Process /\ Records /\ WellFormed(writes))'
  BY <1>1, <1>2 DEF Shape, Process, Records, WellFormed
<1>7. \A q \in Runtime \ {r} : Untouched(q)
  BY <1>1, <1>2, <1>3 DEF Untouched, Shape, Functions, Moves
<1>8. Owed(r)' /\ Quiet(r)'
  BY <1>1, <1>2, <1>3 DEF Owed, Moves, Known, Literals, At, Quiet
<1>9. Ordered(r)'
  BY <1>1, <1>2, <1>3 DEF Ordered, Moves, Known, Literals, At
<1>10. Disposing(r)' /\ Recorded(r)'
  BY <1>1, <1>2, <1>3 DEF Disposing, Moves, Known, Literals, At, Recorded
<1>11. Keeps(r)'
  BY <1>1, <1>2, <1>3 DEF Keeps, Disposing, Recorded, Ready, Moves, Known, Literals, At
<1>12. Served(r)'
  BY <1>1, <1>2, <1>3 DEF Served, Moves, Known, Literals, At, Quiet
<1>13. Held(r)'
  BY <1>1, <1>2, <1>3
  DEF Held, Left, Leaving, Ordered, Quiet, Moves, Known, Literals, At
<1> QED
  BY <1>2, <1>4, <1>5, <1>6, <1>7, <1>8, <1>9, <1>10, <1>11, <1>12, <1>13, Touches
  DEF Shape, Sets, Local

\* Ending a runtime without Worker is immediate.
LEMMA DisposeEndsAsleepStep ==
    ASSUME IInv, NEW r \in Runtime, DisposeEnds(r), rt[r].handle = 0
    PROVE  IInv'
<1>1. Shape /\ Functions /\ At(r)
  BY AtEach
<1>2. /\ job[r]["dispose"].pc = "stored"
      /\ turn' = turn \ {r}
      /\ running' = running \ {<<r, rt[r].handle>>}
      /\ stopping' = stopping \cup ({<<r, rt[r].handle>>} \cap running)
      /\ runtimes' = runtimes \ {r}
      /\ UNCHANGED <<phase, daemons, loaded, overtaken, used, page, kept, unwritten,
                    deleted, hydration, starting, chain, writes, store, evicted, file>>
      /\ Safe' = Safe /\ Stored' = Stored
  BY <1>1
  DEF At, DisposeEnds, TerminateRuntime, StopWorker, Removed, daemonVars, workerVars,
      storeVars, JobFrame, SwitchFrame, Safe, Stored
<1>3. Becomes(r, rt[r].gen + 1, rt[r].status, 0, rt[r].suspended, rt[r].saved)
  BY <1>1, <1>2, Terminated DEF DisposeEnds, At
<1>4. Moves(r, "dispose", "done")
  <2>1. "done" \in JobState
    BY DEF JobState
  <2> QED
    BY <1>1, <1>2, <2>1, PcStep
    DEF DisposeEnds, TerminateRuntime, AfterRemoval, Literals, At
<1>5. Functions'
  BY <1>1, <1>2, <1>3, <1>4 DEF Functions, Becomes, Looks, Moves
<1>6. Users' /\ Workers'
  BY <1>1, <1>2 DEF Shape, Sets, Users, Quiet, At, Workers, Worker, Gens, Literals
<1>7. (Process /\ Records /\ WellFormed(writes))'
  BY <1>1, <1>2 DEF Shape, Process, Records, WellFormed
<1>8. \A q \in Runtime \ {r} : Untouched(q)
  BY <1>1, <1>2, <1>3, <1>4 DEF Untouched, Shape, Functions, Becomes, Moves
<1>9. Owed(r)' /\ Quiet(r)'
  BY <1>1, <1>2, <1>3, <1>4 DEF Owed, Becomes, Looks, Moves, Known, Literals, At, Quiet
<1>10. Ordered(r)'
  BY <1>1, <1>2, <1>3, <1>4 DEF Ordered, Becomes, Looks, Moves, Known, Literals, At
<1>11. Disposing(r)' /\ Recorded(r)'
  BY <1>1, <1>2, <1>3, <1>4
  DEF Disposing, Becomes, Looks, Moves, Known, Literals, At, Recorded
<1>12. Keeps(r)'
  BY <1>1, <1>2, <1>3, <1>4
  DEF Keeps, Disposing, Recorded, Ready, Becomes, Looks, Moves, Known, Literals, At
<1>13. Served(r)'
  BY <1>1, <1>2, <1>3, <1>4
  DEF Served, Becomes, Looks, Moves, Known, Literals, At, Quiet
<1>14. Held(r)'
  BY <1>1, <1>2, <1>3, <1>4
  DEF Held, Left, Leaving, Ordered, Quiet, Becomes, Looks, Moves, Known, Literals, At
<1> QED
  BY <1>2, <1>5, <1>6, <1>7, <1>8, <1>9, <1>10, <1>11, <1>12, <1>13, <1>14, Touches
  DEF Shape, Sets, Local

\* Ending a running one waits for its Worker.
LEMMA DisposeEndsAwakeStep ==
    ASSUME IInv, NEW r \in Runtime, DisposeEnds(r), rt[r].handle # 0
    PROVE  IInv'
<1>1. Shape /\ Functions /\ At(r)
  BY AtEach
<1>2. /\ job[r]["dispose"].pc = "stored"
      /\ turn' = turn \ {r}
      /\ running' = running \ {<<r, rt[r].handle>>}
      /\ stopping' = stopping \cup ({<<r, rt[r].handle>>} \cap running)
      /\ UNCHANGED <<phase, daemons, loaded, overtaken, runtimes, used, page, kept,
                    unwritten, deleted, hydration, starting, chain, writes, store, evicted,
                    file>>
      /\ Safe' = Safe /\ Stored' = Stored
  BY <1>1
  DEF At, DisposeEnds, TerminateRuntime, StopWorker, daemonVars, workerVars, storeVars,
      JobFrame, SwitchFrame, Safe, Stored
<1>3. Becomes(r, rt[r].gen + 1, rt[r].status, 0, rt[r].suspended, rt[r].saved)
  BY <1>1, <1>2, Terminated DEF DisposeEnds, At
<1>4. Moves(r, "dispose", "ending")
  <2>1. "ending" \in JobState
    BY DEF JobState
  <2>2. job' = [job EXCEPT ![r]["dispose"] = [pc |-> "ending", w |-> rt[r].handle, ahead |-> 0]]
    BY <1>1 DEF DisposeEnds, TerminateRuntime
  <2>3. 0 \in Nat /\ rt[r].handle \in Nat /\ "dispose" \in Kind
    BY <1>1 DEF Known, Literals, At
  <2> QED
    BY <1>1, <2>1, <2>2, <2>3, JobStep
<1>5. Functions'
  BY <1>1, <1>2, <1>3, <1>4 DEF Functions, Becomes, Looks, Moves
<1>6. Users' /\ Workers'
  BY <1>1, <1>2 DEF Shape, Sets, Users, Quiet, At, Workers, Worker, Gens, Literals
<1>7. (Process /\ Records /\ WellFormed(writes))'
  BY <1>1, <1>2 DEF Shape, Process, Records, WellFormed
<1>8. \A q \in Runtime \ {r} : Untouched(q)
  BY <1>1, <1>2, <1>3, <1>4 DEF Untouched, Shape, Functions, Becomes, Moves
<1>9. Owed(r)' /\ Quiet(r)'
  BY <1>1, <1>2, <1>3, <1>4 DEF Owed, Becomes, Looks, Moves, Known, Literals, At, Quiet
<1>10. Ordered(r)'
  BY <1>1, <1>2, <1>3, <1>4 DEF Ordered, Becomes, Looks, Moves, Known, Literals, At
<1>11. Disposing(r)' /\ Recorded(r)'
  BY <1>1, <1>2, <1>3, <1>4
  DEF Disposing, Becomes, Looks, Moves, Known, Literals, At, Recorded
<1>12. Keeps(r)'
  BY <1>1, <1>2, <1>3, <1>4
  DEF Keeps, Disposing, Recorded, Ready, Becomes, Looks, Moves, Known, Literals, At
<1>13. Served(r)'
  BY <1>1, <1>2, <1>3, <1>4
  DEF Served, Disposing, At, Quiet, Becomes, Looks, Moves, Known, Literals
<1>14. Held(r)'
  BY <1>1, <1>2, <1>3, <1>4
  DEF Held, Left, Leaving, Ordered, Quiet, Disposing, At, Becomes, Looks, Moves, Known,
      Literals
<1> QED
  BY <1>2, <1>5, <1>6, <1>7, <1>8, <1>9, <1>10, <1>11, <1>12, <1>13, <1>14, Touches
  DEF Shape, Sets, Local

-----------------------------------------------------------------------------
(* The theorems.                                                           *)

\* Every step keeps the invariant.
LEMMA NextIInv == IInv /\ [Next]_vars => IInv'
<1> SUFFICES ASSUME IInv, [Next]_vars PROVE IInv'
  OBVIOUS
<1>1. Users /\ Workers
  BY DEF IInv, Shape, Sets
<1>2. CASE UNCHANGED vars
  BY <1>1, <1>2, FrameStep DEF vars, Users, Workers, workerVars
<1>3. ASSUME NEW w \in Worker, WorkerStops(w) PROVE IInv'
  BY <1>1, <1>3, FrameStep DEF WorkerStops, Users, Workers
<1>4. ASSUME NEW r \in Runtime, TurnSettles(r) \/ Unsubscribe(r) PROVE IInv'
  BY <1>1, <1>4, FrameStep DEF TurnSettles, Unsubscribe, Users, Workers, workerVars
<1>5. ASSUME NEW r \in Runtime, Operate(r) PROVE IInv'
  BY <1>5, HydratingStep DEF Operate, Hydrating
<1>6. ASSUME NEW r \in Runtime, Subscribe(r) PROVE IInv'
  <2>1. r \in runtimes /\ loaded /\ r \in used
    BY <1>1, <1>6 DEF Subscribe, Users
  <2>2. CASE Hydrates(r)
    BY <1>6, <2>1, <2>2, HydratingStep DEF Subscribe, Hydrating
  <2>3. CASE ~Hydrates(r)
    BY <1>1, <1>6, <2>1, <2>3, FrameStep DEF Subscribe, Users, Workers
  <2> QED
    BY <2>2, <2>3
<1>7. ASSUME NEW r \in Runtime, NEW g \in Gens, InitDone(r, g) \/ InitFail(r, g) \/ WorkerExit(r, g) PROVE IInv'
  BY <1>7, InitDoneStaleStep, InitDoneCurrentStep, InitFailStep, WorkerExitStep
<1>8. ASSUME NEW r \in Runtime, StartNew(r) \/ Retry(r) \/ (\E p \in Path : StartContinue(r, p)) PROVE IInv'
  BY <1>8, StartNewStep, RetryStep, StartContinueStep
<1>9. ASSUME NEW r \in Runtime, Prompt(r) \/ ReadState(r) PROVE IInv'
  BY <1>9, PromptStep, ReadStateStep
<1>10. ASSUME NEW r \in Runtime,
             IdleTimer(r) \/ IdleProbed(r) \/ (\E k \in {"suspend", "restart"} : Waited(r, k)) \/ Suspend(r)
      PROVE  IInv'
  BY <1>10, IdleTimerStep, IdleProbedBusyStep, IdleProbedStep, WaitedStep, SuspendStep
<1>11. ASSUME NEW r \in Runtime, DiskAhead(r) \/ ScheduleRestart(r) \/ Restart(r) \/ RestartStarts(r) PROVE IInv'
  BY <1>11, DiskAheadStep, ScheduleRestartStep, RestartStep, RestartStartsCurrentStep,
     RestartStartsStaleStep
<1>12. ASSUME NEW r \in Runtime, Delete(r) \/ (\E k \in {"delete", "dispose"} : Dropped(r, k)) PROVE IInv'
  BY <1>12, DeleteUnlistedStep, DeleteAsleepStep, DeleteAwakeStep, DroppedDeleteStep,
     DroppedDisposeStep
<1>13. ASSUME NEW r \in Runtime, DisposeDrained(r) \/ DisposeEnds(r) PROVE IInv'
  BY <1>13, DisposeDrainedReadyStep, DisposeDrainedIdleStep, DisposeEndsAsleepStep,
     DisposeEndsAwakeStep
<1> QED
  BY <1>2, <1>3, <1>4, <1>5, <1>6, <1>7, <1>8, <1>9, <1>10, <1>11, <1>12, <1>13,
     LoadStep, NextDaemonStep, DisposeStep, StoreWriteStep
  DEF Next

\* It holds in every reachable state.
LEMMA Inductive == Spec => []IInv
<1> QED
  BY InitIInv, NextIInv, PTL DEF Spec

\* Every variable of the service keeps its type, across suspensions, restarts
\* and processes; in particular the store never exceeds
\* MAX_RECOVERABLE_RUNTIMES.
THEOREM TypeCorrect == Spec => []TypeOK
<1>1. IInv => TypeOK
  BY ConstantsOK
  DEF IInv, Shape, Sets, Users, Workers, Functions, Process, Records, WellFormed, Task,
      Progress, Message, Kinds, TypeOK
<1> QED
  BY <1>1, Inductive, PTL

\* A listed runtime that looks ready has a handle or may be hydrated, whatever
\* order timers, probes, exits and terminations come in.
THEOREM ReadyHasWorker == Spec => []ReadyIsServed
<1>1. IInv => ReadyIsServed
  BY DEF IInv, Shape, Sets, Users, Local, Served, ReadyIsServed
<1> QED
  BY <1>1, Inductive, PTL

\* A runtime marked saved has its record in the store, in every process, unless
\* it is being deleted or the record limit took the record out.
THEOREM SavedStaysStored == Spec => []SavedIsStored
<1>1. IInv => SavedIsStored
  BY DEF IInv, Shape, Sets, Users, Local, Recorded, Safe, SavedIsStored
<1> QED
  BY <1>1, Inductive, PTL

\* No Worker outlives its runtime: one that runs belongs to a listed runtime that
\* has its handle, unless a suspension or a restart finished its checkpoint after
\* that Worker had been given up.
THEOREM WorkersStayHeld == Spec => []WorkersAreHeld
<1>1. IInv => WorkersAreHeld
  BY ConstantsOK DEF IInv, Local, Held, WorkersAreHeld, Gens
<1> QED
  BY <1>1, Inductive, PTL

\* Once dispose() is done, each task it owed is in the store unless a write of
\* its record failed.
THEOREM DisposeLosesNothing == Spec => []DisposeKeepsTasks
<1>1. IInv => DisposeKeepsTasks
  <2> SUFFICES ASSUME IInv, Disposed, NEW r \in kept \ unwritten PROVE r \in Stored \cup evicted
    BY DEF DisposeKeepsTasks
  <2>1. r \in Runtime
    BY DEF IInv, Shape, Sets, Users
  <2> QED
    BY <2>1 DEF IInv, Local, Keeps, Safe, Disposed
<1> QED
  BY <1>1, Inductive, PTL

=============================================================================
