---------------------------- MODULE ScanPoolProofs ----------------------------
(***************************************************************************)
(* Proofs about the scans on worker threads, for any number of scans,      *)
(* threads and faults.  The invariant is stated of any scans, threads and  *)
(* pool (PoolInv), so that a step is shown to keep it by naming the one    *)
(* scan and the one thread it changes: Frame and its cases say what is     *)
(* then left to show.                                                      *)
(***************************************************************************)
EXTENDS ScanPool, SequenceTheorems, TLAPS

USE ScanPoolAssumption

Promised == [thread : Thread \cup {NoThread}, wants : BOOLEAN, oneShot : BOOLEAN, pooled : BOOLEAN,
             attached : BOOLEAN, graph : {"none", "parsing", "read"},
             functions : {"open", "ok", "failed"}, promise : Promises]
Worker == [life : {"unused", "alive", "ended"}, jobs : Seq(Scan), stage : {"scan", "graph", "functions"},
           mail : Seq(Post), standby : BOOLEAN, killed : BOOLEAN]
PoolState == [thread : Thread \cup {NoThread}, busy : BOOLEAN, timer : BOOLEAN]

\* The last posts of a thread, and the last of a scan.
Last == {"crash", "noStart", "exit"}
Final == {"done", "retire"}

Has(m, types) == \E i \in DOMAIN m : m[i].type \in types
AllOf(m, who) == \A i \in DOMAIN m : m[i].of \in who
Signed(m) == \A i \in DOMAIN m : m[i].of = NoScan <=> m[i].type \in Last
DoneLast(m) == \A i, j \in DOMAIN m : m[i].type \in Final /\ i < j => m[j].of = NoScan
GraphFirst(m) == \A i \in DOMAIN m : m[i].type \in Final => \E j \in DOMAIN m : j < i /\ m[j].type = "graph"

\* Of a thread by itself: one not used yet is as it was, one that ended has no
\* scan, it ends once it crashed or was stopped, and the last post about a scan
\* is the last of it.
OwnOK(t) ==
  /\ t.life = "unused" => t = Unborn
  /\ t.life # "alive" => t.jobs = << >>
  /\ t.jobs = << >> => t.stage = "scan"
  /\ t.killed => t.life = "ended"
  /\ Signed(t.mail) /\ DoneLast(t.mail)
  /\ Has(t.mail, Last) => t.life = "ended"
  /\ Has(t.mail, Final) => t.jobs = << >>

\* Of thread w while no scan listens to it: it has no scan, and if it lives it is
\* the warm one; nothing in the mail of the warm one is about a scan that left.
IdleOK(t, w, p) ==
  /\ t.jobs = << >>
  /\ t.life = "alive" => p.thread = w
  /\ p.thread = w => t.life # "unused" /\ ~t.killed /\ AllOf(t.mail, {NoScan})
  /\ p.thread = w /\ t.life = "ended" => Has(t.mail, {"exit"})

\* Of thread w while scan s listens to it: whatever s still waits for is to come.
ServeOK(t, r, s, w, p) ==
  /\ t.life # "unused" /\ t.jobs \in {<< >>, <<s>>} /\ AllOf(t.mail, {s, NoScan})
  /\ t.life = "ended" => Has(t.mail, {"exit"})
  /\ p.thread = w => ~t.killed
  /\ r.promise \in {"pending", "resolved"}
  /\ r.graph = "none" => GraphFirst(t.mail) /\ (t.stage # "scan" => Has(t.mail, {"graph"}))
  /\ r.graph = "none" /\ r.promise = "pending" => t.jobs # << >> \/ Has(t.mail, {"graph", "error"} \cup Last)
  /\ r.functions = "open" => t.jobs # << >> \/ Has(t.mail, {"functions", "error"} \cup Final \cup Last)

\* Of a scan by itself.
LooseOK(r) ==
  /\ r.attached => r.thread \in Thread
  /\ r.graph = "parsing" => r.thread \in Thread
  /\ r.promise = "pending" => r.graph = "parsing" \/ (r.graph = "none" /\ r.attached)
  /\ ~r.attached /\ r.graph # "none" => r.functions # "open"
  /\ r.attached /\ r.promise = "resolved" => r.graph = "read"

Serves(sc, w, s) == sc[s].attached /\ sc[s].thread = w
Used(sc, w) == \E s \in Scan : Serves(sc, w, s)

PoolOK(sc, p) ==
  /\ p.thread = NoThread => p = NoPool
  /\ p.thread # NoThread => (p.busy <=> Used(sc, p.thread)) /\ (p.timer <=> ~p.busy)

\* The invariant, of any scans, threads, pool and history.
PoolInv(sc, th, p, ga) ==
  /\ sc \in [Scan -> Promised] /\ th \in [Thread -> Worker] /\ p \in PoolState /\ ga \in BOOLEAN
  /\ \A w \in Thread : OwnOK(th[w]) /\ (~Used(sc, w) => IdleOK(th[w], w, p))
  /\ \A s \in Scan : LooseOK(sc[s])
  /\ \A s \in Scan, w \in Thread : Serves(sc, w, s) => ServeOK(th[w], sc[s], s, w, p) /\ (ga \/ ~th[w].killed)
  /\ \A s, q \in Scan, w \in Thread : Serves(sc, w, s) /\ Serves(sc, w, q) => q = s
  /\ PoolOK(sc, p)

ScanInv == PoolInv(scan, thread, pool, garbled) /\ faults \in 0..MaxFaults

-----------------------------------------------------------------------------
(* The mail of a thread *)

LEMMA MailGrows ==
  ASSUME NEW m \in Seq(Post), NEW p \in Post
  PROVE  /\ Append(m, p) \in Seq(Post)
         /\ \A T : Has(Append(m, p), T) <=> Has(m, T) \/ p.type \in T
         /\ \A W : AllOf(Append(m, p), W) <=> AllOf(m, W) /\ p.of \in W
         /\ Signed(m) /\ (p.of = NoScan <=> p.type \in Last) => Signed(Append(m, p))
         /\ DoneLast(m) /\ (p.of = NoScan \/ ~Has(m, Final)) => DoneLast(Append(m, p))
         /\ GraphFirst(m) /\ (p.type \notin Final \/ Has(m, {"graph"})) => GraphFirst(Append(m, p))
<1> DEFINE a == Append(m, p)
           n == Len(m)
<1>1. n \in Nat /\ DOMAIN m = 1..n
  OBVIOUS
<1>2. a \in Seq(Post) /\ DOMAIN a = 1..(n + 1) /\ (\A i \in 1..n : a[i] = m[i]) /\ a[n + 1] = p
  BY AppendProperties
<1> HIDE DEF a, n
<1>3. \A i \in 1..(n + 1) : i \in 1..n \/ i = n + 1
  BY <1>1
<1>4. (\A i \in 1..n : i \in 1..(n + 1) /\ i < n + 1 /\ ~(n + 1 < i)) /\ n + 1 \in 1..(n + 1) /\ ~(n + 1 < n + 1)
  BY <1>1
<1>5. \A T : Has(a, T) <=> Has(m, T) \/ p.type \in T
  BY <1>1, <1>2, <1>3, <1>4 DEF Has
<1>6. \A W : AllOf(a, W) <=> AllOf(m, W) /\ p.of \in W
  BY <1>1, <1>2, <1>3, <1>4 DEF AllOf
<1>7. Signed(m) /\ (p.of = NoScan <=> p.type \in Last) => Signed(a)
  BY <1>1, <1>2, <1>3, <1>4 DEF Signed
<1>8. DoneLast(m) /\ (p.of = NoScan \/ ~Has(m, Final)) => DoneLast(a)
  <2> SUFFICES ASSUME DoneLast(m), p.of = NoScan \/ ~Has(m, Final),
                      NEW i \in 1..(n + 1), NEW j \in 1..(n + 1), a[i].type \in Final, i < j
               PROVE  a[j].of = NoScan
    BY <1>2 DEF DoneLast
  <2>1. i \in 1..n
    BY <1>3, <1>4
  <2>2. CASE j \in 1..n
    BY <1>1, <1>2, <2>1, <2>2 DEF DoneLast
  <2>3. CASE j = n + 1
    BY <1>1, <1>2, <2>1, <2>3 DEF Has
  <2> QED BY <1>3, <2>2, <2>3
<1>9. GraphFirst(m) /\ (p.type \notin Final \/ Has(m, {"graph"})) => GraphFirst(a)
  <2> SUFFICES ASSUME GraphFirst(m), p.type \notin Final \/ Has(m, {"graph"}), NEW i \in 1..(n + 1), a[i].type \in Final
               PROVE  \E j \in 1..(n + 1) : j < i /\ a[j].type = "graph"
    BY <1>2 DEF GraphFirst
  <2>1. CASE i \in 1..n
    <3>1. PICK j \in 1..n : j < i /\ m[j].type = "graph"
      BY <1>1, <1>2, <2>1 DEF GraphFirst
    <3> QED BY <1>2, <1>4, <3>1
  <2>2. CASE i = n + 1
    <3>1. PICK j \in 1..n : m[j].type = "graph"
      BY <1>1, <1>2, <2>2 DEF Has
    <3> QED BY <1>2, <1>4, <2>2, <3>1
  <2> QED BY <1>3, <2>1, <2>2
<1> QED BY <1>2, <1>5, <1>6, <1>7, <1>8, <1>9 DEF a

LEMMA MailShrinks ==
  ASSUME NEW m \in Seq(Post), m # << >>
  PROVE  /\ Head(m) \in Post /\ Tail(m) \in Seq(Post)
         /\ \A T : Has(m, T) <=> Head(m).type \in T \/ Has(Tail(m), T)
         /\ \A W : AllOf(m, W) <=> Head(m).of \in W /\ AllOf(Tail(m), W)
         /\ Signed(m) => Signed(Tail(m)) /\ (Head(m).of = NoScan <=> Head(m).type \in Last)
         /\ DoneLast(m) => DoneLast(Tail(m)) /\ (Head(m).type \in Final => AllOf(Tail(m), {NoScan}))
         /\ GraphFirst(m) => Head(m).type \notin Final /\ (Head(m).type # "graph" => GraphFirst(Tail(m)))
<1> DEFINE u == Tail(m)
           h == Head(m)
           n == Len(m)
<1>1. n \in Nat /\ n >= 1 /\ DOMAIN m = 1..n /\ h = m[1] /\ h \in Post
  BY EmptySeq, HeadTailProperties
<1>2. u \in Seq(Post) /\ DOMAIN u = 1..(n - 1) /\ \A i \in 1..(n - 1) : u[i] = m[i + 1]
  BY HeadTailProperties
<1> HIDE DEF u, h, n
<1>3. \A i \in 1..n : i = 1 \/ \E k \in 1..(n - 1) : i = k + 1
  <2> SUFFICES ASSUME NEW i \in 1..n, i # 1 PROVE \E k \in 1..(n - 1) : i = k + 1
    OBVIOUS
  <2>1. i - 1 \in 1..(n - 1) /\ i = (i - 1) + 1
    BY <1>1
  <2> QED BY <2>1
<1>4. (\A i \in 1..(n - 1) : i \in Nat /\ i + 1 \in 1..n /\ 1 < i + 1 /\ ~(i + 1 < 1)) /\ 1 \in 1..n /\ ~(1 < 1)
  BY <1>1
<1>5. \A i, j \in 1..(n - 1) : i + 1 < j + 1 <=> i < j
  BY <1>1
<1>6. \A T : Has(m, T) <=> h.type \in T \/ Has(u, T)
  BY <1>1, <1>2, <1>3, <1>4 DEF Has
<1>7. \A W : AllOf(m, W) <=> h.of \in W /\ AllOf(u, W)
  BY <1>1, <1>2, <1>3, <1>4 DEF AllOf
<1>8. Signed(m) => Signed(u) /\ (h.of = NoScan <=> h.type \in Last)
  BY <1>1, <1>2, <1>3, <1>4 DEF Signed
<1>9. DoneLast(m) => DoneLast(u) /\ (h.type \in Final => AllOf(u, {NoScan}))
  <2> SUFFICES ASSUME DoneLast(m) PROVE DoneLast(u) /\ (h.type \in Final => AllOf(u, {NoScan}))
    OBVIOUS
  <2>1. \A i, j \in 1..n : m[i].type \in Final /\ i < j => m[j].of = NoScan
    BY <1>1 DEF DoneLast
  <2>2. ASSUME NEW i \in 1..(n - 1), NEW j \in 1..(n - 1), u[i].type \in Final, i < j PROVE u[j].of = NoScan
    <3>1. i + 1 \in 1..n /\ j + 1 \in 1..n /\ i + 1 < j + 1 /\ u[i] = m[i + 1] /\ u[j] = m[j + 1]
      BY <1>2, <1>4, <1>5, <2>2
    <3> QED BY <2>1, <2>2, <3>1
  <2>3. ASSUME h.type \in Final, NEW j \in 1..(n - 1) PROVE u[j].of = NoScan
    <3>1. j + 1 \in 1..n /\ 1 < j + 1 /\ u[j] = m[j + 1]
      BY <1>2, <1>4
    <3> QED BY <1>1, <1>4, <2>1, <2>3, <3>1
  <2> QED BY <1>2, <2>2, <2>3 DEF DoneLast, AllOf
<1>10. GraphFirst(m) => h.type \notin Final /\ (h.type # "graph" => GraphFirst(u))
  <2>1. GraphFirst(m) => h.type \notin Final
    <3> SUFFICES ASSUME GraphFirst(m), h.type \in Final PROVE FALSE
      OBVIOUS
    <3>1. PICK j \in 1..n : j < 1
      BY <1>1, <1>4 DEF GraphFirst
    <3> QED BY <3>1
  <2>2. ASSUME GraphFirst(m), h.type # "graph", NEW i \in 1..(n - 1), u[i].type \in Final
        PROVE  \E j \in 1..(n - 1) : j < i /\ u[j].type = "graph"
    <3>1. PICK k \in 1..n : k < i + 1 /\ m[k].type = "graph"
      BY <1>1, <1>2, <1>4, <2>2 DEF GraphFirst
    <3>2. PICK j \in 1..(n - 1) : k = j + 1
      BY <1>1, <1>3, <2>2, <3>1
    <3> QED BY <1>2, <1>5, <3>1, <3>2
  <2> QED BY <1>2, <2>1, <2>2 DEF GraphFirst
<1> QED BY <1>1, <1>2, <1>6, <1>7, <1>8, <1>9, <1>10 DEF u, h

LEMMA NoMail ==
  /\ << >> \in Seq(Post) /\ \A T : ~Has(<< >>, T)
  /\ \A W : AllOf(<< >>, W)
  /\ Signed(<< >>) /\ DoneLast(<< >>) /\ GraphFirst(<< >>)
BY DEF Has, AllOf, Signed, DoneLast, GraphFirst

\* A list of types that some post is of.
LEMMA MoreTypes ==
  ASSUME NEW m, NEW T, NEW S, T \subseteq S, Has(m, T)
  PROVE  Has(m, S)
BY DEF Has

-----------------------------------------------------------------------------
(* What is done to a thread *)

\* A thread, or a scan, with some fields changed, is one.
LEMMA WorkerType ==
  ASSUME NEW t \in Worker
  PROVE  /\ t.life \in {"unused", "alive", "ended"} /\ t.jobs \in Seq(Scan) /\ t.mail \in Seq(Post)
         /\ t.stage \in {"scan", "graph", "functions"} /\ t.standby \in BOOLEAN /\ t.killed \in BOOLEAN
         /\ \A m \in Seq(Post) : /\ [t EXCEPT !.mail = m] \in Worker /\ [t EXCEPT !.mail = m].mail = m
                                 /\ [t EXCEPT !.mail = m].life = t.life /\ [t EXCEPT !.mail = m].jobs = t.jobs
                                 /\ [t EXCEPT !.mail = m].stage = t.stage /\ [t EXCEPT !.mail = m].killed = t.killed
                                 /\ [t EXCEPT !.mail = m].standby = t.standby
BY DEF Worker

\* Posts of one type, and of two.
One(a) == <<a>>
Two(a, b) == <<a, b>>
PostOf(a, s) == [type |-> a, of |-> s]
Types == {"graph", "functions", "done", "retire", "error", "crash", "noStart", "exit"}
Authors == Scan \cup {NoScan}

LEMMA AllTypes ==
  /\ "graph" \in Types /\ "functions" \in Types /\ "done" \in Types /\ "retire" \in Types
  /\ "error" \in Types /\ "crash" \in Types /\ "noStart" \in Types /\ "exit" \in Types
  /\ \A a \in Final \cup Last : a \in Types
  /\ NoScan \in Authors /\ \A s \in Scan : s \in Authors
BY DEF Types, Authors, Final, Last

LEMMA PostOfIs ==
  ASSUME NEW s \in Authors,
         NEW a \in Types
  PROVE  PostOf(a, s) \in Post /\ PostOf(a, s).type = a /\ PostOf(a, s).of = s
BY DEF PostOf, Post, Types, Authors

LEMMA Posted ==
  ASSUME NEW t \in Worker, NEW s, NEW a, NEW b
  PROVE  /\ Posts(t, One(a), s) = [t EXCEPT !.mail = Append(t.mail, PostOf(a, s))]
         /\ Posts(t, Two(a, b), s) =
              [t EXCEPT !.mail = Append(Append(t.mail, PostOf(a, s)), PostOf(b, s))]
<1> DEFINE m == t.mail
           p(x) == PostOf(x, s)
<1>1. m \in Seq(Post)
  BY WorkerType
<1>2. \A e : Append(m, e) = m \o <<e>>
  BY <1>1
<1>3. \A x, y : Append(Append(m, x), y) = m \o <<x, y>>
  <2> SUFFICES ASSUME NEW x, NEW y PROVE Append(Append(m, x), y) = m \o <<x, y>>
    OBVIOUS
  <2> DEFINE S == Post \cup {x, y}
  <2> HIDE DEF m
  <2>1. m \in Seq(S) /\ <<x>> \in Seq(S) /\ <<y>> \in Seq(S)
    BY <1>1
  <2>2. (m \o <<x>>) \o <<y>> = m \o (<<x>> \o <<y>>)
    BY <2>1, ConcatAssociative
  <2>3. <<x>> \o <<y>> = <<x, y>>
    <3>1. <<x>> \o <<y>> = Append(<<x>>, y)
      BY <2>1, AppendIsConcat
    <3>2. Append(<<x>>, y) = <<x, y>>
      <4> DEFINE u == <<x>>
                 v == <<x, y>>
      <4>1. u \in Seq(S) /\ Len(u) = 1 /\ u[1] = x /\ v \in Seq(S) /\ Len(v) = 2 /\ v[1] = x /\ v[2] = y
        BY <2>1
      <4>2. y \in S /\ \A i \in 1..2 : i = 2 \/ (i \in 1..1 /\ i = 1)
        OBVIOUS
      <4> HIDE DEF u, v, S
      <4>3. Append(u, y) \in Seq(S) /\ Len(Append(u, y)) = 2 /\ Append(u, y)[1] = x /\ Append(u, y)[2] = y
        BY <4>1, <4>2, AppendProperties
      <4>4. Append(u, y) = v
        BY <4>1, <4>2, <4>3, SeqEqual
      <4> QED BY <4>4 DEF u, v
    <3> QED BY <3>1, <3>2
  <2>4. Append(m, x) = m \o <<x>> /\ m \o <<x>> \in Seq(S)
    BY <2>1
  <2>5. Append(Append(m, x), y) = (m \o <<x>>) \o <<y>>
    BY <2>1, <2>4
  <2> QED BY <2>2, <2>3, <2>5
<1> DEFINE one == [i \in DOMAIN <<a>> |-> [type |-> <<a>>[i], of |-> s]]
           two == [i \in DOMAIN <<a, b>> |-> [type |-> <<a, b>>[i], of |-> s]]
<1>4. one = <<p(a)>>
  BY DEF PostOf
<1>5. two = <<p(a), p(b)>>
  BY DEF PostOf
<1>6. Posts(t, One(a), s) = [t EXCEPT !.mail = m \o one] /\ Posts(t, Two(a, b), s) = [t EXCEPT !.mail = m \o two]
  BY DEF Posts, One, Two
<1> HIDE DEF one, two
<1>7. m \o one = Append(m, p(a)) /\ m \o two = Append(Append(m, p(a)), p(b))
  BY <1>2, <1>3, <1>4, <1>5
<1> QED BY <1>6, <1>7

LEMMA Speaks ==
  ASSUME NEW t \in Worker, NEW s \in Authors,
         NEW a \in Types
  PROVE  /\ Posts(t, One(a), s) \in Worker
         /\ Posts(t, One(a), s).mail = Append(t.mail, PostOf(a, s))
         /\ Posts(t, One(a), s).life = t.life /\ Posts(t, One(a), s).jobs = t.jobs
         /\ Posts(t, One(a), s).stage = t.stage /\ Posts(t, One(a), s).killed = t.killed
<1> DEFINE e == PostOf(a, s)
           m == Append(t.mail, e)
           u == [t EXCEPT !.mail = m]
<1>1. e \in Post /\ t.mail \in Seq(Post)
  BY WorkerType, PostOfIs, AllTypes
<1>2. Posts(t, One(a), s) = u
  BY Posted
<1> HIDE DEF e
<1>3. m \in Seq(Post)
  BY <1>1, AppendProperties
<1> HIDE DEF m
<1>4. u \in Worker /\ u.mail = m /\ u.life = t.life /\ u.jobs = t.jobs /\ u.stage = t.stage /\ u.killed = t.killed
  BY <1>3, WorkerType
<1> HIDE DEF u
<1> QED BY <1>2, <1>4 DEF m, e

LEMMA SpeaksTwice ==
  ASSUME NEW t \in Worker, NEW s \in Authors,
         NEW a \in Types,
         NEW b \in Types
  PROVE  /\ Posts(t, Two(a, b), s) \in Worker
         /\ Posts(t, Two(a, b), s).mail = Append(Append(t.mail, PostOf(a, s)), PostOf(b, s))
         /\ Posts(t, Two(a, b), s).life = t.life /\ Posts(t, Two(a, b), s).jobs = t.jobs
         /\ Posts(t, Two(a, b), s).stage = t.stage /\ Posts(t, Two(a, b), s).killed = t.killed
<1> DEFINE e == PostOf(a, s)
           f == PostOf(b, s)
           m == Append(Append(t.mail, e), f)
           u == [t EXCEPT !.mail = m]
<1>1. e \in Post /\ f \in Post /\ t.mail \in Seq(Post)
  BY WorkerType, PostOfIs, AllTypes
<1>2. Posts(t, Two(a, b), s) = u
  BY Posted
<1> HIDE DEF e, f
<1>3. m \in Seq(Post)
  <2>1. Append(t.mail, e) \in Seq(Post)
    BY <1>1, AppendProperties
  <2> QED BY <1>1, <2>1, AppendProperties
<1> HIDE DEF m
<1>4. u \in Worker /\ u.mail = m /\ u.life = t.life /\ u.jobs = t.jobs /\ u.stage = t.stage /\ u.killed = t.killed
  BY <1>3, WorkerType
<1> HIDE DEF u
<1> QED BY <1>2, <1>4 DEF m, e, f

\* The thread ends.
LEMMA EndsIs ==
  ASSUME NEW t \in Worker
  PROVE  /\ Ends(t) \in Worker /\ Ends(t).life = "ended" /\ Ends(t).jobs = << >> /\ Ends(t).stage = "scan"
         /\ Ends(t).killed = t.killed /\ Ends(t).mail = t.mail
<1>1. << >> \in Seq(Scan)
  OBVIOUS
<1> QED BY <1>1 DEF Ends, Worker

\* Its scan is over.
LEMMA NextJobIs ==
  ASSUME NEW t \in Worker, Tail(t.jobs) = << >>
  PROVE  /\ NextJob(t) \in Worker /\ NextJob(t).life = t.life /\ NextJob(t).jobs = << >> /\ NextJob(t).stage = "scan"
         /\ NextJob(t).killed = t.killed /\ NextJob(t).mail = t.mail
<1>1. << >> \in Seq(Scan)
  OBVIOUS
<1>2. NextJob(t) = [t EXCEPT !.jobs = << >>, !.stage = "scan"]
  BY DEF NextJob
<1> QED BY <1>1, <1>2 DEF Worker

\* worker.terminate() on any thread.
LEMMA TerminatedIs ==
  ASSUME NEW t \in Worker, OwnOK(t)
  PROVE  /\ Terminated(t) \in Worker /\ OwnOK(Terminated(t))
         /\ Terminated(t).life # "alive" /\ Terminated(t).jobs = << >>
         /\ t.life # "unused" => Terminated(t).life = "ended"
         /\ t.life # "alive" => Terminated(t) = t
         /\ t.life = "alive" => Has(Terminated(t).mail, {"exit"})
         /\ \A W : NoScan \in W /\ AllOf(t.mail, W) => AllOf(Terminated(t).mail, W)
         /\ \A T : Has(t.mail, T) => Has(Terminated(t).mail, T)
         /\ GraphFirst(t.mail) => GraphFirst(Terminated(t).mail)
<1> DEFINE e == PostOf("exit", NoScan)
           a == Append(t.mail, e)
<1>1. t.mail \in Seq(Post) /\ e \in Post /\ e.of = NoScan /\ e.type = "exit"
  BY WorkerType, PostOfIs, AllTypes DEF Last
<1>2. CASE t.life # "alive"
  <2>1. Terminated(t) = t
    BY <1>2 DEF Terminated
  <2>2. t.jobs = << >>
    BY <1>2 DEF OwnOK
  <2>3. t.life # "unused" => t.life = "ended"
    BY <1>2, WorkerType
  <2> QED BY <1>2, <2>1, <2>2, <2>3
<1>3. CASE t.life = "alive"
  <2>1. Terminated(t) = [Ends([t EXCEPT !.mail = a]) EXCEPT !.killed = TRUE]
    <3>1. Posts(t, One("exit"), NoScan) = [t EXCEPT !.mail = a]
      BY Posted
    <3> QED BY <1>3, <3>1 DEF Terminated, One
  <2> HIDE DEF e
  <2>2. /\ a \in Seq(Post) /\ (\A T : Has(a, T) <=> Has(t.mail, T) \/ e.type \in T)
        /\ (\A W : AllOf(a, W) <=> AllOf(t.mail, W) /\ e.of \in W)
        /\ (Signed(t.mail) => Signed(a)) /\ (DoneLast(t.mail) => DoneLast(a)) /\ (GraphFirst(t.mail) => GraphFirst(a))
    <3>1. (e.of = NoScan <=> e.type \in Last) /\ e.type \notin Final
      BY <1>1 DEF Last, Final
    <3> QED BY <1>1, <3>1, MailGrows
  <2> HIDE DEF a
  <2>3. PICK u \in Worker : /\ u = Terminated(t) /\ u.life = "ended" /\ u.jobs = << >> /\ u.stage = "scan"
                            /\ u.killed = TRUE /\ u.mail = a
    <3> DEFINE v == [t EXCEPT !.mail = a]
    <3>1. v \in Worker /\ v.mail = a
      BY <2>2, WorkerType
    <3> HIDE DEF v
    <3>2. << >> \in Seq(Scan)
      OBVIOUS
    <3>3. PICK x : x = [Ends(v) EXCEPT !.killed = TRUE]
      OBVIOUS
    <3>4. /\ x \in Worker /\ x.life = "ended" /\ x.jobs = << >> /\ x.stage = "scan" /\ x.killed = TRUE /\ x.mail = v.mail
      BY <3>1, <3>2, <3>3 DEF Ends, Worker
    <3> QED BY <2>1, <3>1, <3>3, <3>4 DEF v
  <2>4. Signed(t.mail) /\ DoneLast(t.mail) /\ (Has(t.mail, Final) => t.jobs = << >>)
    BY DEF OwnOK
  <2>5. OwnOK(u)
    BY <2>2, <2>3, <2>4 DEF OwnOK
  <2>6. Has(a, {"exit"})
    BY <1>1, <2>2
  <2> QED BY <1>1, <1>3, <2>2, <2>3, <2>5, <2>6
<1> QED BY <1>2, <1>3

\* The next post is taken from the mail; the exit is the last of it.
LEMMA Taken ==
  ASSUME NEW t \in Worker, OwnOK(t), t.mail # << >>,
         NEW h, h = Head(t.mail), NEW u, u = Shorter(t)
  PROVE  /\ h \in Post /\ u \in Worker /\ OwnOK(u)
         /\ u.life = t.life /\ u.jobs = t.jobs /\ u.stage = t.stage /\ u.killed = t.killed
         /\ h.type \in Last => t.life = "ended"
         /\ h.type \in Final => t.jobs = << >> /\ AllOf(u.mail, {NoScan})
         /\ h.of = NoScan <=> h.type \in Last
         /\ \A T : Has(t.mail, T) => h.type \in T \/ Has(u.mail, T)
         /\ \A W : AllOf(t.mail, W) => h.of \in W /\ AllOf(u.mail, W)
         /\ GraphFirst(t.mail) => h.type \notin Final /\ (h.type # "graph" => GraphFirst(u.mail))
<1> DEFINE m == t.mail
           v == Tail(m)
<1>1. m \in Seq(Post) /\ m # << >>
  BY WorkerType
<1>2. /\ h \in Post /\ v \in Seq(Post)
      /\ (\A T : Has(m, T) <=> h.type \in T \/ Has(v, T))
      /\ (\A W : AllOf(m, W) <=> h.of \in W /\ AllOf(v, W))
      /\ (Signed(m) => Signed(v) /\ (h.of = NoScan <=> h.type \in Last))
      /\ (DoneLast(m) => DoneLast(v) /\ (h.type \in Final => AllOf(v, {NoScan})))
      /\ (GraphFirst(m) => h.type \notin Final /\ (h.type # "graph" => GraphFirst(v)))
  <2>1. h = Head(m)
    OBVIOUS
  <2> HIDE DEF m
  <2> QED BY <1>1, <2>1, MailShrinks
<1>0. u = [t EXCEPT !.mail = v]
  BY DEF Shorter
<1> HIDE DEF v
<1>3. /\ u \in Worker /\ u.mail = v /\ u.life = t.life /\ u.jobs = t.jobs /\ u.stage = t.stage /\ u.killed = t.killed
  <2> DEFINE x == [t EXCEPT !.mail = v]
  <2>1. /\ x \in Worker /\ x.mail = v /\ x.life = t.life /\ x.jobs = t.jobs /\ x.stage = t.stage /\ x.killed = t.killed
    BY <1>2, WorkerType
  <2> HIDE DEF x
  <2>2. u = x
    BY <1>0 DEF x
  <2> QED BY <2>1, <2>2
<1>4. t.life # "unused"
  BY <1>1, WorkerType DEF OwnOK, Unborn
<1>5. Signed(m) /\ DoneLast(m) /\ (Has(m, Last) => t.life = "ended") /\ (Has(m, Final) => t.jobs = << >>)
  BY DEF OwnOK
<1>6. OwnOK(u)
  <2> HIDE DEF m
  <2>1. (t.life # "alive" => t.jobs = << >>) /\ (t.jobs = << >> => t.stage = "scan") /\ (t.killed => t.life = "ended")
    BY DEF OwnOK
  <2> QED BY <1>2, <1>3, <1>4, <1>5, <2>1 DEF OwnOK
<1>7. (h.type \in Last => t.life = "ended") /\ (h.type \in Final => t.jobs = << >>)
  BY <1>2, <1>5
<1> QED BY <1>2, <1>3, <1>5, <1>6, <1>7

-----------------------------------------------------------------------------
(* What is left to show of a step *)

\* One scan and one thread change, and perhaps the pool: the scan listens to no
\* other thread.
LEMMA Frame ==
  ASSUME NEW sc, NEW th, NEW p, NEW ga, PoolInv(sc, th, p, ga),
         NEW s \in Scan, NEW w \in Thread, NEW r \in Promised, NEW t \in Worker, NEW o \in PoolState, NEW g \in BOOLEAN,
         ga => g, sc[s].attached => sc[s].thread = w, r.attached => r.thread = w,
         OwnOK(t), LooseOK(r),
         r.attached => ServeOK(t, r, s, w, o) /\ (g \/ ~t.killed),
         \A q \in Scan : q # s /\ Serves(sc, w, q) => ~r.attached /\ ServeOK(t, sc[q], q, w, o) /\ (g \/ ~t.killed),
         ~r.attached /\ (\A q \in Scan : q # s => ~Serves(sc, w, q)) => IdleOK(t, w, o),
         o = p \/ o = NoPool \/ o.thread = w,
         o.thread # w => p.thread # w \/ o = NoPool,
         o # p => p.thread \in {w, NoThread},
         o.thread = w => (o.busy <=> (r.attached \/ \E q \in Scan : q # s /\ Serves(sc, w, q))) /\ (o.timer <=> ~o.busy)
  PROVE  PoolInv([sc EXCEPT ![s] = r], [th EXCEPT ![w] = t], o, g)
<1> DEFINE sd == [sc EXCEPT ![s] = r]
           td == [th EXCEPT ![w] = t]
<1>1. /\ sc \in [Scan -> Promised] /\ th \in [Thread -> Worker] /\ p \in PoolState /\ ga \in BOOLEAN
      /\ \A v \in Thread : OwnOK(th[v]) /\ (~Used(sc, v) => IdleOK(th[v], v, p))
      /\ \A q \in Scan : LooseOK(sc[q])
      /\ \A q \in Scan, v \in Thread : Serves(sc, v, q) => ServeOK(th[v], sc[q], q, v, p) /\ (ga \/ ~th[v].killed)
      /\ \A q, x \in Scan, v \in Thread : Serves(sc, v, q) /\ Serves(sc, v, x) => x = q
      /\ PoolOK(sc, p)
  BY DEF PoolInv
<1>2. /\ sd \in [Scan -> Promised] /\ td \in [Thread -> Worker]
      /\ sd[s] = r /\ td[w] = t
      /\ \A q \in Scan : q # s => sd[q] = sc[q]
      /\ \A v \in Thread : v # w => td[v] = th[v]
  BY <1>1
<1> HIDE DEF sd, td
<1>3. \A q \in Scan, v \in Thread : Serves(sd, v, q) <=> IF q = s THEN r.attached /\ v = w ELSE Serves(sc, v, q)
  BY <1>2 DEF Serves
<1>4. \A v \in Thread : v # w => (Used(sd, v) <=> Used(sc, v))
  <2>1. \A v \in Thread : v # w => ~Serves(sc, v, s)
    BY DEF Serves
  <2> QED BY <1>3, <2>1 DEF Used
<1>5. Used(sd, w) <=> r.attached \/ \E q \in Scan : q # s /\ Serves(sc, w, q)
  BY <1>3 DEF Used
<1>6. \A v \in Thread : v # w => (o.thread = v <=> p.thread = v)
  BY ScanPoolAssumption DEF NoPool
<1>7. ASSUME NEW v \in Thread PROVE OwnOK(td[v]) /\ (~Used(sd, v) => IdleOK(td[v], v, o))
  <2>1. CASE v = w
    BY <1>2, <1>5, <2>1
  <2>2. CASE v # w
    <3>1. td[v] = th[v] /\ OwnOK(th[v]) /\ (~Used(sd, v) => IdleOK(th[v], v, p))
      BY <1>1, <1>2, <1>4, <2>2
    <3>2. IdleOK(th[v], v, p) => IdleOK(th[v], v, o)
      BY <1>6, <2>2 DEF IdleOK
    <3> QED BY <3>1, <3>2
  <2> QED BY <2>1, <2>2
<1>8. \A q \in Scan : LooseOK(sd[q])
  BY <1>1, <1>2
<1>9. ASSUME NEW q \in Scan, NEW v \in Thread, Serves(sd, v, q)
      PROVE  ServeOK(td[v], sd[q], q, v, o) /\ (g \/ ~td[v].killed)
  <2>1. CASE q = s
    BY <1>2, <1>3, <1>9, <2>1
  <2>2. CASE q # s /\ v = w
    BY <1>2, <1>3, <1>9, <2>2
  <2>3. CASE q # s /\ v # w
    <3>1. td[v] = th[v] /\ sd[q] = sc[q] /\ ServeOK(th[v], sc[q], q, v, p) /\ (ga \/ ~th[v].killed)
      BY <1>1, <1>2, <1>3, <1>9, <2>3
    <3>2. ServeOK(th[v], sc[q], q, v, p) => ServeOK(th[v], sc[q], q, v, o)
      BY <1>6, <2>3 DEF ServeOK
    <3> QED BY <3>1, <3>2
  <2> QED BY <2>1, <2>2, <2>3
<1>10. \A q, x \in Scan, v \in Thread : Serves(sd, v, q) /\ Serves(sd, v, x) => x = q
  BY <1>1, <1>3
<1>11. PoolOK(sd, o)
  <2>1. CASE o.thread = w
    BY <1>5, <2>1, ScanPoolAssumption DEF PoolOK
  <2>2. CASE o = NoPool
    BY <2>2 DEF PoolOK, NoPool
  <2>3. CASE o = p /\ o.thread # w
    <3>1. p.thread \in Thread \cup {NoThread}
      BY <1>1 DEF PoolState
    <3> QED BY <1>1, <1>4, <2>3, <3>1 DEF PoolOK
  <2> QED BY <2>1, <2>2, <2>3
<1> QED BY <1>2, <1>7, <1>8, <1>9, <1>10, <1>11 DEF PoolInv, sd, td

\* One thread changes that no scan listens to, and perhaps the pool.
LEMMA FrameIdle ==
  ASSUME NEW sc, NEW th, NEW p, NEW ga, PoolInv(sc, th, p, ga),
         NEW w \in Thread, NEW t \in Worker, NEW o \in PoolState,
         ~Used(sc, w), OwnOK(t), IdleOK(t, w, o),
         o = p \/ o = NoPool \/ o.thread = w,
         o.thread # w => p.thread # w \/ o = NoPool,
         o # p => p.thread \in {w, NoThread},
         o.thread = w => ~o.busy /\ o.timer
  PROVE  PoolInv(sc, [th EXCEPT ![w] = t], o, ga)
<1> DEFINE td == [th EXCEPT ![w] = t]
<1>1. /\ sc \in [Scan -> Promised] /\ th \in [Thread -> Worker] /\ p \in PoolState /\ ga \in BOOLEAN
      /\ \A v \in Thread : OwnOK(th[v]) /\ (~Used(sc, v) => IdleOK(th[v], v, p))
      /\ \A q \in Scan : LooseOK(sc[q])
      /\ \A q \in Scan, v \in Thread : Serves(sc, v, q) => ServeOK(th[v], sc[q], q, v, p) /\ (ga \/ ~th[v].killed)
      /\ \A q, x \in Scan, v \in Thread : Serves(sc, v, q) /\ Serves(sc, v, x) => x = q
      /\ PoolOK(sc, p)
  BY DEF PoolInv
<1>2. td \in [Thread -> Worker] /\ td[w] = t /\ \A v \in Thread : v # w => td[v] = th[v]
  BY <1>1
<1> HIDE DEF td
<1>3. \A v \in Thread : v # w => (o.thread = v <=> p.thread = v)
  BY ScanPoolAssumption DEF NoPool
<1>4. ASSUME NEW v \in Thread PROVE OwnOK(td[v]) /\ (~Used(sc, v) => IdleOK(td[v], v, o))
  <2>1. CASE v = w
    BY <1>2, <2>1
  <2>2. CASE v # w
    <3>1. td[v] = th[v] /\ OwnOK(th[v]) /\ (~Used(sc, v) => IdleOK(th[v], v, p))
      BY <1>1, <1>2, <2>2
    <3>2. IdleOK(th[v], v, p) => IdleOK(th[v], v, o)
      BY <1>3, <2>2 DEF IdleOK
    <3> QED BY <3>1, <3>2
  <2> QED BY <2>1, <2>2
<1>5. ASSUME NEW q \in Scan, NEW v \in Thread, Serves(sc, v, q)
      PROVE  ServeOK(td[v], sc[q], q, v, o) /\ (ga \/ ~td[v].killed)
  <2>1. v # w
    BY <1>5 DEF Used
  <2>2. td[v] = th[v] /\ ServeOK(th[v], sc[q], q, v, p) /\ (ga \/ ~th[v].killed)
    BY <1>1, <1>2, <1>5, <2>1
  <2>3. ServeOK(th[v], sc[q], q, v, p) => ServeOK(th[v], sc[q], q, v, o)
    BY <1>3, <2>1 DEF ServeOK
  <2> QED BY <2>2, <2>3
<1>6. PoolOK(sc, o)
  <2>1. CASE o.thread = w
    BY <2>1, ScanPoolAssumption DEF PoolOK
  <2>2. CASE o = NoPool
    BY <2>2 DEF PoolOK, NoPool
  <2>3. CASE o = p
    BY <1>1, <2>3
  <2> QED BY <2>1, <2>2, <2>3
<1> QED BY <1>1, <1>2, <1>4, <1>5, <1>6 DEF PoolInv, td

-----------------------------------------------------------------------------
(* What the threads post *)

\* A thread that works speaks of its scan.
LEMMA Spoken ==
  ASSUME NEW s \in Scan, NEW w, NEW p, NEW r, NEW t \in Worker, OwnOK(t), ServeOK(t, r, s, w, p),
         t.life = "alive", t.jobs = <<s>>,
         NEW a \in {"graph", "functions", "error"} \cup Final, NEW u \in Worker,
         u.life = "alive", u.killed = t.killed, u.mail = Append(t.mail, PostOf(a, s)),
         a \in {"graph", "functions"} => u.jobs = <<s>>,
         a \in {"error"} \cup Final => u.jobs = << >> /\ u.stage = "scan",
         a \in {"functions"} \cup Final => t.stage # "scan"
  PROVE  OwnOK(u) /\ ServeOK(u, r, s, w, p)
<1> DEFINE e == PostOf(a, s)
           m == t.mail
<1>1. e \in Post /\ e.type = a /\ e.of = s /\ s # NoScan /\ a \notin Last
  BY PostOfIs, AllTypes, ScanPoolAssumption DEF Final, Last
<1>2. m \in Seq(Post)
  BY WorkerType
<1>3. u.mail = Append(m, e)
  OBVIOUS
<1> HIDE DEF e, m
<1>4. /\ (\A T : Has(u.mail, T) <=> Has(m, T) \/ a \in T)
      /\ (\A W : AllOf(u.mail, W) <=> AllOf(m, W) /\ s \in W)
      /\ (Signed(m) => Signed(u.mail)) /\ (DoneLast(m) /\ ~Has(m, Final) => DoneLast(u.mail))
      /\ (GraphFirst(m) /\ (a \notin Final \/ Has(m, {"graph"})) => GraphFirst(u.mail))
  <2> DEFINE v == Append(m, e)
  <2>1. (e.of = NoScan <=> e.type \in Last) /\ (e.of = NoScan \/ ~Has(m, Final) <=> ~Has(m, Final))
    BY <1>1
  <2>2. /\ (\A T : Has(v, T) <=> Has(m, T) \/ e.type \in T)
        /\ (\A W : AllOf(v, W) <=> AllOf(m, W) /\ e.of \in W)
        /\ (Signed(m) => Signed(v)) /\ (DoneLast(m) /\ ~Has(m, Final) => DoneLast(v))
        /\ (GraphFirst(m) /\ (e.type \notin Final \/ Has(m, {"graph"})) => GraphFirst(v))
    BY <1>1, <1>2, <2>1, MailGrows
  <2> HIDE DEF v
  <2>3. u.mail = v
    BY <1>3 DEF v
  <2> QED BY <1>1, <2>2, <2>3
<1>5. t.jobs # << >>
  OBVIOUS
<1>6. Signed(m) /\ DoneLast(m) /\ ~Has(m, Last) /\ ~Has(m, Final) /\ ~t.killed
  BY <1>5 DEF OwnOK, m
<1>7. Signed(u.mail) /\ DoneLast(u.mail) /\ ~Has(u.mail, Last) /\ (Has(u.mail, Final) => a \in Final)
  BY <1>1, <1>4, <1>6
<1>8. u.jobs \in {<< >>, <<s>>} /\ (u.jobs = << >> => u.stage = "scan") /\ (a \in Final => u.jobs = << >>)
      /\ (u.stage # "scan" => a \in {"graph", "functions"})
  <2>1. a \in {"graph", "functions"} \/ a \in {"error"} \cup Final
    OBVIOUS
  <2> QED BY <1>5, <2>1
<1>9. OwnOK(u)
  BY <1>6, <1>7, <1>8 DEF OwnOK
<1>10. AllOf(u.mail, {s, NoScan})
  BY <1>4 DEF ServeOK, m
<1>11. ASSUME r.graph = "none" PROVE GraphFirst(u.mail) /\ (u.stage # "scan" => Has(u.mail, {"graph"}))
  <2>1. GraphFirst(m) /\ (t.stage # "scan" => Has(m, {"graph"}))
    BY <1>11 DEF ServeOK, m
  <2>2. a \in {"functions"} \cup Final => Has(m, {"graph"})
    BY <2>1
  <2>3. a = "functions" => Has(u.mail, {"graph"})
    BY <1>4, <2>2
  <2>4. a = "graph" => Has(u.mail, {"graph"})
    BY <1>4
  <2> QED BY <1>4, <1>8, <2>1, <2>2, <2>3, <2>4
<1>12. ASSUME r.graph = "none", r.promise = "pending" PROVE u.jobs # << >> \/ Has(u.mail, {"graph", "error"} \cup Last)
  <2>1. CASE a \in {"graph", "error"}
    BY <1>4, <2>1
  <2>2. CASE a = "functions"
    BY <1>5, <2>2
  <2>3. CASE a \in Final
    <3>1. Has(m, {"graph"})
      BY <1>12, <2>3 DEF ServeOK, m
    <3>2. Has(u.mail, {"graph"})
      BY <1>4, <3>1
    <3> QED BY <3>2, MoreTypes
  <2> QED BY <2>1, <2>2, <2>3
<1>13. ASSUME r.functions = "open" PROVE u.jobs # << >> \/ Has(u.mail, {"functions", "error"} \cup Final \cup Last)
  <2>1. a = "graph" \/ a \in {"functions", "error"} \cup Final \cup Last
    OBVIOUS
  <2> QED BY <1>4, <1>5, <2>1
<1>14. ~u.killed /\ u.life # "unused" /\ u.life # "ended" /\ r.promise \in {"pending", "resolved"}
  BY <1>6 DEF ServeOK
<1> QED BY <1>8, <1>9, <1>10, <1>11, <1>12, <1>13, <1>14 DEF ServeOK

\* A thread that lived ends, by itself or with a crash.
LEMMA Ended ==
  ASSUME NEW w, NEW p, NEW t \in Worker, OwnOK(t), t.life = "alive", NEW u \in Worker,
         u.life = "ended", u.jobs = << >>, u.stage = "scan", u.killed = t.killed,
         NEW e \in Post, e.of = NoScan, e.type \in Last,
         u.mail = Append(t.mail, PostOf("exit", NoScan))
           \/ u.mail = Append(Append(t.mail, e), PostOf("exit", NoScan))
  PROVE  /\ OwnOK(u)
         /\ \A r, s : ServeOK(t, r, s, w, p) => ServeOK(u, r, s, w, p)
         /\ IdleOK(t, w, p) => IdleOK(u, w, p)
<1> DEFINE x == PostOf("exit", NoScan)
           m == t.mail
<1>1. x \in Post /\ x.type = "exit" /\ x.of = NoScan /\ x.type \in Last /\ x.type \notin Final /\ e.type \notin Final
  BY PostOfIs, AllTypes DEF Final, Last
<1>2. m \in Seq(Post)
  BY WorkerType
<1> HIDE DEF x
<1>3. \A n \in Seq(Post), y \in {x, e} :
        /\ Append(n, y) \in Seq(Post)
        /\ (\A T : Has(Append(n, y), T) <=> Has(n, T) \/ y.type \in T)
        /\ (\A W : AllOf(Append(n, y), W) <=> AllOf(n, W) /\ y.of \in W)
        /\ (Signed(n) => Signed(Append(n, y))) /\ (DoneLast(n) => DoneLast(Append(n, y)))
        /\ (GraphFirst(n) => GraphFirst(Append(n, y)))
  BY <1>1, MailGrows
<1>4. /\ \A T : Has(m, T) => Has(u.mail, T)
      /\ Has(u.mail, {"exit"}) /\ \A T : Has(u.mail, T) => Has(m, T) \/ x.type \in T \/ e.type \in T
      /\ \A W : AllOf(m, W) /\ NoScan \in W => AllOf(u.mail, W)
      /\ Signed(m) => Signed(u.mail)
      /\ DoneLast(m) => DoneLast(u.mail)
      /\ GraphFirst(m) => GraphFirst(u.mail)
  <2>1. CASE u.mail = Append(m, x)
    BY <1>1, <1>2, <1>3, <2>1
  <2>2. CASE u.mail = Append(Append(m, e), x)
    <3> DEFINE n == Append(m, e)
    <3>1. /\ n \in Seq(Post)
          /\ (\A T : Has(n, T) <=> Has(m, T) \/ e.type \in T)
          /\ (\A W : AllOf(n, W) <=> AllOf(m, W) /\ e.of \in W)
          /\ (Signed(m) => Signed(n)) /\ (DoneLast(m) => DoneLast(n)) /\ (GraphFirst(m) => GraphFirst(n))
      BY <1>2, <1>3
    <3>2. u.mail = Append(n, x)
      BY <2>2
    <3> HIDE DEF n
    <3> QED BY <1>1, <1>3, <3>1, <3>2
  <2> QED BY <2>1, <2>2 DEF x
<1> HIDE DEF m
<1>5. OwnOK(u)
  <2>1. Signed(m) /\ DoneLast(m)
    BY DEF OwnOK, m
  <2> QED BY <1>4, <2>1 DEF OwnOK
<1>6. \A r, s : ServeOK(t, r, s, w, p) => ServeOK(u, r, s, w, p)
  <2> SUFFICES ASSUME NEW r, NEW s, ServeOK(t, r, s, w, p) PROVE ServeOK(u, r, s, w, p)
    OBVIOUS
  <2>1. AllOf(m, {s, NoScan}) /\ (r.graph = "none" => GraphFirst(m)) /\ r.promise \in {"pending", "resolved"}
        /\ (p.thread = w => ~t.killed)
    BY DEF ServeOK, m
  <2>2. \A T : "exit" \in T => Has(u.mail, T)
    <3> SUFFICES ASSUME NEW T, "exit" \in T PROVE Has(u.mail, T)
      OBVIOUS
    <3> QED BY <1>4, MoreTypes
  <2>3. "exit" \in Last
    BY DEF Last
  <2> QED BY <1>4, <2>1, <2>2, <2>3 DEF ServeOK
<1>7. IdleOK(t, w, p) => IdleOK(u, w, p)
  BY <1>4 DEF IdleOK, m
<1> QED BY <1>5, <1>6, <1>7

LEMMA PoolParts ==
  ASSUME NEW sc, NEW th, NEW p, NEW ga, PoolInv(sc, th, p, ga)
  PROVE  /\ sc \in [Scan -> Promised] /\ th \in [Thread -> Worker] /\ p \in PoolState /\ ga \in BOOLEAN
         /\ \A w \in Thread : OwnOK(th[w]) /\ (~Used(sc, w) => IdleOK(th[w], w, p))
         /\ \A s \in Scan : LooseOK(sc[s])
         /\ \A s \in Scan, w \in Thread : Serves(sc, w, s) => ServeOK(th[w], sc[s], s, w, p) /\ (ga \/ ~th[w].killed)
         /\ \A s, q \in Scan, w \in Thread : Serves(sc, w, s) /\ Serves(sc, w, q) => q = s
         /\ PoolOK(sc, p)
BY DEF PoolInv

\* The pool stays.
LEMMA FrameStay ==
  ASSUME NEW sc, NEW th, NEW p, NEW ga, PoolInv(sc, th, p, ga),
         NEW s \in Scan, NEW w \in Thread, NEW r \in Promised, NEW t \in Worker, p \in PoolState,
         ga \in BOOLEAN, sc[s].attached => sc[s].thread = w, r.attached => r.thread = w,
         OwnOK(t), LooseOK(r),
         r.attached => ServeOK(t, r, s, w, p) /\ (ga \/ ~t.killed),
         \A q \in Scan : q # s /\ Serves(sc, w, q) => ~r.attached /\ ServeOK(t, sc[q], q, w, p) /\ (ga \/ ~t.killed),
         ~r.attached /\ (\A q \in Scan : q # s => ~Serves(sc, w, q)) => IdleOK(t, w, p),
         p.thread = w => (p.busy <=> (r.attached \/ \E q \in Scan : q # s /\ Serves(sc, w, q))) /\ (p.timer <=> ~p.busy)
  PROVE  PoolInv([sc EXCEPT ![s] = r], [th EXCEPT ![w] = t], p, ga)
BY Frame

\* Only a thread in use changes.
LEMMA FrameWork ==
  ASSUME NEW sc, NEW th, NEW p, NEW ga, PoolInv(sc, th, p, ga),
         NEW s \in Scan, NEW w \in Thread, Serves(sc, w, s), NEW t \in Worker, OwnOK(t),
         ServeOK(t, sc[s], s, w, p), ga \/ ~t.killed
  PROVE  PoolInv(sc, [th EXCEPT ![w] = t], p, ga)
<1>1. sc \in [Scan -> Promised] /\ p \in PoolState /\ ga \in BOOLEAN /\ sc[s] \in Promised /\ LooseOK(sc[s])
      /\ \A q \in Scan : q # s => ~Serves(sc, w, q)
  BY PoolParts
<1>2. sc[s].attached /\ sc[s].thread = w
  BY DEF Serves
<1>3. p.thread = w => (p.busy <=> sc[s].attached) /\ (p.timer <=> ~p.busy)
  <2>1. PoolOK(sc, p) /\ Used(sc, w)
    BY PoolParts DEF Used
  <2> QED BY <1>2, <2>1, ScanPoolAssumption DEF PoolOK
<1>4. PoolInv([sc EXCEPT ![s] = sc[s]], [th EXCEPT ![w] = t], p, ga)
  <2>1. PICK r \in Promised : r = sc[s]
    BY <1>1
  <2>2. r.attached /\ r.thread = w /\ LooseOK(r) /\ ServeOK(t, r, s, w, p)
    BY <1>1, <1>2, <2>1
  <2>3. p.thread = w => (p.busy <=> (r.attached \/ \E q \in Scan : q # s /\ Serves(sc, w, q))) /\ (p.timer <=> ~p.busy)
    BY <1>2, <1>3, <2>1
  <2>4. PoolInv([sc EXCEPT ![s] = r], [th EXCEPT ![w] = t], p, ga)
    <3>1. sc[s].attached => sc[s].thread = w
      BY <1>2
    <3>2. r.attached => r.thread = w
      BY <2>2
    <3>3. r.attached => ServeOK(t, r, s, w, p) /\ (ga \/ ~t.killed)
      BY <2>2
    <3>4. \A q \in Scan : q # s /\ Serves(sc, w, q) => ~r.attached /\ ServeOK(t, sc[q], q, w, p) /\ (ga \/ ~t.killed)
      BY <1>1
    <3>5. ~r.attached /\ (\A q \in Scan : q # s => ~Serves(sc, w, q)) => IdleOK(t, w, p)
      BY <2>2
    <3>6. LooseOK(r) /\ p \in PoolState /\ ga \in BOOLEAN
      BY <1>1, <2>2
    <3> QED BY <2>3, <3>1, <3>2, <3>3, <3>4, <3>5, <3>6, FrameStay
  <2> QED BY <2>1, <2>4
<1>5. [sc EXCEPT ![s] = sc[s]] = sc
  BY <1>1
<1> QED BY <1>4, <1>5

LEMMA Worked ==
  ASSUME PoolInv(scan, thread, pool, garbled), NEW w \in Thread, Working(w)
  PROVE  /\ Job(w) \in Scan /\ Serves(scan, w, Job(w)) /\ thread[w].jobs = <<Job(w)>> /\ Tail(thread[w].jobs) = << >>
         /\ thread[w] \in Worker /\ thread[w].life = "alive" /\ OwnOK(thread[w])
         /\ ServeOK(thread[w], scan[Job(w)], Job(w), w, pool) /\ ~thread[w].killed
<1>1. thread[w].life = "alive" /\ thread[w].jobs # << >>
  BY DEF Working
<1>2. Used(scan, w) /\ thread[w] \in Worker /\ OwnOK(thread[w])
  BY <1>1, PoolParts DEF IdleOK
<1>3. PICK s \in Scan : Serves(scan, w, s)
  BY <1>2 DEF Used
<1>4. ServeOK(thread[w], scan[s], s, w, pool)
  BY <1>3, PoolParts
<1>5. thread[w].jobs = <<s>>
  BY <1>1, <1>4 DEF ServeOK
<1>6. Job(w) = s /\ Tail(thread[w].jobs) = << >>
  BY <1>5 DEF Job
<1>7. ~thread[w].killed
  BY <1>1, <1>2 DEF OwnOK
<1> QED BY <1>1, <1>2, <1>3, <1>4, <1>5, <1>6, <1>7

-----------------------------------------------------------------------------
(* The threads keep the invariant *)

Before == PoolInv(scan, thread, pool, garbled)
After == PoolInv(scan', thread', pool', garbled')

LEMMA PostsKeep ==
  ASSUME Before, NEW w \in Thread, PostGraph(w) \/ PostFunctions(w) \/ PostError(w)
  PROVE  After
<1> DEFINE s == Job(w)
           t == thread[w]
<1>1. Working(w)
  BY DEF PostGraph, PostFunctions, PostError
<1>2. /\ s \in Scan /\ Serves(scan, w, s) /\ t.jobs = <<s>> /\ Tail(t.jobs) = << >>
      /\ t \in Worker /\ t.life = "alive" /\ OwnOK(t) /\ ServeOK(t, scan[s], s, w, pool) /\ ~t.killed
  BY <1>1, Worked DEF Before
<1>3. UNCHANGED <<scan, pool, garbled>>
  BY DEF PostGraph, PostFunctions, PostError
<1>4. ASSUME NEW a \in {"graph", "functions", "error"} \cup Final, NEW u \in Worker, thread' = [thread EXCEPT ![w] = u],
             u.life = "alive", u.killed = t.killed, u.mail = Append(t.mail, PostOf(a, s)),
             a \in {"graph", "functions"} => u.jobs = <<s>>,
             a \in {"error"} \cup Final => u.jobs = << >> /\ u.stage = "scan",
             a \in {"functions"} \cup Final => t.stage # "scan"
      PROVE  After
  <2> HIDE DEF s, t
  <2>1. OwnOK(u) /\ ServeOK(u, scan[s], s, w, pool)
    BY <1>2, <1>4, Spoken
  <2>2. PoolInv(scan, [thread EXCEPT ![w] = u], pool, garbled)
    BY <1>2, <1>4, <2>1, FrameWork DEF Before
  <2> QED BY <1>3, <1>4, <2>2 DEF After
<1>6. CASE PostGraph(w)
  <2> DEFINE v == [t EXCEPT !.stage = "graph"]
             u == Posts(v, One("graph"), s)
  <2>1. thread' = [thread EXCEPT ![w] = u]
    BY <1>6 DEF PostGraph, One
  <2>2. v \in Worker /\ v.life = "alive" /\ v.jobs = <<s>> /\ v.mail = t.mail /\ v.killed = t.killed
    BY <1>2 DEF Worker
  <2>3. u \in Worker /\ u.life = "alive" /\ u.jobs = <<s>> /\ u.killed = t.killed
        /\ u.mail = Append(t.mail, PostOf("graph", s))
    <3> HIDE DEF v, s, t
    <3>1. s \in Authors
      BY <1>2, AllTypes
    <3>2. "graph" \in Types
      BY AllTypes
    <3>3. v \in Worker
      BY <2>2
    <3>4. /\ Posts(v, One("graph"), s) \in Worker
          /\ Posts(v, One("graph"), s).mail = Append(v.mail, PostOf("graph", s))
          /\ Posts(v, One("graph"), s).life = v.life /\ Posts(v, One("graph"), s).jobs = v.jobs
          /\ Posts(v, One("graph"), s).stage = v.stage /\ Posts(v, One("graph"), s).killed = v.killed
      BY <3>1, <3>2, <3>3, Speaks
    <3> QED BY <2>2, <3>4
  <2> HIDE DEF u
  <2> QED BY <1>4, <2>1, <2>3 DEF Final
<1>7. CASE PostFunctions(w)
  <2> DEFINE v == [t EXCEPT !.stage = "functions"]
             u == Posts(v, One("functions"), s)
  <2>1. thread' = [thread EXCEPT ![w] = u] /\ t.stage = "graph"
    BY <1>7 DEF PostFunctions, One
  <2>2. v \in Worker /\ v.life = "alive" /\ v.jobs = <<s>> /\ v.mail = t.mail /\ v.killed = t.killed
    BY <1>2 DEF Worker
  <2>3. u \in Worker /\ u.life = "alive" /\ u.jobs = <<s>> /\ u.killed = t.killed
        /\ u.mail = Append(t.mail, PostOf("functions", s))
    <3> HIDE DEF v, s, t
    <3>1. s \in Authors
      BY <1>2, AllTypes
    <3>2. "functions" \in Types
      BY AllTypes
    <3>3. v \in Worker
      BY <2>2
    <3>4. /\ Posts(v, One("functions"), s) \in Worker
          /\ Posts(v, One("functions"), s).mail = Append(v.mail, PostOf("functions", s))
          /\ Posts(v, One("functions"), s).life = v.life /\ Posts(v, One("functions"), s).jobs = v.jobs
          /\ Posts(v, One("functions"), s).stage = v.stage /\ Posts(v, One("functions"), s).killed = v.killed
      BY <3>1, <3>2, <3>3, Speaks
    <3> QED BY <2>2, <3>4
  <2> HIDE DEF u
  <2> QED BY <1>4, <2>1, <2>3 DEF Final
<1>8. CASE PostError(w)
  <2> DEFINE v == NextJob(t)
             u == Posts(v, One("error"), s)
  <2>1. thread' = [thread EXCEPT ![w] = u]
    BY <1>8 DEF PostError, One
  <2>2. v \in Worker /\ v.life = "alive" /\ v.jobs = << >> /\ v.mail = t.mail /\ v.killed = t.killed /\ v.stage = "scan"
    <3> HIDE DEF t
    <3> QED BY <1>2, NextJobIs
  <2>3. u \in Worker /\ u.life = "alive" /\ u.jobs = << >> /\ u.stage = "scan" /\ u.killed = t.killed
        /\ u.mail = Append(t.mail, PostOf("error", s))
    <3> HIDE DEF v, s, t
    <3>1. s \in Authors
      BY <1>2, AllTypes
    <3>2. "error" \in Types
      BY AllTypes
    <3>3. v \in Worker
      BY <2>2
    <3>4. /\ Posts(v, One("error"), s) \in Worker
          /\ Posts(v, One("error"), s).mail = Append(v.mail, PostOf("error", s))
          /\ Posts(v, One("error"), s).life = v.life /\ Posts(v, One("error"), s).jobs = v.jobs
          /\ Posts(v, One("error"), s).stage = v.stage /\ Posts(v, One("error"), s).killed = v.killed
      BY <3>1, <3>2, <3>3, Speaks
    <3> QED BY <2>2, <3>4
  <2> HIDE DEF u
  <2>4. "error" \notin {"graph", "functions"} /\ "error" \notin {"functions"} \cup Final
    BY DEF Final
  <2> QED BY <1>4, <2>1, <2>3, <2>4
<1> QED BY <1>6, <1>7, <1>8

\* The last post of a scan; the thread may end with it.
LEMMA DoneKeeps ==
  ASSUME Before, NEW w \in Thread, NEW retire \in BOOLEAN, PostDone(w, retire)
  PROVE  After
<1> DEFINE s == Job(w)
           t == thread[w]
           a == IF retire THEN "retire" ELSE "done"
           v == NextJob(t)
           u == Posts(v, One(a), s)
           x == Ends(Posts(u, One("exit"), NoScan))
<1>1. Working(w) /\ t.stage # "scan" /\ UNCHANGED <<scan, pool, garbled>>
      /\ thread' = [thread EXCEPT ![w] = IF retire /\ ~scan[s].oneShot THEN x ELSE u]
  BY DEF PostDone, One
<1>2. /\ s \in Scan /\ Serves(scan, w, s) /\ t.jobs = <<s>> /\ Tail(t.jobs) = << >>
      /\ t \in Worker /\ t.life = "alive" /\ OwnOK(t) /\ ServeOK(t, scan[s], s, w, pool) /\ ~t.killed
  BY <1>1, Worked DEF Before
<1>3. a \in Final
  BY DEF Final
<1>4. v \in Worker /\ v.life = "alive" /\ v.jobs = << >> /\ v.mail = t.mail /\ v.killed = t.killed /\ v.stage = "scan"
  <2> HIDE DEF t
  <2> QED BY <1>2, NextJobIs
<1>6. u \in Worker /\ u.life = "alive" /\ u.jobs = << >> /\ u.stage = "scan" /\ u.killed = t.killed
      /\ u.mail = Append(t.mail, PostOf(a, s))
  <2> HIDE DEF v, a, s, t
  <2>1. a \in Types
    BY <1>3, AllTypes
  <2>2. s \in Authors
    BY <1>2, AllTypes
  <2>3. v \in Worker
    BY <1>4
  <2>4. /\ Posts(v, One(a), s) \in Worker
        /\ Posts(v, One(a), s).mail = Append(v.mail, PostOf(a, s))
        /\ Posts(v, One(a), s).life = v.life /\ Posts(v, One(a), s).jobs = v.jobs
        /\ Posts(v, One(a), s).stage = v.stage /\ Posts(v, One(a), s).killed = v.killed
    BY <2>1, <2>2, <2>3, Speaks
  <2> QED BY <1>4, <2>4
<1> HIDE DEF v, a, u
<1>7. OwnOK(u) /\ ServeOK(u, scan[s], s, w, pool)
  <2> HIDE DEF s, t
  <2>1. a \notin {"graph", "functions"}
    BY <1>3 DEF Final
  <2> QED BY <1>1, <1>2, <1>3, <1>6, <2>1, Spoken
<1>8. /\ x \in Worker /\ x.life = "ended" /\ x.jobs = << >> /\ x.stage = "scan" /\ x.killed = u.killed
      /\ x.mail = Append(u.mail, PostOf("exit", NoScan))
  <2> DEFINE y == Posts(u, One("exit"), NoScan)
  <2>1. y \in Worker /\ y.mail = Append(u.mail, PostOf("exit", NoScan)) /\ y.killed = u.killed
    BY <1>6, Speaks, AllTypes
  <2>2. x = Ends(y)
    OBVIOUS
  <2> HIDE DEF x, y
  <2> QED BY <2>1, <2>2, EndsIs
<1> HIDE DEF x
<1>9. OwnOK(x) /\ ServeOK(x, scan[s], s, w, pool)
  <2> HIDE DEF s
  <2>1. PICK e \in Post : e.of = NoScan /\ e.type \in Last
    <3>1. PostOf("exit", NoScan) \in Post
      BY PostOfIs, AllTypes
    <3> QED BY PostOfIs, AllTypes, <3>1 DEF Last
  <2>2. /\ OwnOK(x)
        /\ \A r, q : ServeOK(u, r, q, w, pool) => ServeOK(x, r, q, w, pool)
    BY <1>6, <1>7, <1>8, <2>1, Ended
  <2> QED BY <1>7, <2>2
<1>10. PICK y \in Worker : thread' = [thread EXCEPT ![w] = y] /\ OwnOK(y) /\ ServeOK(y, scan[s], s, w, pool) /\ ~y.killed
  <2> HIDE DEF s
  <2> QED BY <1>1, <1>2, <1>6, <1>7, <1>8, <1>9
<1>11. PoolInv(scan, [thread EXCEPT ![w] = y], pool, garbled)
  <2> HIDE DEF s
  <2> QED BY <1>2, <1>10, FrameWork DEF Before
<1> QED BY <1>1, <1>10, <1>11 DEF After

LEMMA CrashKeeps ==
  ASSUME Before, NEW w \in Thread, Crashes(w)
  PROVE  After
<1> DEFINE t == thread[w]
<1>1. PICK how \in {"crash", "noStart"} : thread' = [thread EXCEPT ![w] = Ends(Posts(t, Two(how, "exit"), NoScan))]
  BY DEF Crashes, Two
<1>2. t.life = "alive" /\ UNCHANGED <<scan, pool, garbled>>
  BY DEF Crashes, Working
<1>3. t \in Worker /\ OwnOK(t) /\ t.mail \in Seq(Post) /\ ~t.killed
  <2>1. t \in Worker /\ OwnOK(t)
    BY PoolParts DEF Before
  <2> QED BY <1>2, <2>1, WorkerType DEF OwnOK
<1> DEFINE e == PostOf(how, NoScan)
           x == Ends(Posts(t, Two(how, "exit"), NoScan))
<1>4. e \in Post /\ e.of = NoScan /\ e.type \in Last
  BY PostOfIs, AllTypes DEF Last
<1> HIDE DEF t
<1>6. x \in Worker /\ x.life = "ended" /\ x.jobs = << >> /\ x.stage = "scan" /\ x.killed = t.killed
      /\ x.mail = Append(Append(t.mail, e), PostOf("exit", NoScan))
  <2> DEFINE y == Posts(t, Two(how, "exit"), NoScan)
  <2>1. y \in Worker /\ y.killed = t.killed /\ y.mail = Append(Append(t.mail, e), PostOf("exit", NoScan))
    <3>1. t \in Worker
      BY <1>3
    <3>2. how \in Types
      BY AllTypes DEF Last
    <3>3. "exit" \in Types
      BY AllTypes
    <3>4. NoScan \in Authors
      BY AllTypes
    <3>5. PICK b \in Types : b = "exit"
      BY <3>3
    <3>6. PICK c \in Types : c = how
      BY <3>2
    <3>7. /\ Posts(t, Two(c, b), NoScan) \in Worker
          /\ Posts(t, Two(c, b), NoScan).mail = Append(Append(t.mail, PostOf(c, NoScan)), PostOf(b, NoScan))
          /\ Posts(t, Two(c, b), NoScan).killed = t.killed
      BY <3>1, <3>4, SpeaksTwice
    <3> QED BY <3>5, <3>6, <3>7
  <2>2. x = Ends(y)
    OBVIOUS
  <2> HIDE DEF x, y
  <2> QED BY <2>1, <2>2, EndsIs
<1>7. thread' = [thread EXCEPT ![w] = x]
  BY <1>1 DEF t
<1> HIDE DEF x
<1>8. /\ OwnOK(x)
      /\ \A r, s : ServeOK(t, r, s, w, pool) => ServeOK(x, r, s, w, pool)
      /\ IdleOK(t, w, pool) => IdleOK(x, w, pool)
  <2>1. x.mail = Append(Append(t.mail, e), PostOf("exit", NoScan))
    BY <1>6
  <2> HIDE DEF e
  <2> QED BY <1>2, <1>3, <1>4, <1>6, <2>1, Ended DEF t
<1>9. CASE Used(scan, w)
  <2>1. PICK s \in Scan : Serves(scan, w, s)
    BY <1>9 DEF Used
  <2>2. ServeOK(x, scan[s], s, w, pool)
    BY <1>8, <2>1, PoolParts DEF Before, t
  <2>3. PoolInv(scan, [thread EXCEPT ![w] = x], pool, garbled)
    BY <1>3, <1>6, <1>8, <2>1, <2>2, FrameWork DEF Before
  <2> QED BY <1>2, <1>7, <2>3 DEF After
<1>10. CASE ~Used(scan, w)
  <2>1. IdleOK(x, w, pool) /\ pool \in PoolState
    BY <1>8, <1>10, PoolParts DEF Before, t
  <2>2. pool.thread = w => ~pool.busy /\ pool.timer
    <3>1. PoolOK(scan, pool)
      BY PoolParts DEF Before
    <3> QED BY <1>10, <3>1, ScanPoolAssumption DEF PoolOK
  <2>3. PoolInv(scan, [thread EXCEPT ![w] = x], pool, garbled)
    BY <1>6, <1>8, <1>10, <2>1, <2>2, FrameIdle DEF Before
  <2> QED BY <1>2, <1>7, <2>3 DEF After
<1> QED BY <1>9, <1>10


-----------------------------------------------------------------------------
(* Threads that start, that are heard and that are stopped *)

Gone == [Unborn EXCEPT !.life = "ended"]
DroppedOf(t) == Terminated(Shorter(t))

\* A thread without posts is as it should be.
LEMMA Silent ==
  ASSUME NEW t \in Worker, t.mail = << >>, ~t.killed, t.life # "unused",
         t.life # "alive" => t.jobs = << >>, t.jobs = << >> => t.stage = "scan"
  PROVE  OwnOK(t)
BY NoMail DEF OwnOK

LEMMA GoneIs ==
  /\ Gone \in Worker /\ OwnOK(Gone) /\ Gone.life = "ended" /\ Gone.jobs = << >> /\ Gone.mail = << >> /\ ~Gone.killed
  /\ Gone.stage = "scan"
<1>1. << >> \in Seq(Scan) /\ << >> \in Seq(Post)
  OBVIOUS
<1>2. Gone \in Worker /\ Gone.life = "ended" /\ Gone.jobs = << >> /\ Gone.mail = << >> /\ ~Gone.killed /\ Gone.stage = "scan"
  BY <1>1 DEF Gone, Unborn, Worker
<1> QED BY <1>2, Silent

LEMMA HeardIs ==
  ASSUME NEW t \in Worker, OwnOK(t), t.mail # << >>, NEW h, h = Head(t.mail), NEW u, u = HeardOf(t)
  PROVE  /\ u \in Worker /\ OwnOK(u) /\ u.life = t.life /\ u.jobs = t.jobs /\ u.stage = t.stage
         /\ u.killed => t.killed
         /\ \A T : Has(t.mail, T) /\ h.type # "exit" => h.type \in T \/ Has(u.mail, T)
         /\ \A W : AllOf(t.mail, W) => h.of \in W /\ AllOf(u.mail, W)
         /\ GraphFirst(t.mail) /\ h.type # "graph" => GraphFirst(u.mail)
         /\ h.type \in Final => t.jobs = << >> /\ AllOf(u.mail, {NoScan})
         /\ h.type \in Last => t.life = "ended"
         /\ h.of = NoScan <=> h.type \in Last
         /\ GraphFirst(t.mail) => h.type \notin Final
<1>1. PICK v : v = Shorter(t)
  OBVIOUS
<1>2. /\ v \in Worker /\ OwnOK(v)
      /\ v.life = t.life /\ v.jobs = t.jobs /\ v.stage = t.stage /\ v.killed = t.killed
      /\ h.type \in Last => t.life = "ended"
      /\ h.type \in Final => t.jobs = << >> /\ AllOf(v.mail, {NoScan})
      /\ h.of = NoScan <=> h.type \in Last
      /\ \A T : Has(t.mail, T) => h.type \in T \/ Has(v.mail, T)
      /\ \A W : AllOf(t.mail, W) => h.of \in W /\ AllOf(v.mail, W)
      /\ GraphFirst(t.mail) => h.type \notin Final /\ (h.type # "graph" => GraphFirst(v.mail))
  BY <1>1, Taken
<1>3. CASE h.type = "exit"
  <2>1. u = Gone /\ h.type \in Last /\ h.type \notin Final
    BY <1>3 DEF HeardOf, Last, Final, Gone
  <2>2. t.life = "ended" /\ t.jobs = << >> /\ t.stage = "scan"
    BY <1>2, <2>1 DEF OwnOK
  <2> QED BY <1>2, <1>3, <2>1, <2>2, GoneIs, NoMail
<1>4. CASE h.type # "exit"
  <2>1. u = v
    BY <1>1, <1>4 DEF HeardOf
  <2> QED BY <1>2, <2>1
<1> QED BY <1>3, <1>4

LEMMA DroppedIs ==
  ASSUME NEW t \in Worker, OwnOK(t), t.mail # << >>, NEW u, u = DroppedOf(t)
  PROVE  u \in Worker /\ OwnOK(u) /\ u.life # "alive" /\ u.jobs = << >>
<1>1. PICK v : v = Shorter(t)
  OBVIOUS
<1>2. v \in Worker /\ OwnOK(v)
  BY <1>1, Taken
<1>3. u = Terminated(v)
  BY <1>1 DEF DroppedOf
<1> QED BY <1>2, <1>3, TerminatedIs

\* A thread that starts with these scans.
LEMMA Hatched ==
  ASSUME NEW s \in Scan, NEW u, u = Hatch(<<s>>)
  PROVE  u \in Worker /\ OwnOK(u) /\ u.life = "alive" /\ u.jobs = <<s>> /\ u.mail = << >> /\ ~u.killed /\ u.stage = "scan"
<1>1. <<s>> \in Seq(Scan) /\ << >> \in Seq(Post) /\ <<s>> # << >>
  OBVIOUS
<1>2. u \in Worker /\ u.life = "alive" /\ u.jobs = <<s>> /\ u.mail = << >> /\ ~u.killed /\ u.stage = "scan"
  BY <1>1 DEF Hatch, Unborn, Worker
<1> QED BY <1>1, <1>2, Silent

LEMMA Parked ==
  ASSUME NEW u, u = [Hatch(<< >>) EXCEPT !.standby = TRUE]
  PROVE  u \in Worker /\ OwnOK(u) /\ u.life = "alive" /\ u.jobs = << >> /\ u.mail = << >> /\ ~u.killed
<1>1. << >> \in Seq(Scan) /\ << >> \in Seq(Post)
  OBVIOUS
<1>2. u \in Worker /\ u.life = "alive" /\ u.jobs = << >> /\ u.mail = << >> /\ ~u.killed /\ u.stage = "scan"
  BY <1>1 DEF Hatch, Unborn, Worker
<1> QED BY <1>1, <1>2, Silent

\* Mail about no scan holds the end of a thread at most.
LEMMA Quiet ==
  ASSUME NEW m, AllOf(m, {NoScan}), Signed(m)
  PROVE  ~Has(m, Final) /\ GraphFirst(m)
<1>1. \A i \in DOMAIN m : m[i].type \in Last
  BY DEF AllOf, Signed
<1>2. \A i \in DOMAIN m : m[i].type \notin Final
  BY <1>1 DEF Last, Final
<1> QED BY <1>2 DEF Has, GraphFirst

LEMMA WithoutIs ==
  ASSUME NEW p \in PoolState, NEW w \in Thread
  PROVE  /\ Without(p, w) \in PoolState /\ Without(p, w).thread # w /\ (Without(p, w) = p \/ Without(p, w) = NoPool)
         /\ p.thread # w => Without(p, w) = p
         /\ Without(p, w) # p => p.thread = w
BY ScanPoolAssumption DEF Without, NoPool, PoolState

\* A thread nobody keeps, stopped.
LEMMA StoppedIdle ==
  ASSUME NEW t, NEW w, NEW o, t.life # "alive", t.jobs = << >>, o.thread # w
  PROVE  IdleOK(t, w, o)
BY DEF IdleOK

\* A thread stopped under the scan that listens: the exit is to come.
LEMMA StoppedServe ==
  ASSUME NEW t \in Worker, OwnOK(t), NEW r, NEW s \in Scan, NEW w, NEW p, NEW o, ServeOK(t, r, s, w, p), o.thread # w
  PROVE  ServeOK(Terminated(t), r, s, w, o)
<1>1. PICK u : u = Terminated(t)
  OBVIOUS
<1>2. /\ u \in Worker /\ OwnOK(u) /\ u.life # "alive" /\ u.jobs = << >>
      /\ t.life # "unused" => u.life = "ended"
      /\ t.life # "alive" => u = t
      /\ t.life = "alive" => Has(u.mail, {"exit"})
      /\ \A W : NoScan \in W /\ AllOf(t.mail, W) => AllOf(u.mail, W)
      /\ \A T : Has(t.mail, T) => Has(u.mail, T)
      /\ GraphFirst(t.mail) => GraphFirst(u.mail)
  BY <1>1, TerminatedIs
<1>3. Has(u.mail, {"exit"}) /\ u.stage = "scan" /\ u.life = "ended"
  <2>1. t.life \in {"alive", "ended"} /\ (t.life = "ended" => Has(t.mail, {"exit"}))
    BY WorkerType DEF ServeOK
  <2> QED BY <1>2, <2>1 DEF OwnOK
<1>4. \A T : "exit" \in T => Has(u.mail, T)
  <2> SUFFICES ASSUME NEW T, "exit" \in T PROVE Has(u.mail, T)
    OBVIOUS
  <2> QED BY <1>3, MoreTypes
<1>5. AllOf(u.mail, {s, NoScan}) /\ (r.graph = "none" => GraphFirst(u.mail)) /\ r.promise \in {"pending", "resolved"}
  BY <1>2 DEF ServeOK
<1>6. "exit" \in Last
  BY DEF Last
<1>7. ServeOK(u, r, s, w, o)
  BY <1>2, <1>3, <1>4, <1>5, <1>6 DEF ServeOK
<1> QED BY <1>1, <1>7

LEMMA PoolIdle ==
  ASSUME NEW sc, NEW th, NEW p, NEW ga, PoolInv(sc, th, p, ga), NEW w \in Thread, p.thread = w
  PROVE  (p.busy <=> Used(sc, w)) /\ (p.timer <=> ~p.busy)
<1>1. PoolOK(sc, p)
  BY PoolParts
<1> QED BY <1>1, ScanPoolAssumption DEF PoolOK

LEMMA HeardStep ==
  ASSUME NEW w \in Thread, Heard(w)
  PROVE  thread' = [thread EXCEPT ![w] = HeardOf(thread[w])]
BY DEF Heard

LEMMA HeardAndDroppedStep ==
  ASSUME NEW w \in Thread, HeardAndDropped(w)
  PROVE  thread' = [thread EXCEPT ![w] = DroppedOf(thread[w])] /\ pool' = Without(pool, w)
BY DEF HeardAndDropped, DroppedOf

LEMMA UnheardKeeps ==
  ASSUME Before, NEW w \in Thread, Unheard(w)
  PROVE  After
<1>1. PICK t \in Worker : t = thread[w] /\ OwnOK(t) /\ (~Used(scan, w) => IdleOK(t, w, pool))
  BY PoolParts DEF Before
<1>2. t.mail # << >> /\ ~Used(scan, w) /\ pool \in PoolState
  BY <1>1, PoolParts DEF Unheard, Used, Serves, Before
<1>3. PICK h : h = Head(t.mail)
  OBVIOUS
<1>4. PICK u : u = HeardOf(t)
  OBVIOUS
<1>5. /\ u \in Worker /\ OwnOK(u) /\ u.life = t.life /\ u.jobs = t.jobs
      /\ u.killed => t.killed
      /\ \A T : Has(t.mail, T) /\ h.type # "exit" => h.type \in T \/ Has(u.mail, T)
      /\ \A W : AllOf(t.mail, W) => h.of \in W /\ AllOf(u.mail, W)
  BY <1>1, <1>2, <1>3, <1>4, HeardIs
<1>6. thread' = [thread EXCEPT ![w] = u] /\ UNCHANGED <<scan, garbled>>
  <2>1. Heard(w) /\ UNCHANGED <<scan, garbled>>
    BY DEF Unheard
  <2>2. thread' = [thread EXCEPT ![w] = HeardOf(thread[w])]
    BY <2>1, HeardStep
  <2> QED BY <1>1, <1>4, <2>1, <2>2
<1>7. PICK o \in {pool, Without(pool, w)} : pool' = o /\ (h.type = "exit" => o = Without(pool, w))
  BY <1>1, <1>3 DEF Unheard
<1>8. /\ o \in PoolState /\ (o = pool \/ o = NoPool) /\ (o.thread = w => o = pool /\ pool.thread = w /\ h.type # "exit")
      /\ (o # pool => pool.thread = w) /\ (o.thread # w => pool.thread # w \/ o = NoPool)
  BY <1>2, <1>7, WithoutIs
<1>9. IdleOK(t, w, pool)
  BY <1>1, <1>2
<1>10. u.life = "alive" => o.thread = w
  <2>1. SUFFICES ASSUME u.life = "alive" PROVE o.thread = w
    OBVIOUS
  <2>2. h.type \notin Last
    <3>1. h.type \in Last => t.life = "ended"
      BY <1>1, <1>2, <1>3, <1>4, HeardIs
    <3> QED BY <1>5, <2>1, <3>1
  <2>3. pool' = pool
    BY <1>1, <1>3, <2>2 DEF Unheard, Last
  <2> QED BY <1>5, <1>7, <1>9, <2>1, <2>3 DEF IdleOK
<1>11. o.thread = w /\ u.life = "ended" => Has(u.mail, {"exit"})
  BY <1>5, <1>8, <1>9 DEF IdleOK
<1>12. IdleOK(u, w, o)
  BY <1>5, <1>8, <1>9, <1>10, <1>11 DEF IdleOK
<1>13. o.thread = w => ~o.busy /\ o.timer
  BY <1>2, <1>8, PoolIdle DEF Before
<1>14. o = pool \/ o = NoPool \/ o.thread = w
  BY <1>8
<1>15. o # pool => pool.thread \in {w, NoThread}
  BY <1>8
<1>16. PoolInv(scan, thread, pool, garbled) /\ (o.thread # w => pool.thread # w \/ o = NoPool)
  BY <1>8 DEF Before
<1>17. PoolInv(scan, [thread EXCEPT ![w] = u], o, garbled)
  BY <1>2, <1>5, <1>8, <1>12, <1>13, <1>14, <1>15, <1>16, FrameIdle
<1> QED BY <1>6, <1>7, <1>17 DEF After

\* A thread not used yet serves nobody.
LEMMA NewIs ==
  ASSUME NEW sc, NEW th, NEW p, NEW ga, PoolInv(sc, th, p, ga), NEW w \in Thread, th[w].life = "unused"
  PROVE  ~Used(sc, w) /\ p.thread # w
<1>1. ~Used(sc, w)
  <2> SUFFICES ASSUME NEW s \in Scan, Serves(sc, w, s) PROVE FALSE
    BY DEF Used
  <2>1. ServeOK(th[w], sc[s], s, w, p)
    BY PoolParts
  <2> QED BY <2>1 DEF ServeOK
<1> QED BY <1>1, PoolParts DEF IdleOK

\* A thread that was parked in the empty pool.
LEMMA ParkedKeeps ==
  ASSUME NEW sc, NEW th, NEW p, NEW ga, PoolInv(sc, th, p, ga), NEW w \in Thread, th[w].life = "unused",
         p.thread = NoThread, NEW t, t = [Hatch(<< >>) EXCEPT !.standby = TRUE],
         NEW o, o = [thread |-> w, busy |-> FALSE, timer |-> TRUE]
  PROVE  PoolInv(sc, [th EXCEPT ![w] = t], o, ga)
<1>1. t \in Worker /\ OwnOK(t) /\ t.life = "alive" /\ t.jobs = << >> /\ t.mail = << >> /\ ~t.killed
  BY Parked
<1>2. o \in PoolState /\ o.thread = w /\ ~o.busy /\ o.timer
  BY DEF PoolState
<1>3. ~Used(sc, w)
  BY NewIs
<1>4. IdleOK(t, w, o)
  BY <1>1, NoMail DEF IdleOK
<1>5. p.thread \in {w, NoThread}
  OBVIOUS
<1> HIDE DEF Worker
<1>6. \A x \in Worker : x = t => PoolInv(sc, [th EXCEPT ![w] = x], o, ga)
  <2> SUFFICES ASSUME NEW x \in Worker, x = t PROVE PoolInv(sc, [th EXCEPT ![w] = x], o, ga)
    OBVIOUS
  <2>1. OwnOK(x) /\ IdleOK(x, w, o)
    BY <1>1, <1>4
  <2>2. PICK y \in PoolState : y = o
    BY <1>2
  <2>3. IdleOK(x, w, y) /\ y.thread = w /\ ~y.busy /\ y.timer
    BY <1>2, <2>1, <2>2
  <2>4. PoolInv(sc, [th EXCEPT ![w] = x], y, ga)
    BY <1>3, <1>5, <2>1, <2>3, FrameIdle
  <2> QED BY <2>2, <2>4
<1> QED BY <1>1, <1>6

LEMMA PrewarmKeeps ==
  ASSUME Before, Prewarm
  PROVE  After
<1>1. PICK w \in Thread : /\ New(w) /\ pool' = [thread |-> w, busy |-> FALSE, timer |-> TRUE]
                          /\ thread' = [thread EXCEPT ![w] = [Hatch(<< >>) EXCEPT !.standby = TRUE]]
  BY DEF Prewarm, SpawnStandby
<1>2. thread[w].life = "unused" /\ pool.thread = NoThread /\ UNCHANGED <<scan, garbled>>
  BY <1>1 DEF New, Prewarm
<1>3. PICK t : t = [Hatch(<< >>) EXCEPT !.standby = TRUE]
  OBVIOUS
<1>4. PICK o : o = [thread |-> w, busy |-> FALSE, timer |-> TRUE]
  OBVIOUS
<1>5. PoolInv(scan, [thread EXCEPT ![w] = t], o, garbled)
  BY <1>2, <1>3, <1>4, ParkedKeeps DEF Before
<1> QED BY <1>1, <1>2, <1>3, <1>4, <1>5 DEF After

LEMMA CoolsKeeps ==
  ASSUME Before, Cools
  PROVE  After
<1>1. pool \in PoolState /\ pool.timer
  BY PoolParts DEF Cools, Before
<1>2. PICK w \in Thread : w = pool.thread
  <2>1. PoolOK(scan, pool)
    BY PoolParts DEF Before
  <2> QED BY <1>1, <2>1 DEF PoolOK, NoPool, PoolState
<1>3. ~Used(scan, w)
  BY <1>1, <1>2, PoolIdle DEF Before
<1>4. PICK t \in Worker : t = thread[w] /\ OwnOK(t)
  BY PoolParts DEF Before
<1>5. PICK u : u = Terminated(t)
  OBVIOUS
<1>6. u \in Worker /\ OwnOK(u) /\ u.life # "alive" /\ u.jobs = << >>
  BY <1>4, <1>5, TerminatedIs
<1>7. PICK o : o = Without(pool, w)
  OBVIOUS
<1>8. o \in PoolState /\ o.thread # w /\ o = NoPool
  BY <1>1, <1>2, <1>7, WithoutIs DEF Without
<1>9. IdleOK(u, w, o)
  BY <1>6, <1>8, StoppedIdle
<1>10. pool' = o /\ thread' = [thread EXCEPT ![w] = u] /\ UNCHANGED <<scan, garbled>>
  BY <1>2, <1>4, <1>5, <1>7 DEF Cools, DropWorker
<1>11. PoolInv(scan, [thread EXCEPT ![w] = u], o, garbled)
  <2>1. pool.thread \in {w, NoThread}
    BY <1>2
  <2> QED BY <1>3, <1>6, <1>8, <1>9, <2>1, FrameIdle DEF Before
<1> QED BY <1>10, <1>11 DEF After

\* A warm thread is given a scan.
LEMMA Gives ==
  ASSUME NEW t \in Worker, OwnOK(t), NEW w, NEW p, IdleOK(t, w, p), p.thread = w, NEW s \in Scan,
         NEW u, u = Given(t, s)
  PROVE  /\ u \in Worker /\ OwnOK(u) /\ u.life = t.life /\ u.mail = t.mail /\ ~u.killed /\ u.stage = "scan"
         /\ u.jobs = IF t.life = "alive" THEN <<s>> ELSE << >>
<1>1. t.jobs = << >> /\ t.stage = "scan" /\ ~t.killed /\ AllOf(t.mail, {NoScan}) /\ Signed(t.mail) /\ t.life # "unused"
  BY DEF IdleOK, OwnOK
<1>2. CASE t.life # "alive"
  <2>1. u = t
    BY <1>2 DEF Given
  <2> QED BY <1>1, <1>2, <2>1
<1>3. CASE t.life = "alive"
  <2>1. PICK j \in Seq(Scan) : j = <<s>> /\ j # << >> /\ j = Append(<< >>, s)
    <3>1. <<s>> \in Seq(Scan) /\ <<s>> # << >> /\ <<s>> = Append(<< >>, s)
      OBVIOUS
    <3> QED BY <3>1
  <2>2. u = [t EXCEPT !.jobs = j]
    BY <1>1, <1>3, <2>1 DEF Given
  <2>3. u \in Worker /\ u.life = t.life /\ u.mail = t.mail /\ u.killed = t.killed /\ u.stage = t.stage /\ u.jobs = j
    BY <2>2 DEF Worker
  <2>4. ~Has(t.mail, Final) /\ ~Has(t.mail, Last)
    BY <1>1, <1>3, Quiet DEF OwnOK
  <2>5. OwnOK(u)
    BY <1>1, <1>3, <2>1, <2>3, <2>4 DEF OwnOK
  <2> QED BY <1>1, <1>3, <2>1, <2>3, <2>5
<1> QED BY <1>2, <1>3

\* A thread nobody listened to begins to serve a scan; it may have died.
LEMMA Begins ==
  ASSUME NEW u \in Worker, OwnOK(u), ~u.killed, u.life # "unused", u.stage = "scan",
         AllOf(u.mail, {NoScan}), NEW s \in Scan, NEW w, NEW o, NEW r, r.promise = "pending",
         u.life = "alive" => u.jobs = <<s>>,
         u.life # "alive" => u.jobs = << >> /\ Has(u.mail, {"exit"})
  PROVE  ServeOK(u, r, s, w, o)
<1>1. AllOf(u.mail, {s, NoScan})
  BY DEF AllOf
<1>2. GraphFirst(u.mail)
  BY Quiet DEF OwnOK
<1>3. u.life # "alive" => Has(u.mail, {"graph", "error"} \cup Last) /\ Has(u.mail, {"functions", "error"} \cup Final \cup Last)
  <2>1. "exit" \in {"graph", "error"} \cup Last /\ "exit" \in {"functions", "error"} \cup Final \cup Last
    BY DEF Last
  <2>2. \A T : "exit" \in T /\ Has(u.mail, {"exit"}) => Has(u.mail, T)
    <3> SUFFICES ASSUME NEW T, "exit" \in T, Has(u.mail, {"exit"}) PROVE Has(u.mail, T)
      OBVIOUS
    <3> QED BY MoreTypes
  <2> QED BY <2>1, <2>2
<1>4. u.life = "ended" => Has(u.mail, {"exit"})
  OBVIOUS
<1>5. u.life = "alive" => u.jobs # << >>
  OBVIOUS
<1>6. u.jobs \in {<< >>, <<s>>}
  OBVIOUS
<1>7. r.graph = "none" /\ r.promise = "pending" => u.jobs # << >> \/ Has(u.mail, {"graph", "error"} \cup Last)
  BY <1>3, <1>5
<1>8. r.functions = "open" => u.jobs # << >> \/ Has(u.mail, {"functions", "error"} \cup Final \cup Last)
  BY <1>3, <1>5
<1> QED BY <1>1, <1>2, <1>4, <1>6, <1>7, <1>8 DEF ServeOK

\* A thread that serves nobody is taken by a scan that listened to none.
LEMMA FrameTake ==
  ASSUME NEW sc, NEW th, NEW p, NEW ga, PoolInv(sc, th, p, ga), NEW s \in Scan, ~sc[s].attached,
         NEW w \in Thread, ~Used(sc, w), NEW r \in Promised, r.attached, r.thread = w, LooseOK(r),
         NEW t \in Worker, OwnOK(t), ~t.killed, NEW o \in PoolState, ServeOK(t, r, s, w, o),
         (o = p /\ p.thread # w) \/ (o.thread = w /\ o.busy /\ ~o.timer /\ p.thread \in {w, NoThread})
  PROVE  PoolInv([sc EXCEPT ![s] = r], [th EXCEPT ![w] = t], o, ga)
<1>1. ga \in BOOLEAN /\ (ga => ga)
  BY PoolParts
<1>2. sc[s].attached => sc[s].thread = w
  OBVIOUS
<1>3. r.attached => r.thread = w
  OBVIOUS
<1>4. r.attached => ServeOK(t, r, s, w, o) /\ (ga \/ ~t.killed)
  OBVIOUS
<1>5. \A q \in Scan : q # s /\ Serves(sc, w, q) => ~r.attached /\ ServeOK(t, sc[q], q, w, o) /\ (ga \/ ~t.killed)
  BY DEF Used
<1>6. ~r.attached /\ (\A q \in Scan : q # s => ~Serves(sc, w, q)) => IdleOK(t, w, o)
  OBVIOUS
<1>7. o = p \/ o = NoPool \/ o.thread = w
  OBVIOUS
<1>8. o.thread # w => p.thread # w \/ o = NoPool
  OBVIOUS
<1>9. o # p => p.thread \in {w, NoThread}
  OBVIOUS
<1>10. o.thread = w => (o.busy <=> (r.attached \/ \E q \in Scan : q # s /\ Serves(sc, w, q))) /\ (o.timer <=> ~o.busy)
  OBVIOUS
<1> QED BY <1>1, <1>2, <1>3, <1>4, <1>5, <1>6, <1>7, <1>8, <1>9, <1>10, Frame

\* What a scan is when it starts.
Started(w, wants, oneShot, reused) ==
  [Unstarted EXCEPT !.thread = w, !.wants = wants, !.oneShot = oneShot,
                    !.pooled = reused, !.attached = TRUE, !.promise = "pending"]

LEMMA StartsIs ==
  ASSUME NEW w \in Thread, NEW wants \in BOOLEAN, NEW oneShot \in BOOLEAN, NEW reused \in BOOLEAN,
         NEW r, r = Started(w, wants, oneShot, reused)
  PROVE  r \in Promised /\ r.thread = w /\ r.attached /\ r.promise = "pending" /\ LooseOK(r)
<1>1. r \in Promised /\ r.thread = w /\ r.attached /\ r.promise = "pending" /\ r.graph = "none"
  BY DEF Started, Unstarted, Promised, Promises
<1> QED BY <1>1 DEF LooseOK

LEMMA RunScanKeeps ==
  ASSUME Before, NEW s \in Scan, NEW wants \in BOOLEAN, NEW oneShot \in BOOLEAN, RunScan(s, wants, oneShot)
  PROVE  After
<1>1. PICK reused \in BOOLEAN : reused <=> (~oneShot /\ Warm)
  OBVIOUS
<1>2. PICK w \in Thread :
        /\ IF reused THEN w = pool.thread ELSE New(w)
        /\ thread' = [thread EXCEPT ![w] = IF reused THEN Given(@, s) ELSE Hatch(<<s>>)]
        /\ pool' = IF reused \/ (~oneShot /\ pool.thread = NoThread)
                   THEN [thread |-> w, busy |-> TRUE, timer |-> FALSE] ELSE pool
        /\ scan' = [scan EXCEPT ![s] = Started(w, wants, oneShot, reused)]
  BY <1>1 DEF RunScan, Started
<1>3. scan[s].promise = "new" /\ garbled' = garbled
  BY DEF RunScan
<1>4. PICK r \in Promised : /\ r = Started(w, wants, oneShot, reused)
                            /\ r.thread = w /\ r.attached /\ r.promise = "pending" /\ LooseOK(r)
  <2>1. PICK x : x = Started(w, wants, oneShot, reused)
    OBVIOUS
  <2>2. x \in Promised /\ x.thread = w /\ x.attached /\ x.promise = "pending" /\ LooseOK(x)
    BY <2>1, StartsIs
  <2> QED BY <2>1, <2>2
<1>5. ~scan[s].attached
  <2> SUFFICES ASSUME scan[s].attached PROVE FALSE
    OBVIOUS
  <2>1. PICK v \in Thread : v = scan[s].thread
    BY PoolParts DEF Before, LooseOK
  <2>2. Serves(scan, v, s)
    BY <2>1 DEF Serves
  <2>3. ServeOK(thread[v], scan[s], s, v, pool)
    BY <2>2, PoolParts DEF Before
  <2> QED BY <1>3, <2>3 DEF ServeOK
<1>6. PICK t \in Worker : t = thread[w] /\ OwnOK(t) /\ (~Used(scan, w) => IdleOK(t, w, pool))
  BY PoolParts DEF Before
<1>7. pool \in PoolState
  BY PoolParts DEF Before
<1>8. PICK b \in PoolState : b = [thread |-> w, busy |-> TRUE, timer |-> FALSE] /\ b.thread = w /\ b.busy /\ ~b.timer
  <2>1. PICK x : x = [thread |-> w, busy |-> TRUE, timer |-> FALSE]
    OBVIOUS
  <2>2. x \in PoolState /\ x.thread = w /\ x.busy /\ ~x.timer
    BY <2>1 DEF PoolState
  <2> QED BY <2>1, <2>2
<1>9. CASE reused
  <2>1. pool.thread = w /\ ~Used(scan, w)
    BY <1>1, <1>2, <1>9, PoolIdle DEF Warm, Before
  <2>2. IdleOK(t, w, pool)
    BY <1>6, <2>1
  <2>3. PICK u : u = Given(t, s)
    OBVIOUS
  <2>4. /\ u \in Worker /\ OwnOK(u) /\ u.life = t.life /\ u.mail = t.mail /\ ~u.killed /\ u.stage = "scan"
        /\ u.jobs = IF t.life = "alive" THEN <<s>> ELSE << >>
    BY <1>6, <2>1, <2>2, <2>3, Gives
  <2>5. u.life # "unused" /\ AllOf(u.mail, {NoScan}) /\ (u.life # "alive" => Has(u.mail, {"exit"}))
    <3>1. t.life \in {"unused", "alive", "ended"}
      BY WorkerType
    <3> QED BY <2>1, <2>2, <2>4, <3>1 DEF IdleOK
  <2>6. ServeOK(u, r, s, w, b)
    BY <1>4, <2>4, <2>5, Begins
  <2>7. PoolInv([scan EXCEPT ![s] = r], [thread EXCEPT ![w] = u], b, garbled)
    <3>1. b.thread = w /\ b.busy /\ ~b.timer /\ pool.thread \in {w, NoThread}
      BY <1>8, <2>1
    <3> QED BY <1>4, <1>5, <1>8, <2>1, <2>4, <2>6, <3>1, FrameTake DEF Before
  <2>8. thread' = [thread EXCEPT ![w] = u] /\ pool' = b /\ scan' = [scan EXCEPT ![s] = r]
    BY <1>2, <1>4, <1>6, <1>8, <1>9, <2>3
  <2> QED BY <1>3, <2>7, <2>8 DEF After
<1>10. CASE ~reused
  <2>1. thread[w].life = "unused"
    BY <1>2, <1>10 DEF New
  <2>2. ~Used(scan, w) /\ pool.thread # w
    BY <2>1, NewIs DEF Before
  <2>3. PICK u : u = Hatch(<<s>>)
    OBVIOUS
  <2>4. u \in Worker /\ OwnOK(u) /\ u.life = "alive" /\ u.jobs = <<s>> /\ u.mail = << >> /\ ~u.killed /\ u.stage = "scan"
    BY <2>3, Hatched
  <2>5. AllOf(u.mail, {NoScan})
    BY <2>4, NoMail
  <2>6. \A o : ServeOK(u, r, s, w, o)
    <3> SUFFICES ASSUME NEW o PROVE ServeOK(u, r, s, w, o)
      OBVIOUS
    <3> QED BY <1>4, <2>4, <2>5, Begins
  <2>7. PICK o \in PoolState : /\ pool' = o
                               /\ (o = pool /\ pool.thread # w) \/ (o.thread = w /\ o.busy /\ ~o.timer /\ pool.thread \in {w, NoThread})
    <3>1. CASE ~oneShot /\ pool.thread = NoThread
      <4>1. pool' = b
        BY <1>2, <1>8, <3>1
      <4> QED BY <1>8, <3>1, <4>1
    <3>2. CASE oneShot \/ pool.thread # NoThread
      <4>1. pool' = pool
        BY <1>2, <1>10, <3>2
      <4> QED BY <1>7, <2>2, <4>1
    <3> QED BY <3>1, <3>2
  <2>8. ServeOK(u, r, s, w, o)
    BY <2>6
  <2>9. PoolInv([scan EXCEPT ![s] = r], [thread EXCEPT ![w] = u], o, garbled)
    BY <1>4, <1>5, <2>2, <2>4, <2>7, <2>8, FrameTake DEF Before
  <2>10. thread' = [thread EXCEPT ![w] = u] /\ scan' = [scan EXCEPT ![s] = r]
    BY <1>2, <1>4, <1>10, <2>3
  <2> QED BY <1>3, <2>7, <2>9, <2>10 DEF After
<1> QED BY <1>9, <1>10

-----------------------------------------------------------------------------
(* What is done to a scan *)

LEMMA SettledIs ==
  ASSUME NEW r \in Promised, NEW how \in {"ok", "failed"}, NEW x, x = Settled(r, how)
  PROVE  /\ x \in Promised /\ x.functions # "open" /\ x.attached = r.attached /\ x.thread = r.thread
         /\ x.graph = r.graph /\ x.promise = r.promise
BY DEF Settled, Promised, Promises

LEMMA KilledIs ==
  ASSUME NEW r \in Promised, NEW x, x = Killed(r)
  PROVE  /\ x \in Promised /\ x.functions = r.functions /\ ~x.attached /\ x.graph = r.graph /\ x.promise = r.promise
         /\ r.graph = "parsing" => x.thread = r.thread
BY DEF Killed, Unstarted, Promised, Promises

\* A scan that is off its thread and waits for no functions.
LEMMA LeftIs ==
  ASSUME NEW r \in Promised, LooseOK(r), NEW x, x = Settled(Killed(r), "failed")
  PROVE  /\ x \in Promised /\ ~x.attached /\ x.graph = r.graph /\ x.promise = r.promise /\ x.functions # "open"
         /\ r.graph = "parsing" => x.thread = r.thread
         /\ r.promise # "pending" \/ r.graph # "none" => LooseOK(x)
<1>1. PICK k \in Promised : k = Killed(r)
  <2>1. PICK k : k = Killed(r)
    OBVIOUS
  <2> QED BY <2>1, KilledIs
<1>2. k.functions = r.functions /\ ~k.attached /\ k.graph = r.graph /\ k.promise = r.promise
      /\ (r.graph = "parsing" => k.thread = r.thread)
  BY <1>1, KilledIs
<1>3. x = Settled(k, "failed")
  BY <1>1
<1>4. /\ x \in Promised /\ x.functions # "open" /\ x.attached = k.attached /\ x.thread = k.thread
      /\ x.graph = k.graph /\ x.promise = k.promise
  BY <1>3, SettledIs
<1>5. r.promise # "pending" \/ r.graph # "none" => LooseOK(x)
  BY <1>2, <1>4 DEF LooseOK
<1> QED BY <1>2, <1>4, <1>5

LEMMA FailedIs ==
  ASSUME NEW r \in Promised, r.graph = "parsing" => r.thread \in Thread, NEW x, x = Failed(r)
  PROVE  /\ x \in Promised /\ ~x.attached /\ x.graph = r.graph /\ x.promise = "rejected" /\ x.functions # "open"
         /\ LooseOK(x)
<1>1. PICK k \in Promised : k = Killed(r)
  <2>1. PICK k : k = Killed(r)
    OBVIOUS
  <2> QED BY <2>1, KilledIs
<1>2. ~k.attached /\ k.graph = r.graph /\ (r.graph = "parsing" => k.thread = r.thread)
  BY <1>1, KilledIs
<1>3. PICK y \in Promised : y = Settled(k, "failed")
  <2>1. PICK y : y = Settled(k, "failed")
    OBVIOUS
  <2> QED BY <2>1, SettledIs
<1>4. y.functions # "open" /\ y.attached = k.attached /\ y.thread = k.thread /\ y.graph = k.graph
  BY <1>3, SettledIs
<1>5. x = [y EXCEPT !.promise = "rejected"]
  BY <1>1, <1>3 DEF Failed
<1>6. x \in Promised /\ x.promise = "rejected" /\ x.functions = y.functions /\ x.attached = y.attached
      /\ x.thread = y.thread /\ x.graph = y.graph
  BY <1>5 DEF Promised, Promises
<1>7. LooseOK(x)
  BY <1>2, <1>4, <1>6 DEF LooseOK
<1> QED BY <1>2, <1>4, <1>6, <1>7

\* A scan leaves its thread, which is dropped from the pool or stays there, idle.
LEMMA FrameLeave ==
  ASSUME NEW sc, NEW th, NEW p, NEW ga, PoolInv(sc, th, p, ga), NEW s \in Scan, NEW w \in Thread, Serves(sc, w, s),
         NEW r \in Promised, ~r.attached, LooseOK(r), NEW t \in Worker, OwnOK(t), NEW o \in PoolState, IdleOK(t, w, o),
         o = Without(p, w) \/ (p.thread = w /\ o.thread = w /\ ~o.busy /\ o.timer)
  PROVE  PoolInv([sc EXCEPT ![s] = r], [th EXCEPT ![w] = t], o, ga)
<1>1. ga \in BOOLEAN /\ (ga => ga) /\ p \in PoolState
  BY PoolParts
<1>2. \A q \in Scan : q # s => ~Serves(sc, w, q)
  BY PoolParts
<1>3. sc[s].attached => sc[s].thread = w
  BY DEF Serves
<1>4. /\ o = p \/ o = NoPool \/ o.thread = w
      /\ o.thread # w => p.thread # w \/ o = NoPool
      /\ o # p => p.thread \in {w, NoThread}
      /\ o.thread = w => ~o.busy /\ o.timer
  <2>1. /\ Without(p, w).thread # w /\ (Without(p, w) = p \/ Without(p, w) = NoPool)
        /\ (Without(p, w) # p => p.thread = w)
    BY <1>1, WithoutIs
  <2> QED BY <2>1
<1>5. \A q \in Scan : q # s /\ Serves(sc, w, q) => ~r.attached /\ ServeOK(t, sc[q], q, w, o) /\ (ga \/ ~t.killed)
  BY <1>2
<1>6. ~r.attached /\ (\A q \in Scan : q # s => ~Serves(sc, w, q)) => IdleOK(t, w, o)
  OBVIOUS
<1>7. r.attached => ServeOK(t, r, s, w, o) /\ (ga \/ ~t.killed)
  OBVIOUS
<1>8. o.thread = w => (o.busy <=> (r.attached \/ \E q \in Scan : q # s /\ Serves(sc, w, q))) /\ (o.timer <=> ~o.busy)
  BY <1>2, <1>4
<1>9. r.attached => r.thread = w
  OBVIOUS
<1> QED BY <1>1, <1>3, <1>4, <1>5, <1>6, <1>7, <1>8, <1>9, Frame

\* A scan stays with its thread.
LEMMA FrameServe ==
  ASSUME NEW sc, NEW th, NEW p, NEW ga, PoolInv(sc, th, p, ga), NEW s \in Scan, NEW w \in Thread, Serves(sc, w, s),
         NEW r \in Promised, r.attached, r.thread = w, LooseOK(r), NEW t \in Worker, OwnOK(t),
         t.killed => th[w].killed, NEW o \in PoolState, ServeOK(t, r, s, w, o), o = p \/ o = Without(p, w)
  PROVE  PoolInv([sc EXCEPT ![s] = r], [th EXCEPT ![w] = t], o, ga)
<1>1. ga \in BOOLEAN /\ (ga => ga) /\ p \in PoolState /\ (ga \/ ~t.killed)
  BY PoolParts
<1>2. \A q \in Scan : q # s => ~Serves(sc, w, q)
  BY PoolParts
<1>3. sc[s].attached => sc[s].thread = w
  BY DEF Serves
<1>4. /\ o = p \/ o = NoPool \/ o.thread = w
      /\ o.thread # w => p.thread # w \/ o = NoPool
      /\ o # p => p.thread \in {w, NoThread}
  <2>1. /\ (Without(p, w) = p \/ Without(p, w) = NoPool)
        /\ (Without(p, w) # p => p.thread = w)
    BY <1>1, WithoutIs
  <2> QED BY <2>1
<1>5. \A q \in Scan : q # s /\ Serves(sc, w, q) => ~r.attached /\ ServeOK(t, sc[q], q, w, o) /\ (ga \/ ~t.killed)
  BY <1>2
<1>6. ~r.attached /\ (\A q \in Scan : q # s => ~Serves(sc, w, q)) => IdleOK(t, w, o)
  OBVIOUS
<1>7. r.attached => ServeOK(t, r, s, w, o) /\ (ga \/ ~t.killed)
  BY <1>1
<1>8. o.thread = w => (o.busy <=> (r.attached \/ \E q \in Scan : q # s /\ Serves(sc, w, q))) /\ (o.timer <=> ~o.busy)
  <2> SUFFICES ASSUME o.thread = w PROVE o.busy /\ ~o.timer
    BY <1>2
  <2>1. o = p
    BY <1>1, WithoutIs
  <2>2. Used(sc, w)
    BY DEF Used
  <2> QED BY <2>1, <2>2, PoolIdle
<1>9. r.attached => r.thread = w
  OBVIOUS
<1> QED BY <1>1, <1>3, <1>4, <1>5, <1>6, <1>7, <1>8, <1>9, Frame

\* Only what a scan has been promised changes.
LEMMA FrameScan ==
  ASSUME NEW sc, NEW th, NEW p, NEW ga, PoolInv(sc, th, p, ga), NEW s \in Scan,
         NEW r \in Promised, r.attached = sc[s].attached, r.thread = sc[s].thread, LooseOK(r),
         \A w \in Thread : Serves(sc, w, s) => ServeOK(th[w], r, s, w, p)
  PROVE  PoolInv([sc EXCEPT ![s] = r], th, p, ga)
<1> DEFINE sd == [sc EXCEPT ![s] = r]
<1>1. /\ sc \in [Scan -> Promised] /\ th \in [Thread -> Worker] /\ p \in PoolState /\ ga \in BOOLEAN
      /\ \A v \in Thread : OwnOK(th[v]) /\ (~Used(sc, v) => IdleOK(th[v], v, p))
      /\ \A q \in Scan : LooseOK(sc[q])
      /\ \A q \in Scan, v \in Thread : Serves(sc, v, q) => ServeOK(th[v], sc[q], q, v, p) /\ (ga \/ ~th[v].killed)
      /\ \A q, x \in Scan, v \in Thread : Serves(sc, v, q) /\ Serves(sc, v, x) => x = q
      /\ PoolOK(sc, p)
  BY DEF PoolInv
<1>2. sd \in [Scan -> Promised] /\ sd[s] = r /\ \A q \in Scan : q # s => sd[q] = sc[q]
  BY <1>1
<1> HIDE DEF sd
<1>3. \A v, q : q \in Scan => (Serves(sd, v, q) <=> Serves(sc, v, q))
  BY <1>2 DEF Serves
<1>4. \A v : Used(sd, v) <=> Used(sc, v)
  BY <1>3 DEF Used
<1>5. \A q \in Scan : LooseOK(sd[q])
  BY <1>1, <1>2
<1>6. ASSUME NEW q \in Scan, NEW v \in Thread, Serves(sd, v, q)
      PROVE  ServeOK(th[v], sd[q], q, v, p) /\ (ga \/ ~th[v].killed)
  BY <1>1, <1>2, <1>3, <1>6
<1>7. PoolOK(sd, p)
  BY <1>1, <1>4 DEF PoolOK
<1>8. \A q, x \in Scan, v \in Thread : Serves(sd, v, q) /\ Serves(sd, v, x) => x = q
  BY <1>1, <1>3
<1>9. \A v \in Thread : OwnOK(th[v]) /\ (~Used(sd, v) => IdleOK(th[v], v, p))
  BY <1>1, <1>4
<1> QED BY <1>1, <1>2, <1>5, <1>6, <1>7, <1>8, <1>9 DEF PoolInv, sd

-----------------------------------------------------------------------------
(* The scans keep the invariant *)

\* A scan that hears something: its thread, and what it heard.
LEMMA Hearing ==
  ASSUME Before, NEW s \in Scan, NEW type, Hears(s, type)
  PROVE  \E w \in Thread : /\ w = scan[s].thread /\ Serves(scan, w, s) /\ thread[w] \in Worker /\ OwnOK(thread[w])
                           /\ thread[w].mail # << >> /\ Head(thread[w].mail).type = type
                           /\ ServeOK(thread[w], scan[s], s, w, pool)
                           /\ scan[s] \in Promised /\ LooseOK(scan[s]) /\ pool \in PoolState
<1>1. scan[s].attached
  BY DEF Hears
<1>2. PICK w \in Thread : w = scan[s].thread
  BY <1>1, PoolParts DEF Before, LooseOK
<1>3. Serves(scan, w, s)
  BY <1>1, <1>2 DEF Serves
<1>4. thread[w].mail # << >> /\ Head(thread[w].mail).type = type
  BY <1>2 DEF Hears
<1>5. ServeOK(thread[w], scan[s], s, w, pool) /\ thread[w] \in Worker /\ OwnOK(thread[w])
  BY <1>3, PoolParts DEF Before
<1>6. scan[s] \in Promised /\ LooseOK(scan[s]) /\ pool \in PoolState
  BY PoolParts DEF Before
<1> QED BY <1>2, <1>3, <1>4, <1>5, <1>6

\* Whoever leaves a thread that is stopped leaves it to nobody.
LEMMA LeaveDropped ==
  ASSUME Before, NEW s \in Scan, NEW w \in Thread, Serves(scan, w, s),
         NEW r \in Promised, ~r.attached, LooseOK(r), NEW t \in Worker, OwnOK(t), t.life # "alive", t.jobs = << >>
  PROVE  PoolInv([scan EXCEPT ![s] = r], [thread EXCEPT ![w] = t], Without(pool, w), garbled)
<1>1. pool \in PoolState
  BY PoolParts DEF Before
<1>2. PICK o : o = Without(pool, w)
  OBVIOUS
<1>3. o \in PoolState /\ o.thread # w
  BY <1>1, <1>2, WithoutIs
<1>4. IdleOK(t, w, o)
  BY <1>3, StoppedIdle
<1>5. PoolInv([scan EXCEPT ![s] = r], [thread EXCEPT ![w] = t], o, garbled)
  BY <1>2, <1>3, <1>4, FrameLeave DEF Before
<1> QED BY <1>2, <1>5

LEMMA OnGraphKeeps ==
  ASSUME Before, NEW s \in Scan, OnGraph(s)
  PROVE  After
<1>1. PICK w \in Thread : /\ w = scan[s].thread /\ Serves(scan, w, s) /\ thread[w] \in Worker /\ OwnOK(thread[w])
                          /\ thread[w].mail # << >> /\ Head(thread[w].mail).type = "graph"
                          /\ ServeOK(thread[w], scan[s], s, w, pool)
                          /\ scan[s] \in Promised /\ LooseOK(scan[s]) /\ pool \in PoolState
  BY Hearing DEF OnGraph
<1>2. PICK t \in Worker : t = thread[w] /\ OwnOK(t) /\ t.mail # << >>
  BY <1>1
<1>3. PICK u : u = HeardOf(t)
  OBVIOUS
<1>4. PICK h : h = Head(t.mail)
  OBVIOUS
<1>5. h.type = "graph"
  BY <1>1, <1>2, <1>4
<1>6. /\ u \in Worker /\ OwnOK(u) /\ u.life = t.life /\ u.jobs = t.jobs /\ u.stage = t.stage
      /\ u.killed => t.killed
      /\ \A T : Has(t.mail, T) /\ h.type # "exit" => h.type \in T \/ Has(u.mail, T)
      /\ \A W : AllOf(t.mail, W) => h.of \in W /\ AllOf(u.mail, W)
  BY <1>2, <1>3, <1>4, HeardIs
<1>7. PICK g : g = IF scan[s].promise = "pending" /\ scan[s].graph = "none" THEN "parsing" ELSE scan[s].graph
  OBVIOUS
<1>7a. PICK r : r = [scan[s] EXCEPT !.graph = g]
  OBVIOUS
<1>8. /\ r \in Promised /\ r.attached = scan[s].attached /\ r.thread = scan[s].thread /\ r.promise = scan[s].promise
      /\ r.functions = scan[s].functions /\ r.graph = g
  <2>1. g \in {"none", "parsing", "read"}
    BY <1>1, <1>7 DEF Promised
  <2> QED BY <1>1, <1>7a, <2>1 DEF Promised
<1>9. scan[s].promise \in {"pending", "resolved"} /\ (scan[s].promise = "resolved" => scan[s].graph = "read") /\ scan[s].attached
  BY <1>1 DEF ServeOK, LooseOK, Serves
<1>10. r.graph # "none" /\ r.attached /\ r.thread = w /\ LooseOK(r)
  BY <1>1, <1>7, <1>8, <1>9 DEF LooseOK
<1>11. ServeOK(u, r, s, w, pool)
  <2>1. /\ t.life # "unused" /\ t.jobs \in {<< >>, <<s>>} /\ AllOf(t.mail, {s, NoScan})
        /\ t.life = "ended" => Has(t.mail, {"exit"})
        /\ pool.thread = w => ~t.killed
        /\ r.functions = "open" => t.jobs # << >> \/ Has(t.mail, {"functions", "error"} \cup Final \cup Last)
    <3>1. ServeOK(t, scan[s], s, w, pool) /\ r.functions = scan[s].functions
      BY <1>1, <1>2, <1>8
    <3> QED BY <3>1 DEF ServeOK
  <2>2. h.type # "exit" /\ h.type \notin {"exit"} /\ h.type \notin {"functions", "error"} \cup Final \cup Last
    BY <1>5 DEF Final, Last
  <2>3. Has(t.mail, {"functions", "error"} \cup Final \cup Last) => Has(u.mail, {"functions", "error"} \cup Final \cup Last)
    BY <1>6, <2>2
  <2>4. Has(t.mail, {"exit"}) => Has(u.mail, {"exit"})
    BY <1>6, <2>2
  <2>5. AllOf(u.mail, {s, NoScan})
    BY <1>6, <2>1
  <2> QED BY <1>6, <1>8, <1>9, <1>10, <2>1, <2>3, <2>4, <2>5 DEF ServeOK
<1>12. PoolInv([scan EXCEPT ![s] = r], [thread EXCEPT ![w] = u], pool, garbled)
  <2>1. u.killed => thread[w].killed
    BY <1>2, <1>6
  <2> QED BY <1>1, <1>6, <1>8, <1>10, <1>11, <2>1, FrameServe DEF Before
<1>13. Heard(w) /\ UNCHANGED <<pool, garbled>> /\ scan' = [scan EXCEPT ![s] = r]
  <2>1. scan' = [scan EXCEPT ![s].graph = IF scan[s].promise = "pending" /\ @ = "none" THEN "parsing" ELSE @]
    BY DEF OnGraph
  <2> QED BY <1>1, <1>7, <1>7a, <2>1 DEF OnGraph
<1>14. thread' = [thread EXCEPT ![w] = u]
  BY <1>2, <1>3, <1>13, HeardStep
<1> QED BY <1>12, <1>13, <1>14 DEF After

LEMMA OnFunctionsKeeps ==
  ASSUME Before, NEW s \in Scan, OnFunctions(s)
  PROVE  After
<1>1. PICK w \in Thread : /\ w = scan[s].thread /\ Serves(scan, w, s) /\ thread[w] \in Worker /\ OwnOK(thread[w])
                          /\ thread[w].mail # << >> /\ Head(thread[w].mail).type = "functions"
                          /\ ServeOK(thread[w], scan[s], s, w, pool)
                          /\ scan[s] \in Promised /\ LooseOK(scan[s]) /\ pool \in PoolState
  BY Hearing DEF OnFunctions
<1>2. PICK t \in Worker : t = thread[w] /\ OwnOK(t) /\ t.mail # << >>
  BY <1>1
<1>3. PICK u : u = HeardOf(t)
  OBVIOUS
<1>4. PICK h : h = Head(t.mail)
  OBVIOUS
<1>5. h.type = "functions"
  BY <1>1, <1>2, <1>4
<1>6. /\ u \in Worker /\ OwnOK(u) /\ u.life = t.life /\ u.jobs = t.jobs /\ u.stage = t.stage
      /\ u.killed => t.killed
      /\ \A T : Has(t.mail, T) /\ h.type # "exit" => h.type \in T \/ Has(u.mail, T)
      /\ \A W : AllOf(t.mail, W) => h.of \in W /\ AllOf(u.mail, W)
      /\ GraphFirst(t.mail) /\ h.type # "graph" => GraphFirst(u.mail)
  BY <1>2, <1>3, <1>4, HeardIs
<1>7. PICK r : r = Settled(scan[s], "ok")
  OBVIOUS
<1>8. /\ r \in Promised /\ r.functions # "open" /\ r.attached = scan[s].attached /\ r.thread = scan[s].thread
      /\ r.graph = scan[s].graph /\ r.promise = scan[s].promise
  BY <1>1, <1>7, SettledIs
<1>9. r.attached /\ r.thread = w /\ LooseOK(r)
  BY <1>1, <1>8 DEF LooseOK, Serves
<1>10. ServeOK(u, r, s, w, pool)
  <2>1. /\ t.life # "unused" /\ t.jobs \in {<< >>, <<s>>} /\ AllOf(t.mail, {s, NoScan})
        /\ t.life = "ended" => Has(t.mail, {"exit"})
        /\ pool.thread = w => ~t.killed
        /\ r.promise \in {"pending", "resolved"}
        /\ r.graph = "none" => GraphFirst(t.mail) /\ (t.stage # "scan" => Has(t.mail, {"graph"}))
        /\ r.graph = "none" /\ r.promise = "pending" => t.jobs # << >> \/ Has(t.mail, {"graph", "error"} \cup Last)
    BY <1>1, <1>2, <1>8 DEF ServeOK
  <2>2. h.type # "exit" /\ h.type # "graph" /\ h.type \notin {"exit"} /\ h.type \notin {"graph"} /\ h.type \notin {"graph", "error"} \cup Last
    BY <1>5 DEF Last
  <2>3. Has(t.mail, {"graph", "error"} \cup Last) => Has(u.mail, {"graph", "error"} \cup Last)
    BY <1>6, <2>2
  <2>4. (Has(t.mail, {"exit"}) => Has(u.mail, {"exit"})) /\ (Has(t.mail, {"graph"}) => Has(u.mail, {"graph"}))
    BY <1>6, <2>2
  <2>5. AllOf(u.mail, {s, NoScan}) /\ (GraphFirst(t.mail) => GraphFirst(u.mail))
    BY <1>6, <2>1, <2>2
  <2> QED BY <1>6, <1>8, <2>1, <2>3, <2>4, <2>5 DEF ServeOK
<1>11. PoolInv([scan EXCEPT ![s] = r], [thread EXCEPT ![w] = u], pool, garbled)
  <2>1. u.killed => thread[w].killed
    BY <1>2, <1>6
  <2> QED BY <1>1, <1>6, <1>8, <1>9, <1>10, <2>1, FrameServe DEF Before
<1>12. Heard(w) /\ UNCHANGED <<pool, garbled>> /\ scan' = [scan EXCEPT ![s] = r]
  BY <1>1, <1>7 DEF OnFunctions
<1>13. thread' = [thread EXCEPT ![w] = u]
  BY <1>2, <1>3, <1>12, HeardStep
<1> QED BY <1>11, <1>12, <1>13 DEF After

\* A scan that leaves the thread it heard from, which is stopped.
LEMMA LeaveHeard ==
  ASSUME Before, NEW s \in Scan, NEW w \in Thread, Serves(scan, w, s), thread[w] \in Worker, OwnOK(thread[w]),
         thread[w].mail # << >>, NEW r \in Promised, ~r.attached, LooseOK(r),
         HeardAndDropped(w), scan' = [scan EXCEPT ![s] = r], garbled' = garbled
  PROVE  After
<1>1. PICK t \in Worker : t = thread[w] /\ OwnOK(t) /\ t.mail # << >>
  OBVIOUS
<1>2. PICK u : u = DroppedOf(t)
  OBVIOUS
<1>3. u \in Worker /\ OwnOK(u) /\ u.life # "alive" /\ u.jobs = << >>
  BY <1>1, <1>2, DroppedIs
<1>4. PoolInv([scan EXCEPT ![s] = r], [thread EXCEPT ![w] = u], Without(pool, w), garbled)
  BY <1>3, LeaveDropped
<1>5. thread' = [thread EXCEPT ![w] = u] /\ pool' = Without(pool, w)
  BY <1>1, <1>2, HeardAndDroppedStep
<1> QED BY <1>4, <1>5 DEF After

LEMMA OnErrorKeeps ==
  ASSUME Before, NEW s \in Scan, OnError(s)
  PROVE  After
<1>1. PICK w \in Thread : /\ w = scan[s].thread /\ Serves(scan, w, s) /\ thread[w] \in Worker /\ OwnOK(thread[w])
                          /\ thread[w].mail # << >> /\ Head(thread[w].mail).type = "error"
                          /\ ServeOK(thread[w], scan[s], s, w, pool)
                          /\ scan[s] \in Promised /\ LooseOK(scan[s]) /\ pool \in PoolState
  BY Hearing DEF OnError
<1>2. PICK q \in Promised : q = scan[s] /\ LooseOK(q)
  BY <1>1
<1>3. q.graph = "parsing" => q.thread \in Thread
  BY <1>2 DEF LooseOK
<1>4. PICK r : r = IF q.graph = "none" THEN Failed(q) ELSE Settled(Killed(q), "failed")
  OBVIOUS
<1>5. r \in Promised /\ ~r.attached /\ LooseOK(r)
  <2>1. CASE q.graph = "none"
    <3>1. r = Failed(q)
      BY <1>4, <2>1
    <3> QED BY <1>3, <3>1, FailedIs
  <2>2. CASE q.graph # "none"
    <3>1. r = Settled(Killed(q), "failed")
      BY <1>4, <2>2
    <3> QED BY <1>2, <2>2, <3>1, LeftIs
  <2> QED BY <2>1, <2>2
<1>6. HeardAndDropped(w) /\ garbled' = garbled /\ scan' = [scan EXCEPT ![s] = r]
  BY <1>1, <1>2, <1>4 DEF OnError
<1> QED BY <1>1, <1>5, <1>6, LeaveHeard

LEMMA OnExitKeeps ==
  ASSUME Before, NEW s \in Scan, OnExit(s)
  PROVE  After
<1>1. PICK w \in Thread : /\ w = scan[s].thread /\ Serves(scan, w, s) /\ thread[w] \in Worker /\ OwnOK(thread[w])
                          /\ thread[w].mail # << >> /\ Head(thread[w].mail).type = "exit"
                          /\ ServeOK(thread[w], scan[s], s, w, pool)
                          /\ scan[s] \in Promised /\ LooseOK(scan[s]) /\ pool \in PoolState
  BY Hearing DEF OnExit
<1>2. PICK q \in Promised : q = scan[s] /\ LooseOK(q)
  BY <1>1
<1>3. PICK k : k = Settled(Killed(q), "failed")
  OBVIOUS
<1>4. /\ k \in Promised /\ ~k.attached /\ k.graph = q.graph /\ k.promise = q.promise
      /\ q.graph = "parsing" => k.thread = q.thread
      /\ q.promise # "pending" \/ q.graph # "none" => LooseOK(k)
  BY <1>2, <1>3, LeftIs
<1>5. PICK r : r = IF k.promise = "pending" THEN Failed(k) ELSE k
  OBVIOUS
<1>6. r \in Promised /\ ~r.attached /\ LooseOK(r)
  <2>1. CASE k.promise = "pending"
    <3>1. r = Failed(k)
      BY <1>5, <2>1
    <3>2. k.graph = "parsing" => k.thread \in Thread
      BY <1>2, <1>4 DEF LooseOK
    <3> QED BY <1>4, <3>1, <3>2, FailedIs
  <2>2. CASE k.promise # "pending"
    BY <1>4, <1>5, <2>2
  <2> QED BY <2>1, <2>2
<1>7. PICK t \in Worker : t = thread[w]
  BY <1>1
<1>8. HeardOf(t) = Gone
  BY <1>1, <1>7 DEF HeardOf, Gone
<1>9. PoolInv([scan EXCEPT ![s] = r], [thread EXCEPT ![w] = Gone], Without(pool, w), garbled)
  <2>1. Gone \in Worker /\ OwnOK(Gone) /\ Gone.life # "alive" /\ Gone.jobs = << >>
    BY GoneIs
  <2>2. PICK u \in Worker : u = Gone /\ OwnOK(u) /\ u.life # "alive" /\ u.jobs = << >>
    BY <2>1
  <2>3. PoolInv([scan EXCEPT ![s] = r], [thread EXCEPT ![w] = u], Without(pool, w), garbled)
    BY <1>1, <1>6, <2>2, LeaveDropped
  <2> QED BY <2>2, <2>3
<1>10. pool' = Without(pool, w) /\ Heard(w) /\ garbled' = garbled /\ scan' = [scan EXCEPT ![s] = r]
  BY <1>1, <1>2, <1>3, <1>5 DEF OnExit
<1>11. thread' = [thread EXCEPT ![w] = Gone]
  BY <1>7, <1>8, <1>10, HeardStep
<1> QED BY <1>9, <1>10, <1>11 DEF After

LEMMA OnCrashKeeps ==
  ASSUME Before, NEW s \in Scan, OnCrash(s)
  PROVE  After
<1>1. PICK type \in {"crash", "noStart"} : Hears(s, type)
  BY DEF OnCrash
<1>2. PICK w \in Thread : /\ w = scan[s].thread /\ Serves(scan, w, s) /\ thread[w] \in Worker /\ OwnOK(thread[w])
                          /\ thread[w].mail # << >> /\ Head(thread[w].mail).type = type
                          /\ ServeOK(thread[w], scan[s], s, w, pool)
                          /\ scan[s] \in Promised /\ LooseOK(scan[s]) /\ pool \in PoolState
  BY <1>1, Hearing
<1>3. PICK q \in Promised : q = scan[s] /\ LooseOK(q)
  BY <1>2
<1>4. garbled' = garbled
  BY DEF OnCrash
<1>5. CASE q.graph # "none"
  <2>1. PICK t \in Worker : t = thread[w] /\ OwnOK(t) /\ t.mail # << >>
    BY <1>2
  <2>2. PICK u : u = HeardOf(t)
    OBVIOUS
  <2>3. PICK h : h = Head(t.mail)
    OBVIOUS
  <2>4. h.type # "exit" /\ h.type \notin {"exit"} /\ h.type \in Last
    BY <1>2, <2>1, <2>3 DEF Last
  <2>5. /\ u \in Worker /\ OwnOK(u) /\ u.life = t.life /\ u.jobs = t.jobs /\ u.stage = t.stage
        /\ u.killed => t.killed
        /\ \A T : Has(t.mail, T) /\ h.type # "exit" => h.type \in T \/ Has(u.mail, T)
        /\ \A W : AllOf(t.mail, W) => h.of \in W /\ AllOf(u.mail, W)
    BY <2>1, <2>2, <2>3, HeardIs
  <2>6. PICK r : r = Settled(q, "failed")
    OBVIOUS
  <2>7. /\ r \in Promised /\ r.functions # "open" /\ r.attached = q.attached /\ r.thread = q.thread
        /\ r.graph = q.graph /\ r.promise = q.promise
    BY <2>6, SettledIs
  <2>8. r.attached /\ r.thread = w /\ LooseOK(r)
    BY <1>2, <1>3, <2>7 DEF LooseOK, Serves
  <2>9. PICK o \in PoolState : pool' = o /\ (o = pool \/ o = Without(pool, w))
    <3>1. pool' = IF thread[w].standby THEN Without(pool, w) ELSE pool
      BY <1>2, <1>3, <1>5 DEF OnCrash
    <3>2. Without(pool, w) \in PoolState
      BY <1>2, WithoutIs
    <3> QED BY <1>2, <3>1, <3>2
  <2>10. o.thread = w => pool.thread = w
    <3>1. Without(pool, w).thread # w
      BY <1>2, WithoutIs
    <3> QED BY <2>9, <3>1
  <2>11. ServeOK(u, r, s, w, o)
    <3>1. /\ t.life # "unused" /\ t.jobs \in {<< >>, <<s>>} /\ AllOf(t.mail, {s, NoScan})
          /\ t.life = "ended" => Has(t.mail, {"exit"})
          /\ pool.thread = w => ~t.killed
          /\ q.promise \in {"pending", "resolved"}
      BY <1>2, <1>3, <2>1 DEF ServeOK
    <3>2. Has(t.mail, {"exit"}) => Has(u.mail, {"exit"})
      BY <2>4, <2>5
    <3>3. AllOf(u.mail, {s, NoScan})
      BY <2>5, <3>1
    <3>4. r.graph # "none" /\ r.functions # "open" /\ r.promise = q.promise
      BY <1>5, <2>7
    <3> QED BY <2>5, <2>10, <3>1, <3>2, <3>3, <3>4 DEF ServeOK
  <2>12. PoolInv([scan EXCEPT ![s] = r], [thread EXCEPT ![w] = u], o, garbled)
    <3>1. u.killed => thread[w].killed
      BY <2>1, <2>5
    <3> QED BY <1>2, <2>5, <2>7, <2>8, <2>9, <2>11, <3>1, FrameServe DEF Before
  <2>13. Heard(w) /\ scan' = [scan EXCEPT ![s] = r]
    BY <1>2, <1>3, <1>5, <2>6 DEF OnCrash
  <2>14. thread' = [thread EXCEPT ![w] = u]
    BY <2>1, <2>2, <2>13, HeardStep
  <2> QED BY <1>4, <2>9, <2>12, <2>13, <2>14 DEF After
<1>6. CASE q.graph = "none"
  <2>1. PICK k : k = Killed(q)
    OBVIOUS
  <2>2. k \in Promised /\ ~k.attached /\ k.graph = q.graph
    BY <2>1, KilledIs
  <2>3. PICK l : l = [k EXCEPT !.promise = "local"]
    OBVIOUS
  <2>4. l \in Promised /\ ~l.attached /\ l.graph = "none" /\ l.promise = "local"
    BY <1>6, <2>2, <2>3 DEF Promised, Promises
  <2>5. LooseOK(l)
    BY <2>4 DEF LooseOK
  <2>6. PICK f : f = Failed(q)
    OBVIOUS
  <2>7. f \in Promised /\ ~f.attached /\ LooseOK(f)
    <3>1. q.graph = "parsing" => q.thread \in Thread
      BY <1>6
    <3> QED BY <2>6, <3>1, FailedIs
  <2>8. PICK r \in {l, f} : scan' = [scan EXCEPT ![s] = r]
    <3>1. scan' = [scan EXCEPT ![s] = IF Hears(s, "noStart") THEN [Killed(@) EXCEPT !.promise = "local"] ELSE Failed(@)]
      BY <1>3, <1>6 DEF OnCrash
    <3>2. scan' = [scan EXCEPT ![s] = IF Hears(s, "noStart") THEN l ELSE f]
      BY <1>3, <2>1, <2>3, <2>6, <3>1
    <3> QED BY <3>2
  <2>9. r \in Promised /\ ~r.attached /\ LooseOK(r)
    BY <2>4, <2>5, <2>7, <2>8
  <2>10. HeardAndDropped(w)
    BY <1>2, <1>3, <1>6 DEF OnCrash
  <2> QED BY <1>2, <1>4, <2>8, <2>9, <2>10, LeaveHeard
<1> QED BY <1>5, <1>6

LEMMA OnDoneKeeps ==
  ASSUME Before, NEW s \in Scan, OnDone(s)
  PROVE  After
<1>1. PICK type \in Final : Hears(s, type)
  BY DEF OnDone, Final
<1>2. PICK w \in Thread : /\ w = scan[s].thread /\ Serves(scan, w, s) /\ thread[w] \in Worker /\ OwnOK(thread[w])
                          /\ thread[w].mail # << >> /\ Head(thread[w].mail).type = type
                          /\ ServeOK(thread[w], scan[s], s, w, pool)
                          /\ scan[s] \in Promised /\ LooseOK(scan[s]) /\ pool \in PoolState
  BY <1>1, Hearing
<1>3. PICK q \in Promised : q = scan[s] /\ LooseOK(q)
  BY <1>2
<1>4. PICK t \in Worker : t = thread[w] /\ OwnOK(t) /\ t.mail # << >> /\ ServeOK(t, q, s, w, pool)
  BY <1>2, <1>3
<1>5. PICK h : h = Head(t.mail)
  OBVIOUS
<1>6. PICK u : u = HeardOf(t)
  OBVIOUS
<1>7. h.type \in Final /\ h.type # "exit" /\ h.type \notin {"exit"}
  BY <1>2, <1>4, <1>5 DEF Final
<1>8. /\ u \in Worker /\ OwnOK(u) /\ u.life = t.life /\ u.jobs = t.jobs
      /\ u.killed => t.killed
      /\ \A T : Has(t.mail, T) /\ h.type # "exit" => h.type \in T \/ Has(u.mail, T)
      /\ h.type \in Final => t.jobs = << >> /\ AllOf(u.mail, {NoScan})
      /\ GraphFirst(t.mail) => h.type \notin Final
  BY <1>4, <1>5, <1>6, HeardIs
<1>9. q.graph # "none"
  BY <1>4, <1>7, <1>8 DEF ServeOK
<1>10. PICK r : r = Settled(Killed(q), "failed")
  OBVIOUS
<1>11. r \in Promised /\ ~r.attached /\ LooseOK(r)
  BY <1>3, <1>9, <1>10, LeftIs
<1>12. garbled' = garbled /\ scan' = [scan EXCEPT ![s] = r]
  BY <1>3, <1>10 DEF OnDone
<1>13. CASE HeardAndDropped(w)
  BY <1>2, <1>11, <1>12, <1>13, LeaveHeard
<1>14. CASE pool.thread = w /\ pool' = [pool EXCEPT !.busy = FALSE, !.timer = TRUE] /\ Heard(w)
  <2>1. PICK o : o = [pool EXCEPT !.busy = FALSE, !.timer = TRUE]
    OBVIOUS
  <2>2. o \in PoolState /\ o.thread = w /\ ~o.busy /\ o.timer
    BY <1>2, <1>14, <2>1 DEF PoolState
  <2>3. IdleOK(u, w, o)
    <3>1. /\ t.life # "unused" /\ ~t.killed
          /\ t.life = "ended" => Has(t.mail, {"exit"})
      BY <1>4, <1>14 DEF ServeOK
    <3>2. Has(t.mail, {"exit"}) => Has(u.mail, {"exit"})
      BY <1>7, <1>8
    <3> QED BY <1>7, <1>8, <2>2, <3>1, <3>2 DEF IdleOK
  <2>4. PoolInv([scan EXCEPT ![s] = r], [thread EXCEPT ![w] = u], o, garbled)
    BY <1>2, <1>8, <1>11, <1>14, <2>2, <2>3, FrameLeave DEF Before
  <2>5. thread' = [thread EXCEPT ![w] = u]
    BY <1>4, <1>6, <1>14, HeardStep
  <2> QED BY <1>12, <1>14, <2>1, <2>4, <2>5 DEF After
<1>15. ASSUME NEW v \in Thread, New(v), pool.thread = w, pool' = [thread |-> v, busy |-> FALSE, timer |-> TRUE],
              thread' = [thread EXCEPT ![w] = Terminated(Shorter(@)), ![v] = [Hatch(<< >>) EXCEPT !.standby = TRUE]]
       PROVE  After
  <2>1. PICK x : x = DroppedOf(t)
    OBVIOUS
  <2>2. x \in Worker /\ OwnOK(x) /\ x.life # "alive" /\ x.jobs = << >>
    BY <1>4, <2>1, DroppedIs
  <2>3. PICK sd : sd = [scan EXCEPT ![s] = r]
    OBVIOUS
  <2>4. PICK td : td = [thread EXCEPT ![w] = x]
    OBVIOUS
  <2>5. PICK p : p = Without(pool, w)
    OBVIOUS
  <2>6. PoolInv(sd, td, p, garbled)
    BY <1>2, <1>11, <2>2, <2>3, <2>4, <2>5, LeaveDropped
  <2>7. p.thread = NoThread
    BY <1>15, <2>5 DEF Without, NoPool
  <2>8. thread[v].life = "unused" /\ v # w
    BY <1>4, <1>15 DEF New, ServeOK
  <2>9. thread \in [Thread -> Worker]
    BY PoolParts DEF Before
  <2>10. td[v].life = "unused"
    BY <2>4, <2>8, <2>9
  <2>11. PICK y : y = [Hatch(<< >>) EXCEPT !.standby = TRUE]
    OBVIOUS
  <2>12. PICK o : o = [thread |-> v, busy |-> FALSE, timer |-> TRUE]
    OBVIOUS
  <2>13. PoolInv(sd, [td EXCEPT ![v] = y], o, garbled)
    BY <2>6, <2>7, <2>10, <2>11, <2>12, ParkedKeeps
  <2>14. thread' = [td EXCEPT ![v] = y]
    <3>1. thread' = [thread EXCEPT ![w] = x, ![v] = y]
      <4>1. Terminated(Shorter(thread[w])) = x
        BY <1>4, <2>1 DEF DroppedOf
      <4>2. thread' = [thread EXCEPT ![w] = Terminated(Shorter(thread[w])), ![v] = y]
        BY <1>15, <2>11
      <4> QED BY <4>1, <4>2
    <3> QED BY <2>4, <2>8, <2>9, <3>1
  <2> QED BY <1>12, <1>15, <2>3, <2>12, <2>13, <2>14 DEF After
<1>16. HeardAndDropped(w)
       \/ (pool.thread = w /\ pool' = [pool EXCEPT !.busy = FALSE, !.timer = TRUE] /\ Heard(w))
       \/ (pool.thread = w /\ \E v \in Thread :
             /\ New(v) /\ pool' = [thread |-> v, busy |-> FALSE, timer |-> TRUE]
             /\ thread' = [thread EXCEPT ![w] = Terminated(Shorter(@)), ![v] = [Hatch(<< >>) EXCEPT !.standby = TRUE]])
  BY <1>2 DEF OnDone
<1> QED BY <1>13, <1>14, <1>15, <1>16

LEMMA AbortKeeps ==
  ASSUME Before, NEW s \in Scan, Abort(s) \/ CancelFunctions(s)
  PROVE  After
<1>1. scan[s].attached /\ garbled' = garbled /\ DropWorker(scan[s].thread)
  BY DEF Abort, CancelFunctions, Fail
<1>2. PICK q \in Promised : q = scan[s] /\ LooseOK(q)
  BY PoolParts DEF Before
<1>3. PICK w \in Thread : w = scan[s].thread
  BY <1>1, <1>2 DEF LooseOK
<1>4. Serves(scan, w, s)
  BY <1>1, <1>3 DEF Serves
<1>5. PICK r \in Promised : ~r.attached /\ LooseOK(r) /\ scan' = [scan EXCEPT ![s] = r]
  <2>1. CASE Abort(s)
    <3>1. PICK r : r = Failed(q)
      OBVIOUS
    <3>2. q.graph = "parsing" => q.thread \in Thread
      BY <1>2 DEF LooseOK
    <3>3. r \in Promised /\ ~r.attached /\ LooseOK(r)
      BY <3>1, <3>2, FailedIs
    <3>4. scan' = [scan EXCEPT ![s] = r]
      BY <1>2, <2>1, <3>1 DEF Abort, Fail
    <3> QED BY <3>3, <3>4
  <2>2. CASE CancelFunctions(s)
    <3>1. PICK r : r = Settled(Killed(q), "failed")
      OBVIOUS
    <3>2. q.promise # "pending"
      BY <1>2, <2>2 DEF CancelFunctions
    <3>3. r \in Promised /\ ~r.attached /\ LooseOK(r)
      BY <1>2, <3>1, <3>2, LeftIs
    <3>4. scan' = [scan EXCEPT ![s] = r]
      BY <1>2, <2>2, <3>1 DEF CancelFunctions
    <3> QED BY <3>3, <3>4
  <2> QED BY <2>1, <2>2
<1>6. PICK t \in Worker : t = thread[w] /\ OwnOK(t)
  BY PoolParts DEF Before
<1>7. PICK u : u = Terminated(t)
  OBVIOUS
<1>8. u \in Worker /\ OwnOK(u) /\ u.life # "alive" /\ u.jobs = << >>
  BY <1>6, <1>7, TerminatedIs
<1>9. PoolInv([scan EXCEPT ![s] = r], [thread EXCEPT ![w] = u], Without(pool, w), garbled)
  BY <1>4, <1>5, <1>8, LeaveDropped
<1>10. thread' = [thread EXCEPT ![w] = u] /\ pool' = Without(pool, w)
  BY <1>1, <1>3, <1>6, <1>7 DEF DropWorker
<1> QED BY <1>1, <1>5, <1>9, <1>10 DEF After

\* A graph that is read, or given up, without a word to its thread.
LEMMA ParsedKeeps ==
  ASSUME Before, NEW s \in Scan, scan[s].graph = "parsing", UNCHANGED <<thread, pool, garbled>>,
         NEW done \in Promises, done = (IF scan[s].promise = "pending" THEN "resolved" ELSE scan[s].promise),
         scan' = [scan EXCEPT ![s].graph = "read", ![s].promise = done]
  PROVE  After
<1>1. PICK q \in Promised : q = scan[s] /\ LooseOK(q)
  BY PoolParts DEF Before
<1>2. PICK r : r = [q EXCEPT !.graph = "read", !.promise = done]
  OBVIOUS
<1>3. /\ r \in Promised /\ r.graph = "read" /\ r.promise = done /\ r.attached = q.attached /\ r.thread = q.thread
      /\ r.functions = q.functions
  BY <1>2 DEF Promised
<1>4. LooseOK(r)
  BY <1>1, <1>3 DEF LooseOK
<1>5. ASSUME NEW w \in Thread, Serves(scan, w, s) PROVE ServeOK(thread[w], r, s, w, pool)
  <2>1. ServeOK(thread[w], q, s, w, pool)
    BY <1>1, <1>5, PoolParts DEF Before
  <2> QED BY <1>1, <1>3, <2>1 DEF ServeOK
<1>6. PoolInv([scan EXCEPT ![s] = r], thread, pool, garbled)
  BY <1>1, <1>3, <1>4, <1>5, FrameScan DEF Before
<1>7. scan' = [scan EXCEPT ![s] = r]
  BY <1>1, <1>2, PoolParts DEF Before
<1> QED BY <1>6, <1>7 DEF After

LEMMA RunInProcessKeeps ==
  ASSUME Before, NEW s \in Scan, RunInProcess(s)
  PROVE  After
<1>1. PICK how \in {"resolved", "rejected"} : scan' = [scan EXCEPT ![s].promise = how]
  BY DEF RunInProcess
<1>2. PICK q \in Promised : q = scan[s] /\ LooseOK(q) /\ q.promise = "local"
  BY PoolParts DEF Before, RunInProcess
<1>3. PICK r : r = [q EXCEPT !.promise = how]
  OBVIOUS
<1>4. /\ r \in Promised /\ r.promise = how /\ r.graph = q.graph /\ r.attached = q.attached /\ r.thread = q.thread
      /\ r.functions = q.functions
  BY <1>3 DEF Promised, Promises
<1>5. \A w \in Thread : ~Serves(scan, w, s)
  <2> SUFFICES ASSUME NEW w \in Thread, Serves(scan, w, s) PROVE FALSE
    OBVIOUS
  <2>1. ServeOK(thread[w], q, s, w, pool)
    BY <1>2, PoolParts DEF Before
  <2> QED BY <1>2, <2>1 DEF ServeOK
<1>6. ~q.attached
  BY <1>2, <1>5 DEF LooseOK, Serves
<1>7. LooseOK(r)
  BY <1>2, <1>4, <1>6 DEF LooseOK
<1>8. PoolInv([scan EXCEPT ![s] = r], thread, pool, garbled)
  BY <1>2, <1>4, <1>5, <1>7, FrameScan DEF Before
<1>9. scan' = [scan EXCEPT ![s] = r] /\ UNCHANGED <<thread, pool, garbled>>
  BY <1>1, <1>2, <1>3 DEF RunInProcess
<1> QED BY <1>8, <1>9 DEF After

\* A graph that cannot be read may come when its thread is another scan's.
LEMMA UnreadableKeeps ==
  ASSUME Before, NEW s \in Scan, Unreadable(s)
  PROVE  After
<1>1. PICK q \in Promised : q = scan[s] /\ LooseOK(q) /\ q.graph = "parsing"
  BY PoolParts DEF Before, Unreadable
<1>2. PICK w \in Thread : w = q.thread
  BY <1>1 DEF LooseOK
<1>3. CASE scan[s].promise # "pending"
  <2>1. scan' = [scan EXCEPT ![s].graph = "read"] /\ UNCHANGED <<thread, pool, garbled>>
    BY <1>3 DEF Unreadable
  <2>2. scan \in [Scan -> Promised] /\ q.promise \in Promises
    BY <1>1, PoolParts DEF Before, Promised
  <2>3. scan' = [scan EXCEPT ![s].graph = "read", ![s].promise = q.promise]
    <3>1. [q EXCEPT !.graph = "read", !.promise = q.promise] = [q EXCEPT !.graph = "read"]
      BY <1>1 DEF Promised
    <3>2. [scan EXCEPT ![s].graph = "read", ![s].promise = q.promise] = [scan EXCEPT ![s] = [q EXCEPT !.graph = "read", !.promise = q.promise]]
      BY <1>1, <2>2
    <3>3. [scan EXCEPT ![s].graph = "read"] = [scan EXCEPT ![s] = [q EXCEPT !.graph = "read"]]
      BY <1>1, <2>2
    <3> QED BY <2>1, <3>1, <3>2, <3>3
  <2> QED BY <1>1, <1>3, <2>1, <2>2, <2>3, ParsedKeeps
<1>4. CASE scan[s].promise = "pending"
  <2>1. PICK f : f = Failed(q)
    OBVIOUS
  <2>2. f \in Promised /\ ~f.attached /\ f.promise = "rejected" /\ f.functions # "open"
    <3>1. q.graph = "parsing" => q.thread \in Thread
      BY <1>2
    <3> QED BY <2>1, <3>1, FailedIs
  <2>3. PICK r : r = [f EXCEPT !.graph = "read"]
    OBVIOUS
  <2>4. r \in Promised /\ ~r.attached /\ r.promise = "rejected" /\ r.functions # "open" /\ r.graph = "read"
    BY <2>2, <2>3 DEF Promised
  <2>5. LooseOK(r)
    BY <2>4 DEF LooseOK
  <2>6. PICK g \in BOOLEAN : g = (garbled \/ ~q.attached)
    OBVIOUS
  <2>7. PICK t \in Worker : t = thread[w] /\ OwnOK(t)
    BY PoolParts DEF Before
  <2>8. PICK u : u = Terminated(t)
    OBVIOUS
  <2>9. u \in Worker /\ OwnOK(u) /\ u.life # "alive" /\ u.jobs = << >>
    BY <2>7, <2>8, TerminatedIs
  <2>10. pool \in PoolState /\ garbled \in BOOLEAN
    BY PoolParts DEF Before
  <2>11. PICK o \in PoolState : o = Without(pool, w) /\ o.thread # w /\ (o = pool \/ o = NoPool) /\ (o # pool => pool.thread = w)
    <3>1. /\ Without(pool, w) \in PoolState /\ Without(pool, w).thread # w
          /\ (Without(pool, w) = pool \/ Without(pool, w) = NoPool)
          /\ Without(pool, w) # pool => pool.thread = w
      BY <2>10, WithoutIs
    <3> QED BY <3>1
  <2>12. PoolInv([scan EXCEPT ![s] = r], [thread EXCEPT ![w] = u], o, g)
    <3>1. garbled => g
      BY <2>6
    <3>2. scan[s].attached => scan[s].thread = w
      BY <1>1, <1>2
    <3>3. r.attached => r.thread = w
      BY <2>4
    <3>4. r.attached => ServeOK(u, r, s, w, o) /\ (g \/ ~u.killed)
      BY <2>4
    <3>5. ASSUME NEW x \in Scan, x # s, Serves(scan, w, x)
          PROVE  ~r.attached /\ ServeOK(u, scan[x], x, w, o) /\ (g \/ ~u.killed)
      <4>1. ~q.attached
        <5>1. \A y \in Scan : Serves(scan, w, y) => y = x
          BY <3>5, PoolParts DEF Before
        <5>2. ~Serves(scan, w, s)
          BY <3>5, <5>1
        <5> QED BY <1>1, <1>2, <5>2 DEF Serves
      <4>2. ServeOK(t, scan[x], x, w, pool)
        BY <2>7, <3>5, PoolParts DEF Before
      <4>3. ServeOK(u, scan[x], x, w, o)
        BY <2>7, <2>8, <2>11, <4>2, StoppedServe
      <4> QED BY <2>4, <2>6, <4>1, <4>3
    <3>6. ~r.attached /\ (\A x \in Scan : x # s => ~Serves(scan, w, x)) => IdleOK(u, w, o)
      BY <2>9, <2>11, StoppedIdle
    <3>7. o.thread # w => pool.thread # w \/ o = NoPool
      BY <2>11
    <3>8. o # pool => pool.thread \in {w, NoThread}
      BY <2>11
    <3>9. o.thread = w => (o.busy <=> (r.attached \/ \E x \in Scan : x # s /\ Serves(scan, w, x))) /\ (o.timer <=> ~o.busy)
      BY <2>11
    <3>10. \A x \in Scan : x # s /\ Serves(scan, w, x) => ~r.attached /\ ServeOK(u, scan[x], x, w, o) /\ (g \/ ~u.killed)
      BY <3>5
    <3>11. o = pool \/ o = NoPool \/ o.thread = w
      BY <2>11
    <3>12. Before
      OBVIOUS
    <3> QED BY <2>4, <2>5, <2>9, <3>1, <3>2, <3>3, <3>4, <3>6, <3>7, <3>8, <3>9, <3>10, <3>11, <3>12, Frame DEF Before
  <2>13. scan' = [scan EXCEPT ![s] = r] /\ garbled' = g /\ pool' = o /\ thread' = [thread EXCEPT ![w] = u]
    <3>1. scan' = [scan EXCEPT ![s] = [Failed(@) EXCEPT !.graph = "read"]] /\ DropWorker(scan[s].thread)
          /\ garbled' = (garbled \/ ~scan[s].attached)
      BY <1>4 DEF Unreadable
    <3>2. scan' = [scan EXCEPT ![s] = r]
      BY <1>1, <2>1, <2>3, <3>1
    <3>3. garbled' = g
      BY <1>1, <2>6, <3>1
    <3>4. pool' = o /\ thread' = [thread EXCEPT ![w] = u]
      BY <1>1, <1>2, <2>7, <2>8, <2>11, <3>1 DEF DropWorker
    <3> QED BY <3>2, <3>3, <3>4
  <2> QED BY <2>12, <2>13 DEF After
<1> QED BY <1>3, <1>4

-----------------------------------------------------------------------------
(* The invariant, and what follows from it *)

LEMMA InitKeeps == ASSUME ScanInit PROVE Before
<1>1. PICK r : r = Unstarted
  OBVIOUS
<1>2. r \in Promised /\ ~r.attached /\ r.graph = "none" /\ r.promise = "new"
  BY <1>1 DEF Unstarted, Promised, Promises
<1>3. PICK t : t = Unborn
  OBVIOUS
<1>4. t \in Worker /\ t.life = "unused" /\ t.jobs = << >> /\ t.mail = << >> /\ ~t.killed /\ t.stage = "scan"
  <2>1. << >> \in Seq(Scan) /\ << >> \in Seq(Post)
    OBVIOUS
  <2> QED BY <1>3, <2>1 DEF Unborn, Worker
<1>5. scan = [s \in Scan |-> r] /\ thread = [w \in Thread |-> t] /\ pool = NoPool /\ garbled = FALSE
  BY <1>1, <1>3 DEF ScanInit
<1>6. pool \in PoolState /\ PoolOK(scan, pool) /\ \A w \in Thread : pool.thread # w
  BY <1>5, ScanPoolAssumption DEF NoPool, PoolState, PoolOK
<1>7. LooseOK(r)
  BY <1>2 DEF LooseOK
<1>8. OwnOK(t) /\ \A w \in Thread : IdleOK(t, w, pool)
  BY <1>3, <1>4, <1>6, NoMail DEF OwnOK, IdleOK
<1>9. scan \in [Scan -> Promised] /\ \A s \in Scan : scan[s] = r
  BY <1>2, <1>5
<1>10. thread \in [Thread -> Worker] /\ \A w \in Thread : thread[w] = t
  BY <1>4, <1>5
<1>11. \A s \in Scan, w \in Thread : ~Serves(scan, w, s)
  BY <1>2, <1>9 DEF Serves
<1>12. garbled \in BOOLEAN
  BY <1>5
<1>13. \A w \in Thread : OwnOK(thread[w]) /\ IdleOK(thread[w], w, pool)
  BY <1>8, <1>10
<1>14. \A s \in Scan : LooseOK(scan[s])
  BY <1>7, <1>9
<1> QED BY <1>6, <1>9, <1>10, <1>11, <1>12, <1>13, <1>14 DEF Before, PoolInv

LEMMA StepKeeps == ASSUME Before, [ScanNext]_scanVars PROVE After
<1>1. CASE UNCHANGED scanVars
  BY <1>1 DEF Before, After, scanVars
<1>2. ASSUME NEW s \in Scan, \E wants, oneShot \in BOOLEAN : RunScan(s, wants, oneShot) PROVE After
  BY <1>2, RunScanKeeps
<1>3. ASSUME NEW s \in Scan, OnGraph(s) PROVE After
  BY <1>3, OnGraphKeeps
<1>4. ASSUME NEW s \in Scan, Parsed(s) PROVE After
  <2>1. PICK done \in Promises : done = IF scan[s].promise = "pending" THEN "resolved" ELSE scan[s].promise
    <3>1. scan[s].promise \in Promises
      BY PoolParts DEF Before, Promised
    <3> QED BY <3>1 DEF Promises
  <2>2. scan[s].graph = "parsing" /\ UNCHANGED <<thread, pool, garbled>>
        /\ scan' = [scan EXCEPT ![s].graph = "read", ![s].promise = IF @ = "pending" THEN "resolved" ELSE @]
    BY <1>4 DEF Parsed
  <2>3. scan' = [scan EXCEPT ![s].graph = "read", ![s].promise = done]
    <3>1. scan \in [Scan -> Promised]
      BY PoolParts DEF Before
    <3>2. PICK q \in Promised : q = scan[s]
      BY <3>1
    <3>3. [q EXCEPT !.graph = "read", !.promise = IF @ = "pending" THEN "resolved" ELSE @] = [q EXCEPT !.graph = "read", !.promise = done]
      BY <2>1, <3>2 DEF Promised
    <3> QED BY <2>1, <2>2, <3>1, <3>2, <3>3
  <2> QED BY <2>1, <2>2, <2>3, ParsedKeeps
<1>5. ASSUME NEW s \in Scan, Unreadable(s) PROVE After
  BY <1>5, UnreadableKeeps
<1>6. ASSUME NEW s \in Scan, OnFunctions(s) PROVE After
  BY <1>6, OnFunctionsKeeps
<1>7. ASSUME NEW s \in Scan, OnDone(s) PROVE After
  BY <1>7, OnDoneKeeps
<1>8. ASSUME NEW s \in Scan, OnError(s) PROVE After
  BY <1>8, OnErrorKeeps
<1>9. ASSUME NEW s \in Scan, OnCrash(s) PROVE After
  BY <1>9, OnCrashKeeps
<1>10. ASSUME NEW s \in Scan, RunInProcess(s) PROVE After
  BY <1>10, RunInProcessKeeps
<1>11. ASSUME NEW s \in Scan, OnExit(s) PROVE After
  BY <1>11, OnExitKeeps
<1>12. ASSUME NEW s \in Scan, Abort(s) \/ CancelFunctions(s) PROVE After
  BY <1>12, AbortKeeps
<1>13. ASSUME NEW w \in Thread, PostGraph(w) \/ PostFunctions(w) \/ PostError(w) PROVE After
  BY <1>13, PostsKeep
<1>14. ASSUME NEW w \in Thread, Crashes(w) PROVE After
  BY <1>14, CrashKeeps
<1>15. ASSUME NEW w \in Thread, Unheard(w) PROVE After
  BY <1>15, UnheardKeeps
<1>16. ASSUME NEW w \in Thread, NEW retire \in BOOLEAN, PostDone(w, retire) PROVE After
  BY <1>16, DoneKeeps
<1>17. CASE Prewarm
  BY <1>17, PrewarmKeeps
<1>18. CASE Cools
  BY <1>18, CoolsKeeps
<1> QED BY <1>1, <1>2, <1>3, <1>4, <1>5, <1>6, <1>7, <1>8, <1>9, <1>10, <1>11, <1>12, <1>13, <1>14, <1>15, <1>16, <1>17, <1>18
        DEF ScanNext

LEMMA FaultsBounded ==
  ASSUME faults \in 0..MaxFaults, [ScanNext]_scanVars PROVE faults' \in 0..MaxFaults
<1>1. faults' = faults \/ (faults < MaxFaults /\ faults' = faults + 1)
  <2>1. CASE UNCHANGED scanVars
    BY <2>1 DEF scanVars
  <2>2. ASSUME NEW s \in Scan, \E wants, oneShot \in BOOLEAN : RunScan(s, wants, oneShot) PROVE faults' = faults
    BY <2>2 DEF RunScan
  <2>3. ASSUME NEW s \in Scan, OnGraph(s) \/ Parsed(s) \/ OnFunctions(s) \/ OnDone(s) \/ OnError(s) \/ OnCrash(s) PROVE faults' = faults
    BY <2>3 DEF OnGraph, Parsed, OnFunctions, OnDone, OnError, OnCrash
  <2>4. ASSUME NEW s \in Scan, RunInProcess(s) \/ OnExit(s) \/ Abort(s) \/ CancelFunctions(s) PROVE faults' = faults
    BY <2>4 DEF RunInProcess, OnExit, Abort, CancelFunctions
  <2>5. ASSUME NEW s \in Scan, Unreadable(s) PROVE faults < MaxFaults /\ faults' = faults + 1
    BY <2>5 DEF Unreadable
  <2>6. ASSUME NEW w \in Thread, PostGraph(w) \/ PostFunctions(w) \/ Unheard(w) PROVE faults' = faults
    BY <2>6 DEF PostGraph, PostFunctions, Unheard
  <2>7. ASSUME NEW w \in Thread, NEW retire \in BOOLEAN, PostDone(w, retire) PROVE faults' = faults
    BY <2>7 DEF PostDone
  <2>8. ASSUME NEW w \in Thread, PostError(w) \/ Crashes(w) PROVE faults < MaxFaults /\ faults' = faults + 1
    BY <2>8 DEF PostError, Crashes
  <2>9. CASE Prewarm \/ Cools
    BY <2>9 DEF Prewarm, Cools
  <2> QED BY <2>1, <2>2, <2>3, <2>4, <2>5, <2>6, <2>7, <2>8, <2>9 DEF ScanNext
<1> QED BY <1>1, ScanPoolAssumption

LEMMA AlwaysInv == ScanSpec => []ScanInv
<1>1. ScanInit => ScanInv
  <2> SUFFICES ASSUME ScanInit PROVE ScanInv
    OBVIOUS
  <2>1. Before
    BY InitKeeps
  <2>2. faults \in 0..MaxFaults
    BY ScanPoolAssumption DEF ScanInit
  <2> QED BY <2>1, <2>2 DEF ScanInv, Before
<1>2. ScanInv /\ [ScanNext]_scanVars => ScanInv'
  BY StepKeeps, FaultsBounded DEF ScanInv, Before, After
<1> QED BY <1>1, <1>2, PTL DEF ScanSpec

THEOREM ScansTyped == ScanSpec => []ScanTypeOK
<1>1. ScanInv => ScanTypeOK
  <2> SUFFICES ASSUME ScanInv PROVE ScanTypeOK
    OBVIOUS
  <2>1. scan \in [Scan -> Promised] /\ thread \in [Thread -> Worker] /\ pool \in PoolState /\ garbled \in BOOLEAN
        /\ faults \in 0..MaxFaults
    BY PoolParts DEF ScanInv
  <2> QED BY <2>1 DEF ScanTypeOK, Promised, Worker, PoolState
<1> QED BY <1>1, AlwaysInv, PTL

\* What a scan waits for, in the words of the property.
LEMMA IsOwed ==
  ASSUME NEW s \in Scan, NEW types, thread[scan[s].thread].jobs = <<s>>
           \/ Has(thread[scan[s].thread].mail, types \cup {"error", "crash", "noStart", "exit"})
  PROVE  Owed(s, types)
<1>1. CASE thread[scan[s].thread].jobs = <<s>>
  <2>1. 1 \in DOMAIN thread[scan[s].thread].jobs /\ thread[scan[s].thread].jobs[1] = s
    BY <1>1
  <2> QED BY <2>1 DEF Owed
<1>2. CASE Has(thread[scan[s].thread].mail, types \cup {"error", "crash", "noStart", "exit"})
  BY <1>2 DEF Owed, Has
<1> QED BY <1>1, <1>2

THEOREM ScansAlwaysEnd == ScanSpec => []ScanEnds
<1>1. ScanInv => ScanEnds
  <2> SUFFICES ASSUME ScanInv, NEW s \in Scan
               PROVE  /\ scan[s].promise = "pending" => scan[s].graph = "parsing" \/ (scan[s].attached /\ Owed(s, {"graph"}))
                      /\ scan[s].promise = "resolved" /\ scan[s].functions = "open" /\ scan[s].graph = "read" =>
                           scan[s].attached /\ Owed(s, {"functions", "done", "retire"})
    BY DEF ScanEnds
  <2>1. LooseOK(scan[s])
    BY PoolParts DEF ScanInv
  <2>2. ASSUME scan[s].attached PROVE ServeOK(thread[scan[s].thread], scan[s], s, scan[s].thread, pool)
    <3>1. PICK w \in Thread : w = scan[s].thread
      BY <2>1, <2>2 DEF LooseOK
    <3>2. Serves(scan, w, s)
      BY <2>2, <3>1 DEF Serves
    <3> QED BY <3>1, <3>2, PoolParts DEF ScanInv
  <2>3. ASSUME scan[s].promise = "pending", scan[s].graph # "parsing"
        PROVE  scan[s].attached /\ Owed(s, {"graph"})
    <3>1. scan[s].attached /\ scan[s].graph = "none"
      BY <2>1, <2>3 DEF LooseOK
    <3>2. thread[scan[s].thread].jobs = <<s>> \/ Has(thread[scan[s].thread].mail, {"graph", "error"} \cup Last)
      BY <2>2, <2>3, <3>1 DEF ServeOK
    <3>3. {"graph", "error"} \cup Last = {"graph"} \cup {"error", "crash", "noStart", "exit"}
      BY DEF Last
    <3> QED BY <3>1, <3>2, <3>3, IsOwed
  <2>4. ASSUME scan[s].functions = "open", scan[s].graph = "read"
        PROVE  scan[s].attached /\ Owed(s, {"functions", "done", "retire"})
    <3>1. scan[s].attached
      BY <2>1, <2>4 DEF LooseOK
    <3>2. thread[scan[s].thread].jobs = <<s>> \/ Has(thread[scan[s].thread].mail, {"functions", "error"} \cup Final \cup Last)
      BY <2>2, <2>4, <3>1 DEF ServeOK
    <3>3. {"functions", "error"} \cup Final \cup Last = {"functions", "done", "retire"} \cup {"error", "crash", "noStart", "exit"}
      BY DEF Last, Final
    <3> QED BY <3>1, <3>2, <3>3, IsOwed
  <2> QED BY <2>3, <2>4
<1> QED BY <1>1, AlwaysInv, PTL

THEOREM ThreadsAlwaysServe == ScanSpec => []ThreadsServe
<1>1. ScanInv => ScanHasItsThread
  <2> SUFFICES ASSUME ScanInv, NEW s \in Scan, NEW r \in Scan, scan[s].attached
               PROVE  /\ scan[r].attached /\ scan[r].thread = scan[s].thread => r = s
                      /\ \A i \in DOMAIN thread[scan[s].thread].mail : thread[scan[s].thread].mail[i].of \in {s, NoScan}
                      /\ garbled \/ ~thread[scan[s].thread].killed
    BY DEF ScanHasItsThread
  <2>1. PICK w \in Thread : w = scan[s].thread
    BY PoolParts DEF ScanInv, LooseOK
  <2>2. Serves(scan, w, s)
    BY <2>1 DEF Serves
  <2>3. ServeOK(thread[w], scan[s], s, w, pool) /\ (garbled \/ ~thread[w].killed)
    BY <2>2, PoolParts DEF ScanInv
  <2>4. scan[r].attached /\ scan[r].thread = w => r = s
    BY <2>2, PoolParts DEF ScanInv, Serves
  <2>5. \A i \in DOMAIN thread[w].mail : thread[w].mail[i].of \in {s, NoScan}
    BY <2>3 DEF ServeOK, AllOf
  <2> QED BY <2>1, <2>3, <2>4, <2>5
<1>2. ScanInv => ThreadsAreOwned
  <2> SUFFICES ASSUME ScanInv PROVE ThreadsAreOwned
    OBVIOUS
  <2>1. \A w \in Thread : thread[w].life = "alive" => pool.thread = w \/ Used(scan, w)
    BY PoolParts DEF ScanInv, IdleOK
  <2>2. pool.thread # NoThread => (pool.busy <=> Used(scan, pool.thread)) /\ (pool.timer <=> ~pool.busy)
    BY PoolParts DEF ScanInv, PoolOK
  <2>3. pool.busy \in BOOLEAN /\ pool.timer \in BOOLEAN
    BY PoolParts DEF ScanInv, PoolState
  <2>4. pool.thread # NoThread => pool.busy = Used(scan, pool.thread) /\ pool.timer = ~pool.busy
    <3>1. Used(scan, pool.thread) \in BOOLEAN
      BY DEF Used
    <3> QED BY <2>2, <2>3, <3>1
  <2> QED BY <2>1, <2>4 DEF ThreadsAreOwned, Used, Serves
<1> QED BY <1>1, <1>2, AlwaysInv, PTL DEF ThreadsServe
===============================================================================
