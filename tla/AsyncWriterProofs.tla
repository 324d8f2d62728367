-------------------------- MODULE AsyncWriterProofs --------------------------
(***************************************************************************)
(* Proofs about the debounced writer, for any number of files, logs and    *)
(* changes, any cap of a log and any number of failures: nothing queued is *)
(* stranded, no change made past the queue is erased by it, the logs are   *)
(* whole, and the writer keeps the promise of DeferredFile.                *)
(***************************************************************************)
EXTENDS AsyncWriter, SequenceTheorems, TLAPS

-----------------------------------------------------------------------------
(* Texts *)

Once(t) == \A i, j \in 1..Len(t) : t[i] = t[j] => i = j

Apart(t, u) == Changes(t) \cap Changes(u) = {}

LEMMA TextIs ==
  ASSUME NEW t \in Text
  PROVE  /\ t # Gone /\ Len(t) \in Nat /\ DOMAIN t = 1..Len(t)
         /\ Changes(t) = {t[i] : i \in 1..Len(t)} /\ Changes(t) \subseteq 1..MaxChanges
<1>1. Len(t) \in Nat /\ DOMAIN t = 1..Len(t) /\ t # Gone
  BY LenProperties, WriterAssumption DEF Text
<1>2. \A i \in 1..Len(t) : t[i] \in 1..MaxChanges
  BY ElementOfSeq DEF Text
<1> QED
  BY <1>1, <1>2 DEF Changes

LEMMA NoText == Changes(Gone) = {} /\ << >> \in Text /\ Changes(<< >>) = {} /\ Once(<< >>)
  BY WriterAssumption DEF Changes, Text, Once

LEMMA Joined ==
  ASSUME NEW t \in Text, NEW u \in Text
  PROVE  /\ t \o u \in Text /\ Changes(t \o u) = Changes(t) \cup Changes(u)
         /\ Len(t \o u) = Len(t) + Len(u)
         /\ \A i \in 1..Len(t) : (t \o u)[i] = t[i]
         /\ \A i \in 1..Len(u) : (t \o u)[Len(t) + i] = u[i]
<1>1. /\ t \o u \in Text /\ Len(t \o u) = Len(t) + Len(u)
      /\ \A i \in 1..Len(t) + Len(u) : (t \o u)[i] = IF i <= Len(t) THEN t[i] ELSE u[i - Len(t)]
  BY ConcatProperties DEF Text
<1>2. Len(t) \in Nat /\ Len(u) \in Nat
  BY TextIs
<1>3. \A i \in 1..Len(t) : i \in 1..Len(t) + Len(u) /\ (t \o u)[i] = t[i]
  BY <1>1, <1>2
<1>4. \A i \in 1..Len(u) : Len(t) + i \in 1..Len(t) + Len(u) /\ (t \o u)[Len(t) + i] = u[i]
  BY <1>1, <1>2
<1>5. \A i \in 1..Len(t) + Len(u) : i \in 1..Len(t) \/ \E j \in 1..Len(u) : i = Len(t) + j
  <2> SUFFICES ASSUME NEW i \in 1..Len(t) + Len(u), i \notin 1..Len(t)
               PROVE  \E j \in 1..Len(u) : i = Len(t) + j
    OBVIOUS
  <2>1. i - Len(t) \in 1..Len(u) /\ i = Len(t) + (i - Len(t))
    BY <1>2
  <2> QED
    BY <2>1
<1>6. Changes(t \o u) = {(t \o u)[i] : i \in 1..Len(t) + Len(u)}
  BY <1>1, TextIs
<1>7. Changes(t) = {t[i] : i \in 1..Len(t)} /\ Changes(u) = {u[i] : i \in 1..Len(u)}
  BY TextIs
<1>8. Changes(t \o u) \subseteq Changes(t) \cup Changes(u)
  BY <1>3, <1>4, <1>5, <1>6, <1>7
<1>9. Changes(t) \subseteq Changes(t \o u) /\ Changes(u) \subseteq Changes(t \o u)
  BY <1>3, <1>4, <1>6, <1>7
<1> QED
  BY <1>1, <1>3, <1>4, <1>8, <1>9

LEMMA JoinedTwice ==
  ASSUME NEW t \in Text, NEW u \in Text, NEW v \in Text
  PROVE  (t \o u) \o v = t \o (u \o v)
  BY ConcatAssociative DEF Text

LEMMA JoinedOnce ==
  ASSUME NEW t \in Text, NEW u \in Text, Once(t), Once(u), Apart(t, u)
  PROVE  Once(t \o u)
<1> SUFFICES ASSUME NEW i \in 1..Len(t \o u), NEW j \in 1..Len(t \o u),
                    (t \o u)[i] = (t \o u)[j], i < j
             PROVE  FALSE
  <2>1. Len(t \o u) \in Nat
    BY Joined, TextIs
  <2> QED
    BY <2>1 DEF Once
<1>1. /\ Len(t) \in Nat /\ Len(u) \in Nat /\ Len(t \o u) = Len(t) + Len(u)
      /\ \A k \in 1..Len(t) : (t \o u)[k] = t[k] /\ t[k] \in Changes(t)
      /\ \A k \in 1..Len(u) : (t \o u)[Len(t) + k] = u[k] /\ u[k] \in Changes(u)
  BY Joined, TextIs
<1>2. CASE j <= Len(t)
  <2>1. i \in 1..Len(t) /\ j \in 1..Len(t)
    BY <1>1, <1>2
  <2> QED
    BY <1>1, <2>1 DEF Once
<1>3. CASE i > Len(t)
  <2>1. i - Len(t) \in 1..Len(u) /\ j - Len(t) \in 1..Len(u) /\ i - Len(t) # j - Len(t)
        /\ i = Len(t) + (i - Len(t)) /\ j = Len(t) + (j - Len(t))
    BY <1>1, <1>3
  <2> QED
    BY <1>1, <2>1 DEF Once
<1>4. CASE i <= Len(t) /\ j > Len(t)
  <2>1. i \in 1..Len(t) /\ j - Len(t) \in 1..Len(u) /\ j = Len(t) + (j - Len(t))
    BY <1>1, <1>4
  <2>2. t[i] \in Changes(t) /\ t[i] \in Changes(u)
    BY <1>1, <2>1
  <2> QED
    BY <2>2 DEF Apart
<1> QED
  BY <1>1, <1>2, <1>3, <1>4

LEMMA One ==
  ASSUME NEW c \in 1..MaxChanges
  PROVE  <<c>> \in Text /\ Changes(<<c>>) = {c} /\ Once(<<c>>) /\ Len(<<c>>) = 1
<1>1. <<c>> \in Text /\ Len(<<c>>) = 1 /\ <<c>>[1] = c
  BY DEF Text
<1> QED
  BY <1>1, TextIs DEF Once

\* One more change, on a text or on no file.
LEMMA OntoIs ==
  ASSUME NEW t \in Text \cup {Gone}, NEW c \in 1..MaxChanges
  PROVE  /\ Onto(t, c) \in Text /\ Changes(Onto(t, c)) = Changes(t) \cup {c}
         /\ t # Gone => Onto(t, c) = t \o <<c>>
         /\ (t # Gone => Once(t)) /\ c \notin Changes(t) => Once(Onto(t, c))
<1>1. CASE t = Gone
  BY <1>1, One, NoText DEF Onto
<1>2. CASE t # Gone
  <2>1. t \in Text /\ Onto(t, c) = t \o <<c>>
    BY <1>2 DEF Onto, Text
  <2>2. Apart(t, <<c>>) <=> c \notin Changes(t)
    BY One DEF Apart
  <2> QED
    BY <1>2, <2>1, <2>2, One, Joined, JoinedOnce
<1> QED
  BY <1>1, <1>2

-----------------------------------------------------------------------------
(* One file, its queued writes and what it owes: d is the text on the disk, *)
(* a the write a drain has taken, w the queued one, sf and fg the changes    *)
(* written synchronously and by others, st whether it was misread, n the     *)
(* number of changes made.  An operator of the values, so that a step can be *)
(* followed one half at a time.                                              *)

Entry == PendingWrite \cup {NoWrite}

FileTyped(d, a, w) == d \in Text \cup {Gone} /\ a \in Entry /\ w \in Entry

\* All the numbers in use are of changes made.
Numbered(d, a, w, n) ==
  /\ n \in 0..MaxChanges /\ Changes(d) \subseteq 1..n
  /\ \A x \in {a, w} : x # NoWrite => Changes(x.text) \subseteq 1..n /\ Changes(x.merges) \subseteq 1..n

\* A synchronous write is on the disk and in every queued text, and a change of
\* another process on the disk and in every queued blind text.
Survives(d, a, w, sf, fg, st) ==
  /\ sf \subseteq Changes(d)
  /\ \A x \in {a, w} : x # NoWrite => sf \subseteq Changes(x.text)
  /\ ~ st => fg \subseteq Changes(d) /\ \A x \in {a, w} : Blind(x) => fg \subseteq Changes(x.text)

\* No change is made twice: each text has each once, and queued merges are in
\* nothing they will be put on.
NoneTwice(d, a, w) ==
  /\ d # Gone => Once(d)
  /\ \A x \in {a, w} : x # NoWrite => Once(x.text) /\ Once(x.merges)
  /\ w # NoWrite => Apart(w.merges, d)
  /\ w # NoWrite /\ a # NoWrite => Apart(w.merges, a.text) /\ Apart(w.merges, a.merges)
  /\ a # NoWrite => Apart(a.merges, d)

FileOK(d, a, w, sf, fg, st, n) ==
  FileTyped(d, a, w) /\ Numbered(d, a, w, n) /\ Survives(d, a, w, sf, fg, st) /\ NoneTwice(d, a, w)

Effective(d, a, w) == On(On(d, a), w)

LEMMA EntryIs ==
  ASSUME NEW x \in Entry
  PROVE  /\ x # NoWrite <=> x \in PendingWrite
         /\ x # NoWrite => x.text \in Text /\ x.merges \in Text /\ x.blind \in BOOLEAN
         /\ Merges(x) \in Text /\ Blind(x) \in BOOLEAN
         /\ ~ Blind(NoWrite) /\ Merges(NoWrite) = << >>
<1>1. NoWrite \notin PendingWrite
  BY WriterAssumption DEF PendingWrite, Text
<1>2. x # NoWrite => x.text \in Text /\ x.merges \in Text /\ x.blind \in BOOLEAN
  BY DEF PendingWrite, Entry
<1> QED
  BY <1>1, <1>2, NoText DEF Entry, Merges, Blind

\* A text with a queued write on top.
LEMMA OnIs ==
  ASSUME NEW t \in Text \cup {Gone}, NEW x \in Entry
  PROVE  /\ On(t, x) \in Text \cup {Gone}
         /\ On(t, NoWrite) = t
         /\ Blind(x) => On(t, x) = x.text /\ On(t, x) # Gone
         /\ ~ Blind(x) => /\ On(t, x) = Gone <=> t = Gone
                          /\ t # Gone => On(t, x) = t \o Merges(x)
                          /\ t # Gone => Changes(On(t, x)) = Changes(t) \cup Changes(Merges(x))
<1>1. ~ Blind(NoWrite) /\ Merges(NoWrite) = << >> /\ Merges(x) \in Text
      /\ (Blind(x) => x.text \in Text)
  BY EntryIs DEF Blind
<1>2. On(t, NoWrite) = t
  BY <1>1, ConcatEmptySeq DEF On, Text
<1>3. CASE Blind(x)
  BY <1>1, <1>2, <1>3, TextIs DEF On
<1>4. CASE ~ Blind(x) /\ t = Gone
  BY <1>2, <1>4 DEF On
<1>5. CASE ~ Blind(x) /\ t # Gone
  <2>1. t \in Text /\ On(t, x) = t \o Merges(x)
    BY <1>5 DEF On
  <2>2. On(t, x) \in Text /\ Changes(On(t, x)) = Changes(t) \cup Changes(Merges(x))
    BY <1>1, <2>1, Joined
  <2> QED
    BY <1>2, <1>5, <2>1, <2>2, TextIs
<1> QED
  BY <1>3, <1>4, <1>5

\* What this process reads keeps everything that must survive.
LEMMA EffectiveIs ==
  ASSUME NEW d, NEW a, NEW w, NEW sf, NEW fg, NEW st, NEW n, FileOK(d, a, w, sf, fg, st, n)
  PROVE  /\ Effective(d, a, w) \in Text \cup {Gone}
         /\ Changes(Effective(d, a, w)) \subseteq 1..n
         /\ sf \subseteq Changes(Effective(d, a, w))
         /\ ~ st => fg \subseteq Changes(Effective(d, a, w))
         /\ Effective(d, a, w) = Gone <=> d = Gone /\ ~ Blind(a) /\ ~ Blind(w)
         /\ Effective(d, a, w) # Gone => Once(Effective(d, a, w))
<1> DEFINE e == On(d, a)
<1>1. /\ d \in Text \cup {Gone} /\ a \in Entry /\ w \in Entry
      /\ FileTyped(d, a, w) /\ Numbered(d, a, w, n) /\ Survives(d, a, w, sf, fg, st) /\ NoneTwice(d, a, w)
  BY DEF FileOK, FileTyped
<1>2. /\ Merges(a) \in Text /\ Merges(w) \in Text
      /\ Blind(a) => a # NoWrite /\ a.text \in Text
      /\ Blind(w) => w # NoWrite /\ w.text \in Text
  BY <1>1, EntryIs DEF Blind
<1>3. /\ e \in Text \cup {Gone} /\ Changes(e) \subseteq 1..n /\ sf \subseteq Changes(e)
      /\ ~ st => fg \subseteq Changes(e)
      /\ e = Gone <=> d = Gone /\ ~ Blind(a)
      /\ e # Gone => Once(e) /\ Apart(Merges(w), e)
  <2>1. CASE Blind(a)
    <3>1. e = a.text /\ e # Gone
      BY <1>1, <2>1, OnIs
    <3>2. Apart(Merges(w), e)
      BY <1>1, <1>2, <2>1, <3>1, NoText DEF NoneTwice, Apart, Merges
    <3> QED
      BY <1>1, <1>2, <2>1, <3>1, <3>2 DEF Numbered, Survives, NoneTwice
  <2>2. CASE ~ Blind(a) /\ d = Gone
    <3>1. e = Gone
      BY <1>1, <2>2, OnIs
    <3> QED
      BY <1>1, <2>2, <3>1, NoText DEF Survives
  <2>3. CASE ~ Blind(a) /\ d # Gone
    <3>1. e \in Text /\ e # Gone /\ e = d \o Merges(a) /\ Changes(e) = Changes(d) \cup Changes(Merges(a)) /\ d \in Text
      BY <1>1, <2>3, OnIs
    <3>2. Once(d) /\ Once(Merges(a)) /\ Apart(d, Merges(a))
      BY <1>1, <2>3, NoText DEF NoneTwice, Apart, Merges
    <3>3. Once(e)
      BY <1>2, <3>1, <3>2, JoinedOnce
    <3>4. Apart(Merges(w), e)
      BY <1>1, <3>1, NoText DEF NoneTwice, Apart, Merges
    <3>5. Changes(Merges(a)) \subseteq 1..n
      BY <1>1, NoText DEF Numbered, Merges
    <3>6. Changes(d) \subseteq 1..n /\ sf \subseteq Changes(d) /\ (~ st => fg \subseteq Changes(d))
      BY <1>1 DEF Numbered, Survives
    <3>7. Changes(e) \subseteq 1..n /\ sf \subseteq Changes(e) /\ (~ st => fg \subseteq Changes(e))
      BY <3>1, <3>5, <3>6
    <3> QED
      BY <2>3, <3>1, <3>3, <3>4, <3>7, NoText
  <2> QED
    BY <2>1, <2>2, <2>3
<1> HIDE DEF e
<1>4. Effective(d, a, w) = On(e, w)
  BY DEF Effective, e
<1>5. CASE Blind(w)
  <2>1. On(e, w) = w.text /\ On(e, w) # Gone
    BY <1>1, <1>3, <1>5, OnIs
  <2> QED
    BY <1>1, <1>2, <1>4, <1>5, <2>1 DEF Numbered, Survives, NoneTwice
<1>6. CASE ~ Blind(w) /\ e = Gone
  <2>1. On(e, w) = Gone
    BY <1>1, <1>3, <1>6, OnIs
  <2> QED
    BY <1>3, <1>4, <1>6, <2>1, NoText
<1>7. CASE ~ Blind(w) /\ e # Gone
  <2>1. e \in Text /\ On(e, w) = e \o Merges(w) /\ On(e, w) \in Text
        /\ Changes(On(e, w)) = Changes(e) \cup Changes(Merges(w))
    BY <1>1, <1>2, <1>3, <1>7, OnIs, Joined
  <2>2. Once(Merges(w)) /\ Changes(Merges(w)) \subseteq 1..n
    BY <1>1, NoText DEF NoneTwice, Numbered, Merges
  <2>3. Once(On(e, w))
    BY <1>2, <1>3, <1>7, <2>1, <2>2, JoinedOnce DEF Apart
  <2>4. On(e, w) # Gone
    BY <2>1, TextIs
  <2> QED
    BY <1>3, <1>4, <1>7, <2>1, <2>2, <2>3, <2>4
<1> QED
  BY <1>5, <1>6, <1>7

\* Dropping queued writes, making changes elsewhere and misreading keep a file well.
LEMMA Weaker ==
  ASSUME NEW d, NEW a, NEW w, NEW sf, NEW fg, NEW st, NEW n, FileOK(d, a, w, sf, fg, st, n),
         NEW b \in {a, NoWrite}, NEW x \in {w, NoWrite}, NEW m \in n..MaxChanges,
         NEW ts, st => ts
  PROVE  FileOK(d, b, x, sf, fg, ts, m)
<1> USE WriterAssumption
<1>1. FileTyped(d, b, x)
  BY DEF FileOK, FileTyped, Entry
<1>2. Numbered(d, b, x, m)
  <2>1. Numbered(d, a, w, n)
    BY DEF FileOK
  <2>2. n \in 0..MaxChanges /\ m \in 0..MaxChanges /\ 1..n \subseteq 1..m
    BY <2>1 DEF Numbered
  <2> QED
    BY <2>1, <2>2 DEF Numbered
<1>3. Survives(d, b, x, sf, fg, ts)
  <2>1. Survives(d, a, w, sf, fg, st) /\ ~ Blind(NoWrite)
    BY DEF FileOK, Blind
  <2> QED
    BY <2>1 DEF Survives
<1>4. NoneTwice(d, b, x)
  BY DEF FileOK, NoneTwice
<1> QED
  BY <1>1, <1>2, <1>3, <1>4 DEF FileOK

\* A file that is gone owes nothing.
LEMMA GoneOK ==
  ASSUME NEW d, NEW a, NEW w, NEW sf, NEW fg, NEW st, NEW n, FileOK(d, a, w, sf, fg, st, n)
  PROVE  FileOK(Gone, a, w, {}, {}, st, n)
  BY NoText DEF FileOK, FileTyped, Numbered, Survives, NoneTwice, Apart

\* A file written whole, with nothing queued.
LEMMA WholeOK ==
  ASSUME NEW d \in Text \cup {Gone}, d # Gone => Once(d), NEW n \in 0..MaxChanges, Changes(d) \subseteq 1..n,
         NEW sf \in SUBSET Changes(d), NEW fg, NEW st, ~ st => fg \subseteq Changes(d)
  PROVE  FileOK(d, NoWrite, NoWrite, sf, fg, st, n)
  BY DEF FileOK, FileTyped, Numbered, Survives, NoneTwice, Entry, Blind

\* What ScheduleWrite makes of a queued write and a new one.
Scheduled(x, w) ==
  IF ~x.blind /\ Blind(w) THEN [x EXCEPT !.blind = TRUE, !.merges = << >>]
  ELSE IF x.blind THEN x
  ELSE [x EXCEPT !.merges = Merges(w) \o @]

LEMMA QueueOK ==
  ASSUME NEW d, NEW a, NEW w, NEW sf, NEW fg, NEW st, NEW n, FileOK(d, a, w, sf, fg, st, n),
         n < MaxChanges, NEW t \in Text, Once(t), Changes(t) \subseteq 1..n + 1, sf \subseteq Changes(t),
         NEW blind \in BOOLEAN, NEW ts, st => ts,
         ~ ts /\ (blind \/ Blind(w)) => fg \subseteq Changes(t),
         NEW x, x = [blind |-> blind, text |-> t, merges |-> IF blind THEN << >> ELSE <<n + 1>>]
  PROVE  /\ FileOK(d, a, Scheduled(x, w), sf, fg, ts, n + 1)
         /\ Scheduled(x, w) # NoWrite
         /\ Blind(Scheduled(x, w)) <=> blind \/ Blind(w)
         /\ Scheduled(x, w).text = t
         /\ ~ blind /\ ~ Blind(w) => Merges(Scheduled(x, w)) = Merges(w) \o <<n + 1>>
<1> DEFINE y == Scheduled(x, w)
           c == n + 1
<1>1. /\ d \in Text \cup {Gone} /\ a \in Entry /\ w \in Entry
      /\ FileTyped(d, a, w) /\ Numbered(d, a, w, n) /\ Survives(d, a, w, sf, fg, st) /\ NoneTwice(d, a, w)
  BY DEF FileOK, FileTyped
<1>2. n \in Nat /\ c \in 1..MaxChanges /\ c \notin 1..n /\ 1..n \subseteq 1..c
  BY <1>1, WriterAssumption DEF Numbered
<1> HIDE DEF c
<1>3. /\ Merges(w) \in Text /\ Once(Merges(w)) /\ Changes(Merges(w)) \subseteq 1..n
      /\ Apart(Merges(w), d) /\ (a # NoWrite => Apart(Merges(w), a.text) /\ Apart(Merges(w), a.merges))
  BY <1>1, EntryIs, NoText DEF NoneTwice, Merges, Numbered, Apart
<1>4. /\ <<c>> \in Text /\ Changes(<<c>>) = {c} /\ Once(<<c>>) /\ Apart(Merges(w), <<c>>)
  BY <1>2, <1>3, One DEF Apart
<1>5. /\ Merges(w) \o <<c>> \in Text /\ Once(Merges(w) \o <<c>>)
      /\ Changes(Merges(w) \o <<c>>) = Changes(Merges(w)) \cup {c}
  BY <1>3, <1>4, Joined, JoinedOnce
<1>6. x \in PendingWrite /\ x.blind = blind /\ x.text = t /\ x.merges = IF blind THEN << >> ELSE <<c>>
  BY <1>4, NoText DEF PendingWrite, c
<1>7. PICK many \in Text :
        /\ y \in PendingWrite /\ y.blind = (blind \/ Blind(w)) /\ y.text = t /\ y.merges = many
        /\ many = IF blind \/ Blind(w) THEN << >> ELSE Merges(w) \o <<c>>
  <2>1. CASE blind
    <3>1. y = x
      BY <1>6, <2>1 DEF Scheduled
    <3> QED
      BY <1>6, <2>1, <3>1, NoText
  <2>2. CASE ~ blind /\ Blind(w)
    <3>1. y = [x EXCEPT !.blind = TRUE, !.merges = << >>]
      BY <1>6, <2>2 DEF Scheduled
    <3> HIDE DEF y
    <3> QED
      BY <1>6, <2>2, <3>1, NoText DEF PendingWrite
  <2>3. CASE ~ blind /\ ~ Blind(w)
    <3> DEFINE ms == Merges(w) \o <<c>>
    <3>1. y = [x EXCEPT !.merges = ms]
      BY <1>6, <2>3 DEF Scheduled
    <3>2. ms \in Text
      BY <1>5
    <3> HIDE DEF y, ms
    <3>3. y \in PendingWrite /\ y.blind = blind /\ y.text = t /\ y.merges = ms
      BY <1>6, <3>1, <3>2 DEF PendingWrite
    <3> QED
      BY <2>3, <3>2, <3>3 DEF ms
  <2> QED
    BY <2>1, <2>2, <2>3
<1> HIDE DEF y
<1>8. y \in PendingWrite /\ y # NoWrite /\ y \in Entry /\ (Blind(y) <=> blind \/ Blind(w))
  BY <1>7, WriterAssumption DEF PendingWrite, Text, Entry, Blind
<1>9. /\ Once(many) /\ Changes(many) \subseteq 1..c /\ Apart(many, d)
      /\ (a # NoWrite => Apart(many, a.text) /\ Apart(many, a.merges))
  <2>1. CASE many = << >>
    BY <2>1, NoText DEF Apart
  <2>2. CASE many = Merges(w) \o <<c>>
    <3>1. c \notin Changes(d) /\ (a # NoWrite => c \notin Changes(a.text) /\ c \notin Changes(a.merges))
      BY <1>1, <1>2 DEF Numbered
    <3>2. Once(many) /\ Changes(many) \subseteq 1..c
      BY <1>2, <1>3, <1>5, <2>2
    <3> QED
      BY <1>3, <1>5, <2>2, <3>1, <3>2 DEF Apart
  <2> QED
    BY <1>7, <2>1, <2>2
<1>10. FileTyped(d, a, y)
  BY <1>1, <1>8 DEF FileTyped
<1>11. Numbered(d, a, y, c)
  <2>1. y.text = t /\ y.merges = many /\ c \in 0..MaxChanges /\ Changes(t) \subseteq 1..c
    BY <1>2, <1>7 DEF c
  <2>2. Changes(d) \subseteq 1..c /\ (a # NoWrite => Changes(a.text) \subseteq 1..c /\ Changes(a.merges) \subseteq 1..c)
    BY <1>1, <1>2 DEF Numbered
  <2> QED
    BY <1>9, <2>1, <2>2 DEF Numbered
<1>12. Survives(d, a, y, sf, fg, ts)
  <2>1. y.text = t
    BY <1>7
  <2> QED
    BY <1>1, <1>8, <2>1 DEF Survives
<1>13. NoneTwice(d, a, y)
  <2>1. y.text = t /\ y.merges = many
    BY <1>7
  <2> QED
    BY <1>1, <1>8, <1>9, <2>1 DEF NoneTwice
<1>14. Merges(y) = many /\ y.text = t
  BY <1>7, <1>8 DEF Merges
<1> QED
  BY <1>7, <1>8, <1>10, <1>11, <1>12, <1>13, <1>14 DEF FileOK, y, c

\* What a drain has taken is on the disk: a text renamed over it, or merges.
LEMMA DrainedOK ==
  ASSUME NEW d, NEW a, NEW w, NEW sf, NEW fg, NEW st, NEW n, FileOK(d, a, w, sf, fg, st, n)
  PROVE  /\ FileOK(On(d, a), NoWrite, w, sf, fg, st, n)
         /\ Effective(On(d, a), NoWrite, w) = Effective(d, a, w)
<1>1. /\ d \in Text \cup {Gone} /\ a \in Entry /\ w \in Entry
      /\ FileTyped(d, a, w) /\ Numbered(d, a, w, n) /\ Survives(d, a, w, sf, fg, st) /\ NoneTwice(d, a, w)
  BY DEF FileOK, FileTyped
<1>2. On(d, a) \in Text \cup {Gone} /\ On(On(d, a), NoWrite) = On(d, a)
  BY <1>1, OnIs DEF Entry
<1>3. FileOK(d, a, NoWrite, sf, fg, st, n)
  <2>1. n \in n..MaxChanges
    BY <1>1, WriterAssumption DEF Numbered
  <2> QED
    BY <2>1, Weaker
<1>4. Effective(d, a, NoWrite) = On(d, a)
  BY <1>2 DEF Effective
<1>5. /\ Changes(On(d, a)) \subseteq 1..n /\ sf \subseteq Changes(On(d, a))
      /\ ~ st => fg \subseteq Changes(On(d, a))
      /\ On(d, a) # Gone => Once(On(d, a))
  BY <1>3, <1>4, EffectiveIs
<1>6. w # NoWrite => Apart(w.merges, On(d, a))
  <2>1. CASE Blind(a)
    <3>1. On(d, a) = a.text /\ a # NoWrite
      BY <1>1, <2>1, OnIs DEF Blind
    <3> QED
      BY <1>1, <3>1 DEF NoneTwice
  <2>2. CASE ~ Blind(a) /\ d = Gone
    <3>1. On(d, a) = Gone
      BY <1>1, <2>2, OnIs
    <3> QED
      BY <3>1, NoText DEF Apart
  <2>3. CASE ~ Blind(a) /\ d # Gone
    <3>1. Changes(On(d, a)) = Changes(d) \cup Changes(Merges(a))
      BY <1>1, <2>3, OnIs
    <3> QED
      BY <1>1, <3>1, NoText DEF NoneTwice, Merges, Apart
  <2> QED
    BY <2>1, <2>2, <2>3
<1>7. FileTyped(On(d, a), NoWrite, w)
  BY <1>1, <1>2 DEF FileTyped, Entry
<1>8. Numbered(On(d, a), NoWrite, w, n)
  BY <1>1, <1>5 DEF Numbered
<1>9. Survives(On(d, a), NoWrite, w, sf, fg, st)
  BY <1>1, <1>5 DEF Survives, Blind
<1>10. NoneTwice(On(d, a), NoWrite, w)
  BY <1>1, <1>5, <1>6 DEF NoneTwice
<1> QED
  BY <1>2, <1>7, <1>8, <1>9, <1>10 DEF FileOK, Effective

\* Merges put back are read as before.
LEMMA PutBackOK ==
  ASSUME NEW d, NEW a, NEW w, NEW sf, NEW fg, NEW st, NEW n, FileOK(d, a, w, sf, fg, st, n),
         a # NoWrite, ~ a.blind
  PROVE  /\ FileOK(d, NoWrite, Under(a, w), sf, fg, st, n) /\ Under(a, w) # NoWrite
         /\ Effective(d, NoWrite, Under(a, w)) = Effective(d, a, w)
<1>1. /\ d \in Text \cup {Gone} /\ a \in Entry /\ w \in Entry
      /\ FileTyped(d, a, w) /\ Numbered(d, a, w, n) /\ Survives(d, a, w, sf, fg, st) /\ NoneTwice(d, a, w)
  BY DEF FileOK, FileTyped
<1>2. On(d, NoWrite) = d /\ ~ Blind(NoWrite)
  BY <1>1, OnIs DEF Entry, Blind
<1>3. a \in PendingWrite /\ a.merges \in Text /\ Merges(a) = a.merges /\ ~ Blind(a)
  BY <1>1, EntryIs DEF Merges, Blind
<1>4. NoWrite \in {a, NoWrite} /\ n \in n..MaxChanges
  BY <1>1, WriterAssumption DEF Numbered
<1>5. CASE w = NoWrite
  <2>1. Under(a, w) = a
    BY <1>5 DEF Under
  <2>2. Effective(d, NoWrite, a) = On(d, a) /\ Effective(d, a, w) = On(d, a)
    BY <1>1, <1>2, <1>5, OnIs DEF Effective
  <2>3. FileTyped(d, NoWrite, a) /\ Numbered(d, NoWrite, a, n) /\ NoneTwice(d, NoWrite, a)
    BY <1>1, <1>2 DEF FileTyped, Numbered, NoneTwice, Entry
  <2>4. Survives(d, NoWrite, a, sf, fg, st)
    BY <1>1, <1>2, <1>3 DEF Survives
  <2> QED
    BY <2>1, <2>2, <2>3, <2>4 DEF FileOK
<1>6. CASE w # NoWrite /\ w.blind
  <2>1. Under(a, w) = w /\ Blind(w)
    BY <1>6 DEF Under, Blind
  <2>2. On(d, a) \in Text \cup {Gone} /\ On(On(d, a), w) = w.text /\ On(d, w) = w.text
    BY <1>1, <2>1, OnIs
  <2>3. FileOK(d, NoWrite, w, sf, fg, st, n)
    BY <1>4, Weaker
  <2> QED
    BY <1>2, <1>6, <2>1, <2>2, <2>3 DEF Effective
<1>7. CASE w # NoWrite /\ ~ w.blind
  <2> DEFINE ms == a.merges \o w.merges
             y == [w EXCEPT !.merges = ms]
  <2>1. w \in PendingWrite /\ w.merges \in Text /\ w.text \in Text /\ Merges(w) = w.merges /\ ~ Blind(w)
    BY <1>1, <1>7, EntryIs DEF Merges, Blind
  <2>2. ms \in Text /\ Changes(ms) = Changes(a.merges) \cup Changes(w.merges)
    BY <1>3, <2>1, Joined
  <2>3. Once(ms)
    BY <1>1, <1>3, <1>7, <2>1, JoinedOnce DEF NoneTwice, Apart
  <2>4. Under(a, w) = y
    BY <1>7 DEF Under
  <2> HIDE DEF ms
  <2>5. y \in PendingWrite /\ y.text = w.text /\ y.merges = ms /\ ~ y.blind
    BY <1>7, <2>1, <2>2 DEF PendingWrite
  <2> HIDE DEF y
  <2>6. y # NoWrite /\ ~ Blind(y) /\ Merges(y) = ms /\ y \in Entry
    BY <2>5, WriterAssumption DEF Blind, Merges, Entry, PendingWrite, Text
  <2>7. Effective(d, NoWrite, y) = Effective(d, a, w)
    <3>1. CASE d = Gone
      <4>1. On(d, y) = Gone /\ On(d, a) = Gone /\ On(Gone, w) = Gone
        BY <1>1, <1>3, <2>1, <2>6, <3>1, OnIs
      <4> QED
        BY <1>2, <4>1 DEF Effective
    <3>2. CASE d # Gone
      <4>1. d \in Text /\ On(d, y) = d \o ms /\ On(d, a) = d \o a.merges /\ d \o a.merges \in Text
        BY <1>1, <1>3, <2>6, <3>2, OnIs, Joined
      <4>2. On(d \o a.merges, w) = (d \o a.merges) \o w.merges
        <5>1. d \o a.merges # Gone /\ d \o a.merges \in Text \cup {Gone}
          BY <4>1, TextIs
        <5> HIDE DEF ms
        <5>2. On(d \o a.merges, w) = (d \o a.merges) \o Merges(w)
          BY <1>1, <2>1, <5>1, OnIs
        <5> QED
          BY <2>1, <5>2
      <4>3. d \o ms = (d \o a.merges) \o w.merges
        BY <1>3, <2>1, <4>1, JoinedTwice DEF ms
      <4> QED
        BY <1>2, <4>1, <4>2, <4>3 DEF Effective
    <3> QED
      BY <3>1, <3>2
  <2>8. FileTyped(d, NoWrite, y)
    BY <1>1, <2>6 DEF FileTyped, Entry
  <2>9. Numbered(d, NoWrite, y, n)
    BY <1>1, <1>7, <2>2, <2>5 DEF Numbered
  <2>10. Survives(d, NoWrite, y, sf, fg, st)
    BY <1>1, <1>2, <1>7, <2>5, <2>6 DEF Survives
  <2>11. NoneTwice(d, NoWrite, y)
    BY <1>1, <1>7, <2>2, <2>3, <2>5 DEF NoneTwice, Apart
  <2> QED
    BY <2>4, <2>6, <2>7, <2>8, <2>9, <2>10, <2>11 DEF FileOK
<1> QED
  BY <1>5, <1>6, <1>7

\* A write taken is read as before.
LEMMA TakenOK ==
  ASSUME NEW d, NEW w, NEW sf, NEW fg, NEW st, NEW n, FileOK(d, NoWrite, w, sf, fg, st, n)
  PROVE  /\ FileOK(d, w, NoWrite, sf, fg, st, n)
         /\ Effective(d, w, NoWrite) = Effective(d, NoWrite, w)
<1>1. /\ d \in Text \cup {Gone} /\ w \in Entry
      /\ FileTyped(d, NoWrite, w) /\ Numbered(d, NoWrite, w, n)
      /\ Survives(d, NoWrite, w, sf, fg, st) /\ NoneTwice(d, NoWrite, w)
  BY DEF FileOK, FileTyped
<1>2. On(d, NoWrite) = d /\ On(d, w) \in Text \cup {Gone} /\ NoWrite \in Entry
  BY <1>1, OnIs DEF Entry
<1>3. Effective(d, w, NoWrite) = Effective(d, NoWrite, w)
  BY <1>2, OnIs DEF Effective
<1>4. FileTyped(d, w, NoWrite) /\ Numbered(d, w, NoWrite, n) /\ Survives(d, w, NoWrite, sf, fg, st)
  BY <1>1, <1>2 DEF FileTyped, Numbered, Survives
<1>5. NoneTwice(d, w, NoWrite)
  BY <1>1 DEF NoneTwice
<1> QED
  BY <1>3, <1>4, <1>5 DEF FileOK

\* More changes, wherever they go in, leave the others in their order.
LEMMA MoreGrows ==
  ASSUME NEW t \in Text, NEW m \in Text, NEW u \in Text,
         Once(t \o u), Once((t \o m) \o u)
  PROVE  Promise!Grows(t \o u, (t \o m) \o u)
<1> DEFINE old == t \o u
           new == (t \o m) \o u
           At(i) == IF i <= Len(t) THEN i ELSE i + Len(m)
<1>1. /\ Len(t) \in Nat /\ Len(m) \in Nat /\ Len(u) \in Nat
      /\ t \o m \in Text /\ Len(t \o m) = Len(t) + Len(m)
      /\ old \in Text /\ Len(old) = Len(t) + Len(u)
      /\ new \in Text /\ Len(new) = Len(t) + Len(m) + Len(u)
  BY TextIs, Joined
<1>2. \A i \in 1..Len(old) : At(i) \in 1..Len(new) /\ new[At(i)] = old[i]
  <2> SUFFICES ASSUME NEW i \in 1..Len(old)
               PROVE  At(i) \in 1..Len(new) /\ new[At(i)] = old[i]
    OBVIOUS
  <2>1. CASE i <= Len(t)
    <3>1. i \in 1..Len(t) /\ i \in 1..Len(t \o m) /\ At(i) = i
      BY <1>1, <2>1
    <3>2. old[i] = t[i] /\ (t \o m)[i] = t[i] /\ new[i] = (t \o m)[i]
      BY <1>1, <3>1, Joined
    <3> QED
      BY <1>1, <3>1, <3>2
  <2>2. CASE i > Len(t)
    <3>1. i - Len(t) \in 1..Len(u) /\ i = Len(t) + (i - Len(t)) /\ At(i) = Len(t \o m) + (i - Len(t))
      BY <1>1, <2>2
    <3>2. old[Len(t) + (i - Len(t))] = u[i - Len(t)] /\ new[Len(t \o m) + (i - Len(t))] = u[i - Len(t)]
      BY <1>1, <3>1, Joined
    <3> QED
      BY <1>1, <3>1, <3>2
  <2> QED
    BY <1>1, <2>1, <2>2
<1>3. \A i, j \in 1..Len(old) : i < j => At(i) < At(j)
  BY <1>1
<1>4. /\ DOMAIN old = 1..Len(old) /\ Changes(old) = {old[i] : i \in 1..Len(old)} /\ old # Gone
      /\ DOMAIN new = 1..Len(new) /\ Changes(new) = {new[i] : i \in 1..Len(new)} /\ new # Gone
  BY <1>1, TextIs
<1>5. Once(old) /\ Once(new)
  OBVIOUS
<1> HIDE DEF old, new, At
<1>6. \A i \in 1..Len(old) : Promise!Place(old, old[i]) = i /\ Promise!Place(new, old[i]) = At(i)
  BY <1>2, <1>4, <1>5 DEF Promise!Place, Once
<1>7. Promise!Changes(old) = Changes(old) /\ Promise!Changes(new) = Changes(new)
  BY DEF Promise!Changes, Changes
<1>8. Changes(old) \subseteq Changes(new)
  BY <1>2, <1>4
<1>9. ASSUME NEW c \in Changes(old), NEW e \in Changes(old), Promise!Place(old, c) < Promise!Place(old, e)
      PROVE  Promise!Place(new, c) < Promise!Place(new, e)
  <2>1. PICK i \in 1..Len(old), j \in 1..Len(old) : c = old[i] /\ e = old[j]
    BY <1>4
  <2> QED
    BY <1>3, <1>6, <1>9, <2>1
<1> QED
  BY <1>7, <1>8, <1>9 DEF Promise!Grows, old, new

\* One more change on top of what is read, or of no file.
LEMMA OntoGrows ==
  ASSUME NEW t \in Text \cup {Gone}, t # Gone => Once(t), NEW c \in 1..MaxChanges, c \notin Changes(t)
  PROVE  Promise!Grows(t, Onto(t, c)) /\ Onto(t, c) # Gone
<1>1. Onto(t, c) \in Text /\ Onto(t, c) # Gone /\ Once(Onto(t, c))
  BY OntoIs, TextIs
<1>2. CASE t = Gone
  BY <1>1, <1>2 DEF Promise!Grows, Promise!Changes
<1>3. CASE t # Gone
  <2>1. t \in Text /\ Onto(t, c) = t \o <<c>> /\ <<c>> \in Text /\ << >> \in Text
    BY <1>3, OntoIs, One, NoText
  <2>2. t \o << >> = t /\ (t \o <<c>>) \o << >> = t \o <<c>>
    BY <1>1, <2>1, ConcatEmptySeq DEF Text
  <2> QED
    BY <1>1, <1>3, <2>1, <2>2, MoreGrows
<1> QED
  BY <1>2, <1>3

\* A change of another process.
LEMMA ForeignOK ==
  ASSUME NEW d, NEW a, NEW w, NEW sf, NEW fg, NEW st, NEW n, FileOK(d, a, w, sf, fg, st, n),
         n < MaxChanges
  PROVE  /\ FileOK(Onto(d, n + 1), a, w, sf, IF Blind(w) \/ Blind(a) THEN fg ELSE fg \cup {n + 1}, st, n + 1)
         /\ \/ Effective(Onto(d, n + 1), a, w) = Effective(d, a, w)
            \/ /\ Effective(Onto(d, n + 1), a, w) # Gone
               /\ Promise!Grows(Effective(d, a, w), Effective(Onto(d, n + 1), a, w))
<1> DEFINE c == n + 1
           fc == IF Blind(w) \/ Blind(a) THEN fg ELSE fg \cup {c}
           new == Onto(d, c)
<1>1. /\ d \in Text \cup {Gone} /\ a \in Entry /\ w \in Entry
      /\ FileTyped(d, a, w) /\ Numbered(d, a, w, n) /\ Survives(d, a, w, sf, fg, st) /\ NoneTwice(d, a, w)
  BY DEF FileOK, FileTyped
<1>2. n \in Nat /\ c \in 1..MaxChanges /\ c \notin 1..n /\ 1..n \subseteq 1..c /\ c \in 0..MaxChanges
  BY <1>1, WriterAssumption DEF Numbered
<1> HIDE DEF c
<1>3. c \notin Changes(d) /\ \A x \in {a, w} : x # NoWrite => c \notin Changes(x.text) /\ c \notin Changes(x.merges)
  BY <1>1, <1>2 DEF Numbered
<1>4. /\ new \in Text /\ Changes(new) = Changes(d) \cup {c} /\ new # Gone /\ Once(new)
      /\ d # Gone => new = d \o <<c>>
  BY <1>1, <1>2, <1>3, OntoIs, TextIs DEF NoneTwice
<1> HIDE DEF new
<1>5. FileOK(new, a, w, sf, fc, st, c)
  <2>1. FileTyped(new, a, w)
    BY <1>1, <1>4 DEF FileTyped
  <2>2. Numbered(new, a, w, c)
    BY <1>1, <1>2, <1>4 DEF Numbered
  <2>3. Survives(new, a, w, sf, fc, st)
    BY <1>1, <1>4 DEF Survives
  <2>4. NoneTwice(new, a, w)
    BY <1>1, <1>3, <1>4 DEF NoneTwice, Apart
  <2> QED
    BY <2>1, <2>2, <2>3, <2>4 DEF FileOK
<1> HIDE DEF fc
<1>6. CASE Blind(w)
  <2>1. On(d, a) \in Text \cup {Gone} /\ On(new, a) \in Text \cup {Gone}
    BY <1>1, <1>4, OnIs
  <2>2. Effective(new, a, w) = Effective(d, a, w)
    BY <1>1, <1>6, <2>1, OnIs DEF Effective
  <2> QED
    BY <1>5, <2>2 DEF new, c, fc
<1>7. CASE Blind(a)
  <2>1. On(d, a) = On(new, a)
    BY <1>1, <1>4, <1>7, OnIs
  <2>2. Effective(new, a, w) = Effective(d, a, w)
    BY <2>1 DEF Effective
  <2> QED
    BY <1>5, <2>2 DEF new, c, fc
<1>8. CASE ~ Blind(w) /\ ~ Blind(a)
  <2> DEFINE ma == Merges(a)
             mw == Merges(w)
             more == ma \o mw
  <2>1. ma \in Text /\ mw \in Text /\ more \in Text /\ <<c>> \in Text
    BY <1>1, <1>2, EntryIs, One, Joined
  <2>2. ASSUME NEW t \in Text PROVE Effective(t, a, w) = t \o more /\ Effective(t, a, w) # Gone
    <3>1. On(t, a) = t \o ma /\ t \o ma \in Text
      BY <1>1, <1>8, <2>1, OnIs, TextIs, Joined
    <3>2. On(t \o ma, w) = (t \o ma) \o mw /\ (t \o ma) \o mw \in Text
      BY <1>1, <1>8, <2>1, <3>1, OnIs, TextIs, Joined
    <3>3. (t \o ma) \o mw = t \o more
      BY <2>1, JoinedTwice
    <3> QED
      BY <3>1, <3>2, <3>3, TextIs DEF Effective
  <2> HIDE DEF more
  <2>3. Effective(new, a, w) # Gone /\ Effective(new, a, w) = new \o more /\ Once(new \o more)
    <3>1. Effective(new, a, w) # Gone /\ Effective(new, a, w) = new \o more
      BY <1>4, <2>2
    <3>2. Once(Effective(new, a, w))
      BY <1>5, <3>1, EffectiveIs
    <3> QED
      BY <3>1, <3>2
  <2>4. CASE d = Gone
    <3>1. On(d, a) = Gone /\ On(Gone, w) = Gone
      BY <1>1, <1>8, <2>4, OnIs
    <3>2. Effective(d, a, w) = Gone
      BY <3>1 DEF Effective
    <3>3. Promise!Grows(Gone, Effective(new, a, w))
      BY DEF Promise!Grows, Promise!Changes
    <3> QED
      BY <1>5, <2>3, <3>2, <3>3 DEF new, c, fc
  <2>5. CASE d # Gone
    <3>1. d \in Text /\ Effective(d, a, w) = d \o more /\ Effective(d, a, w) # Gone /\ new = d \o <<c>>
      BY <1>1, <1>4, <2>2, <2>5
    <3>2. Once(d \o more)
      BY <3>1, EffectiveIs
    <3>3. Promise!Grows(d \o more, (d \o <<c>>) \o more)
      BY <2>1, <2>3, <3>1, <3>2, MoreGrows
    <3> QED
      BY <1>5, <2>3, <3>1, <3>3 DEF new, c, fc
  <2> QED
    BY <2>4, <2>5
<1> QED
  BY <1>6, <1>7, <1>8

-----------------------------------------------------------------------------
(* The inductive invariant *)

FilesTyped ==
  /\ disk \in [Path -> Text \cup {Gone}]
  /\ pending \in [Path -> Entry] /\ inFlight \in [Path -> Entry]
  /\ safe \in [Path -> SUBSET (1..MaxChanges)] /\ foreign \in [Path -> SUBSET (1..MaxChanges)]
  /\ stale \subseteq Path /\ made \in 0..MaxChanges

QueueTyped ==
  /\ busy \subseteq Path /\ retrying \subseteq Path /\ batch \subseteq Path
  /\ timer \in BOOLEAN /\ chain \in 0..MaxChain
  /\ drain \in [phase : {"idle", "loop", "temp", "sleep"}, at : Path \cup {Gone}, tries : 0..Tries]
  /\ jams \in 0..MaxBusy /\ losses \in 0..MaxLosses /\ deletes \in 0..MaxDeletes

FileInv(p) == FileOK(disk[p], inFlight[p], pending[p], safe[p], foreign[p], p \in stale, made)

FilesInv == FilesTyped /\ \A p \in Path : FileInv(p)

\* A drain belongs to a flush, has files to write until it is over, and writes a
\* temp file for a blind text only.
DrainInv ==
  /\ QueueTyped
  /\ drain = Idle => batch = {}
  /\ drain # Idle => chain > 0
  /\ \A p \in Path : drain.phase = "temp" /\ drain.at = p /\ inFlight[p] # NoWrite => Blind(inFlight[p])
  /\ NothingStranded

Promised == Promise!Next \/ UNCHANGED Promise!vars

-----------------------------------------------------------------------------
(* The files: the steps *)

LEMMA EffectiveTextIs ==
  ASSUME FilesInv, NEW p \in Path
  PROVE  /\ EffectiveText(p) = Effective(disk[p], inFlight[p], pending[p])
         /\ EffectiveText(p) \in Text \cup {Gone} /\ Changes(EffectiveText(p)) \subseteq 1..made
         /\ safe[p] \subseteq Changes(EffectiveText(p))
         /\ p \notin stale => foreign[p] \subseteq Changes(EffectiveText(p))
         /\ EffectiveText(p) = Gone <=> disk[p] = Gone /\ ~ Blind(inFlight[p]) /\ ~ Blind(pending[p])
         /\ EffectiveText(p) # Gone => Once(EffectiveText(p))
<1>1. EffectiveText(p) = Effective(disk[p], inFlight[p], pending[p])
  BY DEF EffectiveText, Effective
<1> DEFINE st == p \in stale
<1>2. FileOK(disk[p], inFlight[p], pending[p], safe[p], foreign[p], st, made)
  BY DEF FilesInv, FileInv
<1> HIDE DEF st
<1>3. /\ EffectiveText(p) \in Text \cup {Gone} /\ Changes(EffectiveText(p)) \subseteq 1..made
      /\ safe[p] \subseteq Changes(EffectiveText(p))
      /\ ~ st => foreign[p] \subseteq Changes(EffectiveText(p))
      /\ EffectiveText(p) = Gone <=> disk[p] = Gone /\ ~ Blind(inFlight[p]) /\ ~ Blind(pending[p])
      /\ EffectiveText(p) # Gone => Once(EffectiveText(p))
  BY <1>1, <1>2, EffectiveIs
<1> QED
  BY <1>1, <1>3 DEF st

\* What the abstract file makes of a step of this process.
LEMMA NothingRead ==
  ASSUME \A p \in Path : EffectiveText(p)' = EffectiveText(p), UNCHANGED <<safe, losses>>
  PROVE  Promised
<1>1. [p \in Path |-> EffectiveText(p)]' = [p \in Path |-> EffectiveText(p)]
  OBVIOUS
<1> QED
  BY <1>1 DEF Promised, Promise!vars

LEMMA SomethingLost ==
  ASSUME FilesInv', \A p \in Path : safe[p] \subseteq safe'[p], losses' = losses + 1
  PROVE  Promised
<1>1. \A p \in Path : safe'[p] \subseteq Changes(EffectiveText(p)')
  <2> SUFFICES ASSUME NEW p \in Path PROVE safe'[p] \subseteq Changes(EffectiveText(p)')
    OBVIOUS
  <2>1. FileOK(disk'[p], inFlight'[p], pending'[p], safe'[p], foreign'[p], p \in stale', made')
    BY DEF FilesInv, FileInv
  <2>2. EffectiveText(p)' = Effective(disk'[p], inFlight'[p], pending'[p])
    BY DEF EffectiveText, Effective
  <2> QED
    BY <2>1, <2>2, EffectiveIs
<1>2. \A t : Promise!Changes(t) = Changes(t)
  BY DEF Promise!Changes, Changes
<1>3. Promise!Lose
  BY <1>1, <1>2 DEF Promise!Lose
<1> QED
  BY <1>3 DEF Promised, Promise!Next

LEMMA OneWritten ==
  ASSUME NEW p \in Path,
         \A q \in Path \ {p} : EffectiveText(q)' = EffectiveText(q) /\ safe'[q] = safe[q],
         EffectiveText(p)' # Gone, Promise!Grows(EffectiveText(p), EffectiveText(p)'),
         safe[p] \subseteq safe'[p], UNCHANGED losses
  PROVE  Promised
<1>1. Promise!Write(p)
  BY DEF Promise!Write, Promise!Others
<1> QED
  BY <1>1 DEF Promised, Promise!Next

LEMMA OneDeleted ==
  ASSUME NEW p \in Path,
         \A q \in Path \ {p} : EffectiveText(q)' = EffectiveText(q) /\ safe'[q] = safe[q],
         EffectiveText(p)' \in {Gone, EffectiveText(p)}, safe'[p] = {}, UNCHANGED losses
  PROVE  Promised
<1>1. Promise!Delete(p)
  BY DEF Promise!Delete, Promise!Others
<1> QED
  BY <1>1 DEF Promised, Promise!Next

\* A file nothing happens to, while changes are made elsewhere.
LEMMA OtherFile ==
  ASSUME FilesInv, NEW q \in Path, made' \in made..MaxChanges,
         disk'[q] = disk[q], inFlight'[q] = inFlight[q], pending'[q] = pending[q],
         safe'[q] = safe[q], foreign'[q] = foreign[q], q \in stale => q \in stale'
  PROVE  FileInv(q)' /\ EffectiveText(q)' = EffectiveText(q)
<1>1. FileOK(disk[q], inFlight[q], pending[q], safe[q], foreign[q], q \in stale, made)
  BY DEF FilesInv, FileInv
<1>2. FileOK(disk[q], inFlight[q], pending[q], safe[q], foreign[q], q \in stale', made')
  BY <1>1, Weaker
<1> QED
  BY <1>2 DEF FileInv, EffectiveText, On, Blind, Merges

LEMMA QuietFiles ==
  ASSUME FilesInv, UNCHANGED <<disk, pending, inFlight, safe, foreign, stale>>,
         made' \in made..MaxChanges, losses' \in {losses, losses + 1}
  PROVE  FilesInv' /\ Promised
<1>1. made' \in 0..MaxChanges
  BY WriterAssumption DEF FilesInv, FilesTyped
<1>2. \A q \in Path : FileInv(q)' /\ EffectiveText(q)' = EffectiveText(q)
  BY OtherFile
<1>3. FilesInv'
  BY <1>1, <1>2 DEF FilesInv, FilesTyped
<1> QED
  BY <1>2, <1>3, NothingRead, SomethingLost

\* A step that is told of one file.
LEMMA OneFile ==
  ASSUME FilesInv, NEW p \in Path, FileInv(p)', made' \in made..MaxChanges,
         \A q \in Path \ {p} : /\ disk'[q] = disk[q] /\ inFlight'[q] = inFlight[q] /\ pending'[q] = pending[q]
                               /\ safe'[q] = safe[q] /\ foreign'[q] = foreign[q]
                               /\ q \in stale => q \in stale',
         FilesTyped'
  PROVE  FilesInv' /\ \A q \in Path \ {p} : EffectiveText(q)' = EffectiveText(q)
<1>1. \A q \in Path \ {p} : FileInv(q)' /\ EffectiveText(q)' = EffectiveText(q)
  BY OtherFile
<1> QED
  BY <1>1 DEF FilesInv

\* What a call of this process builds its text on.
LEMMA SeenIs ==
  ASSUME FilesInv, NEW p \in Path, Readable(p)
  PROVE  /\ Seen(p) \in Text \cup {Gone} /\ Changes(Seen(p)) \subseteq 1..made
         /\ Seen(p) # Gone => Once(Seen(p))
         /\ safe[p] \subseteq Changes(Seen(p))
         /\ ~ Unreadable(p) => Seen(p) = EffectiveText(p)
         /\ ~ Unreadable(p) /\ p \notin stale => foreign[p] \subseteq Changes(Seen(p))
<1>1. CASE ~ Unreadable(p)
  <2>1. Seen(p) = EffectiveText(p)
    BY <1>1 DEF Seen
  <2> QED
    BY <1>1, <2>1, EffectiveTextIs
<1>2. CASE Unreadable(p)
  <2>1. PICK x \in {inFlight[p], pending[p]} : x # NoWrite /\ Seen(p) = x.text
    BY <1>2 DEF Seen, NewestText, Readable, Queued
  <2>2. x \in Entry /\ x.text \in Text
    BY <2>1, EntryIs DEF FilesInv, FilesTyped
  <2>3. FileOK(disk[p], inFlight[p], pending[p], safe[p], foreign[p], p \in stale, made)
    BY DEF FilesInv, FileInv
  <2> QED
    BY <1>2, <2>1, <2>2, <2>3 DEF FileOK, Numbered, Survives, NoneTwice
<1> QED
  BY <1>1, <1>2

\* What is left to prove of the files that a step touches none of.
Untouched(p) ==
  \A q \in Path \ {p} : /\ disk'[q] = disk[q] /\ inFlight'[q] = inFlight[q] /\ pending'[q] = pending[q]
                        /\ safe'[q] = safe[q] /\ foreign'[q] = foreign[q]
                        /\ q \in stale => q \in stale'

LEMMA DeferFiles ==
  ASSUME FilesInv, NEW p \in Path, NEW blind \in BOOLEAN, Defer(p, blind)
  PROVE  FilesInv' /\ Promised
<1> DEFINE c == made + 1
           t == Onto(Seen(p), c)
           x == [blind |-> blind, text |-> t, merges |-> IF blind THEN << >> ELSE <<c>>]
           y == Scheduled(x, pending[p])
           st == p \in stale
           ts == p \in stale'
<1>1. /\ made < MaxChanges /\ made' = c /\ Readable(p)
      /\ stale' = stale \cup {q \in {p} : blind /\ Unreadable(q)}
      /\ losses' = IF blind /\ Unreadable(p) THEN losses + 1 ELSE losses
      /\ pending' = [pending EXCEPT ![p] = y]
      /\ UNCHANGED <<disk, inFlight, safe, foreign>>
  BY DEF Defer, Misread, Failing, ScheduleWrite, Scheduled
<1>2. made \in Nat /\ c \in 1..MaxChanges /\ c \in made..MaxChanges /\ c \notin 1..made
  BY <1>1, WriterAssumption DEF FilesInv, FilesTyped
<1>3. /\ t \in Text /\ Changes(t) = Changes(Seen(p)) \cup {c} /\ Once(t)
      /\ Changes(Seen(p)) \subseteq 1..made /\ safe[p] \subseteq Changes(t)
      /\ ~ Unreadable(p) => Seen(p) = EffectiveText(p)
      /\ ~ Unreadable(p) /\ ~ st => foreign[p] \subseteq Changes(t)
  BY <1>1, <1>2, SeenIs, OntoIs
<1>4. st => ts
  BY <1>1
<1>5. FileOK(disk[p], inFlight[p], pending[p], safe[p], foreign[p], st, made)
  BY DEF FilesInv, FileInv
<1>6. ~ ts /\ (blind \/ Blind(pending[p])) => foreign[p] \subseteq Changes(t)
  <2>1. Blind(pending[p]) => ~ Unreadable(p)
    BY DEF Unreadable
  <2> QED
    BY <1>1, <1>3, <2>1
<1>7. Changes(t) \subseteq 1..made + 1
  BY <1>2, <1>3
<1> HIDE DEF t, st, ts, x
<1>8. /\ FileOK(disk[p], inFlight[p], y, safe[p], foreign[p], ts, made + 1)
      /\ y # NoWrite /\ (Blind(y) <=> blind \/ Blind(pending[p])) /\ y.text = t
      /\ ~ blind /\ ~ Blind(pending[p]) => Merges(y) = Merges(pending[p]) \o <<c>>
  BY <1>1, <1>3, <1>4, <1>5, <1>6, <1>7, QueueOK DEF x
<1>9. y \in Entry
  BY <1>8 DEF FileOK, FileTyped
<1> HIDE DEF y
<1>10. pending'[p] = y /\ \A q \in Path \ {p} : pending'[q] = pending[q]
  BY <1>1 DEF FilesInv, FilesTyped
<1>11. FilesTyped'
  BY <1>1, <1>2, <1>9 DEF FilesInv, FilesTyped
<1>12. FileInv(p)'
  BY <1>1, <1>8, <1>10 DEF FileInv, ts
<1>13. FilesInv' /\ \A q \in Path \ {p} : EffectiveText(q)' = EffectiveText(q)
  BY <1>1, <1>2, <1>10, <1>11, <1>12, OneFile
<1>14. Promised
  <2> DEFINE e == EffectiveText(p)
             o == On(disk[p], inFlight[p])
  <2>1. CASE blind /\ Unreadable(p)
    BY <1>1, <1>13, <2>1, SomethingLost
  <2>2. CASE ~ (blind /\ Unreadable(p))
    <3>1. UNCHANGED <<losses, safe>>
      BY <1>1, <2>2
    <3>2. /\ EffectiveText(p)' = On(o, y) /\ e = On(o, pending[p])
      BY <1>1, <1>10 DEF EffectiveText
    <3>3. /\ o \in Text \cup {Gone} /\ pending[p] \in Entry /\ e \in Text \cup {Gone}
          /\ e # Gone => Once(e)
          /\ c \notin Changes(e)
      <4>1. disk[p] \in Text \cup {Gone} /\ inFlight[p] \in Entry /\ pending[p] \in Entry
        BY DEF FilesInv, FilesTyped
      <4> QED
        BY <1>2, <4>1, EffectiveTextIs, OnIs
    <3> HIDE DEF o, e
    <3>4. CASE Blind(y) /\ ~ Unreadable(p)
      <4>1. EffectiveText(p)' = Onto(e, c)
        BY <1>3, <1>8, <1>9, <3>2, <3>3, <3>4, OnIs DEF t, e
      <4>2. Onto(e, c) # Gone /\ Promise!Grows(e, Onto(e, c))
        BY <1>2, <3>3, OntoGrows
      <4> QED
        BY <1>13, <3>1, <4>1, <4>2, OneWritten DEF e
    <3>5. CASE ~ Blind(y)
      <4>1. ~ blind /\ ~ Blind(pending[p]) /\ Merges(y) = Merges(pending[p]) \o <<c>>
        BY <1>8, <3>5
      <4>2. CASE o = Gone
        <5>1. EffectiveText(p)' = Gone /\ e = Gone
          BY <1>9, <3>2, <3>3, <3>5, <4>1, <4>2, OnIs
        <5> QED
          BY <1>13, <3>1, <5>1, NothingRead DEF e
      <4>3. CASE o # Gone
        <5>1. e = o \o Merges(pending[p]) /\ EffectiveText(p)' = o \o Merges(y) /\ e # Gone
          BY <1>9, <3>2, <3>3, <3>5, <4>1, <4>3, OnIs
        <5>2. o \in Text /\ Merges(pending[p]) \in Text /\ <<c>> \in Text
          BY <1>2, <3>3, <4>3, EntryIs, One
        <5>3. EffectiveText(p)' = e \o <<c>>
          BY <4>1, <5>1, <5>2, JoinedTwice
        <5>4. Onto(e, c) = e \o <<c>> /\ Onto(e, c) # Gone /\ Promise!Grows(e, Onto(e, c))
          BY <1>2, <3>3, <5>1, OntoIs, OntoGrows
        <5> QED
          BY <1>13, <3>1, <5>3, <5>4, OneWritten DEF e
      <4> QED
        BY <4>2, <4>3
    <3>6. Unreadable(p) => ~ Blind(y)
      BY <1>8, <2>2 DEF Unreadable
    <3> QED
      BY <3>4, <3>5, <3>6
  <2> QED
    BY <2>1, <2>2
<1> QED
  BY <1>13, <1>14

LEMMA SaveFiles ==
  ASSUME FilesInv, NEW p \in Path, Save(p)
  PROVE  FilesInv' /\ Promised
<1> DEFINE c == made + 1
           t == Onto(Seen(p), c)
<1>1. /\ made < MaxChanges /\ made' = c /\ Readable(p)
      /\ stale' = stale \cup {q \in {p} : Unreadable(q)}
      /\ losses' = IF Unreadable(p) THEN losses + 1 ELSE losses
      /\ pending' = [pending EXCEPT ![p] = NoWrite] /\ inFlight' = [inFlight EXCEPT ![p] = NoWrite]
      /\ disk' = [disk EXCEPT ![p] = t]
      /\ safe' = [safe EXCEPT ![p] = @ \cup Changes(t)]
      /\ UNCHANGED foreign
  BY DEF Save, Misread, Failing, DropPending
<1>2. made \in Nat /\ c \in 1..MaxChanges /\ c \in 0..MaxChanges /\ c \in made..MaxChanges /\ c \notin 1..made
      /\ 1..made \subseteq 1..c /\ c \in 1..c
  BY <1>1, WriterAssumption DEF FilesInv, FilesTyped
<1> HIDE DEF c
<1>3. /\ t \in Text /\ t # Gone /\ Changes(t) = Changes(Seen(p)) \cup {c} /\ Once(t)
      /\ Changes(t) \subseteq 1..c /\ safe[p] \subseteq Changes(t)
      /\ ~ Unreadable(p) => Seen(p) = EffectiveText(p)
      /\ p \notin stale' => foreign[p] \subseteq Changes(t)
  <2>1. /\ Seen(p) \in Text \cup {Gone} /\ Changes(Seen(p)) \subseteq 1..made
        /\ (Seen(p) # Gone => Once(Seen(p)))
        /\ safe[p] \subseteq Changes(Seen(p))
        /\ ~ Unreadable(p) => Seen(p) = EffectiveText(p)
        /\ ~ Unreadable(p) /\ p \notin stale => foreign[p] \subseteq Changes(Seen(p))
    BY <1>1, SeenIs
  <2>2. c \notin Changes(Seen(p))
    BY <1>2, <2>1
  <2>3. t \in Text /\ t # Gone /\ Changes(t) = Changes(Seen(p)) \cup {c} /\ Once(t)
    BY <1>2, <2>1, <2>2, OntoIs, TextIs
  <2> HIDE DEF t
  <2>4. p \notin stale' => ~ Unreadable(p) /\ p \notin stale
    BY <1>1
  <2> QED
    BY <1>2, <2>1, <2>3, <2>4
<1> HIDE DEF t
<1>4. /\ disk'[p] = t /\ pending'[p] = NoWrite /\ inFlight'[p] = NoWrite
      /\ safe'[p] = safe[p] \cup Changes(t)
      /\ Untouched(p)
  BY <1>1 DEF FilesInv, FilesTyped, Untouched
<1>5. FilesTyped'
  <2>1. Changes(t) \subseteq 1..MaxChanges
    BY <1>3, TextIs
  <2> QED
    BY <1>1, <1>2, <1>3, <2>1 DEF FilesInv, FilesTyped, Entry
<1>6. FileInv(p)'
  <2> DEFINE ts == p \in stale'
  <2>1. t \in Text \cup {Gone} /\ safe'[p] \in SUBSET Changes(t) /\ (~ ts => foreign[p] \subseteq Changes(t))
    BY <1>3, <1>4
  <2> HIDE DEF ts
  <2>2. FileOK(t, NoWrite, NoWrite, safe'[p], foreign[p], ts, c)
    BY <1>2, <1>3, <2>1, WholeOK
  <2> QED
    BY <1>1, <1>4, <2>2 DEF FileInv, ts
<1>7. FilesInv' /\ \A q \in Path \ {p} : EffectiveText(q)' = EffectiveText(q)
  BY <1>1, <1>2, <1>4, <1>5, <1>6, OneFile DEF Untouched
<1>8. Promised
  <2>1. CASE Unreadable(p)
    <3>1. \A q \in Path : safe[q] \subseteq safe'[q]
      BY <1>4 DEF Untouched
    <3> QED
      BY <1>1, <1>7, <2>1, <3>1, SomethingLost
  <2>2. CASE ~ Unreadable(p)
    <3>1. EffectiveText(p)' = t
      <4>1. On(t, NoWrite) = t
        BY <1>3, OnIs DEF Entry
      <4> QED
        BY <1>4, <4>1 DEF EffectiveText, On, Blind, Merges
    <3>2. EffectiveText(p) \in Text \cup {Gone} /\ (EffectiveText(p) # Gone => Once(EffectiveText(p)))
          /\ c \notin Changes(EffectiveText(p))
      BY <1>2, EffectiveTextIs
    <3>3. Promise!Grows(EffectiveText(p), t)
      BY <1>2, <1>3, <2>2, <3>2, OntoGrows DEF t
    <3> QED
      BY <1>1, <1>3, <1>4, <1>7, <2>2, <3>1, <3>3, OneWritten DEF Untouched
  <2> QED
    BY <2>1, <2>2
<1> QED
  BY <1>7, <1>8

\* Queued writes that are dropped with a failure.
LEMMA DroppedFiles ==
  ASSUME FilesInv, UNCHANGED <<disk, safe, foreign, stale, made>>, losses' = losses + 1,
         pending' \in [Path -> Entry], inFlight' \in [Path -> Entry],
         \A p \in Path : pending'[p] \in {pending[p], NoWrite} /\ inFlight'[p] \in {inFlight[p], NoWrite}
  PROVE  FilesInv' /\ Promised
<1>1. FilesTyped'
  BY DEF FilesInv, FilesTyped
<1>2. ASSUME NEW p \in Path PROVE FileInv(p)'
  <2>1. FileOK(disk[p], inFlight[p], pending[p], safe[p], foreign[p], p \in stale, made)
        /\ made \in made..MaxChanges
    BY WriterAssumption DEF FilesInv, FileInv, FilesTyped
  <2>2. FileOK(disk[p], inFlight'[p], pending'[p], safe[p], foreign[p], p \in stale', made)
    BY <2>1, Weaker
  <2> QED
    BY <2>2 DEF FileInv
<1>3. FilesInv'
  BY <1>1, <1>2 DEF FilesInv
<1> QED
  BY <1>3, SomethingLost

LEMMA RemovedFiles ==
  ASSUME FilesInv, NEW p \in Path, Removed(p),
         DropPending(p) \/ UNCHANGED <<pending, inFlight>>
  PROVE  FilesInv' /\ Promised
<1> DEFINE st == p \in stale
<1>1. /\ disk' = [disk EXCEPT ![p] = Gone]
      /\ safe' = [safe EXCEPT ![p] = {}] /\ foreign' = [foreign EXCEPT ![p] = {}]
      /\ UNCHANGED <<made, stale, losses>>
  BY DEF Removed
<1>2. /\ disk'[p] = Gone /\ safe'[p] = {} /\ foreign'[p] = {}
      /\ Untouched(p) /\ FilesTyped'
      /\ \/ pending'[p] = NoWrite /\ inFlight'[p] = NoWrite
         \/ pending'[p] = pending[p] /\ inFlight'[p] = inFlight[p]
  <2>1. CASE DropPending(p)
    BY <1>1, <2>1 DEF DropPending, FilesInv, FilesTyped, Untouched, Entry
  <2>2. CASE UNCHANGED <<pending, inFlight>>
    BY <1>1, <2>2 DEF FilesInv, FilesTyped, Untouched
  <2> QED
    BY <2>1, <2>2
<1>3. FileOK(disk[p], inFlight[p], pending[p], safe[p], foreign[p], st, made) /\ made \in made..MaxChanges
  BY WriterAssumption DEF FilesInv, FileInv, FilesTyped
<1> HIDE DEF st
<1>4. FileOK(Gone, inFlight[p], pending[p], {}, {}, st, made)
  BY <1>3, GoneOK
<1>5. FileOK(Gone, inFlight'[p], pending'[p], {}, {}, st, made)
  BY <1>2, <1>3, <1>4, Weaker
<1>6. FileInv(p)'
  BY <1>1, <1>2, <1>5 DEF FileInv, st
<1>7. FilesInv' /\ \A q \in Path \ {p} : EffectiveText(q)' = EffectiveText(q)
  BY <1>1, <1>2, <1>3, <1>6, OneFile DEF Untouched
<1>8. EffectiveText(p)' \in {Gone, EffectiveText(p)}
  <2>1. EffectiveText(p)' = On(On(Gone, inFlight'[p]), pending'[p])
    BY <1>2 DEF EffectiveText
  <2>2. inFlight[p] \in Entry /\ pending[p] \in Entry /\ NoWrite \in Entry /\ disk[p] \in Text \cup {Gone}
    BY DEF FilesInv, FilesTyped, Entry
  <2>3. CASE pending'[p] = NoWrite /\ inFlight'[p] = NoWrite
    <3>1. On(Gone, NoWrite) = Gone
      BY <2>2, OnIs
    <3> QED
      BY <2>1, <2>3, <3>1
  <2>4. CASE pending'[p] = pending[p] /\ inFlight'[p] = inFlight[p]
    <3>1. CASE Blind(pending[p])
      <4>1. On(Gone, inFlight[p]) \in Text \cup {Gone} /\ On(disk[p], inFlight[p]) \in Text \cup {Gone}
        BY <2>2, OnIs
      <4> QED
        BY <2>1, <2>2, <2>4, <3>1, <4>1, OnIs DEF EffectiveText
    <3>2. CASE Blind(inFlight[p])
      <4>1. On(Gone, inFlight[p]) = On(disk[p], inFlight[p])
        BY <2>2, <3>2, OnIs
      <4> QED
        BY <2>1, <2>4, <4>1 DEF EffectiveText
    <3>3. CASE ~ Blind(pending[p]) /\ ~ Blind(inFlight[p])
      <4>1. On(Gone, inFlight[p]) = Gone /\ On(Gone, pending[p]) = Gone
        BY <2>2, <3>3, OnIs
      <4> QED
        BY <2>1, <2>4, <4>1
    <3> QED
      BY <3>1, <3>2, <3>3
  <2> QED
    BY <1>2, <2>3, <2>4
<1> QED
  BY <1>1, <1>2, <1>7, <1>8, OneDeleted DEF Untouched

LEMMA ForeignWriteFiles ==
  ASSUME FilesInv, NEW p \in Path, ForeignWrite(p)
  PROVE  FilesInv' /\ Promised
<1> DEFINE c == made + 1
           st == p \in stale
           new == Onto(disk[p], c)
           fc == IF Blind(pending[p]) \/ Blind(inFlight[p]) THEN foreign[p] ELSE foreign[p] \cup {c}
<1>1. /\ made < MaxChanges /\ made' = c
      /\ disk' = [disk EXCEPT ![p] = new]
      /\ foreign' = [foreign EXCEPT ![p] = fc]
      /\ UNCHANGED <<pending, inFlight, safe, stale, losses>>
  BY DEF ForeignWrite, queueVars
<1>2. made \in Nat /\ c \in 1..MaxChanges /\ c \in made..MaxChanges
  BY <1>1, WriterAssumption DEF FilesInv, FilesTyped
<1>3. FileOK(disk[p], inFlight[p], pending[p], safe[p], foreign[p], st, made)
  BY DEF FilesInv, FileInv
<1>4. EffectiveText(p) = Effective(disk[p], inFlight[p], pending[p])
  BY DEF EffectiveText, Effective
<1>5. new \in Text /\ fc \in SUBSET (1..MaxChanges)
  BY <1>2, OntoIs DEF FilesInv, FilesTyped
<1> HIDE DEF st
<1>6. /\ FileOK(new, inFlight[p], pending[p], safe[p], fc, st, c)
      /\ \/ Effective(new, inFlight[p], pending[p]) = EffectiveText(p)
         \/ /\ Effective(new, inFlight[p], pending[p]) # Gone
            /\ Promise!Grows(EffectiveText(p), Effective(new, inFlight[p], pending[p]))
  BY <1>1, <1>3, <1>4, ForeignOK
<1> HIDE DEF new, fc
<1>7. disk'[p] = new /\ foreign'[p] = fc /\ Untouched(p) /\ FilesTyped'
  BY <1>1, <1>2, <1>5 DEF FilesInv, FilesTyped, Untouched
<1>8. FileInv(p)'
  BY <1>1, <1>6, <1>7 DEF FileInv, st
<1>9. FilesInv' /\ \A q \in Path \ {p} : EffectiveText(q)' = EffectiveText(q)
  BY <1>1, <1>2, <1>7, <1>8, OneFile DEF Untouched
<1>10. EffectiveText(p)' = Effective(new, inFlight[p], pending[p])
  BY <1>1, <1>7 DEF EffectiveText, Effective
<1>11. CASE EffectiveText(p)' = EffectiveText(p)
  BY <1>1, <1>9, <1>11, NothingRead
<1>12. CASE EffectiveText(p)' # Gone /\ Promise!Grows(EffectiveText(p), EffectiveText(p)')
  BY <1>1, <1>9, <1>12, OneWritten
<1> QED
  BY <1>6, <1>9, <1>10, <1>11, <1>12

LEMMA TakeFiles ==
  ASSUME FilesInv, Take, \A p \in Path : inFlight[p] = NoWrite
  PROVE  FilesInv' /\ Promised
<1>1. /\ inFlight' = pending /\ pending' = [p \in Path |-> NoWrite]
      /\ UNCHANGED <<disk, safe, foreign, stale, made, losses>>
  BY DEF Take, pastVars, FilesInv, FilesTyped
<1>2. FilesTyped'
  BY <1>1 DEF FilesInv, FilesTyped, Entry
<1>3. ASSUME NEW p \in Path PROVE FileInv(p)' /\ EffectiveText(p)' = EffectiveText(p)
  <2> DEFINE st == p \in stale
  <2>1. FileOK(disk[p], NoWrite, pending[p], safe[p], foreign[p], st, made)
    BY DEF FilesInv, FileInv
  <2> HIDE DEF st
  <2>2. /\ FileOK(disk[p], pending[p], NoWrite, safe[p], foreign[p], st, made)
        /\ Effective(disk[p], pending[p], NoWrite) = Effective(disk[p], NoWrite, pending[p])
    BY <2>1, TakenOK
  <2> QED
    BY <1>1, <2>2 DEF FileInv, EffectiveText, Effective, st
<1> QED
  BY <1>1, <1>2, <1>3, NothingRead DEF FilesInv

\* A drain puts a text over the file, or merges on top of it.
LEMMA DrainedFiles ==
  ASSUME FilesInv, NEW p \in Path,
         disk' = [disk EXCEPT ![p] = On(disk[p], inFlight[p])], inFlight' = [inFlight EXCEPT ![p] = NoWrite],
         UNCHANGED <<pending, safe, foreign, stale, made, losses>>
  PROVE  FilesInv' /\ Promised
<1> DEFINE st == p \in stale
           new == On(disk[p], inFlight[p])
<1>1. FileOK(disk[p], inFlight[p], pending[p], safe[p], foreign[p], st, made) /\ made \in made..MaxChanges
  BY WriterAssumption DEF FilesInv, FileInv, FilesTyped
<1> HIDE DEF st
<1>2. /\ FileOK(new, NoWrite, pending[p], safe[p], foreign[p], st, made)
      /\ Effective(new, NoWrite, pending[p]) = Effective(disk[p], inFlight[p], pending[p])
  BY <1>1, DrainedOK
<1>3. new \in Text \cup {Gone}
  BY <1>2 DEF FileOK, FileTyped
<1> HIDE DEF new
<1>4. disk' = [disk EXCEPT ![p] = new]
  BY DEF new
<1>5. disk'[p] = new /\ inFlight'[p] = NoWrite /\ Untouched(p) /\ FilesTyped'
  BY <1>3, <1>4 DEF FilesInv, FilesTyped, Untouched, Entry
<1>6. FileInv(p)' /\ EffectiveText(p)' = EffectiveText(p)
  BY <1>2, <1>5 DEF FileInv, EffectiveText, Effective, st
<1>7. FilesInv' /\ \A q \in Path \ {p} : EffectiveText(q)' = EffectiveText(q)
  BY <1>1, <1>5, <1>6, OneFile DEF Untouched
<1> QED
  BY <1>6, <1>7, NothingRead

LEMMA PutBackFiles ==
  ASSUME FilesInv, NEW p \in Path, PutBack(p)
  PROVE  FilesInv' /\ Promised
<1> DEFINE st == p \in stale
           new == Under(inFlight[p], pending[p])
<1>1. /\ inFlight[p] # NoWrite /\ ~ inFlight[p].blind
      /\ pending' = [pending EXCEPT ![p] = new] /\ inFlight' = [inFlight EXCEPT ![p] = NoWrite]
      /\ UNCHANGED <<disk, safe, foreign, stale, made, losses>>
  BY DEF PutBack, AtMerges, Passed, pastVars
<1>2. FileOK(disk[p], inFlight[p], pending[p], safe[p], foreign[p], st, made) /\ made \in made..MaxChanges
  BY WriterAssumption DEF FilesInv, FileInv, FilesTyped
<1> HIDE DEF st
<1>3. /\ FileOK(disk[p], NoWrite, new, safe[p], foreign[p], st, made)
      /\ Effective(disk[p], NoWrite, new) = Effective(disk[p], inFlight[p], pending[p])
  BY <1>1, <1>2, PutBackOK
<1>4. new \in Entry
  BY <1>3 DEF FileOK, FileTyped
<1> HIDE DEF new
<1>5. pending'[p] = new /\ inFlight'[p] = NoWrite /\ Untouched(p) /\ FilesTyped'
  BY <1>1, <1>4 DEF FilesInv, FilesTyped, Untouched, Entry
<1>6. FileInv(p)' /\ EffectiveText(p)' = EffectiveText(p)
  BY <1>1, <1>3, <1>5 DEF FileInv, EffectiveText, Effective, st
<1>7. FilesInv' /\ \A q \in Path \ {p} : EffectiveText(q)' = EffectiveText(q)
  BY <1>1, <1>2, <1>5, <1>6, OneFile DEF Untouched
<1> QED
  BY <1>1, <1>6, <1>7, NothingRead

LEMMA FlushSyncFiles ==
  ASSUME FilesInv, FlushSync
  PROVE  FilesInv' /\ Promised
<1> DEFINE jammed == {p \in Path : Queued(p) /\ Unreadable(p)}
<1>0. PICK failed \in SUBSET Path, lost \in SUBSET UNION {Jobs(l) : l \in Log} :
        /\ losses' = IF jammed \cup failed \cup lost = {} THEN losses ELSE losses + 1
        /\ disk' = [p \in Path |-> IF Queued(p) /\ p \notin failed /\ Seen(p) # Gone THEN Seen(p) ELSE disk[p]]
        /\ stale' = stale \cup (jammed \ failed)
  BY DEF FlushSync, Failing
<1>1. /\ pending' = [p \in Path |-> NoWrite] /\ inFlight' = [p \in Path |-> NoWrite]
      /\ UNCHANGED <<made, safe, foreign>>
  BY DEF FlushSync
<1>6. ASSUME NEW p \in failed PROVE FileInv(p)' /\ disk'[p] \in Text \cup {Gone}
  <2> DEFINE ts == p \in stale'
  <2>1. /\ FileOK(disk[p], inFlight[p], pending[p], safe[p], foreign[p], p \in stale, made)
        /\ made \in made..MaxChanges /\ disk[p] \in Text \cup {Gone}
    BY WriterAssumption DEF FilesInv, FileInv, FilesTyped
  <2>2. disk'[p] = disk[p] /\ inFlight'[p] = NoWrite /\ pending'[p] = NoWrite /\ (p \in stale => ts)
    BY <1>0, <1>1
  <2> HIDE DEF ts, jammed
  <2>3. FileOK(disk[p], NoWrite, NoWrite, safe[p], foreign[p], ts, made)
    BY <2>1, <2>2, Weaker
  <2> QED
    BY <1>1, <2>1, <2>2, <2>3 DEF FileInv, ts
<1>7. ASSUME NEW p \in Path \ failed
      PROVE  /\ FileInv(p)' /\ disk'[p] \in Text \cup {Gone}
             /\ p \notin jammed => EffectiveText(p)' = EffectiveText(p)
  <2> DEFINE ts == p \in stale'
  <2>1. /\ disk[p] \in Text \cup {Gone} /\ inFlight[p] \in Entry /\ pending[p] \in Entry /\ made \in 0..MaxChanges
        /\ NoWrite \in Entry
    BY DEF FilesInv, FilesTyped, Entry
  <2>2. FileOK(disk[p], inFlight[p], pending[p], safe[p], foreign[p], p \in stale, made)
    BY DEF FilesInv, FileInv
  <2>3. /\ disk'[p] \in Text \cup {Gone} /\ (disk'[p] # Gone => Once(disk'[p]))
        /\ Changes(disk'[p]) \subseteq 1..made /\ safe[p] \subseteq Changes(disk'[p])
        /\ ~ ts => foreign[p] \subseteq Changes(disk'[p])
        /\ p \notin jammed => disk'[p] = EffectiveText(p)
    <3>1. CASE Queued(p) /\ Seen(p) # Gone
      <4>1. disk'[p] = Seen(p) /\ Readable(p)
        BY <1>0, <3>1 DEF Readable
      <4>2. ~ ts => ~ Unreadable(p) /\ p \notin stale
        BY <1>0, <3>1
      <4>3. p \notin jammed => ~ Unreadable(p)
        BY <3>1
      <4> HIDE DEF ts, jammed
      <4> QED
        BY <4>1, <4>2, <4>3, SeenIs
    <3>2. CASE Queued(p) /\ Seen(p) = Gone
      <4>1. disk'[p] = disk[p] /\ Readable(p)
        BY <1>0, <3>2 DEF Readable
      <4>2. ~ Unreadable(p)
        <5>1. ASSUME Unreadable(p) PROVE Seen(p) \in Text
          <6>1. PICK x \in {inFlight[p], pending[p]} : x # NoWrite /\ Seen(p) = x.text
            BY <3>2, <5>1 DEF Seen, NewestText, Queued
          <6> QED
            BY <2>1, <6>1, EntryIs
        <5> QED
          BY <3>2, <5>1, TextIs
      <4>3. EffectiveText(p) = Gone /\ disk[p] = Gone
        BY <3>2, <4>1, <4>2, SeenIs, EffectiveTextIs
      <4>4. ~ ts => p \notin stale
        BY <1>0
      <4> HIDE DEF ts, jammed
      <4> QED
        BY <2>1, <2>2, <4>1, <4>3, <4>4 DEF FileOK, Numbered, Survives, NoneTwice
    <3>3. CASE ~ Queued(p)
      <4>1. disk'[p] = disk[p] /\ inFlight[p] = NoWrite /\ pending[p] = NoWrite
        BY <1>0, <1>1, <3>3 DEF Queued
      <4>2. EffectiveText(p) = disk[p]
        BY <2>1, <4>1, OnIs DEF EffectiveText
      <4>3. ~ ts => p \notin stale
        BY <1>0
      <4> HIDE DEF ts, jammed
      <4> QED
        BY <2>1, <2>2, <4>1, <4>2, <4>3 DEF FileOK, Numbered, Survives, NoneTwice
    <3> QED
      BY <3>1, <3>2, <3>3
  <2> HIDE DEF ts, jammed
  <2>4. FileOK(disk'[p], NoWrite, NoWrite, safe[p], foreign[p], ts, made)
    BY <2>1, <2>3, WholeOK
  <2>5. FileInv(p)'
    BY <1>1, <2>4 DEF FileInv, ts
  <2>6. EffectiveText(p)' = disk'[p]
    <3>1. EffectiveText(p)' = On(On(disk'[p], NoWrite), NoWrite)
      BY <1>1 DEF EffectiveText
    <3>2. On(disk'[p], NoWrite) = disk'[p]
      BY <2>1, <2>3, OnIs
    <3> QED
      BY <3>1, <3>2
  <2> QED
    BY <2>3, <2>5, <2>6
<1>2. \A p \in Path : FileInv(p)' /\ disk'[p] \in Text \cup {Gone}
  BY <1>6, <1>7
<1>3. FilesInv'
  <2>1. jammed \subseteq Path
    OBVIOUS
  <2>2. disk' \in [Path -> Text \cup {Gone}]
    BY <1>0, <1>2
  <2> HIDE DEF jammed
  <2> QED
    BY <1>0, <1>1, <1>2, <2>1, <2>2 DEF FilesInv, FilesTyped, Entry
<1>4. CASE jammed \cup failed \cup lost = {}
  BY <1>0, <1>1, <1>3, <1>4, <1>7, NothingRead
<1>5. CASE jammed \cup failed \cup lost # {}
  BY <1>0, <1>1, <1>3, <1>5, SomethingLost
<1> QED
  BY <1>3, <1>4, <1>5

-----------------------------------------------------------------------------
(* Every step keeps the files and the promise *)

LEMMA FilesNext ==
  ASSUME FilesInv, DrainInv, WriterNext
  PROVE  FilesInv' /\ Promised
<1> USE WriterAssumption
<1>1. /\ made \in 0..MaxChanges /\ made \in made..MaxChanges
      /\ made < MaxChanges => made + 1 \in made..MaxChanges
  BY DEF FilesInv, FilesTyped
<1>2. ASSUME NEW p \in Path, NEW blind \in BOOLEAN, Defer(p, blind) PROVE FilesInv' /\ Promised
  BY <1>2, DeferFiles
<1>3. ASSUME NEW p \in Path, Save(p) PROVE FilesInv' /\ Promised
  BY <1>3, SaveFiles
<1>4. ASSUME NEW p \in Path, DropPending(p), UNCHANGED <<disk, safe, foreign, stale, made>>, losses' = losses + 1
      PROVE  FilesInv' /\ Promised
  <2>1. /\ pending' \in [Path -> Entry] /\ inFlight' \in [Path -> Entry]
        /\ \A q \in Path : pending'[q] \in {pending[q], NoWrite} /\ inFlight'[q] \in {inFlight[q], NoWrite}
    BY <1>4 DEF DropPending, FilesInv, FilesTyped, Entry
  <2> QED
    BY <1>4, <2>1, DroppedFiles
<1>5. ASSUME NEW p \in Path, SaveFails(p) PROVE FilesInv' /\ Promised
  BY <1>4, <1>5 DEF SaveFails
<1>6. ASSUME NEW p \in Path, Delete(p) \/ ForeignDelete(p) PROVE FilesInv' /\ Promised
  BY <1>6, RemovedFiles DEF Delete, ForeignDelete
<1>7. ASSUME NEW l \in Log, ScheduleAppend(l) PROVE FilesInv' /\ Promised
  BY <1>1, <1>7, QuietFiles DEF ScheduleAppend
<1>8. ASSUME NEW l \in Log, ReadLog(l) \/ DeleteLog(l) \/ \E m \in Log : MoveLog(l, m)
      PROVE  FilesInv' /\ Promised
  BY <1>1, <1>8, QuietFiles DEF ReadLog, DeleteLog, MoveLog, Failing, queueVars, pastVars
<1>9. ASSUME Close \/ Exit PROVE FilesInv' /\ Promised
  BY <1>9, FlushSyncFiles DEF Close, Exit
<1>10. ASSUME FlushWrites \/ FlushEnds \/ WriteAppends PROVE FilesInv' /\ Promised
  BY <1>1, <1>10, QuietFiles DEF FlushWrites, FlushEnds, WriteAppends, Failing, pastVars
<1>11. ASSUME Take PROVE FilesInv' /\ Promised
  <2>1. \A p \in Path : inFlight[p] = NoWrite
    BY <1>11 DEF Take, DrainInv, NothingStranded
  <2> QED
    BY <1>11, <2>1, TakeFiles
<1>12. ASSUME NEW p \in Path, Superseded(p) PROVE FilesInv' /\ Promised
  <2>1. inFlight' = inFlight
    BY <1>12 DEF Superseded, Passed, FilesInv, FilesTyped
  <2> QED
    BY <1>1, <1>12, <2>1, QuietFiles DEF Superseded, pastVars
<1>13. ASSUME NEW p \in Path, WriteTemp(p) \/ Sleep(p) PROVE FilesInv' /\ Promised
  BY <1>1, <1>13, QuietFiles DEF WriteTemp, Sleep, pastVars
<1>14. ASSUME NEW p \in Path, Rename(p) PROVE FilesInv' /\ Promised
  <2>1. Blind(inFlight[p])
    BY <1>14 DEF Rename, DrainInv
  <2>2. On(disk[p], inFlight[p]) = inFlight[p].text
    BY <2>1 DEF On
  <2> QED
    BY <1>14, <2>2, DrainedFiles DEF Rename, Passed, pastVars
<1>15. ASSUME NEW p \in Path, WriteMerged(p) PROVE FilesInv' /\ Promised
  BY <1>15, DrainedFiles DEF WriteMerged, Passed, pastVars
<1>16. ASSUME NEW p \in Path, PutBack(p) PROVE FilesInv' /\ Promised
  BY <1>16, PutBackFiles
<1>17. ASSUME Crash PROVE FilesInv' /\ Promised
  <2>1. /\ pending' \in [Path -> Entry] /\ inFlight' \in [Path -> Entry]
        /\ \A q \in Path : pending'[q] \in {pending[q], NoWrite} /\ inFlight'[q] \in {inFlight[q], NoWrite}
    BY <1>17 DEF Crash, FilesInv, FilesTyped, Entry
  <2> QED
    BY <1>17, <2>1, DroppedFiles DEF Crash
<1>18. ASSUME NEW p \in Path, WriteFails(p) PROVE FilesInv' /\ Promised
  <2>1. /\ pending' \in [Path -> Entry] /\ inFlight' \in [Path -> Entry]
        /\ \A q \in Path : pending'[q] \in {pending[q], NoWrite} /\ inFlight'[q] \in {inFlight[q], NoWrite}
    BY <1>18 DEF WriteFails, Passed, FilesInv, FilesTyped, Entry
  <2> QED
    BY <1>18, <2>1, DroppedFiles DEF WriteFails
<1>19. ASSUME NEW p \in Path, ForeignWrite(p) PROVE FilesInv' /\ Promised
  BY <1>19, ForeignWriteFiles
<1>20. ASSUME NEW p \in Path, Jam(p) \/ Unjam(p) PROVE FilesInv' /\ Promised
  BY <1>1, <1>20, QuietFiles DEF Jam, Unjam, queueVars, pastVars
<1>21. CASE Calls
  BY <1>2, <1>3, <1>5, <1>6, <1>7, <1>8, <1>9, <1>21 DEF Calls
<1>22. CASE Drain
  BY <1>10, <1>11, <1>12, <1>13, <1>14, <1>15, <1>16, <1>22 DEF Drain, WriteFile
<1>23. CASE World
  BY <1>6, <1>17, <1>18, <1>19, <1>20, <1>23 DEF World
<1> QED
  BY <1>21, <1>22, <1>23 DEF WriterNext

-----------------------------------------------------------------------------
(* The queue and its drain: the steps *)

LinesTyped == open \in [Log -> Text] /\ taken \in [Log -> Text]

Counted == jams' \in 0..MaxBusy /\ losses' \in 0..MaxLosses /\ deletes' \in 0..MaxDeletes

\* A step that queues nothing, and leaves the timer and the drain alone.
LEMMA QueueStays ==
  ASSUME DrainInv, UNCHANGED <<retrying, timer, chain, drain, batch>>, busy' \subseteq Path, Counted,
         \A p \in Path : /\ pending'[p] \in {pending[p], NoWrite}
                         /\ inFlight'[p] \in {inFlight[p], NoWrite},
         \A l \in Log : /\ open[l] = << >> => open'[l] = << >>
                        /\ taken[l] = << >> => taken'[l] = << >>
  PROVE  DrainInv'
<1>1. QueueTyped'
  BY DEF DrainInv, QueueTyped, Counted
<1>2. NothingStranded'
  BY DEF DrainInv, NothingStranded
<1>3. \A p \in Path : drain'.phase = "temp" /\ drain'.at = p /\ inFlight'[p] # NoWrite => Blind(inFlight[p])
                      /\ inFlight'[p] = inFlight[p]
  BY DEF DrainInv
<1>4. \A p \in Path : drain'.phase = "temp" /\ drain'.at = p /\ inFlight'[p] # NoWrite => Blind(inFlight'[p])
  BY <1>3
<1> QED
  BY <1>1, <1>2, <1>4 DEF DrainInv

\* A drain that is done with a file.
LEMMA QueuePassed ==
  ASSUME DrainInv, FilesTyped, drain # Idle, NEW p \in Path, Passed(p), Counted,
         \A q \in Path : pending'[q] # pending[q] => timer',
         UNCHANGED <<busy, chain, open, taken>>,
         retrying' \subseteq Path, timer' \in BOOLEAN,
         \/ UNCHANGED <<retrying, timer>>
         \/ timer'
  PROVE  DrainInv'
<1>1. batch' = batch \ {p} /\ drain' = Loop /\ inFlight' = [inFlight EXCEPT ![p] = NoWrite]
  BY DEF Passed
<1>2. Loop # Idle /\ Loop.phase # "temp" /\ Loop \in [phase : {"idle", "loop", "temp", "sleep"}, at : Path \cup {Gone}, tries : 0..Tries]
  BY WriterAssumption DEF Loop, Idle
<1>3. QueueTyped'
  BY <1>1, <1>2 DEF DrainInv, QueueTyped, Counted
<1>4. inFlight'[p] = NoWrite /\ \A q \in Path \ {p} : inFlight'[q] = inFlight[q]
  BY <1>1 DEF FilesTyped
<1>5. NothingStranded'
  BY <1>1, <1>2, <1>4 DEF DrainInv, NothingStranded
<1> QED
  BY <1>1, <1>2, <1>3, <1>5 DEF DrainInv

LEMMA QueueNext ==
  ASSUME FilesTyped, LinesTyped, DrainInv, WriterNext
  PROVE  DrainInv'
<1> USE WriterAssumption
<1>1. /\ jams \in 0..MaxBusy /\ losses \in 0..MaxLosses /\ deletes \in 0..MaxDeletes
      /\ busy \subseteq Path /\ retrying \subseteq Path /\ batch \subseteq Path
      /\ timer \in BOOLEAN /\ chain \in 0..MaxChain
      /\ drain \in [phase : {"idle", "loop", "temp", "sleep"}, at : Path \cup {Gone}, tries : 0..Tries]
      /\ losses < MaxLosses => losses + 1 \in 0..MaxLosses
      /\ deletes < MaxDeletes => deletes + 1 \in 0..MaxDeletes
      /\ jams < MaxBusy => jams + 1 \in 0..MaxBusy
  BY DEF DrainInv, QueueTyped
<1>2. ASSUME NEW p \in Path, NEW blind \in BOOLEAN, Defer(p, blind) PROVE DrainInv'
  <2>1. Counted /\ timer' = TRUE /\ UNCHANGED <<busy, inFlight, retrying, chain, drain, batch, open, taken>>
    BY <1>1, <1>2 DEF Defer, Misread, Failing, ScheduleWrite, Arm, Counted, logVars
  <2>2. QueueTyped'
    BY <1>1, <2>1 DEF QueueTyped, Counted
  <2> QED
    BY <2>1, <2>2 DEF DrainInv, NothingStranded
<1>3. ASSUME NEW p \in Path, DropPending(p) PROVE
             \A q \in Path : pending'[q] \in {pending[q], NoWrite} /\ inFlight'[q] \in {inFlight[q], NoWrite}
  BY <1>3 DEF DropPending, FilesTyped
<1>4. ASSUME NEW p \in Path, Save(p) PROVE DrainInv'
  <2>1. Counted /\ DropPending(p) /\ UNCHANGED <<busy, retrying, timer, chain, drain, batch, open, taken>>
    BY <1>1, <1>4 DEF Save, Misread, Failing, Counted, logVars
  <2> QED
    BY <1>1, <1>3, <2>1, QueueStays
<1>5. ASSUME NEW p \in Path, SaveFails(p) PROVE DrainInv'
  <2>1. Counted /\ DropPending(p) /\ UNCHANGED <<busy, retrying, timer, chain, drain, batch, open, taken>>
    BY <1>1, <1>5 DEF SaveFails, Counted, logVars
  <2> QED
    BY <1>1, <1>3, <2>1, QueueStays
<1>6. ASSUME NEW p \in Path, Delete(p) \/ ForeignDelete(p) PROVE DrainInv'
  <2>1. /\ Counted /\ busy' \subseteq Path
        /\ DropPending(p) \/ UNCHANGED <<pending, inFlight>>
        /\ UNCHANGED <<retrying, timer, chain, drain, batch, open, taken>>
    BY <1>1, <1>6 DEF Delete, ForeignDelete, Removed, Counted, logVars
  <2> QED
    BY <1>3, <2>1, QueueStays
<1>7. ASSUME NEW l \in Log, ScheduleAppend(l) PROVE DrainInv'
  <2>1. Counted /\ timer' = TRUE /\ UNCHANGED <<busy, inFlight, retrying, chain, drain, batch, taken>>
    BY <1>1, <1>7 DEF ScheduleAppend, Arm, Counted
  <2>2. QueueTyped'
    BY <1>1, <2>1 DEF QueueTyped, Counted
  <2> QED
    BY <2>1, <2>2 DEF DrainInv, NothingStranded
<1>8. ASSUME NEW l \in Log, ReadLog(l) \/ DeleteLog(l) \/ \E m \in Log : MoveLog(l, m)
      PROVE  DrainInv'
  <2>1. /\ Counted /\ UNCHANGED <<busy, pending, inFlight, retrying, timer, chain, drain, batch>>
        /\ open' = [open EXCEPT ![l] = << >>] /\ taken' = [taken EXCEPT ![l] = << >>]
    BY <1>1, <1>8 DEF ReadLog, DeleteLog, MoveLog, DropAppends, Failing, Counted, queueVars, pastVars
  <2>2. \A k \in Log : (open[k] = << >> => open'[k] = << >>) /\ (taken[k] = << >> => taken'[k] = << >>)
    BY <2>1 DEF LinesTyped
  <2> QED
    BY <1>1, <2>1, <2>2, QueueStays
<1>9. ASSUME FlushSync
      PROVE  /\ Counted /\ busy' = busy
             /\ pending' = [p \in Path |-> NoWrite] /\ inFlight' = [p \in Path |-> NoWrite]
             /\ open' = [l \in Log |-> << >>] /\ taken' = [l \in Log |-> << >>]
  BY <1>1, <1>9 DEF FlushSync, Failing, Counted
<1>10. ASSUME Close PROVE DrainInv'
  BY <1>1, <1>9, <1>10, QueueStays DEF Close
<1>11. ASSUME Exit \/ Crash PROVE DrainInv'
  <2>1. /\ Counted /\ busy' = busy /\ NewProcess
        /\ pending' = [p \in Path |-> NoWrite] /\ inFlight' = [p \in Path |-> NoWrite]
        /\ open' = [l \in Log |-> << >>] /\ taken' = [l \in Log |-> << >>]
    BY <1>1, <1>9, <1>11 DEF Exit, Crash, Counted
  <2>2. /\ Idle \in [phase : {"idle", "loop", "temp", "sleep"}, at : Path \cup {Gone}, tries : 0..Tries]
        /\ Idle.phase # "temp" /\ 0 \in 0..MaxChain
    BY DEF Idle
  <2>3. QueueTyped'
    BY <1>1, <2>1, <2>2 DEF QueueTyped, Counted, NewProcess
  <2> QED
    BY <2>1, <2>2, <2>3 DEF DrainInv, NothingStranded, NewProcess
<1>12. ASSUME FlushWrites PROVE DrainInv'
  <2>1. /\ timer' = FALSE /\ retrying' = {} /\ chain' = chain + 1 /\ chain < MaxChain /\ chain' > 0
        /\ UNCHANGED <<busy, pending, inFlight, drain, batch, open, taken, jams, losses, deletes>>
    BY <1>1, <1>12 DEF FlushWrites, logVars, pastVars
  <2>2. chain' \in 0..MaxChain
    BY <1>1, <2>1
  <2>3. QueueTyped'
    BY <1>1, <2>1, <2>2 DEF QueueTyped
  <2> QED
    BY <2>1, <2>3 DEF DrainInv, NothingStranded
<1>13. ASSUME Take PROVE DrainInv'
  <2>1. /\ chain > 0 /\ drain' = Loop /\ batch' = {p \in Path : pending[p] # NoWrite}
        /\ inFlight' = [p \in Path |-> IF pending[p] # NoWrite THEN pending[p] ELSE inFlight[p]]
        /\ pending' = [p \in Path |-> NoWrite] /\ open' = [l \in Log |-> << >>]
        /\ drain = Idle /\ UNCHANGED <<busy, retrying, timer, chain, jams, losses, deletes>>
    BY <1>13 DEF Take, pastVars
  <2>2. Loop # Idle /\ Loop.phase # "temp"
        /\ Loop \in [phase : {"idle", "loop", "temp", "sleep"}, at : Path \cup {Gone}, tries : 0..Tries]
    BY DEF Loop, Idle
  <2>3. \A p \in Path : inFlight[p] = NoWrite
    BY <2>1 DEF DrainInv, NothingStranded
  <2>4. QueueTyped'
    BY <1>1, <2>1, <2>2 DEF QueueTyped
  <2> QED
    BY <2>1, <2>2, <2>3, <2>4 DEF DrainInv, NothingStranded
<1>14. ASSUME FlushEnds PROVE DrainInv'
  <2>1. /\ chain > 0 /\ drain = Idle /\ ~ HasWork /\ chain' = chain - 1 /\ chain' \in 0..MaxChain
        /\ UNCHANGED <<busy, pending, inFlight, retrying, timer, drain, batch, open, taken, jams, losses, deletes>>
    BY <1>1, <1>14 DEF FlushEnds, logVars, pastVars
  <2>2. QueueTyped'
    BY <1>1, <2>1 DEF QueueTyped
  <2>3. Idle.phase # "temp"
    BY DEF Idle
  <2> QED
    BY <2>1, <2>2, <2>3 DEF DrainInv, NothingStranded, HasWork
<1>15. ASSUME NEW p \in Path, (drain = Loop /\ p \in batch) \/ (drain.phase \in {"temp", "sleep"} /\ drain.at = p)
       PROVE  drain # Idle
  BY <1>15 DEF Loop, Idle
<1>16. ASSUME NEW p \in Path, Superseded(p) \/ Rename(p) \/ WriteMerged(p) \/ WriteFails(p) PROVE DrainInv'
  <2>1. /\ drain # Idle /\ Passed(p) /\ Counted
        /\ UNCHANGED <<busy, pending, retrying, timer, chain, open, taken>>
    BY <1>1, <1>15, <1>16 DEF Superseded, Rename, WriteMerged, WriteFails, AtMerges, Counted, logVars, pastVars
  <2> QED
    BY <1>1, <2>1, QueuePassed
<1>17. ASSUME NEW p \in Path, PutBack(p) PROVE DrainInv'
  <2>1. /\ drain # Idle /\ Passed(p) /\ Counted /\ timer' = TRUE /\ retrying' = retrying \cup {p}
        /\ UNCHANGED <<busy, chain, open, taken>>
    BY <1>1, <1>15, <1>17 DEF PutBack, AtMerges, Arm, Counted, logVars, pastVars
  <2> QED
    BY <1>1, <2>1, QueuePassed
<1>18. ASSUME NEW p \in Path, WriteTemp(p) PROVE DrainInv'
  <2> DEFINE next == [phase |-> "temp", at |-> p, tries |-> 0]
  <2>1. /\ drain = Loop /\ p \in batch /\ Blind(inFlight[p]) /\ drain' = next
        /\ UNCHANGED <<busy, pending, inFlight, retrying, timer, chain, batch, open, taken, jams, losses, deletes>>
    BY <1>18 DEF WriteTemp, logVars, pastVars
  <2>2. /\ next.at = p /\ next # Idle /\ drain # Idle
        /\ next \in [phase : {"idle", "loop", "temp", "sleep"}, at : Path \cup {Gone}, tries : 0..Tries]
    BY <1>15, <2>1 DEF Idle
  <2> HIDE DEF next
  <2>3. QueueTyped'
    BY <1>1, <2>1, <2>2 DEF QueueTyped
  <2> QED
    BY <2>1, <2>2, <2>3 DEF DrainInv, NothingStranded
<1>19. ASSUME NEW p \in Path, Sleep(p) PROVE DrainInv'
  <2> DEFINE next == [phase |-> "sleep", at |-> p, tries |-> drain.tries + 1]
  <2>1. /\ drain # Idle /\ drain.tries < Tries /\ drain' = next
        /\ UNCHANGED <<busy, pending, inFlight, retrying, timer, chain, batch, open, taken, jams, losses, deletes>>
    BY <1>15, <1>19 DEF Sleep, AtMerges, logVars, pastVars
  <2>2. drain.tries + 1 \in 0..Tries
    BY <1>1, <2>1
  <2>3. /\ next.phase = "sleep" /\ next # Idle
        /\ next \in [phase : {"idle", "loop", "temp", "sleep"}, at : Path \cup {Gone}, tries : 0..Tries]
    BY <2>2 DEF Idle
  <2> HIDE DEF next
  <2>4. QueueTyped'
    BY <1>1, <2>1, <2>3 DEF QueueTyped
  <2> QED
    BY <2>1, <2>3, <2>4 DEF DrainInv, NothingStranded
<1>20. ASSUME WriteAppends PROVE DrainInv'
  <2>1. /\ batch = {} /\ Counted /\ taken' = [l \in Log |-> << >>] /\ drain' = Idle
        /\ UNCHANGED <<busy, pending, inFlight, retrying, timer, chain, batch, open>>
    BY <1>1, <1>20 DEF WriteAppends, Failing, Counted
  <2>2. Idle.phase # "temp"
        /\ Idle \in [phase : {"idle", "loop", "temp", "sleep"}, at : Path \cup {Gone}, tries : 0..Tries]
    BY DEF Idle
  <2>3. QueueTyped'
    BY <1>1, <2>1, <2>2 DEF QueueTyped, Counted
  <2> QED
    BY <2>1, <2>2, <2>3 DEF DrainInv, NothingStranded
<1>21. ASSUME NEW p \in Path, ForeignWrite(p) PROVE DrainInv'
  <2>1. Counted /\ UNCHANGED <<busy, pending, inFlight, retrying, timer, chain, drain, batch, open, taken>>
    BY <1>1, <1>21 DEF ForeignWrite, Counted, queueVars, logVars
  <2> QED
    BY <1>1, <2>1, QueueStays
<1>22. ASSUME NEW p \in Path, Jam(p) \/ Unjam(p) PROVE DrainInv'
  <2>1. Counted /\ busy' \subseteq Path /\ UNCHANGED <<pending, inFlight, retrying, timer, chain, drain, batch, open, taken>>
    BY <1>1, <1>22 DEF Jam, Unjam, Counted, queueVars, logVars, pastVars
  <2> QED
    BY <2>1, QueueStays
<1>23. CASE Calls
  BY <1>2, <1>4, <1>5, <1>6, <1>7, <1>8, <1>10, <1>11, <1>23 DEF Calls
<1>24. CASE Drain
  BY <1>12, <1>13, <1>14, <1>16, <1>17, <1>18, <1>19, <1>20, <1>24 DEF Drain, WriteFile
<1>25. CASE World
  BY <1>6, <1>11, <1>16, <1>21, <1>22, <1>25 DEF World
<1> QED
  BY <1>23, <1>24, <1>25 DEF WriterNext

-----------------------------------------------------------------------------
(* The logs: the inductive invariant and the operations on one *)

Rising(t) == \A i, j \in 1..Len(t) : i < j => t[i] < t[j]

Lines(lg) == IF lg = Gone THEN << >> ELSE lg

\* The lines on the disk and those still queued, of a log that is owed D.
LogOK(lines, rest, D) ==
  /\ Rising(lines \o rest)
  /\ \/ Changes(lines \o rest) = D
     \/ /\ Len(lines) >= (KeepLines + 2) \div 2
        /\ Changes(lines \o rest) = {n \in D : n >= (lines \o rest)[1]}

LogsTyped ==
  /\ live \subseteq Log /\ log \in [Log -> Text \cup {Gone}]
  /\ due \in [Log -> SUBSET (1..MaxChanges)]

LogInv(l) ==
  IF l \in live
  THEN LogOK(Lines(log[l]), taken[l] \o open[l], due[l]) /\ due[l] \subseteq 1..made
  ELSE log[l] = Gone /\ taken[l] = << >> /\ open[l] = << >> /\ due[l] = {}

LogsInv == LogsTyped /\ LinesTyped /\ \A l \in Log : LogInv(l)

LEMMA RisingJoined ==
  ASSUME NEW t \in Text, NEW u \in Text
  PROVE  Rising(t \o u) <=> /\ Rising(t) /\ Rising(u)
                            /\ \A x \in Changes(t), y \in Changes(u) : x < y
<1>1. /\ Len(t) \in Nat /\ Len(u) \in Nat /\ Len(t \o u) = Len(t) + Len(u)
      /\ \A i \in 1..Len(t) : (t \o u)[i] = t[i]
      /\ \A i \in 1..Len(u) : (t \o u)[Len(t) + i] = u[i]
      /\ Changes(t) = {t[i] : i \in 1..Len(t)} /\ Changes(u) = {u[i] : i \in 1..Len(u)}
  BY TextIs, Joined
<1>2. ASSUME Rising(t \o u) PROVE Rising(t) /\ Rising(u) /\ \A x \in Changes(t), y \in Changes(u) : x < y
  <2>1. Rising(t)
    <3> SUFFICES ASSUME NEW i \in 1..Len(t), NEW j \in 1..Len(t), i < j PROVE t[i] < t[j]
      BY DEF Rising
    <3>1. i \in 1..Len(t \o u) /\ j \in 1..Len(t \o u)
      BY <1>1
    <3> QED
      BY <1>1, <1>2, <3>1 DEF Rising
  <2>2. Rising(u)
    <3> SUFFICES ASSUME NEW i \in 1..Len(u), NEW j \in 1..Len(u), i < j PROVE u[i] < u[j]
      BY DEF Rising
    <3>1. Len(t) + i \in 1..Len(t \o u) /\ Len(t) + j \in 1..Len(t \o u) /\ Len(t) + i < Len(t) + j
      BY <1>1
    <3> QED
      BY <1>1, <1>2, <3>1 DEF Rising
  <2>3. ASSUME NEW i \in 1..Len(t), NEW j \in 1..Len(u) PROVE t[i] < u[j]
    <3>1. i \in 1..Len(t \o u) /\ Len(t) + j \in 1..Len(t \o u) /\ i < Len(t) + j
      BY <1>1
    <3> QED
      BY <1>1, <1>2, <3>1 DEF Rising
  <2> QED
    BY <1>1, <2>1, <2>2, <2>3
<1>3. ASSUME Rising(t), Rising(u), \A x \in Changes(t), y \in Changes(u) : x < y PROVE Rising(t \o u)
  <2> SUFFICES ASSUME NEW i \in 1..Len(t \o u), NEW j \in 1..Len(t \o u), i < j
               PROVE  (t \o u)[i] < (t \o u)[j]
    BY DEF Rising
  <2>1. CASE j <= Len(t)
    <3>1. i \in 1..Len(t) /\ j \in 1..Len(t)
      BY <1>1, <2>1
    <3> QED
      BY <1>1, <1>3, <3>1 DEF Rising
  <2>2. CASE i > Len(t)
    <3>1. /\ i - Len(t) \in 1..Len(u) /\ j - Len(t) \in 1..Len(u) /\ i - Len(t) < j - Len(t)
          /\ i = Len(t) + (i - Len(t)) /\ j = Len(t) + (j - Len(t))
      BY <1>1, <2>2
    <3> QED
      BY <1>1, <1>3, <3>1 DEF Rising
  <2>3. CASE i <= Len(t) /\ j > Len(t)
    <3>1. i \in 1..Len(t) /\ j - Len(t) \in 1..Len(u) /\ j = Len(t) + (j - Len(t))
      BY <1>1, <2>3
    <3> QED
      BY <1>1, <1>3, <3>1
  <2> QED
    BY <1>1, <2>1, <2>2, <2>3
<1> QED
  BY <1>2, <1>3

\* Trimming keeps the newest half of what is on the disk.
LEMMA TrimOK ==
  ASSUME NEW lines \in Text, NEW rest \in Text, NEW D \in SUBSET Nat, LogOK(lines, rest, D)
  PROVE  TrimLog(lines) \in Text /\ LogOK(TrimLog(lines), rest, D)
<1>1. CASE Len(lines) <= KeepLines
  <2>1. TrimLog(lines) = lines
    BY <1>1, TextIs, WriterAssumption DEF TrimLog
  <2> QED
    BY <2>1
<1>2. CASE Len(lines) > KeepLines
  <2> DEFINE n == Len(lines)
             k == n \div 2
             half == SubSeq(lines, k + 1, n)
             all == lines \o rest
             now == half \o rest
  <2>1. n \in Nat /\ n > KeepLines /\ KeepLines \in Nat /\ Len(rest) \in Nat
    BY <1>2, TextIs, WriterAssumption
  <2>2. k \in Nat /\ k < n /\ n - k >= (KeepLines + 2) \div 2
    BY <2>1
  <2>3. TrimLog(lines) = half
    BY <2>1 DEF TrimLog
  <2> HIDE DEF k
  <2>4. half \in Text /\ Len(half) = n - k /\ \A i \in 1..n - k : half[i] = lines[k + i]
    <3>1. \A i \in k + 1..n : lines[i] \in 1..MaxChanges
      <4>1. \A i \in 1..n : lines[i] \in 1..MaxChanges
        BY ElementOfSeq DEF Text
      <4>2. \A i \in k + 1..n : i \in 1..n
        BY <2>1, <2>2
      <4> QED
        BY <4>1, <4>2
    <3>2. /\ half \in Seq(1..MaxChanges) /\ Len(half) = n - (k + 1) + 1
          /\ \A i \in 1..n - (k + 1) + 1 : half[i] = lines[k + 1 + i - 1]
      BY <2>1, <2>2, <3>1, SubSeqProperties
    <3>3. n - (k + 1) + 1 = n - k /\ \A i \in 1..n - k : k + 1 + i - 1 = k + i
      BY <2>1, <2>2
    <3> QED
      BY <3>2, <3>3 DEF Text
  <2> HIDE DEF half
  <2>5. /\ all \in Text /\ Len(all) = n + Len(rest) /\ now \in Text /\ Len(now) = n - k + Len(rest)
        /\ \A i \in 1..n : all[i] = lines[i]
        /\ \A i \in 1..Len(rest) : all[n + i] = rest[i] /\ now[n - k + i] = rest[i]
        /\ \A i \in 1..n - k : now[i] = half[i]
    <3>1. /\ all \in Text /\ Len(all) = n + Len(rest) /\ \A i \in 1..n : all[i] = lines[i]
          /\ \A i \in 1..Len(rest) : all[n + i] = rest[i]
      BY Joined
    <3>2. /\ now \in Text /\ Len(now) = n - k + Len(rest) /\ \A i \in 1..n - k : now[i] = half[i]
          /\ \A i \in 1..Len(rest) : now[n - k + i] = rest[i]
      <4>1. /\ now \in Text /\ Len(now) = Len(half) + Len(rest) /\ \A i \in 1..Len(half) : now[i] = half[i]
            /\ \A i \in 1..Len(rest) : now[Len(half) + i] = rest[i]
        BY <2>4, Joined
      <4> HIDE DEF now, n
      <4> QED
        BY <2>4, <4>1
    <3> QED
      BY <3>1, <3>2
  <2>6. /\ Rising(all) /\ Changes(all) = {all[i] : i \in 1..Len(all)} /\ Changes(all) \subseteq 1..MaxChanges
        /\ Changes(now) = {now[i] : i \in 1..Len(now)}
        /\ Changes(all) = D \/ Changes(all) = {x \in D : x >= all[1]}
    BY <2>5, TextIs DEF LogOK
  <2> HIDE DEF all, now
  <2>7. \A i \in 1..Len(now) : k + i \in 1..Len(all) /\ now[i] = all[k + i]
    <3> SUFFICES ASSUME NEW i \in 1..Len(now) PROVE k + i \in 1..Len(all) /\ now[i] = all[k + i]
      OBVIOUS
    <3>1. CASE i <= n - k
      <4>1. i \in 1..n - k /\ k + i \in 1..n /\ k + i \in 1..Len(all)
        BY <2>1, <2>2, <2>5, <3>1
      <4> QED
        BY <2>4, <2>5, <4>1
    <3>2. CASE i > n - k
      <4>1. i - (n - k) \in 1..Len(rest) /\ i = n - k + (i - (n - k)) /\ k + i = n + (i - (n - k))
            /\ k + i \in 1..Len(all)
        BY <2>1, <2>2, <2>5, <3>2
      <4> QED
        BY <2>5, <4>1
    <3> QED
      BY <2>1, <2>2, <2>5, <3>1, <3>2
  <2>8. Rising(now)
    <3> SUFFICES ASSUME NEW i \in 1..Len(now), NEW j \in 1..Len(now), i < j PROVE now[i] < now[j]
      BY DEF Rising
    <3>1. k + i < k + j
      BY <2>2, <2>5
    <3> QED
      BY <2>6, <2>7, <3>1 DEF Rising
  <2>9. 1 \in 1..Len(now) /\ now[1] = all[k + 1] /\ k + 1 \in 1..Len(all) /\ 1 \in 1..Len(all)
    <3>1. 1 \in 1..Len(now)
      BY <2>1, <2>2, <2>5
    <3>2. k + 1 \in 1..Len(all) /\ now[1] = all[k + 1]
      BY <2>7, <3>1
    <3>3. 1 \in 1..Len(all)
      BY <2>1, <2>2, <2>5
    <3> QED
      BY <3>1, <3>2, <3>3
  <2>10. \A i \in 1..Len(all) : all[i] \in 1..MaxChanges /\ all[i] \in D
    BY <2>6
  <2>11. ASSUME NEW x \in D, x >= now[1] PROVE x \in Changes(now)
    <3>1. all[1] <= now[1] /\ all[1] \in Nat /\ now[1] \in Nat /\ x \in Nat
      <4>1. all[1] \in Nat /\ all[k + 1] \in Nat /\ x \in Nat
        BY <2>9, <2>10
      <4>2. CASE k = 0
        BY <2>9, <4>1, <4>2
      <4>3. CASE k # 0
        <5>1. 1 < k + 1
          BY <2>2, <4>3
        <5>2. all[1] < all[k + 1]
          BY <2>6, <2>9, <5>1 DEF Rising
        <5> QED
          BY <2>9, <4>1, <5>2
      <4> QED
        BY <4>2, <4>3
    <3>2. x \in Changes(all)
      BY <2>6, <2>11, <3>1
    <3>3. PICK j \in 1..Len(all) : x = all[j]
      BY <2>6, <3>2
    <3>4. j >= k + 1
      <4> SUFFICES ASSUME j < k + 1 PROVE FALSE
        BY <2>2, <2>5
      <4>1. all[j] < all[k + 1]
        BY <2>6, <2>9 DEF Rising
      <4> QED
        BY <2>9, <2>11, <3>1, <3>3, <4>1
    <3>5. j - k \in 1..Len(now) /\ k + (j - k) = j
      BY <2>1, <2>2, <2>5, <3>4
    <3>6. now[j - k] = x
      BY <2>7, <3>3, <3>5
    <3> QED
      BY <2>6, <3>5, <3>6
  <2>12. ASSUME NEW x \in Changes(now) PROVE x \in D /\ x >= now[1]
    <3>1. PICK i \in 1..Len(now) : x = now[i]
      BY <2>6
    <3>2. x \in D /\ x \in Nat /\ now[1] \in Nat
      BY <2>7, <2>9, <2>10, <3>1
    <3>3. i = 1 \/ 1 < i
      BY <2>5
    <3>4. i = 1 \/ now[1] < now[i]
      BY <2>8, <2>9, <3>3 DEF Rising
    <3> QED
      BY <3>1, <3>2, <3>4
  <2>13. Changes(now) = {x \in D : x >= now[1]}
    BY <2>11, <2>12
  <2> QED
    BY <2>2, <2>3, <2>4, <2>8, <2>13 DEF LogOK, now
<1> QED
  BY <1>1, <1>2, TextIs, WriterAssumption

\* Lines that move from the queue to the disk, before any is trimmed.
LEMMA MoveOK ==
  ASSUME NEW lines \in Text, NEW a \in Text, NEW b \in Text, NEW D, LogOK(lines, a \o b, D)
  PROVE  LogOK(lines \o a, b, D)
<1> DEFINE more == lines \o a
           all == lines \o (a \o b)
           half == (KeepLines + 2) \div 2
<1> SUFFICES LogOK(more, b, D)
  OBVIOUS
<1>1. all = more \o b
  BY JoinedTwice
<1>2. more \in Text /\ Len(more) = Len(lines) + Len(a) /\ Len(lines) \in Nat /\ Len(a) \in Nat
  BY Joined, TextIs
<1>3. half \in Nat
  BY WriterAssumption
<1>4. /\ Rising(all)
      /\ Changes(all) = D \/ (Len(lines) >= half /\ Changes(all) = {n \in D : n >= all[1]})
  BY DEF LogOK
<1> HIDE DEF more, all, half
<1>5. Len(lines) >= half => Len(more) >= half
  BY <1>2, <1>3
<1> QED
  BY <1>1, <1>4, <1>5 DEF LogOK, half

LEMMA LinesIs ==
  ASSUME NEW lg \in Text \cup {Gone}
  PROVE  Lines(lg) \in Text /\ (lg # Gone => Lines(lg) = lg)
  BY NoText DEF Lines

LEMMA WriteAppendOK ==
  ASSUME NEW lg \in Text \cup {Gone}, NEW a \in Text, NEW b \in Text, NEW D \in SUBSET Nat,
         LogOK(Lines(lg), a \o b, D)
  PROVE  WriteAppend(lg, a) \in Text \cup {Gone} /\ LogOK(Lines(WriteAppend(lg, a)), b, D)
<1>1. CASE a = << >>
  <2>1. a \o b = b /\ WriteAppend(lg, a) = lg
    BY <1>1, ConcatEmptySeq DEF WriteAppend, Text
  <2> QED
    BY <2>1
<1>2. CASE a # << >>
  <2>1. Lines(lg) \in Text /\ Lines(lg) \o a \in Text /\ WriteAppend(lg, a) = TrimLog(Lines(lg) \o a)
    BY <1>2, LinesIs, Joined DEF WriteAppend, Lines
  <2>2. LogOK(Lines(lg) \o a, b, D)
    BY <2>1, MoveOK
  <2>3. WriteAppend(lg, a) \in Text /\ LogOK(WriteAppend(lg, a), b, D)
    BY <2>1, <2>2, TrimOK
  <2> QED
    BY <2>3, TextIs, LinesIs
<1> QED
  BY <1>1, <1>2

\* Queued lines that are lost with a failure.
LEMMA LoseOK ==
  ASSUME NEW lines \in Text, NEW a \in Text, NEW b \in Text, NEW D, LogOK(lines, a \o b, D)
  PROVE  LogOK(lines, b, D \ Changes(a))
<1> DEFINE all == lines \o (a \o b)
           now == lines \o b
<1>1. a \o b \in Text /\ Changes(a \o b) = Changes(a) \cup Changes(b)
      /\ Changes(all) = Changes(lines) \cup Changes(a \o b) /\ Changes(now) = Changes(lines) \cup Changes(b)
  BY Joined
<1>2. Rising(all)
  BY DEF LogOK
<1>3. /\ Rising(lines) /\ Rising(a \o b) /\ Rising(b)
      /\ \A x \in Changes(lines), y \in Changes(a \o b) : x < y
      /\ \A x \in Changes(a), y \in Changes(b) : x < y
  <2>1. /\ Rising(lines) /\ Rising(a \o b)
        /\ \A x \in Changes(lines), y \in Changes(a \o b) : x < y
    BY <1>1, <1>2, RisingJoined
  <2> QED
    BY <2>1, RisingJoined
<1>4. Rising(now)
  BY <1>1, <1>3, RisingJoined
<1>5. Changes(lines) \subseteq Nat /\ Changes(a) \subseteq Nat /\ Changes(b) \subseteq Nat
  BY TextIs
<1>6. Changes(lines) \cap Changes(a) = {} /\ Changes(b) \cap Changes(a) = {}
  BY <1>1, <1>3, <1>5
<1>7. Changes(now) = Changes(all) \ Changes(a)
  BY <1>1, <1>6
<1>8. CASE Changes(all) = D
  BY <1>4, <1>7, <1>8 DEF LogOK
<1>9. CASE Len(lines) >= (KeepLines + 2) \div 2 /\ Changes(all) = {n \in D : n >= all[1]}
  <2>1. 1 \in 1..Len(lines)
    <3>1. (KeepLines + 2) \div 2 >= 1 /\ (KeepLines + 2) \div 2 \in Nat
      BY WriterAssumption
    <3> QED
      BY <1>9, <3>1, TextIs
  <2>2. all[1] = lines[1] /\ now[1] = lines[1]
    BY <1>1, <2>1, Joined
  <2> HIDE DEF all, now
  <2>3. Changes(now) = {n \in D \ Changes(a) : n >= now[1]}
    BY <1>7, <1>9, <2>2
  <2> QED
    BY <1>4, <1>9, <2>3 DEF LogOK, now
<1> QED
  BY <1>8, <1>9 DEF LogOK

\* One more line said.
LEMMA SayOK ==
  ASSUME NEW lines \in Text, NEW rest \in Text, NEW n \in Nat, n + 1 \in 1..MaxChanges,
         NEW D \in SUBSET (1..n), LogOK(lines, rest, D)
  PROVE  LogOK(lines, rest \o <<n + 1>>, D \cup {n + 1})
<1> DEFINE c == n + 1
           all == lines \o rest
           one == <<c>>
           now == lines \o (rest \o one)
           half == (KeepLines + 2) \div 2
<1> SUFFICES LogOK(lines, rest \o one, D \cup {c})
  OBVIOUS
<1>1. c \in 1..MaxChanges /\ \A x \in D : x \in Nat /\ x < c
  OBVIOUS
<1>2. /\ Rising(all)
      /\ Changes(all) = D \/ (Len(lines) >= half /\ Changes(all) = {x \in D : x >= all[1]})
  BY DEF LogOK
<1> HIDE DEF c
<1>3. one \in Text /\ Changes(one) = {c} /\ Len(one) = 1
  BY <1>1, One
<1>4. Rising(one)
  BY <1>3 DEF Rising
<1> HIDE DEF one
<1>5. rest \o one \in Text
  BY <1>3, Joined
<1>6. all \in Text /\ now \in Text /\ now = all \o one
  <2>1. all \in Text
    BY Joined
  <2>2. now \in Text
    BY <1>5, Joined
  <2>3. now = all \o one
    BY <1>3, JoinedTwice
  <2> QED
    BY <2>1, <2>2, <2>3
<1>7. 1 \in 1..Len(lines) => all[1] = lines[1] /\ now[1] = lines[1] /\ all[1] \in Changes(all)
  <2>1. Changes(all) = Changes(lines) \cup Changes(rest)
    BY Joined
  <2>2. 1 \in 1..Len(lines) => all[1] = lines[1] /\ now[1] = lines[1]
    BY <1>5, Joined
  <2>3. 1 \in 1..Len(lines) => lines[1] \in Changes(lines)
    BY TextIs
  <2> QED
    BY <2>1, <2>2, <2>3
<1>8. half \in Nat /\ half >= 1
  BY WriterAssumption
<1> HIDE DEF all, half
<1>9. Changes(now) = Changes(all) \cup {c}
  BY <1>3, <1>6, Joined
<1>10. Changes(all) \subseteq D
  BY <1>2
<1>11. Rising(now)
  <2>1. \A x \in Changes(all), y \in Changes(one) : x < y
    BY <1>1, <1>3, <1>10
  <2> QED
    BY <1>2, <1>3, <1>4, <1>6, <2>1, RisingJoined
<1>12. CASE Changes(all) = D
  BY <1>9, <1>11, <1>12 DEF LogOK
<1>13. CASE Len(lines) >= half /\ Changes(all) = {x \in D : x >= all[1]}
  <2>1. 1 \in 1..Len(lines)
    BY <1>8, <1>13, TextIs
  <2>2. all[1] = now[1] /\ now[1] \in D /\ now[1] \in Nat /\ now[1] < c
    BY <1>1, <1>7, <1>10, <2>1
  <2> HIDE DEF now
  <2>3. c \in Nat /\ c >= now[1]
    BY <1>1, <2>2
  <2>4. Changes(now) = {x \in D \cup {c} : x >= now[1]}
    BY <1>9, <1>13, <2>2, <2>3
  <2> QED
    BY <1>11, <1>13, <2>4 DEF LogOK, now, half
<1> QED
  BY <1>2, <1>12, <1>13

-----------------------------------------------------------------------------
(* The logs: the steps *)

LEMMA LogsStay ==
  ASSUME LogsInv, made \in 0..MaxChanges, made' \in made..MaxChanges, UNCHANGED logVars
  PROVE  LogsInv'
<1>1. 1..made \subseteq 1..made'
  OBVIOUS
<1>2. LogsTyped' /\ LinesTyped'
  BY DEF LogsInv, LogsTyped, LinesTyped, logVars
<1>3. \A l \in Log : LogInv(l)'
  BY <1>1 DEF LogsInv, LogInv, logVars
<1> QED
  BY <1>2, <1>3 DEF LogsInv

\* What a log and its queue are, one log at a time.
LEMMA LogIs ==
  ASSUME LogsInv, NEW l \in Log
  PROVE  /\ log[l] \in Text \cup {Gone} /\ Lines(log[l]) \in Text
         /\ taken[l] \in Text /\ open[l] \in Text /\ taken[l] \o open[l] \in Text
         /\ due[l] \in SUBSET Nat
  BY LinesIs, Joined DEF LogsInv, LogsTyped, LinesTyped

\* One job of a log is written, or is lost.
LEMMA PutOK ==
  ASSUME NEW lg \in Text \cup {Gone}, NEW a \in Text, NEW b \in Text, NEW D \in SUBSET Nat,
         LogOK(Lines(lg), a \o b, D), NEW lost
  PROVE  /\ Put(lg, a, lost) \in Text \cup {Gone}
         /\ LogOK(Lines(Put(lg, a, lost)), b, IF a \in lost THEN D \ Changes(a) ELSE D)
<1>1. Lines(lg) \in Text
  BY LinesIs
<1>2. CASE a \in lost
  BY <1>1, <1>2, LoseOK DEF Put
<1>3. CASE a \notin lost
  BY <1>3, WriteAppendOK DEF Put
<1> QED
  BY <1>2, <1>3

\* Writing everything queued for a log leaves it whole, but for jobs that are lost.
LEMMA FlushedIs ==
  ASSUME LogsInv, NEW l \in Log, NEW lost
  PROVE  /\ FlushedLog(l, lost) \in Text \cup {Gone} /\ StillDue(l, lost) \subseteq due[l]
         /\ l \in live => LogOK(Lines(FlushedLog(l, lost)), << >>, StillDue(l, lost))
         /\ l \notin live => FlushedLog(l, lost) = Gone
<1>1. /\ log[l] \in Text \cup {Gone} /\ taken[l] \in Text /\ open[l] \in Text /\ << >> \in Text
      /\ open[l] \o << >> = open[l] /\ due[l] \in SUBSET Nat
  BY LogIs, NoText, ConcatEmptySeq DEF Text
<1> DEFINE half == Put(log[l], taken[l], lost)
           whole == Put(half, open[l], lost)
           D == IF taken[l] \in lost THEN due[l] \ Changes(taken[l]) ELSE due[l]
           E == IF open[l] \in lost THEN D \ Changes(open[l]) ELSE D
<1>2. FlushedLog(l, lost) = whole
  BY DEF FlushedLog
<1>3. StillDue(l, lost) = E /\ E \subseteq due[l]
  BY NoText DEF StillDue, Jobs
<1>4. CASE l \in live
  <2>1. LogOK(Lines(log[l]), taken[l] \o open[l], due[l])
    BY <1>4 DEF LogsInv, LogInv
  <2>2. half \in Text \cup {Gone} /\ LogOK(Lines(half), open[l], D)
    BY <1>1, <2>1, PutOK
  <2>3. D \in SUBSET Nat
    BY <1>1
  <2> HIDE DEF half, D
  <2>4. LogOK(Lines(half), open[l] \o << >>, D)
    BY <1>1, <2>2
  <2>5. whole \in Text \cup {Gone} /\ LogOK(Lines(whole), << >>, E)
    <3>1. PICK lg, F, job, empty : lg = half /\ F = D /\ job = open[l] /\ empty = << >>
      OBVIOUS
    <3>2. lg \in Text \cup {Gone} /\ F \in SUBSET Nat /\ job \in Text /\ empty \in Text
      BY <1>1, <2>2, <2>3, <3>1
    <3>3. LogOK(Lines(lg), job \o empty, F)
      BY <2>4, <3>1
    <3>4. /\ Put(lg, job, lost) \in Text \cup {Gone}
          /\ LogOK(Lines(Put(lg, job, lost)), empty, IF job \in lost THEN F \ Changes(job) ELSE F)
      BY <3>2, <3>3, PutOK
    <3> QED
      BY <3>1, <3>4
  <2> HIDE DEF whole, E
  <2> QED
    BY <1>2, <1>3, <1>4, <2>5
<1>5. CASE l \notin live
  <2>1. FlushedLog(l, lost) = Gone
    BY <1>5 DEF LogsInv, LogInv, FlushedLog, Put, WriteAppend
  <2> QED
    BY <1>3, <1>5, <2>1
<1> QED
  BY <1>4, <1>5

\* A line is given the next number.
LEMMA ScheduleAppendLogs ==
  ASSUME LogsInv, made \in 0..MaxChanges, NEW l \in Log, ScheduleAppend(l)
  PROVE  LogsInv'
<1> DEFINE c == made + 1
<1>1. /\ l \in live /\ made' = c /\ c \in 1..MaxChanges /\ made \in Nat /\ 1..made \subseteq 1..c /\ c \in 1..c
      /\ open' = [open EXCEPT ![l] = Append(@, c)] /\ due' = [due EXCEPT ![l] = @ \cup {c}]
      /\ UNCHANGED <<taken, live, log>>
  <2>1. made \in Nat /\ made < MaxChanges => c \in 1..MaxChanges /\ 1..made \subseteq 1..c /\ c \in 1..c
    BY WriterAssumption
  <2> QED
    BY <2>1 DEF ScheduleAppend
<1>2. /\ open[l] \in Text /\ taken[l] \in Text /\ Lines(log[l]) \in Text /\ taken[l] \o open[l] \in Text
  BY LogIs
<1> DEFINE one == <<c>>
<1>3. one \in Text
  BY <1>1, One
<1>4. Append(open[l], c) = open[l] \o one /\ open[l] \o one \in Text
  <2>1. Onto(open[l], c) = Append(open[l], c) /\ Onto(open[l], c) = open[l] \o one
    BY <1>1, <1>2, OntoIs, TextIs DEF Onto
  <2> QED
    BY <1>2, <1>3, <2>1, Joined
<1>5. LogOK(Lines(log[l]), taken[l] \o open[l], due[l]) /\ due[l] \in SUBSET (1..made)
  BY <1>1 DEF LogsInv, LogInv
<1>6. LogOK(Lines(log[l]), (taken[l] \o open[l]) \o <<made + 1>>, due[l] \cup {made + 1})
  BY <1>1, <1>2, <1>5, SayOK
<1> HIDE DEF one
<1>7. taken[l] \o (open[l] \o one) = (taken[l] \o open[l]) \o one
  BY <1>2, <1>3, JoinedTwice
<1>8. LogOK(Lines(log[l]), taken[l] \o Append(open[l], c), due[l] \cup {c})
  BY <1>4, <1>6, <1>7 DEF one
<1> HIDE DEF c
<1>9. LogsTyped' /\ LinesTyped'
  BY <1>1, <1>4 DEF LogsInv, LogsTyped, LinesTyped
<1>10. open'[l] = Append(open[l], c) /\ due'[l] = due[l] \cup {c}
  BY <1>1 DEF LogsInv, LogsTyped, LinesTyped
<1>11. LogInv(l)'
  BY <1>1, <1>5, <1>8, <1>10 DEF LogInv
<1>12. ASSUME NEW k \in Log, k # l PROVE LogInv(k)'
  <2>1. open'[k] = open[k] /\ due'[k] = due[k]
    BY <1>1, <1>12 DEF LogsInv, LogsTyped, LinesTyped
  <2> QED
    BY <1>1, <2>1 DEF LogsInv, LogInv
<1> QED
  BY <1>9, <1>11, <1>12 DEF LogsInv

\* A log is written out or removed, its queue empty.
LEMMA WrittenLogs ==
  ASSUME LogsInv, NEW l \in Log, made' = made, DropAppends(l), live' \subseteq Log,
         log' \in [Log -> Text \cup {Gone}], due' \in [Log -> SUBSET (1..MaxChanges)],
         \A k \in Log \ {l} : log'[k] = log[k] /\ due'[k] = due[k] /\ (k \in live' <=> k \in live),
         NEW lost,
         IF l \in live' THEN l \in live /\ log'[l] = FlushedLog(l, lost) /\ due'[l] = StillDue(l, lost)
                        ELSE log'[l] = Gone /\ due'[l] = {}
  PROVE  LogsInv'
<1>1. /\ \A k \in Log \ {l} : open'[k] = open[k] /\ taken'[k] = taken[k]
      /\ open'[l] = << >> /\ taken'[l] = << >> /\ << >> \o << >> = << >>
      /\ open' \in [Log -> Text] /\ taken' \in [Log -> Text]
  BY NoText DEF LogsInv, LinesTyped, DropAppends
<1>2. LogInv(l)'
  <2>1. CASE l \in live'
    <3>1. LogOK(Lines(FlushedLog(l, lost)), << >>, StillDue(l, lost)) /\ StillDue(l, lost) \subseteq 1..made
      BY <2>1, FlushedIs DEF LogsInv, LogInv
    <3> QED
      BY <1>1, <2>1, <3>1 DEF LogInv
  <2>2. CASE l \notin live'
    BY <1>1, <2>2 DEF LogInv
  <2> QED
    BY <2>1, <2>2
<1>3. \A k \in Log \ {l} : LogInv(k)'
  BY <1>1 DEF LogsInv, LogInv
<1> QED
  BY <1>1, <1>2, <1>3 DEF LogsInv, LogsTyped, LinesTyped

LEMMA OneLogs ==
  ASSUME LogsInv, NEW l \in Log, ReadLog(l) \/ DeleteLog(l)
  PROVE  LogsInv'
<1>1. CASE ReadLog(l)
  <2>1. PICK lost : /\ log' = [log EXCEPT ![l] = FlushedLog(l, lost)]
                    /\ due' = [due EXCEPT ![l] = StillDue(l, lost)]
    BY <1>1 DEF ReadLog
  <2>2. DropAppends(l) /\ made' = made /\ live' = live /\ l \in live
    BY <1>1 DEF ReadLog, DropAppends
  <2>3. FlushedLog(l, lost) \in Text \cup {Gone} /\ StillDue(l, lost) \subseteq due[l]
    BY FlushedIs
  <2>4. /\ log' \in [Log -> Text \cup {Gone}] /\ log'[l] = FlushedLog(l, lost) /\ \A k \in Log \ {l} : log'[k] = log[k]
        /\ due' \in [Log -> SUBSET (1..MaxChanges)] /\ due'[l] = StillDue(l, lost)
        /\ \A k \in Log \ {l} : due'[k] = due[k]
    BY <2>1, <2>3 DEF LogsInv, LogsTyped
  <2> QED
    BY <2>2, <2>4, WrittenLogs DEF LogsInv, LogsTyped
<1>2. CASE DeleteLog(l)
  <2>1. /\ DropAppends(l) /\ made' = made /\ live' = live \ {l}
        /\ due' = [due EXCEPT ![l] = {}] /\ log' = [log EXCEPT ![l] = Gone]
    BY <1>2 DEF DeleteLog
  <2>2. /\ log' \in [Log -> Text \cup {Gone}] /\ log'[l] = Gone /\ \A k \in Log \ {l} : log'[k] = log[k]
        /\ due' \in [Log -> SUBSET (1..MaxChanges)] /\ due'[l] = {} /\ \A k \in Log \ {l} : due'[k] = due[k]
        /\ live' \subseteq Log /\ l \notin live' /\ \A k \in Log \ {l} : k \in live' <=> k \in live
    BY <2>1 DEF LogsInv, LogsTyped
  <2> QED
    BY <2>1, <2>2, WrittenLogs
<1> QED
  BY <1>1, <1>2

\* The lines go where the session goes.
LEMMA MoveLogs ==
  ASSUME LogsInv, NEW l \in Log, NEW m \in Log, MoveLog(l, m)
  PROVE  LogsInv'
<1>1. /\ l \in live /\ m \notin live /\ l # m /\ made' = made /\ live' = (live \ {l}) \cup {m}
      /\ open' = [open EXCEPT ![l] = << >>] /\ taken' = [taken EXCEPT ![l] = << >>]
  BY DEF MoveLog, DropAppends
<1>0. PICK lost : /\ log' = [log EXCEPT ![l] = Gone, ![m] = FlushedLog(l, lost)]
                  /\ due' = [due EXCEPT ![l] = {}, ![m] = StillDue(l, lost)]
  BY DEF MoveLog
<1>2. /\ LogOK(Lines(FlushedLog(l, lost)), << >>, StillDue(l, lost)) /\ FlushedLog(l, lost) \in Text \cup {Gone}
      /\ StillDue(l, lost) \subseteq due[l] /\ StillDue(l, lost) \subseteq 1..made
  BY <1>1, FlushedIs DEF LogsInv, LogInv
<1>3. open[m] = << >> /\ taken[m] = << >> /\ << >> \o << >> = << >> /\ << >> \in Text
  BY <1>1, NoText DEF LogsInv, LogInv
<1>4. /\ log' \in [Log -> Text \cup {Gone}] /\ log'[l] = Gone /\ log'[m] = FlushedLog(l, lost)
      /\ \A k \in Log \ {l, m} : log'[k] = log[k]
  BY <1>0, <1>1, <1>2 DEF LogsInv, LogsTyped
<1>5. /\ due' \in [Log -> SUBSET (1..MaxChanges)] /\ due'[l] = {} /\ due'[m] = StillDue(l, lost)
      /\ \A k \in Log \ {l, m} : due'[k] = due[k]
  BY <1>0, <1>1, <1>2 DEF LogsInv, LogsTyped
<1>6. /\ open' \in [Log -> Text] /\ taken' \in [Log -> Text] /\ open'[l] = << >> /\ taken'[l] = << >>
      /\ \A k \in Log \ {l} : open'[k] = open[k] /\ taken'[k] = taken[k]
  BY <1>1, <1>3 DEF LogsInv, LinesTyped
<1>7. live' \subseteq Log /\ l \notin live' /\ m \in live' /\ \A k \in Log \ {l, m} : k \in live' <=> k \in live
  BY <1>1 DEF LogsInv, LogsTyped
<1>8. LogInv(l)'
  BY <1>4, <1>5, <1>6, <1>7 DEF LogInv
<1>9. LogInv(m)'
  <2>1. taken'[m] \o open'[m] = << >> \o << >>
    BY <1>1, <1>3, <1>6
  <2>2. taken'[m] \o open'[m] = << >>
    BY <1>3, <2>1
  <2>3. LogOK(Lines(log'[m]), taken'[m] \o open'[m], due'[m]) /\ due'[m] \subseteq 1..made'
    BY <1>1, <1>2, <1>4, <1>5, <2>2
  <2> QED
    BY <1>7, <2>3 DEF LogInv
<1>10. \A k \in Log \ {l, m} : LogInv(k)'
  BY <1>1, <1>4, <1>5, <1>6, <1>7 DEF LogsInv, LogInv
<1> QED
  BY <1>4, <1>5, <1>6, <1>7, <1>8, <1>9, <1>10 DEF LogsInv, LogsTyped, LinesTyped

\* A drain takes the open lines behind those it has.
LEMMA TakeLogs ==
  ASSUME LogsInv, Take
  PROVE  LogsInv'
<1>1. /\ taken' = [l \in Log |-> taken[l] \o open[l]] /\ open' = [l \in Log |-> << >>]
      /\ UNCHANGED <<live, log, due, made>>
  BY DEF Take, pastVars
<1>2. LogsTyped' /\ LinesTyped'
  BY <1>1, LogIs, NoText DEF LogsInv, LogsTyped, LinesTyped
<1>3. \A l \in Log : (taken[l] \o open[l]) \o << >> = taken[l] \o open[l]
  BY LogIs, ConcatEmptySeq DEF Text
<1>4. << >> \o << >> = << >>
  BY NoText, ConcatEmptySeq DEF Text
<1>5. \A l \in Log : LogInv(l)'
  BY <1>1, <1>3, <1>4 DEF LogsInv, LogInv
<1> QED
  BY <1>2, <1>5 DEF LogsInv

\* A drain writes what it has taken; where that fails the lines are lost.
LEMMA WriteAppendsLogs ==
  ASSUME LogsInv, WriteAppends
  PROVE  LogsInv'
<1>1. PICK failing \in SUBSET {l \in Log : taken[l] # << >>} :
        /\ log' = [l \in Log |-> IF l \in failing THEN log[l] ELSE WriteAppend(log[l], taken[l])]
        /\ due' = [l \in Log |-> IF l \in failing THEN due[l] \ Changes(taken[l]) ELSE due[l]]
  BY DEF WriteAppends
<1>2. taken' = [l \in Log |-> << >>] /\ open' = open /\ live' = live /\ made' = made
  BY DEF WriteAppends
<1>3. ASSUME NEW l \in Log PROVE log'[l] \in Text \cup {Gone} /\ due'[l] \in SUBSET (1..MaxChanges) /\ LogInv(l)'
  <2>1. taken'[l] = << >> /\ open'[l] = open[l] /\ << >> \o open[l] = open[l]
    BY <1>2, LogIs, ConcatEmptySeq DEF Text
  <2>2. /\ log[l] \in Text \cup {Gone} /\ taken[l] \in Text /\ open[l] \in Text /\ Lines(log[l]) \in Text
        /\ due[l] \in SUBSET Nat /\ due[l] \in SUBSET (1..MaxChanges)
    BY LogIs DEF LogsInv, LogsTyped
  <2>3. CASE l \notin live
    <3>1. log[l] = Gone /\ taken[l] = << >> /\ open[l] = << >> /\ due[l] = {}
      BY <2>3 DEF LogsInv, LogInv
    <3>2. l \notin failing /\ log'[l] = WriteAppend(log[l], taken[l]) /\ due'[l] = due[l]
      BY <1>1, <3>1
    <3>3. log'[l] = Gone
      BY <3>1, <3>2 DEF WriteAppend
    <3> QED
      BY <1>2, <2>1, <2>2, <2>3, <3>1, <3>2, <3>3 DEF LogInv
  <2>4. ASSUME l \in live PROVE LogOK(Lines(log[l]), taken[l] \o open[l], due[l]) /\ due[l] \subseteq 1..made
    BY <2>4 DEF LogsInv, LogInv
  <2>5. CASE l \in live /\ l \in failing
    <3>1. log'[l] = log[l] /\ due'[l] = due[l] \ Changes(taken[l])
      BY <1>1, <2>5
    <3>2. LogOK(Lines(log[l]), open[l], due[l] \ Changes(taken[l]))
      BY <2>2, <2>4, <2>5, LoseOK
    <3> QED
      BY <1>2, <2>1, <2>2, <2>4, <2>5, <3>1, <3>2 DEF LogInv
  <2>6. CASE l \in live /\ l \notin failing
    <3>1. log'[l] = WriteAppend(log[l], taken[l]) /\ due'[l] = due[l]
      BY <1>1, <2>6
    <3>2. /\ WriteAppend(log[l], taken[l]) \in Text \cup {Gone}
          /\ LogOK(Lines(WriteAppend(log[l], taken[l])), open[l], due[l])
      BY <2>2, <2>4, <2>6, WriteAppendOK
    <3> QED
      BY <1>2, <2>1, <2>2, <2>4, <2>6, <3>1, <3>2 DEF LogInv
  <2> QED
    BY <2>3, <2>5, <2>6
<1>4. LogsTyped' /\ LinesTyped'
  <2>1. LinesTyped' /\ live' \subseteq Log
    BY <1>2, NoText DEF LogsInv, LogsTyped, LinesTyped
  <2>2. log' = [l \in Log |-> log'[l]] /\ due' = [l \in Log |-> due'[l]]
    BY <1>1
  <2>3. log' \in [Log -> Text \cup {Gone}] /\ due' \in [Log -> SUBSET (1..MaxChanges)]
    BY <1>3, <2>2
  <2> QED
    BY <2>1, <2>3 DEF LogsTyped
<1> QED
  BY <1>3, <1>4 DEF LogsInv

LEMMA FlushSyncLogs ==
  ASSUME LogsInv, FlushSync
  PROVE  LogsInv'
<1>0. PICK lost : log' = [l \in Log |-> FlushedLog(l, lost)] /\ due' = [l \in Log |-> StillDue(l, lost)]
  BY DEF FlushSync
<1>1. /\ open' = [l \in Log |-> << >>] /\ taken' = [l \in Log |-> << >>]
      /\ UNCHANGED <<live, made>>
  BY DEF FlushSync
<1>2. << >> \o << >> = << >> /\ << >> \in Text
  BY NoText, ConcatEmptySeq DEF Text
<1>3. LogsTyped' /\ LinesTyped'
  <2>1. \A l \in Log : FlushedLog(l, lost) \in Text \cup {Gone} /\ StillDue(l, lost) \subseteq due[l]
    BY FlushedIs
  <2> QED
    BY <1>0, <1>1, <1>2, <2>1 DEF LogsInv, LogsTyped, LinesTyped
<1>4. ASSUME NEW l \in Log PROVE LogInv(l)'
  <2>1. /\ log'[l] = FlushedLog(l, lost) /\ due'[l] = StillDue(l, lost)
        /\ open'[l] = << >> /\ taken'[l] = << >>
    BY <1>0, <1>1
  <2>2. CASE l \in live
    <3>1. LogOK(Lines(FlushedLog(l, lost)), << >>, StillDue(l, lost)) /\ StillDue(l, lost) \subseteq 1..made
      BY <2>2, FlushedIs DEF LogsInv, LogInv
    <3> QED
      BY <1>1, <1>2, <2>1, <2>2, <3>1 DEF LogInv
  <2>3. CASE l \notin live
    <3>1. FlushedLog(l, lost) = Gone /\ StillDue(l, lost) = {}
      BY <2>3, FlushedIs DEF LogsInv, LogInv
    <3> QED
      BY <1>1, <2>1, <2>3, <3>1 DEF LogInv
  <2> QED
    BY <2>2, <2>3
<1> QED
  BY <1>3, <1>4 DEF LogsInv

\* Everything queued is lost.
LEMMA CrashLogs ==
  ASSUME LogsInv, Crash
  PROVE  LogsInv'
<1>1. /\ due' = [l \in Log |-> due[l] \ (Changes(taken[l]) \cup Changes(open[l]))]
      /\ open' = [l \in Log |-> << >>] /\ taken' = [l \in Log |-> << >>]
      /\ UNCHANGED <<live, log, made>>
  BY DEF Crash
<1>2. << >> \o << >> = << >> /\ << >> \in Text
  BY NoText, ConcatEmptySeq DEF Text
<1>3. LogsTyped' /\ LinesTyped'
  BY <1>1, <1>2 DEF LogsInv, LogsTyped, LinesTyped
<1>4. ASSUME NEW l \in Log PROVE LogInv(l)'
  <2>1. due'[l] = due[l] \ (Changes(taken[l]) \cup Changes(open[l])) /\ open'[l] = << >> /\ taken'[l] = << >>
    BY <1>1
  <2>2. CASE l \in live
    <3> DEFINE rest == taken[l] \o open[l]
    <3>1. LogOK(Lines(log[l]), rest, due[l]) /\ due[l] \subseteq 1..made
      BY <2>2 DEF LogsInv, LogInv
    <3>2. /\ Lines(log[l]) \in Text /\ rest \in Text /\ rest \o << >> = rest
          /\ Changes(rest) = Changes(taken[l]) \cup Changes(open[l])
      BY LogIs, Joined, ConcatEmptySeq DEF Text
    <3> HIDE DEF rest
    <3>3. LogOK(Lines(log[l]), << >>, due[l] \ Changes(rest))
      BY <1>2, <3>1, <3>2, LoseOK
    <3> QED
      BY <1>1, <1>2, <2>1, <2>2, <3>1, <3>2, <3>3 DEF LogInv
  <2>3. CASE l \notin live
    BY <1>1, <2>1, <2>3 DEF LogsInv, LogInv
  <2> QED
    BY <2>2, <2>3
<1> QED
  BY <1>3, <1>4 DEF LogsInv

LEMMA LogsNext ==
  ASSUME LogsInv, made \in 0..MaxChanges, WriterNext
  PROVE  LogsInv'
<1>1. /\ made \in made..MaxChanges
      /\ made < MaxChanges => made + 1 \in made..MaxChanges
  BY WriterAssumption
<1>2. ASSUME NEW p \in Path, NEW blind \in BOOLEAN, Defer(p, blind) PROVE LogsInv'
  BY <1>1, <1>2, LogsStay DEF Defer
<1>3. ASSUME NEW p \in Path, Save(p) \/ ForeignWrite(p) PROVE LogsInv'
  BY <1>1, <1>3, LogsStay DEF Save, ForeignWrite
<1>4. ASSUME NEW p \in Path, SaveFails(p) \/ Delete(p) \/ ForeignDelete(p) \/ WriteFails(p) PROVE LogsInv'
  BY <1>1, <1>4, LogsStay DEF SaveFails, Delete, ForeignDelete, Removed, WriteFails
<1>5. ASSUME NEW p \in Path, Jam(p) \/ Unjam(p) PROVE LogsInv'
  BY <1>1, <1>5, LogsStay DEF Jam, Unjam, pastVars
<1>6. ASSUME NEW p \in Path, WriteFile(p) PROVE LogsInv'
  <2>1. UNCHANGED logVars /\ made' = made
    BY <1>6 DEF WriteFile, Superseded, WriteTemp, Rename, WriteMerged, Sleep, PutBack, pastVars
  <2> QED
    BY <1>1, <2>1, LogsStay
<1>7. ASSUME FlushWrites \/ FlushEnds PROVE LogsInv'
  BY <1>1, <1>7, LogsStay DEF FlushWrites, FlushEnds, pastVars
<1>8. ASSUME NEW l \in Log, ScheduleAppend(l) PROVE LogsInv'
  BY <1>8, ScheduleAppendLogs
<1>9. ASSUME NEW l \in Log, ReadLog(l) \/ DeleteLog(l) PROVE LogsInv'
  BY <1>9, OneLogs
<1>10. ASSUME NEW l \in Log, NEW m \in Log, MoveLog(l, m) PROVE LogsInv'
  BY <1>10, MoveLogs
<1>11. ASSUME Close \/ Exit PROVE LogsInv'
  BY <1>11, FlushSyncLogs DEF Close, Exit
<1>12. CASE Calls
  BY <1>2, <1>3, <1>4, <1>8, <1>9, <1>10, <1>11, <1>12 DEF Calls
<1>13. CASE Drain
  BY <1>6, <1>7, <1>13, TakeLogs, WriteAppendsLogs DEF Drain
<1>14. CASE World
  BY <1>3, <1>4, <1>5, <1>14, CrashLogs DEF World
<1> QED
  BY <1>12, <1>13, <1>14 DEF WriterNext

-----------------------------------------------------------------------------
(* The writer *)

WriterInv == FilesInv /\ DrainInv /\ LogsInv

LEMMA WriterInvInit ==
  ASSUME WriterInit
  PROVE  WriterInv /\ Promise!Init
<1>1. PICK t \in {Gone, << >>} : disk = [p \in Path |-> t]
  BY DEF WriterInit
<1>2. t \in Text \cup {Gone} /\ Changes(t) = {} /\ (t # Gone => Once(t))
  BY NoText
<1>3. /\ pending = [p \in Path |-> NoWrite] /\ inFlight = [p \in Path |-> NoWrite]
      /\ safe = [p \in Path |-> {}] /\ foreign = [p \in Path |-> {}] /\ stale = {}
      /\ made = 0 /\ losses = 0 /\ 0 \in 0..MaxChanges
  BY WriterAssumption DEF WriterInit
<1>4. FilesInv
  <2>1. FilesTyped
    BY <1>1, <1>2, <1>3 DEF FilesTyped, Entry
  <2>2. ASSUME NEW p \in Path PROVE FileInv(p)
    <3> DEFINE st == p \in stale
    <3>1. /\ disk[p] = t /\ pending[p] = NoWrite /\ inFlight[p] = NoWrite
          /\ safe[p] = {} /\ foreign[p] = {}
      BY <1>1, <1>3
    <3> HIDE DEF st
    <3>2. FileOK(t, NoWrite, NoWrite, {}, {}, st, made)
      BY <1>2, <1>3, WholeOK
    <3> QED
      BY <3>1, <3>2 DEF FileInv, st
  <2> QED
    BY <2>1, <2>2 DEF FilesInv
<1>5. DrainInv
  <2>1. /\ busy = {} /\ retrying = {} /\ timer = FALSE /\ chain = 0 /\ drain = Idle /\ batch = {}
        /\ jams = 0 /\ losses = 0 /\ deletes = 0
        /\ open = [l \in Log |-> << >>] /\ taken = [l \in Log |-> << >>]
    BY DEF WriterInit
  <2>2. /\ Idle \in [phase : {"idle", "loop", "temp", "sleep"}, at : Path \cup {Gone}, tries : 0..Tries]
        /\ Idle.phase # "temp" /\ 0 \in 0..MaxChain /\ 0 \in 0..MaxBusy /\ 0 \in 0..MaxLosses /\ 0 \in 0..MaxDeletes
    BY WriterAssumption DEF Idle
  <2>3. QueueTyped
    BY <2>1, <2>2 DEF QueueTyped
  <2> QED
    BY <1>3, <2>1, <2>2, <2>3 DEF DrainInv, NothingStranded
<1>6. LogsInv
  <2>1. /\ open = [l \in Log |-> << >>] /\ taken = [l \in Log |-> << >>]
        /\ log = [l \in Log |-> Gone] /\ due = [l \in Log |-> {}] /\ live \subseteq Log
    BY DEF WriterInit
  <2>2. << >> \in Text /\ << >> \o << >> = << >> /\ Changes(<< >>) = {} /\ Lines(Gone) = << >> /\ Len(<< >>) = 0
    BY NoText, ConcatEmptySeq DEF Text, Lines
  <2>3. LogOK(<< >>, << >>, {})
    BY <2>2 DEF LogOK, Rising
  <2> QED
    BY <2>1, <2>2, <2>3 DEF LogsInv, LogsTyped, LinesTyped, LogInv
<1>7. [p \in Path |-> EffectiveText(p)] \in [Path -> {Gone, << >>}]
  <2>1. \A p \in Path : EffectiveText(p) = t
    BY <1>1, <1>2, <1>3, OnIs DEF EffectiveText, Entry
  <2> QED
    BY <2>1
<1> QED
  BY <1>3, <1>4, <1>5, <1>6, <1>7 DEF WriterInv, Promise!Init

LEMMA WriterInvNext ==
  ASSUME WriterInv, [WriterNext]_writerVars
  PROVE  WriterInv' /\ [Promise!Next]_(Promise!vars)
<1>1. CASE WriterNext
  <2>1. FilesTyped /\ LinesTyped /\ made \in 0..MaxChanges
    BY DEF WriterInv, FilesInv, FilesTyped, LogsInv
  <2>2. FilesInv' /\ Promised /\ DrainInv' /\ LogsInv'
    BY <1>1, <2>1, FilesNext, QueueNext, LogsNext DEF WriterInv
  <2> QED
    BY <2>2 DEF WriterInv, Promised
<1>2. CASE UNCHANGED writerVars
  <2>1. /\ UNCHANGED <<disk, pending, inFlight, safe, foreign, stale, made, losses, jams, deletes>>
        /\ UNCHANGED logVars /\ UNCHANGED <<busy, retrying, timer, chain, drain, batch, open, taken>>
    BY <1>2 DEF writerVars, queueVars, logVars, pastVars
  <2>2. made \in 0..MaxChanges /\ made' \in made..MaxChanges
    BY <2>1, WriterAssumption DEF WriterInv, FilesInv, FilesTyped
  <2>3. FilesInv'
    BY <2>1, <2>2, QuietFiles DEF WriterInv
  <2>4. \A p \in Path : EffectiveText(p)' = EffectiveText(p)
    BY <2>1, <2>2, OtherFile DEF WriterInv
  <2>5. UNCHANGED Promise!vars
    <3>1. [p \in Path |-> EffectiveText(p)]' = [p \in Path |-> EffectiveText(p)]
      BY <2>4
    <3> QED
      BY <2>1, <3>1 DEF Promise!vars
  <2>6. DrainInv'
    <3>1. Counted /\ busy' \subseteq Path
      BY <2>1 DEF WriterInv, DrainInv, QueueTyped, Counted
    <3> QED
      BY <2>1, <3>1, QueueStays DEF WriterInv
  <2>7. LogsInv'
    BY <2>1, <2>2, LogsStay DEF WriterInv
  <2> QED
    BY <2>3, <2>5, <2>6, <2>7 DEF WriterInv
<1> QED
  BY <1>1, <1>2

LEMMA WriterFacts ==
  ASSUME WriterInv
  PROVE  WriterTypeOK /\ ChangesSurvive /\ NothingStranded /\ LogWhole
<1>1. WriterTypeOK
  BY DEF WriterInv, FilesInv, FilesTyped, DrainInv, QueueTyped, LogsInv, LogsTyped, LinesTyped, WriterTypeOK, Entry
<1>2. ChangesSurvive
  <2>1. \A p \in Path : Survives(disk[p], inFlight[p], pending[p], safe[p], foreign[p], p \in stale)
    BY DEF WriterInv, FilesInv, FileInv, FileOK
  <2> QED
    BY <2>1 DEF Survives, ChangesSurvive, SyncWriteSurvives, OthersKept
<1>3. NothingStranded
  BY DEF WriterInv, DrainInv
<1>4. LogWhole
  <2> SUFFICES ASSUME NEW l \in Log
               PROVE  LET lines == Lines(log[l])
                          all == lines \o taken[l] \o open[l]
                      IN IF l \in live
                         THEN /\ \A i, j \in DOMAIN all : i < j => all[i] < all[j]
                              /\ \/ Changes(all) = due[l]
                                 \/ /\ Len(lines) >= (KeepLines + 2) \div 2
                                    /\ Changes(all) = {n \in due[l] : n >= all[1]}
                         ELSE log[l] = Gone
    BY DEF LogWhole, Lines
  <2> DEFINE lines == Lines(log[l])
             all == (lines \o taken[l]) \o open[l]
  <2>1. lines \in Text /\ taken[l] \in Text /\ open[l] \in Text /\ taken[l] \o open[l] \in Text
    BY LogIs DEF WriterInv
  <2>2. all = lines \o (taken[l] \o open[l]) /\ all \in Text
    <3> HIDE DEF lines
    <3>1. all = lines \o (taken[l] \o open[l])
      BY <2>1, JoinedTwice
    <3>2. lines \o (taken[l] \o open[l]) \in Text
      BY <2>1, Joined
    <3> QED
      BY <3>1, <3>2
  <2>3. DOMAIN all = 1..Len(all)
    <3> HIDE DEF all
    <3> QED
      BY <2>2, TextIs
  <2>4. /\ l \in live => LogOK(lines, taken[l] \o open[l], due[l])
        /\ l \notin live => log[l] = Gone
    BY DEF WriterInv, LogsInv, LogInv
  <2> HIDE DEF lines
  <2>5. l \in live => /\ Rising(all)
                      /\ \/ Changes(all) = due[l]
                         \/ /\ Len(lines) >= (KeepLines + 2) \div 2
                            /\ Changes(all) = {n \in due[l] : n >= all[1]}
    BY <2>2, <2>4 DEF LogOK
  <2> QED
    BY <2>3, <2>4, <2>5 DEF Rising, lines
<1> QED
  BY <1>1, <1>2, <1>3, <1>4

LEMMA WriterSafe == WriterSpec => []WriterInv
<1> QED
  BY WriterInvInit, WriterInvNext, PTL DEF WriterSpec

\* The state of the writer, its queue, its drain and the logs has its type.
THEOREM WriterTyped == WriterSpec => []WriterTypeOK
<1>1. WriterInv => WriterTypeOK
  BY WriterFacts
<1> QED
  BY <1>1, WriterSafe, PTL

\* asyncWriter.ts, its header: no deferred write erases a change written
\* synchronously, and no queued merge one that another process made, however
\* calls, drains, retries, failures, deletions and crashes are interleaved.
THEOREM ChangesAlwaysSurvive == WriterSpec => []ChangesSurvive
<1>1. WriterInv => ChangesSurvive
  BY WriterFacts
<1> QED
  BY <1>1, WriterSafe, PTL

\* scheduleWrite, armTimer and drainOnce: what is queued has a timer or a flush
\* that will look at it, and what is taken a drain that is not done with it.
THEOREM NothingEverStranded == WriterSpec => []NothingStranded
<1>1. WriterInv => NothingStranded
  BY WriterFacts
<1> QED
  BY <1>1, WriterSafe, PTL

\* scheduleAppend, flushAppendSync and trimJsonl: a turn log has every line said
\* once and in order, but for what a failure or the cap took, for any cap.
THEOREM LogsAlwaysWhole == WriterSpec => []LogWhole
<1>1. WriterInv => LogWhole
  BY WriterFacts
<1> QED
  BY <1>1, WriterSafe, PTL

\* The debounced writer implements DeferredFile: its reader sees every change at
\* once, in order, and only a failure or a deletion takes one back.
THEOREM WriterKeepsPromise == WriterSpec => KeepsPromise
<1>1. WriterInit => Promise!Init
  BY WriterInvInit
<1>2. WriterInv /\ [WriterNext]_writerVars => [Promise!Next]_(Promise!vars)
  BY WriterInvNext
<1> QED
  BY <1>1, <1>2, WriterSafe, PTL DEF WriterSpec, KeepsPromise, Promise!Spec
=============================================================================
